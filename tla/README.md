# Verification of labwc-config

TLA+ models, TLC runs and TLAPS proofs for the programs of this repository.
The launcher, the one long-running concurrent program in it, comes first; the
plan below lists what follows.

## 1. The system

| Component | State it keeps | Operations | Talks to | What makes it hard | What makes it correct |
|---|---|---|---|---|---|
| **Session** `launcher/core/src/session.rs` | choices, order, query, matches, selected, top | `new`, `handle(key)`, `click`, `scroll`, `rows` | called by the daemon, which acts on the returned `Outcome` | selection and window are repaired by three different operations; the caller repaints only on `Redraw` | selection visible, window full, only visible rows are chosen, `Redraw` exactly on change |
| **Ranking** `launcher/core/src/rank.rs` | none | `search` | called by the session | overlapping occurrences, ties, order | every match once, tiers and ties as promised |
| **Daemon** `launcher/daemon/src/{daemon,wayland}.rs` | view, layer surface, `configured`, catalog, feedback, waiting client (inside the view) | requests, keys, pointer, configure, close, focus, scale, reload | clients (socket), compositor (Wayland), session, feedback | a dozen ways to leave the screen; a list replaced on a mapped surface; events for what is gone | surface iff view, no forgotten client, the screen shows the view, a pick names what was on screen |
| **Launch feedback** `launcher/daemon/src/feedback.rs` | surface, toplevel list, listening, window flag, start time, timer | start or refresh, tick, end, toplevel, sync done | compositor, event loop timers, daemon | answers to an ended feedback reach the next one; six ways to end | counts only new windows, ends, leaks nothing, never paints early |
| **Socket server** `launcher/daemon/src/server.rs` | per connection: bytes read | bind, accept, read until end of file, reply | client, daemon | probe and bind race; truncated requests; blocking reply | one daemon, one request per connection, at most one answer |
| **Devices and Meta tap** `daemon/src/{main,evdev,inotify}.rs`, `core/src/tap.rs` | open devices, recognizer (down time, armed, suspended), guard marker | add device, read events, tap, guard | kernel, daemon | several devices, hot-plug, lost events, persisted guard | a tap is a lone, short Meta press; the guard survives a restart |
| **Catalog** `daemon/src/catalog.rs`, `core/src/desktop_entry.rs` | entries, reload-pending flag | load, collect, delayed reload | file system, daemon | a change between scan and watch; precedence | the catalog becomes what is on disk |
| **Client** `launcher/client/src/main.rs` | one connection | send, half-close, wait | daemon | daemon absent, dies, answers late | exit status says what happened |
| **Pager** `launcher/pager/src/` | workspaces, active, done | watch, activate, next, prev | compositor, panel | batches, reconnects, two pagers at once | prints only complete states, activates an existing workspace |
| **First boot** `installer/src/first-boot*.ts` | LUKS slots (on disk) | enroll, remove passphrase | systemd-cryptenroll, firmware, user | stops between two slot changes, a firmware that does not enforce signatures | the owner can always unlock; the passphrase goes only for a TPM2 key that is worth it |
| **Installer steps** `installer/src/*.ts` | disk, target root, keys in the firmware | some sixty commands in one order | shell, host, firmware | a run fails anywhere and is repeated; later steps undo earlier ones; others use the disk | what is erased was reported idle, a run can be repeated, nothing settled is undone |
| **Snapshots** `installer/src/snapshots.ts` | Snapper settings | configure, first snapshot | Snapper, Limine | limits of two tools | entries stay within the limit |
| **Boot hook** `installer/shim/` | `grubx64.efi` | compare, copy, sync, rename | limine-entry-tool | power loss, re-signing meanwhile | the file is a whole Limine |
| **Helpers** `helpers/src/` | pipes, child processes | pipelines, screenshots, clipboard, menus; UTF-8 | cliphist, the launcher's dmenu, wl-copy, slurp, grim, swappy | full pipes on both sides, ends left open, programs that die in the middle | helpers end, return what was written, and report success for the whole only |
| **Packaging and publication** `packaging/`, `.github/workflows/pacman-repo.yml` | release assets | build, sign, upload, delete | pacman clients | uploads are not atomic | a database names packages that exist |
| **Units and configuration** `user-unit/`, `session/`, `system/`, `config/` | none | restart the daemon | systemd | - | - |
| **Archive** `archive/` | retired | - | - | - | not part of the system |

`PROJECT.json` lists the same components with their status, and every hazard
at the line where it bites.

## 2. Plan

Built so far, in this order: `Session` and `Rank` (operators), `LauncherSession`,
`LaunchFeedback`, `DmenuService` (abstract), `LauncherDaemon` (refines it), `MetaTap`
(operators) and `TapDevices`, `DeviceWatch`; `Installer` (operators), `FirstBoot` and
`Installation`, which composes them; `Utf8` (operators) and `Helpers`; and the proofs about
the session, the daemon with its refinement of `DmenuService`, launch feedback, the devices,
the watch, the installer (first its steps, then the installation they make), and the helpers'
UTF-8 and pipelines.

Next, most important first:

1. `SocketLifecycle`: probe, remove, bind of several daemons; chunked requests,
   a prefix of a request; a reply into a bounded buffer.
2. `Publication`: assets of the release that are uploaded, replaced and deleted by one or
   two publishing jobs, against clients that read the database and then a package.
3. `Pager`: batches of workspace events, reconnect, two `next` at once. Abstract: a
   list with an active element.
4. `Catalog`: precedence of directories and hidden entries, as operators against a
   reference definition.
5. `BootHook` (file replacement under power loss, the layout of a PE file), `Snapshots`.

A theorem still worth proving is the inductive invariant of `SocketLifecycle`, once it is written.

## 3. Modules

**`Session`** - the session as operators on a record (`choices, order, query,
matches, selected, top`). Each operation returns the session and the outcome, as
`&mut self` methods that return an `Outcome` do. `selected` and `top` count from 0;
choices count from 1. The ranking is a constant operator `Search`, of which only its
range is assumed, so the proofs hold for any ranking.

**`Rank`** - `search` with the code's tiers. `MatchIndices` reports occurrences as
`str::match_indices` does, from the left and without overlap. The second half states
the promised ranking without reference to how occurrences are found. `RankedSearch` puts each
match at the place that the number of matches before it says. Letters are ASCII.

**`LauncherSession`** - a session on its own: any input in any order until one
chooses or dismisses; then the next list opens. The actions `Type` and `Press` are
`key_pressed`, `ClickRow` and `Wheel` are `pointer_frame`.

**`LaunchFeedback`** - `feedback.rs`, with the parts of `wayland.rs` and
`draw_feedback` it relies on, against a compositor. The two directions of the Wayland
connection are FIFO queues. Each feedback has a number, and its surface, list, callback
and timer carry it; the code compares the identities of surfaces and lists only, and
so do the guards. Time counts spinner steps; `elapsed` restarts at `Refresh` as `started`
does. Binding the list and registering the timer may fail. `history` is
observed by properties and read by no action.

**`LauncherDaemon`** - one action per callback of the event loop:

| action | code |
|---|---|
| `HandleInvalid` ... `HandleDmenu` | `handle_request`, called by `read_request` at end of file |
| `KeyPressed`, `ClickOn`, `WheelOn` | `key_pressed`, `pointer_frame`, then `apply` |
| `Tap` | `handle_key_event` |
| `Configure`, `SurfaceClosed`, `ScaleFactorChanged`, `FocusLeaves` | the handlers in `wayland.rs` |
| `FeedbackEnds` | `feedback_tick` when it ends feedback |
| `ReloadCatalog` | the reload timer |
| `Request`, `Killed` | a client process |
| `Exit`, `Start` | the signals or a crash, and the unit's restart |

`Show`, `Hide`, `CancelDmenu`, `Toggle`, `Draw`, `ActivateChoice`, `Apply` and
`StartFeedback` are the methods of these names and are part of the actions that call
them. `view.client` is the connection inside `View::Dmenu`; a connection is `held` from
the moment `handle_request` stores it until it is answered or dropped. `screen` is what
was last painted; painting may fail (no buffer). `spawned` is what the latest
step started.

**`DmenuService`** - the abstract promise to dmenu clients: answered at most once, one
menu on screen, a chosen line only from the menu on screen, and no menu leaves the screen
without its client's answer. `LauncherDaemon!Service` is the refinement mapping.

**`MetaTap`** - the recognizer as operators on a record: `Feed` and `FeedMeta` return the
recognizer and the action. Codes are left Meta, F12 and anything else, because the
recognizer tells no more apart. **`TapDevices`** feeds it: every device has a queue in the
kernel (`unread`), the event loop reads one device until nothing is left (`reading`),
and may be busy meanwhile; `FeedNext` is the device source and `handle_key_event`,
`GuardChanged` writes the flag file and may fail. Devices come and go, the daemon stops
(the file is removed), crashes (it stays) and starts (it is read). `since` says what a
device's Meta has seen; only properties read it, through the event that carries it.

**`DeviceWatch`** - the start of the daemon (`Load`, `Watch`, `Scan`, `Run`, in the code's
order, with devices and packages changing between the steps), and the handler of the watch
(`HandleChanges`), which takes all changes that are unread, opens what is new and readable,
forgets what is gone, and schedules a reload unless one is. A change carries only
its name, and the handler looks at the file system as it is by then. `catalog` compares the
catalog with the disk: `due` after a change that was reported, `overlooked` after
one that cannot be (before the watches, in a directory that is not watched, or when
scheduling failed).

**`Installer`** - every function of `installer/src` that runs commands is an operator that
returns them as a list; `Install` concatenates them in the order of `install()`. A command
(`Do`, `New`, `InTarget`, `File`, after `shell.run`, `inTarget` and `shell.writeFile`) is a
record of *facts*: what must hold for it to work, what must not hold (`cryptsetup open` of a
mapping that is open), what holds after it, and what no longer does. A file that the boot files
are built from takes away `current`; a file in the home directory takes away `home-owned`; a
write to the root file system takes away `snapshot`. `AssertTargetDisk` judges what `FlattenDevice`
makes of the disk, as `disk-guard.ts` does of lsblk's report.

**`FirstBoot`** - one action per command and question of `first-boot.main.ts`, from
`Launch` to `CheckRemoval`. The key slots are on the disk; `step` is lost when the program
stops, which it may do anywhere (`Stop`).

**`Installation`** - both over the life of a machine: `RunCommand` takes the next command of
the plan, `CommandFails` stops in the middle of it with none, the destructive half or all of
its effect, `Refuse` is a check that throws. At any time on the host, also
during a run, others mount or map the disk or let go of it (`UseDisk`). Between runs the user
cleans up as the installer's last message says (`CleanUp`). The host
restarts or loses power (what is in memory is gone), and in the firmware the switch and the
keys change (`ChangeFirmware`, `EnrollMok`). `BootTarget` needs what the firmware needs to
load the system and something that opens the disk. `reported` is a history: whether the run
that is on has had lsblk list the disk whole and idle; no action reads it.

**`Utf8`** - `encodeUtf8` and `decodeUtf8`; the decoder is folded over the bytes one at a time.
The last part states what decoding is by Unicode's table of well-formed sequences,
without a decoder: text is cut into pieces (`PieceEnd`), and each stands for a character or a
replacement (`Value`).

**`Helpers`** - `runPipeline` and the four programs that call it. Process 0 is the helper; ends of
pipes are tuples of who has which end open, so that the end of a file and SIGPIPE follow from
what is closed. `Exec` is one turn of the loop over the commands (create the pipe, start,
close both ends that are not needed), `WriteInput` and `CloseInput` are `writeAll`,
`ReadOutput` and `EndOutput` are `readAll`; `ClipboardPick`, `PanelMenu`, `ScreenshotRegion` and
`Screenshot` are what each program does with a pipeline that has returned. The programs they
run are external: they read to the end, or ask the user, write in portions of any size, and
fail at any point.

### Abstractions

- Facts have no contents: what a configuration says, which packages bring what beyond what later
  commands need, and the validation of `machine.json` are left out. The umask and the firmware's
  quirks may pass or fail at any time.
- Others use the disk at any moment, so also between lsblk's report and `wipefs`. Nothing in the
  code closes that gap: `wipefs` runs with `--force` (`disk.ts:126`), which skips its own
  check. Which tool refuses a disk in use is left open: every command may fail at any time.
  Mounting needs something to mount (what was on the disk before, or the ESP), mapping needs
  a LUKS header or something from before; closing a mapping is not refused while it is mounted.
  A desktop is installed from its own live
  medium or host, a guest perhaps from another machine; a live medium or a host with the
  optimized repositories is assumed (`MachinesAssumption`), because a host with neither has no
  script to find them.
- `writeAll` without a reader kills the helper (`InputBreaks`), as SIGPIPE does by default. Where
  the signal is ignored, `writeAll` returns (`process.qjs.ts:56`) and the helper goes on to read
  and wait; this is not modelled.
- An error of inotify (`main.rs:251`), which drops a batch of changes, is left out of `HandleChanges`.
- Who can type the recovery key back has it (`held`): the model does not ask how it was copied.
- A pipe holds `Capacity` bytes. One helper runs at a time; what its programs leave running is
  over before the next starts. The first line of a list that names an entry is the
  entry's: cliphist goes by the id before the tab.
- Surface identities may be reused after the surface is gone; this adds behaviours.
- Keys name no surface. Pointer events reach only a mapped, configured surface.
- A request is one record, read when the client has finished writing. Requests that
  are empty, too long or undecodable are `invalid`. A client killed while writing is
  left for `SocketLifecycle`.
- A click counts at the release. The spinner's position and label, prompts, child
  reaping and trace marks are left out; `Tap` may come at any time, which includes the
  times `TapDevices` allows.
- In `TapDevices` a plugged device is open at once if the daemon runs; `DeviceWatch` has
  the steps between. Autorepeat, which the recognizer ignores, sends no event. The
  kernel's queue does not overflow.
- In `DeviceWatch` every node is a keyboard or a pointer; others are opened and closed
  again. inotify reports every change of a watched directory (its queue does not overflow),
  and a node that goes is reported by the reset of its permissions. Registering a
  device with the event loop does not fail.
- `LaunchFeedback` and `LauncherDaemon` meet at `StartFeedback` and `FeedbackEnds`: the
  daemon keeps only the feedback's surface and lets it end at any time, which includes
  every end `LaunchFeedback` has.

## 4. Runs

| run | shows | instance |
|---|---|---|
| `session` | all properties of `LauncherSession` | three lists (empty, and two of five or four names with all tiers, upper case and duplicates), 2 visible rows, queries up to 3 characters: lists longer than twice the window, every tier, no match at all |
| `word_start` | **violation**: a word start is missed behind an overlapping occurrence | names with "a a" twice |
| `feedback` | safety and termination of feedback | 2 feedbacks, 3 launches, 2 windows, `Minimum` 1, `Timeout` 3: the answers of the first reach the second, the third launch refreshes either, and feedback can last past the minimum without reaching the timeout |
| `stale_sync` | **violation**: the previous feedback's callback makes the next one count old windows | as `feedback` |
| `daemon` | safety of the daemon and refinement of `DmenuService` | 2 clients, 2 surfaces, catalogs of 3 and 2 entries in which indices shift, one menu of 3 lines, 2 visible rows, queries of 1 character; symmetric in clients and surfaces |
| `daemon_live` | requests are handled, views configured | as `daemon` with one list of one row, no symmetry |
| `taps` | safety of taps and the guard | a keyboard with Meta and F12 and a mouse, 2 unread events each, a window of 1 in a clock of 2: presses within and beyond the window, a whole tap queued, an unplug or a crash at any point of it |
| `meta_click` | **violation**: a click during Meta is read after it | as `taps` |
| `device_watch` | no device missed or read twice, no reported change forgotten | 2 nodes, one source of changes: one node changes while another is handled |
| `replug` | **violation**: a device replugged before its changes are read stays closed | as `device_watch` |
| `installation` | safety of installation and first boot | desktops and guests, with and without SSH, from a live medium, an installed host and another machine, and targets that are partitions: 8 machines |
| `helpers` | helpers end, return what was written, report success for the whole only | pipes of 2 bytes, two entries of which one id begins like the other and one preview is a character of four bytes, two labels of which one begins like the other; besides, decoding against the table for all strings of up to 4 of 11 border bytes |

The installation has no bound besides the set of machines: runs, failures, restarts and firmware
changes may repeat without end. Pipes of two bytes are shorter than every list, entry and image, so
every writer blocks and every read is short. Two clients are enough for one menu to replace another, and two surfaces for the
launcher and feedback, or for an old surface and a new one. Bounds:
`MaxQuery` (length of a query), `MaxFeedbacks`, `MaxLaunches`, `MaxWindows`;
`MaxTime` (clock), `MaxUnread` (events of a device);
`VisibleRows` is 11 in the code. Each client makes one request, which is what the
client program does. `LaunchFeedback` runs without the deadlock check because it rests
once its bounds are used up.

What the properties say, beyond types:

- `SelectionVisible`, `WindowFull`, `ChoiceWasVisible`, `RedrawIffChanged`,
  `MatchesAreRanked` for the session;
- `OwnCallbackCountsNewWindows`, `NothingLeaks`, `PaintedAfterConfigure`, `EndsForAReason`, `FeedbackEnds` for feedback;
- `ViewHasSurface`, `LauncherExcludesFeedback`, `HeldIsShown`, `IndexedLikeChoices`,
  `ScreenCurrent`, `PickWasOnScreen`, `DmenuPromise`, `RequestsAreHandled`,
  `ViewsGetConfigured` for the daemon. `ScreenCurrent` takes each result of an input as the
  session gives it: that a session never calls a change Ignored is `RedrawIffChanged`.
  `PickWasOnScreen` asks for some row with the text of what is picked, not for the one the user
  meant: a list that takes the place of another between press and release decides;
- `GuardIsRecorded`, `SuspendedIsSilent`, `TapsAreShortAndLone` for taps. The last one is
  about a keyboard's own keys, and is checked with one keyboard that has Meta. With two,
  the recognizer, which does not know which device an event comes from, can take the press
  of one and the release of the other for a tap;
- `ReadOnce`, `DevicesAreOpened`, `CatalogIsDue`, `CatalogCatchesUp` for the watch.
  `DevicesAreOpened` is about the remembered name; that a remembered device need not be one
  that is read is the run `replug`;
- `ErasedAsReported`, `RunsCanBeRepeated`, `FinishedIsSettled` for the installer,
  `Unlockable` and `PassphraseIsReplaced` for the key slots. `ErasedAsReported` says that what
  is on a disk is lost only to a run that has itself had lsblk list the disk whole and idle, and
  never with the installer's own mapping or mounts on it. It does not say that nothing
  uses the disk at that moment: who began after the report is not noticed, in the model as in
  the code, so "before any write when the target is in use" (`disk.ts:114`) holds of the report
  only. `FinishedIsSettled` says what stays as install() left it; install() leaves the target
  mounted and the mapping open, and its last message asks the user to close them. `RunsCanBeRepeated` says that a
  command whose checks passed finds what it needs after *any* history, not that it succeeds;
- `HelpersEnd`, `OutputIsWhole`, `CleanExitMeansWhole` for the helpers. A failure in the
  middle of `cliphist decode` does leave part of an entry in the clipboard; what holds is that the
  helper then reports it. A picker that fails counts as a dismissal, as in the code.

### Four disagreements between code and comments

- `word_start`: `rank.rs:12` says a name is in the second tier when a word inside it starts
  with the query. For the query "a a" the name "ba a a" has such a word, but
  `match_indices` (`rank.rs:25`) reports only the earlier, overlapping occurrence. Queries
  of word characters are not affected: for them the promise is proved (`RankingIsPromised`).
- `stale_sync`: `feedback.rs:58` says `listening` means the existing windows have
  all been announced. The callback (`feedback.rs:226`) does not know which feedback asked, so
  one that was under way when feedback ended and started again makes the new feedback
  listen early. `OwnCallbackCountsNewWindows` is what remains true.
- `meta_click`: `evdev.rs:4` says pointer buttons are read because a Meta click must not
  count as a tap. Each device is read to its end before the next (`main.rs:194`), so when
  the loop was busy the click can be read after the release of Meta. What remains is
  `TapsAreShortAndLone`: keys of the same keyboard are never missed.
- `replug`: `main.rs:275` says forgetting removed devices lets a replugged device reopen. It
  does when the removal is read before the device is back; otherwise the name is in
  `open_devices` when the change is handled and still exists when names are forgotten.

### Fairness

`LauncherDaemon` assumes that the event loop dispatches a readable connection
(level-triggered sources; `HandleRequest` per client) and that the compositor sends the
first configure it owes a new layer surface (the layer-shell protocol). Nothing is
assumed of users, clients or later configures. `LaunchFeedback` assumes that a registered
timer fires, that the daemon reads its connection, and that the compositor serves
requests in order. `FeedbackEnds` says "once launches stop" because each launch restarts
the clock, and in the model they stop at `MaxLaunches`. `DeviceWatch` assumes that the
start continues once the watch is set up (`Scan`, `Run`), that the event loop reads a watch that has
changes (`HandleChanges`) and that its timer fires (`Reload`). `Helpers` assumes that a helper
and each of its programs goes on when it does not wait for a pipe, a program or the user;
of the user nothing is assumed, so `HelpersEnd` allows a menu to stay open. (Its weak fairness is
written out with its enabling conditions, because TLC would otherwise decode the output to
find out what is enabled.) `TapDevices` and `Installation` state safety only: who installs
may give up.

## 5. Proofs

All theorems are about every value of the constants that satisfies the named
assumptions (`SessionAssumption`, `RankingAssumption`, `ScrollAssumption`, `DaemonAssumption`,
`TapAssumption`, `DevicesAssumption`, `WatchAssumption`, `MachinesAssumption`, `HelpersAssumption`). The first
four say only that lists and texts are sequences of characters, that `Search` returns indices
of the list it was given, each at most once, that the window has at least one row, and that
there are two surfaces; the others only that devices have keys, bounds are numbers, and the change of an
application directory is not the name of a device.

- `Session_proofs` - lemmas on each operator of `Session`: the result of every operation
  is a session with good selection and window, whatever the input. `Handle`,
  `Click` and `Scroll` have one lemma each, used by both proofs below.
- `LauncherSession_proofs` - the invariant `TypeOK /\ SelectionVisible /\ WindowFull` is
  inductive as it stands. The three conjuncts need each other: `Scroll` keeps the
  selection on a match only because the window was full, and `Select` keeps the
  window full only because the position selected is a match. `ChosenRowsWereVisible`
  follows from the same invariant. `RedrawsExactlyChanges` is about what the rows tell: two
  sessions with the same matches that draw the same rows have the same window and selection,
  because a match is listed once; so an operation that reports no redraw has moved neither.
- In the same module, the ranking. `Least` (a set of numbers has a least one) is the induction
  over positions; with it `Reported` says that `MatchIndices` satisfies its own recursion,
  `TierIsPromised` that an occurrence at the start of a word overlaps no earlier one when the
  query holds no word break, and `TextLessOrders` that texts are in a strict total order.
  `Places` counts: in a finite strict total order the number of elements below one is its
  place, and the places have no gaps. So `RankingIsPromised` holds for every query of word
  characters, every list of names and both orders, and `MatchesAlwaysRanked` follows
  for sessions. It has two hypotheses: that the constant `Search` is that ranking
  (`SearchIsRanked`), and that what is typed holds no word break (`WordsAreTyped`), without which
  the run `word_start` violates it.
- `LauncherDaemon_proofs` - the invariant `IInv` joins `ShownInv` (types, surface iff view,
  a well-formed session whose choices are the names or lines behind the view, and a
  configured surface that shows the view unless painting failed), `FeedbackInv` (never a
  list and feedback), `HeldBy` (the held connections are the view's client) and
  `RestInv` (the other types). No named property is inductive alone: `hide()` answers
  a client only if the view is a menu, while `toggle()` decides by the surface, so both
  need `ViewHasSurface`; `ScreenCurrent` needs it to know that a list that comes up is not
  configured yet; `HeldIsShown` needs the view's type to know whom it answers; and a
  session must be well formed for an input to return one with the same choices.
  `PicksAreOnScreen` follows: the screen is the view (`ScreenCurrent`), the row chosen is one
  of its rows (`Session_proofs`), and what it stands for is what the entries or lines behind
  the view hold at its place (`IndexedLikeChoices`); no other step starts or answers anything.
- In the same module, the refinement: the daemon implements `DmenuService`, for any number of
  clients and any menus. `StageOf` says what one connection is to the service, and `Asked` is
  the refinement mapping. `AskStep` to `OutageStep` turn a change of `Asked` into a step of the
  service; `KeptStep`, `CancelStep`, `ToggleStep` and `ActivateStep` say what the parts the
  handlers share do to `Asked`; one lemma per group of actions combines them. It rests on
  `IInv`: `hide()` answers one connection, and `HeldBy` and
  `ViewHasSurface` are why that is everyone on screen, and why the line it answers with is
  one of the menu shown.
- `LaunchFeedback_proofs` - every safety property of `LaunchFeedback`, for any bounds. The
  argument is about the order of the two queues. `Followed(q, a, b)` says that every `a` in
  `q` has a `b` behind it: each `surface` and `bind` of an ended feedback still has its
  `destroy` and `stop` behind it (`Released`), which is what makes `NothingLeaks` inductive.
  `Parted(q, a, b)` says that no `b` comes behind an `a`: the shown surface is asked for and
  configured once (`ConfiguredOnce`), and behind `sync` there is no `bind`, so behind its
  `done` no announcement of a window older than the launch (`CallbackSeparates`). `Issued`
  makes the number of a new feedback fresh, and `HistoryHolds` ties the elapsed steps and the
  window flag to what the history counts. Lemmas say once what sending and receiving do to
  `Contains`, `Followed` and `Parted`; `AnswersInv` treats all the compositor's answers alike.
- `TapDevices_proofs` - `FeedSafe` says of the recognizer that it keeps its type, changes
  `suspended` only with the action `guard`, and reports no tap while suspended. The
  invariant adds `UnreadIsForDaemon` (nothing is queued while no daemon runs), without
  which an event could be fed to a recognizer the flag file says nothing about.
  `TapsAreLone` has a hypothesis: at most one device has a Meta key (`OneMeta`). Section 4 says
  how two break it. Its invariant follows every queue (`Follows`): each release in it tells
  the press before it and whether another key came between, as the history `since` does; the
  recognizer agrees with the part that has been read (`QueueFollows`), and with Meta itself
  while the key is down (`HeldFollows`). What an unplugged keyboard leaves in its queue, or a
  restarted daemon no longer knows, can lose a tap but never make one.
- `DeviceWatch_proofs` - `ReadOnce` needs `SourcesAreOpen`: a node that is read is
  remembered *and there*, so the handler neither opens it again nor forgets it.
  `DevicesAreOpened` needs `ReadyIsKnown` from the scan on and `OpenAfterScan`;
  `CatalogIsDue` needs `PendingHasTimer`: the flag that holds back a second reload is
  never set without a timer that has yet to read the disk.
- `Installation_proofs` - first a contract for every function of `installer/src` that is a list
  of commands: what each of its commands needs, what must be absent, what the list leaves behind
  and clears, and a bound on what it makes and undoes on the way. `Sequence` joins two
  contracts, so that `Install` is proved in the order of the source, one function at a time,
  for any machine. The facts after any number of commands follow from the contract.
- In the same module, `Unlockable` and `PassphraseIsReplaced`, for any set of machines.
  Neither is inductive: the invariant adds what each `step` of first boot knows of the slots
  (before `TypeBack` the passphrase is still there; from then on the key is held and both other
  slots were seen), that first boot runs only on the booted target while no run is on, so that
  no command and no change of the firmware comes between its check of Secure Boot and the
  TPM2 slot. Of the installer's commands this asks only whether they make or remove a
  LUKS header, so it does not depend on the list. The other properties do. `RunInv` says that
  a run that is on stands on a path of its list from a host that is prepared (`RunIsOnPath`),
  so that the contract gives what the next command finds (`RunsCanBeRepeated`); the path is for
  whatever others do to the disk between any two commands. The idle check is the command just
  before the erasing one (`ErasesFirst`), what uses the disk is among what `lsblk` lists, and
  only the run itself makes its mapping and mounts: together `ErasedAsReported`. And what
  a finished run left stays until the disk is erased again (`FinishedIsSettled`).
- `Helpers_proofs` - first the decoder: `DecodesByTheTable` says that `decodeUtf8` gives what the
  table of UTF-8 does, for every sequence of bytes. `Fits` says in terms of the first byte when
  a piece begins as a form of the table (`FitsByFirst`, `FormOf`); `NextOfPiece`
  that within a piece the decoder has the bits so far and the bounds of the next byte;
  `DecoderConcat` that it does not depend on what it has found before. The theorem goes through
  the bytes one at a time: after each, either a piece ends there (`Border`) or the decoder is in
  the middle of the piece that does not end yet (`Cut`). The library's induction theorems
  cannot be used here, so induction is over sets: a set of numbers has a least
  one (`Least`, from well-foundedness), so a set that holds 0 and with each number the
  next holds all (`Induction`), and a set that holds the empty sequence and with each
  sequence the longer ones holds all (`SeqInduction`). Then the output: `FlowInv` says that what
  the last program has written is what was read followed by what is in its pipe, which needs
  to know who has which end of it (`Connected`): only the helper reads it, and when the
  helper is at the end nobody can write to it any more. `WholeOutput` follows with the decoder.
- In the same module, the way back and what a helper does with it. `encodeUtf8` undoes the
  decoder for every text of characters (`CharactersComeBack`), and the decoder finds nothing
  but characters (`DecoderSafe`): between the least and the greatest point it can still reach
  there is never a surrogate. A newline is one byte and part of no other character
  (`NewlineParts`), so that a line of a text is a text again, and what the clipboard helper
  hands to cliphist is the line it was given, byte by byte (`LineComesBack`). `CleanInv`
  follows a pick through both pipelines: what the first program of the second one has read, what
  is in its pipe and what is still to be written are the line that was picked (`Fed`); what one
  program has written, the next has read or will (`Link`); a program goes on after its input
  only if that was complete (`Honest`), for which the end of a pipe must be its writer's
  (`ChildrenKnown`, `InputOpen`); and a helper leaves with 0 only when every program did
  (`Done`). `CleanExitMeansWhole` follows (`WholeExits`). It is about the model's programs,
  which read to the end before they act, and about a death as a status that is not 0.

Only model-checked: all liveness, as the prover has no `ENABLED`. Every invariant and every
action property of a passing run is stated by a theorem, two of them with hypotheses
(`MatchesAreRanked`, `TapsAreLone`).

## 6. Not modelled

The retention bound of Snapper (`snapshots.ts`), the copy of Limine and its PE layout
(`installer/shim`), the choice of the screenshot's path and the log files are left out of components
that are modelled otherwise. Components without a module are listed in `PROJECT.json` with the reason. Slint's
rendering, the font, the trace file, configuration files of labwc, sfwbar and swaync, the
text of generated configuration and the archive have no state that a property here would
be about.

To run: `tlc -config X.cfg M` with the pairs in `PROJECT.json`; `tlapm M.tla` for the eight
`*_proofs` modules.
