----------------------------- MODULE TapDevices -----------------------------
(***************************************************************************)
(* The recognizer fed by several input devices (launcher/daemon/src: the   *)
(* device sources of main.rs and handle_key_event() of daemon.rs).         *)
(*                                                                         *)
(* Every device has its own queue in the kernel.  The event loop reads one *)
(* ready device until nothing is left, then another; it may be busy while  *)
(* keys are pressed.  Devices come and go; the daemon stops, crashes and   *)
(* starts again, and the shortcut guard survives in a flag file.           *)
(***************************************************************************)
EXTENDS MetaTap, Sequences

CONSTANTS
    Devices,    \* keyboards and pointers
    NoDevice,
    CodesOf,    \* the keys each has
    MaxTime,    \* bound on the clock
    MaxUnread   \* bound on the unread events of a device

ASSUME DevicesAssumption ==
    /\ CodesOf \in [Devices -> SUBSET Codes]
    /\ NoDevice \notin Devices
    /\ MaxTime \in Nat /\ MaxUnread \in Nat

VARIABLES
    now,         \* the clock that stamps events
    held,        \* the keys that are down
    since,       \* per device: when its Meta went down, and the devices of later presses
    running,     \* whether the daemon runs
    attached,    \* the devices that are plugged in
    open,        \* those the daemon reads
    unread,      \* per device: the events it has queued for the daemon
    reading,     \* the device being read until it has nothing left, or NoDevice
    recognizer,
    flag,        \* whether the guard's flag file exists
    recorded,    \* whether the latest change of the guard reached the flag file
    tap          \* the release the latest step reported as a tap, or NoTap

vars == <<now, held, since, attached, running, open, unread, reading, recognizer, flag, recorded, tap>>

Times == 0..MaxTime
Since == [time: Times \cup {NotHeld}, pressed: SUBSET Devices]
NoPress == [time |-> NotHeld, pressed |-> {}]

\* An event, and, for the properties only, what its device's Meta had seen when it happened.
Events == [code: Codes, value: {"press", "release"}, time: Times, since: Since]
NoTap == [code |-> "other"]

TypeOK ==
    /\ now \in Times
    /\ held \subseteq Devices \X Codes
    /\ since \in [Devices -> Since]
    /\ running \in BOOLEAN
    /\ attached \subseteq Devices
    /\ open \subseteq attached
    /\ unread \in [Devices -> Seq(Events)]
    /\ reading \in Devices \cup {NoDevice}
    /\ recognizer \in RecognizerType
    /\ flag \in BOOLEAN
    /\ recorded \in BOOLEAN
    /\ tap \in Events \cup {NoTap}

Init ==
    /\ now = 0
    /\ held = {}
    /\ since = [d \in Devices |-> NoPress]
    /\ running = TRUE
    /\ attached = Devices
    /\ open = Devices
    /\ unread = [d \in Devices |-> <<>>]
    /\ reading = NoDevice
    /\ flag \in BOOLEAN
    /\ recognizer = NewRecognizer(flag)
    /\ recorded = TRUE
    /\ tap = NoTap

-----------------------------------------------------------------------------
\* The user and the kernel.

DaemonUnchanged == UNCHANGED <<running, reading, recognizer, flag, recorded>>

Pass ==
    /\ now < MaxTime
    /\ now' = now + 1
    /\ tap' = NoTap
    /\ UNCHANGED <<held, since, attached, open, unread>>
    /\ DaemonUnchanged

\* The kernel queues an event for whoever has the device open.
Queue(d, code, value) ==
    /\ Len(unread[d]) < MaxUnread
    /\ unread' = IF d \in open
                 THEN [unread EXCEPT ![d] =
                          Append(@, [code |-> code, value |-> value, time |-> now, since |-> since[d]])]
                 ELSE unread
    /\ tap' = NoTap
    /\ UNCHANGED <<now, attached, open>>
    /\ DaemonUnchanged

PressKey(d, code) ==
    /\ d \in attached
    /\ <<d, code>> \notin held
    /\ held' = held \cup {<<d, code>>}
    /\ since' = [e \in Devices |->
                    IF e = d /\ code = "meta" THEN [time |-> now, pressed |-> {}]
                    ELSE IF since[e] = NoPress THEN NoPress
                    ELSE [since[e] EXCEPT !.pressed = @ \cup {d}]]
    /\ Queue(d, code, "press")

ReleaseKey(d, code) ==
    /\ <<d, code>> \in held
    /\ held' = held \ {<<d, code>>}
    /\ since' = IF code = "meta" THEN [since EXCEPT ![d] = NoPress] ELSE since
    /\ Queue(d, code, "release")

\* Mutant: the source of a device that is gone is not removed.
UnplugKeepingSource(d) ==
    /\ d \in attached
    /\ attached' = attached \ {d}
    /\ held' = {key \in held : key[1] # d}
    /\ since' = [since EXCEPT ![d] = NoPress]
    /\ tap' = NoTap
    /\ UNCHANGED <<now, open, unread>>
    /\ DaemonUnchanged

\* Reading a device that is gone fails, whatever was queued, and its source is removed.
Unplug(d) ==
    /\ d \in attached
    /\ attached' = attached \ {d}
    /\ open' = open \ {d}
    /\ unread' = [unread EXCEPT ![d] = <<>>]
    /\ held' = {key \in held : key[1] # d}
    /\ since' = [since EXCEPT ![d] = NoPress]
    /\ reading' = IF reading = d THEN NoDevice ELSE reading
    /\ tap' = NoTap
    /\ UNCHANGED <<now, running, recognizer, flag, recorded>>

\* A running daemon opens the device before its user is back at its keys; DeviceWatch
\* says how, and when it does not.
Plug(d) ==
    /\ d \notin attached
    /\ attached' = attached \cup {d}
    /\ open' = IF running THEN open \cup {d} ELSE open
    /\ tap' = NoTap
    /\ UNCHANGED <<now, held, since, unread>>
    /\ DaemonUnchanged

-----------------------------------------------------------------------------
\* The daemon.

\* Mutant: the flag file is created but never removed.
GuardChangedOneWay(suspended) ==
    \/ flag' = TRUE /\ recorded' = TRUE
    \/ recorded' = FALSE /\ UNCHANGED flag

\* guard_changed(): creating or removing the flag file may fail, and then stays undone.
GuardChanged(suspended) ==
    \/ flag' = suspended /\ recorded' = TRUE
    \/ recorded' = FALSE /\ UNCHANGED flag

\* The source of a device feeds its events to handle_key_event() until none is left.
FeedNext(d) ==
    /\ reading \in {d, NoDevice}
    /\ unread[d] # <<>>
    /\ unread' = [unread EXCEPT ![d] = Tail(@)]
    /\ reading' = IF Len(unread[d]) > 1 THEN d ELSE NoDevice
    /\ LET event == Head(unread[d])
           fed == Feed(recognizer, event)
       IN  /\ recognizer' = fed.recognizer
           /\ tap' = IF fed.action = "tap" THEN event ELSE NoTap
           /\ IF fed.action = "guard"
              THEN GuardChanged(fed.recognizer.suspended)
              ELSE UNCHANGED <<flag, recorded>>
    /\ UNCHANGED <<now, held, since, attached, running, open>>

\* The process ends, its devices are closed, and its recognizer is gone.
Ended ==
    /\ running
    /\ running' = FALSE
    /\ open' = {}
    /\ unread' = [d \in Devices |-> <<>>]
    /\ reading' = NoDevice
    /\ recognizer' = NewRecognizer(FALSE)
    /\ tap' = NoTap
    /\ UNCHANGED <<now, held, since, attached, recorded>>

\* SIGTERM, between two callbacks: the flag file is removed, if that does not fail.
Stop ==
    /\ reading = NoDevice
    /\ flag' \in {FALSE, flag}
    /\ Ended

Crash == Ended /\ UNCHANGED flag

\* Mutant: the flag file is not looked at.
StartUnsuspended ==
    /\ ~running
    /\ running' = TRUE
    /\ recognizer' = NewRecognizer(FALSE)
    /\ recorded' = TRUE
    /\ open' = attached
    /\ tap' = NoTap
    /\ UNCHANGED <<now, held, since, attached, unread, reading, flag>>

Start ==
    /\ ~running
    /\ running' = TRUE
    /\ recognizer' = NewRecognizer(flag)
    /\ recorded' = TRUE
    /\ open' = attached
    /\ tap' = NoTap
    /\ UNCHANGED <<now, held, since, attached, unread, reading, flag>>

Next ==
    \/ Pass
    \/ \E d \in Devices : \E code \in CodesOf[d] : PressKey(d, code) \/ ReleaseKey(d, code)
    \/ \E d \in Devices : Unplug(d) \/ Plug(d) \/ FeedNext(d)
    \/ Stop
    \/ Crash
    \/ Start

Spec == Init /\ [][Next]_vars

-----------------------------------------------------------------------------
\* The guard in force is the one the flag file records, through crashes and restarts,
\* unless writing the file failed: it survives a daemon crash and restart.
GuardIsRecorded == running /\ recorded => (flag <=> recognizer.suspended)

\* Where one device at most has a Meta key: a reported tap is a short press of Meta in which
\* its own keyboard saw no other key, wherever the daemon was busy, and however often the
\* keyboard was unplugged or the daemon restarted meanwhile.
Reporting(d) == tap' # NoTap /\ FeedNext(d)

TapsAreShortAndLone ==
    [][\A d \in Devices : Reporting(d) =>
          /\ tap'.since.time # NotHeld
          /\ tap'.time - tap'.since.time <= TapWindow
          /\ d \notin tap'.since.pressed]_vars

\* No tap is reported while the guard is on record.
SuspendedIsSilent == tap # NoTap /\ recorded => ~flag

\* A Meta click does not count as a bare Meta tap: no other device's key or button was
\* pressed while Meta was down.
MetaClickIsNoTap == tap # NoTap => tap.since.pressed = {}
=============================================================================
