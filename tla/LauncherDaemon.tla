--------------------------- MODULE LauncherDaemon ---------------------------
(***************************************************************************)
(* The resident launcher daemon (launcher/daemon/src) between its clients, *)
(* the compositor and the user: what it shows, on which surface, what is   *)
(* painted there, and which connections wait for an answer.                *)
(*                                                                         *)
(* The event loop runs one callback at a time, so every handler is one     *)
(* action.  Everything else interleaves: several clients, keys that were   *)
(* under way when the list changed, events for surfaces that are gone,     *)
(* the reload of the catalog, a client that is killed, a stop or a crash.  *)
(***************************************************************************)
EXTENDS Session, FiniteSets

CONSTANTS
    Clients,     \* client processes; each makes one request
    Entries,     \* desktop entries
    EntryName,   \* their names
    Catalogs,    \* the lists of entries a scan may find
    Menus,       \* the lists of lines a dmenu client may supply
    Surfaces,    \* identities of layer surfaces
    NoSurface

Names(entries) == [i \in DOMAIN entries |-> EntryName[entries[i]]]

ASSUME DaemonAssumption ==
    /\ EntryName \in [Entries -> Seq(Char)]
    /\ Catalogs \subseteq Seq(Entries) /\ Catalogs # {}
    /\ \A entries \in Catalogs : Names(entries) \in Lists
    /\ Menus \subseteq Lists
    /\ NoSurface \notin Surfaces
    /\ \A s, t \in Surfaces \cup {NoSurface} : Surfaces \ {s} # {}

VARIABLES
    running,      \* whether the daemon process runs
    view,         \* what is shown
    layer,        \* the launcher's layer surface, or NoSurface
    configured,   \* whether the compositor has configured that surface
    owed,         \* whether the compositor has yet to send its first configure
    feedback,     \* the surface of the launch feedback, or NoSurface
    entries,      \* the catalog
    screen,       \* what was last painted on the layer surface, or Blank
    paintFailed,  \* whether the latest attempt to paint it failed
    clients,      \* each client's connection
    gone,         \* clients killed before their answer came
    spawned       \* what the latest step started

shownVars == <<view, layer, configured, owed, screen, paintFailed>>
vars == <<running, shownVars, feedback, entries, clients, gone, spawned>>

-----------------------------------------------------------------------------
\* Requests, answers and connections.

Requests ==
    [kind: {"toggle", "close", "run", "invalid"}]
        \cup [kind: {"launch"}, app: Entries]
        \cup [kind: {"dmenu"}, lines: Menus]

Selected(line) == [kind |-> "selected", line |-> line]
Cancelled == [kind |-> "cancelled"]
Failed == [kind |-> "failed"]
Lost == [kind |-> "lost"]
Closed == [kind |-> "closed"]  \* the end of a connection that carries no answer
Answers ==
    [kind: {"cancelled", "failed", "lost", "closed"}] \cup [kind: {"selected"}, line: Seq(Char)]

NotConnected == [state |-> "idle"]
Sent(request) == [state |-> "sent", request |-> request]
Held == [state |-> "held"]
Done(answer) == [state |-> "done", answer |-> answer]
Connections ==
    [state: {"idle", "held"}] \cup [state: {"sent"}, request: Requests]
        \cup [state: {"done"}, answer: Answers]

\* The connections after c is answered; writing to a client that is gone is not an error.
Reply(conns, c, answer) ==
    [conns EXCEPT ![c] = Done(IF c \in gone THEN Lost ELSE answer)]

-----------------------------------------------------------------------------
\* Views and what is painted of them.

Hidden == [kind |-> "hidden"]
AppsView(s, snapshot) == [kind |-> "apps", session |-> s, entries |-> snapshot]
DmenuView(s, lines, c) == [kind |-> "dmenu", session |-> s, lines |-> lines, client |-> c]

Views ==
    {Hidden} \cup [kind: {"apps"}, session: SessionType, entries: Catalogs]
        \cup [kind: {"dmenu"}, session: SessionType, lines: Menus, client: Clients]

Blank == [kind |-> "blank"]
Picture(v) ==
    [kind |-> v.kind, query |-> v.session.query,
     rows |-> [row \in DOMAIN Rows(v.session) |->
                  [text |-> v.session.choices[Rows(v.session)[row].choice],
                   selected |-> Rows(v.session)[row].selected]]]

Nothing == [kind |-> "nothing"]
Application(entry, chosen) == [kind |-> "entry", entry |-> entry, chosen |-> chosen]
Command == [kind |-> "command"]
Notice == [kind |-> "notice"]
Spawns ==
    [kind: {"nothing", "command", "notice"}] \cup [kind: {"entry"}, entry: Entries, chosen: BOOLEAN]

TypeOK ==
    /\ running \in BOOLEAN
    /\ view \in Views
    /\ view # Hidden => IsSession(view.session)
    /\ layer \in Surfaces \cup {NoSurface}
    /\ configured \in BOOLEAN
    /\ owed \in BOOLEAN
    /\ feedback \in Surfaces \cup {NoSurface}
    /\ entries \in Catalogs
    /\ paintFailed \in BOOLEAN
    /\ clients \in [Clients -> Connections]
    /\ gone \subseteq Clients
    /\ spawned \in Spawns

Init ==
    /\ running = TRUE
    /\ view = Hidden
    /\ layer = NoSurface
    /\ configured = FALSE
    /\ owed = FALSE
    /\ feedback = NoSurface
    /\ entries \in Catalogs
    /\ screen = Blank
    /\ paintFailed = FALSE
    /\ clients = [c \in Clients |-> NotConnected]
    /\ gone = {}
    /\ spawned = Nothing

-----------------------------------------------------------------------------
\* The daemon's building blocks (daemon.rs).

\* draw(): nothing without a configured surface; allocating or attaching a buffer may fail.
Draw(v) ==
    \/ /\ configured
       /\ screen' = Picture(v)
       /\ paintFailed' = FALSE
    \/ /\ configured
       /\ paintFailed' = TRUE
       /\ UNCHANGED screen
    \/ /\ ~configured
       /\ UNCHANGED <<screen, paintFailed>>

\* Mutant: a view that replaces another on the mapped surface is not drawn.
ShowWithoutDraw(v) ==
    /\ view' = v
    /\ feedback' = NoSurface
    /\ \/ /\ layer # NoSurface
          /\ UNCHANGED <<layer, configured, owed, screen, paintFailed>>
       \/ /\ layer = NoSurface
          /\ layer' \in Surfaces
          /\ configured' = FALSE
          /\ owed' = TRUE
          /\ UNCHANGED <<screen, paintFailed>>

\* Mutant: the surface of a view that is replaced counts as not configured.
ShowForgettingConfigure(v) ==
    /\ view' = v
    /\ feedback' = NoSurface
    /\ configured' = FALSE
    /\ \/ /\ layer # NoSurface
          /\ Draw(v)
          /\ UNCHANGED <<layer, owed>>
       \/ /\ layer = NoSurface
          /\ layer' \in Surfaces
          /\ owed' = TRUE
          /\ UNCHANGED <<screen, paintFailed>>

\* Mutant: feedback stays on screen under the list.
ShowKeepingFeedback(v) ==
    /\ view' = v
    /\ UNCHANGED feedback
    /\ \/ /\ layer # NoSurface
          /\ Draw(v)
          /\ UNCHANGED <<layer, configured, owed>>
       \/ /\ layer = NoSurface
          /\ layer' \in Surfaces \ {feedback}
          /\ configured' = FALSE
          /\ owed' = TRUE
          /\ UNCHANGED <<screen, paintFailed>>

\* show(): an identity may come back once its surface is gone, which only adds behaviours.
Show(v) ==
    /\ view' = v
    /\ feedback' = NoSurface
    /\ \/ /\ layer # NoSurface
          /\ Draw(v)
          /\ UNCHANGED <<layer, configured, owed>>
       \/ /\ layer = NoSurface
          /\ layer' \in Surfaces \ {feedback}
          /\ configured' = FALSE
          /\ owed' = TRUE
          /\ UNCHANGED <<screen, paintFailed>>

\* Mutant: a menu is taken off the screen without an answer.
CancelNothing(conns) == conns

\* cancel_dmenu(), on given connections.
CancelDmenu(conns) ==
    IF view.kind = "dmenu" THEN Reply(conns, view.client, Cancelled) ELSE conns

\* hide(), apart from its cancel_dmenu().
Hide ==
    /\ view' = Hidden
    /\ layer' = NoSurface
    /\ configured' = FALSE
    /\ owed' = FALSE
    /\ screen' = Blank
    /\ paintFailed' = FALSE

\* toggle(), on given connections.
Toggle(conns) ==
    \/ /\ layer # NoSurface
       /\ Hide
       /\ clients' = CancelDmenu(conns)
       /\ UNCHANGED feedback
    \/ /\ layer = NoSurface
       /\ Show(AppsView(NewSession(Names(entries), "alphabetical"), entries))
       /\ clients' = conns

\* start_feedback(): refreshes the feedback shown, or creates its surface.
StartFeedback ==
    IF feedback # NoSurface THEN UNCHANGED feedback ELSE feedback' \in Surfaces \ {layer}

-----------------------------------------------------------------------------
\* Requests (server.rs hands each to handle_request() when its client has finished
\* writing).  A connection closes after its request, except a dmenu's.

Handles(c, kind) ==
    /\ running
    /\ clients[c].state = "sent"
    /\ clients[c].request.kind = kind
    /\ UNCHANGED <<running, entries, gone>>

AfterRequest(c) == [clients EXCEPT ![c] = Done(Closed)]

\* An empty, undecodable or oversized request.
HandleInvalid(c) ==
    /\ Handles(c, "invalid")
    /\ clients' = AfterRequest(c)
    /\ spawned' = Nothing
    /\ UNCHANGED <<shownVars, feedback>>

HandleToggle(c) ==
    /\ Handles(c, "toggle")
    /\ Toggle(AfterRequest(c))
    /\ spawned' = Nothing

HandleClose(c) ==
    /\ Handles(c, "close")
    /\ Hide
    /\ feedback' = NoSurface
    /\ clients' = CancelDmenu(AfterRequest(c))
    /\ spawned' = Nothing

\* launch_app_id(): the entry behind the app ID, or a command of that name, or a notice.
HandleLaunch(c) ==
    /\ Handles(c, "launch")
    /\ Hide
    /\ clients' = CancelDmenu(AfterRequest(c))
    /\ LET app == clients[c].request.app
       IN  IF \E i \in DOMAIN entries : entries[i] = app
           THEN StartFeedback /\ spawned' = Application(app, FALSE)
           ELSE \/ StartFeedback /\ spawned' = Command
                \/ UNCHANGED feedback /\ spawned' = Notice

HandleRun(c) ==
    /\ Handles(c, "run")
    /\ Hide
    /\ clients' = CancelDmenu(AfterRequest(c))
    /\ StartFeedback
    /\ spawned' = Command

\* Mutant: the menu that is replaced is forgotten, not cancelled.
HandleDmenuForgetting(c) ==
    /\ Handles(c, "dmenu")
    /\ LET lines == clients[c].request.lines
       IN  /\ clients' = [clients EXCEPT ![c] = Held]
           /\ Show(DmenuView(NewSession(lines, "given"), lines, c))
    /\ spawned' = Nothing

HandleDmenu(c) ==
    /\ Handles(c, "dmenu")
    /\ LET lines == clients[c].request.lines
       IN  /\ clients' = [CancelDmenu(clients) EXCEPT ![c] = Held]
           /\ Show(DmenuView(NewSession(lines, "given"), lines, c))
    /\ spawned' = Nothing

\* Mutant: dmenu requests are not dispatched while another menu is on screen.
HandleUnlessBusy(c) ==
    \/ HandleInvalid(c)
    \/ HandleToggle(c)
    \/ HandleClose(c)
    \/ HandleLaunch(c)
    \/ HandleRun(c)
    \/ view.kind # "dmenu" /\ HandleDmenu(c)

HandleRequest(c) ==
    \/ HandleInvalid(c)
    \/ HandleToggle(c)
    \/ HandleClose(c)
    \/ HandleLaunch(c)
    \/ HandleRun(c)
    \/ HandleDmenu(c)

-----------------------------------------------------------------------------
\* Input (wayland.rs) and what a session's outcome makes the daemon do.

\* Mutant: the chosen index is looked up in the catalog of the moment.
ActivateFromCatalog(choice) ==
    /\ Hide
    /\ \/ /\ view.kind = "apps"
          /\ IF choice \in DOMAIN entries
             THEN StartFeedback /\ spawned' = Application(entries[choice], TRUE)
             ELSE UNCHANGED feedback /\ spawned' = Nothing
          /\ UNCHANGED clients
       \/ /\ view.kind = "dmenu"
          /\ clients' = Reply(clients, view.client,
                              IF choice \in DOMAIN view.lines
                              THEN Selected(view.lines[choice]) ELSE Cancelled)
          /\ spawned' = Nothing
          /\ UNCHANGED feedback

\* Mutant: the list stays on its surface after a menu was answered.
ActivateWithoutHide(choice) ==
    /\ view.kind = "dmenu"
    /\ clients' = Reply(clients, view.client, Selected(view.lines[choice]))
    /\ view' = Hidden
    /\ spawned' = Nothing
    /\ UNCHANGED <<feedback, layer, configured, owed, screen, paintFailed>>

\* activate()
ActivateChoice(choice) ==
    /\ Hide
    /\ \/ /\ view.kind = "apps"
          /\ IF choice \in DOMAIN view.entries
             THEN StartFeedback /\ spawned' = Application(view.entries[choice], TRUE)
             ELSE UNCHANGED feedback /\ spawned' = Nothing
          /\ UNCHANGED clients
       \/ /\ view.kind = "dmenu"
          /\ clients' = Reply(clients, view.client,
                              IF choice \in DOMAIN view.lines
                              THEN Selected(view.lines[choice]) ELSE Cancelled)
          /\ spawned' = Nothing
          /\ UNCHANGED feedback

\* apply(), on a session and the outcome an input produced in it.
Apply(result) ==
    /\ UNCHANGED <<running, entries, gone>>
    /\ \/ /\ result.outcome = Redraw
          /\ view' = [view EXCEPT !.session = result.session]
          /\ Draw([view EXCEPT !.session = result.session])
          /\ spawned' = Nothing
          /\ UNCHANGED <<layer, configured, owed, feedback, clients>>
       \/ /\ result.outcome = Ignored
          /\ spawned' = Nothing
          /\ UNCHANGED <<shownVars, feedback, clients>>
       \/ /\ result.outcome = Dismiss
          /\ Hide
          /\ clients' = CancelDmenu(clients)
          /\ spawned' = Nothing
          /\ UNCHANGED feedback
       \/ /\ result.outcome.kind = "activate"
          /\ ActivateChoice(result.outcome.choice)

\* key_pressed(): a key names no surface, so one that was under way when the view
\* changed reaches whatever is shown now.
KeyPressed(key) ==
    /\ running
    /\ view # Hidden
    /\ key.kind = "text" => FitsQuery(view.session, key.text)
    /\ Apply(Handle(view.session, key))

\* pointer_frame(): the compositor sends pointer events only to a mapped surface.
PointerOn(surface) == running /\ surface = layer /\ configured

ClickOn(surface, row) == PointerOn(surface) /\ Apply(Click(view.session, row))

WheelOn(surface, rows) == PointerOn(surface) /\ Apply(Scroll(view.session, rows))

\* A bare Meta tap.
Tap ==
    /\ running
    /\ Toggle(clients)
    /\ spawned' = Nothing
    /\ UNCHANGED <<running, entries, gone>>

-----------------------------------------------------------------------------
\* The compositor, for a surface of now or of earlier.

FromCompositor ==
    /\ running
    /\ spawned' = Nothing
    /\ UNCHANGED <<running, entries, gone>>

\* configure(): the first, which the compositor owes, or a later one.
Configure(surface) ==
    /\ FromCompositor
    /\ surface = layer
    /\ configured' = TRUE
    /\ owed' = FALSE
    /\ \/ screen' = Picture(view) /\ paintFailed' = FALSE
       \/ paintFailed' = TRUE /\ UNCHANGED screen
    /\ UNCHANGED <<view, layer, feedback, clients>>

\* scale_factor_changed(), when the factor really changed.
ScaleFactorChanged(surface) ==
    /\ FromCompositor
    /\ surface = layer
    /\ Draw(view)
    /\ UNCHANGED <<view, layer, configured, owed, feedback, clients>>

\* closed()
SurfaceClosed(surface) ==
    /\ FromCompositor
    /\ \/ /\ surface = layer
          /\ Hide
          /\ clients' = CancelDmenu(clients)
          /\ UNCHANGED feedback
       \/ /\ surface = feedback
          /\ feedback' = NoSurface
          /\ UNCHANGED <<shownVars, clients>>

\* leave(): keyboard focus moved to another surface.
FocusLeaves(surface) ==
    /\ FromCompositor
    /\ surface = layer
    /\ Hide
    /\ clients' = CancelDmenu(clients)
    /\ UNCHANGED feedback

\* feedback_tick(), when it ends feedback; LaunchFeedback says when it does.
FeedbackEnds ==
    /\ FromCompositor
    /\ feedback # NoSurface
    /\ feedback' = NoSurface
    /\ UNCHANGED <<shownVars, clients>>

\* Mutant: the list on screen takes over the entries of the new scan.
ReloadIntoView ==
    /\ running
    /\ entries' \in Catalogs
    /\ view' = IF view.kind = "apps" THEN [view EXCEPT !.entries = entries'] ELSE view
    /\ spawned' = Nothing
    /\ UNCHANGED <<running, layer, configured, owed, screen, paintFailed, feedback, clients, gone>>

\* Mutant: ... and the session its names, but not their matches.
ReloadIntoSession ==
    /\ running
    /\ entries' \in Catalogs
    /\ view' = IF view.kind = "apps"
               THEN [view EXCEPT !.entries = entries', !.session.choices = Names(entries')]
               ELSE view
    /\ spawned' = Nothing
    /\ UNCHANGED <<running, layer, configured, owed, screen, paintFailed, feedback, clients, gone>>

\* reload_catalog()
ReloadCatalog ==
    /\ running
    /\ entries' \in Catalogs
    /\ spawned' = Nothing
    /\ UNCHANGED <<running, shownVars, feedback, clients, gone>>

-----------------------------------------------------------------------------
\* Clients and the daemon's life.

\* A client connects and writes its request, or finds no daemon.
Request(c, request) ==
    /\ clients[c] = NotConnected
    /\ clients' = [clients EXCEPT ![c] = IF running THEN Sent(request)
                                         ELSE Done(IF request.kind = "dmenu" THEN Failed ELSE Closed)]
    /\ spawned' = Nothing
    /\ UNCHANGED <<running, shownVars, feedback, entries, gone>>

Killed(c) ==
    /\ clients[c].state \in {"sent", "held"}
    /\ gone' = gone \cup {c}
    /\ spawned' = Nothing
    /\ UNCHANGED <<running, shownVars, feedback, entries, clients>>

\* The connections after the process is gone: a held one just ends, which its client
\* reads as a cancellation; one that was not read yet may also be reset.
Severed(unread) ==
    [c \in Clients |->
        IF clients[c].state = "held" \/ (clients[c].state = "sent" /\ clients[c].request.kind = "dmenu")
        THEN Done(IF c \in gone THEN Lost ELSE IF clients[c].state = "held" THEN Cancelled ELSE unread)
        ELSE IF clients[c].state = "sent" THEN Done(Closed)
        ELSE clients[c]]

\* The process ends: SIGTERM runs hide() first, a crash does not, and a client that
\* waits for an answer cannot tell the two apart.
Exit ==
    /\ running
    /\ running' = FALSE
    /\ Hide
    /\ feedback' = NoSurface
    /\ \E unread \in {Cancelled, Failed} : clients' = Severed(unread)
    /\ spawned' = Nothing
    /\ UNCHANGED <<entries, gone>>

\* The unit starts again, with a fresh scan.
Start ==
    /\ ~running
    /\ running' = TRUE
    /\ entries' \in Catalogs
    /\ spawned' = Nothing
    /\ UNCHANGED <<shownVars, feedback, clients, gone>>

Next ==
    \/ \E c \in Clients, request \in Requests : Request(c, request)
    \/ \E c \in Clients : HandleRequest(c) \/ Killed(c)
    \/ \E key \in Keys : KeyPressed(key)
    \/ \E s \in Surfaces, row \in 0..VisibleRows : ClickOn(s, row)
    \/ \E s \in Surfaces, rows \in {-1, 1} : WheelOn(s, rows)
    \/ \E s \in Surfaces :
          Configure(s) \/ ScaleFactorChanged(s) \/ SurfaceClosed(s) \/ FocusLeaves(s)
    \/ Tap
    \/ FeedbackEnds
    \/ ReloadCatalog
    \/ Exit
    \/ Start

\* The loop reads every connection that is ready; the compositor configures a new surface.
Fairness ==
    /\ \A c \in Clients : WF_vars(HandleRequest(c))
    /\ \A s \in Surfaces : WF_vars(owed /\ Configure(s))

Spec == Init /\ [][Next]_vars /\ Fairness

-----------------------------------------------------------------------------
\* A surface is mapped exactly while a view is shown, and counts as configured only
\* while it is: no path leaves an empty surface behind or a view without one.
ViewHasSurface ==
    /\ layer # NoSurface <=> view # Hidden
    /\ configured => layer # NoSurface

\* The list and launch feedback share one Slint window and are never both on screen.
LauncherExcludesFeedback == layer = NoSurface \/ feedback = NoSurface

\* The daemon holds a connection open exactly while that client's menu is on screen:
\* no client waits for an answer that nothing will send.
HeldIsShown ==
    \A c \in Clients :
        clients[c].state = "held" <=> view.kind = "dmenu" /\ view.client = c

\* The entries or lines behind a view stay indexed like its session's choices, through
\* every reload of the catalog: an index the session returns names what its row said.
IndexedLikeChoices ==
    /\ view.kind = "apps" => view.session.choices = Names(view.entries)
    /\ view.kind = "dmenu" => view.session.choices = view.lines

\* A configured surface shows the view as it is now, unless painting it failed.
ScreenCurrent == configured /\ ~paintFailed => screen = Picture(view)

\* What is started or answered says what one of the rows on screen said, unless painting
\* failed: an application comes from the snapshot taken when the list opened, whatever the
\* catalog has become since, and a dmenu answer is a line of the menu on screen.
OnScreen(text) ==
    configured /\ ~paintFailed => \E row \in DOMAIN screen.rows : screen.rows[row].text = text

PickWasOnScreen ==
    [][/\ spawned'.kind = "entry" /\ spawned'.chosen => OnScreen(EntryName[spawned'.entry])
       /\ \A c \in Clients :
             /\ clients[c].state = "held"
             /\ clients'[c].state = "done"
             /\ clients'[c].answer.kind = "selected"
             => OnScreen(clients'[c].answer.line)]_vars

\* Every request is handled, or its connection ends with the daemon.
RequestsAreHandled ==
    \A c \in Clients : clients[c].state = "sent" ~> clients[c].state # "sent"

\* A view that stays is configured: replacing what a surface shows never loses the
\* configure that only a new surface gets.
ViewsGetConfigured == view # Hidden ~> configured \/ view = Hidden

\* The daemon implements the promise to dmenu clients.
Service == INSTANCE DmenuService WITH
    asked <- [c \in Clients |->
        CASE clients[c].state = "held" -> [state |-> "shown", lines |-> view.lines]
          [] clients[c].state = "sent" /\ clients[c].request.kind = "dmenu" ->
                [state |-> "waiting", lines |-> clients[c].request.lines]
          [] clients[c].state = "done" /\ clients[c].answer # Closed ->
                [state |-> "answered", answer |-> clients[c].answer]
          [] OTHER -> [state |-> "idle"]]

DmenuPromise == Service!Spec
=============================================================================
