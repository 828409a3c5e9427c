------------------------ MODULE LauncherDaemon_proofs ------------------------
(***************************************************************************)
(* The daemon's safety invariants and that it implements DmenuService, for *)
(* any number of clients, surfaces, entries, catalogs and menus and for    *)
(* any ranking.                                                            *)
(***************************************************************************)
EXTENDS LauncherDaemon, Session_proofs

-----------------------------------------------------------------------------
\* Views.

\* A view the daemon may show: its session is well formed and lists what it stands for.
GoodView(v) ==
    /\ v \in Views
    /\ v # Hidden
    /\ WellFormed(v.session)
    /\ v.kind = "apps" => v.session.choices = Names(v.entries)
    /\ v.kind = "dmenu" => v.session.choices = v.lines

LEMMA KindsOfViews ==
    ASSUME NEW v \in Views
    PROVE  /\ v.kind \in {"hidden", "apps", "dmenu"}
           /\ v.kind = "hidden" <=> v = Hidden
           /\ v.kind = "apps" => v.session \in SessionType /\ v.entries \in Catalogs
           /\ v.kind = "dmenu" => /\ v.session \in SessionType
                                  /\ v.lines \in Menus
                                  /\ v.client \in Clients
    BY DEF Views, Hidden

LEMMA AppsViewIsGood ==
    ASSUME NEW snapshot \in Catalogs
    PROVE  GoodView(AppsView(NewSession(Names(snapshot), "alphabetical"), snapshot))
<1> DEFINE s == NewSession(Names(snapshot), "alphabetical")
           v == AppsView(s, snapshot)
<1>1. Names(snapshot) \in Lists /\ "alphabetical" \in Orders
    BY DaemonAssumption DEF Orders
<1>2. WellFormed(s) /\ s.choices = Names(snapshot)
    BY <1>1, NewSessionIsWellFormed, NewSessionLists
<1>3. s \in SessionType
    BY <1>2 DEF WellFormed, IsSession
<1> HIDE DEF s
<1>4. v \in Views /\ v # Hidden
    BY <1>3 DEF AppsView, Views, Hidden
<1>5. v.kind = "apps" /\ v.session = s /\ v.entries = snapshot
    BY DEF AppsView
<1>6. QED
    BY <1>2, <1>4, <1>5 DEF GoodView, s

LEMMA DmenuViewIsGood ==
    ASSUME NEW lines \in Menus, NEW c \in Clients
    PROVE  GoodView(DmenuView(NewSession(lines, "given"), lines, c))
<1> DEFINE s == NewSession(lines, "given")
           v == DmenuView(s, lines, c)
<1>1. lines \in Lists /\ "given" \in Orders
    BY DaemonAssumption DEF Orders
<1>2. WellFormed(s) /\ s.choices = lines
    BY <1>1, NewSessionIsWellFormed, NewSessionLists
<1>3. s \in SessionType
    BY <1>2 DEF WellFormed, IsSession
<1> HIDE DEF s
<1>4. v \in Views /\ v # Hidden
    BY <1>3 DEF DmenuView, Views, Hidden
<1>5. v.kind = "dmenu" /\ v.session = s /\ v.lines = lines
    BY DEF DmenuView
<1>6. QED
    BY <1>2, <1>4, <1>5 DEF GoodView, s

\* The view after an input that changed its session.
LEMMA MovedViewIsGood ==
    ASSUME NEW v, GoodView(v), NEW s, WellFormed(s), s.choices = v.session.choices
    PROVE  /\ GoodView([v EXCEPT !.session = s])
           /\ [v EXCEPT !.session = s].kind = v.kind
           /\ v.kind = "dmenu" => [v EXCEPT !.session = s].client = v.client
<1> DEFINE moved == [v EXCEPT !.session = s]
<1>1. s \in SessionType
    BY DEF WellFormed, IsSession
<1>2. CASE v.kind = "apps"
    <2>1. v \in [kind: {"apps"}, session: SessionType, entries: Catalogs]
        BY <1>2 DEF GoodView, Views, Hidden
    <2>2. /\ moved \in [kind: {"apps"}, session: SessionType, entries: Catalogs]
          /\ moved.kind = "apps" /\ moved.session = s /\ moved.entries = v.entries
        BY <1>1, <2>1
    <2>3. moved \in Views /\ moved # Hidden
        BY <2>2 DEF Views, Hidden
    <2>4. QED
        BY <1>2, <2>2, <2>3 DEF GoodView
<1>3. CASE v.kind = "dmenu"
    <2>1. v \in [kind: {"dmenu"}, session: SessionType, lines: Menus, client: Clients]
        BY <1>3 DEF GoodView, Views, Hidden
    <2>2. /\ moved \in [kind: {"dmenu"}, session: SessionType, lines: Menus, client: Clients]
          /\ moved.kind = "dmenu" /\ moved.session = s /\ moved.lines = v.lines
          /\ moved.client = v.client
        BY <1>1, <2>1
    <2>3. moved \in Views /\ moved # Hidden
        BY <2>2 DEF Views, Hidden
    <2>4. QED
        BY <1>3, <2>2, <2>3 DEF GoodView
<1>4. QED
    BY <1>2, <1>3, KindsOfViews DEF GoodView

-----------------------------------------------------------------------------
\* Connections.

\* Well-formed connections of which exactly the one that v answers to is held.
HeldBy(conns, v) ==
    /\ conns \in [Clients -> Connections]
    /\ \A c \in Clients : conns[c].state = "held" <=> v.kind = "dmenu" /\ v.client = c

LEMMA AnsweredConnection ==
    ASSUME NEW answer \in Answers
    PROVE  Done(answer) \in Connections /\ Done(answer).state = "done"
    BY DEF Done, Connections

LEMMA HeldConnection == Held \in Connections /\ Held.state = "held"
    BY DEF Held, Connections

LEMMA PlainAnswers ==
    /\ {Cancelled, Failed, Lost, Closed} \subseteq Answers
    /\ \A line \in Seq(Char) : Selected(line) \in Answers
    BY DEF Answers, Cancelled, Failed, Lost, Closed, Selected

LEMMA ReplyAnswers ==
    ASSUME NEW conns \in [Clients -> Connections], NEW c \in Clients, NEW answer \in Answers
    PROVE  /\ Reply(conns, c, answer) \in [Clients -> Connections]
           /\ Reply(conns, c, answer)[c].state = "done"
           /\ \A d \in Clients : d # c => Reply(conns, c, answer)[d] = conns[d]
<1> DEFINE sent == IF c \in gone THEN Lost ELSE answer
<1>1. sent \in Answers
    BY PlainAnswers
<1>2. Done(sent) \in Connections /\ Done(sent).state = "done"
    BY <1>1, AnsweredConnection
<1>3. Reply(conns, c, answer) = [conns EXCEPT ![c] = Done(sent)]
    BY DEF Reply
<1> HIDE DEF sent
<1>4. QED
    BY <1>2, <1>3

\* Whatever menu was shown, no connection is held once it is cancelled.
LEMMA CancelDmenuReleases ==
    ASSUME NEW conns, HeldBy(conns, view), view \in Views
    PROVE  HeldBy(CancelDmenu(conns), Hidden)
<1>1. CASE view.kind = "dmenu"
    <2>1. view.client \in Clients /\ Cancelled \in Answers
        BY <1>1, KindsOfViews, PlainAnswers
    <2>2. CancelDmenu(conns) = Reply(conns, view.client, Cancelled)
        BY <1>1 DEF CancelDmenu
    <2>3. QED
        BY <1>1, <2>1, <2>2, ReplyAnswers DEF HeldBy, Hidden
<1>2. CASE view.kind # "dmenu"
    BY <1>2 DEF CancelDmenu, HeldBy, Hidden
<1>3. QED
    BY <1>1, <1>2

\* A connection that is not held may change to another that is not.
LEMMA OtherConnection ==
    ASSUME NEW conns, NEW v, HeldBy(conns, v), NEW c \in Clients, conns[c].state # "held",
           NEW conn \in Connections, conn.state # "held"
    PROVE  HeldBy([conns EXCEPT ![c] = conn], v)
    BY DEF HeldBy

-----------------------------------------------------------------------------
\* The layer surface and what is painted on it.

ShownInv ==
    /\ view \in Views
    /\ view # Hidden => GoodView(view)
    /\ layer \in Surfaces \cup {NoSurface}
    /\ configured \in BOOLEAN
    /\ owed \in BOOLEAN
    /\ paintFailed \in BOOLEAN
    /\ ViewHasSurface
    /\ ScreenCurrent

FeedbackInv ==
    /\ feedback \in Surfaces \cup {NoSurface}
    /\ LauncherExcludesFeedback

LEMMA ShownUnchanged == ShownInv /\ UNCHANGED shownVars => ShownInv'
    BY DEF ShownInv, shownVars, ViewHasSurface, ScreenCurrent

LEMMA FeedbackUnchanged == FeedbackInv /\ UNCHANGED <<feedback, layer>> => FeedbackInv'
    BY DEF FeedbackInv, LauncherExcludesFeedback

LEMMA HideKeepsShown == Hide => ShownInv' /\ view' = Hidden /\ layer' = NoSurface
    BY DEF Hide, ShownInv, Views, ViewHasSurface, ScreenCurrent, Hidden

\* Painting the view that is shown from now on keeps the screen current.
LEMMA DrawKeepsShown ==
    ASSUME ShownInv, NEW v, GoodView(v), view' = v, Draw(v), layer # NoSurface,
           UNCHANGED <<layer, configured, owed>>
    PROVE  ShownInv'
<1>1. view' \in Views /\ view' # Hidden /\ GoodView(view')
    BY DEF GoodView
<1>2. paintFailed' \in BOOLEAN
    BY DEF Draw, ShownInv
<1>3. ScreenCurrent'
    BY DEF Draw, ScreenCurrent, ShownInv
<1>4. ViewHasSurface'
    BY <1>1 DEF ViewHasSurface
<1>5. QED
    BY <1>1, <1>2, <1>3, <1>4 DEF ShownInv, GoodView

LEMMA ShowKeepsShown ==
    ASSUME ShownInv, NEW v, GoodView(v), Show(v)
    PROVE  ShownInv' /\ FeedbackInv' /\ view' = v
<1>1. view' = v /\ feedback' = NoSurface
    BY DEF Show
<1>2. FeedbackInv'
    BY <1>1 DEF FeedbackInv, LauncherExcludesFeedback
<1>3. CASE layer # NoSurface
    BY <1>1, <1>2, <1>3, DrawKeepsShown DEF Show
<1>4. CASE layer = NoSurface
    <2>1. layer' \in Surfaces /\ configured' = FALSE /\ owed' = TRUE /\ paintFailed' = paintFailed
        BY <1>4 DEF Show
    <2>2. layer' # NoSurface
        BY <2>1, DaemonAssumption
    <2>3. view' \in Views /\ view' # Hidden /\ GoodView(view')
        BY <1>1 DEF GoodView
    <2>4. ViewHasSurface' /\ ScreenCurrent'
        BY <2>1, <2>2, <2>3 DEF ViewHasSurface, ScreenCurrent
    <2>5. QED
        BY <1>1, <1>2, <2>1, <2>3, <2>4 DEF ShownInv, GoodView
<1>5. QED
    BY <1>3, <1>4

\* Feedback starts only where the list is gone.
LEMMA StartFeedbackExcludes ==
    ASSUME FeedbackInv, StartFeedback, layer' = NoSurface
    PROVE  FeedbackInv'
    BY DEF FeedbackInv, StartFeedback, LauncherExcludesFeedback

-----------------------------------------------------------------------------
\* The inductive invariant.  HeldBy needs the view's type to know whom it answers to,
\* ScreenCurrent needs ViewHasSurface to know that a list that comes up starts blank,
\* and a session can only be drawn while it is well formed.

RestInv ==
    /\ running \in BOOLEAN
    /\ entries \in Catalogs
    /\ gone \subseteq Clients
    /\ spawned \in Spawns

IInv == ShownInv /\ FeedbackInv /\ HeldBy(clients, view) /\ RestInv

LEMMA SpawnTypes ==
    /\ {Nothing, Command, Notice} \subseteq Spawns
    /\ \A entry \in Entries, chosen \in BOOLEAN : Application(entry, chosen) \in Spawns
    BY DEF Spawns, Nothing, Command, Notice, Application

LEMMA InitIInv == Init => IInv
<1> SUFFICES ASSUME Init PROVE IInv
    OBVIOUS
<1>1. ShownInv
    BY DEF Init, ShownInv, Views, ViewHasSurface, ScreenCurrent
<1>2. FeedbackInv
    BY DEF Init, FeedbackInv, LauncherExcludesFeedback
<1>3. HeldBy(clients, view)
    BY DEF Init, HeldBy, NotConnected, Connections, Hidden
<1>4. RestInv
    BY SpawnTypes DEF Init, RestInv
<1>5. QED
    BY <1>1, <1>2, <1>3, <1>4 DEF IInv

\* hide() with the cancellation it begins with.
LEMMA HideAndCancel ==
    ASSUME IInv, NEW conns, HeldBy(conns, view), Hide, clients' = CancelDmenu(conns)
    PROVE  ShownInv' /\ layer' = NoSurface /\ HeldBy(clients', view')
<1>1. HeldBy(CancelDmenu(conns), Hidden)
    BY CancelDmenuReleases DEF IInv, ShownInv
<1>2. QED
    BY <1>1, HideKeepsShown

LEMMA GoneKeepsFeedback ==
    ASSUME FeedbackInv, layer' = NoSurface, feedback' \in {feedback, NoSurface}
    PROVE  FeedbackInv'
    BY DEF FeedbackInv, LauncherExcludesFeedback

LEMMA ToggleKeeps ==
    ASSUME IInv, NEW conns, HeldBy(conns, view), Toggle(conns)
    PROVE  ShownInv' /\ FeedbackInv' /\ HeldBy(clients', view')
<1>1. CASE layer # NoSurface
    <2>1. Hide /\ clients' = CancelDmenu(conns) /\ UNCHANGED feedback
        BY <1>1 DEF Toggle
    <2>2. QED
        BY <2>1, HideAndCancel, GoneKeepsFeedback DEF IInv
<1>2. CASE layer = NoSurface
    <2> DEFINE v == AppsView(NewSession(Names(entries), "alphabetical"), entries)
    <2>1. Show(v) /\ clients' = conns
        BY <1>2 DEF Toggle
    <2>2. GoodView(v)
        BY AppsViewIsGood DEF IInv, RestInv
    <2>3. v.kind = "apps"
        BY DEF AppsView
    <2>4. view = Hidden
        BY <1>2 DEF IInv, ShownInv, ViewHasSurface
    <2> HIDE DEF v
    <2>5. ShownInv' /\ FeedbackInv' /\ view' = v
        BY <2>1, <2>2, ShowKeepsShown DEF IInv
    <2>6. HeldBy(conns, v)
        BY <2>3, <2>4 DEF HeldBy, Hidden
    <2>7. QED
        BY <2>1, <2>5, <2>6
<1>3. QED
    BY <1>1, <1>2

-----------------------------------------------------------------------------
\* Requests.

LEMMA AfterRequestHeld ==
    ASSUME IInv, NEW c \in Clients, clients[c].state = "sent"
    PROVE  HeldBy(AfterRequest(c), view)
<1>1. Done(Closed) \in Connections /\ Done(Closed).state # "held"
    BY AnsweredConnection, PlainAnswers
<1>2. QED
    BY <1>1, OtherConnection DEF IInv, AfterRequest

LEMMA HandleRequestInv ==
    ASSUME IInv, NEW c \in Clients, HandleRequest(c)
    PROVE  IInv'
<1> USE DEF Handles
<1>1. CASE HandleInvalid(c)
    <2>1. HeldBy(clients', view')
        BY <1>1, AfterRequestHeld DEF HandleInvalid, shownVars
    <2>2. ShownInv' /\ FeedbackInv'
        BY <1>1, ShownUnchanged, FeedbackUnchanged DEF HandleInvalid, IInv, shownVars
    <2>3. RestInv'
        BY <1>1, SpawnTypes DEF HandleInvalid, IInv, RestInv
    <2>4. QED
        BY <2>1, <2>2, <2>3 DEF IInv
<1>2. CASE HandleToggle(c)
    <2>1. HeldBy(AfterRequest(c), view)
        BY <1>2, AfterRequestHeld DEF HandleToggle
    <2>2. ShownInv' /\ FeedbackInv' /\ HeldBy(clients', view')
        BY <1>2, <2>1, ToggleKeeps DEF HandleToggle
    <2>3. RestInv'
        BY <1>2, SpawnTypes DEF HandleToggle, IInv, RestInv
    <2>4. QED
        BY <2>2, <2>3 DEF IInv
<1>3. CASE HandleClose(c)
    <2>1. HeldBy(AfterRequest(c), view)
        BY <1>3, AfterRequestHeld DEF HandleClose
    <2>2. ShownInv' /\ layer' = NoSurface /\ HeldBy(clients', view')
        BY <1>3, <2>1, HideAndCancel DEF HandleClose
    <2>3. FeedbackInv'
        BY <1>3, <2>2, GoneKeepsFeedback DEF HandleClose, IInv
    <2>4. RestInv'
        BY <1>3, SpawnTypes DEF HandleClose, IInv, RestInv
    <2>5. QED
        BY <2>2, <2>3, <2>4 DEF IInv
<1>4. CASE HandleLaunch(c)
    <2> DEFINE app == clients[c].request.app
    <2>1. HeldBy(AfterRequest(c), view)
        BY <1>4, AfterRequestHeld DEF HandleLaunch
    <2>2. ShownInv' /\ layer' = NoSurface /\ HeldBy(clients', view')
        BY <1>4, <2>1, HideAndCancel DEF HandleLaunch
    <2>3. FeedbackInv'
        BY <1>4, <2>2, GoneKeepsFeedback, StartFeedbackExcludes DEF HandleLaunch, IInv
    <2>4. \/ spawned' = Application(app, FALSE) /\ \E i \in DOMAIN entries : entries[i] = app
          \/ spawned' \in {Command, Notice}
        BY <1>4 DEF HandleLaunch
    <2>5. entries \in Seq(Entries)
        BY DaemonAssumption DEF IInv, RestInv
    <2>6. spawned' \in Spawns
        <3>1. (\E i \in DOMAIN entries : entries[i] = app) => app \in Entries
            BY <2>5
        <3>2. QED
            BY <2>4, <3>1, SpawnTypes, Zenon
    <2>7. RestInv'
        BY <1>4, <2>6 DEF HandleLaunch, IInv, RestInv
    <2>8. QED
        BY <2>2, <2>3, <2>7 DEF IInv
<1>5. CASE HandleRun(c)
    <2>1. HeldBy(AfterRequest(c), view)
        BY <1>5, AfterRequestHeld DEF HandleRun
    <2>2. ShownInv' /\ layer' = NoSurface /\ HeldBy(clients', view')
        BY <1>5, <2>1, HideAndCancel DEF HandleRun
    <2>3. FeedbackInv'
        BY <1>5, <2>2, StartFeedbackExcludes DEF HandleRun, IInv
    <2>4. RestInv'
        BY <1>5, SpawnTypes DEF HandleRun, IInv, RestInv
    <2>5. QED
        BY <2>2, <2>3, <2>4 DEF IInv
<1>6. CASE HandleDmenu(c)
    <2> DEFINE lines == clients[c].request.lines
               v == DmenuView(NewSession(lines, "given"), lines, c)
    <2>1. lines \in Menus
        <3>1. clients[c] \in Connections /\ clients[c].state = "sent"
            BY <1>6 DEF HandleDmenu, IInv, HeldBy
        <3>2. clients[c].request \in Requests /\ clients[c].request.kind = "dmenu"
            BY <1>6, <3>1 DEF HandleDmenu, Connections
        <3>3. QED
            BY <3>2 DEF Requests
    <2>2. GoodView(v) /\ v.kind = "dmenu" /\ v.client = c
        BY <2>1, DmenuViewIsGood DEF DmenuView
    <2>3. Show(v) /\ clients' = [CancelDmenu(clients) EXCEPT ![c] = Held]
        BY <1>6 DEF HandleDmenu
    <2> HIDE DEF v
    <2>4. ShownInv' /\ FeedbackInv' /\ view' = v
        BY <2>2, <2>3, ShowKeepsShown DEF IInv
    <2>5. HeldBy(CancelDmenu(clients), Hidden)
        BY CancelDmenuReleases DEF IInv, ShownInv
    <2>6. HeldBy(clients', v)
        BY <2>2, <2>3, <2>5, HeldConnection DEF HeldBy, Hidden
    <2>7. RestInv'
        BY <1>6, SpawnTypes DEF HandleDmenu, IInv, RestInv
    <2>8. QED
        BY <2>4, <2>6, <2>7 DEF IInv
<1>7. QED
    BY <1>1, <1>2, <1>3, <1>4, <1>5, <1>6 DEF HandleRequest

-----------------------------------------------------------------------------
\* Input.

LEMMA ActivateInv ==
    ASSUME IInv, view # Hidden, NEW choice, ActivateChoice(choice),
           UNCHANGED <<running, entries, gone>>
    PROVE  IInv'
<1>1. ShownInv' /\ view' = Hidden /\ layer' = NoSurface
    BY HideKeepsShown DEF ActivateChoice
<1>2. view \in Views /\ HeldBy(clients, view) /\ FeedbackInv /\ RestInv
    BY DEF IInv, ShownInv
<1>3. CASE view.kind = "apps"
    <2>1. UNCHANGED clients
        BY <1>3 DEF ActivateChoice
    <2>2. HeldBy(clients', view')
        BY <1>1, <1>2, <1>3, <2>1 DEF HeldBy, Hidden
    <2>3. FeedbackInv'
        BY <1>1, <1>2, <1>3, StartFeedbackExcludes, GoneKeepsFeedback DEF ActivateChoice
    <2>4. view.entries \in Seq(Entries)
        BY <1>2, <1>3, KindsOfViews, DaemonAssumption
    <2>5. choice \in DOMAIN view.entries => view.entries[choice] \in Entries
        BY <2>4
    <2>6. spawned' \in Spawns
        <3>1. \/ choice \in DOMAIN view.entries /\ spawned' = Application(view.entries[choice], TRUE)
              \/ spawned' = Nothing
            BY <1>3 DEF ActivateChoice
        <3>2. QED
            BY <2>5, <3>1, SpawnTypes, Zenon
    <2>7. QED
        BY <1>1, <1>2, <2>2, <2>3, <2>6 DEF IInv, RestInv
<1>4. CASE view.kind = "dmenu"
    <2> DEFINE answer == IF choice \in DOMAIN view.lines
                         THEN Selected(view.lines[choice]) ELSE Cancelled
    <2>1. /\ clients' = Reply(clients, view.client, answer)
          /\ spawned' = Nothing
          /\ UNCHANGED feedback
        BY <1>4 DEF ActivateChoice
    <2>2. view.lines \in Seq(Seq(Char)) /\ view.client \in Clients
        BY <1>2, <1>4, KindsOfViews, DaemonAssumption, SessionAssumption
    <2>3. answer \in Answers
        <3>1. choice \in DOMAIN view.lines => view.lines[choice] \in Seq(Char)
            BY <2>2
        <3>2. QED
            BY <3>1, PlainAnswers, Zenon
    <2> HIDE DEF answer
    <2>4. HeldBy(clients', view')
        BY <1>1, <1>2, <1>4, <2>1, <2>2, <2>3, ReplyAnswers DEF HeldBy, Hidden
    <2>5. FeedbackInv'
        BY <1>1, <1>2, <2>1, GoneKeepsFeedback
    <2>6. QED
        BY <1>1, <1>2, <2>1, <2>4, <2>5, SpawnTypes DEF IInv, RestInv
<1>5. QED
    BY <1>2, <1>3, <1>4, KindsOfViews

LEMMA ApplyInv ==
    ASSUME IInv, view # Hidden, NEW result, GoodResult(result),
           result.session.choices = view.session.choices, Apply(result)
    PROVE  IInv'
<1>1. CASE result.outcome = Redraw
    <2> DEFINE v == [view EXCEPT !.session = result.session]
    <2>1. /\ view' = v /\ Draw(v) /\ spawned' = Nothing
          /\ UNCHANGED <<layer, configured, owed, feedback, clients, running, entries, gone>>
        BY <1>1 DEF Apply, Redraw, Ignored, Dismiss
    <2>2. GoodView(view)
        BY DEF IInv, ShownInv
    <2>3. /\ GoodView(v) /\ v.kind = view.kind
          /\ view.kind = "dmenu" => v.client = view.client
        BY <2>2, MovedViewIsGood DEF GoodResult
    <2> HIDE DEF v
    <2>4. layer # NoSurface
        BY DEF IInv, ShownInv, ViewHasSurface
    <2>5. ShownInv'
        BY <2>1, <2>3, <2>4, DrawKeepsShown DEF IInv
    <2>6. FeedbackInv'
        BY <2>1, FeedbackUnchanged DEF IInv
    <2>7. HeldBy(clients', view')
        BY <2>1, <2>3 DEF IInv, HeldBy
    <2>8. QED
        BY <2>1, <2>5, <2>6, <2>7, SpawnTypes DEF IInv, RestInv
<1>2. CASE result.outcome = Ignored
    <2>1. spawned' = Nothing /\ UNCHANGED <<shownVars, feedback, clients, running, entries, gone>>
        BY <1>2 DEF Apply, Redraw, Ignored, Dismiss
    <2>2. ShownInv' /\ FeedbackInv' /\ HeldBy(clients', view')
        BY <2>1, ShownUnchanged, FeedbackUnchanged DEF IInv, shownVars
    <2>3. QED
        BY <2>1, <2>2, SpawnTypes DEF IInv, RestInv
<1>3. CASE result.outcome = Dismiss
    <2>1. /\ Hide /\ clients' = CancelDmenu(clients) /\ spawned' = Nothing
          /\ UNCHANGED <<feedback, running, entries, gone>>
        BY <1>3 DEF Apply, Redraw, Ignored, Dismiss
    <2>2. ShownInv' /\ layer' = NoSurface /\ HeldBy(clients', view')
        BY <2>1, HideAndCancel DEF IInv
    <2>3. FeedbackInv'
        BY <2>1, <2>2, GoneKeepsFeedback DEF IInv
    <2>4. QED
        BY <2>1, <2>2, <2>3, SpawnTypes DEF IInv, RestInv
<1>4. CASE result.outcome.kind = "activate"
    <2>1. ActivateChoice(result.outcome.choice) /\ UNCHANGED <<running, entries, gone>>
        BY <1>4 DEF Apply, Redraw, Ignored, Dismiss
    <2>2. QED
        BY <2>1, ActivateInv
<1>5. QED
    BY <1>1, <1>2, <1>3, <1>4 DEF Apply

LEMMA InputInv ==
    ASSUME IInv
    PROVE  /\ \A key \in Keys : KeyPressed(key) => IInv'
           /\ \A s \in Surfaces, row \in 0..VisibleRows : ClickOn(s, row) => IInv'
           /\ \A s \in Surfaces, rows \in {-1, 1} : WheelOn(s, rows) => IInv'
<1>0. view # Hidden => WellFormed(view.session) /\ view.session \in SessionType
    BY DEF IInv, ShownInv, GoodView, WellFormed, IsSession
<1>1. ASSUME NEW key \in Keys, KeyPressed(key)
      PROVE  IInv'
    <2>1. /\ view # Hidden /\ Apply(Handle(view.session, key))
          /\ key.kind = "text" => FitsQuery(view.session, key.text)
        BY <1>1 DEF KeyPressed
    <2>2. GoodResult(Handle(view.session, key))
        BY <1>0, <2>1, HandleIsGood
    <2>3. Handle(view.session, key).session.choices = view.session.choices
        BY <1>0, <2>1, InputsKeepChoices
    <2>4. QED
        BY <2>1, <2>2, <2>3, ApplyInv
<1>2. ASSUME NEW s \in Surfaces, NEW row \in 0..VisibleRows, ClickOn(s, row)
      PROVE  IInv'
    <2>1. view # Hidden
        BY <1>2, DaemonAssumption DEF ClickOn, PointerOn, IInv, ShownInv, ViewHasSurface
    <2>2. row \in Nat
        BY SessionAssumption
    <2>3. GoodResult(Click(view.session, row))
        BY <1>0, <2>1, <2>2, ClickIsGood
    <2>4. Click(view.session, row).session.choices = view.session.choices
        BY <1>0, <2>1, InputsKeepChoices
    <2>5. QED
        BY <1>2, <2>1, <2>3, <2>4, ApplyInv DEF ClickOn
<1>3. ASSUME NEW s \in Surfaces, NEW rows \in {-1, 1}, WheelOn(s, rows)
      PROVE  IInv'
    <2>1. view # Hidden
        BY <1>3, DaemonAssumption DEF WheelOn, PointerOn, IInv, ShownInv, ViewHasSurface
    <2>2. rows \in Int
        OBVIOUS
    <2>3. GoodResult(Scroll(view.session, rows))
        BY <1>0, <2>1, <2>2, ScrollIsGood
    <2>4. Scroll(view.session, rows).session.choices = view.session.choices
        BY <1>0, <2>1, InputsKeepChoices
    <2>5. QED
        BY <1>3, <2>1, <2>3, <2>4, ApplyInv DEF WheelOn
<1>4. QED
    BY <1>1, <1>2, <1>3

LEMMA TapInv == IInv /\ Tap => IInv'
<1> SUFFICES ASSUME IInv, Tap PROVE IInv'
    OBVIOUS
<1>1. ShownInv' /\ FeedbackInv' /\ HeldBy(clients', view')
    BY ToggleKeeps DEF IInv, Tap
<1>2. QED
    BY <1>1, SpawnTypes DEF IInv, Tap, RestInv

-----------------------------------------------------------------------------
\* The compositor.

LEMMA FromCompositorRest == RestInv /\ FromCompositor => RestInv'
    BY SpawnTypes DEF RestInv, FromCompositor

LEMMA ConfigureInv ==
    ASSUME IInv, NEW s \in Surfaces, Configure(s)
    PROVE  IInv'
<1>1. layer # NoSurface
    BY DaemonAssumption DEF Configure
<1>2. view # Hidden /\ GoodView(view)
    BY <1>1 DEF IInv, ShownInv, ViewHasSurface
<1>3. /\ configured' = TRUE /\ owed' = FALSE /\ paintFailed' \in BOOLEAN
      /\ UNCHANGED <<view, layer, feedback, clients>>
    BY DEF Configure
<1>4. ViewHasSurface'
    BY <1>1, <1>2, <1>3 DEF ViewHasSurface
<1>5. ScreenCurrent'
    BY <1>3 DEF Configure, ScreenCurrent
<1>6. ShownInv'
    BY <1>2, <1>3, <1>4, <1>5 DEF IInv, ShownInv, GoodView
<1>7. FeedbackInv' /\ HeldBy(clients', view') /\ RestInv'
    BY <1>3, FeedbackUnchanged, FromCompositorRest DEF IInv, Configure
<1>8. QED
    BY <1>6, <1>7 DEF IInv

LEMMA ScaleFactorChangedInv ==
    ASSUME IInv, NEW s \in Surfaces, ScaleFactorChanged(s)
    PROVE  IInv'
<1>1. layer # NoSurface
    BY DaemonAssumption DEF ScaleFactorChanged
<1>2. GoodView(view)
    BY <1>1 DEF IInv, ShownInv, ViewHasSurface
<1>3. ShownInv'
    BY <1>1, <1>2, DrawKeepsShown DEF IInv, ScaleFactorChanged
<1>4. FeedbackInv' /\ HeldBy(clients', view') /\ RestInv'
    BY FeedbackUnchanged, FromCompositorRest DEF IInv, ScaleFactorChanged
<1>5. QED
    BY <1>3, <1>4 DEF IInv

LEMMA HiddenByCompositor ==
    ASSUME IInv, FromCompositor, Hide, clients' = CancelDmenu(clients), UNCHANGED feedback
    PROVE  IInv'
<1>1. ShownInv' /\ layer' = NoSurface /\ HeldBy(clients', view')
    BY HideAndCancel DEF IInv
<1>2. FeedbackInv' /\ RestInv'
    BY <1>1, GoneKeepsFeedback, FromCompositorRest DEF IInv
<1>3. QED
    BY <1>1, <1>2 DEF IInv

\* Feedback goes, and nothing else changes.
LEMMA FeedbackGone ==
    ASSUME IInv, FromCompositor, feedback' = NoSurface, UNCHANGED <<shownVars, clients>>
    PROVE  IInv'
<1>1. ShownInv' /\ HeldBy(clients', view')
    BY ShownUnchanged DEF IInv, shownVars
<1>2. FeedbackInv' /\ RestInv'
    BY FromCompositorRest DEF IInv, FeedbackInv, LauncherExcludesFeedback
<1>3. QED
    BY <1>1, <1>2 DEF IInv

LEMMA CompositorInv ==
    ASSUME IInv
    PROVE  /\ \A s \in Surfaces :
                 \/ Configure(s) \/ ScaleFactorChanged(s) \/ SurfaceClosed(s) \/ FocusLeaves(s)
                 => IInv'
           /\ FeedbackEnds => IInv'
<1>1. ASSUME NEW s \in Surfaces, SurfaceClosed(s)
      PROVE  IInv'
    BY <1>1, HiddenByCompositor, FeedbackGone DEF SurfaceClosed
<1>2. ASSUME NEW s \in Surfaces, FocusLeaves(s)
      PROVE  IInv'
    BY <1>2, HiddenByCompositor DEF FocusLeaves
<1>3. ASSUME FeedbackEnds
      PROVE  IInv'
    BY <1>3, FeedbackGone DEF FeedbackEnds
<1>4. QED
    BY <1>1, <1>2, <1>3, ConfigureInv, ScaleFactorChangedInv

-----------------------------------------------------------------------------
\* Clients and the daemon's life.

LEMMA ReloadCatalogInv == IInv /\ ReloadCatalog => IInv'
<1> SUFFICES ASSUME IInv, ReloadCatalog PROVE IInv'
    OBVIOUS
<1>1. ShownInv' /\ FeedbackInv' /\ HeldBy(clients', view')
    BY ShownUnchanged, FeedbackUnchanged DEF IInv, ReloadCatalog, shownVars
<1>2. RestInv'
    BY SpawnTypes DEF IInv, RestInv, ReloadCatalog
<1>3. QED
    BY <1>1, <1>2 DEF IInv

LEMMA RequestInv ==
    ASSUME IInv, NEW c \in Clients, NEW request \in Requests, Request(c, request)
    PROVE  IInv'
<1> DEFINE conn == IF running THEN Sent(request)
                   ELSE Done(IF request.kind = "dmenu" THEN Failed ELSE Closed)
<1>1. conn \in Connections /\ conn.state # "held"
    BY AnsweredConnection, PlainAnswers DEF Sent, Connections
<1>2. clients[c].state # "held"
    BY DEF Request, NotConnected
<1>3. clients' = [clients EXCEPT ![c] = conn]
    BY DEF Request
<1> HIDE DEF conn
<1>4. HeldBy(clients', view)
    BY <1>1, <1>2, <1>3, OtherConnection DEF IInv
<1>5. ShownInv' /\ FeedbackInv' /\ view' = view
    BY ShownUnchanged, FeedbackUnchanged DEF IInv, Request, shownVars
<1>6. RestInv'
    BY SpawnTypes DEF IInv, RestInv, Request
<1>7. QED
    BY <1>4, <1>5, <1>6 DEF IInv

LEMMA KilledInv ==
    ASSUME IInv, NEW c \in Clients, Killed(c)
    PROVE  IInv'
<1>1. ShownInv' /\ FeedbackInv' /\ HeldBy(clients', view')
    BY ShownUnchanged, FeedbackUnchanged DEF IInv, Killed, shownVars
<1>2. RestInv'
    BY SpawnTypes DEF IInv, RestInv, Killed
<1>3. QED
    BY <1>1, <1>2 DEF IInv

LEMMA SeveredReleases ==
    ASSUME clients \in [Clients -> Connections], NEW unread \in {Cancelled, Failed}
    PROVE  HeldBy(Severed(unread), Hidden)
<1>1. ASSUME NEW c \in Clients
      PROVE  Severed(unread)[c] \in Connections /\ Severed(unread)[c].state # "held"
    <2>1. unread \in Answers /\ {Lost, Cancelled, Closed} \subseteq Answers
        BY PlainAnswers
    <2>2. \/ \E answer \in Answers : Severed(unread)[c] = Done(answer)
          \/ Severed(unread)[c] = clients[c] /\ clients[c].state # "held"
        BY <2>1 DEF Severed
    <2>3. QED
        BY <2>2, AnsweredConnection
<1>2. Severed(unread) \in [Clients -> Connections]
    BY <1>1 DEF Severed
<1>3. QED
    BY <1>1, <1>2 DEF HeldBy, Hidden

LEMMA LifeInv == IInv /\ (Exit \/ Start) => IInv'
<1>1. ASSUME IInv, Exit
      PROVE  IInv'
    <2>1. ShownInv' /\ view' = Hidden /\ layer' = NoSurface
        BY <1>1, HideKeepsShown DEF Exit
    <2>2. HeldBy(clients', view')
        BY <1>1, <2>1, SeveredReleases DEF Exit, IInv, HeldBy
    <2>3. FeedbackInv'
        BY <1>1, <2>1, GoneKeepsFeedback DEF Exit, IInv
    <2>4. RestInv'
        BY <1>1, SpawnTypes DEF Exit, IInv, RestInv
    <2>5. QED
        BY <2>1, <2>2, <2>3, <2>4 DEF IInv
<1>2. ASSUME IInv, Start
      PROVE  IInv'
    <2>1. ShownInv' /\ FeedbackInv' /\ HeldBy(clients', view')
        BY <1>2, ShownUnchanged, FeedbackUnchanged DEF IInv, Start, shownVars
    <2>2. RestInv'
        BY <1>2, SpawnTypes DEF IInv, RestInv, Start
    <2>3. QED
        BY <2>1, <2>2 DEF IInv
<1>3. QED
    BY <1>1, <1>2

LEMMA NextIInv == IInv /\ [Next]_vars => IInv'
<1> SUFFICES ASSUME IInv, [Next]_vars PROVE IInv'
    OBVIOUS
<1>1. ASSUME Next
      PROVE  IInv'
    BY <1>1, RequestInv, HandleRequestInv, KilledInv, InputInv, CompositorInv, TapInv,
       ReloadCatalogInv, LifeInv DEF Next
<1>2. ASSUME UNCHANGED vars
      PROVE  IInv'
    <2>1. ShownInv' /\ FeedbackInv' /\ HeldBy(clients', view')
        BY <1>2, ShownUnchanged, FeedbackUnchanged DEF IInv, vars, shownVars
    <2>2. RestInv'
        BY <1>2 DEF IInv, RestInv, vars
    <2>3. QED
        BY <2>1, <2>2 DEF IInv
<1>3. QED
    BY <1>1, <1>2

LEMMA SpecIInv == Spec => []IInv
    BY InitIInv, NextIInv, PTL DEF Spec

-----------------------------------------------------------------------------
\* Every variable keeps its type; in particular the session on screen is well formed, so
\* an outcome never names a row that does not exist.
THEOREM DaemonTypeCorrect == Spec => []TypeOK
<1>1. IInv => TypeOK
    BY DEF IInv, ShownInv, FeedbackInv, RestInv, HeldBy, GoodView, WellFormed, TypeOK
<1>2. QED
    BY <1>1, SpecIInv, PTL

\* A surface exists exactly while a view is shown.
THEOREM SurfaceIffView == Spec => []ViewHasSurface
<1>1. IInv => ViewHasSurface
    BY DEF IInv, ShownInv
<1>2. QED
    BY <1>1, SpecIInv, PTL

\* The list and launch feedback are never on screen together.
THEOREM ListExcludesFeedback == Spec => []LauncherExcludesFeedback
<1>1. IInv => LauncherExcludesFeedback
    BY DEF IInv, FeedbackInv
<1>2. QED
    BY <1>1, SpecIInv, PTL

\* A connection is held exactly while its own menu is on screen, whatever other clients,
\* the compositor and the user do: no dmenu client is ever forgotten.
THEOREM NoClientIsForgotten == Spec => []HeldIsShown
<1>1. IInv => HeldIsShown
    BY DEF IInv, HeldBy, HeldIsShown
<1>2. QED
    BY <1>1, SpecIInv, PTL

\* The rows of a view stay those of the snapshot or the menu it was opened over.
THEOREM RowsKeepTheirMeaning == Spec => []IndexedLikeChoices
<1>1. IInv => IndexedLikeChoices
    BY DEF IInv, ShownInv, GoodView, IndexedLikeChoices, Hidden
<1>2. QED
    BY <1>1, SpecIInv, PTL

\* What a configured surface shows is the view of now, unless painting it failed.
THEOREM ScreenNeverStale == Spec => []ScreenCurrent
<1>1. IInv => ScreenCurrent
    BY DEF IInv, ShownInv
<1>2. QED
    BY <1>1, SpecIInv, PTL

-----------------------------------------------------------------------------
\* What the user picks.

\* The latest step starts nothing that was chosen from a list, and answers no held
\* connection with a selection.
PicksNothing ==
    /\ ~(spawned'.kind = "entry" /\ spawned'.chosen)
    /\ \A c \in Clients :
          clients[c].state = "held" /\ clients'[c].state = "done"
              => clients'[c].answer.kind # "selected"

PicksOnScreen ==
    /\ spawned'.kind = "entry" /\ spawned'.chosen => OnScreen(EntryName[spawned'.entry])
    /\ \A c \in Clients :
          /\ clients[c].state = "held"
          /\ clients'[c].state = "done"
          /\ clients'[c].answer.kind = "selected"
          => OnScreen(clients'[c].answer.line)

LEMMA PlainSpawns ==
    ASSUME NEW what, what \in {Nothing, Command, Notice} \/ \E entry : what = Application(entry, FALSE)
    PROVE  ~(what.kind = "entry" /\ what.chosen)
    BY DEF Nothing, Command, Notice, Application

\* No answer but a selection is one.
LEMMA PlainEnds ==
    ASSUME NEW answer \in {Cancelled, Failed, Lost, Closed}
    PROVE  Done(answer).state = "done" /\ Done(answer).answer.kind # "selected"
    BY DEF Done, Cancelled, Failed, Lost, Closed

\* To cancel the menu on screen is no pick, whatever became of connections that were not held.
LEMMA CancelPicksNothing ==
    ASSUME IInv, NEW conns \in [Clients -> Connections], NEW d \in Clients,
           \A c \in Clients : clients[c].state = "held" => conns[c] = clients[c],
           clients[d].state = "held", CancelDmenu(conns)[d].state = "done"
    PROVE  CancelDmenu(conns)[d].answer.kind # "selected"
<1>1. conns[d].state = "held"
    OBVIOUS
<1>2. CASE view.kind = "dmenu"
    <2> DEFINE sent == IF view.client \in gone THEN Lost ELSE Cancelled
    <2>1. CancelDmenu(conns) = [conns EXCEPT ![view.client] = Done(sent)]
        BY <1>2 DEF CancelDmenu, Reply
    <2>2. Done(sent).answer.kind # "selected"
        BY PlainEnds
    <2> HIDE DEF sent
    <2>3. QED
        BY <1>1, <2>1, <2>2
<1>3. CASE view.kind # "dmenu"
    BY <1>1, <1>3 DEF CancelDmenu
<1>4. QED
    BY <1>2, <1>3

\* What a row of the screen says is what the choice behind it is called.
LEMMA RowIsOnScreen ==
    ASSUME IInv, view # Hidden, NEW i \in DOMAIN Rows(view.session)
    PROVE  OnScreen(view.session.choices[Rows(view.session)[i].choice])
<1>1. SUFFICES ASSUME configured, ~paintFailed
               PROVE  \E row \in DOMAIN screen.rows :
                          screen.rows[row].text = view.session.choices[Rows(view.session)[i].choice]
    BY DEF OnScreen
<1>2. screen = Picture(view)
    BY <1>1 DEF IInv, ShownInv, ScreenCurrent
<1>3. screen.rows = [row \in DOMAIN Rows(view.session) |->
                        [text |-> view.session.choices[Rows(view.session)[row].choice],
                         selected |-> Rows(view.session)[row].selected]]
    BY <1>2 DEF Picture
<1>4. i \in DOMAIN screen.rows
    BY <1>3
<1>5. screen.rows[i] = [text |-> view.session.choices[Rows(view.session)[i].choice],
                        selected |-> Rows(view.session)[i].selected]
    BY <1>3
<1>6. screen.rows[i].text = view.session.choices[Rows(view.session)[i].choice]
    BY <1>5
<1>7. QED
    BY <1>4, <1>6

\* activate() takes what the row says, from the snapshot or the menu behind it.
LEMMA ActivatePicksOnScreen ==
    ASSUME IInv, view # Hidden, NEW i \in DOMAIN Rows(view.session),
           ActivateChoice(Rows(view.session)[i].choice)
    PROVE  PicksOnScreen
<1> DEFINE choice == Rows(view.session)[i].choice
<1>1. OnScreen(view.session.choices[choice])
    BY RowIsOnScreen
<1>2. GoodView(view) /\ view \in Views /\ HeldBy(clients, view)
    BY DEF IInv, ShownInv
<1> HIDE DEF choice
<1>3. ActivateChoice(choice)
    BY DEF choice
<1>4. CASE view.kind = "apps"
    <2>1. UNCHANGED clients
        BY <1>3, <1>4 DEF ActivateChoice
    <2>2. CASE choice \in DOMAIN view.entries
        <3>1. spawned' = Application(view.entries[choice], TRUE)
            BY <1>3, <1>4, <2>2 DEF ActivateChoice
        <3>2. spawned'.entry = view.entries[choice]
            BY <3>1 DEF Application
        <3>3. view.session.choices = Names(view.entries)
            BY <1>2, <1>4 DEF GoodView
        <3>4. view.session.choices[choice] = EntryName[view.entries[choice]]
            BY <2>2, <3>3 DEF Names
        <3>5. QED
            BY <1>1, <2>1, <3>2, <3>4 DEF PicksOnScreen
    <2>3. CASE choice \notin DOMAIN view.entries
        <3>1. spawned' = Nothing
            BY <1>3, <1>4, <2>3 DEF ActivateChoice
        <3>2. QED
            BY <2>1, <3>1 DEF PicksOnScreen, Nothing
    <2>4. QED
        BY <2>2, <2>3
<1>5. CASE view.kind = "dmenu"
    <2> DEFINE answer == IF choice \in DOMAIN view.lines
                         THEN Selected(view.lines[choice]) ELSE Cancelled
               sent == IF view.client \in gone THEN Lost ELSE answer
    <2>1. clients' = [clients EXCEPT ![view.client] = Done(sent)] /\ spawned' = Nothing
        BY <1>3, <1>5 DEF ActivateChoice, Reply
    <2>2. sent.kind = "selected" => sent.line = view.session.choices[choice]
        <3>1. Lost.kind # "selected" /\ Cancelled.kind # "selected"
            BY DEF Lost, Cancelled
        <3>2. Selected(view.lines[choice]).line = view.lines[choice]
            BY DEF Selected
        <3>3. view.session.choices = view.lines
            BY <1>2, <1>5 DEF GoodView
        <3>4. QED
            BY <3>1, <3>2, <3>3
    <2> HIDE DEF answer, sent
    <2>3. ASSUME NEW c \in Clients, clients[c].state = "held", clients'[c].state = "done",
                 clients'[c].answer.kind = "selected"
          PROVE  OnScreen(clients'[c].answer.line)
        <3>1. c = view.client
            BY <1>2, <2>3 DEF HeldBy
        <3>2. clients'[c].answer = sent
            BY <1>2, <2>1, <3>1 DEF HeldBy, Done
        <3>3. QED
            BY <1>1, <2>2, <2>3, <3>2
    <2>4. QED
        BY <2>1, <2>3 DEF PicksOnScreen, Nothing
<1>6. QED
    BY <1>2, <1>4, <1>5, KindsOfViews

LEMMA NothingIsOnScreen == PicksNothing => PicksOnScreen
    BY DEF PicksNothing, PicksOnScreen

\* The outcome of an input picks what its row shows, or nothing.
LEMMA ApplyPicksOnScreen ==
    ASSUME IInv, view # Hidden, NEW result, Apply(result),
           result.outcome.kind = "activate" =>
               \E i \in DOMAIN Rows(view.session) : Rows(view.session)[i].choice = result.outcome.choice
    PROVE  PicksOnScreen
<1>1. CASE result.outcome.kind = "activate"
    <2>1. ActivateChoice(result.outcome.choice)
        BY <1>1 DEF Apply, Redraw, Ignored, Dismiss
    <2>2. QED
        BY <1>1, <2>1, ActivatePicksOnScreen
<1>2. CASE result.outcome.kind # "activate"
    <2>1. spawned' = Nothing /\ (UNCHANGED clients \/ clients' = CancelDmenu(clients))
        BY <1>2 DEF Apply
    <2>2. clients \in [Clients -> Connections]
        BY DEF IInv, HeldBy
    <2>3. QED
        BY <2>1, <2>2, CancelPicksNothing, PlainSpawns, NothingIsOnScreen DEF PicksNothing
<1>3. QED
    BY <1>1, <1>2

\* A key or a click activates only a row of the window.
LEMMA InputsTakeRows ==
    ASSUME NEW s, WellFormed(s)
    PROVE  /\ \A key \in Keys :
                 Handle(s, key).outcome.kind = "activate" =>
                     \E i \in DOMAIN Rows(s) : Rows(s)[i].choice = Handle(s, key).outcome.choice
           /\ \A row \in Nat :
                 Click(s, row).outcome.kind = "activate" =>
                     \E i \in DOMAIN Rows(s) : Rows(s)[i].choice = Click(s, row).outcome.choice
           /\ \A rows : Scroll(s, rows).outcome.kind # "activate"
<1>0. s.top \in Nat /\ s.selected \in Nat /\ VisibleRows \in Nat
    BY SessionAssumption DEF WellFormed, IsSession, SessionType
<1>1. ASSUME NEW key \in Keys, Handle(s, key).outcome.kind = "activate"
      PROVE  \E i \in DOMAIN Rows(s) : Rows(s)[i].choice = Handle(s, key).outcome.choice
    <2>1. CASE key.kind = "enter"
        <3>1. Handle(s, key) = ChooseAt(s, s.selected)
            BY <2>1 DEF Handle
        <3>2. s.top <= s.selected /\ s.selected < s.top + VisibleRows
            BY DEF WellFormed, Placed
        <3>3. QED
            BY <1>0, <1>1, <3>1, <3>2, ChooseAtTakesItsRow
    <2>2. CASE key.kind # "enter"
        BY <1>1, <2>2 DEF Keys, Handle, TypeText, Backspace, SelectPrevious, SelectNext, Result,
                          Ignored, Redraw, Dismiss
    <2>3. QED
        BY <2>1, <2>2
<1>2. ASSUME NEW row \in Nat, Click(s, row).outcome.kind = "activate"
      PROVE  \E i \in DOMAIN Rows(s) : Rows(s)[i].choice = Click(s, row).outcome.choice
    <2>1. ~(row >= VisibleRows)
        BY <1>2 DEF Click, Result, Ignored
    <2>2. Click(s, row) = ChooseAt(s, s.top + row)
        BY <2>1 DEF Click
    <2>3. s.top + row \in Nat /\ s.top <= s.top + row /\ s.top + row < s.top + VisibleRows
        BY <1>0, <2>1
    <2>4. QED
        BY <1>2, <2>2, <2>3, ChooseAtTakesItsRow
<1>3. ASSUME NEW rows
      PROVE  Scroll(s, rows).outcome.kind # "activate"
    BY DEF Scroll, Result, Ignored, Redraw
<1>4. QED
    BY <1>1, <1>2, <1>3

LEMMA InputPicksOnScreen ==
    ASSUME IInv,
           \/ \E key \in Keys : KeyPressed(key)
           \/ \E s \in Surfaces, row \in 0..VisibleRows : ClickOn(s, row)
           \/ \E s \in Surfaces, rows \in {-1, 1} : WheelOn(s, rows)
    PROVE  PicksOnScreen
<1>1. view # Hidden
    BY DaemonAssumption DEF KeyPressed, ClickOn, WheelOn, PointerOn, IInv, ShownInv, ViewHasSurface
<1>2. WellFormed(view.session)
    BY <1>1 DEF IInv, ShownInv, GoodView
<1>3. 0..VisibleRows \subseteq Nat
    BY SessionAssumption
<1>4. QED
    BY <1>1, <1>2, <1>3, InputsTakeRows, ApplyPicksOnScreen DEF KeyPressed, ClickOn, WheelOn

-----------------------------------------------------------------------------
\* No other step is a pick.

LEMMA RequestPicksNothing ==
    ASSUME IInv, NEW c \in Clients, HandleRequest(c)
    PROVE  PicksNothing
<1> USE DEF Handles
<1>1. clients[c].state = "sent" /\ clients \in [Clients -> Connections]
    BY DEF HandleRequest, HandleInvalid, HandleToggle, HandleClose, HandleLaunch, HandleRun,
           HandleDmenu, IInv, HeldBy
<1>2. /\ AfterRequest(c) \in [Clients -> Connections]
      /\ \A d \in Clients : clients[d].state = "held" => AfterRequest(c)[d] = clients[d]
    BY <1>1, AnsweredConnection, PlainAnswers DEF AfterRequest
<1>3. ~(spawned'.kind = "entry" /\ spawned'.chosen)
    <2>1. spawned' \in {Nothing, Command, Notice} \/ \E entry : spawned' = Application(entry, FALSE)
        BY DEF HandleRequest, HandleInvalid, HandleToggle, HandleClose, HandleLaunch, HandleRun,
               HandleDmenu
    <2>2. QED
        BY <2>1, PlainSpawns
<1>4. ASSUME NEW d \in Clients, clients[d].state = "held", clients'[d].state = "done"
      PROVE  clients'[d].answer.kind # "selected"
    <2>1. CASE clients' \in {AfterRequest(c), CancelDmenu(AfterRequest(c))}
        BY <1>2, <1>4, <2>1, CancelPicksNothing
    <2>2. CASE HandleDmenu(c)
        <3>1. clients' = [CancelDmenu(clients) EXCEPT ![c] = Held]
            BY <2>2 DEF HandleDmenu
        <3>2. c # d
            BY <1>1, <1>4
        <3>3. clients'[d] = CancelDmenu(clients)[d]
            BY <3>1, <3>2
        <3>4. QED
            BY <1>1, <1>4, <3>3, CancelPicksNothing
    <2>3. QED
        BY <2>1, <2>2 DEF HandleRequest, HandleInvalid, HandleToggle, HandleClose, HandleLaunch,
                          HandleRun, Toggle
<1>5. QED
    BY <1>3, <1>4 DEF PicksNothing

LEMMA OthersPickNothing ==
    ASSUME IInv,
           \/ \E c \in Clients, request \in Requests : Request(c, request)
           \/ \E c \in Clients : Killed(c)
           \/ \E s \in Surfaces :
                 Configure(s) \/ ScaleFactorChanged(s) \/ SurfaceClosed(s) \/ FocusLeaves(s)
           \/ Tap \/ FeedbackEnds \/ ReloadCatalog \/ Exit \/ Start
    PROVE  PicksNothing
<1>1. spawned' = Nothing
    BY DEF Request, Killed, Configure, ScaleFactorChanged, SurfaceClosed, FocusLeaves, FromCompositor,
           Tap, FeedbackEnds, ReloadCatalog, Exit, Start
<1>2. clients \in [Clients -> Connections]
    BY DEF IInv, HeldBy
<1>3. ASSUME NEW d \in Clients, clients[d].state = "held", clients'[d].state = "done"
      PROVE  clients'[d].answer.kind # "selected"
    <2>1. CASE UNCHANGED clients \/ clients' = CancelDmenu(clients)
        BY <1>2, <1>3, <2>1, CancelPicksNothing
    <2>2. ASSUME NEW c \in Clients, NEW request \in Requests, Request(c, request)
          PROVE  FALSE
        <3>1. c # d /\ clients'[d] = clients[d]
            BY <1>2, <1>3, <2>2 DEF Request, NotConnected
        <3>2. QED
            BY <1>3, <3>1
    <2>3. ASSUME NEW unread \in {Cancelled, Failed}, clients' = Severed(unread)
          PROVE  clients'[d].answer.kind # "selected"
        <3>1. clients'[d] = Done(IF d \in gone THEN Lost ELSE Cancelled)
            BY <1>3, <2>3 DEF Severed
        <3>2. QED
            BY <3>1, PlainEnds
    <2>4. QED
        BY <2>1, <2>2, <2>3
        DEF Killed, Configure, ScaleFactorChanged, SurfaceClosed, FocusLeaves, FromCompositor,
            Tap, Toggle, FeedbackEnds, ReloadCatalog, Exit, Start
<1>4. QED
    BY <1>1, <1>3, PlainSpawns DEF PicksNothing

\* What is started or answered is what a row of the screen said, unless painting failed, through
\* every reload of the catalog and change of the view, for any number of clients, lists and menus.
THEOREM PicksAreOnScreen == Spec => PickWasOnScreen
<1>1. IInv /\ [Next]_vars => [PicksOnScreen]_vars
    BY InputPicksOnScreen, RequestPicksNothing, OthersPickNothing, NothingIsOnScreen DEF Next
<1>2. QED
    BY <1>1, SpecIInv, PTL DEF Spec, PickWasOnScreen, PicksOnScreen

-----------------------------------------------------------------------------
(* The daemon implements DmenuService: every step of the daemon, of its clients, the     *)
(* compositor and the user is a step of the service or leaves it as it is, for any number *)
(* of clients and any menus.                                                              *)

\* What a connection is to the service while v is shown.
StageOf(conn, v) ==
    CASE conn.state = "held" -> [state |-> "shown", lines |-> v.lines]
      [] conn.state = "sent" /\ conn.request.kind = "dmenu" ->
            [state |-> "waiting", lines |-> conn.request.lines]
      [] conn.state = "done" /\ conn.answer # Closed ->
            [state |-> "answered", answer |-> conn.answer]
      [] OTHER -> [state |-> "idle"]

Asked == [c \in Clients |-> StageOf(clients[c], view)]

LEMMA AskedIsIdleAtFirst == Init => Service!Init
<1>1. NotConnected.state = "idle"
    BY DEF NotConnected
<1>2. ASSUME Init, NEW c \in Clients
      PROVE  StageOf(clients[c], view) = Service!Idle
    BY <1>1, <1>2 DEF Init, StageOf, Service!Idle
<1>3. QED
    BY <1>2 DEF Service!Init, StageOf

LEMMA StageFacts ==
    ASSUME NEW conn, NEW v
    PROVE  /\ conn.state = "held" => StageOf(conn, v) = Service!OnScreen(v.lines)
           /\ conn.state = "sent" /\ conn.request.kind = "dmenu" =>
                 StageOf(conn, v) = Service!Waiting(conn.request.lines)
           /\ conn.state = "sent" /\ conn.request.kind # "dmenu" => StageOf(conn, v) = Service!Idle
           /\ conn.state = "done" /\ conn.answer # Closed =>
                 StageOf(conn, v) = Service!Answered(conn.answer)
           /\ conn.state = "done" /\ conn.answer = Closed => StageOf(conn, v) = Service!Idle
           /\ conn.state = "idle" => StageOf(conn, v) = Service!Idle
<1> USE DEF StageOf, Service!OnScreen, Service!Waiting, Service!Idle, Service!Answered
<1>1. ASSUME conn.state = "held"
      PROVE  StageOf(conn, v) = Service!OnScreen(v.lines)
    BY <1>1
<1>2. ASSUME conn.state = "sent", conn.request.kind = "dmenu"
      PROVE  StageOf(conn, v) = Service!Waiting(conn.request.lines)
    BY <1>2
<1>3. ASSUME conn.state = "sent", conn.request.kind # "dmenu"
      PROVE  StageOf(conn, v) = Service!Idle
    BY <1>3
<1>4. ASSUME conn.state = "done", conn.answer # Closed
      PROVE  StageOf(conn, v) = Service!Answered(conn.answer)
    BY <1>4
<1>5. ASSUME conn.state = "done", conn.answer = Closed
      PROVE  StageOf(conn, v) = Service!Idle
    BY <1>5
<1>6. ASSUME conn.state = "idle"
      PROVE  StageOf(conn, v) = Service!Idle
    BY <1>6
<1>7. QED
    BY <1>1, <1>2, <1>3, <1>4, <1>5, <1>6

LEMMA StateFacts ==
    /\ Service!Idle.state = "idle"
    /\ \A lines : /\ Service!OnScreen(lines).state = "shown"
                  /\ Service!OnScreen(lines).lines = lines
                  /\ Service!Waiting(lines).state = "waiting"
                  /\ Service!Waiting(lines).lines = lines
    /\ \A answer : Service!Answered(answer).state = "answered"
    BY DEF Service!OnScreen, Service!Waiting, Service!Idle, Service!Answered

\* Answers a dmenu client can read differ from the plain end of a connection.
LEMMA RealAnswers ==
    /\ Cancelled # Closed /\ Failed # Closed /\ Lost # Closed
    /\ \A line : Selected(line) # Closed
<1>1. /\ Cancelled.kind = "cancelled" /\ Failed.kind = "failed" /\ Lost.kind = "lost"
      /\ Closed.kind = "closed" /\ \A line : Selected(line).kind = "selected"
    BY DEF Cancelled, Failed, Lost, Closed, Selected
<1>2. QED
    BY <1>1

LEMMA DoneStage ==
    ASSUME NEW answer, NEW v
    PROVE  /\ answer # Closed => StageOf(Done(answer), v) = Service!Answered(answer)
           /\ StageOf(Done(Closed), v) = Service!Idle
<1>1. \A a : Done(a).state = "done" /\ Done(a).answer = a
    BY DEF Done
<1>2. QED
    BY <1>1, StageFacts

\* Only the stage of a client whose menu is on screen depends on the view.
LEMMA UnheldStage ==
    ASSUME NEW conn \in Connections, conn.state # "held", NEW v, NEW w
    PROVE  StageOf(conn, v) = StageOf(conn, w) /\ StageOf(conn, v).state # "shown"
<1>1. conn.state \in {"idle", "sent", "done"}
    BY DEF Connections
<1>2. QED
    BY <1>1, StageFacts, StateFacts

LEMMA AskedFacts ==
    /\ \A c \in Clients : Asked[c] = StageOf(clients[c], view)
    /\ Asked = [c \in Clients |-> Asked[c]]
    BY DEF Asked

LEMMA AskedFactsNext ==
    /\ \A c \in Clients : Asked'[c] = StageOf(clients'[c], view')
    /\ Asked' = [c \in Clients |-> Asked'[c]]
    BY DEF Asked

-----------------------------------------------------------------------------
\* The steps of the service, on Asked.

LEMMA AskStep ==
    ASSUME NEW c \in Clients, NEW lines \in Menus, Asked[c] = Service!Idle,
           Asked' = [Asked EXCEPT ![c] = Service!Waiting(lines)]
    PROVE  Service!Next
<1>1. Service!Ask(c, lines)
    BY DEF Service!Ask, Asked, StageOf
<1>2. QED
    BY <1>1 DEF Service!Next

LEMMA DismissedStep ==
    ASSUME NEW c \in Clients, Asked[c].state = "shown", NEW answer \in {Cancelled, Lost},
           Asked' = [Asked EXCEPT ![c] = Service!Answered(answer)]
    PROVE  Service!Next
<1>1. Service!Dismissed(c)
    BY DEF Service!Dismissed, Service!IsShown, Service!Cancelled, Service!Lost, Cancelled, Lost,
           Asked, StageOf
<1>2. QED
    BY <1>1 DEF Service!Next

LEMMA RefuseStep ==
    ASSUME NEW c \in Clients, Asked[c] = Service!Idle,
           Asked' = [Asked EXCEPT ![c] = Service!Answered(Failed)]
    PROVE  Service!Next
<1>1. Service!Refuse(c)
    BY DEF Service!Refuse, Service!Failed, Failed, Asked, StageOf
<1>2. QED
    BY <1>1 DEF Service!Next

LEMMA ChooseStep ==
    ASSUME NEW c \in Clients, Asked[c].state = "shown", NEW i \in DOMAIN Asked[c].lines,
           NEW answer \in {Selected(Asked[c].lines[i]), Lost},
           Asked' = [Asked EXCEPT ![c] = Service!Answered(answer)]
    PROVE  Service!Next
<1>1. Service!Choose(c)
    BY DEF Service!Choose, Service!IsShown, Service!Selected, Service!Lost, Selected, Lost,
           Asked, StageOf
<1>2. QED
    BY <1>1 DEF Service!Next

LEMMA ShowStep ==
    ASSUME NEW c \in Clients, Asked[c].state = "waiting", NEW answer \in {Cancelled, Lost},
           Asked' = [d \in Clients |->
                        IF d = c THEN Service!OnScreen(Asked[c].lines)
                        ELSE IF Asked[d].state = "shown" THEN Service!Answered(answer)
                        ELSE Asked[d]]
    PROVE  Service!Next
<1>1. Service!Show(c)
    BY DEF Service!Show, Service!IsShown, Service!Cancelled, Service!Lost, Cancelled, Lost,
           Asked, StageOf
<1>2. QED
    BY <1>1 DEF Service!Next

LEMMA OutageStep ==
    ASSUME NEW answers \in [Clients -> {Cancelled, Failed, Lost}],
           Asked' = [c \in Clients |-> IF Asked[c].state \in {"waiting", "shown"}
                                       THEN Service!Answered(answers[c]) ELSE Asked[c]]
    PROVE  Service!Next
<1>1. Service!Outage
    BY DEF Service!Outage, Service!Cancelled, Service!Failed, Service!Lost,
           Cancelled, Failed, Lost, Asked, StageOf
<1>2. QED
    BY <1>1 DEF Service!Next

-----------------------------------------------------------------------------
\* The daemon's building blocks.

\* Connections that differ from those of now in nothing the service knows.
Alike(conns) ==
    /\ HeldBy(conns, view)
    /\ \A c \in Clients : StageOf(conns[c], view) = Asked[c]

LEMMA ClientsAlike == IInv => Alike(clients)
    BY AskedFacts DEF Alike, IInv

LEMMA AfterRequestAlike ==
    ASSUME IInv, NEW c \in Clients, clients[c].state = "sent", clients[c].request.kind # "dmenu"
    PROVE  Alike(AfterRequest(c))
<1>1. HeldBy(AfterRequest(c), view) /\ clients \in [Clients -> Connections]
    BY AfterRequestHeld DEF IInv, HeldBy
<1>2. StageOf(AfterRequest(c)[c], view) = Asked[c]
    <2>1. AfterRequest(c)[c] = Done(Closed)
        BY <1>1 DEF AfterRequest
    <2>2. QED
        BY <2>1, DoneStage, StageFacts, AskedFacts
<1>3. ASSUME NEW d \in Clients, d # c
      PROVE  StageOf(AfterRequest(c)[d], view) = Asked[d]
    <2>1. AfterRequest(c)[d] = clients[d]
        BY <1>1, <1>3 DEF AfterRequest
    <2>2. QED
        BY <2>1, AskedFacts
<1>4. QED
    BY <1>1, <1>2, <1>3 DEF Alike

\* The connections change at most alike and whatever menu was shown stays.
LEMMA KeptStep ==
    ASSUME Alike(clients'), view.kind = "dmenu" => view'.lines = view.lines
    PROVE  Asked' = Asked
<1>1. ASSUME NEW c \in Clients
      PROVE  StageOf(clients'[c], view') = Asked[c]
    <2>1. clients'[c] \in Connections /\ StageOf(clients'[c], view) = Asked[c]
        BY DEF Alike, HeldBy
    <2>2. CASE clients'[c].state = "held"
        <3>1. view'.lines = view.lines
            BY <2>2 DEF Alike, HeldBy
        <3>2. QED
            BY <2>1, <2>2, <3>1, StageFacts
    <2>3. CASE clients'[c].state # "held"
        BY <2>1, <2>3, UnheldStage
    <2>4. QED
        BY <2>2, <2>3
<1>2. QED
    BY <1>1, AskedFacts, AskedFactsNext

\* One client's menu is answered and leaves the screen.
LEMMA AnsweredStages ==
    ASSUME IInv, NEW conns, Alike(conns), view.kind = "dmenu", NEW answer, answer # Closed,
           clients' = [conns EXCEPT ![view.client] = Done(answer)]
    PROVE  /\ view.client \in Clients /\ Asked[view.client] = Service!OnScreen(view.lines)
           /\ Asked' = [Asked EXCEPT ![view.client] = Service!Answered(answer)]
<1> DEFINE k == view.client
<1>1. k \in Clients /\ conns \in [Clients -> Connections] /\ clients[k].state = "held"
      /\ \A c \in Clients : conns[c].state = "held" <=> c = k
    BY KindsOfViews DEF IInv, ShownInv, HeldBy, Alike
<1>2. Asked[k] = Service!OnScreen(view.lines)
    BY <1>1, AskedFacts, StageFacts
<1> HIDE DEF k
<1>3. Asked'[k] = Service!Answered(answer)
    <2>1. clients'[k] = Done(answer)
        BY <1>1 DEF k
    <2>2. QED
        BY <1>1, <2>1, DoneStage, AskedFactsNext
<1>4. ASSUME NEW c \in Clients, c # k
      PROVE  Asked'[c] = Asked[c]
    <2>1. clients'[c] = conns[c] /\ conns[c].state # "held" /\ conns[c] \in Connections
        BY <1>1, <1>4 DEF k
    <2>2. StageOf(conns[c], view') = StageOf(conns[c], view)
        BY <2>1, UnheldStage
    <2>3. QED
        BY <2>1, <2>2, AskedFactsNext DEF Alike
<1>5. Asked' = [Asked EXCEPT ![k] = Service!Answered(answer)]
    BY <1>1, <1>3, <1>4, AskedFacts, AskedFactsNext
<1>6. QED
    BY <1>1, <1>2, <1>5 DEF k

\* cancel_dmenu() dismisses the menu on screen, if there is one.
LEMMA CancelStep ==
    ASSUME IInv, NEW conns, Alike(conns), clients' = CancelDmenu(conns)
    PROVE  Service!Next \/ Asked' = Asked
<1>1. CASE view.kind # "dmenu"
    <2>1. clients' = conns
        BY <1>1 DEF CancelDmenu
    <2>2. QED
        BY <1>1, <2>1, KeptStep DEF Alike
<1>2. CASE view.kind = "dmenu"
    <2>1. PICK answer \in {Cancelled, Lost} :
             clients' = [conns EXCEPT ![view.client] = Done(answer)]
        BY <1>2 DEF CancelDmenu, Reply
    <2>2. answer # Closed
        BY RealAnswers
    <2>3. /\ view.client \in Clients /\ Asked[view.client] = Service!OnScreen(view.lines)
          /\ Asked' = [Asked EXCEPT ![view.client] = Service!Answered(answer)]
        BY <1>2, <2>1, <2>2, AnsweredStages
    <2>4. Asked[view.client].state = "shown"
        BY <2>3, StateFacts
    <2>5. QED
        BY <2>1, <2>3, <2>4, DismissedStep
<1>3. QED
    BY <1>1, <1>2

LEMMA ToggleStep ==
    ASSUME IInv, NEW conns, Alike(conns), Toggle(conns)
    PROVE  Service!Next \/ Asked' = Asked
<1>1. CASE layer # NoSurface
    BY <1>1, CancelStep DEF Toggle
<1>2. CASE layer = NoSurface
    <2>1. view = Hidden /\ clients' = conns
        BY <1>2 DEF IInv, ShownInv, ViewHasSurface, Toggle
    <2>2. view.kind # "dmenu"
        BY <2>1 DEF Hidden
    <2>3. QED
        BY <2>1, <2>2, KeptStep DEF Alike
<1>3. QED
    BY <1>1, <1>2

\* activate() answers with a line of the menu on screen.
LEMMA ActivateStep ==
    ASSUME IInv, NEW choice, ActivateChoice(choice)
    PROVE  Service!Next \/ Asked' = Asked
<1>1. CASE view.kind = "apps" /\ UNCHANGED clients
    <2>1. Alike(clients') /\ view.kind # "dmenu"
        BY <1>1, ClientsAlike
    <2>2. QED
        BY <2>1, KeptStep
<1>2. CASE /\ view.kind = "dmenu"
           /\ clients' = Reply(clients, view.client, IF choice \in DOMAIN view.lines
                                   THEN Selected(view.lines[choice]) ELSE Cancelled)
    <2>1. PICK answer : /\ clients' = [clients EXCEPT ![view.client] = Done(answer)]
                        /\ \/ answer \in {Cancelled, Lost}
                           \/ /\ choice \in DOMAIN view.lines
                              /\ answer = Selected(view.lines[choice])
        BY <1>2 DEF Reply
    <2>2. answer # Closed
        BY <2>1, RealAnswers
    <2>3. /\ view.client \in Clients /\ Asked[view.client] = Service!OnScreen(view.lines)
          /\ Asked' = [Asked EXCEPT ![view.client] = Service!Answered(answer)]
        BY <1>2, <2>1, <2>2, ClientsAlike, AnsweredStages
    <2>4. Asked[view.client].state = "shown" /\ Asked[view.client].lines = view.lines
        BY <2>3, StateFacts
    <2>5. CASE answer \in {Cancelled, Lost}
        BY <2>3, <2>4, <2>5, DismissedStep
    <2>6. CASE choice \in DOMAIN view.lines /\ answer = Selected(view.lines[choice])
        <3>1. /\ choice \in DOMAIN Asked[view.client].lines
              /\ answer \in {Selected(Asked[view.client].lines[choice]), Lost}
            BY <2>4, <2>6
        <3>2. QED
            BY <2>3, <2>4, <3>1, ChooseStep
    <2>7. QED
        BY <2>1, <2>5, <2>6
<1>3. QED
    BY <1>1, <1>2 DEF ActivateChoice

-----------------------------------------------------------------------------
\* Every step of the daemon.

\* A new menu takes the screen.
LEMMA HandleDmenuStep ==
    ASSUME IInv, NEW c \in Clients, HandleDmenu(c)
    PROVE  Service!Next
<1> DEFINE lines == clients[c].request.lines
<1>1. /\ clients[c].state = "sent" /\ clients[c].request.kind = "dmenu"
      /\ clients \in [Clients -> Connections] /\ HeldBy(clients, view)
      /\ clients' = [CancelDmenu(clients) EXCEPT ![c] = Held]
      /\ view' = DmenuView(NewSession(lines, "given"), lines, c)
    BY DEF HandleDmenu, Handles, Show, IInv, HeldBy
<1>2. view'.lines = lines
    BY <1>1 DEF DmenuView
<1> HIDE DEF lines
<1>3. Asked[c] = Service!Waiting(lines) /\ Asked[c].state = "waiting" /\ Asked[c].lines = lines
    BY <1>1, StageFacts, StateFacts, AskedFacts DEF lines
<1>4. PICK answer \in {Cancelled, Lost} :
         CancelDmenu(clients) = IF view.kind = "dmenu"
                                THEN [clients EXCEPT ![view.client] = Done(answer)] ELSE clients
    BY DEF CancelDmenu, Reply
<1>5. CancelDmenu(clients) \in [Clients -> Connections]
    BY CancelDmenuReleases DEF IInv, ShownInv, HeldBy
<1>6. Asked'[c] = Service!OnScreen(lines)
    <2>1. clients'[c] = Held
        BY <1>1, <1>5
    <2>2. QED
        BY <1>2, <2>1, HeldConnection, StageFacts, AskedFactsNext
<1>7. ASSUME NEW d \in Clients, d # c
      PROVE  Asked'[d] = IF Asked[d].state = "shown" THEN Service!Answered(answer) ELSE Asked[d]
    <2>1. clients'[d] = CancelDmenu(clients)[d]
        BY <1>1, <1>5, <1>7
    <2>2. CASE clients[d].state = "held"
        <3>1. view.kind = "dmenu" /\ view.client = d
            BY <1>1, <2>2 DEF HeldBy
        <3>2. clients'[d] = Done(answer)
            BY <1>1, <1>4, <2>1, <3>1
        <3>3. Asked'[d] = Service!Answered(answer)
            BY <3>2, DoneStage, RealAnswers, AskedFactsNext
        <3>4. Asked[d].state = "shown"
            BY <2>2, StageFacts, StateFacts, AskedFacts
        <3>5. QED
            BY <3>3, <3>4
    <2>3. CASE clients[d].state # "held"
        <3>1. view.kind = "dmenu" => view.client # d
            BY <1>1, <2>3 DEF HeldBy
        <3>2. clients'[d] = clients[d] /\ clients[d] \in Connections
            BY <1>1, <1>4, <2>1, <3>1
        <3>3. StageOf(clients[d], view') = StageOf(clients[d], view)
              /\ StageOf(clients[d], view).state # "shown"
            BY <2>3, <3>2, UnheldStage
        <3>4. QED
            BY <3>2, <3>3, AskedFacts, AskedFactsNext
    <2>4. QED
        BY <2>2, <2>3
<1>8. Asked' = [d \in Clients |-> IF d = c THEN Service!OnScreen(Asked[c].lines)
                                  ELSE IF Asked[d].state = "shown" THEN Service!Answered(answer)
                                  ELSE Asked[d]]
    BY <1>3, <1>6, <1>7, AskedFactsNext
<1>9. QED
    BY <1>3, <1>4, <1>8, ShowStep

LEMMA HandleRequestStep ==
    ASSUME IInv, NEW c \in Clients, HandleRequest(c)
    PROVE  Service!Next \/ Asked' = Asked
<1>1. ASSUME NEW kind, Handles(c, kind), kind # "dmenu"
      PROVE  Alike(AfterRequest(c))
    BY <1>1, AfterRequestAlike DEF Handles
<1>2. CASE HandleInvalid(c)
    <2>1. Alike(clients') /\ view' = view
        BY <1>1, <1>2 DEF HandleInvalid, shownVars
    <2>2. QED
        BY <2>1, KeptStep
<1>3. CASE HandleToggle(c)
    BY <1>1, <1>3, ToggleStep DEF HandleToggle
<1>4. CASE HandleClose(c)
    BY <1>1, <1>4, CancelStep DEF HandleClose
<1>5. CASE HandleLaunch(c)
    BY <1>1, <1>5, CancelStep DEF HandleLaunch
<1>6. CASE HandleRun(c)
    BY <1>1, <1>6, CancelStep DEF HandleRun
<1>7. CASE HandleDmenu(c)
    BY <1>7, HandleDmenuStep
<1>8. QED
    BY <1>2, <1>3, <1>4, <1>5, <1>6, <1>7 DEF HandleRequest

LEMMA ApplyStep ==
    ASSUME IInv, NEW result, Apply(result)
    PROVE  Service!Next \/ Asked' = Asked
<1>1. CASE /\ view' = [view EXCEPT !.session = result.session] /\ UNCHANGED clients
    <2>1. view.kind = "dmenu" => view'.lines = view.lines
        <3>1. ASSUME view.kind = "dmenu"
              PROVE  view \in [kind: {"dmenu"}, session: SessionType, lines: Menus, client: Clients]
            BY <3>1 DEF IInv, ShownInv, Views, Hidden
        <3>2. QED
            BY <1>1, <3>1
    <2>2. QED
        BY <1>1, <2>1, ClientsAlike, KeptStep
<1>2. CASE UNCHANGED <<view, clients>>
    BY <1>2, ClientsAlike, KeptStep
<1>3. CASE clients' = CancelDmenu(clients)
    BY <1>3, ClientsAlike, CancelStep
<1>4. CASE ActivateChoice(result.outcome.choice)
    BY <1>4, ActivateStep
<1>5. QED
    BY <1>1, <1>2, <1>3, <1>4 DEF Apply, shownVars

LEMMA CompositorStep ==
    ASSUME IInv, NEW s,
           Configure(s) \/ ScaleFactorChanged(s) \/ SurfaceClosed(s) \/ FocusLeaves(s) \/ FeedbackEnds
    PROVE  Service!Next \/ Asked' = Asked
<1>1. UNCHANGED <<view, clients>> \/ clients' = CancelDmenu(clients)
    BY DEF Configure, ScaleFactorChanged, SurfaceClosed, FocusLeaves, FeedbackEnds, shownVars
<1>2. QED
    BY <1>1, ClientsAlike, KeptStep, CancelStep

\* A client that asks is waiting, or is told at once that no daemon runs.
LEMMA RequestStep ==
    ASSUME IInv, NEW c \in Clients, NEW request \in Requests, Request(c, request)
    PROVE  Service!Next \/ Asked' = Asked
<1> DEFINE conn == IF running THEN Sent(request)
                   ELSE Done(IF request.kind = "dmenu" THEN Failed ELSE Closed)
<1>1. /\ clients[c] = NotConnected /\ clients' = [clients EXCEPT ![c] = conn] /\ view' = view
      /\ clients \in [Clients -> Connections]
    BY DEF Request, shownVars, IInv, HeldBy
<1>2. Asked[c] = Service!Idle
    BY <1>1, StageFacts, AskedFacts DEF NotConnected
<1>3. \/ request.kind = "dmenu" /\ running /\ StageOf(conn, view) = Service!Waiting(request.lines)
      \/ request.kind = "dmenu" /\ ~running /\ StageOf(conn, view) = Service!Answered(Failed)
      \/ StageOf(conn, view) = Service!Idle
    <2>1. Sent(request).state = "sent" /\ Sent(request).request = request
        BY DEF Sent
    <2>2. QED
        BY <2>1, StageFacts, DoneStage, RealAnswers
<1> HIDE DEF conn
<1>4. Asked' = [Asked EXCEPT ![c] = StageOf(conn, view)]
    BY <1>1, AskedFacts, AskedFactsNext
<1>5. CASE request.kind = "dmenu" /\ StageOf(conn, view) = Service!Waiting(request.lines)
    <2>1. request.lines \in Menus
        BY <1>5 DEF Requests
    <2>2. QED
        BY <1>2, <1>4, <1>5, <2>1, AskStep
<1>6. CASE StageOf(conn, view) = Service!Answered(Failed)
    BY <1>2, <1>4, <1>6, RefuseStep
<1>7. CASE StageOf(conn, view) = Service!Idle
    BY <1>2, <1>4, <1>7, AskedFacts
<1>8. QED
    BY <1>3, <1>5, <1>6, <1>7

\* The process ends: every client that asked is answered by its connection.
LEMMA ExitStep ==
    ASSUME IInv, Exit
    PROVE  Service!Next
<1>1. PICK unread \in {Cancelled, Failed} : clients' = Severed(unread)
    BY DEF Exit
<1> DEFINE answers == [c \in Clients |->
                          IF c \in gone THEN Lost
                          ELSE IF clients[c].state = "held" THEN Cancelled ELSE unread]
<1>2. answers \in [Clients -> {Cancelled, Failed, Lost}]
    OBVIOUS
<1>3. \A c \in Clients : answers[c] # Closed
    BY RealAnswers
<1>4. ASSUME NEW c \in Clients
      PROVE  Asked'[c] = IF Asked[c].state \in {"waiting", "shown"}
                         THEN Service!Answered(answers[c]) ELSE Asked[c]
    <2>1. clients[c] \in Connections /\ clients[c].state \in {"idle", "sent", "held", "done"}
        BY DEF IInv, HeldBy, Connections
    <2>2. CASE clients[c].state = "held" \/ (clients[c].state = "sent" /\ clients[c].request.kind = "dmenu")
        <3>1. clients'[c] = Done(answers[c])
            BY <1>1, <2>2 DEF Severed
        <3>2. Asked'[c] = Service!Answered(answers[c])
            BY <1>3, <3>1, DoneStage, AskedFactsNext
        <3>3. Asked[c].state \in {"waiting", "shown"}
            BY <2>2, StageFacts, StateFacts, AskedFacts
        <3>4. QED
            BY <3>2, <3>3
    <2>3. CASE clients[c].state = "sent" /\ clients[c].request.kind # "dmenu"
        <3>1. clients'[c] = Done(Closed)
            BY <1>1, <2>3 DEF Severed
        <3>2. Asked'[c] = Service!Idle /\ Asked[c] = Service!Idle
            BY <2>3, <3>1, DoneStage, StageFacts, AskedFacts, AskedFactsNext
        <3>3. QED
            BY <3>2, StateFacts
    <2>4. CASE clients[c].state \in {"idle", "done"}
        <3>1. clients'[c] = clients[c]
            BY <1>1, <2>4 DEF Severed
        <3>2. Asked'[c] = Asked[c]
            BY <2>1, <2>4, <3>1, UnheldStage, AskedFacts, AskedFactsNext
        <3>3. Asked[c].state \in {"idle", "answered"}
            BY <2>4, StageFacts, StateFacts, AskedFacts
        <3>4. QED
            BY <3>2, <3>3
    <2>5. QED
        BY <2>1, <2>2, <2>3, <2>4
<1> HIDE DEF answers
<1>5. Asked' = [c \in Clients |-> IF Asked[c].state \in {"waiting", "shown"}
                                  THEN Service!Answered(answers[c]) ELSE Asked[c]]
    BY <1>4, AskedFactsNext
<1>6. QED
    BY <1>2, <1>5, OutageStep

LEMMA NextRefines == IInv /\ [Next]_vars => [Service!Next]_Asked
<1> SUFFICES ASSUME IInv, [Next]_vars
             PROVE  Service!Next \/ Asked' = Asked
    OBVIOUS
<1>1. CASE \E c \in Clients, request \in Requests : Request(c, request)
    BY <1>1, RequestStep
<1>2. CASE \E c \in Clients : HandleRequest(c)
    BY <1>2, HandleRequestStep
<1>3. CASE \/ \E c \in Clients : Killed(c)
           \/ ReloadCatalog
           \/ Start
           \/ UNCHANGED vars
    <2>1. UNCHANGED <<view, clients>>
        BY <1>3 DEF Killed, ReloadCatalog, Start, vars, shownVars
    <2>2. QED
        BY <2>1, ClientsAlike, KeptStep
<1>4. CASE \/ \E key \in Keys : KeyPressed(key)
           \/ \E s \in Surfaces, row \in 0..VisibleRows : ClickOn(s, row)
           \/ \E s \in Surfaces, rows \in {-1, 1} : WheelOn(s, rows)
    BY <1>4, ApplyStep DEF KeyPressed, ClickOn, WheelOn
<1>5. CASE \/ \E s \in Surfaces :
                 Configure(s) \/ ScaleFactorChanged(s) \/ SurfaceClosed(s) \/ FocusLeaves(s)
           \/ FeedbackEnds
    BY <1>5, CompositorStep
<1>6. CASE Tap
    BY <1>6, ClientsAlike, ToggleStep DEF Tap
<1>7. CASE Exit
    BY <1>7, ExitStep
<1>8. QED
    BY <1>1, <1>2, <1>3, <1>4, <1>5, <1>6, <1>7 DEF Next

-----------------------------------------------------------------------------
\* The daemon implements the promise to dmenu clients: an answer comes at most once, only
\* from the menu on screen and only of its own lines, and none is taken off without one.
THEOREM DmenuIsServed == Spec => DmenuPromise
    BY AskedIsIdleAtFirst, NextRefines, SpecIInv, PTL
    DEF Spec, DmenuPromise, Service!Spec, Asked, StageOf
=============================================================================
