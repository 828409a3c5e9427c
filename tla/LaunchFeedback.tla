--------------------------- MODULE LaunchFeedback ---------------------------
(***************************************************************************)
(* Launch feedback (launcher/daemon/src/feedback.rs) against a compositor  *)
(* that answers over two FIFO connections: the surface that says that an   *)
(* application is starting, the toplevel list it binds to notice the new   *)
(* window, the sync callback that separates existing windows from new      *)
(* ones, and the timer that ends it.                                       *)
(*                                                                         *)
(* Every feedback gets a number; its surface, its toplevel list, its sync  *)
(* callback and its timer carry that number here.  The code compares only  *)
(* the numbers of surfaces and lists.  Time is counted in spinner steps.   *)
(***************************************************************************)
EXTENDS Naturals, Sequences, SequencesExt

CONSTANTS
    MaxFeedbacks,  \* bound on the number of feedback surfaces created
    MaxLaunches,   \* bound on the number of launches
    MaxWindows,    \* bound on the number of windows
    Minimum,       \* fewest steps feedback stays up (MINIMUM)
    Timeout        \* most steps feedback stays up (TIMEOUT)

ASSUME FeedbackAssumption ==
    /\ {MaxFeedbacks, MaxLaunches, MaxWindows} \subseteq Nat
    /\ Minimum \in Nat \ {0} /\ Timeout \in Nat /\ Minimum < Timeout

VARIABLES
    feedback,      \* the shown feedback, or NoFeedback
    timers,        \* the feedbacks whose timer source is registered in the event loop
    toCompositor,  \* requests under way to the compositor
    toDaemon,      \* events under way to the daemon
    surfaces,      \* surfaces the compositor knows
    lists,         \* toplevel lists the compositor announces windows to
    windows,       \* the windows, each the number of launches before it opened
    launches,      \* launches so far
    created,       \* feedbacks created so far
    history        \* observed for the properties only: see NoHistory

vars == <<feedback, timers, toCompositor, toDaemon, surfaces, lists, windows,
          launches, created, history>>

NoFeedback == [number |-> 0]
NoList == 0
Shown == feedback # NoFeedback
Numbers == 1..MaxFeedbacks

FeedbackType ==
    [number: Numbers, configured: BOOLEAN, painted: BOOLEAN, elapsed: 0..(Timeout - 1),
     list: Numbers \cup {NoList}, listening: BOOLEAN, appeared: BOOLEAN]

\* What happened since the current feedback was created or last refreshed: the steps its
\* timer took, the launch that created it, the callback that made it listen, and the
\* windows whose announcement was counted.
NoHistory == [steps |-> 0, launch |-> 0, callback |-> 0, counted |-> {}]

Request == [type: {"surface", "bind", "sync", "stop", "destroy"}, number: Numbers]
Event ==
    [type: {"configure", "closed", "done", "finished"}, number: Numbers]
        \cup [type: {"toplevel"}, number: Numbers, born: 0..MaxLaunches]

TypeOK ==
    /\ feedback \in FeedbackType \cup {NoFeedback}
    /\ timers \subseteq Numbers
    /\ toCompositor \in Seq(Request)
    /\ toDaemon \in Seq(Event)
    /\ surfaces \subseteq Numbers
    /\ lists \subseteq Numbers
    /\ windows \in Seq(0..MaxLaunches)
    /\ launches \in 0..MaxLaunches
    /\ created \in 0..MaxFeedbacks
    /\ history \in [steps: 0..Timeout, launch: 0..MaxLaunches,
                    callback: 0..MaxFeedbacks, counted: SUBSET (0..MaxLaunches)]

Init ==
    /\ feedback = NoFeedback
    /\ timers = {}
    /\ toCompositor = <<>>
    /\ toDaemon = <<>>
    /\ surfaces = {}
    /\ lists = {}
    /\ windows \in {<<>>, <<0>>}
    /\ launches = 0
    /\ created = 0
    /\ history = NoHistory

Send(requests) == toCompositor' = toCompositor \o requests

Asking(type, number) == [type |-> type, number |-> number]

-----------------------------------------------------------------------------
\* The daemon's operations.

\* Mutant: paints a surface the compositor has not configured yet.
DrawnAtOnce(f) == [f EXCEPT !.painted = TRUE]

\* The feedback after draw_feedback().
Drawn(f) == IF f.configured THEN [f EXCEPT !.painted = TRUE] ELSE f

\* Mutant: a second launch does not restart the clock.
RefreshKeepingClock ==
    /\ Shown
    /\ feedback' = Drawn([feedback EXCEPT !.appeared = FALSE])
    /\ history' = [history EXCEPT !.steps = 0, !.counted = {}]
    /\ UNCHANGED <<timers, toCompositor, created>>

\* start_feedback() while feedback is shown.
Refresh ==
    /\ Shown
    /\ feedback' = Drawn([feedback EXCEPT !.elapsed = 0, !.appeared = FALSE])
    /\ history' = [history EXCEPT !.steps = 0, !.counted = {}]
    /\ UNCHANGED <<timers, toCompositor, created>>

\* start_feedback() while none is shown: binding the list or registering the timer may fail.
Create ==
    /\ ~Shown
    /\ created < MaxFeedbacks
    /\ created' = created + 1
    /\ LET n == created + 1
       IN  \E bound, ticking \in BOOLEAN :
              /\ feedback' =
                    [number |-> n, configured |-> FALSE, painted |-> FALSE, elapsed |-> 0,
                     list |-> IF bound THEN n ELSE NoList,
                     listening |-> FALSE, appeared |-> FALSE]
              /\ Send(<<Asking("surface", n)>>
                        \o IF bound THEN <<Asking("bind", n), Asking("sync", n)>> ELSE <<>>)
              /\ timers' = IF ticking THEN timers \cup {n} ELSE timers
    /\ history' = [NoHistory EXCEPT !.launch = launches + 1]

StartFeedback ==
    /\ launches < MaxLaunches
    /\ launches' = launches + 1
    /\ Create \/ Refresh
    /\ UNCHANGED <<toDaemon, surfaces, lists, windows>>

\* Mutant: the toplevel list of an ended feedback is left bound.
EndLeavingList ==
    /\ feedback' = NoFeedback
    /\ Send(<<Asking("destroy", feedback.number)>>)
    /\ timers' = timers \ {feedback.number}
    /\ history' = NoHistory

\* end_feedback(): stops the list, removes the timer and drops the surface.
EndFeedback ==
    /\ feedback' = NoFeedback
    /\ Send(IF feedback.list = NoList THEN <<Asking("destroy", feedback.number)>>
            ELSE <<Asking("stop", feedback.number), Asking("destroy", feedback.number)>>)
    /\ timers' = timers \ {feedback.number}
    /\ history' = NoHistory

\* The launcher opens, or a client asks to close: the daemon ends feedback.
Superseded ==
    /\ Shown
    /\ EndFeedback
    /\ UNCHANGED <<toDaemon, surfaces, lists, windows, launches, created>>

\* Mutant: without a window, feedback never ends.
TickWithoutTimeout(n) ==
    /\ n \in timers
    /\ UNCHANGED <<toDaemon, surfaces, lists, windows, launches, created>>
    /\ LET elapsed == IF feedback.elapsed + 1 < Timeout THEN feedback.elapsed + 1 ELSE Timeout - 1
       IN  IF feedback.appeared /\ elapsed >= Minimum
           THEN EndFeedback
           ELSE /\ feedback' = Drawn([feedback EXCEPT !.elapsed = elapsed])
                /\ UNCHANGED <<timers, toCompositor, history>>

\* Mutant: feedback stays one step longer than the longest time.
TickPastTimeout(n) ==
    /\ n \in timers
    /\ UNCHANGED <<toDaemon, surfaces, lists, windows, launches, created>>
    /\ LET elapsed == feedback.elapsed + 1
       IN  IF elapsed > Timeout \/ (feedback.appeared /\ elapsed >= Minimum)
           THEN EndFeedback
           ELSE /\ feedback' = Drawn([feedback EXCEPT !.elapsed = elapsed])
                /\ UNCHANGED <<timers, toCompositor, history>>

\* feedback_tick(): the timer source of feedback n fires and acts on whatever feedback is shown.
Tick(n) ==
    /\ n \in timers
    /\ UNCHANGED <<toDaemon, surfaces, lists, windows, launches, created>>
    /\ IF ~Shown
       THEN /\ timers' = timers \ {n}
            /\ UNCHANGED <<feedback, toCompositor, history>>
       ELSE LET elapsed == feedback.elapsed + 1
            IN  IF elapsed >= Timeout \/ (feedback.appeared /\ elapsed >= Minimum)
                THEN EndFeedback
                ELSE /\ feedback' = Drawn([feedback EXCEPT !.elapsed = elapsed])
                     /\ history' = [history EXCEPT !.steps = @ + 1]
                     /\ UNCHANGED <<timers, toCompositor>>

-----------------------------------------------------------------------------
\* Events from the compositor, in the order it sent them.

Arrives(type) ==
    /\ toDaemon # <<>>
    /\ Head(toDaemon).type = type
    /\ toDaemon' = Tail(toDaemon)
    /\ UNCHANGED <<surfaces, lists, windows, launches, created>>

ForShownSurface == Shown /\ feedback.number = Head(toDaemon).number

ConfigureArrives ==
    /\ Arrives("configure")
    /\ feedback' = IF ForShownSurface
                   THEN Drawn([feedback EXCEPT !.configured = TRUE]) ELSE feedback
    /\ UNCHANGED <<timers, toCompositor, history>>

ClosedArrives ==
    /\ Arrives("closed")
    /\ IF ForShownSurface THEN EndFeedback
       ELSE UNCHANGED <<feedback, timers, toCompositor, history>>

\* Mutant: existing windows count as new ones.
CountsWhenever(event) == Shown /\ feedback.list = event.number

\* Whether an announced window counts as one that appeared after the launch.
Counts(event) == Shown /\ feedback.listening /\ feedback.list = event.number

ToplevelArrives ==
    /\ Arrives("toplevel")
    /\ IF Counts(Head(toDaemon))
       THEN /\ feedback' = [feedback EXCEPT !.appeared = TRUE]
            /\ history' = [history EXCEPT !.counted = @ \cup {Head(toDaemon).born}]
       ELSE UNCHANGED <<feedback, history>>
    /\ UNCHANGED <<timers, toCompositor>>

\* The sync callback carries no identity: it makes whatever feedback is shown listen.
DoneArrives ==
    /\ Arrives("done")
    /\ IF Shown
       THEN /\ feedback' = [feedback EXCEPT !.listening = TRUE]
            /\ history' = IF feedback.listening THEN history
                          ELSE [history EXCEPT !.callback = Head(toDaemon).number]
       ELSE UNCHANGED <<feedback, history>>
    /\ UNCHANGED <<timers, toCompositor>>

FinishedArrives ==
    /\ Arrives("finished")
    /\ UNCHANGED <<feedback, timers, toCompositor, history>>

Receive ==
    \/ ConfigureArrives
    \/ ClosedArrives
    \/ ToplevelArrives
    \/ DoneArrives
    \/ FinishedArrives

-----------------------------------------------------------------------------
\* The compositor, as far as the daemon relies on it.

DaemonUnchanged == UNCHANGED <<feedback, timers, launches, created, history>>

Tell(events) == toDaemon' = toDaemon \o events

Announcement(n, born) == [type |-> "toplevel", number |-> n, born |-> born]

Serve ==
    /\ toCompositor # <<>>
    /\ toCompositor' = Tail(toCompositor)
    /\ UNCHANGED windows
    /\ DaemonUnchanged
    /\ LET request == Head(toCompositor)
           n == request.number
       IN  \/ /\ request.type = "surface"
              /\ surfaces' = surfaces \cup {n}
              /\ Tell(<<Asking("configure", n)>>)
              /\ UNCHANGED lists
           \/ /\ request.type = "bind"
              /\ lists' = lists \cup {n}
              /\ Tell([w \in DOMAIN windows |-> Announcement(n, windows[w])])
              /\ UNCHANGED surfaces
           \/ /\ request.type = "sync"
              /\ Tell(<<Asking("done", n)>>)
              /\ UNCHANGED <<surfaces, lists>>
           \/ /\ request.type = "stop"
              /\ lists' = lists \ {n}
              /\ Tell(<<Asking("finished", n)>>)
              /\ UNCHANGED surfaces
           \/ /\ request.type = "destroy"
              /\ surfaces' = surfaces \ {n}
              /\ UNCHANGED <<lists, toDaemon>>

OpenWindow ==
    /\ Len(windows) < MaxWindows
    /\ windows' = Append(windows, launches)
    /\ Tell(SetToSeq({Announcement(n, launches) : n \in lists}))
    /\ UNCHANGED <<toCompositor, surfaces, lists>>
    /\ DaemonUnchanged

CloseSurface(n) ==
    /\ n \in surfaces
    /\ surfaces' = surfaces \ {n}
    /\ Tell(<<Asking("closed", n)>>)
    /\ UNCHANGED <<toCompositor, lists, windows>>
    /\ DaemonUnchanged

Next ==
    \/ StartFeedback
    \/ Superseded
    \/ \E n \in Numbers : Tick(n)
    \/ Receive
    \/ Serve
    \/ OpenWindow
    \/ \E n \in Numbers : CloseSurface(n)

\* The event loop fires its timers and reads its connection; the compositor answers.
Fairness ==
    /\ \A n \in Numbers : WF_vars(Tick(n))
    /\ WF_vars(Receive)
    /\ WF_vars(Serve)

Spec == Init /\ [][Next]_vars /\ Fairness

-----------------------------------------------------------------------------
\* A window counts only if it opened after the launch that created the feedback.
\* feedback.rs promises this of every feedback.
CountedWindowsAreNew == \A born \in history.counted : born >= history.launch

\* The same of a feedback that began to listen at its own sync callback: stop and sync
\* travel in order, so the existing windows of its list, and late announcements of
\* earlier lists, all arrive before it listens.
OwnCallbackCountsNewWindows ==
    history.callback = feedback.number => CountedWindowsAreNew

\* Nothing outlives its feedback: a surface or a list of an earlier feedback that the
\* compositor still has is one it is about to be asked to release, and no timer but the shown
\* feedback's own is registered that could advance its clock.
NothingLeaks ==
    /\ \A n \in lists \ {feedback.number} : Contains(toCompositor, Asking("stop", n))
    /\ \A n \in surfaces \ {feedback.number} : Contains(toCompositor, Asking("destroy", n))
    /\ timers \subseteq {feedback.number}

\* A surface is painted only after the compositor configured that same surface; a
\* buffer attached earlier is a protocol error that kills the connection.
PaintedAfterConfigure ==
    Shown /\ feedback.painted =>
        /\ ~Contains(toCompositor, Asking("surface", feedback.number))
        /\ ~Contains(toDaemon, Asking("configure", feedback.number))

\* The timer ends feedback no sooner than Minimum after the latest launch, and before
\* Timeout only if a window was announced since that launch.
EndsForAReason ==
    [][\A n \in Numbers : Tick(n) /\ Shown /\ feedback' = NoFeedback =>
          \/ history.steps + 1 >= Timeout
          \/ history.steps + 1 >= Minimum /\ history.counted # {}]_vars

\* Once launches stop, feedback with a timer ends: no lost window, sync callback or
\* answer of the compositor keeps it on screen.
FeedbackEnds ==
    Shown /\ feedback.number \in timers ~> ~Shown
=============================================================================
