-------------------------- MODULE LauncherSession ---------------------------
(***************************************************************************)
(* A session on its own: the keys, clicks and wheel steps the daemon feeds *)
(* it in any order, from the moment a list opens until an input chooses a  *)
(* row or dismisses the list, after which the next list may open.          *)
(***************************************************************************)
EXTENDS Session, Rank

CONSTANTS ScrollSteps  \* how many rows one wheel step may move

ASSUME ScrollAssumption == ScrollSteps \subseteq Int

VARIABLES
    session,  \* the shown session
    outcome   \* what the latest input produced

vars == <<session, outcome>>

TypeOK ==
    /\ IsSession(session)
    /\ outcome \in Outcomes

Finished == outcome.kind \in {"dismiss", "activate"}

Init ==
    /\ \E list \in Lists, order \in Orders : session = NewSession(list, order)
    /\ outcome = Redraw

Become(result) ==
    /\ session' = result.session
    /\ outcome' = result.outcome

Type(text) ==
    /\ ~Finished
    /\ FitsQuery(session, text)
    /\ Become(Handle(session, [kind |-> "text", text |-> text]))

Press(kind) ==
    /\ ~Finished
    /\ Become(Handle(session, [kind |-> kind]))

ClickRow(row) ==
    /\ ~Finished
    /\ Become(Click(session, row))

Wheel(rows) ==
    /\ ~Finished
    /\ Become(Scroll(session, rows))

OpenAnother(list, order) ==
    /\ Finished
    /\ Become(Result(NewSession(list, order), Redraw))

Next ==
    \/ \E text \in Texts : Type(text)
    \/ \E kind \in {"backspace", "up", "down", "enter", "escape"} : Press(kind)
    \/ \E row \in 0..VisibleRows : ClickRow(row)
    \/ \E rows \in ScrollSteps : Wheel(rows)
    \/ \E list \in Lists, order \in Orders : OpenAnother(list, order)

Spec == Init /\ [][Next]_vars

-----------------------------------------------------------------------------
\* The selection always names an existing match (when there is one) and that
\* match is inside the visible window: select() and scroll() each repair the
\* half of this that they disturb, and refilter() resets both.
SelectionVisible ==
    /\ session.matches # <<>> => session.selected < Len(session.matches)
    /\ session.matches = <<>> => session.selected = 0
    /\ session.top <= session.selected
    /\ session.selected < session.top + VisibleRows

\* The window never shows an empty row while a match is scrolled out above it.
WindowFull ==
    session.top > 0 => session.top + VisibleRows <= Len(session.matches)

\* A row is chosen only if it was on screen before the input, and Enter takes
\* the highlighted one: the choice never comes from matches the user cannot see.
ChoiceWasVisible ==
    [][outcome'.kind = "activate" =>
          \E i \in DOMAIN Rows(session) :
              /\ Rows(session)[i].choice = outcome'.choice
              /\ \/ Rows(session)[i].selected
                 \/ \E row \in 0..(VisibleRows - 1) : ClickRow(row) /\ row + 1 = i]_vars

\* The daemon repaints only on Redraw, so every input that changes what is
\* drawn reports Redraw, and every input that changes nothing does not.
RedrawIffChanged ==
    [][~Finished => (outcome'.kind = "redraw"
                        <=> <<session.query, Rows(session)>>'
                                # <<session.query, Rows(session)>>)]_vars

\* The matches are always the promised ranking of the current query: no stale
\* match list survives an edit, every name containing the query is listed once,
\* and tiers and ties come in the promised order, as long as no query holds a
\* space or punctuation: then the code finds every occurrence that starts a word.
MatchesAreRanked ==
    IsPromisedRanking(session.matches, session.query, session.choices, session.order)
=============================================================================
