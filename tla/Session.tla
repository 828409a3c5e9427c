------------------------------ MODULE Session -------------------------------
(***************************************************************************)
(* One shown list: its query, its matches, the selection and the visible   *)
(* window (launcher/core/src/session.rs), as operators on a session record *)
(* so that the session on its own and the daemon that owns one share them. *)
(*                                                                         *)
(* selected and top count from 0 as in the code; a choice is an index into *)
(* choices that counts from 1.                                             *)
(***************************************************************************)
EXTENDS Integers, Sequences

CONSTANTS
    Char,            \* the characters that can be typed or appear in a choice
    Texts,           \* what one key press can type
    MaxQuery,        \* bound on the length of a query
    Lists,           \* the lists of choices a session can be opened over
    VisibleRows,     \* rows that fit on screen
    Search(_, _, _)  \* Search(query, choices, order): matching indices in display order

Orders == {"alphabetical", "given"}
Queries == UNION {[1..n -> Char] : n \in 0..MaxQuery}
Control == (0..31) \cup {127}

ASSUME SessionAssumption ==
    /\ Char \subseteq Nat
    /\ MaxQuery \in Nat
    /\ VisibleRows \in Nat \ {0}
    /\ Texts \subseteq Seq(Char \cup Control)
    /\ \A list \in Lists : list \in Seq(Seq(Char))
    /\ \A query \in Queries, list \in Lists, order \in Orders :
          Search(query, list, order) \in Seq(DOMAIN list)

\* A match is listed once.
ASSUME RankingAssumption ==
    \A query \in Queries, list \in Lists, order \in Orders :
        LET found == Search(query, list, order)
        IN  \A i, j \in DOMAIN found : found[i] = found[j] => i = j

SessionType ==
    [choices: Lists, order: Orders, query: Queries,
     matches: Seq(Nat), selected: Nat, top: Nat]

\* A session whose matches are all indices of its own choices.
IsSession(s) ==
    /\ s \in SessionType
    /\ s.matches \in Seq(DOMAIN s.choices)

Keys == [kind: {"text"}, text: Texts]
            \cup [kind: {"backspace", "up", "down", "enter", "escape"}]

-----------------------------------------------------------------------------
\* Outcomes, and a session together with the outcome an input produced.

Redraw == [kind |-> "redraw"]
Ignored == [kind |-> "ignored"]
Dismiss == [kind |-> "dismiss"]
Activate(choice) == [kind |-> "activate", choice |-> choice]

Outcomes ==
    [kind: {"redraw", "ignored", "dismiss"}] \cup [kind: {"activate"}, choice: Nat \ {0}]

Result(session, outcome) == [session |-> session, outcome |-> outcome]

Refilter(s) ==
    [s EXCEPT !.matches = Search(s.query, s.choices, s.order),
              !.selected = 0,
              !.top = 0]

NewSession(choices, order) ==
    Refilter([choices |-> choices, order |-> order, query |-> <<>>,
              matches |-> <<>>, selected |-> 0, top |-> 0])

\* The rows on screen, top to bottom: the choice each shows and whether Enter would take it.
Rows(s) ==
    LET shown == IF Len(s.matches) - s.top < VisibleRows
                 THEN Len(s.matches) - s.top ELSE VisibleRows
    IN  [row \in 1..shown |-> [choice |-> s.matches[s.top + row],
                               selected |-> s.top + row = s.selected + 1]]

-----------------------------------------------------------------------------
\* Keys.

FitsQuery(s, text) == Len(s.query) + Len(text) <= MaxQuery

TypeText(s, text) ==
    IF text = <<>> \/ \E i \in DOMAIN text : text[i] \in Control
    THEN Result(s, Ignored)
    ELSE Result(Refilter([s EXCEPT !.query = @ \o text]), Redraw)

\* Mutant: the matches of the longer query stay on screen.
BackspaceWithoutRefilter(s) ==
    IF s.query = <<>>
    THEN Result(s, Ignored)
    ELSE Result([s EXCEPT !.query = SubSeq(@, 1, Len(@) - 1)], Redraw)

Backspace(s) ==
    IF s.query = <<>>
    THEN Result(s, Ignored)
    ELSE Result(Refilter([s EXCEPT !.query = SubSeq(@, 1, Len(@) - 1)]), Redraw)

\* Mutant: the selection leaves the window one row late.
SelectLate(s, position) ==
    LET top == IF position < s.top THEN position ELSE s.top
    IN  [s EXCEPT !.selected = position,
                  !.top = IF position > top + VisibleRows
                          THEN position + 1 - VisibleRows ELSE top]

\* Selects an existing position and scrolls it into view.
Select(s, position) ==
    LET top == IF position < s.top THEN position ELSE s.top
    IN  [s EXCEPT !.selected = position,
                  !.top = IF position >= top + VisibleRows
                          THEN position + 1 - VisibleRows ELSE top]

SelectPrevious(s) ==
    IF s.selected = 0
    THEN Result(s, Ignored)
    ELSE Result(Select(s, s.selected - 1), Redraw)

SelectNext(s) ==
    IF s.selected + 1 < Len(s.matches)
    THEN Result(Select(s, s.selected + 1), Redraw)
    ELSE Result(s, Ignored)

ChooseAt(s, position) ==
    Result(s, IF position < Len(s.matches)
              THEN Activate(s.matches[position + 1]) ELSE Ignored)

Handle(s, key) ==
    CASE key.kind = "text" -> TypeText(s, key.text)
      [] key.kind = "backspace" -> Backspace(s)
      [] key.kind = "up" -> SelectPrevious(s)
      [] key.kind = "down" -> SelectNext(s)
      [] key.kind = "enter" -> ChooseAt(s, s.selected)
      [] key.kind = "escape" -> Result(s, Dismiss)

-----------------------------------------------------------------------------
\* The pointer.

\* Mutant: the row is taken from the start of the list, not of the window.
ClickFromListStart(s, row) ==
    IF row >= VisibleRows THEN Result(s, Ignored) ELSE ChooseAt(s, row)

Click(s, row) ==
    IF row >= VisibleRows THEN Result(s, Ignored) ELSE ChooseAt(s, s.top + row)

\* Mutant: the window may scroll until only the last match is left in it.
ScrollToLastMatch(s, rows) ==
    LET lastTop == IF Len(s.matches) > 1 THEN Len(s.matches) - 1 ELSE 0
        moved == IF s.top + rows < 0 THEN 0 ELSE s.top + rows
        top == IF moved > lastTop THEN lastTop ELSE moved
    IN  IF top = s.top
        THEN Result(s, Ignored)
        ELSE Result([s EXCEPT !.top = top, !.selected = top], Redraw)

\* Mutant: a step that moves nothing but the selection is reported as ignored.
ScrollQuietly(s, rows) ==
    LET lastTop == IF Len(s.matches) > VisibleRows THEN Len(s.matches) - VisibleRows ELSE 0
        moved == IF s.top + rows < 0 THEN 0 ELSE s.top + rows
        top == IF moved > lastTop THEN lastTop ELSE moved
    IN  Result([s EXCEPT !.top = top, !.selected = IF @ < top THEN top ELSE @],
               IF s.selected < top THEN Ignored ELSE Redraw)

\* Mutant: a step up from the first row is not held back.
ScrollPastStart(s, rows) ==
    LET lastTop == IF Len(s.matches) > VisibleRows THEN Len(s.matches) - VisibleRows ELSE 0
        top == IF s.top + rows > lastTop THEN lastTop ELSE s.top + rows
    IN  IF top = s.top
        THEN Result(s, Ignored)
        ELSE Result([s EXCEPT !.top = top], Redraw)

Scroll(s, rows) ==
    LET lastTop == IF Len(s.matches) > VisibleRows THEN Len(s.matches) - VisibleRows ELSE 0
        moved == IF s.top + rows < 0 THEN 0 ELSE s.top + rows
        top == IF moved > lastTop THEN lastTop ELSE moved
        lastVisible == top + VisibleRows - 1
    IN  IF top = s.top
        THEN Result(s, Ignored)
        ELSE Result([s EXCEPT !.top = top,
                              !.selected = CASE @ < top -> top
                                             [] @ > lastVisible -> lastVisible
                                             [] OTHER -> @],
                    Redraw)
=============================================================================
