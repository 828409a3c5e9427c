--------------------------- MODULE Session_proofs ---------------------------
(***************************************************************************)
(* What the operators on a session do to any session, for every list,      *)
(* query bound, window height and ranking: each input maps a well-formed   *)
(* session to a well-formed one and produces an outcome of its list.       *)
(***************************************************************************)
EXTENDS Session, TLAPS

\* The queries are the character sequences within the bound.
LEMMA QueriesAreSequences ==
    \A q : q \in Queries <=> q \in Seq(Char) /\ Len(q) <= MaxQuery
<1>1. ASSUME NEW q \in Queries
      PROVE  q \in Seq(Char) /\ Len(q) <= MaxQuery
    <2>1. PICK n \in 0..MaxQuery : q \in [1..n -> Char]
        BY <1>1, SessionAssumption DEF Queries
    <2>2. QED
        BY <2>1, SessionAssumption
<1>2. ASSUME NEW q \in Seq(Char), Len(q) <= MaxQuery
      PROVE  q \in Queries
    <2>1. Len(q) \in 0..MaxQuery /\ q \in [1..Len(q) -> Char]
        BY <1>2, SessionAssumption
    <2>2. QED
        BY <2>1 DEF Queries
<1>3. QED
    BY <1>1, <1>2

\* A ranking lists indices of the choices.
LEMMA RankingsAreIndices ==
    ASSUME NEW query \in Queries, NEW list \in Lists, NEW order \in Orders
    PROVE  /\ Search(query, list, order) \in Seq(DOMAIN list)
           /\ Search(query, list, order) \in Seq(Nat)
<1>1. Search(query, list, order) \in Seq(DOMAIN list)
    BY SessionAssumption
<1>2. list \in Seq(Seq(Char))
    BY SessionAssumption
<1>3. DOMAIN list \subseteq Nat
    BY <1>2
<1>4. QED
    BY <1>1, <1>3

-----------------------------------------------------------------------------
\* Where the selection and the window are, of any session.

Placed(s) ==
    /\ s.matches # <<>> => s.selected < Len(s.matches)
    /\ s.matches = <<>> => s.selected = 0
    /\ s.top <= s.selected
    /\ s.selected < s.top + VisibleRows
    /\ s.top > 0 => s.top + VisibleRows <= Len(s.matches)

WellFormed(s) == IsSession(s) /\ Placed(s)

\* A result whose session is well formed, with an outcome of the right form.
GoodResult(r) == WellFormed(r.session) /\ r.outcome \in Outcomes

LEMMA SessionFields ==
    ASSUME NEW list \in Lists, NEW order \in Orders, NEW query \in Queries,
           NEW matches \in Seq(Nat), NEW selected \in Nat, NEW top \in Nat
    PROVE  [choices |-> list, order |-> order, query |-> query,
            matches |-> matches, selected |-> selected, top |-> top] \in SessionType
    BY DEF SessionType

\* Refiltering repairs any session record: its matches need not fit its query.
LEMMA RefilterIsWellFormed ==
    ASSUME NEW s \in SessionType
    PROVE  WellFormed(Refilter(s))
<1> DEFINE found == Search(s.query, s.choices, s.order)
           r == Refilter(s)
<1>1. found \in Seq(DOMAIN s.choices)
    BY RankingsAreIndices DEF SessionType
<1>2. found \in Seq(Nat)
    BY RankingsAreIndices DEF SessionType
<1>3. r = [s EXCEPT !.matches = found, !.selected = 0, !.top = 0]
    BY DEF Refilter
<1> HIDE DEF found, r
<1>4. r \in SessionType
    BY <1>2, <1>3 DEF SessionType
<1>5. r.matches = found /\ r.choices = s.choices /\ r.selected = 0 /\ r.top = 0
    BY <1>3 DEF SessionType
<1>6. IsSession(r)
    BY <1>1, <1>4, <1>5 DEF IsSession
<1>7. found # <<>> => 0 < Len(found)
    BY <1>2
<1>8. Placed(r)
    BY <1>5, <1>7, SessionAssumption DEF Placed
<1>9. WellFormed(r)
    BY <1>6, <1>8 DEF WellFormed
<1>10. QED
    BY <1>9 DEF r

LEMMA NewSessionIsWellFormed ==
    ASSUME NEW list \in Lists, NEW order \in Orders
    PROVE  WellFormed(NewSession(list, order))
<1>1. <<>> \in Queries
    <2>1. <<>> \in Seq(Char) /\ Len(<<>>) <= MaxQuery
        BY SessionAssumption
    <2>2. QED
        BY <2>1, QueriesAreSequences
<1>2. <<>> \in Seq(Nat) /\ 0 \in Nat
    OBVIOUS
<1>3. [choices |-> list, order |-> order, query |-> <<>>,
       matches |-> <<>>, selected |-> 0, top |-> 0] \in SessionType
    BY <1>1, <1>2, SessionFields, Zenon
<1>4. QED
    BY <1>3, RefilterIsWellFormed DEF NewSession

-----------------------------------------------------------------------------
\* Editing the query.

LEMMA TypeTextIsGood ==
    ASSUME NEW s, WellFormed(s), NEW text \in Texts, FitsQuery(s, text)
    PROVE  GoodResult(TypeText(s, text))
<1>1. CASE text = <<>> \/ \E i \in DOMAIN text : text[i] \in Control
    BY <1>1 DEF TypeText, Result, GoodResult, Ignored, Outcomes
<1>2. CASE ~(text = <<>> \/ \E i \in DOMAIN text : text[i] \in Control)
    <2> DEFINE longer == [s EXCEPT !.query = @ \o text]
    <2>1. s \in SessionType
        BY DEF WellFormed, IsSession
    <2>2. text \in Seq(Char)
        BY <1>2, SessionAssumption
    <2>3. s.query \in Seq(Char) /\ Len(s.query) <= MaxQuery
        BY <2>1, QueriesAreSequences DEF SessionType
    <2>4. s.query \o text \in Seq(Char) /\ Len(s.query \o text) = Len(s.query) + Len(text)
        BY <2>2, <2>3
    <2>5. s.query \o text \in Queries
        BY <2>4, QueriesAreSequences DEF FitsQuery
    <2>6. longer \in SessionType
        BY <2>1, <2>5 DEF SessionType
    <2>7. WellFormed(Refilter(longer))
        BY <2>6, RefilterIsWellFormed
    <2>8. TypeText(s, text) = Result(Refilter(longer), Redraw)
        BY <1>2 DEF TypeText
    <2>9. QED
        BY <2>7, <2>8 DEF GoodResult, Result, Redraw, Outcomes
<1>3. QED
    BY <1>1, <1>2

LEMMA BackspaceIsGood ==
    ASSUME NEW s, WellFormed(s)
    PROVE  GoodResult(Backspace(s))
<1>1. CASE s.query = <<>>
    BY <1>1 DEF Backspace, Result, GoodResult, Ignored, Outcomes
<1>2. CASE s.query # <<>>
    <2> DEFINE query == SubSeq(s.query, 1, Len(s.query) - 1)
               shorter == [s EXCEPT !.query = query]
    <2>1. s \in SessionType
        BY DEF WellFormed, IsSession
    <2>2. s.query \in Seq(Char) /\ Len(s.query) <= MaxQuery
        BY <2>1, QueriesAreSequences DEF SessionType
    <2>3. query \in Seq(Char) /\ Len(query) <= MaxQuery
        BY <1>2, <2>2, SessionAssumption
    <2>4. query \in Queries
        BY <2>3, QueriesAreSequences
    <2>5. shorter \in SessionType
        BY <2>1, <2>4 DEF SessionType
    <2>6. WellFormed(Refilter(shorter))
        BY <2>5, RefilterIsWellFormed
    <2>7. Backspace(s) = Result(Refilter(shorter), Redraw)
        BY <1>2 DEF Backspace
    <2>8. QED
        BY <2>6, <2>7 DEF GoodResult, Result, Redraw, Outcomes
<1>3. QED
    BY <1>1, <1>2

-----------------------------------------------------------------------------
\* Moving the selection and the window.

LEMMA SelectIsWellFormed ==
    ASSUME NEW s, WellFormed(s), NEW position \in Nat, position < Len(s.matches),
           position <= s.selected + 1
    PROVE  WellFormed(Select(s, position))
<1> DEFINE raised == IF position < s.top THEN position ELSE s.top
           top == IF position >= raised + VisibleRows
                  THEN position + 1 - VisibleRows ELSE raised
           r == Select(s, position)
<1>1. s \in SessionType /\ IsSession(s) /\ Placed(s)
    BY DEF WellFormed, IsSession
<1>2. s.top \in Nat /\ s.selected \in Nat /\ s.matches \in Seq(Nat)
    BY <1>1 DEF SessionType
<1>3. r = [s EXCEPT !.selected = position, !.top = top]
    BY DEF Select
<1>4. top \in Nat /\ top <= position /\ position < top + VisibleRows
    BY <1>2, SessionAssumption
<1>5. top > 0 => top + VisibleRows <= Len(s.matches)
    BY <1>1, <1>2, SessionAssumption DEF Placed
<1> HIDE DEF top, r
<1>6. r \in SessionType
    BY <1>1, <1>3, <1>4 DEF SessionType
<1>7. r.matches = s.matches /\ r.choices = s.choices /\ r.selected = position /\ r.top = top
    BY <1>1, <1>3 DEF SessionType
<1>8. IsSession(r)
    BY <1>1, <1>6, <1>7 DEF IsSession
<1>9. s.matches # <<>>
    BY <1>2
<1>10. Placed(r)
    BY <1>4, <1>5, <1>7, <1>9 DEF Placed
<1>11. WellFormed(r)
    BY <1>8, <1>10 DEF WellFormed
<1>12. QED
    BY <1>11 DEF r

LEMMA SelectPreviousIsGood ==
    ASSUME NEW s, WellFormed(s)
    PROVE  GoodResult(SelectPrevious(s))
<1>1. CASE s.selected = 0
    BY <1>1 DEF SelectPrevious, Result, GoodResult, Ignored, Outcomes
<1>2. CASE s.selected # 0
    <2>1. s.selected \in Nat /\ s.matches \in Seq(Nat)
        BY DEF WellFormed, IsSession, SessionType
    <2>2. s.selected - 1 \in Nat /\ s.selected - 1 < Len(s.matches)
        BY <1>2, <2>1 DEF WellFormed, Placed
    <2>3. s.selected - 1 <= s.selected + 1
        BY <2>1
    <2>4. WellFormed(Select(s, s.selected - 1))
        BY <2>2, <2>3, SelectIsWellFormed
    <2>5. QED
        BY <1>2, <2>4 DEF SelectPrevious, GoodResult, Result, Redraw, Outcomes
<1>3. QED
    BY <1>1, <1>2

LEMMA SelectNextIsGood ==
    ASSUME NEW s, WellFormed(s)
    PROVE  GoodResult(SelectNext(s))
<1>1. CASE ~(s.selected + 1 < Len(s.matches))
    BY <1>1 DEF SelectNext, Result, GoodResult, Ignored, Outcomes
<1>2. CASE s.selected + 1 < Len(s.matches)
    <2>1. s.selected + 1 \in Nat /\ s.selected + 1 <= s.selected + 1
        BY DEF WellFormed, IsSession, SessionType
    <2>2. WellFormed(Select(s, s.selected + 1))
        BY <1>2, <2>1, SelectIsWellFormed
    <2>3. QED
        BY <1>2, <2>2 DEF SelectNext, GoodResult, Result, Redraw, Outcomes
<1>3. QED
    BY <1>1, <1>2

\* A chosen position names an index of the choices, never one past its end.
LEMMA ChooseAtIsGood ==
    ASSUME NEW s, WellFormed(s), NEW position \in Nat
    PROVE  GoodResult(ChooseAt(s, position))
<1>1. CASE position < Len(s.matches)
    <2>1. s.matches \in Seq(DOMAIN s.choices) /\ s.choices \in Seq(Seq(Char))
        BY SessionAssumption DEF WellFormed, IsSession, SessionType
    <2>2. s.matches[position + 1] \in DOMAIN s.choices
        BY <1>1, <2>1
    <2>3. s.matches[position + 1] \in Nat \ {0}
        BY <2>1, <2>2
    <2>4. QED
        BY <1>1, <2>3 DEF ChooseAt, GoodResult, Result, Activate, Outcomes
<1>2. CASE ~(position < Len(s.matches))
    BY <1>2 DEF ChooseAt, GoodResult, Result, Ignored, Outcomes
<1>3. QED
    BY <1>1, <1>2

LEMMA ClickIsGood ==
    ASSUME NEW s, WellFormed(s), NEW row \in Nat
    PROVE  GoodResult(Click(s, row))
<1>1. CASE row >= VisibleRows
    BY <1>1 DEF Click, GoodResult, Result, Ignored, Outcomes
<1>2. CASE ~(row >= VisibleRows)
    <2>1. s.top + row \in Nat
        BY DEF WellFormed, IsSession, SessionType
    <2>2. QED
        BY <1>2, <2>1, ChooseAtIsGood DEF Click
<1>3. QED
    BY <1>1, <1>2

LEMMA ScrollIsGood ==
    ASSUME NEW s, WellFormed(s), NEW rows \in Int
    PROVE  GoodResult(Scroll(s, rows))
<1> DEFINE lastTop == IF Len(s.matches) > VisibleRows THEN Len(s.matches) - VisibleRows ELSE 0
           moved == IF s.top + rows < 0 THEN 0 ELSE s.top + rows
           top == IF moved > lastTop THEN lastTop ELSE moved
           lastVisible == top + VisibleRows - 1
           selected == CASE s.selected < top -> top
                         [] s.selected > lastVisible -> lastVisible
                         [] OTHER -> s.selected
           r == [s EXCEPT !.top = top, !.selected = selected]
<1>1. s \in SessionType /\ IsSession(s) /\ Placed(s)
    BY DEF WellFormed, IsSession
<1>2. s.top \in Nat /\ s.selected \in Nat /\ s.matches \in Seq(Nat)
    BY <1>1 DEF SessionType
<1>3. Scroll(s, rows) = IF top = s.top THEN Result(s, Ignored) ELSE Result(r, Redraw)
    BY <1>1 DEF Scroll, SessionType
<1>4. CASE top = s.top
    BY <1>3, <1>4 DEF GoodResult, Result, Ignored, Outcomes
<1>5. CASE top # s.top
    <2>1. lastTop \in Nat /\ moved \in Nat /\ top \in Nat /\ top <= lastTop
        BY <1>2, SessionAssumption
    <2>2. Len(s.matches) > VisibleRows /\ lastTop = Len(s.matches) - VisibleRows
        BY <1>1, <1>2, <1>5, <2>1, SessionAssumption DEF Placed
    <2> HIDE DEF lastTop, moved, top
    <2>3. s.selected < Len(s.matches)
        BY <1>1, <1>2, <2>2, SessionAssumption DEF Placed
    <2>4. /\ selected \in Nat /\ top <= selected /\ selected < top + VisibleRows
          /\ selected < Len(s.matches)
        <3>1. Len(s.matches) \in Nat /\ VisibleRows \in Nat \ {0}
            BY <1>2, SessionAssumption
        <3>2. CASE s.selected < top
            <4>1. selected = top
                BY <1>2, <2>1, <3>1, <3>2
            <4>2. QED
                BY <2>1, <2>2, <3>1, <4>1
        <3>3. CASE s.selected > lastVisible
            <4>1. selected = lastVisible
                BY <1>2, <2>1, <3>1, <3>3
            <4>2. QED
                BY <2>1, <2>2, <3>1, <4>1
        <3>4. CASE ~(s.selected < top) /\ ~(s.selected > lastVisible)
            <4>1. selected = s.selected
                BY <1>2, <2>1, <3>1, <3>4
            <4>2. QED
                BY <1>2, <2>1, <2>3, <3>1, <3>4, <4>1
        <3>5. QED
            BY <3>2, <3>3, <3>4
    <2> HIDE DEF selected
    <2>5. r \in SessionType
        BY <1>1, <2>1, <2>4 DEF SessionType
    <2>6. r.matches = s.matches /\ r.choices = s.choices /\ r.selected = selected /\ r.top = top
        BY <1>1 DEF SessionType
    <2> HIDE DEF r
    <2>7. IsSession(r)
        BY <1>1, <2>5, <2>6 DEF IsSession
    <2>8. s.matches # <<>>
        BY <1>2, <2>2, SessionAssumption
    <2>9. top + VisibleRows <= Len(s.matches)
        BY <1>2, <2>1, <2>2, SessionAssumption
    <2>10. Placed(r)
        BY <2>4, <2>6, <2>8, <2>9 DEF Placed
    <2>11. QED
        BY <1>3, <1>5, <2>7, <2>10 DEF WellFormed, GoodResult, Result, Redraw, Outcomes
<1>6. QED
    BY <1>4, <1>5

\* Every key, with no exception, keeps a session well formed.
LEMMA HandleIsGood ==
    ASSUME NEW s, WellFormed(s), NEW key \in Keys,
           key.kind = "text" => FitsQuery(s, key.text)
    PROVE  GoodResult(Handle(s, key))
<1>1. CASE key.kind = "text"
    <2>1. key.text \in Texts
        BY <1>1 DEF Keys
    <2>2. Handle(s, key) = TypeText(s, key.text)
        BY <1>1 DEF Handle
    <2>3. QED
        BY <1>1, <2>1, <2>2, TypeTextIsGood
<1>2. CASE key.kind = "backspace"
    BY <1>2, BackspaceIsGood DEF Handle
<1>3. CASE key.kind = "up"
    BY <1>3, SelectPreviousIsGood DEF Handle
<1>4. CASE key.kind = "down"
    BY <1>4, SelectNextIsGood DEF Handle
<1>5. CASE key.kind = "enter"
    <2>1. s.selected \in Nat
        BY DEF WellFormed, IsSession, SessionType
    <2>2. QED
        BY <1>5, <2>1, ChooseAtIsGood DEF Handle
<1>6. CASE key.kind = "escape"
    BY <1>6 DEF Handle, GoodResult, Result, Dismiss, Outcomes
<1>7. QED
    BY <1>1, <1>2, <1>3, <1>4, <1>5, <1>6 DEF Keys

\* No input changes what the session lists.
LEMMA InputsKeepChoices ==
    ASSUME NEW s \in SessionType
    PROVE  /\ \A key \in Keys : Handle(s, key).session.choices = s.choices
           /\ \A row : Click(s, row).session.choices = s.choices
           /\ \A rows : Scroll(s, rows).session.choices = s.choices
<1>1. ASSUME NEW key \in Keys
      PROVE  Handle(s, key).session.choices = s.choices
    <2>1. CASE key.kind = "text"
        BY <2>1 DEF Handle, TypeText, Result, Refilter, SessionType
    <2>2. CASE key.kind = "backspace"
        BY <2>2 DEF Handle, Backspace, Result, Refilter, SessionType
    <2>3. CASE key.kind = "up"
        BY <2>3 DEF Handle, SelectPrevious, Select, Result, SessionType
    <2>4. CASE key.kind = "down"
        BY <2>4 DEF Handle, SelectNext, Select, Result, SessionType
    <2>5. CASE key.kind \in {"enter", "escape"}
        BY <2>5 DEF Handle, ChooseAt, Result
    <2>6. QED
        BY <2>1, <2>2, <2>3, <2>4, <2>5 DEF Keys
<1>2. ASSUME NEW row
      PROVE  Click(s, row).session.choices = s.choices
    BY DEF Click, ChooseAt, Result
<1>3. ASSUME NEW rows
      PROVE  Scroll(s, rows).session.choices = s.choices
    BY DEF Scroll, Result, SessionType
<1>4. QED
    BY <1>1, <1>2, <1>3

LEMMA NewSessionLists ==
    ASSUME NEW list \in Lists, NEW order
    PROVE  NewSession(list, order).choices = list
    BY DEF NewSession, Refilter

LEMMA SelectedField ==
    ASSUME NEW r, NEW choice, NEW a, NEW b,
           r = [choice |-> choice, selected |-> a = b], a = b
    PROVE  r.selected
    OBVIOUS

\* Choosing a position inside the window takes what the row there shows.
LEMMA ChooseAtTakesItsRow ==
    ASSUME NEW s, WellFormed(s), NEW position \in Nat,
           s.top <= position, position < s.top + VisibleRows,
           ChooseAt(s, position).outcome.kind = "activate"
    PROVE  /\ position - s.top + 1 \in DOMAIN Rows(s)
           /\ Rows(s)[position - s.top + 1].choice = ChooseAt(s, position).outcome.choice
           /\ position = s.selected => Rows(s)[position - s.top + 1].selected
<1> DEFINE i == position - s.top + 1
           shown == IF Len(s.matches) - s.top < VisibleRows
                    THEN Len(s.matches) - s.top ELSE VisibleRows
<1>1. s.top \in Nat /\ s.selected \in Nat /\ s.matches \in Seq(Nat)
    BY DEF WellFormed, IsSession, SessionType
<1>2. position < Len(s.matches)
    BY DEF ChooseAt, Result, Ignored
<1>3. ChooseAt(s, position).outcome.choice = s.matches[position + 1]
    BY <1>2 DEF ChooseAt, Result, Activate
<1>4. i \in 1..shown /\ s.top + i = position + 1
    <2>1. Len(s.matches) \in Nat /\ VisibleRows \in Nat /\ s.top \in Nat
        BY <1>1, SessionAssumption
    <2>2. i \in Nat /\ 1 <= i /\ s.top + i = position + 1
        BY <2>1
    <2>3. shown \in Int /\ i <= shown
        BY <1>2, <2>1
    <2>4. QED
        BY <2>2, <2>3
<1>5. Rows(s) = [row \in 1..shown |-> [choice |-> s.matches[s.top + row],
                                      selected |-> s.top + row = s.selected + 1]]
    BY DEF Rows
<1> HIDE DEF i, shown
<1>6. Rows(s)[i] = [choice |-> s.matches[position + 1],
                    selected |-> position + 1 = s.selected + 1]
    BY <1>4, <1>5
<1>7. i \in DOMAIN Rows(s)
    BY <1>4, <1>5
<1>8. Rows(s)[i].choice = s.matches[position + 1]
    BY <1>6
<1>9. ASSUME position = s.selected
      PROVE  Rows(s)[i].selected
    <2>1. position + 1 = s.selected + 1
        BY <1>9
    <2>2. QED
        BY <1>6, <2>1, SelectedField, Zenon
<1>10. QED
    BY <1>3, <1>7, <1>8, <1>9, Zenon DEF i

-----------------------------------------------------------------------------
\* What is drawn of a session.

Drawn(s) == <<s.query, Rows(s)>>

Distinct(matches) == \A i, j \in DOMAIN matches : matches[i] = matches[j] => i = j

\* A result is redrawn exactly if it is drawn differently.
Redrawn(s, r) == r.outcome.kind = "redraw" <=> Drawn(r.session) # Drawn(s)

LEMMA RefilterIsDistinct ==
    ASSUME NEW s \in SessionType
    PROVE  Distinct(Refilter(s).matches)
<1>1. Refilter(s).matches = Search(s.query, s.choices, s.order)
    BY DEF Refilter, SessionType
<1>2. s.query \in Queries /\ s.choices \in Lists /\ s.order \in Orders
    BY DEF SessionType
<1>3. QED
    BY <1>1, <1>2, RankingAssumption DEF Distinct

LEMMA UnselectedField ==
    ASSUME NEW r, NEW choice, NEW a, NEW b,
           r = [choice |-> choice, selected |-> a = b], a # b
    PROVE  ~r.selected
<1>1. (a = b) = FALSE
    OBVIOUS
<1>2. r = [choice |-> choice, selected |-> FALSE]
    BY <1>1
<1>3. QED
    BY <1>2

\* The rows on screen tell where the window and the selection are.
LEMMA RowsTellPlace ==
    ASSUME NEW s, NEW t, WellFormed(s), WellFormed(t), s.matches # <<>>,
           t.matches = s.matches, Distinct(s.matches), Rows(s) = Rows(t)
    PROVE  s.top = t.top /\ s.selected = t.selected
<1> DEFINE Count(u) == IF Len(u.matches) - u.top < VisibleRows
                       THEN Len(u.matches) - u.top ELSE VisibleRows
<1>1. ASSUME NEW u, WellFormed(u), u.matches = s.matches
      PROVE  /\ Rows(u) = [row \in 1..Count(u) |-> [choice |-> u.matches[u.top + row],
                                                    selected |-> u.top + row = u.selected + 1]]
             /\ u.top \in Nat /\ u.selected \in Nat /\ u.matches \in Seq(Nat)
             /\ u.top <= u.selected /\ u.selected < Len(u.matches)
             /\ Count(u) \in Nat /\ 1 <= Count(u) /\ u.selected - u.top + 1 <= Count(u)
    <2>1. u.top \in Nat /\ u.selected \in Nat /\ u.matches \in Seq(Nat)
        BY <1>1 DEF WellFormed, IsSession, SessionType
    <2>2. /\ u.top <= u.selected /\ u.selected < Len(u.matches)
          /\ u.selected < u.top + VisibleRows
        BY <1>1 DEF WellFormed, Placed
    <2>3. VisibleRows \in Nat \ {0} /\ Len(u.matches) \in Nat
        BY <2>1, SessionAssumption
    <2>4. QED
        BY <2>1, <2>2, <2>3 DEF Rows
<1>2. ASSUME NEW u, WellFormed(u), u.matches = s.matches, NEW n \in 1..Count(u)
      PROVE  Rows(u)[n].choice = u.matches[u.top + n] /\ (Rows(u)[n].selected <=> u.top + n = u.selected + 1)
    <2>1. Rows(u)[n] = [choice |-> u.matches[u.top + n], selected |-> u.top + n = u.selected + 1]
        <3>1. Rows(u) = [row \in 1..Count(u) |-> [choice |-> u.matches[u.top + row],
                                                   selected |-> u.top + row = u.selected + 1]]
            BY <1>1, <1>2
        <3> HIDE DEF Count
        <3>2. QED
            BY <1>2, <3>1
    <2>2. Rows(u)[n].choice = u.matches[u.top + n]
        BY <2>1
    <2>3. ASSUME u.top + n = u.selected + 1
          PROVE  Rows(u)[n].selected
        BY <2>1, <2>3, SelectedField, Zenon
    <2>4. ASSUME u.top + n # u.selected + 1
          PROVE  ~Rows(u)[n].selected
        BY <2>1, <2>4, UnselectedField, Zenon
    <2>5. QED
        BY <2>2, <2>3, <2>4
<1>3. /\ s.top \in Nat /\ s.selected \in Nat /\ t.top \in Nat /\ t.selected \in Nat
      /\ s.matches \in Seq(Nat) /\ s.top <= s.selected /\ s.selected < Len(s.matches)
      /\ t.top <= t.selected /\ t.selected < Len(s.matches)
      /\ Count(s) \in Nat /\ 1 <= Count(s) /\ s.selected - s.top + 1 <= Count(s)
      /\ Count(t) \in Nat /\ 1 <= Count(t) /\ t.selected - t.top + 1 <= Count(t)
      /\ DOMAIN Rows(s) = 1..Count(s) /\ DOMAIN Rows(t) = 1..Count(t)
    BY <1>1
<1> HIDE DEF Count
<1>4. s.top = t.top
    <2>1. 1 \in 1..Count(s) /\ 1 \in 1..Count(t)
        BY <1>3
    <2>2. Rows(s)[1].choice = s.matches[s.top + 1]
        BY <1>2, <2>1
    <2>3. Rows(t)[1].choice = t.matches[t.top + 1]
        BY <1>2, <2>1
    <2>4. s.top + 1 \in DOMAIN s.matches /\ t.top + 1 \in DOMAIN s.matches
        <3>1. Len(s.matches) \in Nat /\ DOMAIN s.matches = 1..Len(s.matches)
            BY <1>3
        <3>2. /\ s.top \in Nat /\ s.selected \in Nat /\ t.top \in Nat /\ t.selected \in Nat
              /\ s.top <= s.selected /\ s.selected < Len(s.matches)
              /\ t.top <= t.selected /\ t.selected < Len(s.matches)
            BY <1>3, Zenon
        <3> DEFINE length == Len(s.matches)
        <3> HIDE DEF length
        <3>3. s.top + 1 \in 1..Len(s.matches) /\ t.top + 1 \in 1..Len(s.matches)
            <4>1. /\ length \in Nat /\ s.top \in Nat /\ s.selected \in Nat
                  /\ t.top \in Nat /\ t.selected \in Nat
                  /\ s.top <= s.selected /\ s.selected < length
                  /\ t.top <= t.selected /\ t.selected < length
                BY <3>1, <3>2, Zenon DEF length
            <4>2. s.top + 1 \in 1..length /\ t.top + 1 \in 1..length
                BY <4>1
            <4>3. QED
                BY <4>2 DEF length
        <3>4. QED
            BY <3>1, <3>3
    <2>5. s.top + 1 = t.top + 1
        BY <2>2, <2>3, <2>4 DEF Distinct
    <2>6. QED
        BY <1>3, <2>5
<1>5. s.selected = t.selected
    <2> DEFINE n == s.selected - s.top + 1
    <2>1. n \in 1..Count(s) /\ s.top + n = s.selected + 1
        BY <1>3
    <2> HIDE DEF n
    <2>2. n \in 1..Count(t)
        <3>1. 1..Count(s) = 1..Count(t)
            BY <1>3
        <3>2. QED
            BY <2>1, <3>1
    <2>3. Rows(s)[n].selected
        BY <1>2, <2>1
    <2>4. t.top + n = t.selected + 1
        BY <1>2, <2>2, <2>3
    <2>5. QED
        BY <1>3, <1>4, <2>1, <2>4
<1>6. QED
    BY <1>4, <1>5

LEMMA SameIsNotRedrawn ==
    ASSUME NEW s, NEW outcome0, outcome0.kind # "redraw"
    PROVE  Redrawn(s, Result(s, outcome0))
    BY DEF Redrawn, Result

\* A longer or shorter query is drawn.
LEMMA EditIsRedrawn ==
    ASSUME NEW s \in SessionType, NEW query \in Queries, query # s.query
    PROVE  Redrawn(s, Result(Refilter([s EXCEPT !.query = query]), Redraw))
<1> DEFINE t == Refilter([s EXCEPT !.query = query])
<1>1. t.query = query
    BY DEF Refilter, SessionType
<1>2. Drawn(t) # Drawn(s)
    BY <1>1 DEF Drawn
<1>3. QED
    BY <1>2 DEF Redrawn, Result, Redraw

LEMMA TypeTextIsRedrawn ==
    ASSUME NEW s, WellFormed(s), NEW text \in Texts, FitsQuery(s, text)
    PROVE  Redrawn(s, TypeText(s, text))
<1>1. CASE text = <<>> \/ \E i \in DOMAIN text : text[i] \in Control
    BY <1>1, SameIsNotRedrawn DEF TypeText, Ignored
<1>2. CASE ~(text = <<>> \/ \E i \in DOMAIN text : text[i] \in Control)
    <2>1. s \in SessionType
        BY DEF WellFormed, IsSession
    <2>2. text \in Seq(Char)
        BY <1>2, SessionAssumption
    <2>3. s.query \in Seq(Char) /\ Len(s.query) <= MaxQuery
        BY <2>1, QueriesAreSequences DEF SessionType
    <2>4. s.query \o text \in Seq(Char) /\ Len(s.query \o text) = Len(s.query) + Len(text)
        BY <2>2, <2>3
    <2>5. s.query \o text \in Queries
        BY <2>4, QueriesAreSequences DEF FitsQuery
    <2>6. Len(text) > 0
        BY <1>2, <2>2
    <2>7. s.query \o text # s.query
        BY <2>3, <2>4, <2>6
    <2>8. TypeText(s, text) = Result(Refilter([s EXCEPT !.query = s.query \o text]), Redraw)
        BY <1>2 DEF TypeText
    <2>9. QED
        BY <2>1, <2>5, <2>7, <2>8, EditIsRedrawn
<1>3. QED
    BY <1>1, <1>2

LEMMA BackspaceIsRedrawn ==
    ASSUME NEW s, WellFormed(s)
    PROVE  Redrawn(s, Backspace(s))
<1>1. CASE s.query = <<>>
    BY <1>1, SameIsNotRedrawn DEF Backspace, Ignored
<1>2. CASE s.query # <<>>
    <2> DEFINE query == SubSeq(s.query, 1, Len(s.query) - 1)
    <2>1. s \in SessionType
        BY DEF WellFormed, IsSession
    <2>2. s.query \in Seq(Char) /\ Len(s.query) <= MaxQuery
        BY <2>1, QueriesAreSequences DEF SessionType
    <2>3. query \in Seq(Char) /\ Len(query) = Len(s.query) - 1
        BY <1>2, <2>2
    <2>4. query \in Queries /\ query # s.query
        <3>1. Len(s.query) \in Nat /\ MaxQuery \in Nat
            BY <2>2, SessionAssumption
        <3> HIDE DEF query
        <3>2. Len(query) <= MaxQuery /\ Len(query) # Len(s.query)
            BY <2>2, <2>3, <3>1
        <3>3. QED
            BY <2>3, <3>2, QueriesAreSequences
    <2>5. Backspace(s) = Result(Refilter([s EXCEPT !.query = query]), Redraw)
        BY <1>2 DEF Backspace
    <2>6. QED
        BY <2>1, <2>4, <2>5, EditIsRedrawn
<1>3. QED
    BY <1>1, <1>2

LEMMA SelectIsRedrawn ==
    ASSUME NEW s, WellFormed(s), Distinct(s.matches), NEW position \in Nat,
           position < Len(s.matches), position <= s.selected + 1, position # s.selected
    PROVE  Redrawn(s, Result(Select(s, position), Redraw))
<1> DEFINE t == Select(s, position)
<1>1. WellFormed(t)
    BY SelectIsWellFormed
<1>2. t.matches = s.matches /\ t.selected = position
    BY DEF Select, WellFormed, IsSession, SessionType
<1> HIDE DEF t
<1>3. s.matches # <<>>
    BY DEF WellFormed, IsSession, SessionType
<1>4. Rows(t) # Rows(s)
    BY <1>1, <1>2, <1>3, RowsTellPlace
<1>5. Drawn(t) # Drawn(s)
    BY <1>4 DEF Drawn
<1>6. QED
    BY <1>5 DEF Redrawn, Result, Redraw, t

LEMMA ScrollIsRedrawn ==
    ASSUME NEW s, WellFormed(s), Distinct(s.matches), NEW rows \in Int
    PROVE  Redrawn(s, Scroll(s, rows))
<1> DEFINE r == Scroll(s, rows)
<1>1. WellFormed(r.session)
    BY ScrollIsGood DEF GoodResult
<1>2. \/ r = Result(s, Ignored)
      \/ r.outcome = Redraw /\ r.session.matches = s.matches /\ r.session.top # s.top
    BY DEF Scroll, Result, WellFormed, IsSession, SessionType
<1>3. s.matches # <<>> \/ r = Result(s, Ignored)
    <2> SUFFICES ASSUME s.matches = <<>>
                 PROVE  r = Result(s, Ignored)
        OBVIOUS
    <2>1. s.top = 0 /\ VisibleRows \in Nat \ {0} /\ Len(s.matches) = 0
        BY SessionAssumption DEF WellFormed, Placed, IsSession, SessionType
    <2>2. QED
        BY <2>1 DEF Scroll
<1> HIDE DEF r
<1>4. CASE r = Result(s, Ignored)
    BY <1>4, SameIsNotRedrawn DEF Ignored, r
<1>5. CASE r # Result(s, Ignored)
    <2>1. Rows(r.session) # Rows(s)
        BY <1>1, <1>2, <1>3, <1>5, RowsTellPlace
    <2>2. QED
        BY <1>2, <1>5, <2>1 DEF Redrawn, Drawn, Redraw, r
<1>6. QED
    BY <1>4, <1>5

\* Every key is redrawn exactly if it changes what is drawn.
LEMMA HandleIsRedrawn ==
    ASSUME NEW s, WellFormed(s), Distinct(s.matches), NEW key \in Keys,
           key.kind = "text" => FitsQuery(s, key.text)
    PROVE  Redrawn(s, Handle(s, key))
<1>0. s.selected \in Nat /\ s.matches \in Seq(Nat)
    BY DEF WellFormed, IsSession, SessionType
<1>1. CASE key.kind = "text"
    <2>1. key.text \in Texts /\ Handle(s, key) = TypeText(s, key.text)
        BY <1>1 DEF Keys, Handle
    <2>2. QED
        BY <1>1, <2>1, TypeTextIsRedrawn
<1>2. CASE key.kind = "backspace"
    BY <1>2, BackspaceIsRedrawn DEF Handle
<1>3. CASE key.kind = "up"
    <2>1. CASE s.selected = 0
        BY <1>3, <2>1, SameIsNotRedrawn DEF Handle, SelectPrevious, Ignored
    <2>2. CASE s.selected # 0
        <3>1. s.selected - 1 \in Nat /\ s.selected - 1 < Len(s.matches)
            BY <1>0, <2>2 DEF WellFormed, Placed
        <3>2. s.selected - 1 <= s.selected + 1 /\ s.selected - 1 # s.selected
            BY <1>0
        <3>3. QED
            BY <1>3, <2>2, <3>1, <3>2, SelectIsRedrawn DEF Handle, SelectPrevious
    <2>3. QED
        BY <2>1, <2>2
<1>4. CASE key.kind = "down"
    <2>1. CASE s.selected + 1 < Len(s.matches)
        <3>1. s.selected + 1 \in Nat /\ s.selected + 1 <= s.selected + 1 /\ s.selected + 1 # s.selected
            BY <1>0
        <3>2. QED
            BY <1>4, <2>1, <3>1, SelectIsRedrawn DEF Handle, SelectNext
    <2>2. CASE ~(s.selected + 1 < Len(s.matches))
        BY <1>4, <2>2, SameIsNotRedrawn DEF Handle, SelectNext, Ignored
    <2>3. QED
        BY <2>1, <2>2
<1>5. CASE key.kind = "enter"
    BY <1>5, SameIsNotRedrawn DEF Handle, ChooseAt, Ignored, Activate
<1>6. CASE key.kind = "escape"
    BY <1>6, SameIsNotRedrawn DEF Handle, Dismiss
<1>7. QED
    BY <1>1, <1>2, <1>3, <1>4, <1>5, <1>6 DEF Keys

LEMMA ClickIsRedrawn ==
    ASSUME NEW s, NEW row
    PROVE  Redrawn(s, Click(s, row))
    BY SameIsNotRedrawn DEF Click, ChooseAt, Ignored, Activate

\* An input keeps the matches distinct: it keeps them as they are or searches again.
LEMMA InputsKeepDistinct ==
    ASSUME NEW s, WellFormed(s), Distinct(s.matches)
    PROVE  /\ \A key \in Keys : (key.kind = "text" => FitsQuery(s, key.text)) =>
                  Distinct(Handle(s, key).session.matches)
           /\ \A row : Distinct(Click(s, row).session.matches)
           /\ \A rows : Distinct(Scroll(s, rows).session.matches)
<1>0. s \in SessionType
    BY DEF WellFormed, IsSession
<1>1. ASSUME NEW key \in Keys, key.kind = "text" => FitsQuery(s, key.text)
      PROVE  Distinct(Handle(s, key).session.matches)
    <2>1. CASE key.kind \in {"text", "backspace"}
        <3>0. GoodResult(Handle(s, key))
            BY <1>1, HandleIsGood
        <3>1. \/ Handle(s, key).session = s
              \/ \E q : Handle(s, key).session = Refilter([s EXCEPT !.query = q])
            BY <2>1 DEF Handle, TypeText, Backspace, Result
        <3>2. ASSUME NEW q, Handle(s, key).session = Refilter([s EXCEPT !.query = q])
              PROVE  Distinct(Handle(s, key).session.matches)
            <4>1. Handle(s, key).session.query = q
                BY <1>0, <3>2 DEF Refilter, SessionType
            <4>2. [s EXCEPT !.query = q] \in SessionType
                BY <1>0, <3>0, <4>1 DEF GoodResult, WellFormed, IsSession, SessionType
            <4>3. QED
                BY <3>2, <4>2, RefilterIsDistinct
        <3>3. QED
            BY <3>1, <3>2
    <2>2. CASE key.kind = "up"
        BY <1>0, <2>2 DEF Handle, SelectPrevious, Select, Result, SessionType
    <2>3. CASE key.kind = "down"
        BY <1>0, <2>3 DEF Handle, SelectNext, Select, Result, SessionType
    <2>4. CASE key.kind \in {"enter", "escape"}
        BY <2>4 DEF Handle, ChooseAt, Result
    <2>5. QED
        BY <2>1, <2>2, <2>3, <2>4 DEF Keys
<1>2. ASSUME NEW row
      PROVE  Distinct(Click(s, row).session.matches)
    BY DEF Click, ChooseAt, Result
<1>3. ASSUME NEW rows
      PROVE  Distinct(Scroll(s, rows).session.matches)
    BY <1>0 DEF Scroll, Result, SessionType
<1>4. QED
    BY <1>1, <1>2, <1>3

LEMMA NewSessionIsDistinct ==
    ASSUME NEW list \in Lists, NEW order \in Orders
    PROVE  Distinct(NewSession(list, order).matches)
<1>1. NewSession(list, order).matches = Search(<<>>, list, order)
    BY DEF NewSession, Refilter
<1>2. <<>> \in Queries
    <2>1. <<>> \in Seq(Char) /\ Len(<<>>) <= MaxQuery
        BY SessionAssumption
    <2>2. QED
        BY <2>1, QueriesAreSequences
<1>3. QED
    BY <1>1, <1>2, RankingAssumption DEF Distinct
=============================================================================
