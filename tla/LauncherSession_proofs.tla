----------------------- MODULE LauncherSession_proofs -----------------------
(***************************************************************************)
(* The invariants of a session and the visibility of its choices, for      *)
(* every value of the constants.                                           *)
(***************************************************************************)
EXTENDS LauncherSession, Session_proofs, FiniteSetTheorems, SequenceTheorems

-----------------------------------------------------------------------------
\* The three invariants hold together: the window's height says how far a selection
\* may be, and the window itself is bounded by the matches.
Inv == TypeOK /\ SelectionVisible /\ WindowFull

LEMMA InvIsGoodness == Inv <=> WellFormed(session) /\ outcome \in Outcomes
    BY DEF Inv, TypeOK, SelectionVisible, WindowFull, WellFormed, Placed

LEMMA InitInv == Init => Inv
<1> SUFFICES ASSUME Init PROVE Inv
    OBVIOUS
<1>1. PICK list \in Lists, order \in Orders : session = NewSession(list, order)
    BY DEF Init
<1>2. WellFormed(session)
    BY <1>1, NewSessionIsWellFormed
<1>3. outcome \in Outcomes
    BY DEF Init, Redraw, Outcomes
<1>4. QED
    BY <1>2, <1>3, InvIsGoodness

LEMMA BecomeInv ==
    ASSUME NEW r, GoodResult(r), Become(r)
    PROVE  Inv'
<1>1. WellFormed(session') /\ outcome' \in Outcomes
    BY DEF Become, GoodResult
<1>2. QED
    BY <1>1 DEF Inv, TypeOK, SelectionVisible, WindowFull, WellFormed, Placed

LEMMA NextInv == Inv /\ [Next]_vars => Inv'
<1> SUFFICES ASSUME Inv, [Next]_vars PROVE Inv'
    OBVIOUS
<1>0. WellFormed(session)
    BY InvIsGoodness
<1>1. ASSUME NEW text \in Texts, Type(text)
      PROVE  Inv'
    <2> DEFINE key == [kind |-> "text", text |-> text]
    <2>1. key \in Keys /\ key.kind = "text" /\ key.text = text
        BY DEF Keys
    <2>2. FitsQuery(session, key.text) /\ Become(Handle(session, key))
        BY <1>1, <2>1 DEF Type
    <2>3. QED
        BY <1>0, <2>1, <2>2, HandleIsGood, BecomeInv
<1>2. ASSUME NEW kind \in {"backspace", "up", "down", "enter", "escape"}, Press(kind)
      PROVE  Inv'
    <2> DEFINE key == [kind |-> kind]
    <2>1. key \in Keys /\ key.kind # "text"
        BY <1>2 DEF Keys
    <2>2. Become(Handle(session, key))
        BY <1>2 DEF Press
    <2>3. QED
        BY <1>0, <2>1, <2>2, HandleIsGood, BecomeInv
<1>3. ASSUME NEW row \in 0..VisibleRows, ClickRow(row)
      PROVE  Inv'
    <2>1. row \in Nat
        BY SessionAssumption
    <2>2. QED
        BY <1>0, <1>3, <2>1, ClickIsGood, BecomeInv DEF ClickRow
<1>4. ASSUME NEW rows \in ScrollSteps, Wheel(rows)
      PROVE  Inv'
    <2>1. rows \in Int
        BY ScrollAssumption
    <2>2. QED
        BY <1>0, <1>4, <2>1, ScrollIsGood, BecomeInv DEF Wheel
<1>5. ASSUME NEW list \in Lists, NEW order \in Orders, OpenAnother(list, order)
      PROVE  Inv'
    <2>1. GoodResult(Result(NewSession(list, order), Redraw))
        BY NewSessionIsWellFormed DEF GoodResult, Result, Redraw, Outcomes
    <2>2. QED
        BY <1>5, <2>1, BecomeInv DEF OpenAnother
<1>6. CASE UNCHANGED vars
    BY <1>6 DEF vars, Inv, TypeOK, SelectionVisible, WindowFull
<1>7. QED
    BY <1>1, <1>2, <1>3, <1>4, <1>5, <1>6 DEF Next

LEMMA SpecInv == Spec => []Inv
    BY InitInv, NextInv, PTL DEF Spec

\* A session's matches are always indices of its own choices, and every outcome that
\* activates names one: the daemon never looks up an index its list does not have.
THEOREM SessionTypeCorrect == Spec => []TypeOK
<1>1. Inv => TypeOK
    BY DEF Inv
<1>2. QED
    BY <1>1, SpecInv, PTL

\* The highlighted row exists and is on screen, whatever keys, clicks and wheel steps
\* of whatever size came before.
THEOREM SelectionAlwaysVisible == Spec => []SelectionVisible
<1>1. Inv => SelectionVisible
    BY DEF Inv
<1>2. QED
    BY <1>1, SpecInv, PTL

\* A scrolled window is always full.
THEOREM WindowAlwaysFull == Spec => []WindowFull
<1>1. Inv => WindowFull
    BY DEF Inv
<1>2. QED
    BY <1>1, SpecInv, PTL

-----------------------------------------------------------------------------
\* What an input chooses was on screen when the user made it: Enter takes the
\* highlighted row and a click the row under the pointer, never a match out of sight.
THEOREM ChosenRowsWereVisible == Spec => ChoiceWasVisible
<1> DEFINE Chosen(i) == /\ Rows(session)[i].choice = outcome'.choice
                        /\ \/ Rows(session)[i].selected
                           \/ \E row \in 0..(VisibleRows - 1) : ClickRow(row) /\ row + 1 = i
           WasVisible == outcome'.kind = "activate" => \E i \in DOMAIN Rows(session) : Chosen(i)
<1>1. Inv /\ [Next]_vars => [WasVisible]_vars
    <2> SUFFICES ASSUME Inv, Next, outcome'.kind = "activate"
                 PROVE  \E i \in DOMAIN Rows(session) : Chosen(i)
        OBVIOUS
    <2>0. WellFormed(session)
        BY InvIsGoodness
    <2>00. session.top \in Nat /\ session.selected \in Nat
        BY <2>0 DEF WellFormed, IsSession, SessionType
    <2>1. ASSUME NEW text \in Texts, Type(text)
          PROVE  FALSE
        BY <2>1 DEF Type, Become, Handle, TypeText, Result, Ignored, Redraw
    <2>2. ASSUME NEW kind \in {"backspace", "up", "down", "escape"}, Press(kind)
          PROVE  FALSE
        BY <2>2 DEF Press, Become, Handle, Backspace, SelectPrevious, SelectNext,
                    Result, Ignored, Redraw, Dismiss
    <2>3. ASSUME Press("enter")
          PROVE  \E i \in DOMAIN Rows(session) : Chosen(i)
        <3> DEFINE i == session.selected - session.top + 1
        <3>1. outcome' = ChooseAt(session, session.selected).outcome
            BY <2>3 DEF Press, Become, Handle
        <3>2. session.top <= session.selected /\ session.selected < session.top + VisibleRows
            BY <2>0 DEF WellFormed, Placed
        <3>3. /\ i \in DOMAIN Rows(session)
              /\ Rows(session)[i].choice = outcome'.choice
              /\ Rows(session)[i].selected
            BY <2>0, <2>00, <3>1, <3>2, ChooseAtTakesItsRow
        <3>4. QED
            BY <3>3
    <2>4. ASSUME NEW row \in 0..VisibleRows, ClickRow(row)
          PROVE  \E i \in DOMAIN Rows(session) : Chosen(i)
        <3> DEFINE position == session.top + row
                   i == position - session.top + 1
        <3>1. row \in Nat /\ VisibleRows \in Nat
            BY SessionAssumption
        <3>2. row < VisibleRows
            BY <2>4, <3>1 DEF ClickRow, Become, Click, Result, Ignored
        <3>3. outcome' = ChooseAt(session, position).outcome
            BY <2>4, <3>1, <3>2 DEF ClickRow, Become, Click
        <3>4. position \in Nat /\ session.top <= position /\ position < session.top + VisibleRows
            BY <2>00, <3>1, <3>2
        <3>5. i \in DOMAIN Rows(session) /\ Rows(session)[i].choice = outcome'.choice
            BY <2>0, <3>3, <3>4, ChooseAtTakesItsRow
        <3>6. row \in 0..(VisibleRows - 1) /\ row + 1 = i
            BY <2>00, <3>1, <3>2
        <3>7. QED
            BY <2>4, <3>5, <3>6
    <2>5. ASSUME NEW rows \in ScrollSteps, Wheel(rows)
          PROVE  FALSE
        BY <2>5 DEF Wheel, Become, Scroll, Result, Ignored, Redraw
    <2>6. ASSUME NEW list \in Lists, NEW order \in Orders, OpenAnother(list, order)
          PROVE  FALSE
        BY <2>6 DEF OpenAnother, Become, Result, Redraw
    <2>7. QED
        BY <2>1, <2>2, <2>3, <2>4, <2>5, <2>6 DEF Next
<1>2. QED
    BY <1>1, SpecInv, PTL DEF Spec, ChoiceWasVisible

-----------------------------------------------------------------------------
\* A session never lists a match twice.
LEMMA InitDistinct == Init => Distinct(session.matches)
    BY NewSessionIsDistinct DEF Init

LEMMA NextDistinct ==
    ASSUME Inv, Distinct(session.matches), [Next]_vars
    PROVE  Distinct(session.matches)'
<1>0. WellFormed(session)
    BY InvIsGoodness
<1>1. ASSUME NEW text \in Texts, Type(text)
      PROVE  Distinct(session'.matches)
    <2> DEFINE key == [kind |-> "text", text |-> text]
    <2>1. key \in Keys /\ key.kind = "text" /\ key.text = text
        BY DEF Keys
    <2>2. FitsQuery(session, key.text) /\ session' = Handle(session, key).session
        BY <1>1, <2>1 DEF Type, Become
    <2>3. QED
        BY <1>0, <2>1, <2>2, InputsKeepDistinct
<1>2. ASSUME NEW kind \in {"backspace", "up", "down", "enter", "escape"}, Press(kind)
      PROVE  Distinct(session'.matches)
    <2> DEFINE key == [kind |-> kind]
    <2>1. key \in Keys /\ key.kind # "text"
        BY <1>2 DEF Keys
    <2>2. session' = Handle(session, key).session
        BY <1>2 DEF Press, Become
    <2>3. QED
        BY <1>0, <2>1, <2>2, InputsKeepDistinct
<1>3. ASSUME NEW row \in 0..VisibleRows, ClickRow(row)
      PROVE  Distinct(session'.matches)
    BY <1>0, <1>3, InputsKeepDistinct DEF ClickRow, Become
<1>4. ASSUME NEW rows \in ScrollSteps, Wheel(rows)
      PROVE  Distinct(session'.matches)
    BY <1>0, <1>4, InputsKeepDistinct DEF Wheel, Become
<1>5. ASSUME NEW list \in Lists, NEW order \in Orders, OpenAnother(list, order)
      PROVE  Distinct(session'.matches)
    <2>1. session' = NewSession(list, order)
        BY <1>5 DEF OpenAnother, Become, Result
    <2>2. QED
        BY <2>1, NewSessionIsDistinct
<1>6. CASE UNCHANGED vars
    BY <1>6 DEF vars
<1>7. QED
    BY <1>1, <1>2, <1>3, <1>4, <1>5, <1>6 DEF Next

LEMMA StepIsRedrawn ==
    ASSUME Inv, Distinct(session.matches), Next, ~Finished
    PROVE  outcome'.kind = "redraw" <=> Drawn(session') # Drawn(session)
<1>0. WellFormed(session)
    BY InvIsGoodness
<1>1. ASSUME NEW text \in Texts, Type(text)
      PROVE  \E r : Become(r) /\ Redrawn(session, r)
    <2> DEFINE key == [kind |-> "text", text |-> text]
    <2>1. key \in Keys /\ key.kind = "text" /\ key.text = text
        BY DEF Keys
    <2>2. FitsQuery(session, key.text) /\ Become(Handle(session, key))
        BY <1>1, <2>1 DEF Type
    <2>3. QED
        BY <1>0, <2>1, <2>2, HandleIsRedrawn
<1>2. ASSUME NEW kind \in {"backspace", "up", "down", "enter", "escape"}, Press(kind)
      PROVE  \E r : Become(r) /\ Redrawn(session, r)
    <2> DEFINE key == [kind |-> kind]
    <2>1. key \in Keys /\ key.kind # "text"
        BY <1>2 DEF Keys
    <2>2. Become(Handle(session, key))
        BY <1>2 DEF Press
    <2>3. QED
        BY <1>0, <2>1, <2>2, HandleIsRedrawn
<1>3. ASSUME NEW row \in 0..VisibleRows, ClickRow(row)
      PROVE  \E r : Become(r) /\ Redrawn(session, r)
    BY <1>3, ClickIsRedrawn DEF ClickRow
<1>4. ASSUME NEW rows \in ScrollSteps, Wheel(rows)
      PROVE  \E r : Become(r) /\ Redrawn(session, r)
    BY <1>0, <1>4, ScrollIsRedrawn, ScrollAssumption DEF Wheel
<1>5. \E r : Become(r) /\ Redrawn(session, r)
    BY <1>1, <1>2, <1>3, <1>4 DEF Next, OpenAnother
<1>6. QED
    BY <1>5 DEF Become, Redrawn

\* An input reports Redraw exactly if it changes what is drawn, whatever the list, the
\* height of the window and the size of a wheel step: the daemon, which paints on Redraw
\* only, neither leaves an old picture nor paints the same one again.
THEOREM RedrawsExactlyChanges == Spec => RedrawIffChanged
<1> DEFINE D == Distinct(session.matches)
           Exact == ~Finished => (outcome'.kind = "redraw" <=>
                                     <<session.query, Rows(session)>>' # <<session.query, Rows(session)>>)
<1>1. Init => D
    BY InitDistinct
<1>2. Inv /\ D /\ [Next]_vars => D'
    BY NextDistinct
<1>3. Inv /\ D /\ [Next]_vars => [Exact]_vars
    BY StepIsRedrawn DEF Drawn
<1>4. QED
    BY <1>1, <1>2, <1>3, SpecInv, PTL DEF Spec, RedrawIffChanged

-----------------------------------------------------------------------------
(* The ranking *)

\* A set of numbers has a least one. Induction over a length or a position is by it: the
\* first counterexample is not 0, and the one before it is none.
LEMMA Least ==
    ASSUME NEW T, T \subseteq Nat, T # {}
    PROVE  \E m \in T : \A k \in T : m <= k
<1>1. IsWellFoundedOn(StrictSubsetOrdering(Nat), FiniteSubsetsOf(Nat))
    BY FS_StrictSubsetOrderingWellFounded
<1> DEFINE Upto == {0 .. k : k \in T}
<1>2. Upto \subseteq FiniteSubsetsOf(Nat) /\ Upto # {}
    <2> SUFFICES ASSUME NEW k \in T PROVE 0 .. k \in FiniteSubsetsOf(Nat)
        OBVIOUS
    <2>1. 0 \in Int /\ k \in Int /\ 0 .. k \subseteq Nat
        OBVIOUS
    <2>2. IsFiniteSet(0 .. k)
        BY <2>1, FS_Interval
    <2>3. QED
        BY <2>1, <2>2 DEF FiniteSubsetsOf
<1>3. \E x \in Upto : \A y \in Upto : ~ (<<y, x>> \in StrictSubsetOrdering(Nat))
    <2> HIDE DEF Upto
    <2> QED
        BY <1>1, <1>2, WFMin
<1>4. PICK m \in T : \A k \in T : ~ (<<0 .. k, 0 .. m>> \in StrictSubsetOrdering(Nat))
    BY <1>3
<1>5. ASSUME NEW k \in T, k < m PROVE FALSE
    <2>1. <<0 .. k, 0 .. m>> \in StrictSubsetOrdering(Nat)
        BY <1>5 DEF StrictSubsetOrdering
    <2>2. QED
        BY <1>4, <2>1
<1>6. QED
    BY <1>5

StrictlyOrdered(S, below) ==
    /\ \A i \in S : i \notin below[i]
    /\ \A i, j \in S : i # j => i \in below[j] \/ j \in below[i]
    /\ \A i, j, k \in S : i \in below[j] /\ j \in below[k] => i \in below[k]

InPlaces(S, below, place, count) ==
    /\ count \in Nat
    /\ \A i \in S : place[i] \in 1 .. count
    /\ \A i, j \in S : i \in below[j] <=> place[i] < place[j]
    /\ \A i, j \in S : place[i] = place[j] => i = j
    /\ \A n \in 1 .. count : \E i \in S : place[i] = n

\* In a finite set with a strict total order, the elements below one say its place, and the
\* places are 1, 2, ... without a gap.
LEMMA Places ==
    ASSUME NEW S, IsFiniteSet(S), NEW below \in [S -> SUBSET S], NEW place \in [S -> Nat],
           StrictlyOrdered(S, below), \A i \in S : place[i] = Cardinality(below[i]) + 1
    PROVE  InPlaces(S, below, place, Cardinality(S))
<1> USE DEF StrictlyOrdered, InPlaces
<1> DEFINE N == Cardinality(S)
<1>1. N \in Nat
    BY FS_CardinalityType
<1>2. ASSUME NEW i \in S
      PROVE  /\ IsFiniteSet(below[i]) /\ Cardinality(below[i]) \in Nat
             /\ Cardinality(below[i]) + 1 <= N
    <2>1. /\ IsFiniteSet(S \ {i}) /\ Cardinality(S \ {i}) = N - 1
        BY FS_RemoveElement
    <2>2. below[i] \in SUBSET (S \ {i})
        OBVIOUS
    <2>3. IsFiniteSet(below[i]) /\ Cardinality(below[i]) <= N - 1
        BY <2>1, <2>2, FS_Subset
    <2>4. Cardinality(below[i]) \in Nat
        BY <2>3, FS_CardinalityType
    <2>5. QED
        BY <1>1, <2>3, <2>4
<1>3. ASSUME NEW i \in S, NEW j \in S, i \in below[j]
      PROVE  place[i] < place[j]
    <2>1. below[i] \in SUBSET below[j] /\ below[i] # below[j]
        BY <1>3
    <2>2. Cardinality(below[i]) <= Cardinality(below[j]) /\ Cardinality(below[i]) # Cardinality(below[j])
        BY <1>2, <2>1, FS_Subset
    <2>3. QED
        BY <1>2, <2>2
<1>4. \A i, j \in S : i \in below[j] <=> place[i] < place[j]
    BY <1>3
<1>5. \A i, j \in S : place[i] = place[j] => i = j
    BY <1>3
<1>6. \A i \in S : place[i] \in 1 .. N
    BY <1>1, <1>2
<1>7. place \in Injection(S, 1 .. N)
    BY <1>5, <1>6 DEF Injection, IsInjective
<1>8. IsFiniteSet(1 .. N) /\ Cardinality(1 .. N) = N
    BY <1>1, FS_Interval
<1>9. place \in Surjection(S, 1 .. N)
    BY <1>7, <1>8, FS_Injection
<1>10. QED
    BY <1>1, <1>4, <1>5, <1>6, <1>9 DEF Surjection

\* Characters are numbers, in the order of their code points.
AnyText == Seq(Nat)

\* What match_indices() demands of an occurrence it reports, when found are those before it.
IsReported(found, name, query, p) ==
    /\ OccursAt(name, query, p)
    /\ \A r \in 1 .. (p - 1) : found[r] => r + Len(query) <= p

\* What match_indices() reports satisfies its own definition.
LEMMA Reported ==
    ASSUME NEW name \in AnyText, NEW query \in AnyText
    PROVE  \A p \in 1 .. Len(name) :
               p \in MatchIndices(name, query) <=>
                   /\ OccursAt(name, query, p)
                   /\ \A r \in 1 .. (p - 1) : r \in MatchIndices(name, query) => r + Len(query) <= p
<1> DEFINE E(f, p) == IsReported(f, name, query, p)
           Upto(f, m) == f = [p \in 1 .. m |-> E(f, p)]
           n == Len(name)
<1>1. n \in Nat
    OBVIOUS
<1>2. ASSUME NEW m \in Nat \ {0}, NEW f, Upto(f, m - 1)
      PROVE  \E g : Upto(g, m)
    <2> DEFINE g == [p \in 1 .. m |-> IF p < m THEN f[p] ELSE E(f, m)]
    <2>1. \A p \in 1 .. m : \A r \in 1 .. (p - 1) : g[r] = f[r]
        OBVIOUS
    <2>2. \A p \in 1 .. m : E(g, p) = E(f, p)
        BY <2>1 DEF IsReported
    <2>3. \A p \in 1 .. m - 1 : f[p] = E(f, p)
        BY <1>2
    <2>4. \A p \in 1 .. m : g[p] = E(g, p)
        BY <2>2, <2>3
    <2>5. Upto(g, m)
        BY <2>4
    <2>6. QED
        BY <2>5
<1>3. \A m \in Nat : \E f : Upto(f, m)
    <2> DEFINE T == {m \in Nat : ~ \E f : Upto(f, m)}
    <2> SUFFICES ASSUME T # {} PROVE FALSE
        OBVIOUS
    <2>1. PICK m \in T : \A k \in T : m <= k
        BY Least
    <2>2. Upto(<< >>, 0)
        OBVIOUS
    <2>3. m # 0 /\ m \in Nat
        BY <2>2
    <2>4. m - 1 \in Nat /\ m - 1 \notin T
        BY <2>1, <2>3
    <2>5. \E f : Upto(f, m - 1)
        BY <2>4
    <2>6. QED
        BY <1>2, <2>3, <2>5
<1> DEFINE reported == CHOOSE f : Upto(f, n)
<1>4. Upto(reported, n)
    BY <1>1, <1>3
<1>5. MatchIndices(name, query) = {p \in 1 .. n : reported[p]}
    BY Zenon DEF MatchIndices, IsReported
<1>6. QED
    <2> HIDE DEF reported
    <2> QED
    BY <1>1, <1>4, <1>5 DEF IsReported

\* With no word break in the query, an occurrence at the start of a word overlaps no earlier
\* one, so that match_indices() reports it; and it always reports the first occurrence.
LEMMA TierIsPromised ==
    ASSUME NEW name \in AnyText, NEW query \in Seq(Alphanumeric)
    PROVE  /\ Tier(name, query) # NoMatch <=> ContainsText(name, query)
           /\ Tier(name, query) # NoMatch => Tier(name, query) = PromisedTier(name, query)
           /\ Tier(name, query) \in 1 .. 4
<1> DEFINE found == MatchIndices(name, query)
<1>1. query \in AnyText /\ Len(name) \in Nat /\ Len(query) \in Nat
    <2>1. Alphanumeric \subseteq Nat
        BY DEF Alphanumeric
    <2>2. query \in Seq(Nat)
        BY <2>1, SeqMonotonic
    <2>3. QED
        BY <2>2 DEF AnyText
<1>2. found \subseteq 1 .. Len(name)
    BY DEF MatchIndices
<1>3. \A p \in 1 .. Len(name) :
               p \in found <=>
                   /\ OccursAt(name, query, p)
                   /\ \A r \in 1 .. (p - 1) : r \in found => r + Len(query) <= p
    BY <1>1, Reported
<1> HIDE DEF found
<1>4. CASE query = << >>
    <2>1. OccursAt(name, query, 1)
        BY <1>1, <1>4 DEF OccursAt
    <2>2. ContainsText(name, query)
        BY <1>1, <2>1 DEF ContainsText
    <2>3. Tier(name, query) = 1 /\ PromisedTier(name, query) = 1
        BY <2>1 DEF Tier, PromisedTier, Prefix
    <2>4. QED
        BY <2>2, <2>3 DEF NoMatch
<1>5. CASE query # << >>
    <2>1. \A p \in Nat : OccursAt(name, query, p) => p <= Len(name)
        BY <1>1, <1>5 DEF OccursAt
    <2>2. ASSUME NEW p \in 2 .. Len(name), OccursAt(name, query, p), name[p - 1] \notin Alphanumeric
          PROVE  p \in found
        <3> SUFFICES ASSUME NEW r \in 1 .. (p - 1), r \in found, r + Len(query) > p
                     PROVE  FALSE
            BY <1>3, <2>2
        <3>1. OccursAt(name, query, r)
            BY <1>3
        <3>2. p - r \in DOMAIN query /\ r + (p - r) - 1 = p - 1
            BY <1>1
        <3>3. name[p - 1] = query[p - r]
            BY <3>1, <3>2 DEF OccursAt
        <3>4. QED
            BY <2>2, <3>2, <3>3
    <2>3. ContainsText(name, query) => found # {}
        <3> DEFINE T == {p \in 1 .. Len(name) : OccursAt(name, query, p)}
        <3> SUFFICES ASSUME ContainsText(name, query) PROVE found # {}
            OBVIOUS
        <3>1. T # {} /\ T \subseteq Nat
            BY <1>1, <2>1 DEF ContainsText
        <3>2. PICK p \in T : \A k \in T : p <= k
            BY <3>1, Least
        <3>3. \A r \in 1 .. (p - 1) : r \notin found
            BY <1>3, <3>2
        <3>4. QED
            BY <1>3, <3>2, <3>3
    <2>4. found # {} => ContainsText(name, query)
        <3> SUFFICES ASSUME NEW p \in found PROVE ContainsText(name, query)
            OBVIOUS
        <3>1. p \in 1 .. (Len(name) + 1) /\ OccursAt(name, query, p)
            BY <1>1, <1>2, <1>3
        <3>2. QED
            BY <3>1 DEF ContainsText
    <2>5. OccursAt(name, query, 1) => ContainsText(name, query)
        BY <1>1 DEF ContainsText
    <2>6. (\E p \in found \ {1} : name[p - 1] \notin Alphanumeric) <=> StartsWord(name, query)
        BY <1>1, <1>2, <1>3, <2>2 DEF StartsWord
    <2>7. CASE OccursAt(name, query, 1)
        <3>1. Tier(name, query) = 1 /\ PromisedTier(name, query) = 1
            BY <2>7 DEF Tier, PromisedTier, Prefix
        <3>2. QED
            BY <2>5, <2>7, <3>1 DEF NoMatch
    <2>8. CASE ~ OccursAt(name, query, 1) /\ StartsWord(name, query)
        <3>1. Tier(name, query) = 2
            BY <2>6, <2>8 DEF Tier, WordStart, found
        <3>2. PromisedTier(name, query) = 2
            BY <2>8 DEF PromisedTier, WordStart
        <3>3. found # {}
            BY <2>6, <2>8
        <3>4. QED
            BY <2>4, <3>1, <3>2, <3>3 DEF NoMatch
    <2>9. CASE ~ OccursAt(name, query, 1) /\ ~ StartsWord(name, query)
        <3>1. Tier(name, query) = IF found # {} THEN 3 ELSE 4
            BY <2>6, <2>9 DEF Tier, Anywhere, NoMatch, found
        <3>2. PromisedTier(name, query) = 3
            BY <2>9 DEF PromisedTier, Anywhere
        <3>3. QED
            BY <2>3, <2>4, <3>1, <3>2 DEF NoMatch
    <2>10. QED
        BY <2>7, <2>8, <2>9
<1>6. QED
    BY <1>4, <1>5

\* Comparing texts is a strict total order.
LEMMA TextLessOrders ==
    ASSUME NEW s \in AnyText, NEW t \in AnyText
    PROVE  /\ ~ TextLess(s, s)
           /\ s # t => TextLess(s, t) \/ TextLess(t, s)
           /\ \A u \in AnyText : TextLess(s, t) /\ TextLess(t, u) => TextLess(s, u)
<1>1. ~ TextLess(s, s)
    BY DEF TextLess, AnyText
<1>2. ASSUME s # t PROVE TextLess(s, t) \/ TextLess(t, s)
    <2> DEFINE T == {k \in Nat \ {0} : k > Len(s) \/ k > Len(t) \/ s[k] # t[k]}
    <2>1. Len(s) + 1 \in T /\ T \subseteq Nat
        BY DEF AnyText
    <2>2. PICK k \in T : \A i \in T : k <= i
        BY <2>1, Least
    <2>3. \A i \in 1 .. (k - 1) : i <= Len(s) /\ i <= Len(t) /\ s[i] = t[i]
        <3> SUFFICES ASSUME NEW i \in 1 .. (k - 1), i \in T PROVE FALSE
            BY <2>2
        <3>1. QED
            BY <2>2
    <2>4. ~ (k > Len(s) /\ k > Len(t))
        <3> SUFFICES ASSUME k > Len(s), k > Len(t) PROVE FALSE
            OBVIOUS
        <3>1. Len(s) = k - 1 /\ Len(t) = k - 1
            BY <2>3 DEF AnyText
        <3>2. \A i \in 1 .. Len(s) : s[i] = t[i]
            BY <2>3, <3>1
        <3>3. QED
            BY <1>2, <3>1, <3>2, SeqEqual DEF AnyText
    <2>5. CASE k <= Len(t) /\ (k <= Len(s) => s[k] < t[k])
        BY <2>3, <2>5 DEF TextLess
    <2>6. CASE k <= Len(s) /\ (k <= Len(t) => t[k] < s[k])
        BY <2>3, <2>6 DEF TextLess
    <2>7. k <= Len(s) /\ k <= Len(t) => s[k] \in Nat /\ t[k] \in Nat /\ s[k] # t[k]
        BY <2>2 DEF AnyText
    <2>8. QED
        BY <2>4, <2>5, <2>6, <2>7 DEF AnyText
<1>3. ASSUME NEW u \in AnyText, TextLess(s, t), TextLess(t, u) PROVE TextLess(s, u)
    <2>1. PICK k \in 1 .. Len(t) : /\ \A i \in 1..(k - 1) : i <= Len(s) /\ s[i] = t[i]
                                   /\ k <= Len(s) => s[k] < t[k]
        BY <1>3 DEF TextLess
    <2>2. PICK l \in 1 .. Len(u) : /\ \A i \in 1..(l - 1) : i <= Len(t) /\ t[i] = u[i]
                                   /\ l <= Len(t) => t[l] < u[l]
        BY <1>3 DEF TextLess
    <2>3. CASE k < l
        <3>1. /\ k \in 1 .. Len(u)
              /\ k <= Len(s) => s[k] < u[k]
            BY <2>1, <2>2, <2>3 DEF AnyText
        <3>2. \A i \in 1 .. (k - 1) : i <= Len(s) /\ s[i] = u[i]
            BY <2>1, <2>2, <2>3
        <3>3. QED
            BY <3>1, <3>2 DEF TextLess
    <2>4. CASE k = l
        <3>1. /\ k \in 1 .. Len(u)
              /\ k <= Len(s) => s[k] < u[k]
            BY <2>1, <2>2, <2>4 DEF AnyText
        <3>2. \A i \in 1 .. (k - 1) : i <= Len(s) /\ s[i] = u[i]
            BY <2>1, <2>2, <2>4
        <3>3. QED
            BY <3>1, <3>2 DEF TextLess
    <2>5. CASE l < k
        <3>1. /\ l \in 1 .. Len(u)
              /\ l <= Len(s) => s[l] < u[l]
            BY <2>1, <2>2, <2>5 DEF AnyText
        <3>2. \A i \in 1 .. (l - 1) : i <= Len(s) /\ s[i] = u[i]
            BY <2>1, <2>2, <2>5
        <3>3. QED
            BY <3>1, <3>2 DEF TextLess
    <2>6. QED
        BY <2>3, <2>4, <2>5
<1>4. QED
    BY <1>1, <1>2, <1>3

\* Lower case keeps a text a text, and the characters of words such.
LEMMA LoweredStays ==
    /\ \A text \in AnyText : Lowered(text) \in AnyText
    /\ \A text \in Seq(Alphanumeric) : Lowered(text) \in Seq(Alphanumeric)
<1>1. ASSUME NEW text \in AnyText PROVE Lowered(text) \in AnyText
    <2>1. PICK n \in Nat : text \in [1 .. n -> Nat]
        BY SeqDef DEF AnyText
    <2>2. Lowered(text) \in [1 .. n -> Nat]
        BY <2>1 DEF Lowered
    <2>3. QED
        BY <2>2, SeqDef DEF AnyText
<1>2. ASSUME NEW text \in Seq(Alphanumeric) PROVE Lowered(text) \in Seq(Alphanumeric)
    <2>1. PICK n \in Nat : text \in [1 .. n -> Alphanumeric]
        BY SeqDef
    <2>2. \A c \in Alphanumeric : (IF c \in 65 .. 90 THEN c + 32 ELSE c) \in Alphanumeric
        BY DEF Alphanumeric
    <2>3. Lowered(text) \in [1 .. n -> Alphanumeric]
        BY <2>1, <2>2 DEF Lowered
    <2>4. QED
        BY <2>3, SeqDef
<1>3. QED
    BY <1>1, <1>2

\* The ranking is the promised one, for every query that holds no word break: search()
\* lists every name that contains the query once, by the strongest reason there is, although
\* it looks only at occurrences that do not overlap.
THEOREM RankingIsPromised ==
    ASSUME NEW query \in Seq(Alphanumeric), NEW names \in Seq(AnyText),
           NEW order \in {"alphabetical", "given"}
    PROVE  IsPromisedRanking(RankedSearch(query, names, order), query, names, order)
<1> DEFINE q == Lowered(query)
           Low(i) == Lowered(names[i])
           lowered == [i \in DOMAIN names |-> Lowered(names[i])]
           tier == [i \in DOMAIN names |-> Tier(lowered[i], q)]
           KeyLess(i, j) == order = "alphabetical" /\ TextLess(lowered[i], lowered[j])
           Before(i, j) ==
              \/ tier[i] < tier[j]
              \/ tier[i] = tier[j] /\ KeyLess(i, j)
              \/ tier[i] = tier[j] /\ ~KeyLess(j, i) /\ i < j
           found == {i \in DOMAIN names : tier[i] # NoMatch}
           N == Cardinality(found)
           below == [i \in found |-> {j \in found : Before(j, i)}]
           place == [i \in found |-> Cardinality(below[i]) + 1]
           ranking == RankedSearch(query, names, order)
<1>1. DOMAIN names = 1 .. Len(names) /\ Len(names) \in Nat
    OBVIOUS
<1>2. \A i \in DOMAIN names :
          /\ lowered[i] = Low(i) /\ Low(i) \in AnyText
          /\ tier[i] \in 1 .. 4
          /\ tier[i] # 4 <=> ContainsText(Low(i), q)
          /\ tier[i] # 4 => tier[i] = PromisedTier(Low(i), q)
    <2> SUFFICES ASSUME NEW i \in DOMAIN names
                 PROVE  /\ Low(i) \in AnyText
                        /\ Tier(Low(i), q) \in 1 .. 4
                        /\ Tier(Low(i), q) # 4 <=> ContainsText(Low(i), q)
                        /\ Tier(Low(i), q) # 4 => Tier(Low(i), q) = PromisedTier(Low(i), q)
        OBVIOUS
    <2>1. Low(i) \in AnyText /\ q \in Seq(Alphanumeric)
        BY LoweredStays
    <2>2. QED
        BY <2>1, TierIsPromised DEF NoMatch
<1>3. ranking = [n \in 1 .. N |-> CHOOSE i \in found : Cardinality({j \in found : Before(j, i)}) + 1 = n]
    BY Zenon DEF RankedSearch
<1>4. \A i \in found : below[i] = {j \in found : Before(j, i)}
    OBVIOUS
<1>5. \A i \in found : place[i] = Cardinality({j \in found : Before(j, i)}) + 1
    <2> HIDE DEF Before, found
    <2> QED OBVIOUS
<1>6. \A i \in DOMAIN names : ~ Before(i, i)
    BY <1>2, TextLessOrders
<1>7. \A i, j \in DOMAIN names : i # j => Before(i, j) \/ Before(j, i)
    BY <1>1, <1>2
<1>8. \A i, j, k \in DOMAIN names : Before(i, j) /\ Before(j, k) => Before(i, k)
    <2> SUFFICES ASSUME NEW i \in DOMAIN names, NEW j \in DOMAIN names, NEW k \in DOMAIN names,
                        Before(i, j), Before(j, k)
                 PROVE  Before(i, k)
        OBVIOUS
    <2> DEFINE L(a, b) == TextLess(lowered[a], lowered[b])
    <2>1. \A a, b, c \in {i, j, k} : L(a, b) /\ L(b, c) => L(a, c)
        BY <1>2, TextLessOrders
    <2>2. \A a, b \in {i, j, k} : ~ L(a, b) /\ ~ L(b, a) => lowered[a] = lowered[b]
        BY <1>2, TextLessOrders
    <2>3. \A a \in {i, j, k} : ~ L(a, a)
        BY <1>2, TextLessOrders
    <2>4. tier[i] \in Nat /\ tier[j] \in Nat /\ tier[k] \in Nat
        BY <1>2
    <2>5. i \in Nat /\ j \in Nat /\ k \in Nat
        BY <1>1
    <2> HIDE DEF tier, lowered
    <2>6. QED
        BY <2>1, <2>2, <2>3, <2>4, <2>5
<1>9. IsFiniteSet(found) /\ found \subseteq DOMAIN names
    <2>1. IsFiniteSet(1 .. Len(names))
        BY <1>1, FS_Interval
    <2>2. found \in SUBSET (1 .. Len(names))
        BY <1>1
    <2>3. QED
        <3> HIDE DEF found
        <3> QED
            BY <1>1, <2>1, <2>2, FS_Subset
<1>10. below \in [found -> SUBSET found] /\ place \in [found -> Nat]
    <2>1. below \in [found -> SUBSET found]
        OBVIOUS
    <2>2. ASSUME NEW i \in found PROVE Cardinality(below[i]) \in Nat
        <3> HIDE DEF below, found
        <3>1. below[i] \in SUBSET found
            BY <2>1
        <3>2. QED
            BY <1>9, <3>1, FS_Subset, FS_CardinalityType
    <2>3. place \in [found -> Nat]
        <3> HIDE DEF below, found
        <3> QED
            BY <2>2
    <2>4. QED
        BY <2>1, <2>3
<1>11. InPlaces(found, below, place, N)
    <2>1. \A i \in found : i \notin below[i]
        BY <1>6, <1>9
    <2>2. \A i, j \in found : i # j => i \in below[j] \/ j \in below[i]
        BY <1>7, <1>9
    <2>3. \A i, j, k \in found : i \in below[j] /\ j \in below[k] => i \in below[k]
        BY <1>4, <1>8, <1>9
    <2>4. \A i \in found : place[i] = Cardinality(below[i]) + 1
        OBVIOUS
    <2> HIDE DEF below, place, found
    <2>5. StrictlyOrdered(found, below)
        BY <2>1, <2>2, <2>3 DEF StrictlyOrdered
    <2>6. QED
        BY <1>9, <1>10, <2>4, <2>5, Places
<1>12. /\ ranking \in [1 .. N -> found]
       /\ \A n \in 1 .. N : place[ranking[n]] = n
       /\ \A i \in found : ranking[place[i]] = i
    <2> HIDE DEF Before, place, found, ranking
    <2>1. \A n \in 1 .. N : ranking[n] \in found /\ place[ranking[n]] = n
        BY <1>3, <1>5, <1>11 DEF InPlaces
    <2>2. ranking \in [1 .. N -> found]
        BY <1>3, <2>1
    <2>3. QED
        BY <1>11, <2>1, <2>2 DEF InPlaces
<1>13. ToSet(ranking) = found /\ Len(ranking) = N /\ DOMAIN ranking = 1 .. N
    <2> HIDE DEF place, found, ranking
    <2> QED
        BY <1>11, <1>12 DEF ToSet, InPlaces
<1>14. found = {i \in DOMAIN names : ContainsText(Low(i), q)}
    BY <1>2 DEF NoMatch
<1>15. ASSUME NEW a \in 1 .. N, NEW b \in 1 .. N, a < b
       PROVE  Before(ranking[a], ranking[b])
    <2>1. place[ranking[a]] < place[ranking[b]] /\ ranking[a] \in found /\ ranking[b] \in found
        BY <1>12, <1>15
    <2>2. ranking[a] \in below[ranking[b]]
        <3> HIDE DEF below, place, found, ranking
        <3> QED
            BY <1>11, <2>1 DEF InPlaces
    <2>3. QED
        <3> HIDE DEF Before, found, ranking
        <3> QED
            BY <2>1, <2>2
<1>16. ASSUME NEW i \in found, NEW j \in found, Before(i, j)
       PROVE  LET ti == PromisedTier(Low(i), q)
                  tj == PromisedTier(Low(j), q)
              IN  /\ ti <= tj
                  /\ (ti = tj /\ order = "alphabetical") => ~TextLess(Low(j), Low(i))
                  /\ (ti = tj /\ (order = "given" \/ Low(i) = Low(j))) => i < j
    <2>1. /\ tier[i] = PromisedTier(Low(i), q) /\ tier[i] \in Nat
          /\ tier[j] = PromisedTier(Low(j), q) /\ tier[j] \in Nat
          /\ lowered[i] = Low(i) /\ lowered[j] = Low(j)
          /\ Low(i) \in AnyText /\ Low(j) \in AnyText
        BY <1>2 DEF NoMatch
    <2>2. /\ ~ (TextLess(Low(i), Low(j)) /\ TextLess(Low(j), Low(i)))
          /\ ~ TextLess(Low(i), Low(i))
        BY <2>1, TextLessOrders
    <2> HIDE DEF tier, lowered, found, Low, q
    <2>3. QED
        BY <1>16, <2>1, <2>2
<1>17. QED
    <2> HIDE DEF Before, found, ranking, N
    <2>1. Cardinality(ToSet(ranking)) = Len(ranking)
        BY <1>13 DEF N
    <2>2. \A a, b \in DOMAIN ranking : a < b =>
              /\ ranking[a] \in found /\ ranking[b] \in found
              /\ Before(ranking[a], ranking[b])
        BY <1>12, <1>13, <1>15
    <2>3. QED
        BY <1>13, <1>14, <1>16, <2>1, <2>2 DEF IsPromisedRanking, ranking

-----------------------------------------------------------------------------
\* The session shows the ranking of its query.

SearchIsRanked ==
    \A query \in Queries, list \in Lists, order \in Orders :
        Search(query, list, order) = RankedSearch(query, list, order)

\* What is typed holds no space or punctuation. Where it does, a word start can be missed: the
\* run MCLauncherSessionWords shows how.
WordsAreTyped ==
    \A text \in Texts : \A i \in DOMAIN text : text[i] \in Alphanumeric \cup Control

UpToDate(s) ==
    /\ s.query \in Seq(Alphanumeric)
    /\ s.matches = Search(s.query, s.choices, s.order)

LEMMA RefilterIsUpToDate ==
    ASSUME NEW s \in SessionType, NEW query \in Seq(Alphanumeric)
    PROVE  UpToDate(Refilter([s EXCEPT !.query = query]))
    BY DEF UpToDate, Refilter, SessionType

LEMMA HandleKeepsUpToDate ==
    ASSUME NEW s, WellFormed(s), UpToDate(s), WordsAreTyped,
           NEW key \in Keys, key.kind = "text" => FitsQuery(s, key.text)
    PROVE  UpToDate(Handle(s, key).session)
<1>1. s \in SessionType
    BY DEF WellFormed, IsSession
<1>2. CASE key.kind = "text"
    <2> DEFINE text == key.text
    <2>1. text \in Texts /\ Handle(s, key) = TypeText(s, text)
        BY <1>2 DEF Keys, Handle
    <2>2. CASE text = <<>> \/ \E i \in DOMAIN text : text[i] \in Control
        BY <2>1, <2>2 DEF TypeText, Result
    <2>3. CASE ~ (text = <<>> \/ \E i \in DOMAIN text : text[i] \in Control)
        <3> DEFINE longer == [s EXCEPT !.query = s.query \o text]
        <3>1. Handle(s, key).session = Refilter(longer)
            BY <2>1, <2>3 DEF TypeText, Result
        <3>2. text \in Seq(Alphanumeric)
            <4>1. text \in Seq(Char \cup Control)
                BY <2>1, SessionAssumption
            <4>2. \A i \in DOMAIN text : text[i] \in Alphanumeric
                BY <2>1, <2>3 DEF WordsAreTyped
            <4>3. QED
                BY <4>1, <4>2
        <3>3. s.query \o text \in Seq(Alphanumeric)
            BY <3>2 DEF UpToDate
        <3>4. QED
            BY <1>1, <3>1, <3>3, RefilterIsUpToDate
    <2>4. QED
        BY <2>2, <2>3
<1>3. CASE key.kind = "backspace"
    <2>1. Handle(s, key) = Backspace(s)
        BY <1>3 DEF Handle
    <2>2. CASE s.query = <<>>
        BY <2>1, <2>2 DEF Backspace, Result
    <2>3. CASE s.query # <<>>
        <3> DEFINE query == SubSeq(s.query, 1, Len(s.query) - 1)
                   shorter == [s EXCEPT !.query = query]
        <3>1. Handle(s, key).session = Refilter(shorter)
            BY <2>1, <2>3 DEF Backspace, Result
        <3>2. query \in Seq(Alphanumeric)
            BY <2>3 DEF UpToDate
        <3>3. QED
            BY <1>1, <3>1, <3>2, RefilterIsUpToDate
    <2>4. QED
        BY <2>2, <2>3
<1>4. CASE key.kind \notin {"text", "backspace"}
    <2>1. key.kind \in {"up", "down", "enter", "escape"}
        BY <1>4 DEF Keys
    <2>2. QED
        BY <1>1, <2>1 DEF Handle, SelectPrevious, SelectNext, Select, ChooseAt, Result, UpToDate, SessionType
<1>5. QED
    BY <1>2, <1>3, <1>4

LEMMA PointerKeepsUpToDate ==
    ASSUME NEW s, WellFormed(s), UpToDate(s)
    PROVE  /\ \A row : UpToDate(Click(s, row).session)
           /\ \A rows : UpToDate(Scroll(s, rows).session)
    BY DEF WellFormed, IsSession, Click, ChooseAt, Scroll, Result, UpToDate, SessionType

LEMMA NewSessionIsUpToDate ==
    ASSUME NEW list \in Lists, NEW order \in Orders
    PROVE  UpToDate(NewSession(list, order))
    BY DEF UpToDate, NewSession, Refilter

LEMMA InitUpToDate == Init => UpToDate(session)
    BY NewSessionIsUpToDate DEF Init

LEMMA NextUpToDate ==
    ASSUME Inv, UpToDate(session), WordsAreTyped, [Next]_vars
    PROVE  UpToDate(session)'
<1>0. WellFormed(session)
    BY InvIsGoodness
<1>1. ASSUME NEW text \in Texts, Type(text)
      PROVE  UpToDate(session')
    <2> DEFINE key == [kind |-> "text", text |-> text]
    <2>1. key \in Keys /\ key.text = text
        BY DEF Keys
    <2>2. FitsQuery(session, key.text) /\ session' = Handle(session, key).session
        BY <1>1, <2>1 DEF Type, Become
    <2>3. QED
        BY <1>0, <2>1, <2>2, HandleKeepsUpToDate
<1>2. ASSUME NEW kind \in {"backspace", "up", "down", "enter", "escape"}, Press(kind)
      PROVE  UpToDate(session')
    <2> DEFINE key == [kind |-> kind]
    <2>1. key \in Keys /\ key.kind # "text"
        BY <1>2 DEF Keys
    <2>2. session' = Handle(session, key).session
        BY <1>2 DEF Press, Become
    <2>3. QED
        BY <1>0, <2>1, <2>2, HandleKeepsUpToDate
<1>3. ASSUME NEW row \in 0..VisibleRows, ClickRow(row)
      PROVE  UpToDate(session')
    BY <1>0, <1>3, PointerKeepsUpToDate DEF ClickRow, Become
<1>4. ASSUME NEW rows \in ScrollSteps, Wheel(rows)
      PROVE  UpToDate(session')
    BY <1>0, <1>4, PointerKeepsUpToDate DEF Wheel, Become
<1>5. ASSUME NEW list \in Lists, NEW order \in Orders, OpenAnother(list, order)
      PROVE  UpToDate(session')
    BY <1>5, NewSessionIsUpToDate DEF OpenAnother, Become, Result
<1>6. CASE UNCHANGED vars
    BY <1>6 DEF vars
<1>7. QED
    BY <1>1, <1>2, <1>3, <1>4, <1>5, <1>6 DEF Next

\* A session whose matches are those of its query shows the promised ranking.
LEMMA UpToDateIsRanked ==
    ASSUME Inv, UpToDate(session), SearchIsRanked
    PROVE  MatchesAreRanked
<1>1. session \in SessionType
    BY DEF Inv, TypeOK, IsSession
<1>2. /\ session.query \in Queries /\ session.choices \in Lists /\ session.order \in Orders
      /\ session.query \in Seq(Alphanumeric)
    BY <1>1 DEF SessionType, UpToDate
<1>3. session.choices \in Seq(AnyText)
    <2>1. session.choices \in Seq(Seq(Char)) /\ Seq(Char) \subseteq Seq(Nat)
        BY <1>2, SessionAssumption, SeqMonotonic
    <2>2. QED
        BY <2>1, SeqMonotonic DEF AnyText
<1>4. session.matches = RankedSearch(session.query, session.choices, session.order)
    BY <1>2 DEF UpToDate, SearchIsRanked
<1>5. QED
    BY <1>2, <1>3, <1>4, RankingIsPromised DEF MatchesAreRanked, Orders

\* While no space or punctuation is typed, the matches are the promised ranking of the query,
\* for every list and every window: whatever is typed, deleted or scrolled, every name that
\* contains the query is listed once, better tiers first, ties in the order asked for.
THEOREM MatchesAlwaysRanked ==
    ASSUME SearchIsRanked, WordsAreTyped
    PROVE  Spec => []MatchesAreRanked
<1> DEFINE U == UpToDate(session)
<1>1. Init => U
    BY InitUpToDate
<1>2. Inv /\ U /\ [Next]_vars => U'
    BY NextUpToDate
<1>3. Inv /\ U => MatchesAreRanked
    BY UpToDateIsRanked
<1>4. QED
    BY <1>1, <1>2, <1>3, SpecInv, PTL DEF Spec
=============================================================================
