----------------------- MODULE LaunchFeedback_proofs -----------------------
(***************************************************************************)
(* What launch feedback promises of the two connections, for any number of *)
(* feedbacks, launches and windows.  The argument is about the order of    *)
(* what is under way: which message is still followed by its release, and  *)
(* which can no longer come after another.                                 *)
(***************************************************************************)
EXTENDS LaunchFeedback, FiniteSetTheorems, TLAPS

\* Every a in the queue has a b behind it; no a in the queue has one.
Followed(q, a, b) == \A i \in 1..Len(q) : q[i] = a => \E j \in (i + 1)..Len(q) : q[j] = b
Parted(q, a, b) == \A i, j \in 1..Len(q) : i < j /\ q[i] = a => q[j] # b

\* Numbers are given out one by one; what carries a number was given it.
Issued ==
    /\ \A i \in 1..Len(toCompositor) : toCompositor[i].number <= created
    /\ \A i \in 1..Len(toDaemon) : toDaemon[i].number <= created
    /\ \A n \in surfaces \cup lists : n <= created
    /\ Shown => feedback.number <= created

\* The list of the shown feedback is its own; without one it never asked for any.
OwnList ==
    Shown =>
        \/ feedback.list = feedback.number
        \/ /\ feedback.list = NoList
           /\ feedback.number \notin lists
           /\ ~Contains(toCompositor, Asking("bind", feedback.number))

\* What is asked for is released behind it, unless it is the shown feedback's.
Released ==
    \A n \in Numbers \ {feedback.number} :
        /\ Followed(toCompositor, Asking("bind", n), Asking("stop", n))
        /\ Followed(toCompositor, Asking("surface", n), Asking("destroy", n))

\* The one surface of the shown feedback is configured once.
ConfiguredOnce ==
    Shown =>
        LET surface == Asking("surface", feedback.number)
            configure == Asking("configure", feedback.number)
        IN  /\ feedback.painted => feedback.configured
            /\ feedback.configured =>
                  ~Contains(toCompositor, surface) /\ ~Contains(toDaemon, configure)
            /\ Contains(toDaemon, configure) => ~Contains(toCompositor, surface)
            /\ Parted(toCompositor, surface, surface)
            /\ Parted(toDaemon, configure, configure)

\* The history counts what the timer counts, and what appeared was counted.
HistoryHolds ==
    /\ ~Shown => history = NoHistory
    /\ Shown =>
          /\ history.steps = feedback.elapsed
          /\ feedback.appeared => history.counted # {}
          /\ ~feedback.listening => history.callback = 0 /\ history.counted = {}
          /\ history.launch <= launches

\* Once the feedback's own callback is answered, nothing it should not count can come.
CallbackSeparates ==
    Shown =>
        LET n == feedback.number
        IN  /\ Parted(toCompositor, Asking("sync", n), Asking("bind", n))
            /\ Contains(toDaemon, Asking("done", n)) =>
                  ~Contains(toCompositor, Asking("bind", n))
            /\ history.callback = n => ~Contains(toCompositor, Asking("bind", n))
            /\ \A born \in 0..MaxLaunches : born < history.launch =>
                  /\ Parted(toDaemon, Asking("done", n), Announcement(n, born))
                  /\ history.callback = n => ~Contains(toDaemon, Announcement(n, born))

IInv ==
    /\ TypeOK
    /\ Issued
    /\ OwnList
    /\ Released
    /\ NothingLeaks
    /\ ConfiguredOnce
    /\ HistoryHolds
    /\ CallbackSeparates
    /\ OwnCallbackCountsNewWindows

-----------------------------------------------------------------------------
\* Queues: what receiving the head and sending behind the tail do to them.

LEMMA JoinedIndices ==
    ASSUME NEW S, NEW q \in Seq(S), NEW t \in Seq(S)
    PROVE  /\ q \o t \in Seq(S)
           /\ Len(q \o t) = Len(q) + Len(t)
           /\ \A i \in 1..Len(q) : (q \o t)[i] = q[i]
           /\ \A i \in 1..Len(t) : (q \o t)[Len(q) + i] = t[i]
           /\ \A i \in 1..Len(q \o t) :
                 \/ i \in 1..Len(q)
                 \/ i > Len(q) /\ i - Len(q) \in 1..Len(t) /\ (q \o t)[i] = t[i - Len(q)]
    OBVIOUS

LEMMA ElementsType ==
    ASSUME NEW S, NEW q \in Seq(S)
    PROVE  \A i \in DOMAIN q : q[i] \in S
    OBVIOUS

LEMMA TailIndices ==
    ASSUME NEW S, NEW q \in Seq(S), q # <<>>
    PROVE  /\ Head(q) \in S /\ Head(q) = q[1]
           /\ Tail(q) \in Seq(S)
           /\ Len(q) \in Nat \ {0}
           /\ Len(Tail(q)) = Len(q) - 1
           /\ \A i \in 1..Len(Tail(q)) : Tail(q)[i] = q[i + 1]
    OBVIOUS

LEMMA ContainsJoined ==
    ASSUME NEW S, NEW q \in Seq(S), NEW t \in Seq(S), NEW a
    PROVE  Contains(q \o t, a) <=> Contains(q, a) \/ Contains(t, a)
<1>1. ASSUME Contains(q \o t, a) PROVE Contains(q, a) \/ Contains(t, a)
    BY <1>1, JoinedIndices DEF Contains
<1>2. ASSUME Contains(q, a) PROVE Contains(q \o t, a)
    BY <1>2, JoinedIndices DEF Contains
<1>3. ASSUME Contains(t, a) PROVE Contains(q \o t, a)
    <2>1. PICK i \in 1..Len(t) : t[i] = a
        BY <1>3 DEF Contains
    <2>2. Len(q) + i \in 1..Len(q \o t) /\ (q \o t)[Len(q) + i] = a
        BY <2>1, JoinedIndices
    <2>3. QED
        BY <2>2 DEF Contains
<1>4. QED
    BY <1>1, <1>2, <1>3

LEMMA ContainsReceived ==
    ASSUME NEW S, NEW q \in Seq(S), q # <<>>, NEW a
    PROVE  Contains(q, a) <=> Head(q) = a \/ Contains(Tail(q), a)
<1>1. ASSUME Contains(q, a) PROVE Head(q) = a \/ Contains(Tail(q), a)
    <2>1. PICK i \in 1..Len(q) : q[i] = a
        BY <1>1 DEF Contains
    <2>2. CASE i = 1
        BY <2>1, <2>2, TailIndices
    <2>3. CASE i # 1
        <3>1. i - 1 \in 1..Len(Tail(q)) /\ Tail(q)[i - 1] = a
            BY <2>1, <2>3, TailIndices
        <3>2. QED
            BY <3>1 DEF Contains
    <2>4. QED
        BY <2>2, <2>3
<1>2. ASSUME Head(q) = a PROVE Contains(q, a)
    BY <1>2, TailIndices DEF Contains
<1>3. ASSUME Contains(Tail(q), a) PROVE Contains(q, a)
    <2>1. PICK i \in 1..Len(Tail(q)) : Tail(q)[i] = a
        BY <1>3 DEF Contains
    <2>2. i + 1 \in 1..Len(q) /\ q[i + 1] = a
        BY <2>1, TailIndices
    <2>3. QED
        BY <2>2 DEF Contains
<1>4. QED
    BY <1>1, <1>2, <1>3

LEMMA FollowedReceived ==
    ASSUME NEW S, NEW q \in Seq(S), q # <<>>, NEW a, NEW b, Followed(q, a, b)
    PROVE  Followed(Tail(q), a, b) /\ (Head(q) = a => Contains(Tail(q), b))
<1>1. ASSUME NEW i \in 1..Len(Tail(q)), Tail(q)[i] = a
      PROVE  \E j \in (i + 1)..Len(Tail(q)) : Tail(q)[j] = b
    <2>1. PICK j \in (i + 2)..Len(q) : q[j] = b
        BY <1>1, TailIndices DEF Followed
    <2>2. j - 1 \in (i + 1)..Len(Tail(q)) /\ Tail(q)[j - 1] = b
        BY <2>1, TailIndices
    <2>3. QED
        BY <2>2
<1>2. ASSUME Head(q) = a PROVE Contains(Tail(q), b)
    <2>1. PICK j \in 2..Len(q) : q[j] = b
        BY <1>2, TailIndices DEF Followed
    <2>2. j - 1 \in 1..Len(Tail(q)) /\ Tail(q)[j - 1] = b
        BY <2>1, TailIndices
    <2>3. QED
        BY <2>2 DEF Contains
<1>3. QED
    BY <1>1, <1>2 DEF Followed

LEMMA FollowedJoined ==
    ASSUME NEW S, NEW q \in Seq(S), NEW t \in Seq(S), NEW a, NEW b,
           Followed(q, a, b) \/ Contains(t, b), ~Contains(t, a)
    PROVE  Followed(q \o t, a, b)
<1> SUFFICES ASSUME NEW i \in 1..Len(q \o t), (q \o t)[i] = a
             PROVE  \E j \in (i + 1)..Len(q \o t) : (q \o t)[j] = b
    BY DEF Followed
<1>1. i \in 1..Len(q) /\ q[i] = a
    BY JoinedIndices DEF Contains
<1>2. CASE Followed(q, a, b)
    <2>1. PICK j \in (i + 1)..Len(q) : q[j] = b
        BY <1>1, <1>2 DEF Followed
    <2>2. QED
        BY <1>1, <2>1, JoinedIndices
<1>3. CASE Contains(t, b)
    <2>1. PICK j \in 1..Len(t) : t[j] = b
        BY <1>3 DEF Contains
    <2>2. Len(q) + j \in (i + 1)..Len(q \o t) /\ (q \o t)[Len(q) + j] = b
        BY <1>1, <2>1, JoinedIndices
    <2>3. QED
        BY <2>2
<1>4. QED
    BY <1>2, <1>3

LEMMA FollowedAbsent ==
    ASSUME NEW q, NEW a, NEW b, ~Contains(q, a)
    PROVE  Followed(q, a, b) /\ Parted(q, a, b)
    BY DEF Contains, Followed, Parted

LEMMA PartedReceived ==
    ASSUME NEW S, NEW q \in Seq(S), q # <<>>, NEW a, NEW b, Parted(q, a, b)
    PROVE  Parted(Tail(q), a, b) /\ (Head(q) = a => ~Contains(Tail(q), b))
<1>1. ASSUME NEW i \in 1..Len(Tail(q)), NEW j \in 1..Len(Tail(q)), i < j, Tail(q)[i] = a
      PROVE  Tail(q)[j] # b
    <2>1. i + 1 \in 1..Len(q) /\ j + 1 \in 1..Len(q) /\ q[i + 1] = a /\ q[j + 1] = Tail(q)[j]
        BY <1>1, TailIndices
    <2>2. QED
        BY <1>1, <2>1 DEF Parted
<1>2. ASSUME Head(q) = a, NEW j \in 1..Len(Tail(q))
      PROVE  Tail(q)[j] # b
    <2>1. 1 \in 1..Len(q) /\ j + 1 \in 1..Len(q) /\ q[1] = a /\ q[j + 1] = Tail(q)[j]
        BY <1>2, TailIndices
    <2>2. QED
        BY <1>2, <2>1 DEF Parted
<1>3. QED
    BY <1>1, <1>2 DEF Parted, Contains

LEMMA PartedJoined ==
    ASSUME NEW S, NEW q \in Seq(S), NEW t \in Seq(S), NEW a, NEW b,
           Parted(q, a, b), Parted(t, a, b), ~Contains(q, a) \/ ~Contains(t, b)
    PROVE  Parted(q \o t, a, b)
<1> SUFFICES ASSUME NEW i \in 1..Len(q \o t), NEW j \in 1..Len(q \o t), i < j,
                    (q \o t)[i] = a, (q \o t)[j] = b
             PROVE  FALSE
    BY DEF Parted
<1>1. CASE j \in 1..Len(q)
    <2>1. i \in 1..Len(q) /\ q[i] = a /\ q[j] = b
        BY <1>1, JoinedIndices
    <2>2. QED
        BY <1>1, <2>1 DEF Parted
<1>2. CASE i \notin 1..Len(q)
    <2>1. /\ i - Len(q) \in 1..Len(t) /\ j - Len(q) \in 1..Len(t) /\ i - Len(q) < j - Len(q)
          /\ t[i - Len(q)] = a /\ t[j - Len(q)] = b
        BY <1>2, JoinedIndices
    <2>2. QED
        BY <2>1 DEF Parted
<1>3. CASE i \in 1..Len(q) /\ j \notin 1..Len(q)
    <2>1. q[i] = a /\ j - Len(q) \in 1..Len(t) /\ t[j - Len(q)] = b
        BY <1>3, JoinedIndices
    <2>2. QED
        BY <1>3, <2>1 DEF Contains
<1>4. QED
    BY <1>1, <1>2, <1>3

LEMMA OneMessage ==
    ASSUME NEW m, NEW a, NEW b
    PROVE  /\ Contains(<<m>>, a) <=> a = m
           /\ Parted(<<m>>, a, b)
    BY DEF Contains, Parted

LEMMA TwoMessages ==
    ASSUME NEW m, NEW n, NEW a
    PROVE  Contains(<<m, n>>, a) <=> a = m \/ a = n
    BY DEF Contains

LEMMA ThreeMessages ==
    ASSUME NEW m, NEW n, NEW p, NEW a
    PROVE  Contains(<<m, n, p>>, a) <=> a = m \/ a = n \/ a = p
    BY DEF Contains

\* The elements of a finite set, in some order.
LEMMA SetToSeqType ==
    ASSUME NEW S, IsFiniteSet(S)
    PROVE  /\ SetToSeq(S) \in Seq(S)
           /\ \A a : Contains(SetToSeq(S), a) => a \in S
<1>1. Cardinality(S) \in Nat /\ \E f \in [1..Cardinality(S) -> S] : IsInjective(f)
    BY FS_CardinalityType DEF ExistsBijection, Bijection, Injection
<1>2. SetToSeq(S) \in [1..Cardinality(S) -> S]
    BY <1>1 DEF SetToSeq
<1>3. SetToSeq(S) \in Seq(S) /\ Len(SetToSeq(S)) = Cardinality(S)
    BY <1>1, <1>2
<1>4. QED
    BY <1>2, <1>3 DEF Contains

-----------------------------------------------------------------------------
\* Messages and feedbacks.

LEMMA MessageFacts ==
    ASSUME NEW type, NEW n
    PROVE  /\ Asking(type, n).type = type /\ Asking(type, n).number = n
           /\ \A other, m : Asking(type, n) = Asking(other, m) => type = other /\ n = m
           /\ \A born : /\ Announcement(n, born).type = "toplevel"
                        /\ Announcement(n, born).number = n
                        /\ Announcement(n, born).born = born
    BY DEF Asking, Announcement

LEMMA Bounds ==
    /\ MaxFeedbacks \in Nat /\ MaxLaunches \in Nat /\ MaxWindows \in Nat
    /\ Minimum \in Nat \ {0} /\ Timeout \in Nat \ {0}
    BY FeedbackAssumption

LEMMA ShownFacts ==
    ASSUME TypeOK
    PROVE  /\ Shown <=> feedback \in FeedbackType
           /\ Shown => feedback.number \in Numbers /\ feedback.number # 0
           /\ ~Shown => feedback = NoFeedback /\ feedback.number = 0
           /\ 0 \notin Numbers /\ Numbers \subseteq Nat
<1>1. NoFeedback.number = 0 /\ 0 \notin Numbers /\ Numbers \subseteq Nat
    BY FeedbackAssumption DEF NoFeedback, Numbers
<1>2. \A f \in FeedbackType : f.number \in Numbers
    BY DEF FeedbackType
<1>3. QED
    BY <1>1, <1>2 DEF TypeOK, Shown

LEMMA RequestFacts ==
    ASSUME NEW q \in Seq(Request)
    PROVE  \A i \in 1..Len(q) : q[i].number \in Numbers /\ q[i].number \in Nat
<1>1. \A r \in Request : r.number \in Numbers
    BY DEF Request
<1>2. \A i \in 1..Len(q) : q[i] \in Request
    OBVIOUS
<1>3. QED
    BY <1>1, <1>2, Bounds DEF Numbers

LEMMA EventFacts ==
    ASSUME NEW q \in Seq(Event)
    PROVE  \A i \in 1..Len(q) : q[i].number \in Numbers /\ q[i].number \in Nat
<1>1. \A r \in Event : r.number \in Numbers
    BY DEF Event
<1>2. \A i \in 1..Len(q) : q[i] \in Event
    OBVIOUS
<1>3. QED
    BY <1>1, <1>2, Bounds DEF Numbers

LEMMA RequestTypes ==
    ASSUME NEW n \in Numbers
    PROVE  /\ Asking("surface", n) \in Request /\ Asking("bind", n) \in Request
           /\ Asking("sync", n) \in Request /\ Asking("stop", n) \in Request
           /\ Asking("destroy", n) \in Request
    BY DEF Asking, Request

\* Sending adds only the numbers of what is sent.
LEMMA NumbersJoined ==
    ASSUME NEW S, NEW q \in Seq(S), NEW t \in Seq(S), NEW k \in Nat,
           \A i \in 1..Len(q) : q[i].number <= k,
           \A i \in 1..Len(t) : t[i].number <= k
    PROVE  \A i \in 1..Len(q \o t) : (q \o t)[i].number <= k
    BY JoinedIndices

LEMMA NumbersReceived ==
    ASSUME NEW S, NEW q \in Seq(S), q # <<>>, NEW k \in Nat,
           \A i \in 1..Len(q) : q[i].number <= k
    PROVE  /\ Head(q).number <= k
           /\ \A i \in 1..Len(Tail(q)) : Tail(q)[i].number <= k
<1>1. 1 \in 1..Len(q)
    BY TailIndices
<1>2. Head(q).number <= k
    BY <1>1, TailIndices
<1>3. ASSUME NEW i \in 1..Len(Tail(q))
      PROVE  Tail(q)[i].number <= k
    <2>1. i + 1 \in 1..Len(q) /\ Tail(q)[i] = q[i + 1]
        BY TailIndices
    <2>2. QED
        BY <2>1
<1>4. QED
    BY <1>2, <1>3

LEMMA DrawnFacts ==
    ASSUME NEW f \in FeedbackType
    PROVE  /\ Drawn(f) \in FeedbackType
           /\ Drawn(f).number = f.number /\ Drawn(f).list = f.list
           /\ Drawn(f).configured = f.configured /\ Drawn(f).elapsed = f.elapsed
           /\ Drawn(f).listening = f.listening /\ Drawn(f).appeared = f.appeared
           /\ Drawn(f).painted => f.painted \/ f.configured
    BY DEF Drawn, FeedbackType

\* A feedback not yet created has nothing under way.
LEMMA NotIssued ==
    ASSUME TypeOK, Issued, NEW n \in Nat, n > created
    PROVE  /\ \A type : /\ ~Contains(toCompositor, Asking(type, n))
                        /\ ~Contains(toDaemon, Asking(type, n))
           /\ \A born : ~Contains(toDaemon, Announcement(n, born))
<1>1. created \in Nat
    BY Bounds DEF TypeOK
<1>2. ASSUME NEW m, m.number = n
      PROVE  ~Contains(toCompositor, m) /\ ~Contains(toDaemon, m)
    <2>1. \A i \in 1..Len(toCompositor) : toCompositor[i] # m
        BY <1>1, <1>2 DEF Issued
    <2>2. \A i \in 1..Len(toDaemon) : toDaemon[i] # m
        BY <1>1, <1>2 DEF Issued
    <2>3. QED
        BY <2>1, <2>2 DEF Contains
<1>3. QED
    BY <1>2, MessageFacts

\* The type TypeOK gives history.
HistoryType ==
    [steps: 0..Timeout, launch: 0..MaxLaunches,
     callback: 0..MaxFeedbacks, counted: SUBSET (0..MaxLaunches)]

LEMMA HistoryFields ==
    ASSUME NEW h \in HistoryType
    PROVE  /\ h.steps \in 0..Timeout /\ h.launch \in 0..MaxLaunches
           /\ h.callback \in 0..MaxFeedbacks /\ h.counted \subseteq 0..MaxLaunches
           /\ h = [steps |-> h.steps, launch |-> h.launch,
                   callback |-> h.callback, counted |-> h.counted]
    BY DEF HistoryType

LEMMA InitIInv == Init => IInv
<1> SUFFICES ASSUME Init PROVE IInv
    OBVIOUS
<1>1. TypeOK
    <2>1. <<>> \in Seq(0..MaxLaunches) /\ <<0>> \in Seq(0..MaxLaunches)
        BY Bounds
    <2>2. history \in [steps: 0..Timeout, launch: 0..MaxLaunches,
                       callback: 0..MaxFeedbacks, counted: SUBSET (0..MaxLaunches)]
        BY Bounds DEF Init, NoHistory
    <2>3. toCompositor \in Seq(Request) /\ toDaemon \in Seq(Event)
        BY DEF Init
    <2>4. windows \in Seq(0..MaxLaunches)
        BY <2>1, Zenon DEF Init
    <2>5. /\ feedback \in FeedbackType \cup {NoFeedback}
          /\ timers \subseteq Numbers /\ surfaces \subseteq Numbers /\ lists \subseteq Numbers
        BY DEF Init
    <2>6. launches \in 0..MaxLaunches /\ created \in 0..MaxFeedbacks
        BY Bounds DEF Init
    <2>7. QED
        BY <2>2, <2>3, <2>4, <2>5, <2>6 DEF TypeOK
<1>2. ~Shown /\ toCompositor = <<>> /\ toDaemon = <<>>
    BY DEF Init, Shown
<1>3. Issued /\ OwnList /\ ConfiguredOnce /\ HistoryHolds /\ CallbackSeparates
    BY <1>2 DEF Init, Issued, OwnList, ConfiguredOnce, HistoryHolds, CallbackSeparates
<1>4. Released /\ NothingLeaks
    BY <1>2 DEF Init, Released, NothingLeaks, Followed
<1>5. OwnCallbackCountsNewWindows
    BY DEF Init, NoHistory, OwnCallbackCountsNewWindows, CountedWindowsAreNew
<1>6. QED
    BY <1>1, <1>3, <1>4, <1>5 DEF IInv

-----------------------------------------------------------------------------
\* The daemon's operations.

LEMMA RefreshInv ==
    ASSUME IInv, StartFeedback, Refresh
    PROVE  IInv'
<1>1. /\ TypeOK /\ Shown /\ feedback \in FeedbackType /\ history \in HistoryType
      /\ launches \in Nat /\ launches' = launches + 1 /\ launches' \in 0..MaxLaunches
      /\ UNCHANGED <<timers, toCompositor, created, toDaemon, surfaces, lists, windows>>
    BY ShownFacts, Bounds DEF IInv, Refresh, StartFeedback, TypeOK, HistoryType
<1>2. PICK f : /\ f = [feedback EXCEPT !.elapsed = 0, !.appeared = FALSE]
               /\ feedback' = Drawn(f)
    BY DEF Refresh
<1>3. f \in FeedbackType
    <2>1. 0 \in 0..(Timeout - 1)
        BY Bounds
    <2>2. QED
        BY <1>1, <1>2, <2>1 DEF FeedbackType
<1>4. /\ f.number = feedback.number /\ f.list = feedback.list
      /\ f.configured = feedback.configured /\ f.painted = feedback.painted
      /\ f.listening = feedback.listening /\ f.elapsed = 0 /\ f.appeared = FALSE
    BY <1>1, <1>2 DEF FeedbackType
<1>5. /\ feedback' \in FeedbackType /\ feedback'.number = feedback.number
      /\ feedback'.list = feedback.list /\ feedback'.configured = feedback.configured
      /\ feedback'.painted => feedback.painted \/ feedback.configured
      /\ feedback'.listening = feedback.listening
      /\ feedback'.elapsed = 0 /\ feedback'.appeared = FALSE
    BY <1>2, <1>3, <1>4, DrawnFacts
<1>6. history' = [steps |-> 0, launch |-> history.launch,
                  callback |-> history.callback, counted |-> {}]
    BY <1>1 DEF Refresh, HistoryType
<1>7. history' \in HistoryType
    BY <1>1, <1>6, HistoryFields, Bounds DEF HistoryType
<1>8. TypeOK'
    BY <1>1, <1>5, <1>7 DEF TypeOK, HistoryType
<1>9. Shown'
    BY <1>5, <1>1, ShownFacts DEF Shown, NoFeedback
<1>10. Issued' /\ OwnList' /\ Released' /\ NothingLeaks'
    BY <1>1, <1>5, <1>9 DEF IInv, Issued, OwnList, Released, NothingLeaks
<1>11. ConfiguredOnce'
    BY <1>1, <1>5, <1>9 DEF IInv, ConfiguredOnce
<1>12. HistoryHolds'
    BY <1>1, <1>5, <1>6, <1>9, HistoryFields, Bounds DEF IInv, HistoryHolds
<1>13. CallbackSeparates' /\ OwnCallbackCountsNewWindows'
    BY <1>1, <1>5, <1>6, <1>9
    DEF IInv, CallbackSeparates, OwnCallbackCountsNewWindows, CountedWindowsAreNew
<1>14. QED
    BY <1>8, <1>10, <1>11, <1>12, <1>13 DEF IInv

LEMMA CreateInv ==
    ASSUME IInv, StartFeedback, Create
    PROVE  IInv'
<1> DEFINE n == created + 1
<1>1. /\ TypeOK /\ ~Shown /\ feedback.number = 0 /\ history = NoHistory
      /\ n \in Numbers /\ n \in Nat \ {0} /\ created' = n /\ created \in Nat /\ created' \in 0..MaxFeedbacks
      /\ launches \in Nat /\ launches' = launches + 1 /\ launches' \in 0..MaxLaunches
      /\ timers = {}
      /\ UNCHANGED <<toDaemon, surfaces, lists, windows>>
    <2>1. TypeOK /\ ~Shown /\ feedback.number = 0
        BY ShownFacts DEF IInv, Create
    <2>2. history = NoHistory
        BY <2>1 DEF IInv, HistoryHolds
    <2>3. created \in Nat /\ created < MaxFeedbacks /\ launches \in Nat /\ launches < MaxLaunches
        BY <2>1, Bounds DEF Create, StartFeedback, TypeOK
    <2>4. timers = {}
        BY <2>1, ShownFacts DEF IInv, NothingLeaks, TypeOK
    <2>5. created' = created + 1 /\ launches' = launches + 1
          /\ UNCHANGED <<toDaemon, surfaces, lists, windows>>
        BY DEF Create, StartFeedback
    <2>6. QED
        BY <2>1, <2>2, <2>3, <2>4, <2>5, Bounds DEF Numbers
<1>2. PICK bound \in BOOLEAN, ticking \in BOOLEAN :
         /\ feedback' = [number |-> n, configured |-> FALSE, painted |-> FALSE, elapsed |-> 0,
                         list |-> IF bound THEN n ELSE NoList,
                         listening |-> FALSE, appeared |-> FALSE]
         /\ Send(<<Asking("surface", n)>>
                   \o IF bound THEN <<Asking("bind", n), Asking("sync", n)>> ELSE <<>>)
         /\ timers' = IF ticking THEN timers \cup {n} ELSE timers
    BY DEF Create
<1>3. history' = [steps |-> 0, launch |-> launches + 1, callback |-> 0, counted |-> {}]
    BY DEF Create, NoHistory
<1> HIDE DEF n
<1>4. PICK first \in Seq(Request), rest \in Seq(Request), t \in Seq(Request) :
         /\ toCompositor' = toCompositor \o t
         /\ t = first \o rest
         /\ first = <<Asking("surface", n)>>
         /\ rest = IF bound THEN <<Asking("bind", n), Asking("sync", n)>> ELSE <<>>
    <2>1. /\ <<Asking("surface", n)>> \in Seq(Request)
          /\ <<Asking("bind", n), Asking("sync", n)>> \in Seq(Request)
          /\ <<>> \in Seq(Request)
        BY <1>1, RequestTypes
    <2>2. <<Asking("surface", n)>> \o
             (IF bound THEN <<Asking("bind", n), Asking("sync", n)>> ELSE <<>>) \in Seq(Request)
        BY <2>1
    <2>3. QED
        BY <1>2, <2>1, <2>2 DEF Send
<1>5. /\ feedback'.number = n /\ feedback'.list = (IF bound THEN n ELSE NoList)
      /\ ~feedback'.configured /\ ~feedback'.painted /\ ~feedback'.listening
      /\ ~feedback'.appeared /\ feedback'.elapsed = 0
    BY <1>2
<1>6. feedback' \in FeedbackType
    <2>1. 0 \in 0..(Timeout - 1) /\ (IF bound THEN n ELSE NoList) \in Numbers \cup {NoList}
        BY <1>1, Bounds
    <2>2. QED
        BY <1>1, <1>2, <2>1 DEF FeedbackType
<1>7. /\ \A a : Contains(t, a) <=> Contains(first, a) \/ Contains(rest, a)
      /\ \A a : Contains(first, a) <=> a = Asking("surface", n)
      /\ \A a : Contains(rest, a) <=>
               bound /\ (a = Asking("bind", n) \/ a = Asking("sync", n))
    <2>1. \A a : Contains(first \o rest, a) <=> Contains(first, a) \/ Contains(rest, a)
        BY ContainsJoined
    <2>2. \A a : Contains(first, a) <=> a = Asking("surface", n)
        BY <1>4, OneMessage
    <2>3. CASE bound
        <3>1. \A a : Contains(<<Asking("bind", n), Asking("sync", n)>>, a) <=>
                      a = Asking("bind", n) \/ a = Asking("sync", n)
            BY TwoMessages
        <3>2. rest = <<Asking("bind", n), Asking("sync", n)>> /\ t = first \o rest
            BY <1>4, <2>3
        <3>3. QED
            BY <2>1, <2>2, <2>3, <3>1, <3>2
    <2>4. CASE ~bound
        <3>1. \A a : ~Contains(rest, a)
            BY <1>4, <2>4 DEF Contains
        <3>2. QED
            BY <1>4, <2>1, <2>2, <2>4, <3>1
    <2>5. QED
        BY <2>3, <2>4
<1>8. TypeOK'
    <2>1. toCompositor' \in Seq(Request)
        BY <1>1, <1>4, JoinedIndices DEF TypeOK
    <2>2. history' \in HistoryType
        BY <1>1, <1>3, Bounds DEF HistoryType
    <2>3. timers' \subseteq Numbers
        BY <1>1, <1>2
    <2>4. QED
        BY <1>1, <1>6, <2>1, <2>2, <2>3 DEF TypeOK, HistoryType
<1>9. Shown'
    BY <1>1, <1>5, <1>8, ShownFacts DEF Shown, NoFeedback
<1>10. toCompositor \in Seq(Request) /\ n \in Nat /\ n > created
    BY <1>1 DEF TypeOK, n
<1>11. /\ \A a : Contains(toCompositor', a) <=> Contains(toCompositor, a) \/ Contains(t, a)
       /\ \A type : ~Contains(toCompositor, Asking(type, n)) /\ ~Contains(toDaemon, Asking(type, n))
       /\ \A born : ~Contains(toDaemon, Announcement(n, born))
    <2>1. \A a : Contains(toCompositor \o t, a) <=> Contains(toCompositor, a) \/ Contains(t, a)
        BY <1>10, ContainsJoined
    <2>2. QED
        BY <1>1, <1>4, <1>10, <2>1, NotIssued DEF IInv
<1>12. \A m, type : m # n => ~Contains(t, Asking(type, m))
    BY <1>7, MessageFacts
<1>13. /\ Contains(t, Asking("bind", n)) => bound
       /\ ~bound => ~Contains(t, Asking("bind", n))
       /\ Parted(t, Asking("sync", n), Asking("bind", n))
       /\ Parted(t, Asking("surface", n), Asking("surface", n))
    <2>1. /\ Asking("surface", n) # Asking("bind", n) /\ Asking("sync", n) # Asking("bind", n)
          /\ Asking("surface", n) # Asking("sync", n)
        BY MessageFacts
    <2>2. Parted(first, Asking("sync", n), Asking("bind", n))
          /\ Parted(first, Asking("surface", n), Asking("surface", n))
        BY <1>4, OneMessage
    <2>3. Parted(rest, Asking("sync", n), Asking("bind", n))
          /\ Parted(rest, Asking("surface", n), Asking("surface", n))
        BY <1>4, <2>1 DEF Parted
    <2>4. Parted(first \o rest, Asking("sync", n), Asking("bind", n))
          /\ Parted(first \o rest, Asking("surface", n), Asking("surface", n))
        BY <1>7, <2>1, <2>2, <2>3, PartedJoined
    <2>5. QED
        BY <1>4, <1>7, <2>1, <2>4
<1>14. Issued'
    <2>1. ASSUME NEW i \in 1..Len(toCompositor)
          PROVE  toCompositor[i].number <= n
        <3>1. toCompositor[i].number <= created /\ toCompositor[i].number \in Nat
            BY <1>10, RequestFacts DEF IInv, Issued
        <3>2. QED
            BY <1>1, <3>1 DEF n
    <2>2. ASSUME NEW i \in 1..Len(toDaemon)
          PROVE  toDaemon[i].number <= n
        <3>1. toDaemon[i].number <= created /\ toDaemon[i].number \in Nat
            BY <1>1, EventFacts DEF IInv, Issued, TypeOK
        <3>2. QED
            BY <1>1, <3>1 DEF n
    <2>3. ASSUME NEW m \in surfaces \cup lists
          PROVE  m <= n
        <3>1. m \in Nat /\ m <= created
            BY <1>1, ShownFacts DEF IInv, Issued, TypeOK
        <3>2. QED
            BY <1>1, <3>1 DEF n
    <2>4. \A i \in 1..Len(toCompositor') : toCompositor'[i].number <= n
        <3>1. n \in Nat /\ \A i \in 1..Len(t) : t[i].number <= n
            <4>1. ASSUME NEW i \in 1..Len(t)
                  PROVE  t[i].number = n
                <5>1. Contains(t, t[i])
                    BY DEF Contains
                <5>2. QED
                    BY <1>7, <5>1, MessageFacts
            <4>2. QED
                BY <1>1, <4>1
        <3>2. \A i \in 1..Len(toCompositor \o t) : (toCompositor \o t)[i].number <= n
            BY <1>10, <2>1, <3>1, NumbersJoined
        <3>3. QED
            BY <1>4, <3>2
    <2>5. created' = n /\ toDaemon' = toDaemon /\ surfaces' = surfaces /\ lists' = lists
          /\ feedback'.number <= n
        BY <1>1, <1>5
    <2>6. QED
        BY <2>2, <2>3, <2>4, <2>5 DEF Issued
<1>15. OwnList'
    <2>1. ~bound => ~Contains(toCompositor', Asking("bind", n))
        BY <1>11, <1>13
    <2>2. n \notin lists
        BY <1>1, <1>10 DEF IInv, Issued
    <2>3. QED
        BY <1>1, <1>5, <2>1, <2>2 DEF OwnList
<1>16. Released' /\ NothingLeaks'
    <2>1. ASSUME NEW m \in Numbers \ {n}
          PROVE  /\ Followed(toCompositor', Asking("bind", m), Asking("stop", m))
                 /\ Followed(toCompositor', Asking("surface", m), Asking("destroy", m))
        <3>1. /\ Followed(toCompositor, Asking("bind", m), Asking("stop", m))
              /\ Followed(toCompositor, Asking("surface", m), Asking("destroy", m))
            BY <1>1, ShownFacts DEF IInv, Released
        <3>2. ~Contains(t, Asking("bind", m)) /\ ~Contains(t, Asking("surface", m))
            BY <1>12
        <3>3. QED
            BY <1>4, <1>10, <3>1, <3>2, FollowedJoined
    <2>2. ASSUME NEW m \in lists
          PROVE  Contains(toCompositor', Asking("stop", m))
        <3>1. Contains(toCompositor, Asking("stop", m))
            BY <1>1, ShownFacts DEF IInv, NothingLeaks, TypeOK
        <3>2. QED
            BY <1>11, <3>1
    <2>3. ASSUME NEW m \in surfaces
          PROVE  Contains(toCompositor', Asking("destroy", m))
        <3>1. Contains(toCompositor, Asking("destroy", m))
            BY <1>1, ShownFacts DEF IInv, NothingLeaks, TypeOK
        <3>2. QED
            BY <1>11, <3>1
    <2>4. timers' \subseteq {n}
        BY <1>1, <1>2
    <2>5. QED
        BY <1>1, <1>5, <2>1, <2>2, <2>3, <2>4 DEF Released, NothingLeaks
<1>17. ConfiguredOnce'
    <2>1. Parted(toCompositor', Asking("surface", n), Asking("surface", n))
        BY <1>4, <1>10, <1>11, <1>13, FollowedAbsent, PartedJoined
    <2>2. Parted(toDaemon, Asking("configure", n), Asking("configure", n))
        BY <1>11, FollowedAbsent
    <2>3. QED
        BY <1>1, <1>5, <1>11, <2>1, <2>2 DEF ConfiguredOnce
<1>18. HistoryHolds'
    BY <1>1, <1>3, <1>5, <1>9 DEF HistoryHolds
<1>19. CallbackSeparates' /\ OwnCallbackCountsNewWindows'
    <2>1. Parted(toCompositor', Asking("sync", n), Asking("bind", n))
        BY <1>4, <1>10, <1>11, <1>13, FollowedAbsent, PartedJoined
    <2>2. \A born : Parted(toDaemon, Asking("done", n), Announcement(n, born))
        BY <1>11, FollowedAbsent
    <2>3. history'.callback # n /\ history'.counted = {}
        BY <1>1, <1>3
    <2>4. QED
        BY <1>1, <1>5, <1>11, <2>1, <2>2, <2>3
        DEF CallbackSeparates, OwnCallbackCountsNewWindows, CountedWindowsAreNew
<1>20. QED
    BY <1>8, <1>14, <1>15, <1>16, <1>17, <1>18, <1>19 DEF IInv

\* end_feedback() asks for the release of what the feedback asked for.
LEMMA EndInv ==
    ASSUME IInv, Shown, EndFeedback,
           UNCHANGED <<surfaces, lists, windows, launches, created>>,
           toDaemon' \in Seq(Event),
           \A i \in 1..Len(toDaemon') : toDaemon'[i].number <= created
    PROVE  IInv'
<1> DEFINE n == feedback.number
<1>1. /\ TypeOK /\ n \in Numbers /\ n # 0 /\ feedback' = NoFeedback /\ feedback'.number = 0
      /\ ~Shown' /\ history' = NoHistory /\ timers' = timers \ {n}
      /\ toCompositor \in Seq(Request) /\ 0 \notin Numbers
      /\ n \in Nat /\ created \in Nat /\ n <= created
    BY ShownFacts, Bounds DEF IInv, EndFeedback, Shown, NoFeedback, TypeOK, Issued
<1> HIDE DEF n
<1>2. PICK t \in Seq(Request) :
         /\ toCompositor' = toCompositor \o t
         /\ t = IF feedback.list = NoList THEN <<Asking("destroy", n)>>
                ELSE <<Asking("stop", n), Asking("destroy", n)>>
    <2>1. Asking("stop", n) \in Request /\ Asking("destroy", n) \in Request
        BY <1>1, RequestTypes
    <2>2. /\ <<Asking("destroy", n)>> \in Seq(Request)
          /\ <<Asking("stop", n), Asking("destroy", n)>> \in Seq(Request)
        BY <2>1
    <2>3. QED
        BY <2>2 DEF EndFeedback, Send, n
<1>3. /\ Contains(t, Asking("destroy", n))
      /\ feedback.list = NoList \/ Contains(t, Asking("stop", n))
      /\ \A i \in 1..Len(t) : t[i].number = n
      /\ \A i \in 1..Len(t) : t[i].type \in {"stop", "destroy"}
    <2>1. CASE feedback.list = NoList
        BY <1>2, <2>1, MessageFacts DEF Contains
    <2>2. CASE feedback.list # NoList
        BY <1>2, <2>2, MessageFacts DEF Contains
    <2>3. QED
        BY <2>1, <2>2
<1>4. \A m : ~Contains(t, Asking("bind", m)) /\ ~Contains(t, Asking("surface", m))
    BY <1>3, MessageFacts DEF Contains
<1>5. \A a : Contains(toCompositor', a) <=> Contains(toCompositor, a) \/ Contains(t, a)
    <2>1. \A a : Contains(toCompositor \o t, a) <=> Contains(toCompositor, a) \/ Contains(t, a)
        BY <1>1, ContainsJoined
    <2>2. QED
        BY <1>2, <2>1
<1>6. TypeOK'
    <2>1. toCompositor' \in Seq(Request)
        BY <1>1, <1>2, JoinedIndices
    <2>2. history' \in HistoryType
        BY <1>1, Bounds DEF HistoryType, NoHistory
    <2>3. QED
        BY <1>1, <2>1, <2>2 DEF TypeOK, HistoryType
<1>7. Issued'
    <2>1. \A i \in 1..Len(toCompositor) : toCompositor[i].number <= created
        BY DEF IInv, Issued
    <2>2. \A i \in 1..Len(t) : t[i].number <= created
        BY <1>1, <1>3
    <2>3. \A i \in 1..Len(toCompositor') : toCompositor'[i].number <= created
        BY <1>1, <1>2, <2>1, <2>2, NumbersJoined
    <2>4. QED
        BY <1>1, <2>3 DEF IInv, Issued
<1>8. Released'
    <2>1. ASSUME NEW m \in Numbers
          PROVE  Followed(toCompositor', Asking("surface", m), Asking("destroy", m))
        BY <1>1, <1>2, <1>3, <1>4, FollowedJoined DEF IInv, Released, n
    <2>2. ASSUME NEW m \in Numbers \ {n}
          PROVE  Followed(toCompositor', Asking("bind", m), Asking("stop", m))
        BY <1>1, <1>2, <1>4, FollowedJoined DEF IInv, Released, n
    <2>3. Followed(toCompositor', Asking("bind", n), Asking("stop", n))
        <3>1. CASE feedback.list = NoList
            <4>1. ~Contains(toCompositor, Asking("bind", n))
                BY <1>1, <3>1 DEF IInv, OwnList, NoList, n
            <4>2. ~Contains(toCompositor', Asking("bind", n))
                BY <1>5, <1>4, <4>1
            <4>3. QED
                BY <4>2, FollowedAbsent
        <3>2. CASE feedback.list # NoList
            BY <1>1, <1>2, <1>3, <1>4, <3>2, FollowedJoined
        <3>3. QED
            BY <3>1, <3>2
    <2>4. QED
        BY <1>1, <2>1, <2>2, <2>3 DEF Released
<1>9. NothingLeaks'
    <2>1. ASSUME NEW m \in lists
          PROVE  Contains(toCompositor', Asking("stop", m))
        <3>1. CASE m = n
            <4>1. feedback.list # NoList
                BY <1>1, <3>1 DEF IInv, OwnList, NoList, n
            <4>2. Contains(t, Asking("stop", m))
                BY <1>3, <3>1, <4>1
            <4>3. QED
                BY <1>5, <4>2
        <3>2. CASE m # n
            <4>1. Contains(toCompositor, Asking("stop", m))
                BY <3>2 DEF IInv, NothingLeaks, n
            <4>2. QED
                BY <1>5, <4>1
        <3>3. QED
            BY <3>1, <3>2
    <2>2. ASSUME NEW m \in surfaces
          PROVE  Contains(toCompositor', Asking("destroy", m))
        <3>1. Contains(toCompositor, Asking("destroy", m)) \/ Contains(t, Asking("destroy", m))
            BY <1>3 DEF IInv, NothingLeaks, n
        <3>2. QED
            BY <1>5, <3>1
    <2>3. timers' = {}
        BY <1>1 DEF IInv, NothingLeaks, n
    <2>4. QED
        BY <2>1, <2>2, <2>3 DEF NothingLeaks
<1>10. OwnList' /\ ConfiguredOnce' /\ HistoryHolds' /\ CallbackSeparates'
    BY <1>1 DEF OwnList, ConfiguredOnce, HistoryHolds, CallbackSeparates
<1>11. OwnCallbackCountsNewWindows'
    BY <1>1 DEF OwnCallbackCountsNewWindows, CountedWindowsAreNew, NoHistory
<1>12. QED
    BY <1>6, <1>7, <1>8, <1>9, <1>10, <1>11 DEF IInv

LEMMA SupersededInv == IInv /\ Superseded => IInv'
<1> SUFFICES ASSUME IInv, Superseded PROVE IInv'
    OBVIOUS
<1>1. Shown /\ EndFeedback /\ UNCHANGED <<toDaemon, surfaces, lists, windows, launches, created>>
    BY DEF Superseded
<1>2. toDaemon' \in Seq(Event) /\ \A i \in 1..Len(toDaemon') : toDaemon'[i].number <= created
    BY <1>1 DEF IInv, TypeOK, Issued
<1>3. QED
    BY <1>1, <1>2, EndInv

LEMMA TickInv ==
    ASSUME IInv, NEW n \in Numbers, Tick(n)
    PROVE  IInv'
<1>1. /\ TypeOK /\ history \in HistoryType
      /\ UNCHANGED <<toDaemon, surfaces, lists, windows, launches, created>>
    BY DEF IInv, Tick, TypeOK, HistoryType
<1>2. CASE ~Shown
    <2>1. timers' = timers \ {n} /\ UNCHANGED <<feedback, toCompositor, history>>
        BY <1>2 DEF Tick
    <2>2. TypeOK' /\ NothingLeaks'
        BY <1>1, <2>1 DEF IInv, TypeOK, NothingLeaks
    <2>3. Shown' = Shown
        BY <2>1 DEF Shown
    <2>4. Issued' /\ OwnList' /\ Released' /\ ConfiguredOnce'
        BY <1>1, <2>1, <2>3 DEF IInv, Issued, OwnList, Released, ConfiguredOnce
    <2>5. HistoryHolds' /\ CallbackSeparates' /\ OwnCallbackCountsNewWindows'
        BY <1>1, <2>1, <2>3 DEF IInv, HistoryHolds, CallbackSeparates,
                                OwnCallbackCountsNewWindows, CountedWindowsAreNew
    <2>6. QED
        BY <2>2, <2>4, <2>5 DEF IInv
<1>3. CASE Shown /\ EndFeedback
    <2>1. toDaemon' \in Seq(Event) /\ \A i \in 1..Len(toDaemon') : toDaemon'[i].number <= created
        BY <1>1 DEF IInv, TypeOK, Issued
    <2>2. QED
        BY <1>1, <1>3, <2>1, EndInv
<1>4. CASE Shown /\ ~EndFeedback
    <2>1. PICK e : /\ e = feedback.elapsed + 1
                   /\ ~(e >= Timeout)
                   /\ feedback' = Drawn([feedback EXCEPT !.elapsed = e])
                   /\ history' = [history EXCEPT !.steps = @ + 1]
                   /\ UNCHANGED <<timers, toCompositor>>
        BY <1>4 DEF Tick
    <2>2. feedback \in FeedbackType /\ feedback.elapsed \in 0..(Timeout - 1)
        BY <1>1, <1>4, ShownFacts DEF FeedbackType
    <2>3. e \in 0..(Timeout - 1) /\ e \in 0..Timeout
        BY <2>1, <2>2, Bounds
    <2>4. PICK f : f = [feedback EXCEPT !.elapsed = e]
        OBVIOUS
    <2>5. f \in FeedbackType
        BY <2>2, <2>3, <2>4 DEF FeedbackType
    <2>6. /\ f.number = feedback.number /\ f.list = feedback.list
          /\ f.configured = feedback.configured /\ f.painted = feedback.painted
          /\ f.listening = feedback.listening /\ f.elapsed = e /\ f.appeared = feedback.appeared
        BY <2>2, <2>4 DEF FeedbackType
    <2>7. /\ feedback' \in FeedbackType /\ feedback'.number = feedback.number
          /\ feedback'.list = feedback.list /\ feedback'.configured = feedback.configured
          /\ feedback'.painted => feedback.painted \/ feedback.configured
          /\ feedback'.listening = feedback.listening
          /\ feedback'.elapsed = e /\ feedback'.appeared = feedback.appeared
        BY <2>1, <2>4, <2>5, <2>6, DrawnFacts
    <2>8. history.steps = feedback.elapsed
        BY <1>4 DEF IInv, HistoryHolds
    <2>9. history' = [steps |-> e, launch |-> history.launch,
                      callback |-> history.callback, counted |-> history.counted]
        BY <1>1, <2>1, <2>8 DEF HistoryType
    <2>10. history' \in HistoryType
        BY <1>1, <2>3, <2>9, HistoryFields DEF HistoryType
    <2>11. TypeOK'
        BY <1>1, <2>1, <2>7, <2>10 DEF TypeOK, HistoryType
    <2>12. Shown'
        BY <1>1, <1>4, <2>7, ShownFacts DEF Shown, NoFeedback
    <2>13. Issued' /\ OwnList' /\ Released' /\ NothingLeaks'
        BY <1>1, <1>4, <2>1, <2>7, <2>12 DEF IInv, Issued, OwnList, Released, NothingLeaks
    <2>14. ConfiguredOnce'
        BY <1>1, <1>4, <2>1, <2>7, <2>12 DEF IInv, ConfiguredOnce
    <2>15. HistoryHolds'
        BY <1>1, <1>4, <2>1, <2>7, <2>9, <2>12 DEF IInv, HistoryHolds
    <2>16. CallbackSeparates' /\ OwnCallbackCountsNewWindows'
        BY <1>1, <1>4, <2>1, <2>7, <2>9, <2>12
        DEF IInv, CallbackSeparates, OwnCallbackCountsNewWindows, CountedWindowsAreNew
    <2>17. QED
        BY <2>11, <2>13, <2>14, <2>15, <2>16 DEF IInv
<1>5. QED
    BY <1>2, <1>3, <1>4

-----------------------------------------------------------------------------
\* Events that arrive.

LEMMA AnnouncementFacts ==
    ASSUME NEW n, NEW born
    PROVE  /\ Announcement(n, born).type = "toplevel"
           /\ Announcement(n, born).number = n
           /\ Announcement(n, born).born = born
           /\ n \in Numbers /\ born \in 0..MaxLaunches => Announcement(n, born) \in Event
    BY DEF Announcement, Event

LEMMA EventShape ==
    ASSUME NEW e \in Event
    PROVE  /\ e.number \in Numbers
           /\ e.type # "toplevel" => e = Asking(e.type, e.number)
           /\ e.type = "toplevel" => /\ e = Announcement(e.number, e.born)
                                     /\ e.born \in 0..MaxLaunches
    BY DEF Event, Asking, Announcement

LEMMA ArrivalFacts ==
    ASSUME IInv, NEW type, Arrives(type)
    PROVE  /\ TypeOK /\ toDaemon \in Seq(Event) /\ toDaemon # <<>>
           /\ toDaemon' = Tail(toDaemon) /\ toDaemon' \in Seq(Event)
           /\ Head(toDaemon) \in Event /\ Head(toDaemon).type = type
           /\ Contains(toDaemon, Head(toDaemon))
           /\ \A i \in 1..Len(toDaemon') : toDaemon'[i].number <= created
           /\ UNCHANGED <<surfaces, lists, windows, launches, created>>
           /\ \A a : Contains(toDaemon', a) => Contains(toDaemon, a)
<1>1. /\ TypeOK /\ toDaemon \in Seq(Event) /\ toDaemon # <<>> /\ toDaemon' = Tail(toDaemon)
      /\ Head(toDaemon).type = type /\ UNCHANGED <<surfaces, lists, windows, launches, created>>
    BY DEF IInv, Arrives, TypeOK
<1>2. Head(toDaemon) \in Event /\ Tail(toDaemon) \in Seq(Event)
    BY <1>1, TailIndices
<1>3. \A a : Contains(toDaemon, a) <=> Head(toDaemon) = a \/ Contains(Tail(toDaemon), a)
    BY <1>1, ContainsReceived
<1>4. \A i \in 1..Len(Tail(toDaemon)) : Tail(toDaemon)[i].number <= created
    <2>1. created \in Nat /\ \A i \in 1..Len(toDaemon) : toDaemon[i].number <= created
        BY <1>1, Bounds DEF IInv, Issued, TypeOK
    <2>2. QED
        BY <1>1, <2>1, NumbersReceived
<1>5. QED
    BY <1>1, <1>2, <1>3, <1>4

\* An event that leaves the surface number and the list alone.
LEMMA ArrivalKeeps ==
    ASSUME IInv, NEW type, Arrives(type), UNCHANGED <<timers, toCompositor>>,
           feedback' \in FeedbackType \cup {NoFeedback}, history' \in HistoryType,
           Shown' <=> Shown, feedback'.number = feedback.number,
           Shown => feedback'.list = feedback.list
    PROVE  /\ TypeOK' /\ Issued' /\ OwnList' /\ Released' /\ NothingLeaks'
           /\ (Shown => /\ feedback'.configured = feedback.configured
                        /\ feedback'.painted = feedback.painted) => ConfiguredOnce'
           /\ (Shown => /\ history'.callback = history.callback
                        /\ history'.launch = history.launch) => CallbackSeparates'
<1>1. /\ TypeOK /\ toDaemon \in Seq(Event) /\ toDaemon # <<>> /\ toDaemon' = Tail(toDaemon)
      /\ toDaemon' \in Seq(Event)
      /\ UNCHANGED <<surfaces, lists, windows, launches, created>>
      /\ \A a : Contains(toDaemon', a) => Contains(toDaemon, a)
      /\ \A i \in 1..Len(toDaemon') : toDaemon'[i].number <= created
    BY ArrivalFacts
<1>2. \A a, b : Parted(toDaemon, a, b) => Parted(toDaemon', a, b)
    BY <1>1, PartedReceived
<1>3. TypeOK'
    BY <1>1 DEF TypeOK, HistoryType
<1>4. Issued' /\ OwnList' /\ Released' /\ NothingLeaks'
    BY <1>1 DEF IInv, Issued, OwnList, Released, NothingLeaks
<1>5. ASSUME Shown => /\ feedback'.configured = feedback.configured
                      /\ feedback'.painted = feedback.painted
      PROVE  ConfiguredOnce'
    BY <1>1, <1>2, <1>5 DEF IInv, ConfiguredOnce
<1>6. ASSUME Shown => history'.callback = history.callback /\ history'.launch = history.launch
      PROVE  CallbackSeparates'
    BY <1>1, <1>2, <1>6 DEF IInv, CallbackSeparates
<1>7. QED
    BY <1>3, <1>4, <1>5, <1>6

\* An event that changes nothing else.
LEMMA IgnoredInv ==
    ASSUME IInv, NEW type, Arrives(type), UNCHANGED <<feedback, timers, toCompositor, history>>
    PROVE  IInv'
<1>1. /\ Shown' <=> Shown
      /\ feedback' \in FeedbackType \cup {NoFeedback} /\ history' \in HistoryType
    BY DEF Shown, IInv, TypeOK, HistoryType
<1>2. /\ TypeOK' /\ Issued' /\ OwnList' /\ Released' /\ NothingLeaks'
      /\ ConfiguredOnce' /\ CallbackSeparates'
    BY <1>1, ArrivalKeeps
<1>3. HistoryHolds' /\ OwnCallbackCountsNewWindows'
    <2>1. UNCHANGED launches
        BY DEF Arrives
    <2>2. QED
        BY <1>1, <2>1
        DEF IInv, HistoryHolds, OwnCallbackCountsNewWindows, CountedWindowsAreNew
<1>4. QED
    BY <1>2, <1>3 DEF IInv

LEMMA ConfigureArrivesInv == IInv /\ ConfigureArrives => IInv'
<1> SUFFICES ASSUME IInv, ConfigureArrives PROVE IInv'
    OBVIOUS
<1>1. Arrives("configure") /\ UNCHANGED <<timers, toCompositor, history>>
    BY DEF ConfigureArrives
<1>2. CASE ~ForShownSurface
    <2>1. UNCHANGED feedback
        BY <1>2 DEF ConfigureArrives
    <2>2. QED
        BY <1>1, <2>1, IgnoredInv
<1>3. CASE ForShownSurface
    <2>1. /\ TypeOK /\ Shown /\ feedback \in FeedbackType /\ feedback.number # 0
          /\ toDaemon \in Seq(Event) /\ toDaemon # <<>> /\ toDaemon' = Tail(toDaemon)
          /\ UNCHANGED launches
        BY <1>1, <1>3, ArrivalFacts, ShownFacts DEF ForShownSurface
    <2>2. PICK f : f = [feedback EXCEPT !.configured = TRUE] /\ feedback' = Drawn(f)
        BY <1>3 DEF ConfigureArrives
    <2>3. f \in FeedbackType
        BY <2>1, <2>2 DEF FeedbackType
    <2>4. /\ f.number = feedback.number /\ f.list = feedback.list /\ f.configured
          /\ f.listening = feedback.listening /\ f.elapsed = feedback.elapsed
          /\ f.appeared = feedback.appeared
        BY <2>1, <2>2 DEF FeedbackType
    <2>5. /\ feedback' \in FeedbackType /\ feedback'.number = feedback.number
          /\ feedback'.list = feedback.list /\ feedback'.configured
          /\ feedback'.listening = feedback.listening
          /\ feedback'.elapsed = feedback.elapsed /\ feedback'.appeared = feedback.appeared
        BY <2>2, <2>3, <2>4, DrawnFacts
    <2>6. Shown'
        BY <2>1, <2>5 DEF Shown, NoFeedback
    <2>7. history' \in HistoryType
        BY <1>1, <2>1 DEF TypeOK, HistoryType
    <2>8. TypeOK' /\ Issued' /\ OwnList' /\ Released' /\ NothingLeaks' /\ CallbackSeparates'
        BY <1>1, <2>1, <2>5, <2>6, <2>7, ArrivalKeeps
    <2>9. Head(toDaemon) = Asking("configure", feedback.number)
        BY <1>1, <1>3, ArrivalFacts, EventShape DEF ForShownSurface
    <2>10. ConfiguredOnce'
        <3>1. Contains(toDaemon, Asking("configure", feedback.number))
            BY <1>1, <2>9, ArrivalFacts
        <3>2. /\ ~Contains(toCompositor, Asking("surface", feedback.number))
              /\ Parted(toCompositor, Asking("surface", feedback.number),
                                      Asking("surface", feedback.number))
              /\ Parted(toDaemon, Asking("configure", feedback.number),
                                  Asking("configure", feedback.number))
            BY <2>1, <3>1 DEF IInv, ConfiguredOnce
        <3>3. /\ ~Contains(toDaemon', Asking("configure", feedback.number))
              /\ Parted(toDaemon', Asking("configure", feedback.number),
                                   Asking("configure", feedback.number))
            BY <2>1, <2>9, <3>2, PartedReceived
        <3>4. QED
            BY <1>1, <2>5, <3>2, <3>3 DEF ConfiguredOnce
    <2>11. HistoryHolds'
        BY <1>1, <2>1, <2>5, <2>6 DEF IInv, HistoryHolds
    <2>12. OwnCallbackCountsNewWindows'
        BY <1>1, <2>5 DEF IInv, OwnCallbackCountsNewWindows, CountedWindowsAreNew
    <2>13. QED
        BY <2>8, <2>10, <2>11, <2>12 DEF IInv
<1>4. QED
    BY <1>2, <1>3

LEMMA ClosedArrivesInv == IInv /\ ClosedArrives => IInv'
<1> SUFFICES ASSUME IInv, ClosedArrives PROVE IInv'
    OBVIOUS
<1>1. Arrives("closed")
    BY DEF ClosedArrives
<1>2. CASE ForShownSurface
    <2>1. Shown /\ EndFeedback
        BY <1>2 DEF ClosedArrives, ForShownSurface
    <2>2. /\ toDaemon' \in Seq(Event)
          /\ \A i \in 1..Len(toDaemon') : toDaemon'[i].number <= created
          /\ UNCHANGED <<surfaces, lists, windows, launches, created>>
        BY <1>1, ArrivalFacts
    <2>3. QED
        BY <2>1, <2>2, EndInv
<1>3. CASE ~ForShownSurface
    BY <1>1, <1>3, IgnoredInv DEF ClosedArrives
<1>4. QED
    BY <1>2, <1>3

LEMMA ToplevelArrivesInv == IInv /\ ToplevelArrives => IInv'
<1> SUFFICES ASSUME IInv, ToplevelArrives PROVE IInv'
    OBVIOUS
<1>1. Arrives("toplevel") /\ UNCHANGED <<timers, toCompositor>>
    BY DEF ToplevelArrives
<1>2. CASE ~Counts(Head(toDaemon))
    BY <1>1, <1>2, IgnoredInv DEF ToplevelArrives
<1>3. CASE Counts(Head(toDaemon))
    <2> DEFINE n == feedback.number
               born == Head(toDaemon).born
    <2>1. /\ TypeOK /\ Shown /\ feedback \in FeedbackType /\ n # 0 /\ feedback.listening
          /\ feedback.list = Head(toDaemon).number /\ Head(toDaemon).number # 0
          /\ history \in HistoryType /\ UNCHANGED launches
          /\ Head(toDaemon) = Announcement(Head(toDaemon).number, born)
          /\ born \in 0..MaxLaunches /\ Contains(toDaemon, Head(toDaemon))
        BY <1>1, <1>3, ArrivalFacts, EventShape, ShownFacts DEF Counts, TypeOK, HistoryType
    <2>2. Head(toDaemon) = Announcement(n, born)
        BY <2>1 DEF IInv, OwnList, NoList
    <2> HIDE DEF n, born
    <2>3. /\ feedback' = [feedback EXCEPT !.appeared = TRUE]
          /\ history' = [history EXCEPT !.counted = @ \cup {born}]
        BY <1>3 DEF ToplevelArrives, born
    <2>4. feedback' \in FeedbackType
        BY <2>1, <2>3 DEF FeedbackType
    <2>5. /\ feedback'.number = n /\ feedback'.list = feedback.list
          /\ feedback'.configured = feedback.configured /\ feedback'.painted = feedback.painted
          /\ feedback'.listening = feedback.listening
          /\ feedback'.elapsed = feedback.elapsed /\ feedback'.appeared
        BY <2>1, <2>3 DEF FeedbackType, n
    <2>6. history' = [steps |-> history.steps, launch |-> history.launch,
                      callback |-> history.callback, counted |-> history.counted \cup {born}]
        BY <2>1, <2>3 DEF HistoryType
    <2>7. history' \in HistoryType
        <3>1. history.counted \cup {born} \in SUBSET (0..MaxLaunches)
            BY <2>1, HistoryFields
        <3>2. QED
            BY <2>1, <2>6, <3>1, HistoryFields DEF HistoryType
    <2>8. Shown'
        BY <2>1, <2>5 DEF Shown, NoFeedback
    <2>9. /\ TypeOK' /\ Issued' /\ OwnList' /\ Released' /\ NothingLeaks'
          /\ ConfiguredOnce' /\ CallbackSeparates'
        BY <1>1, <2>1, <2>4, <2>5, <2>6, <2>7, <2>8, ArrivalKeeps DEF n
    <2>10. HistoryHolds'
        BY <2>1, <2>5, <2>6, <2>8 DEF IInv, HistoryHolds
    <2>11. OwnCallbackCountsNewWindows'
        <3> SUFFICES ASSUME history.callback = n
                     PROVE  \A b \in history.counted \cup {born} : b >= history.launch
            BY <2>5, <2>6 DEF OwnCallbackCountsNewWindows, CountedWindowsAreNew
        <3>1. \A b \in history.counted : b >= history.launch
            BY DEF IInv, OwnCallbackCountsNewWindows, CountedWindowsAreNew, n
        <3>2. \A b \in 0..MaxLaunches : b < history.launch => ~Contains(toDaemon, Announcement(n, b))
            BY <2>1 DEF IInv, CallbackSeparates, n
        <3>3. ~(born < history.launch)
            BY <2>1, <2>2, <3>2
        <3>4. QED
            BY <2>1, <3>1, <3>3, HistoryFields, Bounds
    <2>12. QED
        BY <2>9, <2>10, <2>11 DEF IInv
<1>4. QED
    BY <1>2, <1>3

LEMMA DoneArrivesInv == IInv /\ DoneArrives => IInv'
<1> SUFFICES ASSUME IInv, DoneArrives PROVE IInv'
    OBVIOUS
<1>1. Arrives("done") /\ UNCHANGED <<timers, toCompositor>>
    BY DEF DoneArrives
<1>2. CASE ~Shown
    BY <1>1, <1>2, IgnoredInv DEF DoneArrives
<1>3. CASE Shown
    <2> DEFINE n == feedback.number
               m == Head(toDaemon).number
    <2>1. /\ TypeOK /\ feedback \in FeedbackType /\ n \in Numbers /\ n # 0
          /\ history \in HistoryType /\ UNCHANGED launches
          /\ Head(toDaemon) = Asking("done", m) /\ m \in Numbers /\ m # 0
          /\ Contains(toDaemon, Asking("done", m)) /\ m \in 0..MaxFeedbacks
        <3>1. /\ Head(toDaemon) \in Event /\ Head(toDaemon).type = "done" /\ TypeOK
              /\ UNCHANGED launches /\ Contains(toDaemon, Head(toDaemon))
            BY <1>1, ArrivalFacts
        <3>2. Head(toDaemon) = Asking("done", m) /\ m \in Numbers
            BY <3>1, EventShape
        <3>3. history \in HistoryType
            BY <3>1 DEF TypeOK, HistoryType
        <3>4. m # 0 /\ m \in 0..MaxFeedbacks
            BY <3>2, Bounds DEF Numbers
        <3>5. QED
            BY <1>3, <3>1, <3>2, <3>3, <3>4, ShownFacts
    <2>2. /\ toDaemon \in Seq(Event) /\ toDaemon # <<>> /\ toDaemon' = Tail(toDaemon)
        BY <1>1, ArrivalFacts
    <2> HIDE DEF n, m
    <2>3. feedback' = [feedback EXCEPT !.listening = TRUE]
        BY <1>3 DEF DoneArrives
    <2>4. feedback' \in FeedbackType
        BY <2>1, <2>3 DEF FeedbackType
    <2>5. /\ feedback'.number = n /\ feedback'.list = feedback.list
          /\ feedback'.configured = feedback.configured /\ feedback'.painted = feedback.painted
          /\ feedback'.listening
          /\ feedback'.elapsed = feedback.elapsed /\ feedback'.appeared = feedback.appeared
        BY <2>1, <2>3 DEF FeedbackType, n
    <2>6. history' = IF feedback.listening THEN history
                     ELSE [steps |-> history.steps, launch |-> history.launch,
                           callback |-> m, counted |-> history.counted]
        BY <1>3, <2>1 DEF DoneArrives, HistoryType, m
    <2>7. history' \in HistoryType
        BY <2>1, <2>6, HistoryFields DEF HistoryType
    <2>8. Shown'
        BY <2>1, <2>5 DEF Shown, NoFeedback
    <2>9. /\ TypeOK' /\ Issued' /\ OwnList' /\ Released' /\ NothingLeaks' /\ ConfiguredOnce'
          /\ (history'.callback = history.callback /\ history'.launch = history.launch
                => CallbackSeparates')
        BY <1>1, <1>3, <2>4, <2>5, <2>7, <2>8, ArrivalKeeps DEF n
    <2>10. HistoryHolds'
        BY <1>3, <2>1, <2>5, <2>6, <2>8 DEF IInv, HistoryHolds
    <2>11. CallbackSeparates' /\ OwnCallbackCountsNewWindows'
        <3>1. CASE feedback.listening
            BY <1>3, <2>5, <2>6, <2>9, <3>1
            DEF IInv, OwnCallbackCountsNewWindows, CountedWindowsAreNew, n
        <3>2. CASE ~feedback.listening
            <4>1. /\ history'.callback = m /\ history'.launch = history.launch
                  /\ history'.counted = {}
                BY <1>3, <2>6, <3>2 DEF IInv, HistoryHolds
            <4>2. /\ Parted(toCompositor, Asking("sync", n), Asking("bind", n))
                  /\ Contains(toDaemon, Asking("done", n)) =>
                        ~Contains(toCompositor, Asking("bind", n))
                  /\ \A born \in 0..MaxLaunches : born < history.launch =>
                        Parted(toDaemon, Asking("done", n), Announcement(n, born))
                BY <1>3 DEF IInv, CallbackSeparates, n
            <4>3. \A a : Contains(toDaemon', a) => Contains(toDaemon, a)
                BY <1>1, ArrivalFacts
            <4>4. ASSUME NEW born \in 0..MaxLaunches, born < history.launch
                  PROVE  /\ Parted(toDaemon', Asking("done", n), Announcement(n, born))
                         /\ m = n => ~Contains(toDaemon', Announcement(n, born))
                <5>1. Parted(toDaemon, Asking("done", n), Announcement(n, born))
                    BY <4>2, <4>4
                <5>2. QED
                    BY <2>1, <2>2, <5>1, PartedReceived
            <4>5. m = n => ~Contains(toCompositor, Asking("bind", n))
                BY <2>1, <4>2
            <4>6. CallbackSeparates'
                BY <1>1, <2>5, <4>1, <4>2, <4>3, <4>4, <4>5 DEF CallbackSeparates
            <4>7. OwnCallbackCountsNewWindows'
                BY <4>1 DEF OwnCallbackCountsNewWindows, CountedWindowsAreNew
            <4>8. QED
                BY <4>6, <4>7
        <3>3. QED
            BY <3>1, <3>2
    <2>12. QED
        BY <2>9, <2>10, <2>11 DEF IInv
<1>4. QED
    BY <1>2, <1>3

LEMMA ReceiveInv == IInv /\ Receive => IInv'
<1>1. ASSUME IInv, FinishedArrives PROVE IInv'
    BY <1>1, IgnoredInv DEF FinishedArrives
<1>2. QED
    BY <1>1, ConfigureArrivesInv, ClosedArrivesInv, ToplevelArrivesInv, DoneArrivesInv
    DEF Receive

-----------------------------------------------------------------------------
\* The compositor.

\* What the compositor sends: a configure only for a surface it was just asked for, a
\* callback only for the sync it just read, and windows that are not new only to a list
\* it was just asked for.
Answers(events) ==
    /\ \A n : Contains(events, Asking("configure", n)) =>
          /\ toCompositor # <<>> /\ toCompositor' = Tail(toCompositor)
          /\ Head(toCompositor) = Asking("surface", n)
    /\ \A n : Contains(events, Asking("done", n)) =>
          /\ toCompositor # <<>> /\ toCompositor' = Tail(toCompositor)
          /\ Head(toCompositor) = Asking("sync", n)
    /\ \A n : \A born \in 0..MaxLaunches :
          Contains(events, Announcement(n, born)) /\ born < launches =>
              /\ toCompositor # <<>> /\ toCompositor' = Tail(toCompositor)
              /\ Head(toCompositor) = Asking("bind", n)
    /\ \A n : /\ Parted(events, Asking("configure", n), Asking("configure", n))
              /\ \A born : Parted(events, Asking("done", n), Announcement(n, born))

LEMMA AnswersInv ==
    ASSUME IInv, DaemonUnchanged, NEW events \in Seq(Event), Answers(events), Tell(events),
           \/ toCompositor' = toCompositor
           \/ toCompositor # <<>> /\ toCompositor' = Tail(toCompositor)
    PROVE  /\ ConfiguredOnce' /\ HistoryHolds' /\ CallbackSeparates'
           /\ OwnCallbackCountsNewWindows' /\ Shown' = Shown
<1> DEFINE n == feedback.number
<1>1. /\ TypeOK /\ toDaemon \in Seq(Event) /\ toCompositor \in Seq(Request)
      /\ launches \in 0..MaxLaunches /\ launches \in Nat /\ history.launch \in 0..MaxLaunches
      /\ UNCHANGED <<feedback, timers, launches, created, history>> /\ Shown' = Shown
      /\ toDaemon' = toDaemon \o events
    BY Bounds DEF IInv, TypeOK, DaemonUnchanged, Shown, Tell
<1>2. \A a : Contains(toDaemon', a) <=> Contains(toDaemon, a) \/ Contains(events, a)
    <2>1. \A a : Contains(toDaemon \o events, a) <=> Contains(toDaemon, a) \/ Contains(events, a)
        BY <1>1, ContainsJoined
    <2>2. QED
        BY <1>1, <2>1
<1>3. \A a : Contains(toCompositor', a) => Contains(toCompositor, a)
    <2>1. CASE toCompositor' = toCompositor
        BY <2>1
    <2>2. CASE toCompositor # <<>> /\ toCompositor' = Tail(toCompositor)
        BY <1>1, <2>2, ContainsReceived
    <2>3. QED
        BY <2>1, <2>2
<1>4. \A a, b : Parted(toCompositor, a, b) => Parted(toCompositor', a, b)
    <2>1. CASE toCompositor' = toCompositor
        BY <2>1
    <2>2. CASE toCompositor # <<>> /\ toCompositor' = Tail(toCompositor)
        BY <1>1, <2>2, PartedReceived
    <2>3. QED
        BY <2>1, <2>2
<1>5. ASSUME NEW a, toCompositor # <<>>, toCompositor' = Tail(toCompositor),
             Head(toCompositor) = a
      PROVE  /\ Contains(toCompositor, a)
             /\ \A b : Parted(toCompositor, a, b) => ~Contains(toCompositor', b)
    BY <1>1, <1>5, ContainsReceived, PartedReceived
<1> HIDE DEF n
<1>6. ConfiguredOnce'
    <2> DEFINE s == Asking("surface", n)
               c == Asking("configure", n)
    <2> SUFFICES ASSUME Shown
                 PROVE  /\ feedback.painted => feedback.configured
                        /\ feedback.configured =>
                              ~Contains(toCompositor', s) /\ ~Contains(toDaemon', c)
                        /\ Contains(toDaemon', c) => ~Contains(toCompositor', s)
                        /\ Parted(toCompositor', s, s)
                        /\ Parted(toDaemon', c, c)
        BY <1>1 DEF ConfiguredOnce, n
    <2>1. /\ feedback.painted => feedback.configured
          /\ feedback.configured => ~Contains(toCompositor, s) /\ ~Contains(toDaemon, c)
          /\ Contains(toDaemon, c) => ~Contains(toCompositor, s)
          /\ Parted(toCompositor, s, s)
          /\ Parted(toDaemon, c, c)
        BY DEF IInv, ConfiguredOnce, n
    <2>2. /\ Contains(events, c) => Contains(toCompositor, s) /\ ~Contains(toCompositor', s)
          /\ Parted(events, c, c)
        BY <1>5, <2>1 DEF Answers
    <2> HIDE DEF s, c
    <2>3. Parted(toDaemon \o events, c, c)
        <3>1. ~Contains(toDaemon, c) \/ ~Contains(events, c)
            BY <2>1, <2>2
        <3>2. QED
            BY <1>1, <2>1, <2>2, <3>1, PartedJoined
    <2>4. QED
        BY <1>1, <1>2, <1>3, <1>4, <2>1, <2>2, <2>3
<1>7. CallbackSeparates'
    <2> DEFINE d == Asking("done", n)
               s == Asking("sync", n)
               b == Asking("bind", n)
    <2> SUFFICES ASSUME Shown
                 PROVE  /\ Parted(toCompositor', s, b)
                        /\ Contains(toDaemon', d) => ~Contains(toCompositor', b)
                        /\ history.callback = n => ~Contains(toCompositor', b)
                        /\ \A born \in 0..MaxLaunches : born < history.launch =>
                              /\ Parted(toDaemon', d, Announcement(n, born))
                              /\ history.callback = n => ~Contains(toDaemon', Announcement(n, born))
        BY <1>1 DEF CallbackSeparates, n
    <2>1. /\ Parted(toCompositor, s, b)
          /\ Contains(toDaemon, d) => ~Contains(toCompositor, b)
          /\ history.callback = n => ~Contains(toCompositor, b)
          /\ \A born \in 0..MaxLaunches : born < history.launch =>
                /\ Parted(toDaemon, d, Announcement(n, born))
                /\ history.callback = n => ~Contains(toDaemon, Announcement(n, born))
        BY DEF IInv, CallbackSeparates, n
    <2>2. Contains(events, d) => ~Contains(toCompositor', b)
        BY <1>5, <2>1 DEF Answers
    <2>3. ASSUME NEW born \in 0..MaxLaunches, born < history.launch
          PROVE  /\ Contains(events, Announcement(n, born)) => Contains(toCompositor, b)
                 /\ Parted(events, d, Announcement(n, born))
        <3>1. born < launches
            <4>1. history.launch <= launches
                BY DEF IInv, HistoryHolds
            <4>2. QED
                BY <1>1, <2>3, <4>1, Bounds
        <3>2. QED
            BY <1>5, <3>1 DEF Answers
    <2> HIDE DEF d, s, b
    <2>4. ASSUME NEW born \in 0..MaxLaunches, born < history.launch
          PROVE  /\ Parted(toDaemon', d, Announcement(n, born))
                 /\ history.callback = n => ~Contains(toDaemon', Announcement(n, born))
        <3>1. /\ Parted(toDaemon, d, Announcement(n, born))
              /\ history.callback = n => ~Contains(toDaemon, Announcement(n, born))
            BY <2>1, <2>4
        <3>2. /\ Contains(events, Announcement(n, born)) => Contains(toCompositor, b)
              /\ Parted(events, d, Announcement(n, born))
            BY <2>3, <2>4
        <3>3. ~Contains(toDaemon, d) \/ ~Contains(events, Announcement(n, born))
            BY <2>1, <3>2
        <3>4. Parted(toDaemon \o events, d, Announcement(n, born))
            BY <1>1, <3>1, <3>2, <3>3, PartedJoined
        <3>5. QED
            BY <1>1, <1>2, <2>1, <3>1, <3>2, <3>4
    <2>5. QED
        BY <1>2, <1>3, <1>4, <2>1, <2>2, <2>4
<1>8. HistoryHolds' /\ OwnCallbackCountsNewWindows'
    BY <1>1 DEF IInv, HistoryHolds, OwnCallbackCountsNewWindows, CountedWindowsAreNew
<1>9. QED
    BY <1>1, <1>6, <1>7, <1>8

LEMMA IssuedTold ==
    ASSUME IInv, NEW events \in Seq(Event), Tell(events),
           \A i \in 1..Len(events) : events[i].number <= created
    PROVE  /\ toDaemon' \in Seq(Event)
           /\ \A i \in 1..Len(toDaemon') : toDaemon'[i].number <= created
<1>1. toDaemon \in Seq(Event) /\ created \in Nat /\ toDaemon' = toDaemon \o events
      /\ \A i \in 1..Len(toDaemon) : toDaemon[i].number <= created
    BY Bounds DEF IInv, TypeOK, Issued, Tell
<1>2. toDaemon \o events \in Seq(Event)
    BY <1>1, JoinedIndices
<1>3. \A i \in 1..Len(toDaemon \o events) : (toDaemon \o events)[i].number <= created
    BY <1>1, NumbersJoined
<1>4. QED
    BY <1>1, <1>2, <1>3

\* A request is read: what is asked for is created, what is released is gone.
LEMMA RequestServed ==
    ASSUME IInv, toCompositor # <<>>, toCompositor' = Tail(toCompositor),
           UNCHANGED windows, DaemonUnchanged,
           NEW events \in Seq(Event), Answers(events), Tell(events),
           \A i \in 1..Len(events) : events[i].number = Head(toCompositor).number,
           \A m \in lists' : m \in lists \/ Head(toCompositor) = Asking("bind", m),
           \A m \in surfaces' : m \in surfaces \/ Head(toCompositor) = Asking("surface", m),
           \A m \in lists' : Head(toCompositor) # Asking("stop", m),
           \A m \in surfaces' : Head(toCompositor) # Asking("destroy", m)
    PROVE  IInv'
<1>1. /\ TypeOK /\ toCompositor \in Seq(Request) /\ created \in Nat
      /\ UNCHANGED <<feedback, timers, launches, created, history>>
    BY Bounds DEF IInv, TypeOK, DaemonUnchanged
<1>2. /\ Head(toCompositor) \in Request /\ toCompositor' \in Seq(Request)
      /\ Head(toCompositor).number \in Numbers
    BY <1>1, TailIndices DEF Request
<1>3. /\ Head(toCompositor).number <= created
      /\ \A i \in 1..Len(toCompositor') : toCompositor'[i].number <= created
    <2>1. \A i \in 1..Len(toCompositor) : toCompositor[i].number <= created
        BY DEF IInv, Issued
    <2>2. QED
        BY <1>1, <2>1, NumbersReceived
<1>4. /\ toDaemon' \in Seq(Event)
      /\ \A i \in 1..Len(toDaemon') : toDaemon'[i].number <= created
    BY <1>3, IssuedTold
<1>5. \A a : Contains(toCompositor, a) <=> Head(toCompositor) = a \/ Contains(toCompositor', a)
    BY <1>1, ContainsReceived
<1>6. \A a, b : Followed(toCompositor, a, b) =>
         Followed(toCompositor', a, b) /\ (Head(toCompositor) = a => Contains(toCompositor', b))
    BY <1>1, FollowedReceived
<1>7. /\ ConfiguredOnce' /\ HistoryHolds' /\ CallbackSeparates'
      /\ OwnCallbackCountsNewWindows' /\ Shown' = Shown
    BY AnswersInv
<1>8. /\ \A m \in lists' : m \in lists \/ m = Head(toCompositor).number
      /\ \A m \in surfaces' : m \in surfaces \/ m = Head(toCompositor).number
    BY MessageFacts
<1>9. TypeOK'
    <2>1. lists' \subseteq Numbers /\ surfaces' \subseteq Numbers
        BY <1>1, <1>2, <1>8 DEF TypeOK
    <2>2. QED
        BY <1>1, <1>2, <1>4, <2>1 DEF TypeOK
<1>10. Issued'
    <2>1. \A m \in surfaces' \cup lists' : m <= created
        BY <1>3, <1>8 DEF IInv, Issued
    <2>2. Shown' => feedback'.number <= created
        BY <1>1, <1>7 DEF IInv, Issued
    <2>3. QED
        BY <1>1, <1>3, <1>4, <2>1, <2>2 DEF Issued
<1>11. OwnList'
    <2> SUFFICES ASSUME Shown, feedback.list = NoList,
                        feedback.number \notin lists,
                        ~Contains(toCompositor, Asking("bind", feedback.number))
                 PROVE  /\ feedback.number \notin lists'
                        /\ ~Contains(toCompositor', Asking("bind", feedback.number))
        BY <1>1, <1>7 DEF IInv, OwnList
    <2>1. Head(toCompositor) # Asking("bind", feedback.number)
        BY <1>5
    <2>2. QED
        BY <1>5, <2>1
<1>12. Released'
    BY <1>1, <1>6 DEF IInv, Released
<1>13. NothingLeaks'
    <2>1. ASSUME NEW m \in lists' \ {feedback.number}
          PROVE  Contains(toCompositor', Asking("stop", m))
        <3>1. CASE m \in lists
            BY <1>5, <2>1, <3>1 DEF IInv, NothingLeaks
        <3>2. CASE Head(toCompositor) = Asking("bind", m)
            <4>1. m \in Numbers
                BY <1>9 DEF TypeOK
            <4>2. Followed(toCompositor, Asking("bind", m), Asking("stop", m))
                BY <2>1, <4>1 DEF IInv, Released
            <4>3. QED
                BY <1>6, <3>2, <4>2
        <3>3. QED
            BY <3>1, <3>2
    <2>2. ASSUME NEW m \in surfaces' \ {feedback.number}
          PROVE  Contains(toCompositor', Asking("destroy", m))
        <3>1. CASE m \in surfaces
            BY <1>5, <2>2, <3>1 DEF IInv, NothingLeaks
        <3>2. CASE Head(toCompositor) = Asking("surface", m)
            <4>1. m \in Numbers
                BY <1>9 DEF TypeOK
            <4>2. Followed(toCompositor, Asking("surface", m), Asking("destroy", m))
                BY <2>2, <4>1 DEF IInv, Released
            <4>3. QED
                BY <1>6, <3>2, <4>2
        <3>3. QED
            BY <3>1, <3>2
    <2>3. QED
        BY <1>1, <2>1, <2>2 DEF IInv, NothingLeaks
<1>14. QED
    BY <1>7, <1>9, <1>10, <1>11, <1>12, <1>13 DEF IInv

LEMMA RequestShape ==
    ASSUME NEW r \in Request
    PROVE  r = Asking(r.type, r.number) /\ r.number \in Numbers
    BY DEF Request, Asking

\* One answer to one request.
LEMMA OneAnswer ==
    ASSUME NEW type, NEW n \in Numbers,
           \/ type \in {"closed", "finished"}
           \/ /\ toCompositor # <<>> /\ toCompositor' = Tail(toCompositor)
              /\ \/ type = "configure" /\ Head(toCompositor) = Asking("surface", n)
                 \/ type = "done" /\ Head(toCompositor) = Asking("sync", n)
    PROVE  /\ <<Asking(type, n)>> \in Seq(Event) /\ Answers(<<Asking(type, n)>>)
           /\ \A i \in 1..Len(<<Asking(type, n)>>) : <<Asking(type, n)>>[i].number = n
<1>1. Asking(type, n) \in Event /\ type # "toplevel"
    BY DEF Event, Asking
<1>2. /\ \A a, b : /\ Contains(<<Asking(type, n)>>, a) <=> a = Asking(type, n)
                   /\ Parted(<<Asking(type, n)>>, a, b)
    BY OneMessage
<1>3. \A m, born : Announcement(m, born) # Asking(type, n)
    <2> SUFFICES ASSUME NEW m, NEW born
                 PROVE  Announcement(m, born) # Asking(type, n)
        OBVIOUS
    <2>1. Announcement(m, born).type = "toplevel" /\ Asking(type, n).type = type
        BY MessageFacts
    <2>2. QED
        BY <1>1, <2>1
<1>4. Answers(<<Asking(type, n)>>)
    <2>1. ASSUME NEW m, Asking("configure", m) = Asking(type, n)
          PROVE  /\ toCompositor # <<>> /\ toCompositor' = Tail(toCompositor)
                 /\ Head(toCompositor) = Asking("surface", m)
        <3>1. type = "configure" /\ m = n
            BY <2>1, MessageFacts
        <3>2. QED
            BY <3>1
    <2>2. ASSUME NEW m, Asking("done", m) = Asking(type, n)
          PROVE  /\ toCompositor # <<>> /\ toCompositor' = Tail(toCompositor)
                 /\ Head(toCompositor) = Asking("sync", m)
        <3>1. type = "done" /\ m = n
            BY <2>2, MessageFacts
        <3>2. QED
            BY <3>1
    <2>3. QED
        BY <1>2, <1>3, <2>1, <2>2 DEF Answers
<1>5. QED
    BY <1>1, <1>4, MessageFacts

LEMMA ServeInv == IInv /\ Serve => IInv'
<1> SUFFICES ASSUME IInv, Serve PROVE IInv'
    OBVIOUS
<1> DEFINE request == Head(toCompositor)
           n == request.number
<1>1. /\ toCompositor # <<>> /\ toCompositor' = Tail(toCompositor)
      /\ UNCHANGED windows /\ DaemonUnchanged
    BY DEF Serve
<1>2. /\ TypeOK /\ toCompositor \in Seq(Request) /\ windows \in Seq(0..MaxLaunches)
    BY DEF IInv, TypeOK
<1>3. request = Asking(request.type, n) /\ n \in Numbers
    BY <1>1, <1>2, TailIndices, RequestShape
<1>4. \A type, m : request = Asking(type, m) => type = request.type /\ m = n
    BY MessageFacts
<1>5. \/ /\ request.type = "surface"
         /\ surfaces' = surfaces \cup {n}
         /\ Tell(<<Asking("configure", n)>>)
         /\ UNCHANGED lists
      \/ /\ request.type = "bind"
         /\ lists' = lists \cup {n}
         /\ Tell([w \in DOMAIN windows |-> Announcement(n, windows[w])])
         /\ UNCHANGED surfaces
      \/ /\ request.type = "sync"
         /\ Tell(<<Asking("done", n)>>)
         /\ UNCHANGED <<surfaces, lists>>
      \/ /\ request.type = "stop"
         /\ lists' = lists \ {n}
         /\ Tell(<<Asking("finished", n)>>)
         /\ UNCHANGED surfaces
      \/ /\ request.type = "destroy"
         /\ surfaces' = surfaces \ {n}
         /\ UNCHANGED <<lists, toDaemon>>
    BY DEF Serve
<1>6. CASE request.type = "surface"
    <2>1. /\ surfaces' = surfaces \cup {n} /\ lists' = lists
          /\ Tell(<<Asking("configure", n)>>)
        BY <1>5, <1>6
    <2>2. /\ <<Asking("configure", n)>> \in Seq(Event) /\ Answers(<<Asking("configure", n)>>)
          /\ \A i \in 1..Len(<<Asking("configure", n)>>) : <<Asking("configure", n)>>[i].number = n
        BY <1>1, <1>3, <1>6, OneAnswer
    <2>3. /\ \A m \in lists' : m \in lists \/ request = Asking("bind", m)
          /\ \A m \in surfaces' : m \in surfaces \/ request = Asking("surface", m)
          /\ \A m \in lists' : request # Asking("stop", m)
          /\ \A m \in surfaces' : request # Asking("destroy", m)
        BY <1>3, <1>4, <1>6, <2>1
    <2>4. QED
        BY <1>1, <2>1, <2>2, <2>3, RequestServed
<1>7. CASE request.type = "bind"
    <2> DEFINE events == [w \in DOMAIN windows |-> Announcement(n, windows[w])]
    <2>1. /\ lists' = lists \cup {n} /\ surfaces' = surfaces /\ Tell(events)
        BY <1>5, <1>7
    <2>2. \A w \in DOMAIN windows : Announcement(n, windows[w]) \in Event
        <3>1. \A w \in DOMAIN windows : windows[w] \in 0..MaxLaunches
            BY <1>2, ElementsType
        <3>2. QED
            BY <1>3, <3>1, AnnouncementFacts
    <2>3. /\ events \in Seq(Event) /\ Len(events) = Len(windows)
          /\ \A i \in 1..Len(events) : events[i] = Announcement(n, windows[i])
        <3>1. DOMAIN windows = 1..Len(windows) /\ Len(windows) \in Nat
            BY <1>2
        <3>2. events \in [1..Len(windows) -> Event]
            BY <2>2, <3>1
        <3>3. QED
            BY <3>1, <3>2
    <2> HIDE DEF events
    <2>4. \A i \in 1..Len(events) : events[i].number = n /\ events[i].type = "toplevel"
        BY <2>3, AnnouncementFacts
    <2>5. /\ \A m : ~Contains(events, Asking("configure", m)) /\ ~Contains(events, Asking("done", m))
          /\ \A m, born : Contains(events, Announcement(m, born)) => m = n
        <3>1. \A a : Contains(events, a) => a.number = n /\ a.type = "toplevel"
            BY <2>4 DEF Contains
        <3>2. /\ \A m : /\ Asking("configure", m).type # "toplevel"
                        /\ Asking("done", m).type # "toplevel"
              /\ \A m, born : Announcement(m, born).number = m
            BY MessageFacts, AnnouncementFacts
        <3>3. QED
            BY <3>1, <3>2
    <2>6. Answers(events)
        <3>1. request = Asking("bind", n)
            BY <1>3, <1>7
        <3>2. QED
            BY <1>1, <2>5, <3>1, FollowedAbsent DEF Answers
    <2>7. /\ \A m \in lists' : m \in lists \/ request = Asking("bind", m)
          /\ \A m \in surfaces' : m \in surfaces \/ request = Asking("surface", m)
          /\ \A m \in lists' : request # Asking("stop", m)
          /\ \A m \in surfaces' : request # Asking("destroy", m)
        BY <1>3, <1>4, <1>7, <2>1
    <2>8. QED
        BY <1>1, <2>1, <2>3, <2>4, <2>6, <2>7, RequestServed
<1>8. CASE request.type = "sync"
    <2>1. /\ surfaces' = surfaces /\ lists' = lists /\ Tell(<<Asking("done", n)>>)
        BY <1>5, <1>8
    <2>2. /\ <<Asking("done", n)>> \in Seq(Event) /\ Answers(<<Asking("done", n)>>)
          /\ \A i \in 1..Len(<<Asking("done", n)>>) : <<Asking("done", n)>>[i].number = n
        BY <1>1, <1>3, <1>8, OneAnswer
    <2>3. /\ \A m \in lists' : m \in lists \/ request = Asking("bind", m)
          /\ \A m \in surfaces' : m \in surfaces \/ request = Asking("surface", m)
          /\ \A m \in lists' : request # Asking("stop", m)
          /\ \A m \in surfaces' : request # Asking("destroy", m)
        BY <1>4, <1>8, <2>1
    <2>4. QED
        BY <1>1, <2>1, <2>2, <2>3, RequestServed
<1>9. CASE request.type = "stop"
    <2>1. /\ surfaces' = surfaces /\ lists' = lists \ {n} /\ Tell(<<Asking("finished", n)>>)
        BY <1>5, <1>9
    <2>2. /\ <<Asking("finished", n)>> \in Seq(Event) /\ Answers(<<Asking("finished", n)>>)
          /\ \A i \in 1..Len(<<Asking("finished", n)>>) : <<Asking("finished", n)>>[i].number = n
        BY <1>3, OneAnswer
    <2>3. /\ \A m \in lists' : m \in lists \/ request = Asking("bind", m)
          /\ \A m \in surfaces' : m \in surfaces \/ request = Asking("surface", m)
          /\ \A m \in lists' : request # Asking("stop", m)
          /\ \A m \in surfaces' : request # Asking("destroy", m)
        BY <1>4, <1>9, <2>1
    <2>4. QED
        BY <1>1, <2>1, <2>2, <2>3, RequestServed
<1>10. CASE request.type = "destroy"
    <2>1. /\ surfaces' = surfaces \ {n} /\ lists' = lists /\ toDaemon' = toDaemon
        BY <1>5, <1>10
    <2>2. <<>> \in Seq(Event) /\ Answers(<<>>) /\ Len(<<>>) = 0
        BY FollowedAbsent DEF Answers, Contains
    <2>3. Tell(<<>>)
        <3>1. toDaemon \o <<>> = toDaemon
            BY <1>2 DEF TypeOK
        <3>2. QED
            BY <2>1, <3>1 DEF Tell
    <2>4. /\ \A m \in lists' : m \in lists \/ request = Asking("bind", m)
          /\ \A m \in surfaces' : m \in surfaces \/ request = Asking("surface", m)
          /\ \A m \in lists' : request # Asking("stop", m)
          /\ \A m \in surfaces' : request # Asking("destroy", m)
        BY <1>4, <1>10, <2>1
    <2>5. \A i \in 1..Len(<<>>) : <<>>[i].number = n
        BY <2>2
    <2>6. QED
        BY <1>1, <2>2, <2>3, <2>4, <2>5, RequestServed
<1>11. QED
    BY <1>5, <1>6, <1>7, <1>8, <1>9, <1>10

\* What the compositor does of its own accord.
LEMMA UnaskedInv ==
    ASSUME IInv, UNCHANGED toCompositor, DaemonUnchanged,
           NEW events \in Seq(Event), Answers(events), Tell(events),
           \A i \in 1..Len(events) : events[i].number <= created,
           windows' \in Seq(0..MaxLaunches), lists' = lists, surfaces' \subseteq surfaces
    PROVE  IInv'
<1>1. /\ TypeOK /\ UNCHANGED <<feedback, timers, launches, created, history>>
    BY DEF IInv, DaemonUnchanged
<1>2. /\ toDaemon' \in Seq(Event)
      /\ \A i \in 1..Len(toDaemon') : toDaemon'[i].number <= created
    BY IssuedTold
<1>3. /\ ConfiguredOnce' /\ HistoryHolds' /\ CallbackSeparates'
      /\ OwnCallbackCountsNewWindows' /\ Shown' = Shown
    BY AnswersInv
<1>4. TypeOK'
    BY <1>1, <1>2 DEF TypeOK
<1>5. Issued' /\ OwnList' /\ Released' /\ NothingLeaks'
    BY <1>1, <1>2, <1>3 DEF IInv, Issued, OwnList, Released, NothingLeaks
<1>6. QED
    BY <1>3, <1>4, <1>5 DEF IInv

LEMMA OpenWindowInv == IInv /\ OpenWindow => IInv'
<1> SUFFICES ASSUME IInv, OpenWindow PROVE IInv'
    OBVIOUS
<1> DEFINE S == {Announcement(n, launches) : n \in lists}
           events == SetToSeq(S)
<1>1. /\ windows' = Append(windows, launches) /\ Tell(events) /\ DaemonUnchanged
      /\ UNCHANGED <<toCompositor, surfaces, lists>>
    BY DEF OpenWindow
<1>2. /\ TypeOK /\ lists \subseteq Numbers /\ launches \in 0..MaxLaunches /\ launches \in Nat
      /\ windows \in Seq(0..MaxLaunches) /\ \A n \in lists : n <= created
    BY Bounds DEF IInv, TypeOK, Issued
<1>3. IsFiniteSet(S)
    <2>1. IsFiniteSet(lists)
        <3>1. IsFiniteSet(1..MaxFeedbacks)
            BY Bounds, FS_Interval
        <3>2. QED
            BY <1>2, <3>1, FS_Subset DEF Numbers
    <2>2. [n \in lists |-> Announcement(n, launches)] \in Surjection(lists, S)
        BY DEF Surjection
    <2>3. QED
        BY <2>1, <2>2, FS_Surjection
<1>4. S \subseteq Event
    BY <1>2 DEF Announcement, Event
<1>5. events \in Seq(S) /\ \A a : Contains(events, a) => a \in S
    BY <1>3, SetToSeqType
<1> HIDE DEF events
<1>6. events \in Seq(Event)
    BY <1>4, <1>5
<1>7. \A i \in 1..Len(events) : events[i].number <= created
    <2>1. \A a \in S : a.number <= created
        BY <1>2, AnnouncementFacts
    <2>2. \A i \in 1..Len(events) : events[i] \in S
        BY <1>5
    <2>3. QED
        BY <2>1, <2>2
<1>8. Answers(events)
    <2>1. \A a \in S : a.type = "toplevel" /\ a.born = launches
        BY AnnouncementFacts
    <2>2. \A n : ~Contains(events, Asking("configure", n)) /\ ~Contains(events, Asking("done", n))
        <3>1. \A n : Asking("configure", n).type # "toplevel" /\ Asking("done", n).type # "toplevel"
            BY MessageFacts
        <3>2. QED
            BY <1>5, <2>1, <3>1
    <2>3. \A n, born : Contains(events, Announcement(n, born)) => born = launches
        <3>1. \A n, born : Announcement(n, born).born = born
            BY MessageFacts
        <3>2. QED
            BY <1>5, <2>1, <3>1
    <2>4. QED
        BY <1>2, <2>2, <2>3, FollowedAbsent DEF Answers
<1>9. windows' \in Seq(0..MaxLaunches)
    BY <1>1, <1>2
<1>10. QED
    BY <1>1, <1>6, <1>7, <1>8, <1>9, UnaskedInv

LEMMA CloseSurfaceInv ==
    ASSUME IInv, NEW n \in Numbers, CloseSurface(n)
    PROVE  IInv'
<1>1. /\ n \in surfaces /\ surfaces' = surfaces \ {n} /\ Tell(<<Asking("closed", n)>>)
      /\ UNCHANGED <<toCompositor, lists, windows>> /\ DaemonUnchanged
    BY DEF CloseSurface
<1>2. n <= created
    BY <1>1 DEF IInv, Issued
<1>3. /\ <<Asking("closed", n)>> \in Seq(Event) /\ Answers(<<Asking("closed", n)>>)
      /\ \A i \in 1..Len(<<Asking("closed", n)>>) : <<Asking("closed", n)>>[i].number = n
    BY OneAnswer
<1>4. windows' \in Seq(0..MaxLaunches)
    BY <1>1 DEF IInv, TypeOK
<1>5. QED
    BY <1>1, <1>2, <1>3, <1>4, UnaskedInv

-----------------------------------------------------------------------------
\* The theorems.

LEMMA NextIInv == IInv /\ [Next]_vars => IInv'
<1> SUFFICES ASSUME IInv, [Next]_vars PROVE IInv'
    OBVIOUS
<1>1. CASE StartFeedback
    BY <1>1, CreateInv, RefreshInv DEF StartFeedback
<1>2. CASE Superseded
    BY <1>2, SupersededInv
<1>3. CASE \E n \in Numbers : Tick(n)
    BY <1>3, TickInv
<1>4. CASE Receive
    BY <1>4, ReceiveInv
<1>5. CASE Serve
    BY <1>5, ServeInv
<1>6. CASE OpenWindow
    BY <1>6, OpenWindowInv
<1>7. CASE \E n \in Numbers : CloseSurface(n)
    BY <1>7, CloseSurfaceInv
<1>8. CASE UNCHANGED vars
    BY <1>8 DEF vars, IInv, TypeOK, Issued, OwnList, Released, NothingLeaks, ConfiguredOnce,
        HistoryHolds, CallbackSeparates, OwnCallbackCountsNewWindows, CountedWindowsAreNew, Shown
<1>9. QED
    BY <1>1, <1>2, <1>3, <1>4, <1>5, <1>6, <1>7, <1>8 DEF Next

LEMMA PaintedFollows == IInv => PaintedAfterConfigure
    BY DEF IInv, ConfiguredOnce, PaintedAfterConfigure

\* Every variable of the feedback model keeps its type.
THEOREM TypeOKAlways == Spec => []TypeOK
<1>1. IInv => TypeOK
    BY DEF IInv
<1>2. QED
    BY <1>1, InitIInv, NextIInv, PTL DEF Spec

\* No surface, list or timer outlives its feedback, however the two connections delay
\* what is under way.
THEOREM NothingLeaksAlways == Spec => []NothingLeaks
<1>1. IInv => NothingLeaks
    BY DEF IInv
<1>2. QED
    BY <1>1, InitIInv, NextIInv, PTL DEF Spec

\* No buffer is attached before the surface's configure arrived.
THEOREM PaintedAfterConfigureAlways == Spec => []PaintedAfterConfigure
    BY PaintedFollows, InitIInv, NextIInv, PTL DEF Spec

\* A feedback that began to listen at its own sync callback counts only windows that
\* opened after its launch.
THEOREM OwnCallbackAlways == Spec => []OwnCallbackCountsNewWindows
<1>1. IInv => OwnCallbackCountsNewWindows
    BY DEF IInv
<1>2. QED
    BY <1>1, InitIInv, NextIInv, PTL DEF Spec

\* The timer ends feedback only after Timeout steps, or after Minimum steps and a window.
THEOREM EndsForAReasonAlways == Spec => EndsForAReason
<1> DEFINE Reason == \A n \in Numbers : Tick(n) /\ Shown /\ feedback' = NoFeedback =>
                        \/ history.steps + 1 >= Timeout
                        \/ history.steps + 1 >= Minimum /\ history.counted # {}
<1>1. IInv => Reason
    <2> SUFFICES ASSUME IInv, NEW n \in Numbers, Tick(n), Shown, feedback' = NoFeedback
                 PROVE  \/ history.steps + 1 >= Timeout
                        \/ history.steps + 1 >= Minimum /\ history.counted # {}
        OBVIOUS
    <2>1. /\ history.steps = feedback.elapsed /\ (feedback.appeared => history.counted # {})
          /\ feedback \in FeedbackType /\ feedback.elapsed \in 0..(Timeout - 1)
        BY ShownFacts DEF IInv, HistoryHolds, FeedbackType
    <2>2. CASE EndFeedback /\ \/ feedback.elapsed + 1 >= Timeout
                              \/ feedback.appeared /\ feedback.elapsed + 1 >= Minimum
        BY <2>1, <2>2
    <2>3. CASE /\ ~(feedback.elapsed + 1 >= Timeout)
               /\ feedback' = Drawn([feedback EXCEPT !.elapsed = feedback.elapsed + 1])
        <3>1. feedback.elapsed + 1 \in 0..(Timeout - 1)
            BY <2>1, <2>3, Bounds
        <3>2. PICK f : f = [feedback EXCEPT !.elapsed = feedback.elapsed + 1]
            OBVIOUS
        <3>3. f \in FeedbackType /\ f.number = feedback.number
            BY <2>1, <3>1, <3>2 DEF FeedbackType
        <3>4. feedback'.number # 0
            BY <2>1, <2>3, <3>2, <3>3, DrawnFacts, ShownFacts DEF IInv
        <3>5. QED
            BY <3>4 DEF NoFeedback
    <2>4. QED
        BY <2>2, <2>3 DEF Tick
<1>2. IInv /\ [Next]_vars => [Reason]_vars
    BY <1>1
<1>3. QED
    BY <1>2, InitIInv, NextIInv, PTL DEF Spec, EndsForAReason

=============================================================================
