--------------------------- MODULE Helpers_proofs ---------------------------
(***************************************************************************)
(* The output of a pipeline is what its last program wrote, for every size *)
(* of the pipes, history, menu and image; a helper that reports success    *)
(* has done the whole of what was picked; the decoder of utf8.qjs.ts       *)
(* follows the table of UTF-8 for every sequence of bytes, and the encoder *)
(* undoes it for every text of characters.                                 *)
(***************************************************************************)
EXTENDS Helpers, FiniteSetTheorems, SequenceTheorems, TLAPS

-----------------------------------------------------------------------------
(* Induction, and FlattenSeq *)

\* A set of numbers has a least one. Induction over a length or a position is by it: the
\* first counterexample is not 0, and the one before it is none.
LEMMA Least ==
    ASSUME NEW T, T \subseteq Nat, T # {}
    PROVE  \E m \in T : \A k \in T : m <= k
<1>1. IsWellFoundedOn(StrictSubsetOrdering(Nat), FiniteSubsetsOf(Nat))
    BY FS_StrictSubsetOrderingWellFounded
<1> DEFINE Upto == {0 .. k : k \in T}
<1>2. Upto \subseteq FiniteSubsetsOf(Nat) /\ Upto # {}
    <2> SUFFICES ASSUME NEW k \in T PROVE 0 .. k \in FiniteSubsetsOf(Nat)
        OBVIOUS
    <2>1. 0 \in Int /\ k \in Int /\ 0 .. k \subseteq Nat
        OBVIOUS
    <2>2. IsFiniteSet(0 .. k)
        BY <2>1, FS_Interval
    <2>3. QED
        BY <2>1, <2>2 DEF FiniteSubsetsOf
<1>3. \E x \in Upto : \A y \in Upto : ~ (<<y, x>> \in StrictSubsetOrdering(Nat))
    <2> HIDE DEF Upto
    <2> QED
        BY <1>1, <1>2, WFMin
<1>4. PICK m \in T : \A k \in T : ~ (<<0 .. k, 0 .. m>> \in StrictSubsetOrdering(Nat))
    BY <1>3
<1>5. ASSUME NEW k \in T, k < m PROVE FALSE
    <2>1. <<0 .. k, 0 .. m>> \in StrictSubsetOrdering(Nat)
        BY <1>5 DEF StrictSubsetOrdering
    <2>2. QED
        BY <1>4, <2>1
<1>6. QED
    BY <1>5

\* What holds of 0, and of m when it holds of m - 1, holds up to n: T is where it holds.
LEMMA Induction ==
    ASSUME NEW T, NEW n \in Nat, 0 \in T, \A m \in 1 .. n : m - 1 \in T => m \in T
    PROVE  \A m \in 0 .. n : m \in T
<1> DEFINE F == {m \in 0 .. n : m \notin T}
<1> SUFFICES ASSUME F # {} PROVE FALSE
    OBVIOUS
<1>1. F \subseteq Nat
    OBVIOUS
<1>2. PICK m \in F : \A k \in F : m <= k
    <2> HIDE DEF F
    <2> QED
        BY <1>1, Least
<1>3. m \in 1 .. n /\ m - 1 \in 0 .. n /\ m - 1 \notin F
    BY <1>2
<1>4. QED
    BY <1>3

AreSteps(step, n, S) == step \in [1 .. n -> [S -> S]]
Repeats(f, n, S, base, step) ==
    /\ f \in [0 .. n -> S]
    /\ f[0] = base /\ \A i \in 1 .. n : f[i] = step[i][f[i - 1]]

\* Repeating n steps defines a function.
LEMMA Iteration ==
    ASSUME NEW S, NEW base \in S, NEW n \in Nat, NEW step, AreSteps(step, n, S)
    PROVE  \E f : Repeats(f, n, S, base, step)
<1> USE DEF AreSteps
<1> DEFINE Steps(f, m) == f[0] = base /\ \A i \in 1 .. m : f[i] = step[i][f[i - 1]]
           T == {m \in 0 .. n : \E f \in [0 .. m -> S] : Steps(f, m)}
<1>1. 0 \in T
    <2> DEFINE f == [i \in 0 .. 0 |-> base]
    <2>1. f \in [0 .. 0 -> S] /\ f[0] = base /\ 1 .. 0 = {}
        OBVIOUS
    <2>2. Steps(f, 0)
        BY <2>1
    <2>3. \E g \in [0 .. 0 -> S] : Steps(g, 0)
        BY <2>1, <2>2
    <2>4. QED
        <3> HIDE DEF Steps
        <3> QED
            BY <2>3
<1>2. ASSUME NEW m \in 1 .. n, m - 1 \in T PROVE m \in T
    <2>1. PICK f \in [0 .. m - 1 -> S] : Steps(f, m - 1)
        BY <1>2
    <2> DEFINE g == [i \in 0 .. m |-> IF i < m THEN f[i] ELSE step[m][f[m - 1]]]
    <2>2. f[m - 1] \in S /\ step[m] \in [S -> S]
        OBVIOUS
    <2>3. g \in [0 .. m -> S]
        BY <2>2
    <2>4. g[0] = base
        BY <2>1
    <2>5. ASSUME NEW i \in 1 .. m PROVE g[i] = step[i][g[i - 1]]
        <3>1. CASE i = m
            BY <3>1
        <3>2. CASE i < m
            <4>1. i \in 1 .. m - 1 /\ i - 1 \in 0 .. m - 1 /\ g[i] = f[i] /\ g[i - 1] = f[i - 1]
                BY <3>2
            <4>2. QED
                BY <2>1, <4>1
        <3>3. QED
            BY <3>1, <3>2
    <2>6. Steps(g, m)
        BY <2>4, <2>5
    <2>7. QED
        <3> HIDE DEF Steps, g
        <3> QED
            BY <2>3, <2>6
<1>3. n \in T
    <2> HIDE DEF T
    <2>1. \A m \in 0 .. n : m \in T
        BY <1>1, <1>2, Induction
    <2>2. QED
        BY <2>1
<1>4. QED
    BY <1>3 DEF Repeats

\* What holds of the empty sequence, and of every one longer by an element, holds of all.
LEMMA SeqInduction ==
    ASSUME NEW S, NEW T, << >> \in T,
           \A s \in Seq(S), x \in S : s \in T => Append(s, x) \in T
    PROVE  Seq(S) \subseteq T
<1> SUFFICES ASSUME NEW q \in Seq(S) PROVE q \in T
    OBVIOUS
<1> DEFINE n == Len(q)
           U == {k \in 0 .. n : \A s \in Seq(S) : Len(s) = k => s \in T}
<1>1. n \in Nat
    OBVIOUS
<1>2. 0 \in U
    <2>1. \A s \in Seq(S) : Len(s) = 0 => s = << >>
        BY EmptySeq
    <2>2. QED
        BY <1>1, <2>1
<1>3. ASSUME NEW k \in 1 .. n, k - 1 \in U PROVE k \in U
    <2> SUFFICES ASSUME NEW s \in Seq(S), Len(s) = k PROVE s \in T
        OBVIOUS
    <2>1. s # << >>
        BY <1>1, EmptySeq
    <2>2. PICK p \in Seq(S), x \in S : s = Append(p, x)
        BY <2>1, SequenceEmptyOrAppend
    <2>3. Len(p) = k - 1
        BY <2>2
    <2>4. p \in T
        BY <1>3, <2>3
    <2>5. QED
        BY <2>2, <2>4
<1>4. \A k \in 0 .. n : k \in U
    <2> HIDE DEF U
    <2> QED
        BY <1>1, <1>2, <1>3, Induction
<1>5. n \in U
    BY <1>1, <1>4
<1>6. QED
    BY <1>5

-----------------------------------------------------------------------------
(* FlattenSeq *)

\* t's parts one after the other, up to each of them.
IsFlattening(f, t) ==
    /\ DOMAIN f = 1 .. Len(t)
    /\ \A i \in 1 .. Len(t) : f[i] = IF i = 1 THEN t[i] ELSE f[i - 1] \o t[i]

\* FlattenSeq adds one sequence after another: the sum up to each is the sum before it and it.
LEMMA Flattening ==
    ASSUME NEW S, NEW t \in Seq(Seq(S)), t # << >>
    PROVE  \E f \in [1 .. Len(t) -> Seq(S)] : IsFlattening(f, t) /\ FlattenSeq(t) = f[Len(t)]
<1> DEFINE n == Len(t)
           E(f, i) == IF i = 1 THEN t[i] ELSE f[i - 1] \o t[i]
           IsFlat(f) == f = [i \in 1 .. n |-> E(f, i)]
           flat == CHOOSE f : IsFlat(f)
<1>1. n \in Nat \ {0} /\ \A i \in 1 .. n : t[i] \in Seq(S)
    BY EmptySeq, ElementOfSeq
<1> DEFINE step == [i \in 1 .. n |-> [x \in Seq(S) |-> IF i = 1 THEN t[1] ELSE x \o t[i]]]
<1>2. step \in [1 .. n -> [Seq(S) -> Seq(S)]]
    BY <1>1
<1>3. << >> \in Seq(S)
    OBVIOUS
<1>4. PICK f \in [0 .. n -> Seq(S)] : f[0] = << >> /\ \A i \in 1 .. n : f[i] = step[i][f[i - 1]]
    <2>1. n \in Nat /\ AreSteps(step, n, Seq(S))
        BY <1>1, <1>2 DEF AreSteps
    <2> HIDE DEF step, n
    <2>2. PICK f : Repeats(f, n, Seq(S), << >>, step)
        BY <1>3, <2>1, Iteration, Zenon
    <2>3. QED
        BY <2>2 DEF Repeats
<1> DEFINE g == [i \in 1 .. n |-> f[i]]
<1>5. \A i \in 1 .. n : g[i] = E(g, i)
    <2> SUFFICES ASSUME NEW i \in 1 .. n PROVE g[i] = E(g, i)
        OBVIOUS
    <2>1. f[i - 1] \in Seq(S) /\ f[i] = IF i = 1 THEN t[1] ELSE f[i - 1] \o t[i]
        <3>0. i - 1 \in 0 .. n
            BY <1>1
        <3>1. f[i - 1] \in Seq(S)
            BY <3>0, Zenon
        <3>2. f[i] = step[i][f[i - 1]]
            BY <1>4
        <3>3. step[i][f[i - 1]] = IF i = 1 THEN t[1] ELSE f[i - 1] \o t[i]
            BY <3>1
        <3>4. QED
            BY <3>1, <3>2, <3>3
    <2>2. i # 1 => i - 1 \in 1 .. n
        BY <1>1
    <2>3. QED
        BY <2>1, <2>2
<1>6. IsFlat(g)
    <2>1. g = [i \in 1 .. n |-> g[i]]
        OBVIOUS
    <2>2. [i \in 1 .. n |-> g[i]] = [i \in 1 .. n |-> E(g, i)]
        <3> HIDE DEF g, E
        <3> QED
            BY <1>5
    <2>3. QED
        BY <2>1, <2>2
<1>7. IsFlat(flat)
    <2> HIDE DEF IsFlat, g
    <2> QED
        BY <1>6
<1>8. FlattenSeq(t) = flat[n]
    BY <1>1, Zenon DEF FlattenSeq
<1>9. DOMAIN flat = 1 .. n /\ \A i \in 1 .. n : flat[i] = E(flat, i)
    <2> HIDE DEF flat
    <2> QED
        BY <1>7
<1>10. \A i \in 0 .. n : i = 0 \/ flat[i] \in Seq(S)
    <2> DEFINE T == {i \in 0 .. n : i = 0 \/ flat[i] \in Seq(S)}
    <2> HIDE DEF flat
    <2>1. 0 \in T
        BY <1>1
    <2>2. ASSUME NEW i \in 1 .. n, i - 1 \in T PROVE i \in T
        <3>1. CASE i = 1
            <4>0. flat[i] = E(flat, i) /\ t[i] \in Seq(S)
                BY <1>1, <1>9, Zenon
            <4>1. flat[i] = t[i] /\ t[i] \in Seq(S) /\ i \in 0 .. n
                BY <3>1, <4>0
            <4>2. QED
                BY <4>1, Zenon
        <3>2. CASE i # 1
            <4>1. flat[i] = flat[i - 1] \o t[i]
                BY <1>9, <3>2
            <4>2. flat[i - 1] \in Seq(S)
                BY <2>2, <3>2
            <4>3. flat[i] \in Seq(S)
                BY <1>1, <4>1, <4>2, ConcatProperties
            <4>4. QED
                BY <4>3
        <3>3. QED
            BY <3>1, <3>2
    <2>3. \A i \in 0 .. n : i \in T
        <3> HIDE DEF T
        <3> QED
            BY <1>1, <2>1, <2>2, Induction
    <2>4. QED
        BY <2>3
<1>11. flat \in [1 .. n -> Seq(S)]
    <2> HIDE DEF flat
    <2>1. \A i \in 1 .. n : flat[i] \in Seq(S)
        BY <1>10
    <2>2. flat = [i \in 1 .. n |-> flat[i]]
        BY <1>7
    <2>3. QED
        BY <2>1, <2>2
<1>12. QED
    <2> HIDE DEF flat
    <2> QED
        BY <1>8, <1>9, <1>11 DEF IsFlattening

\* Nothing flattened is nothing.
LEMMA FlattenEmpty == FlattenSeq(<< >>) = << >>
    BY EmptySeq DEF FlattenSeq

\* Flattening sequences over a set gives a sequence over it.
LEMMA FlattenType ==
    ASSUME NEW S, NEW t \in Seq(Seq(S))
    PROVE  FlattenSeq(t) \in Seq(S)
<1>1. CASE t = << >>
    BY <1>1, FlattenEmpty, EmptySeq
<1>2. CASE t # << >>
    <2>1. Len(t) \in Nat \ {0}
        BY <1>2, EmptySeq
    <2>2. PICK f \in [1 .. Len(t) -> Seq(S)] : FlattenSeq(t) = f[Len(t)]
        BY <1>2, Flattening
    <2>3. Len(t) \in 1 .. Len(t)
        BY <2>1
    <2>4. QED
        BY <2>2, <2>3, Zenon
<1>3. QED
    BY <1>1, <1>2

\* Two sequences of parts are as long, and have the same first n parts.
LEMMA FlattenAppend ==
    ASSUME NEW S, NEW s \in Seq(Seq(S)), NEW x \in Seq(S)
    PROVE  FlattenSeq(Append(s, x)) = FlattenSeq(s) \o x
<1> DEFINE t == Append(s, x)
           n == Len(s)
<1>1. /\ n \in Nat /\ t \in Seq(Seq(S)) /\ Len(t) = n + 1
      /\ t[n + 1] = x /\ \A i \in 1 .. n : t[i] = s[i] /\ s[i] \in Seq(S)
    OBVIOUS
<1> HIDE DEF t
<1>2. PICK g \in [1 .. n + 1 -> Seq(S)] : IsFlattening(g, t) /\ FlattenSeq(t) = g[n + 1]
    BY <1>1, Flattening, EmptySeq
<1>3. CASE s = << >>
    <2>1. n = 0
        BY <1>3
    <2>2. g[1] = x
        BY <1>1, <1>2, <2>1 DEF IsFlattening
    <2>3. << >> \o x = x
        BY ConcatEmptySeq
    <2>4. QED
        BY <1>2, <1>3, <2>1, <2>2, <2>3, FlattenEmpty DEF t
<1>4. CASE s # << >>
    <2>1. PICK f \in [1 .. n -> Seq(S)] : IsFlattening(f, s) /\ FlattenSeq(s) = f[n]
        BY <1>4, Flattening
    <2>2. n \in Nat \ {0}
        BY <1>4, EmptySeq
    <2>8. \A i \in 1 .. n : f[i] = IF i = 1 THEN s[i] ELSE f[i - 1] \o s[i]
        BY <2>1 DEF IsFlattening
    <2>9. \A i \in 1 .. n + 1 : g[i] = IF i = 1 THEN t[i] ELSE g[i - 1] \o t[i]
        BY <1>1, <1>2 DEF IsFlattening
    <2> HIDE DEF n
    <2> DEFINE T == {i \in 0 .. n : i = 0 \/ f[i] = g[i]}
    <2>3. ASSUME NEW i \in 1 .. n, i - 1 \in T PROVE i \in T
        <3>1. f[i] = IF i = 1 THEN s[i] ELSE f[i - 1] \o s[i]
            BY <2>8
        <3>2. g[i] = IF i = 1 THEN t[i] ELSE g[i - 1] \o t[i]
            <4>1. i \in 1 .. n + 1
                BY <2>2
            <4>2. QED
                BY <2>9, <4>1, Zenon
        <3>3. i # 1 => f[i - 1] = g[i - 1]
            BY <2>3
        <3>4. f[i] = g[i]
            BY <1>1, <3>1, <3>2, <3>3
        <3>5. QED
            BY <3>4
    <2>4. \A i \in 0 .. n : i \in T
        <3>1. 0 \in T /\ n \in Nat
            BY <2>2
        <3> HIDE DEF T
        <3> QED
            BY <2>3, <3>1, Induction
    <2>5. f[n] = g[n]
        BY <2>2, <2>4
    <2>6. g[n + 1] = g[n] \o t[n + 1]
        <3>1. n + 1 \in 1 .. n + 1 /\ n + 1 # 1 /\ (n + 1) - 1 = n
            BY <2>2
        <3>2. QED
            BY <2>9, <3>1
    <2>7. QED
        BY <1>1, <1>2, <2>1, <2>5, <2>6 DEF t
<1>5. QED
    BY <1>3, <1>4

-----------------------------------------------------------------------------
(* The decoder keeps its type *)

\* Bytes and code units are numbers: nothing here depends on how large they are.
Numbers == Seq(Nat)

\* A number appended to a concatenation is appended to its second part.
LEMMA AppendToConcat ==
    ASSUME NEW s \in Numbers, NEW t \in Numbers, NEW x \in Nat
    PROVE  Append(s \o t, x) = s \o Append(t, x)
<1>1. s \o t \in Numbers /\ <<x>> \in Numbers
    BY ConcatProperties DEF Numbers
<1>2. Append(s \o t, x) = (s \o t) \o <<x>>
    BY <1>1, AppendIsConcat DEF Numbers
<1>3. Append(t, x) = t \o <<x>>
    BY AppendIsConcat DEF Numbers
<1>4. QED
    BY <1>1, <1>2, <1>3, ConcatAssociative DEF Numbers

DecoderState ==
    [points : Numbers, point : Nat, needed : 0 .. 3, lower : Nat, upper : Nat]

\* The cases of Lead, with what each makes of the byte.
LEMMA LeadCases ==
    ASSUME NEW d, NEW byte \in Nat
    PROVE  /\ byte < 128 => Lead(d, byte) = Push(d, byte)
           /\ byte \in 194 .. 223 => Lead(d, byte) = BeginPoint(d, byte % 32, 1, 128, 191)
           /\ byte \in 224 .. 239 =>
                  Lead(d, byte) = BeginPoint(d, byte % 16, 2, IF byte = 224 THEN 160 ELSE 128,
                                             IF byte = 237 THEN 159 ELSE 191)
           /\ byte \in 240 .. 244 =>
                  Lead(d, byte) = BeginPoint(d, byte % 8, 3, IF byte = 240 THEN 144 ELSE 128,
                                             IF byte = 244 THEN 143 ELSE 191)
           /\ byte \in 128 .. 193 \/ byte > 244 => Lead(d, byte) = Push(d, REPLACEMENT)
<1>1. CASE byte < 128
    BY <1>1 DEF Lead
<1>2. CASE byte \in 194 .. 223
    <2>1. byte \notin 0 .. 127 /\ byte \notin 224 .. 239 /\ byte \notin 240 .. 244
        BY <1>2
    <2>2. Lead(d, byte) = BeginPoint(d, byte % 32, 1, 128, 191)
        BY <1>2, <2>1, SMT DEF Lead
    <2>3. QED
        BY <1>2, <2>2
<1>3. CASE byte \in 224 .. 239
    <2>1. byte \notin 0 .. 127 /\ byte \notin 194 .. 223 /\ byte \notin 240 .. 244
        BY <1>3
    <2>2. Lead(d, byte) = BeginPoint(d, byte % 16, 2, IF byte = 224 THEN 160 ELSE 128,
                                             IF byte = 237 THEN 159 ELSE 191)
        BY <1>3, <2>1, SMT DEF Lead
    <2>3. QED
        BY <1>3, <2>2
<1>4. CASE byte \in 240 .. 244
    <2>1. byte \notin 0 .. 127 /\ byte \notin 194 .. 223 /\ byte \notin 224 .. 239
        BY <1>4
    <2>2. Lead(d, byte) = BeginPoint(d, byte % 8, 3, IF byte = 240 THEN 144 ELSE 128,
                                             IF byte = 244 THEN 143 ELSE 191)
        BY <1>4, <2>1, SMT DEF Lead
    <2>3. QED
        BY <1>4, <2>2
<1>5. CASE byte \in 128 .. 193 \/ byte > 244
    <2>1. byte \notin 0 .. 127 /\ byte \notin 194 .. 223 /\ byte \notin 224 .. 239 /\ byte \notin 240 .. 244
        BY <1>5
    <2>2. Lead(d, byte) = Push(d, REPLACEMENT)
        BY <2>1, Zenon DEF Lead
    <2>3. QED
        BY <1>5, <2>2
<1>6. QED
    BY <1>1, <1>2, <1>3, <1>4, <1>5

\* Between two pieces the decoder has the state of utf8.qjs.ts: five numbers, of them a list.
LEMMA BetweenType ==
    ASSUME NEW points \in Numbers
    PROVE  Between(points) \in DecoderState
    BY DEF Between, DecoderState

\* A point that is finished leaves such a state.
LEMMA PushType ==
    ASSUME NEW d \in DecoderState, NEW byte \in Nat
    PROVE  Push(d, byte) \in DecoderState
<1>1. d.points \in Numbers
    BY DEF DecoderState
<1>2. Append(d.points, byte) \in Numbers
    BY <1>1 DEF Numbers
<1>3. QED
    BY <1>2, BetweenType DEF Push

\* So does the start of one, whatever the bounds of its next byte.
LEMMA BeginPointType ==
    ASSUME NEW d \in DecoderState, NEW p \in Nat, NEW l \in Nat, NEW u \in Nat, NEW n \in 0 .. 3
    PROVE  BeginPoint(d, p, n, l, u) \in DecoderState
    BY DEF BeginPoint, DecoderState

\* So does a first byte, whatever it is.
LEMMA LeadType ==
    ASSUME NEW d \in DecoderState, NEW byte \in Nat
    PROVE  Lead(d, byte) \in DecoderState
<1>1. byte % 32 \in Nat /\ byte % 16 \in Nat /\ byte % 8 \in Nat /\ REPLACEMENT \in Nat
    BY DEF REPLACEMENT
<1>2. CASE byte < 128
    BY <1>2, PushType, LeadCases
<1>3. CASE byte \in 194 .. 223
    <2> DEFINE l == 128
               u == 191
    <2>1. l \in Nat /\ u \in Nat /\ 1 \in 0 .. 3
        OBVIOUS
    <2> HIDE DEF l, u
    <2>2. BeginPoint(d, byte % 32, 1, l, u) \in DecoderState
        BY <1>1, <2>1, BeginPointType
    <2>3. Lead(d, byte) = BeginPoint(d, byte % 32, 1, l, u)
        BY <1>3, LeadCases DEF l, u
    <2>4. QED
        BY <2>2, <2>3
<1>4. CASE byte \in 224 .. 239
    <2> DEFINE l == IF byte = 224 THEN 160 ELSE 128
               u == IF byte = 237 THEN 159 ELSE 191
    <2>1. l \in Nat /\ u \in Nat /\ 2 \in 0 .. 3
        OBVIOUS
    <2> HIDE DEF l, u
    <2>2. BeginPoint(d, byte % 16, 2, l, u) \in DecoderState
        BY <1>1, <2>1, BeginPointType
    <2>3. Lead(d, byte) = BeginPoint(d, byte % 16, 2, l, u)
        BY <1>4, LeadCases DEF l, u
    <2>4. QED
        BY <2>2, <2>3
<1>5. CASE byte \in 240 .. 244
    <2> DEFINE l == IF byte = 240 THEN 144 ELSE 128
               u == IF byte = 244 THEN 143 ELSE 191
    <2>1. l \in Nat /\ u \in Nat /\ 3 \in 0 .. 3
        OBVIOUS
    <2> HIDE DEF l, u
    <2>2. BeginPoint(d, byte % 8, 3, l, u) \in DecoderState
        BY <1>1, <2>1, BeginPointType
    <2>3. Lead(d, byte) = BeginPoint(d, byte % 8, 3, l, u)
        BY <1>5, LeadCases DEF l, u
    <2>4. QED
        BY <2>2, <2>3
<1>6. CASE byte \in 128 .. 193 \/ byte > 244
    BY <1>1, <1>6, PushType, LeadCases
<1>7. QED
    BY <1>2, <1>3, <1>4, <1>5, <1>6

Fresh == Between(<< >>)

\* So does the start.
LEMMA FreshType == Fresh \in DecoderState
<1>1. << >> \in Numbers
    BY DEF Numbers
<1>2. QED
    BY <1>1, BetweenType DEF Fresh

\* So does every byte.
LEMMA NextByteType ==
    ASSUME NEW d \in DecoderState, NEW byte \in Nat
    PROVE  NextByte(d, byte) \in DecoderState
<1>1. /\ Lead(d, byte) \in DecoderState
      /\ Push(d, REPLACEMENT) \in DecoderState /\ Lead(Push(d, REPLACEMENT), byte) \in DecoderState
    BY PushType, LeadType DEF REPLACEMENT
<1>2. d.needed \in 0 .. 3 /\ d.point * 64 + (byte % 64) \in Nat
    BY DEF DecoderState
<1>3. Push(d, d.point * 64 + (byte % 64)) \in DecoderState
    BY <1>2, PushType
<1>4. d.needed > 1 => BeginPoint(d, d.point * 64 + (byte % 64), d.needed - 1, 128, 191) \in DecoderState
    BY <1>2 DEF DecoderState, BeginPoint
<1>5. CASE d.needed = 0
    BY <1>1, <1>5 DEF NextByte
<1>6. CASE d.needed # 0 /\ byte \notin d.lower .. d.upper
    BY <1>1, <1>6 DEF NextByte
<1>7. CASE d.needed = 1 /\ byte \in d.lower .. d.upper
    BY <1>3, <1>7 DEF NextByte
<1>8. CASE d.needed > 1 /\ byte \in d.lower .. d.upper
    BY <1>4, <1>8 DEF NextByte
<1>9. QED
    BY <1>2, <1>5, <1>6, <1>7, <1>8

\* The states the decoder goes through.
IsDecoding(f, bytes) ==
    /\ f[0] = Fresh
    /\ \A i \in 1 .. Len(bytes) : f[i] = NextByte(f[i - 1], bytes[i])

\* The fold of the decoder over the bytes is a sequence of its states.
LEMMA Decoding ==
    ASSUME NEW bytes \in Numbers
    PROVE  \E f : IsDecoding(f, bytes) /\ Decoder(bytes) = f[Len(bytes)]
<1> DEFINE n == Len(bytes)
           E(f, i) == IF i = 0 THEN Fresh ELSE NextByte(f[i - 1], bytes[i])
           After(f) == f = [i \in 0 .. n |-> E(f, i)]
           after == CHOOSE f : After(f)
           step == [i \in 1 .. n |-> [d \in DecoderState |-> NextByte(d, bytes[i])]]
<1>1. n \in Nat /\ \A i \in 1 .. n : bytes[i] \in Nat
    BY DEF Numbers
<1>2. AreSteps(step, n, DecoderState)
    BY <1>1, NextByteType DEF AreSteps
<1>3. Fresh \in DecoderState
    BY FreshType
<1>4. PICK f : Repeats(f, n, DecoderState, Fresh, step)
    <2> HIDE DEF step, n
    <2> QED
        BY <1>1, <1>2, <1>3, Iteration, Zenon
<1>5. \A i \in 0 .. n : f[i] = E(f, i)
    <2> SUFFICES ASSUME NEW i \in 0 .. n PROVE f[i] = E(f, i)
        OBVIOUS
    <2>1. CASE i = 0
        BY <1>4, <2>1 DEF Repeats
    <2>2. CASE i # 0
        <3>1. i \in 1 .. n /\ i - 1 \in 0 .. n
            BY <1>1, <2>2
        <3>2. f[i - 1] \in DecoderState /\ f[i] = step[i][f[i - 1]]
            BY <1>4, <3>1, Zenon DEF Repeats
        <3>3. QED
            BY <2>2, <3>1, <3>2, Zenon
    <2>3. QED
        BY <2>1, <2>2
<1>6. After(f)
    <2>1. f \in [0 .. n -> DecoderState]
        BY <1>4 DEF Repeats
    <2>2. f = [i \in 0 .. n |-> f[i]]
        BY <2>1, Zenon
    <2>3. [i \in 0 .. n |-> f[i]] = [i \in 0 .. n |-> E(f, i)]
        <3> HIDE DEF E, n
        <3> QED
            BY <1>5
    <2>4. QED
        BY <2>2, <2>3
<1>7. After(after)
    <2> HIDE DEF After
    <2> QED
        BY <1>6
<1>8. Decoder(bytes) = after[n]
    BY Zenon DEF Decoder, Fresh
<1>9. \A i \in 0 .. n : after[i] = E(after, i)
    <2> HIDE DEF after
    <2> QED
        BY <1>7
<1>10. after[0] = Fresh
    <2> HIDE DEF after
    <2> QED
        BY <1>1, <1>9
<1>11. \A i \in 1 .. n : after[i] = NextByte(after[i - 1], bytes[i])
    <2> HIDE DEF after
    <2> QED
        BY <1>1, <1>9
<1>12. QED
    <2> HIDE DEF after
    <2> QED
        BY <1>8, <1>10, <1>11, Zenon DEF IsDecoding

\* Before the first byte the decoder is at its start.
LEMMA DecoderEmpty == Decoder(<< >>) = Fresh
<1>1. << >> \in Numbers /\ Len(<< >>) = 0
    BY DEF Numbers
<1>2. QED
    BY <1>1, Decoding DEF IsDecoding

\* Each byte takes the decoder one step further.
LEMMA DecoderAppend ==
    ASSUME NEW bytes \in Numbers, NEW byte \in Nat
    PROVE  Decoder(Append(bytes, byte)) = NextByte(Decoder(bytes), byte)
<1> DEFINE t == Append(bytes, byte)
           n == Len(bytes)
<1>1. /\ n \in Nat /\ t \in Numbers /\ Len(t) = n + 1
      /\ t[n + 1] = byte /\ \A i \in 1 .. n : t[i] = bytes[i]
    BY DEF Numbers
<1>2. PICK f : IsDecoding(f, bytes) /\ Decoder(bytes) = f[n]
    BY Decoding
<1>3. PICK g : IsDecoding(g, t) /\ Decoder(t) = g[n + 1]
    BY <1>1, Decoding
<1> HIDE DEF t, n
<1>4. \A i \in 0 .. n : f[i] = g[i]
    <2> DEFINE T == {i \in 0 .. n : f[i] = g[i]}
    <2>1. 0 \in T
        BY <1>1, <1>2, <1>3 DEF IsDecoding
    <2>2. ASSUME NEW i \in 1 .. n, i - 1 \in T PROVE i \in T
        <3>1. i \in 1 .. n + 1 /\ i \in 0 .. n /\ t[i] = bytes[i]
            BY <1>1
        <3>2. f[i] = NextByte(f[i - 1], bytes[i])
            BY <1>2 DEF IsDecoding, n
        <3>3. g[i] = NextByte(g[i - 1], t[i])
            BY <1>1, <1>3, <3>1 DEF IsDecoding
        <3>4. QED
            BY <2>2, <3>1, <3>2, <3>3
    <2>3. \A i \in 0 .. n : i \in T
        <3> HIDE DEF T
        <3> QED
            BY <1>1, <2>1, <2>2, Induction
    <2>4. QED
        BY <2>3
<1>5. f[n] = g[n]
    BY <1>1, <1>4
<1>6. g[n + 1] = NextByte(g[n], byte)
    <2>1. n + 1 \in 1 .. Len(t) /\ (n + 1) - 1 = n
        BY <1>1
    <2>2. QED
        BY <1>1, <1>3, <2>1 DEF IsDecoding
<1>7. QED
    BY <1>2, <1>3, <1>5, <1>6 DEF t

\* The decoder is always in a state of its type.
LEMMA DecoderType ==
    ASSUME NEW bytes \in Numbers
    PROVE  Decoder(bytes) \in DecoderState
<1> DEFINE n == Len(bytes)
<1>1. PICK f : IsDecoding(f, bytes) /\ Decoder(bytes) = f[n]
    BY Decoding
<1>2. n \in Nat /\ \A i \in 1 .. n : bytes[i] \in Nat
    BY DEF Numbers
<1> DEFINE T == {i \in 0 .. n : f[i] \in DecoderState}
<1>3. Fresh \in DecoderState
    BY FreshType
<1>4. 0 \in T
    BY <1>1, <1>2, <1>3 DEF IsDecoding
<1>5. ASSUME NEW i \in 1 .. n, i - 1 \in T PROVE i \in T
    <2>1. f[i] = NextByte(f[i - 1], bytes[i]) /\ f[i - 1] \in DecoderState /\ bytes[i] \in Nat
        BY <1>1, <1>2, <1>5 DEF IsDecoding
    <2>2. f[i] \in DecoderState
        BY <2>1, NextByteType
    <2>3. QED
        BY <2>2
<1>6. \A i \in 0 .. n : i \in T
    <2> HIDE DEF T
    <2> QED
        BY <1>2, <1>4, <1>5, Induction
<1>7. QED
    BY <1>1, <1>2, <1>6

-----------------------------------------------------------------------------
(* The decoder does not depend on what it has found before *)

\* A decoder that has found other points before.
Prefixed(points, d) ==
    [points |-> points \o d.points, point |-> d.point, needed |-> d.needed, lower |-> d.lower, upper |-> d.upper]

\* What was found before stays in front: of a finished point,
LEMMA PushPrefixed ==
    ASSUME NEW points \in Numbers, NEW d \in DecoderState, NEW x \in Nat
    PROVE  Push(Prefixed(points, d), x) = Prefixed(points, Push(d, x))
<1>1. d.points \in Numbers
    BY DEF DecoderState
<1>2. Append(points \o d.points, x) = points \o Append(d.points, x)
    BY <1>1, AppendToConcat
<1>3. QED
    BY <1>2 DEF Push, Prefixed, Between

\* of one that is begun,
LEMMA BeginPrefixed ==
    ASSUME NEW points, NEW d \in DecoderState, NEW p, NEW n, NEW l, NEW u
    PROVE  BeginPoint(Prefixed(points, d), p, n, l, u) = Prefixed(points, BeginPoint(d, p, n, l, u))
    BY DEF BeginPoint, Prefixed

\* of a first byte,
LEMMA LeadPrefixed ==
    ASSUME NEW points \in Numbers, NEW d \in DecoderState, NEW byte \in Nat
    PROVE  Lead(Prefixed(points, d), byte) = Prefixed(points, Lead(d, byte))
<1> DEFINE q == Prefixed(points, d)
<1>1. \A x \in Nat : Push(q, x) = Prefixed(points, Push(d, x))
    BY PushPrefixed
<1>2. \A p, n, l, u : BeginPoint(q, p, n, l, u) = Prefixed(points, BeginPoint(d, p, n, l, u))
    BY BeginPrefixed
<1> HIDE DEF q
<1>3. CASE byte < 128
    BY <1>1, <1>3, LeadCases DEF q
<1>4. CASE byte \in 194 .. 223
    BY <1>2, <1>4, LeadCases DEF q
<1>5. CASE byte \in 224 .. 239
    BY <1>2, <1>5, LeadCases DEF q
<1>6. CASE byte \in 240 .. 244
    BY <1>2, <1>6, LeadCases DEF q
<1>7. CASE byte \in 128 .. 193 \/ byte > 244
    BY <1>1, <1>7, LeadCases DEF q, REPLACEMENT
<1>8. QED
    BY <1>3, <1>4, <1>5, <1>6, <1>7

\* The cases of NextByte.
LEMMA NextByteCases ==
    ASSUME NEW d \in DecoderState, NEW byte \in Nat
    PROVE  /\ d.needed = 0 => NextByte(d, byte) = Lead(d, byte)
           /\ d.needed # 0 /\ byte \notin d.lower .. d.upper =>
                  NextByte(d, byte) = Lead(Push(d, REPLACEMENT), byte)
           /\ d.needed = 1 /\ byte \in d.lower .. d.upper =>
                  NextByte(d, byte) = Push(d, d.point * 64 + (byte % 64))
           /\ d.needed > 1 /\ byte \in d.lower .. d.upper =>
                  NextByte(d, byte) = BeginPoint(d, d.point * 64 + (byte % 64), d.needed - 1, 128, 191)
<1>1. d.needed \in 0 .. 3
    BY DEF DecoderState
<1>2. CASE d.needed = 0
    BY <1>2 DEF NextByte
<1>3. CASE d.needed # 0 /\ byte \notin d.lower .. d.upper
    BY <1>3 DEF NextByte
<1>4. CASE d.needed = 1 /\ byte \in d.lower .. d.upper
    BY <1>4 DEF NextByte
<1>5. CASE d.needed > 1 /\ byte \in d.lower .. d.upper
    BY <1>5 DEF NextByte
<1>6. QED
    BY <1>1, <1>2, <1>3, <1>4, <1>5

\* and of any byte. The decoder looks at no point it has found.
LEMMA NextBytePrefixed ==
    ASSUME NEW points \in Numbers, NEW d \in DecoderState, NEW byte \in Nat
    PROVE  NextByte(Prefixed(points, d), byte) = Prefixed(points, NextByte(d, byte))
<1> DEFINE q == Prefixed(points, d)
<1>1. /\ q.point = d.point /\ q.needed = d.needed /\ q.lower = d.lower /\ q.upper = d.upper
      /\ q \in DecoderState
    <2>1. points \o d.points \in Numbers
        BY ConcatProperties DEF Numbers, DecoderState
    <2>2. QED
        BY <2>1 DEF Prefixed, DecoderState
<1>2. \A x \in Nat : Push(q, x) = Prefixed(points, Push(d, x))
    BY PushPrefixed
<1>3. \A p, n, l, u : BeginPoint(q, p, n, l, u) = Prefixed(points, BeginPoint(d, p, n, l, u))
    BY BeginPrefixed
<1>4. \A e \in DecoderState : Lead(Prefixed(points, e), byte) = Prefixed(points, Lead(e, byte))
    BY LeadPrefixed
<1>5. d.point \in Nat /\ d.needed \in 0 .. 3 /\ d.point * 64 + (byte % 64) \in Nat
    BY DEF DecoderState
<1> HIDE DEF q
<1>6. CASE d.needed = 0
    BY <1>1, <1>4, <1>6, NextByteCases DEF q
<1>7. CASE d.needed # 0 /\ byte \notin d.lower .. d.upper
    <2>1. NextByte(d, byte) = Lead(Push(d, REPLACEMENT), byte)
        BY <1>7, NextByteCases
    <2>2. NextByte(q, byte) = Lead(Push(q, REPLACEMENT), byte)
        BY <1>1, <1>7, NextByteCases
    <2>3. Push(d, REPLACEMENT) \in DecoderState /\ Push(q, REPLACEMENT) = Prefixed(points, Push(d, REPLACEMENT))
        BY <1>2, PushType DEF REPLACEMENT
    <2>4. QED
        BY <1>4, <2>1, <2>2, <2>3 DEF q
<1>8. CASE d.needed = 1 /\ byte \in d.lower .. d.upper
    <2> DEFINE v == d.point * 64 + (byte % 64)
    <2>1. NextByte(d, byte) = Push(d, v) /\ NextByte(q, byte) = Push(q, v) /\ v \in Nat
        BY <1>1, <1>5, <1>8, NextByteCases
    <2> HIDE DEF v
    <2>2. QED
        BY <1>2, <2>1 DEF q
<1>9. CASE d.needed > 1 /\ byte \in d.lower .. d.upper
    BY <1>1, <1>3, <1>5, <1>9, NextByteCases DEF q
<1>10. QED
    BY <1>5, <1>6, <1>7, <1>8, <1>9

\* Between two characters the decoder starts again.
LEMMA DecoderConcat ==
    ASSUME NEW first \in Numbers, NEW second \in Numbers, NEW points \in Numbers,
           Decoder(first) = Between(points)
    PROVE  Decoder(first \o second) = Prefixed(points, Decoder(second))
<1> DEFINE T == {s \in Numbers : Decoder(first \o s) = Prefixed(points, Decoder(s))}
<1>1. << >> \in T
    <2>1. first \o << >> = first /\ points \o << >> = points /\ << >> \in Numbers
        BY ConcatEmptySeq DEF Numbers
    <2>2. Prefixed(points, Fresh) = Between(points)
        BY <2>1 DEF Prefixed, Fresh, Between
    <2>3. QED
        BY <2>1, <2>2, DecoderEmpty
<1>2. ASSUME NEW s \in Numbers, NEW x \in Nat, s \in T PROVE Append(s, x) \in T
    <2>1. Append(s, x) \in Numbers /\ first \o s \in Numbers
        BY ConcatProperties DEF Numbers
    <2>2. first \o Append(s, x) = Append(first \o s, x)
        BY AppendToConcat
    <2>3. Decoder(Append(first \o s, x)) = NextByte(Decoder(first \o s), x)
        BY <2>1, DecoderAppend
    <2>4. Decoder(Append(s, x)) = NextByte(Decoder(s), x) /\ Decoder(s) \in DecoderState
        BY DecoderAppend, DecoderType
    <2>5. Decoder(first \o s) = Prefixed(points, Decoder(s))
        BY <1>2
    <2>6. Decoder(first \o Append(s, x)) = Prefixed(points, Decoder(Append(s, x)))
        BY <2>2, <2>3, <2>4, <2>5, NextBytePrefixed
    <2>7. QED
        BY <2>1, <2>6
<1>3. Seq(Nat) \subseteq T
    <2> HIDE DEF T
    <2> QED
        BY <1>1, <1>2, SeqInduction DEF Numbers
<1>4. QED
    BY <1>3 DEF Numbers

-----------------------------------------------------------------------------
(* The table of UTF-8, by the first byte *)

\* How many bytes the first one announces, and the range of the second.
Size(byte) ==
    IF byte < 128 THEN 1 ELSE IF byte \in 194 .. 223 THEN 2
    ELSE IF byte \in 224 .. 239 THEN 3 ELSE IF byte \in 240 .. 244 THEN 4 ELSE 0
Lowest(byte) == IF byte = 224 THEN 160 ELSE IF byte = 240 THEN 144 ELSE 128
Highest(byte) == IF byte = 237 THEN 159 ELSE IF byte = 244 THEN 143 ELSE 191

\* u is the beginning of a well-formed sequence.
Fits(u) ==
    /\ u # << >> /\ Len(u) <= Size(u[1])
    /\ Len(u) > 1 => u[2] \in Lowest(u[1]) .. Highest(u[1])
    /\ Len(u) > 2 => u[3] \in 128 .. 191
    /\ Len(u) > 3 => u[4] \in 128 .. 191

\* What it means to begin as a form of one byte in the table,
LEMMA BeginsOne ==
    ASSUME NEW u \in Numbers, u # << >>, NEW A
    PROVE  Begins(u, <<A>>) <=>
               Len(u) <= 1 /\ u[1] \in A
<1>1. Len(u) \in Nat \ {0} /\ DOMAIN u = 1 .. Len(u)
    BY EmptySeq DEF Numbers
<1>2. Len(<<A>>) = 1 /\ <<A>>[1] = A
    OBVIOUS
<1>3. QED
    BY <1>1, <1>2 DEF Begins

\* of two bytes,
LEMMA BeginsTwo ==
    ASSUME NEW u \in Numbers, u # << >>, NEW A, NEW B
    PROVE  Begins(u, <<A, B>>) <=>
               Len(u) <= 2 /\ u[1] \in A /\ (Len(u) > 1 => u[2] \in B)
<1>1. Len(u) \in Nat \ {0} /\ DOMAIN u = 1 .. Len(u)
    BY EmptySeq DEF Numbers
<1>2. Len(<<A, B>>) = 2 /\ <<A, B>>[1] = A /\ <<A, B>>[2] = B
    OBVIOUS
<1>3. QED
    BY <1>1, <1>2 DEF Begins

\* of three,
LEMMA BeginsThree ==
    ASSUME NEW u \in Numbers, u # << >>, NEW A, NEW B, NEW C
    PROVE  Begins(u, <<A, B, C>>) <=>
               Len(u) <= 3 /\ u[1] \in A /\ (Len(u) > 1 => u[2] \in B) /\ (Len(u) > 2 => u[3] \in C)
<1>1. Len(u) \in Nat \ {0} /\ DOMAIN u = 1 .. Len(u)
    BY EmptySeq DEF Numbers
<1>2. Len(<<A, B, C>>) = 3 /\ <<A, B, C>>[1] = A /\ <<A, B, C>>[2] = B /\ <<A, B, C>>[3] = C
    OBVIOUS
<1>3. QED
    BY <1>1, <1>2 DEF Begins

\* and of four.
LEMMA BeginsFour ==
    ASSUME NEW u \in Numbers, u # << >>, NEW A, NEW B, NEW C, NEW D
    PROVE  Begins(u, <<A, B, C, D>>) <=>
               Len(u) <= 4 /\ u[1] \in A /\ (Len(u) > 1 => u[2] \in B) /\ (Len(u) > 2 => u[3] \in C) /\ (Len(u) > 3 => u[4] \in D)
<1>1. Len(u) \in Nat \ {0} /\ DOMAIN u = 1 .. Len(u)
    BY EmptySeq DEF Numbers
<1>2. Len(<<A, B, C, D>>) = 4 /\ <<A, B, C, D>>[1] = A /\ <<A, B, C, D>>[2] = B /\ <<A, B, C, D>>[3] = C /\ <<A, B, C, D>>[4] = D
    OBVIOUS
<1>3. QED
    BY <1>1, <1>2 DEF Begins

\* What fits, by the first byte.
LEMMA FitsByFirst ==
    ASSUME NEW u \in Numbers, u # << >>
    PROVE  /\ u[1] \in 0 .. 127 => (Fits(u) <=> Len(u) <= 1)
           /\ u[1] \in 194 .. 223 => (Fits(u) <=> Len(u) <= 2 /\ (Len(u) > 1 => u[2] \in 128 .. 191))
           /\ u[1] = 224 => (Fits(u) <=> Len(u) <= 3 /\ (Len(u) > 1 => u[2] \in 160 .. 191) /\ (Len(u) > 2 => u[3] \in 128 .. 191))
           /\ u[1] \in (225 .. 239) \ {237} => (Fits(u) <=> Len(u) <= 3 /\ (Len(u) > 1 => u[2] \in 128 .. 191) /\ (Len(u) > 2 => u[3] \in 128 .. 191))
           /\ u[1] = 237 => (Fits(u) <=> Len(u) <= 3 /\ (Len(u) > 1 => u[2] \in 128 .. 159) /\ (Len(u) > 2 => u[3] \in 128 .. 191))
           /\ u[1] = 240 => (Fits(u) <=> Len(u) <= 4 /\ (Len(u) > 1 => u[2] \in 144 .. 191) /\ (Len(u) > 2 => u[3] \in 128 .. 191) /\ (Len(u) > 3 => u[4] \in 128 .. 191))
           /\ u[1] \in 241 .. 243 => (Fits(u) <=> Len(u) <= 4 /\ (Len(u) > 1 => u[2] \in 128 .. 191) /\ (Len(u) > 2 => u[3] \in 128 .. 191) /\ (Len(u) > 3 => u[4] \in 128 .. 191))
           /\ u[1] = 244 => (Fits(u) <=> Len(u) <= 4 /\ (Len(u) > 1 => u[2] \in 128 .. 143) /\ (Len(u) > 2 => u[3] \in 128 .. 191) /\ (Len(u) > 3 => u[4] \in 128 .. 191))
           /\ Fits(u) => u[1] \in 0 .. 127 \/ u[1] \in 194 .. 244
<1>1. Len(u) \in Nat \ {0} /\ \A i \in 1 .. Len(u) : u[i] \in Nat
    BY EmptySeq DEF Numbers
<1> DEFINE n == Len(u)
           b == u[1]
<1>2. n \in Nat \ {0} /\ b \in Nat
    BY <1>1
<1>3. Fits(u) <=>
          /\ n <= Size(b)
          /\ n > 1 => u[2] \in Lowest(b) .. Highest(b)
          /\ n > 2 => u[3] \in 128 .. 191
          /\ n > 3 => u[4] \in 128 .. 191
    BY DEF Fits
<1> HIDE DEF n, b
<1>4. \A k, l, h : Size(b) = k /\ Lowest(b) = l /\ Highest(b) = h =>
          (Fits(u) <=> /\ n <= k
                       /\ n > 1 => u[2] \in l .. h
                       /\ n > 2 => u[3] \in 128 .. 191
                       /\ n > 3 => u[4] \in 128 .. 191)
    BY <1>3
<1>5. b \in 0 .. 127 => (Fits(u) <=> n <= 1)
    <2> SUFFICES ASSUME b \in 0 .. 127 PROVE Fits(u) <=> n <= 1
        OBVIOUS
    <2>1. Size(b) = 1 /\ Lowest(b) = 128 /\ Highest(b) = 191
        BY <1>2 DEF Size, Lowest, Highest
    <2>2. QED
        BY <1>2, <1>3, <2>1
<1>6. b \in 194 .. 223 => (Fits(u) <=> n <= 2 /\ (n > 1 => u[2] \in 128 .. 191))
    <2> SUFFICES ASSUME b \in 194 .. 223 PROVE Fits(u) <=> n <= 2 /\ (n > 1 => u[2] \in 128 .. 191)
        OBVIOUS
    <2>1. Size(b) = 2 /\ Lowest(b) = 128 /\ Highest(b) = 191
        BY <1>2 DEF Size, Lowest, Highest
    <2>2. QED
        BY <1>2, <1>3, <2>1
<1>7. b = 224 => (Fits(u) <=> n <= 3 /\ (n > 1 => u[2] \in 160 .. 191) /\ (n > 2 => u[3] \in 128 .. 191))
    <2> SUFFICES ASSUME b \in {224} PROVE Fits(u) <=> n <= 3 /\ (n > 1 => u[2] \in 160 .. 191) /\ (n > 2 => u[3] \in 128 .. 191)
        OBVIOUS
    <2>1. Size(b) = 3 /\ Lowest(b) = 160 /\ Highest(b) = 191
        BY <1>2 DEF Size, Lowest, Highest
    <2>2. Fits(u) <=> /\ n <= 3
                      /\ n > 1 => u[2] \in 160 .. 191
                      /\ n > 2 => u[3] \in 128 .. 191
                      /\ n > 3 => u[4] \in 128 .. 191
        BY <1>3, <2>1
    <2>3. ~ (n <= 3 /\ n > 3)
        BY <1>2
    <2>4. QED
        BY <2>2, <2>3
<1>8. b \in (225 .. 239) \ {237} => (Fits(u) <=> n <= 3 /\ (n > 1 => u[2] \in 128 .. 191) /\ (n > 2 => u[3] \in 128 .. 191))
    <2> SUFFICES ASSUME b \in (225 .. 239) \ {237} PROVE Fits(u) <=> n <= 3 /\ (n > 1 => u[2] \in 128 .. 191) /\ (n > 2 => u[3] \in 128 .. 191)
        OBVIOUS
    <2>1. Size(b) = 3 /\ Lowest(b) = 128 /\ Highest(b) = 191
        BY <1>2 DEF Size, Lowest, Highest
    <2>2. QED
        BY <1>2, <1>3, <2>1
<1>9. b = 237 => (Fits(u) <=> n <= 3 /\ (n > 1 => u[2] \in 128 .. 159) /\ (n > 2 => u[3] \in 128 .. 191))
    <2> SUFFICES ASSUME b \in {237} PROVE Fits(u) <=> n <= 3 /\ (n > 1 => u[2] \in 128 .. 159) /\ (n > 2 => u[3] \in 128 .. 191)
        OBVIOUS
    <2>1. Size(b) = 3 /\ Lowest(b) = 128 /\ Highest(b) = 159
        BY <1>2 DEF Size, Lowest, Highest
    <2>2. Fits(u) <=> /\ n <= 3
                      /\ n > 1 => u[2] \in 128 .. 159
                      /\ n > 2 => u[3] \in 128 .. 191
                      /\ n > 3 => u[4] \in 128 .. 191
        BY <1>3, <2>1
    <2>3. ~ (n <= 3 /\ n > 3)
        BY <1>2
    <2>4. QED
        BY <2>2, <2>3
<1>10. b = 240 => (Fits(u) <=> n <= 4 /\ (n > 1 => u[2] \in 144 .. 191) /\ (n > 2 => u[3] \in 128 .. 191) /\ (n > 3 => u[4] \in 128 .. 191))
    <2> SUFFICES ASSUME b = 240 PROVE Fits(u) <=> n <= 4 /\ (n > 1 => u[2] \in 144 .. 191) /\ (n > 2 => u[3] \in 128 .. 191) /\ (n > 3 => u[4] \in 128 .. 191)
        OBVIOUS
    <2>1. Size(b) = 4 /\ Lowest(b) = 144 /\ Highest(b) = 191
        BY <1>2 DEF Size, Lowest, Highest
    <2>2. QED
        BY <1>2, <1>3, <2>1, Zenon
<1>11. b \in 241 .. 243 => (Fits(u) <=> n <= 4 /\ (n > 1 => u[2] \in 128 .. 191) /\ (n > 2 => u[3] \in 128 .. 191) /\ (n > 3 => u[4] \in 128 .. 191))
    <2> SUFFICES ASSUME b \in 241 .. 243 PROVE Fits(u) <=> n <= 4 /\ (n > 1 => u[2] \in 128 .. 191) /\ (n > 2 => u[3] \in 128 .. 191) /\ (n > 3 => u[4] \in 128 .. 191)
        OBVIOUS
    <2>1. Size(b) = 4 /\ Lowest(b) = 128 /\ Highest(b) = 191
        BY <1>2 DEF Size, Lowest, Highest
    <2>2. QED
        BY <1>2, <1>3, <2>1
<1>12. b = 244 => (Fits(u) <=> n <= 4 /\ (n > 1 => u[2] \in 128 .. 143) /\ (n > 2 => u[3] \in 128 .. 191) /\ (n > 3 => u[4] \in 128 .. 191))
    <2> SUFFICES ASSUME b = 244 PROVE Fits(u) <=> n <= 4 /\ (n > 1 => u[2] \in 128 .. 143) /\ (n > 2 => u[3] \in 128 .. 191) /\ (n > 3 => u[4] \in 128 .. 191)
        OBVIOUS
    <2>1. Size(b) = 4 /\ Lowest(b) = 128 /\ Highest(b) = 143
        BY <1>2 DEF Size, Lowest, Highest
    <2>2. QED
        BY <1>2, <1>3, <2>1, SMTT(30)
<1>13. Fits(u) => b \in 0 .. 127 \/ b \in 194 .. 244
    BY <1>2, <1>3 DEF Size
<1>14. QED
    BY <1>5, <1>6, <1>7, <1>8, <1>9, <1>10, <1>11, <1>12, <1>13 DEF n, b

\* The table says the same as the first byte's size and the range of the second.
LEMMA FormOf ==
    ASSUME NEW u \in Numbers, u # << >>, NEW n \in Nat
    PROVE  (\E form \in Table : Begins(u, form) /\ Len(form) = n) <=> Fits(u) /\ n = Size(u[1])
<1>1. Len(u) \in Nat \ {0} /\ \A i \in 1 .. Len(u) : u[i] \in Nat
    BY EmptySeq DEF Numbers
<1> DEFINE f1 == << 0 .. 127 >>
           f2 == << 194 .. 223, Following >>
           f3 == << {224}, 160 .. 191, Following >>
           f4 == << (225 .. 239) \ {237}, Following, Following >>
           f5 == << {237}, 128 .. 159, Following >>
           f6 == << {240}, 144 .. 191, Following, Following >>
           f7 == << 241 .. 243, Following, Following, Following >>
           f8 == << {244}, 128 .. 143, Following, Following >>
<1>2. Table = {f1, f2, f3, f4, f5, f6, f7, f8}
    BY DEF Table
<1>3. Len(f1) = 1 /\ (Begins(u, f1) <=> Fits(u) /\ u[1] \in 0 .. 127)
    <2>1. Len(f1) = 1
        OBVIOUS
    <2>2. Begins(u, f1) <=>
              Len(u) <= 1 /\ u[1] \in 0 .. 127
        BY BeginsOne, SMT
    <2> HIDE DEF f1
    <2>3. QED
        BY <1>1, <2>1, <2>2, FitsByFirst DEF Following
<1>4. Len(f2) = 2 /\ (Begins(u, f2) <=> Fits(u) /\ u[1] \in 194 .. 223)
    <2>1. Len(f2) = 2
        OBVIOUS
    <2>2. Begins(u, f2) <=>
              Len(u) <= 2 /\ u[1] \in 194 .. 223 /\ (Len(u) > 1 => u[2] \in Following)
        BY BeginsTwo, SMT
    <2> HIDE DEF f2
    <2>3. QED
        BY <1>1, <2>1, <2>2, FitsByFirst DEF Following
<1>5. Len(f3) = 3 /\ (Begins(u, f3) <=> Fits(u) /\ u[1] = 224)
    <2>1. Len(f3) = 3
        OBVIOUS
    <2>2. Begins(u, f3) <=>
              Len(u) <= 3 /\ u[1] \in {224} /\ (Len(u) > 1 => u[2] \in 160 .. 191) /\ (Len(u) > 2 => u[3] \in Following)
        BY BeginsThree, SMT
    <2> HIDE DEF f3
    <2>3. QED
        BY <1>1, <2>1, <2>2, FitsByFirst DEF Following
<1>6. Len(f4) = 3 /\ (Begins(u, f4) <=> Fits(u) /\ u[1] \in (225 .. 239) \ {237})
    <2>1. Len(f4) = 3
        OBVIOUS
    <2>2. Begins(u, f4) <=>
              Len(u) <= 3 /\ u[1] \in (225 .. 239) \ {237} /\ (Len(u) > 1 => u[2] \in Following) /\ (Len(u) > 2 => u[3] \in Following)
        BY BeginsThree, SMT
    <2> HIDE DEF f4
    <2>3. QED
        BY <1>1, <2>1, <2>2, FitsByFirst DEF Following
<1>7. Len(f5) = 3 /\ (Begins(u, f5) <=> Fits(u) /\ u[1] = 237)
    <2>1. Len(f5) = 3
        OBVIOUS
    <2>2. Begins(u, f5) <=>
              Len(u) <= 3 /\ u[1] \in {237} /\ (Len(u) > 1 => u[2] \in 128 .. 159) /\ (Len(u) > 2 => u[3] \in Following)
        BY BeginsThree, SMT
    <2> HIDE DEF f5
    <2>3. QED
        BY <1>1, <2>1, <2>2, FitsByFirst DEF Following
<1>8. Len(f6) = 4 /\ (Begins(u, f6) <=> Fits(u) /\ u[1] = 240)
    <2>1. Len(f6) = 4
        OBVIOUS
    <2>2. Begins(u, f6) <=>
              Len(u) <= 4 /\ u[1] \in {240} /\ (Len(u) > 1 => u[2] \in 144 .. 191) /\ (Len(u) > 2 => u[3] \in Following) /\ (Len(u) > 3 => u[4] \in Following)
        BY BeginsFour, SMT
    <2> HIDE DEF f6
    <2>3. QED
        BY <1>1, <2>1, <2>2, FitsByFirst DEF Following
<1>9. Len(f7) = 4 /\ (Begins(u, f7) <=> Fits(u) /\ u[1] \in 241 .. 243)
    <2>1. Len(f7) = 4
        OBVIOUS
    <2>2. Begins(u, f7) <=>
              Len(u) <= 4 /\ u[1] \in 241 .. 243 /\ (Len(u) > 1 => u[2] \in Following) /\ (Len(u) > 2 => u[3] \in Following) /\ (Len(u) > 3 => u[4] \in Following)
        BY BeginsFour, SMT
    <2> HIDE DEF f7
    <2>3. QED
        BY <1>1, <2>1, <2>2, FitsByFirst DEF Following
<1>10. Len(f8) = 4 /\ (Begins(u, f8) <=> Fits(u) /\ u[1] = 244)
    <2>1. Len(f8) = 4
        OBVIOUS
    <2>2. Begins(u, f8) <=>
              Len(u) <= 4 /\ u[1] \in {244} /\ (Len(u) > 1 => u[2] \in 128 .. 143) /\ (Len(u) > 2 => u[3] \in Following) /\ (Len(u) > 3 => u[4] \in Following)
        BY BeginsFour, SMT
    <2> HIDE DEF f8
    <2>3. QED
        BY <1>1, <2>1, <2>2, FitsByFirst DEF Following
<1> HIDE DEF f1, f2, f3, f4, f5, f6, f7, f8
<1> DEFINE fits == Fits(u)
           b == u[1]
           Is(form) == Begins(u, form) /\ Len(form) = n
<1>11. b \in Nat /\ (fits => b \in 0 .. 127 \/ b \in 194 .. 244)
    BY <1>1, FitsByFirst
<1>12. Is(f1) <=> fits /\ n = 1 /\ b \in 0 .. 127
    BY <1>3
<1>13. Is(f2) <=> fits /\ n = 2 /\ b \in 194 .. 223
    BY <1>4
<1>14. Is(f3) <=> fits /\ n = 3 /\ b = 224
    BY <1>5
<1>15. Is(f4) <=> fits /\ n = 3 /\ b \in (225 .. 239) \ {237}
    BY <1>6
<1>16. Is(f5) <=> fits /\ n = 3 /\ b = 237
    BY <1>7
<1>17. Is(f6) <=> fits /\ n = 4 /\ b = 240
    BY <1>8
<1>18. Is(f7) <=> fits /\ n = 4 /\ b \in 241 .. 243
    BY <1>9
<1>19. Is(f8) <=> fits /\ n = 4 /\ b = 244
    BY <1>10
<1> HIDE DEF fits, b
<1>20. fits /\ n = Size(b) => Is(f1) \/ Is(f2) \/ Is(f3) \/ Is(f4) \/ Is(f5) \/ Is(f6) \/ Is(f7) \/ Is(f8)
    <2> HIDE DEF Is
    <2> QED
        BY <1>11, <1>12, <1>13, <1>14, <1>15, <1>16, <1>17, <1>18, <1>19 DEF Size
<1>21. (Is(f1) \/ Is(f2) \/ Is(f3) \/ Is(f4) \/ Is(f5) \/ Is(f6) \/ Is(f7) \/ Is(f8)) => fits /\ n = Size(b)
    <2> HIDE DEF Is
    <2> QED
        BY <1>11, <1>12, <1>13, <1>14, <1>15, <1>16, <1>17, <1>18, <1>19 DEF Size
<1>22. (\E form \in Table : Is(form)) <=>
          Is(f1) \/ Is(f2) \/ Is(f3) \/ Is(f4) \/ Is(f5) \/ Is(f6) \/ Is(f7) \/ Is(f8)
    <2> HIDE DEF Is
    <2> QED
        BY <1>2
<1>23. QED
    BY <1>20, <1>21, <1>22 DEF fits, b

-----------------------------------------------------------------------------
(* The decoder within a piece *)

Unfinished(u) == Fits(u) /\ Len(u) < Size(u[1])

\* A piece is whole when it fits and has all its bytes; what fits is whole or unfinished.
LEMMA WholeFits ==
    ASSUME NEW u \in Numbers, u # << >>
    PROVE  /\ IsWhole(u) <=> Fits(u) /\ Len(u) = Size(u[1])
           /\ Fits(u) <=> Unfinished(u) \/ IsWhole(u)
           /\ Fits(u) <=> \E form \in Table : Begins(u, form)
<1>1. Len(u) \in Nat \ {0} /\ u[1] \in Nat
    BY EmptySeq DEF Numbers
<1>2. \A n \in Nat : (\E form \in Table : Begins(u, form) /\ Len(form) = n) <=> Fits(u) /\ n = Size(u[1])
    BY FormOf
<1>3. Size(u[1]) \in Nat
    BY DEF Size
<1>4. IsWhole(u) <=> Fits(u) /\ Len(u) = Size(u[1])
    BY <1>1, <1>2 DEF IsWhole
<1>5. Fits(u) <=> Unfinished(u) \/ IsWhole(u)
    BY <1>1, <1>3, <1>4 DEF Unfinished, Fits
<1>6. \A form \in Table : Len(form) \in Nat
    BY DEF Table, Following
<1>7. Fits(u) <=> \E form \in Table : Begins(u, form)
    BY <1>2, <1>3, <1>6
<1>8. QED
    BY <1>4, <1>5, <1>7

Low(u) == u[1] % <<128, 32, 16, 8>>[Size(u[1])]

\* The bits of what has been read of a code point.
Bits(u) ==
    IF Len(u) = 1 THEN Low(u)
    ELSE IF Len(u) = 2 THEN Low(u) * 64 + (u[2] % 64)
    ELSE Low(u) * 4096 + (u[2] % 64) * 64 + (u[3] % 64)

\* The decoder within a code point.
Within(u) ==
    [points |-> << >>, point |-> Bits(u), needed |-> Size(u[1]) - Len(u),
     lower |-> IF Len(u) = 1 THEN Lowest(u[1]) ELSE 128,
     upper |-> IF Len(u) = 1 THEN Highest(u[1]) ELSE 191]

\* What the first byte announces is small.
LEMMA SizeType ==
    ASSUME NEW byte \in Nat
    PROVE  Size(byte) \in 0 .. 4 /\ Lowest(byte) \in Nat /\ Highest(byte) \in Nat
    BY DEF Size, Lowest, Highest

\* A piece that fits has one to four bytes.
LEMMA LowType ==
    ASSUME NEW u \in Numbers, Fits(u)
    PROVE  Low(u) \in Nat /\ Len(u) \in 1 .. 4 /\ Size(u[1]) \in 1 .. 4 /\ u[1] \in Nat
<1>1. Len(u) \in Nat \ {0} /\ u[1] \in Nat /\ Len(u) <= Size(u[1])
    BY EmptySeq DEF Numbers, Fits
<1>2. Size(u[1]) \in 1 .. 4
    <2> DEFINE b == u[1]
    <2>1. b \in Nat /\ Len(u) <= Size(b)
        BY <1>1
    <2> HIDE DEF b
    <2>2. Size(b) \in 0 .. 4
        BY <2>1, SizeType
    <2>3. QED
        BY <1>1, <2>1, <2>2 DEF b
<1>3. Low(u) \in Nat
    <2> DEFINE n == Size(u[1])
               w == <<128, 32, 16, 8>>[n]
    <2>1. w \in {128, 32, 16, 8}
        BY <1>2
    <2>2. Low(u) = u[1] % w
        BY DEF Low
    <2> HIDE DEF w
    <2>3. QED
        BY <1>1, <2>1, <2>2
<1>4. Len(u) \in 1 .. 4
    <2> DEFINE n == Len(u)
               s == Size(u[1])
    <2>1. n \in Nat \ {0} /\ n <= s /\ s \in 1 .. 4
        BY <1>1, <1>2
    <2> HIDE DEF n, s
    <2>2. n \in 1 .. 4
        BY <2>1
    <2>3. QED
        BY <2>2 DEF n
<1>5. QED
    BY <1>1, <1>2, <1>3, <1>4

\* How one more byte continues an unfinished piece.
LEMMA Continues ==
    ASSUME NEW u \in Numbers, Unfinished(u), NEW x \in Nat
    PROVE  LET v == Append(u, x)
           IN  /\ v \in Numbers /\ v # << >> /\ Len(v) = Len(u) + 1 /\ v[1] = u[1]
               /\ Low(v) = Low(u)
               /\ Fits(v) <=> x \in Within(u).lower .. Within(u).upper
               /\ Bits(u) * 64 + (x % 64) \in Nat
               /\ Unfinished(v) => Bits(v) = Bits(u) * 64 + (x % 64)
               /\ IsWhole(v) => Value(v) = Bits(u) * 64 + (x % 64)
<1> DEFINE v == Append(u, x)
           n == Len(u)
           s == Size(u[1])
           low == Low(u)
<1>1. n \in 1 .. 3 /\ s \in 1 .. 4 /\ n < s /\ low \in Nat /\ u[1] \in Nat /\ Fits(u)
    <2>1. Fits(u) /\ n < s
        BY DEF Unfinished
    <2>2. low \in Nat /\ n \in 1 .. 4 /\ s \in 1 .. 4 /\ u[1] \in Nat
        BY <2>1, LowType
    <2> HIDE DEF n, s, low
    <2>3. QED
        BY <2>1, <2>2
<1>2. /\ v \in Numbers /\ v # << >> /\ Len(v) = n + 1 /\ v[n + 1] = x
      /\ \A i \in 1 .. n : v[i] = u[i] /\ u[i] \in Nat
    BY DEF Numbers
<1>3. v[1] = u[1] /\ Low(v) = low
    BY <1>1, <1>2 DEF Low
<1> HIDE DEF v
<1>4. n = 1 => v[2] = x /\ Len(v) = 2
    BY <1>2
<1>5. n = 2 => v[2] = u[2] /\ v[3] = x /\ Len(v) = 3 /\ u[2] \in Nat
    BY <1>2
<1>6. n = 3 => v[2] = u[2] /\ v[3] = u[3] /\ v[4] = x /\ Len(v) = 4 /\ u[2] \in Nat /\ u[3] \in Nat
    BY <1>2
<1> DEFINE lo == Lowest(u[1])
           hi == Highest(u[1])
<1>7. lo \in Nat /\ hi \in Nat
    BY <1>1, SizeType
<1>8. /\ Within(u).lower = IF n = 1 THEN lo ELSE 128
      /\ Within(u).upper = IF n = 1 THEN hi ELSE 191
    BY DEF Within
<1>9. Fits(v) <=>
          /\ Len(v) <= s
          /\ Len(v) > 1 => v[2] \in lo .. hi
          /\ Len(v) > 2 => v[3] \in 128 .. 191
          /\ Len(v) > 3 => v[4] \in 128 .. 191
    BY <1>2, <1>3 DEF Fits
<1>10. /\ n > 1 => u[2] \in lo .. hi
       /\ n > 2 => u[3] \in 128 .. 191
    BY <1>1 DEF Fits
<1> HIDE DEF n, s, low, lo, hi
<1>11. Fits(v) <=> x \in Within(u).lower .. Within(u).upper
    <2> DEFINE l == Within(u).lower
               h == Within(u).upper
               m == Len(v)
               f == Fits(v)
               a == u[2]
               b == u[3]
    <2>1. CASE n = 1
        <3>1. l = lo /\ h = hi /\ m = 2 /\ v[2] = x
            BY <1>4, <1>8, <2>1
        <3>2. f <=> m <= s /\ x \in lo .. hi
            <4> HIDE DEF l, h
            <4> QED
            BY <1>9, <3>1
        <3> HIDE DEF f, l, h, m
        <3>3. f <=> x \in l .. h
            BY <1>1, <2>1, <3>1, <3>2
        <3>4. QED
            BY <3>3 DEF f, l, h
    <2>2. CASE n = 2
        <3>1. l = 128 /\ h = 191 /\ m = 3 /\ v[2] = a /\ v[3] = x /\ a \in lo .. hi
            BY <1>5, <1>8, <1>10, <2>2
        <3>2. f <=> m <= s /\ a \in lo .. hi /\ x \in 128 .. 191
            <4> HIDE DEF l, h
            <4> QED
            BY <1>9, <3>1
        <3> HIDE DEF f, l, h, m, a
        <3>3. f <=> x \in l .. h
            BY <1>1, <2>2, <3>1, <3>2
        <3>4. QED
            BY <3>3 DEF f, l, h
    <2>3. CASE n = 3
        <3>1. /\ l = 128 /\ h = 191 /\ m = 4 /\ v[2] = a /\ v[3] = b /\ v[4] = x
              /\ a \in lo .. hi /\ b \in 128 .. 191
            BY <1>6, <1>8, <1>10, <2>3
        <3>2. f <=> m <= s /\ a \in lo .. hi /\ b \in 128 .. 191 /\ x \in 128 .. 191
            <4> HIDE DEF l, h
            <4> QED
            BY <1>9, <3>1
        <3> HIDE DEF f, l, h, m, a, b
        <3>3. f <=> x \in l .. h
            BY <1>1, <2>3, <3>1, <3>2
        <3>4. QED
            BY <3>3 DEF f, l, h
    <2>4. QED
        BY <1>1, <2>1, <2>2, <2>3
<1>12. /\ n = 1 => Bits(u) = low
       /\ n = 2 => Bits(u) = low * 64 + (u[2] % 64)
       /\ n = 3 => Bits(u) = low * 4096 + (u[2] % 64) * 64 + (u[3] % 64)
    BY DEF Bits, n, low
<1>13. Bits(u) * 64 + (x % 64) \in Nat
    BY <1>1, <1>5, <1>6, <1>12
<1>14. Unfinished(v) => Bits(v) = Bits(u) * 64 + (x % 64)
    <2> SUFFICES ASSUME Unfinished(v) PROVE Bits(v) = Bits(u) * 64 + (x % 64)
        OBVIOUS
    <2>1. Len(v) < 4
        BY <1>1, <1>3 DEF Unfinished, s
    <2>2. n = 1 => Bits(v) = low * 64 + (x % 64)
        BY <1>3, <1>4 DEF Bits
    <2>3. n = 2 => Bits(v) = low * 4096 + (u[2] % 64) * 64 + (x % 64)
        BY <1>3, <1>5 DEF Bits
    <2>4. QED
        BY <1>1, <1>2, <1>5, <1>12, <2>1, <2>2, <2>3
<1>15. IsWhole(v) => Value(v) = Bits(u) * 64 + (x % 64)
    <2> SUFFICES ASSUME IsWhole(v) PROVE Value(v) = Bits(u) * 64 + (x % 64)
        OBVIOUS
    <2>1. Len(v) = Size(v[1])
        BY <1>2, WholeFits
    <2>2. v[1] % <<128, 32, 16, 8>>[Len(v)] = low
        BY <1>3, <2>1 DEF Low
    <2>3. /\ Len(v) = 2 => Value(v) = low * 64 + (v[2] % 64)
          /\ Len(v) = 3 => Value(v) = low * 4096 + (v[2] % 64) * 64 + (v[3] % 64)
          /\ Len(v) = 4 => Value(v) = low * 262144 + (v[2] % 64) * 4096 + (v[3] % 64) * 64 + (v[4] % 64)
        BY <2>2 DEF Value
    <2>4. QED
        BY <1>1, <1>4, <1>5, <1>6, <1>12, <2>3
<1>16. QED
    BY <1>2, <1>3, <1>11, <1>13, <1>14, <1>15 DEF v, n, low

\* The decoder has found no code point within a piece, and knows its bits.
StateKnown(u) == Decoder(u) = Within(u)

\* After one byte the decoder is where the table says.
LEMMA FirstByte ==
    ASSUME NEW a \in Nat
    PROVE  /\ Decoder(<<a>>) = Lead(Fresh, a)
           /\ Unfinished(<<a>>) => StateKnown(<<a>>)
           /\ IsWhole(<<a>>) => Decoder(<<a>>) = Between(<<Value(<<a>>)>>)
           /\ ~ Fits(<<a>>) => Decoder(<<a>>) = Between(<<REPLACEMENT>>)
<1> DEFINE u == <<a>>
<1>1. u \in Numbers /\ u # << >> /\ Len(u) = 1 /\ u[1] = a /\ Append(<< >>, a) = u /\ << >> \in Numbers
    BY DEF Numbers
<1>2. Fresh.points = << >> /\ Fresh.needed = 0 /\ Fresh \in DecoderState
    BY FreshType DEF Fresh, Between
<1>3. Decoder(u) = Lead(Fresh, a)
    <2>1. Decoder(Append(<< >>, a)) = NextByte(Decoder(<< >>), a)
        BY <1>1, DecoderAppend
    <2>2. Decoder(u) = NextByte(Fresh, a)
        BY <1>1, <2>1, DecoderEmpty
    <2>3. NextByte(Fresh, a) = Lead(Fresh, a)
        BY <1>2, NextByteCases
    <2>4. QED
        BY <2>2, <2>3
<1>4. \A x : Push(Fresh, x) = Between(<<x>>)
    BY <1>2 DEF Push
<1>5. IsWhole(u) <=> Fits(u) /\ 1 = Size(a)
    BY <1>1, WholeFits
<1>6. Fits(u) <=> Size(a) >= 1
    BY <1>1 DEF Fits
<1>7. Low(u) = a % <<128, 32, 16, 8>>[Size(a)]
    BY <1>1 DEF Low
<1>8. ASSUME Unfinished(u) PROVE StateKnown(u)
    <2>1. Within(u) = [points |-> << >>, point |-> Low(u), needed |-> Size(a) - 1, lower |-> Lowest(a), upper |-> Highest(a)]
        BY <1>1 DEF Within, Bits
    <2>2. 1 < Size(a)
        BY <1>1, <1>8 DEF Unfinished
    <2>3. CASE a \in 194 .. 223
        <3>1. Size(a) = 2 /\ Lowest(a) = 128 /\ Highest(a) = 191
            BY <2>3 DEF Size, Lowest, Highest
        <3>2. Low(u) = a % 32
            BY <1>7, <3>1
        <3>3. Lead(Fresh, a) = BeginPoint(Fresh, a % 32, 1, 128, 191)
            BY <2>3, LeadCases
        <3>4. QED
            BY <1>2, <1>3, <2>1, <3>1, <3>2, <3>3 DEF StateKnown, BeginPoint
    <2>4. CASE a \in 224 .. 239
        <3>1. Size(a) = 3 /\ Lowest(a) = (IF a = 224 THEN 160 ELSE 128) /\ Highest(a) = (IF a = 237 THEN 159 ELSE 191)
            BY <2>4 DEF Size, Lowest, Highest
        <3>2. Low(u) = a % 16
            BY <1>7, <3>1
        <3>3. Lead(Fresh, a) = BeginPoint(Fresh, a % 16, 2, IF a = 224 THEN 160 ELSE 128, IF a = 237 THEN 159 ELSE 191)
            BY <2>4, LeadCases
        <3>4. QED
            BY <1>2, <1>3, <2>1, <3>1, <3>2, <3>3 DEF StateKnown, BeginPoint
    <2>5. CASE a \in 240 .. 244
        <3>1. Size(a) = 4 /\ Lowest(a) = (IF a = 240 THEN 144 ELSE 128) /\ Highest(a) = (IF a = 244 THEN 143 ELSE 191)
            BY <2>5 DEF Size, Lowest, Highest
        <3>2. Low(u) = a % 8
            BY <1>7, <3>1
        <3>3. Lead(Fresh, a) = BeginPoint(Fresh, a % 8, 3, IF a = 240 THEN 144 ELSE 128, IF a = 244 THEN 143 ELSE 191)
            BY <2>5, LeadCases
        <3>4. QED
            BY <1>2, <1>3, <2>1, <3>1, <3>2, <3>3 DEF StateKnown, BeginPoint
    <2>6. QED
        BY <2>2, <2>3, <2>4, <2>5 DEF Size
<1>9. ASSUME IsWhole(u) PROVE Decoder(u) = Between(<<Value(u)>>)
    <2>1. a < 128
        BY <1>5, <1>9 DEF Size
    <2>2. Value(u) = a % 128
        BY <1>1, <1>9 DEF Value
    <2>3. Value(u) = a
        BY <2>1, <2>2
    <2>4. QED
        BY <1>3, <1>4, <2>1, <2>3, LeadCases
<1>10. ASSUME ~ Fits(u) PROVE Decoder(u) = Between(<<REPLACEMENT>>)
    <2>1. a \in 128 .. 193 \/ a > 244
        BY <1>6, <1>10 DEF Size
    <2>2. QED
        BY <1>3, <1>4, <2>1, LeadCases
<1>11. QED
    BY <1>3, <1>8, <1>9, <1>10

\* One more byte finishes the piece, is part of it, or ends it early and begins another.
LEMMA NextOfPiece ==
    ASSUME NEW u \in Numbers, Unfinished(u), StateKnown(u), NEW x \in Nat
    PROVE  /\ Unfinished(Append(u, x)) => StateKnown(Append(u, x))
           /\ IsWhole(Append(u, x)) => Decoder(Append(u, x)) = Between(<<Value(Append(u, x))>>)
           /\ ~ Fits(Append(u, x)) => Decoder(Append(u, x)) = Prefixed(<<REPLACEMENT>>, Decoder(<<x>>))
<1> DEFINE v == Append(u, x)
           d == Within(u)
           s == Size(u[1])
           n == Len(u)
<1>1. /\ v \in Numbers /\ v # << >> /\ Len(v) = n + 1 /\ v[1] = u[1]
      /\ Fits(v) <=> x \in d.lower .. d.upper
      /\ Bits(u) * 64 + (x % 64) \in Nat
      /\ Unfinished(v) => Bits(v) = Bits(u) * 64 + (x % 64)
      /\ IsWhole(v) => Value(v) = Bits(u) * 64 + (x % 64)
    BY Continues
<1>2. Decoder(v) = NextByte(d, x) /\ d \in DecoderState
    BY DecoderAppend, DecoderType DEF StateKnown
<1>3. n \in 1 .. 4 /\ s \in 1 .. 4 /\ n < s
    BY LowType DEF Unfinished
<1>4. d.needed = s - n /\ d.point = Bits(u) /\ d.points = << >>
    BY DEF Within
<1> HIDE DEF v, d, s, n
<1>5. \A p : Push(d, p) = Between(<<p>>)
    BY <1>4 DEF Push
<1>6. ASSUME Unfinished(v) PROVE StateKnown(v)
    <2>1. Fits(v) /\ n + 1 < s
        BY <1>1, <1>6 DEF Unfinished, s
    <2>2. NextByte(d, x) = BeginPoint(d, d.point * 64 + (x % 64), d.needed - 1, 128, 191)
        BY <1>1, <1>2, <1>3, <1>4, <2>1, NextByteCases
    <2>3. d.needed - 1 = Size(v[1]) - Len(v) /\ Len(v) # 1
        BY <1>1, <1>3, <1>4 DEF s
    <2>4. d.point * 64 + (x % 64) = Bits(v)
        BY <1>1, <1>4, <1>6
    <2>5. QED
        BY <1>2, <1>4, <2>2, <2>3, <2>4 DEF StateKnown, Within, BeginPoint
<1>7. ASSUME IsWhole(v) PROVE Decoder(v) = Between(<<Value(v)>>)
    <2>1. Fits(v) /\ n + 1 = s
        BY <1>1, <1>7, WholeFits DEF s
    <2>2. NextByte(d, x) = Push(d, d.point * 64 + (x % 64))
        BY <1>1, <1>2, <1>3, <1>4, <2>1, NextByteCases
    <2>3. d.point * 64 + (x % 64) = Value(v)
        BY <1>1, <1>4, <1>7
    <2>4. QED
        BY <1>2, <1>5, <2>2, <2>3
<1>8. ASSUME ~ Fits(v) PROVE Decoder(v) = Prefixed(<<REPLACEMENT>>, Decoder(<<x>>))
    <2>1. NextByte(d, x) = Lead(Push(d, REPLACEMENT), x)
        BY <1>1, <1>2, <1>3, <1>4, <1>8, NextByteCases
    <2>2. <<REPLACEMENT>> \in Numbers /\ << >> \in Numbers
        BY DEF Numbers, REPLACEMENT
    <2>3. <<REPLACEMENT>> \o << >> = <<REPLACEMENT>>
        BY <2>2, ConcatEmptySeq DEF Numbers
    <2>4. Push(d, REPLACEMENT) = Prefixed(<<REPLACEMENT>>, Fresh)
        BY <1>5, <2>3 DEF Prefixed, Fresh, Between
    <2>5. Lead(Prefixed(<<REPLACEMENT>>, Fresh), x) = Prefixed(<<REPLACEMENT>>, Lead(Fresh, x))
        BY <2>2, FreshType, LeadPrefixed
    <2>6. QED
        BY <1>2, <2>1, <2>4, <2>5, FirstByte
<1>9. QED
    BY <1>6, <1>7, <1>8 DEF v

\* What comes before the last byte of a piece is unfinished.
LEMMA FitsShorter ==
    ASSUME NEW u \in Numbers, u # << >>, NEW x \in Nat, Fits(Append(u, x))
    PROVE  Unfinished(u)
<1> DEFINE v == Append(u, x)
           n == Len(u)
           s == Size(u[1])
<1>1. /\ n \in Nat \ {0} /\ v \in Numbers /\ Len(v) = n + 1
      /\ \A i \in 1 .. n : v[i] = u[i]
    BY EmptySeq DEF Numbers
<1>2. v[1] = u[1]
    BY <1>1
<1>3. s \in 1 .. 4
    BY <1>1, <1>2, LowType
<1>4. /\ n + 1 <= s
      /\ n + 1 > 1 => v[2] \in Lowest(u[1]) .. Highest(u[1])
      /\ n + 1 > 2 => v[3] \in 128 .. 191
      /\ n + 1 > 3 => v[4] \in 128 .. 191
    BY <1>1, <1>2 DEF Fits
<1>5. /\ n > 1 => v[2] = u[2]
      /\ n > 2 => v[3] = u[3]
      /\ n > 3 => v[4] = u[4]
    BY <1>1
<1> HIDE DEF v, n, s
<1>6. /\ n < s
      /\ n > 1 => u[2] \in Lowest(u[1]) .. Highest(u[1])
      /\ n > 2 => u[3] \in 128 .. 191
      /\ n > 3 => u[4] \in 128 .. 191
    BY <1>1, <1>3, <1>4, <1>5
<1>7. n <= s
    BY <1>1, <1>3, <1>6
<1>8. QED
    BY <1>6, <1>7 DEF Unfinished, Fits, n, s

\* In the middle of a piece the decoder has the bits so far and the bounds of the next byte.
LEMMA UnfinishedIsKnown ==
    ASSUME NEW u \in Numbers, Unfinished(u)
    PROVE  StateKnown(u)
<1> DEFINE T == {s \in Numbers : Unfinished(s) => StateKnown(s)}
<1>1. << >> \in T
    BY DEF Unfinished, Fits, Numbers
<1>2. ASSUME NEW s \in Numbers, NEW x \in Nat, s \in T PROVE Append(s, x) \in T
    <2>1. Append(s, x) \in Numbers
        BY DEF Numbers
    <2>2. SUFFICES ASSUME Unfinished(Append(s, x)) PROVE StateKnown(Append(s, x))
        BY <2>1
    <2>3. CASE s = << >>
        <3>1. Append(s, x) = <<x>>
            BY <2>3
        <3>2. QED
            BY <2>2, <3>1, FirstByte
    <2>4. CASE s # << >>
        <3>1. Unfinished(s)
            BY <2>2, <2>4, FitsShorter DEF Unfinished
        <3>2. QED
            BY <1>2, <2>2, <3>1, NextOfPiece
    <2>5. QED
        BY <2>3, <2>4
<1>3. Seq(Nat) \subseteq T
    <2> HIDE DEF T
    <2> QED
        BY <1>1, <1>2, SeqInduction DEF Numbers
<1>4. QED
    BY <1>3 DEF Numbers

-----------------------------------------------------------------------------
(* The pieces of a sequence of bytes *)

\* A part of the bytes that reaches one further has one more at its end.
LEMMA SubSeqGrows ==
    ASSUME NEW b \in Numbers, NEW i \in Nat, NEW k \in Nat, 1 <= i, i <= k + 1, k + 1 <= Len(b)
    PROVE  /\ SubSeq(b, i, k) \in Numbers /\ b[k + 1] \in Nat
           /\ SubSeq(b, i, k + 1) = Append(SubSeq(b, i, k), b[k + 1])
           /\ Len(SubSeq(b, i, k)) = k + 1 - i
    BY DEF Numbers

\* A part of the bytes is not empty and consists of bytes.
LEMMA SubSeqType ==
    ASSUME NEW b \in Numbers, NEW i \in 1 .. Len(b), NEW k \in i .. Len(b)
    PROVE  /\ SubSeq(b, i, k) \in Numbers /\ SubSeq(b, i, k) # << >>
           /\ Len(SubSeq(b, i, k)) = k + 1 - i
<1>1. Len(b) \in Nat /\ i \in Nat \ {0} /\ k \in Nat /\ i <= k /\ k <= Len(b)
    BY DEF Numbers
<1>2. SubSeq(b, i, k) \in Numbers /\ Len(SubSeq(b, i, k)) = k + 1 - i
    BY <1>1 DEF Numbers
<1>3. SubSeq(b, i, k) # << >>
    BY <1>1, <1>2
<1>4. QED
    BY <1>2, <1>3

Fit(b, i, l) == i + l - 1 <= Len(b) /\ Fits(SubSeq(b, i, i + l - 1))

\* Fit says that so many bytes from a place on begin as a form in the table.
LEMMA FitMeans ==
    ASSUME NEW b \in Numbers, NEW i \in 1 .. Len(b), NEW l \in 1 .. 4
    PROVE  Fit(b, i, l) <=>
               /\ i + l - 1 <= Len(b)
               /\ \E form \in Table : Begins(SubSeq(b, i, i + l - 1), form)
<1>1. SUFFICES ASSUME i + l - 1 <= Len(b)
               PROVE  Fits(SubSeq(b, i, i + l - 1)) <=>
                          \E form \in Table : Begins(SubSeq(b, i, i + l - 1), form)
    BY DEF Fit
<1>2. i + l - 1 \in i .. Len(b)
    BY <1>1 DEF Numbers
<1>3. SubSeq(b, i, i + l - 1) \in Numbers /\ SubSeq(b, i, i + l - 1) # << >>
    BY <1>2, SubSeqType
<1>4. QED
    BY <1>3, WholeFits

\* What fits also fits without its last byte.
LEMMA FitShorter ==
    ASSUME NEW b \in Numbers, NEW i \in 1 .. Len(b), NEW l \in 2 .. 4, Fit(b, i, l)
    PROVE  Fit(b, i, l - 1)
<1> DEFINE k == i + l - 2
<1>1. /\ k \in Nat /\ i <= k + 1 /\ k + 1 <= Len(b) /\ i + l - 1 = k + 1 /\ i + (l - 1) - 1 = k
      /\ k \in i .. Len(b) /\ i \in Nat /\ 1 <= i
    BY DEF Fit, Numbers
<1> HIDE DEF k
<1>2. /\ SubSeq(b, i, k) \in Numbers /\ b[k + 1] \in Nat
      /\ SubSeq(b, i, k + 1) = Append(SubSeq(b, i, k), b[k + 1])
    BY <1>1, SubSeqGrows
<1>3. SubSeq(b, i, k) # << >>
    BY <1>1, SubSeqType
<1> DEFINE u == SubSeq(b, i, k)
<1>4. Fits(u)
    <2>1. Fits(SubSeq(b, i, k + 1))
        BY <1>1 DEF Fit
    <2>2. Fits(Append(u, b[k + 1])) /\ u \in Numbers /\ u # << >> /\ b[k + 1] \in Nat
        BY <1>2, <1>3, <2>1
    <2> HIDE DEF u
    <2>3. QED
        BY <2>2, FitsShorter, Zenon DEF Unfinished
<1>5. QED
    BY <1>1, <1>4 DEF Fit, Numbers

IsPieceLen(b, i, n) == (n = 1 \/ Fit(b, i, n)) /\ \A l \in n + 1 .. 4 : ~ Fit(b, i, l)

\* The reference chooses the length of a piece.
LEMMA PieceLenChosen ==
    ASSUME NEW b \in Numbers, NEW i \in 1 .. Len(b)
    PROVE  PieceLen(b, i) = CHOOSE n \in 1 .. 4 : IsPieceLen(b, i, n)
<1> DEFINE Ref(l) == /\ i + l - 1 <= Len(b)
                     /\ \E form \in Table : Begins(SubSeq(b, i, i + l - 1), form)
           P(n) == (n = 1 \/ Ref(n)) /\ \A l \in n + 1 .. 4 : ~ Ref(l)
<1>1. \A l \in 1 .. 4 : Ref(l) <=> Fit(b, i, l)
    BY FitMeans
<1>2. PieceLen(b, i) = CHOOSE n \in 1 .. 4 : P(n)
    BY Zenon DEF PieceLen
<1> HIDE DEF Ref
<1>3. \A n \in 1 .. 4 : P(n) <=> IsPieceLen(b, i, n)
    BY <1>1 DEF IsPieceLen
<1> HIDE DEF P
<1>4. QED
    BY <1>2, <1>3

\* Where a piece ends: what is there fits, and one byte more is none or does not.
LEMMA PieceLenIs ==
    ASSUME NEW b \in Numbers, NEW i \in 1 .. Len(b), NEW m \in 1 .. 4,
           m = 1 \/ Fit(b, i, m), m < 4 => ~ Fit(b, i, m + 1)
    PROVE  PieceLen(b, i) = m
<1>1. \A l \in 2 .. 4 : Fit(b, i, l) => Fit(b, i, l - 1)
    BY FitShorter
<1>2. (Fit(b, i, 4) => Fit(b, i, 3)) /\ (Fit(b, i, 3) => Fit(b, i, 2))
    BY <1>1
<1>3. IsPieceLen(b, i, m)
    <2>1. \A l \in m + 1 .. 4 : ~ Fit(b, i, l)
        BY <1>2
    <2>2. QED
        BY <2>1 DEF IsPieceLen
<1>4. ASSUME NEW n \in 1 .. 4, IsPieceLen(b, i, n) PROVE n = m
    BY <1>3, <1>4 DEF IsPieceLen
<1>5. QED
    BY <1>3, <1>4, PieceLenChosen

\* A piece has one to four bytes.
LEMMA PieceLenType ==
    ASSUME NEW b \in Numbers, NEW i \in 1 .. Len(b)
    PROVE  PieceLen(b, i) \in 1 .. 4
<1>1. CASE Fit(b, i, 4)
    BY <1>1, PieceLenIs
<1>2. CASE ~ Fit(b, i, 4) /\ Fit(b, i, 3)
    BY <1>2, PieceLenIs
<1>3. CASE ~ Fit(b, i, 4) /\ ~ Fit(b, i, 3) /\ Fit(b, i, 2)
    BY <1>3, PieceLenIs
<1>4. CASE ~ Fit(b, i, 4) /\ ~ Fit(b, i, 3) /\ ~ Fit(b, i, 2)
    BY <1>4, PieceLenIs
<1>5. QED
    BY <1>1, <1>2, <1>3, <1>4

IsPieceEnd(b, end) ==
    /\ end \in [0 .. Len(b) -> Nat] /\ end[0] = 0
    /\ \A i \in 1 .. Len(b) :
          end[i] = IF end[i - 1] >= i THEN end[i - 1] ELSE i - 1 + PieceLen(b, i)

\* PieceEnd is the function its recursive definition describes.
LEMMA PieceEndIs ==
    ASSUME NEW b \in Numbers
    PROVE  IsPieceEnd(b, PieceEnd(b))
<1> DEFINE n == Len(b)
           E(f, i) == IF i = 0 THEN 0 ELSE IF f[i - 1] >= i THEN f[i - 1] ELSE i - 1 + PieceLen(b, i)
           Is(f) == f = [i \in 0 .. n |-> E(f, i)]
           end == CHOOSE f : Is(f)
           step == [i \in 1 .. n |-> [x \in Nat |-> IF x >= i THEN x ELSE i - 1 + PieceLen(b, i)]]
<1>1. n \in Nat
    BY DEF Numbers
<1>2. AreSteps(step, n, Nat)
    <2>1. \A i \in 1 .. n : PieceLen(b, i) \in 1 .. 4
        BY PieceLenType
    <2>2. \A i \in 1 .. n : i - 1 + PieceLen(b, i) \in Nat
        BY <1>1, <2>1
    <2>3. \A i \in 1 .. n : [x \in Nat |-> IF x >= i THEN x ELSE i - 1 + PieceLen(b, i)] \in [Nat -> Nat]
        BY <2>2
    <2>4. QED
        BY <2>3 DEF AreSteps
<1>3. PICK f : Repeats(f, n, Nat, 0, step)
    <2> HIDE DEF step, n
    <2>1. 0 \in Nat
        OBVIOUS
    <2> QED
        BY <1>1, <1>2, <2>1, Iteration, Zenon
<1>4. f \in [0 .. n -> Nat] /\ f[0] = 0 /\ \A i \in 1 .. n : f[i] = step[i][f[i - 1]]
    BY <1>3 DEF Repeats
<1>5. \A i \in 0 .. n : f[i] = E(f, i)
    <2> SUFFICES ASSUME NEW i \in 0 .. n PROVE f[i] = E(f, i)
        OBVIOUS
    <2>1. CASE i = 0
        BY <1>4, <2>1
    <2>2. CASE i # 0
        <3>1. i \in 1 .. n /\ i - 1 \in 0 .. n
            BY <1>1, <2>2
        <3>2. f[i - 1] \in Nat /\ f[i] = step[i][f[i - 1]]
            BY <1>4, <3>1, Zenon
        <3>3. QED
            BY <2>2, <3>1, <3>2, Zenon
    <2>3. QED
        BY <2>1, <2>2
<1>6. Is(f)
    <2>1. f = [i \in 0 .. n |-> f[i]]
        BY <1>4, Zenon
    <2>2. [i \in 0 .. n |-> f[i]] = [i \in 0 .. n |-> E(f, i)]
        <3> HIDE DEF E, n
        <3> QED
            BY <1>5
    <2>3. QED
        BY <2>1, <2>2
<1>7. Is(end)
    <2> HIDE DEF Is
    <2> QED
        BY <1>6
<1>8. PieceEnd(b) = end
    BY Zenon DEF PieceEnd
<1>9. DOMAIN end = 0 .. n /\ \A i \in 0 .. n : end[i] = E(end, i)
    <2> HIDE DEF end
    <2> QED
        BY <1>7
<1>10. \A i \in 0 .. n : end[i] = f[i]
    <2> DEFINE T == {i \in 0 .. n : end[i] = f[i]}
    <2> HIDE DEF end
    <2>1. 0 \in T
        BY <1>1, <1>4, <1>9
    <2>2. ASSUME NEW i \in 1 .. n, i - 1 \in T PROVE i \in T
        <3>1. end[i] = E(end, i) /\ f[i] = E(f, i) /\ end[i - 1] = f[i - 1] /\ i \in 0 .. n
            BY <1>1, <1>5, <1>9, <2>2
        <3>2. QED
            BY <3>1
    <2>3. \A i \in 0 .. n : i \in T
        <3> HIDE DEF T
        <3> QED
            BY <1>1, <2>1, <2>2, Induction
    <2>4. QED
        BY <2>3
<1>11. end = f
    <2> HIDE DEF end
    <2>1. end = [i \in 0 .. n |-> end[i]]
        BY <1>7
    <2>2. QED
        BY <1>4, <1>10, <2>1
<1>12. \A i \in 1 .. n : f[i] = IF f[i - 1] >= i THEN f[i - 1] ELSE i - 1 + PieceLen(b, i)
    <2> SUFFICES ASSUME NEW i \in 1 .. n
                 PROVE f[i] = IF f[i - 1] >= i THEN f[i - 1] ELSE i - 1 + PieceLen(b, i)
        OBVIOUS
    <2>1. i \in 0 .. n /\ i # 0
        BY <1>1
    <2>2. f[i] = E(f, i)
        BY <1>5, <2>1
    <2>3. QED
        BY <2>1, <2>2, Zenon
<1>13. QED
    <2> HIDE DEF end
    <2>1. IsPieceEnd(b, f)
        BY <1>4, <1>12 DEF IsPieceEnd
    <2>2. QED
        BY <1>8, <1>11, <2>1

-----------------------------------------------------------------------------
(* The reference: what each byte adds to the text *)

\* A point gives code units.
LEMMA UnitsType ==
    ASSUME NEW point \in Nat
    PROVE  UnitsOf(point) \in Numbers
<1>1. CASE point < 65536
    BY <1>1 DEF UnitsOf, Numbers
<1>2. CASE point >= 65536
    <2>1. /\ 55296 + (point - 65536) \div 1024 \in Nat
          /\ 56320 + ((point - 65536) % 1024) \in Nat
        BY <1>2
    <2>2. QED
        BY <1>2, <2>1 DEF UnitsOf, Numbers
<1>3. QED
    BY <1>1, <1>2

\* A piece stands for a point.
LEMMA ValueType ==
    ASSUME NEW u \in Numbers, u # << >>
    PROVE  Value(u) \in Nat
<1>1. CASE ~ IsWhole(u)
    BY <1>1 DEF Value, REPLACEMENT
<1>2. CASE IsWhole(u) /\ u # << >>
    <2>1. Fits(u) /\ Len(u) = Size(u[1])
        BY <1>2, WholeFits
    <2>2. Low(u) \in Nat /\ Len(u) \in 1 .. 4 /\ \A i \in 1 .. Len(u) : u[i] \in Nat
        BY <2>1, LowType DEF Numbers
    <2>3. Low(u) = u[1] % <<128, 32, 16, 8>>[Len(u)]
        BY <2>1 DEF Low
    <2>4. /\ Len(u) = 1 => Value(u) = Low(u)
          /\ Len(u) = 2 => Value(u) = Low(u) * 64 + (u[2] % 64)
          /\ Len(u) = 3 => Value(u) = Low(u) * 4096 + (u[2] % 64) * 64 + (u[3] % 64)
          /\ Len(u) = 4 => Value(u) = Low(u) * 262144 + (u[2] % 64) * 4096 + (u[3] % 64) * 64 + (u[4] % 64)
        BY <1>2, <2>3 DEF Value
    <2>5. \A i \in 1 .. Len(u) : u[i] % 64 \in Nat
        BY <2>2
    <2> DEFINE low == Low(u)
               n == Len(u)
               six(i) == u[i] % 64
               value == Value(u)
    <2>6. /\ low \in Nat /\ n \in 1 .. 4
          /\ n > 1 => six(2) \in Nat
          /\ n > 2 => six(3) \in Nat
          /\ n > 3 => six(4) \in Nat
        BY <2>2, <2>5
    <2>7. /\ n = 1 => value = low
          /\ n = 2 => value = low * 64 + six(2)
          /\ n = 3 => value = low * 4096 + six(2) * 64 + six(3)
          /\ n = 4 => value = low * 262144 + six(2) * 4096 + six(3) * 64 + six(4)
        BY <2>4
    <2> HIDE DEF low, n, six, value
    <2>8. n = 1 \/ n = 2 \/ n = 3 \/ n = 4
        BY <2>6
    <2>9. value \in Nat
        BY <2>6, <2>7, <2>8
    <2>10. QED
        BY <2>9 DEF value
<1>3. QED
    BY <1>1, <1>2

\* A further part is added at the end.
LEMMA Adds ==
    ASSUME NEW s \in Seq(Numbers), NEW x \in Numbers
    PROVE  FlattenSeq(Append(s, x)) = FlattenSeq(s) \o x
    BY FlattenAppend DEF Numbers

\* Code points as text.
Text(points) == FlattenSeq([i \in DOMAIN points |-> UnitsOf(points[i])])

\* No points are no text.
LEMMA TextEmpty == Text(<< >>) = << >>
<1>1. [i \in DOMAIN << >> |-> UnitsOf(<< >>[i])] = << >>
    OBVIOUS
<1>2. QED
    BY <1>1, FlattenEmpty DEF Text

\* A further point adds its units to the text.
LEMMA TextAppend ==
    ASSUME NEW points \in Numbers, NEW point \in Nat
    PROVE  Text(Append(points, point)) = Text(points) \o UnitsOf(point)
<1> DEFINE n == Len(points)
           q == Append(points, point)
           s == [i \in 1 .. n |-> UnitsOf(points[i])]
           t == [i \in 1 .. n + 1 |-> UnitsOf(q[i])]
<1>1. /\ n \in Nat /\ DOMAIN points = 1 .. n /\ DOMAIN q = 1 .. n + 1
      /\ q[n + 1] = point /\ \A i \in 1 .. n : q[i] = points[i] /\ points[i] \in Nat
    BY DEF Numbers
<1>2. \A p \in Nat : UnitsOf(p) \in Numbers
    BY UnitsType
<1>3. s \in Seq(Numbers)
    <2>1. s \in [1 .. n -> Numbers]
        BY <1>1, <1>2
    <2>2. QED
        BY <1>1, <2>1
<1>4. t = Append(s, UnitsOf(point))
    <2> HIDE DEF q, n
    <2>1. Len(s) = n
        BY <1>1
    <2>2. QED
        BY <1>1, <2>1
<1>5. Text(q) = FlattenSeq(t) /\ Text(points) = FlattenSeq(s)
    <2> HIDE DEF q, n
    <2> QED
        BY <1>1, Zenon DEF Text
<1> HIDE DEF s, t, q
<1>6. UnitsOf(point) \in Numbers
    BY <1>2
<1>7. QED
    BY <1>3, <1>4, <1>5, <1>6, Adds DEF q

\* What byte i adds to the reference.
Adding(b, end, i) == IF end[i - 1] < i THEN UnitsOf(Value(SubSeq(b, i, end[i]))) ELSE << >>

Added(b, j) == FlattenSeq([i \in 1 .. j |-> Adding(b, PieceEnd(b), i)])

\* The reference adds what each byte adds.
LEMMA ReferenceIsAdded ==
    ASSUME NEW b \in Numbers
    PROVE  ReferenceDecoding(b) = Added(b, Len(b))
<1>1. DOMAIN b = 1 .. Len(b)
    BY DEF Numbers
<1>2. QED
    BY <1>1, Zenon DEF ReferenceDecoding, Added, Adding

\* A byte adds code units.
LEMMA AddingType ==
    ASSUME NEW b \in Numbers, NEW i \in 1 .. Len(b), PieceEnd(b)[i] <= Len(b)
    PROVE  Adding(b, PieceEnd(b), i) \in Numbers
<1> DEFINE end == PieceEnd(b)
<1>1. IsPieceEnd(b, end)
    BY PieceEndIs
<1>2. CASE end[i - 1] >= i
    <2>1. end[i - 1] \in Nat
        <3>1. end \in [0 .. Len(b) -> Nat] /\ Len(b) \in Nat
            BY <1>1 DEF IsPieceEnd, Numbers
        <3> HIDE DEF end
        <3>2. i - 1 \in 0 .. Len(b)
            BY <3>1
        <3>3. QED
            BY <3>1, <3>2
    <2>2. Adding(b, end, i) = << >>
        BY <1>2, <2>1 DEF Adding
    <2>3. QED
        BY <2>2 DEF Numbers
<1>3. CASE ~ (end[i - 1] >= i)
    <2>0. PieceLen(b, i) \in 1 .. 4
        BY PieceLenType
    <2>1. end[i] = i - 1 + PieceLen(b, i) /\ i \in Nat
        BY <1>1, <1>3 DEF IsPieceEnd
    <2>2. end[i] \in i .. Len(b)
        BY <2>0, <2>1 DEF Numbers
    <2>3. SubSeq(b, i, end[i]) \in Numbers /\ SubSeq(b, i, end[i]) # << >>
        BY <2>2, SubSeqType
    <2>4. UnitsOf(Value(SubSeq(b, i, end[i]))) \in Numbers
        BY <2>3, ValueType, UnitsType
    <2>5. QED
        BY <2>4 DEF Adding, Numbers
<1>4. QED
    BY <1>2, <1>3

\* A piece ends after the first j bytes, and the pieces so far stand for points.
Border(b, j, points) ==
    /\ j \in 0 .. Len(b) /\ points \in Numbers
    /\ PieceEnd(b)[j] = j
    /\ Added(b, j) = Text(points)

\* There is a border before the first byte.
LEMMA BorderFresh ==
    ASSUME NEW b \in Numbers
    PROVE  Border(b, 0, << >>)
<1>1. PieceEnd(b)[0] = 0
    BY PieceEndIs DEF IsPieceEnd
<1>2. [i \in 1 .. 0 |-> Adding(b, PieceEnd(b), i)] = << >>
    OBVIOUS
<1>3. Added(b, 0) = << >>
    BY <1>2, FlattenEmpty DEF Added
<1>4. QED
    BY <1>1, <1>3, TextEmpty DEF Border, Numbers

\* What is added up to a byte is what is added before it and by it.
LEMMA AddedGrows ==
    ASSUME NEW b \in Numbers, NEW i \in 1 .. Len(b),
           \A k \in 1 .. i : PieceEnd(b)[k] <= Len(b)
    PROVE  Added(b, i) = Added(b, i - 1) \o Adding(b, PieceEnd(b), i)
<1> DEFINE end == PieceEnd(b)
           s == [k \in 1 .. i - 1 |-> Adding(b, end, k)]
           t == [k \in 1 .. i |-> Adding(b, end, k)]
           x == Adding(b, end, i)
<1>1. \A k \in 1 .. i : Adding(b, end, k) \in Numbers
    <2>1. \A k \in 1 .. i : k \in 1 .. Len(b)
        BY DEF Numbers
    <2>2. QED
        BY <2>1, AddingType
<1>2. i \in Nat \ {0} /\ i - 1 \in Nat
    BY DEF Numbers
<1>3. Added(b, i) = FlattenSeq(t) /\ Added(b, i - 1) = FlattenSeq(s)
    BY Zenon DEF Added
<1> HIDE DEF end
<1>4. x \in Numbers /\ \A k \in 1 .. i - 1 : Adding(b, end, k) \in Numbers
    BY <1>1, <1>2
<1>5. s \in Seq(Numbers)
    <2>1. s \in [1 .. i - 1 -> Numbers]
        BY <1>4
    <2>2. QED
        BY <1>2, <2>1
<1>6. t = Append(s, x)
    <2>1. Len(s) = i - 1
        BY <1>2
    <2>2. QED
        BY <1>2, <2>1
<1> HIDE DEF s, t, x
<1>7. QED
    BY <1>3, <1>4, <1>5, <1>6, Adds DEF x, end

\* Beyond a border there is a whole piece, or what there is of one.
LEMMA Advance ==
    ASSUME NEW b \in Numbers, NEW j \in Nat, NEW points, Border(b, j, points), j < Len(b),
           NEW m \in 1 .. 4, m = PieceLen(b, j + 1), j + m <= Len(b)
    PROVE  /\ Value(SubSeq(b, j + 1, j + m)) \in Nat
           /\ Border(b, j + m, Append(points, Value(SubSeq(b, j + 1, j + m))))
<1> DEFINE n == Len(b)
           end == PieceEnd(b)
           value == Value(SubSeq(b, j + 1, j + m))
<1>1. n \in Nat /\ j + m \in Nat /\ j + 1 \in 1 .. n /\ j + m \in j + 1 .. n
    BY DEF Numbers
<1>2. value \in Nat
    BY <1>1, SubSeqType, ValueType
<1>3. IsPieceEnd(b, end) /\ end[j] = j
    BY PieceEndIs DEF Border
<1>4. end[j + 1] = j + m
    <2>1. end[j + 1] = IF end[(j + 1) - 1] >= j + 1 THEN end[(j + 1) - 1] ELSE (j + 1) - 1 + PieceLen(b, j + 1)
        BY <1>1, <1>3 DEF IsPieceEnd
    <2>2. (j + 1) - 1 = j
        OBVIOUS
    <2>3. QED
        BY <1>3, <2>1, <2>2
<1> HIDE DEF end, value, n
<1>5. \A i \in 1 .. n : end[i] = IF end[i - 1] >= i THEN end[i - 1] ELSE i - 1 + PieceLen(b, i)
    BY <1>3 DEF IsPieceEnd, n
<1>6. \A k \in 0 .. m - 1 : end[j + 1 + k] = j + m
    <2> DEFINE T == {k \in 0 .. m - 1 : end[j + 1 + k] = j + m}
    <2>1. 0 \in T
        BY <1>4
    <2>2. ASSUME NEW k \in 1 .. m - 1, k - 1 \in T PROVE k \in T
        <3>1. j + 1 + k \in 1 .. n /\ (j + 1 + k) - 1 = j + 1 + (k - 1)
            BY <1>1
        <3>2. end[(j + 1 + k) - 1] = j + m
            BY <2>2, <3>1
        <3>3. end[j + 1 + k] = j + m
            BY <1>5, <3>1, <3>2
        <3>4. QED
            BY <3>3
    <2>3. \A k \in 0 .. m - 1 : k \in T
        <3>1. m - 1 \in Nat
            OBVIOUS
        <3> HIDE DEF T
        <3> QED
            BY <2>1, <2>2, <3>1, Induction
    <2>4. QED
        BY <2>3
<1>7. \A i \in j + 1 .. j + m : end[i] = j + m
    <2> SUFFICES ASSUME NEW i \in j + 1 .. j + m PROVE end[i] = j + m
        OBVIOUS
    <2>1. i - (j + 1) \in 0 .. m - 1 /\ j + 1 + (i - (j + 1)) = i
        OBVIOUS
    <2>2. QED
        BY <1>6, <2>1
<1>8. \A i \in 1 .. j + m : end[i] <= n
    <2>1. \A i \in 1 .. j : end[i] <= j
        <3> DEFINE T == {k \in 0 .. j : \A i \in 1 .. j : i >= j - k => end[i] <= j}
        <3>1. 0 \in T
            BY <1>3
        <3>2. ASSUME NEW k \in 1 .. j, k - 1 \in T PROVE k \in T
            <4> SUFFICES ASSUME NEW i \in 1 .. j, i >= j - k PROVE end[i] <= j
                OBVIOUS
            <4>1. CASE i > j - k
                <5>1. i >= j - (k - 1)
                    BY <4>1
                <5>2. QED
                    BY <3>2, <5>1
            <4>2. CASE i = j - k
                <5>1. i + 1 \in 1 .. j /\ i + 1 \in 1 .. n /\ i + 1 >= j - (k - 1) /\ (i + 1) - 1 = i
                    BY <1>1, <4>2
                <5>2. end[i + 1] <= j
                    BY <3>2, <5>1
                <5>3. end[i + 1] = IF end[i] >= i + 1 THEN end[i] ELSE i + PieceLen(b, i + 1)
                    BY <1>5, <5>1
                <5>4. end[i] \in Nat
                    BY <1>1, <1>3, <5>1 DEF IsPieceEnd, n
                <5>5. QED
                    BY <5>1, <5>2, <5>3, <5>4
            <4>3. QED
                BY <4>1, <4>2
        <3>3. \A k \in 0 .. j : k \in T
            <4> HIDE DEF T
            <4> QED
                BY <3>1, <3>2, Induction
        <3>4. j \in T
            <4> HIDE DEF T
            <4> QED
                BY <3>3
        <3>5. \A i \in 1 .. j : i >= j - j => end[i] <= j
            BY <3>4
        <3>6. QED
            BY <3>5
    <2>2. \A i \in 1 .. j + m : i \in 1 .. n /\ end[i] \in Nat
        BY <1>1, <1>3 DEF IsPieceEnd, n
    <2>3. ASSUME NEW i \in 1 .. j + m PROVE end[i] <= n
        <3>1. CASE i \in 1 .. j
            <4>1. end[i] <= j /\ end[i] \in Nat
                BY <2>1, <2>2, <3>1
            <4>2. QED
                BY <1>1, <4>1
        <3>2. CASE i \in j + 1 .. j + m
            BY <1>1, <1>7, <3>2
        <3>3. QED
            BY <3>1, <3>2
    <2>4. QED
        BY <2>3
<1>9. \A i \in 1 .. j + m : Added(b, i) = Added(b, i - 1) \o Adding(b, end, i)
    <2> SUFFICES ASSUME NEW i \in 1 .. j + m
                 PROVE  Added(b, i) = Added(b, i - 1) \o Adding(b, end, i)
        OBVIOUS
    <2>1. i \in 1 .. Len(b) /\ \A k \in 1 .. i : PieceEnd(b)[k] <= Len(b)
        BY <1>1, <1>8 DEF n, end
    <2>2. QED
        BY <2>1, AddedGrows DEF end
<1>10. Added(b, j + 1) = Text(points) \o UnitsOf(value)
    <2>1. j + 1 \in 1 .. j + m /\ (j + 1) - 1 = j
        OBVIOUS
    <2>2. Adding(b, end, j + 1) = UnitsOf(value)
        BY <1>3, <1>4, <2>1 DEF Adding, value
    <2>3. QED
        BY <1>9, <2>1, <2>2 DEF Border
<1>11. Text(points) \o UnitsOf(value) = Text(Append(points, value)) /\ Append(points, value) \in Numbers
    <2>1. points \in Numbers
        BY DEF Border
    <2>2. Text(Append(points, value)) = Text(points) \o UnitsOf(value)
        BY <1>2, <2>1, TextAppend
    <2>3. Append(points, value) \in Numbers
        BY <1>2, <2>1 DEF Numbers
    <2>4. QED
        BY <2>2, <2>3
<1>12. Text(Append(points, value)) \in Seq(Nat)
    <2> DEFINE q == Append(points, value)
    <2>1. DOMAIN q = 1 .. Len(q) /\ Len(q) \in Nat /\ \A i \in 1 .. Len(q) : q[i] \in Nat
        <3>1. q \in Seq(Nat)
            BY <1>11 DEF Numbers
        <3> HIDE DEF q
        <3>2. QED
            BY <3>1
    <2> HIDE DEF q
    <2>2. [i \in DOMAIN q |-> UnitsOf(q[i])] \in [1 .. Len(q) -> Numbers]
        BY <2>1, UnitsType
    <2>3. [i \in DOMAIN q |-> UnitsOf(q[i])] \in Seq(Numbers)
        BY <2>1, <2>2
    <2>4. QED
        BY <2>3, FlattenType DEF Text, Numbers, q
<1>13. \A k \in 0 .. m - 1 : Added(b, j + 1 + k) = Text(Append(points, value))
    <2> DEFINE whole == Text(Append(points, value))
               T == {k \in 0 .. m - 1 : Added(b, j + 1 + k) = whole}
    <2>1. 0 \in T
        BY <1>10, <1>11
    <2> HIDE DEF whole
    <2>2. ASSUME NEW k \in 1 .. m - 1, k - 1 \in T PROVE k \in T
        <3> DEFINE i == j + 1 + k
        <3>1. i \in 1 .. j + m /\ i - 1 \in j + 1 .. j + m /\ i - 1 = j + 1 + (k - 1) /\ i <= j + m /\ i \in Nat
            OBVIOUS
        <3>2. Added(b, i - 1) = whole
            BY <2>2, <3>1
        <3> HIDE DEF i
        <3>3. end[i - 1] = j + m
            BY <1>7, <3>1
        <3>4. ~ (end[i - 1] < i)
            BY <1>1, <3>1, <3>3
        <3>5. Adding(b, end, i) = << >>
            BY <3>4 DEF Adding
        <3>6. Added(b, i) = whole \o << >>
            BY <1>9, <3>1, <3>2, <3>5
        <3>7. whole \o << >> = whole
            BY <1>12, ConcatEmptySeq DEF whole
        <3>8. QED
            BY <3>6, <3>7 DEF i
    <2>3. \A k \in 0 .. m - 1 : k \in T
        <3>1. m - 1 \in Nat
            OBVIOUS
        <3> HIDE DEF T
        <3> QED
            BY <2>1, <2>2, <3>1, Induction
    <2>4. QED
        BY <2>3 DEF whole
<1>14. Added(b, j + m) = Text(Append(points, value))
    <2>1. m - 1 \in 0 .. m - 1 /\ j + 1 + (m - 1) = j + m
        OBVIOUS
    <2>2. QED
        BY <1>13, <2>1
<1>15. end[j + m] = j + m
    BY <1>1, <1>7
<1>16. QED
    BY <1>1, <1>2, <1>11, <1>14, <1>15 DEF Border, value, end, n

-----------------------------------------------------------------------------
(* The decoder follows the table *)

\* A piece ends where the next byte does not fit.
LEMMA PieceEndsHere ==
    ASSUME NEW b \in Numbers, NEW i \in 1 .. Len(b), NEW m \in 1 .. 4, NEW k \in Nat, k = i + m - 1,
           k <= Len(b), m = 1 \/ Fits(SubSeq(b, i, k)), k = Len(b) \/ ~ Fits(SubSeq(b, i, k + 1))
    PROVE  PieceLen(b, i) = m
<1>1. Len(b) \in Nat /\ i \in Nat /\ i + m - 1 = k /\ i + (m + 1) - 1 = k + 1
    BY DEF Numbers
<1>2. m = 1 \/ Fit(b, i, m)
    BY <1>1 DEF Fit
<1>3. ~ Fit(b, i, m + 1)
    <2>1. CASE k = Len(b)
        BY <1>1, <2>1 DEF Fit
    <2>2. CASE ~ Fits(SubSeq(b, i, k + 1))
        BY <1>1, <2>2 DEF Fit
    <2>3. QED
        BY <2>1, <2>2
<1>4. QED
    BY <1>2, <1>3, PieceLenIs

\* Concatenation is associative.
LEMMA ConcatThree ==
    ASSUME NEW r \in Numbers, NEW s \in Numbers, NEW t \in Numbers
    PROVE  r \o (s \o t) = (r \o s) \o t
<1> DEFINE T == {q \in Numbers : r \o (s \o q) = (r \o s) \o q}
<1>1. r \o s \in Numbers
    BY ConcatProperties DEF Numbers
<1>2. << >> \in T
    <2>1. s \o << >> = s /\ (r \o s) \o << >> = r \o s /\ << >> \in Numbers
        BY <1>1, ConcatEmptySeq DEF Numbers
    <2>2. QED
        BY <2>1
<1>3. ASSUME NEW q \in Numbers, NEW x \in Nat, q \in T PROVE Append(q, x) \in T
    <2>1. s \o q \in Numbers /\ Append(q, x) \in Numbers
        BY ConcatProperties DEF Numbers
    <2>2. s \o Append(q, x) = Append(s \o q, x)
        BY AppendToConcat
    <2>3. r \o Append(s \o q, x) = Append(r \o (s \o q), x)
        BY <2>1, AppendToConcat
    <2>4. (r \o s) \o Append(q, x) = Append((r \o s) \o q, x)
        BY <1>1, AppendToConcat
    <2>5. r \o (s \o q) = (r \o s) \o q
        BY <1>3
    <2>6. QED
        BY <2>1, <2>2, <2>3, <2>4, <2>5, Zenon
<1>4. Seq(Nat) \subseteq T
    <2> HIDE DEF T
    <2> QED
        BY <1>2, <1>3, SeqInduction DEF Numbers
<1>5. QED
    BY <1>4 DEF Numbers

\* One number is a sequence of numbers.
LEMMA Single ==
    ASSUME NEW x \in Nat
    PROVE  <<x>> \in Numbers /\ <<x>> # << >> /\ Len(<<x>>) = 1
    BY DEF Numbers

\* What is unfinished fits, is not whole, and has found no point.
LEMMA UnfinishedMeans ==
    ASSUME NEW u \in Numbers, Unfinished(u)
    PROVE  /\ Fits(u) /\ u # << >> /\ Len(u) \in 1 .. 3
           /\ ~ IsWhole(u) /\ Value(u) = REPLACEMENT
           /\ StateKnown(u) /\ Decoder(u).points = << >> /\ Decoder(u).needed # 0
<1> DEFINE l == Len(u)
           s == Size(u[1])
<1>1. Fits(u) /\ u # << >> /\ l < s
    BY DEF Unfinished, Fits
<1>2. l \in 1 .. 4 /\ s \in 1 .. 4
    BY <1>1, LowType
<1>3. IsWhole(u) => l = s
    BY <1>1, WholeFits
<1>4. StateKnown(u)
    BY UnfinishedIsKnown
<1>5. Decoder(u).points = << >> /\ Decoder(u).needed = s - l
    BY <1>4 DEF StateKnown, Within
<1> HIDE DEF l, s
<1>6. l \in 1 .. 3 /\ l # s /\ s - l # 0
    BY <1>1, <1>2
<1>7. ~ IsWhole(u)
    BY <1>3, <1>6
<1>8. Value(u) = REPLACEMENT
    BY <1>7 DEF Value
<1>9. QED
    BY <1>1, <1>4, <1>5, <1>6, <1>7, <1>8 DEF l

\* Putting a point and then others in front puts the others, then the point.
LEMMA PrefixedTwice ==
    ASSUME NEW points \in Numbers, NEW w \in Nat, NEW d \in DecoderState
    PROVE  Prefixed(points, Prefixed(<<w>>, d)) = Prefixed(Append(points, w), d)
<1>1. d.points \in Numbers /\ <<w>> \in Numbers
    BY Single DEF DecoderState
<1>2. Append(points, w) = points \o <<w>>
    BY AppendIsConcat DEF Numbers
<1>3. points \o (<<w>> \o d.points) = (points \o <<w>>) \o d.points
    BY <1>1, ConcatThree
<1>4. QED
    BY <1>2, <1>3 DEF Prefixed

\* What was found before is all there is while nothing has been read.
LEMMA PrefixedBetween ==
    ASSUME NEW points \in Numbers
    PROVE  Prefixed(points, Fresh) = Between(points)
<1>1. points \o << >> = points
    BY ConcatEmptySeq DEF Numbers
<1>2. QED
    BY <1>1 DEF Prefixed, Fresh, Between

\* The first k bytes: pieces that end after byte j, and of the next one u.
Cut(b, k, j, points) ==
    LET u == SubSeq(b, j + 1, k)
    IN  /\ Border(b, j, points) /\ j <= k
        /\ j = k \/ Unfinished(u)
        /\ Decoder(SubSeq(b, 1, k)) = Prefixed(points, Decoder(u))

\* Behind a border, with no piece begun.
LEMMA CutAtBorder ==
    ASSUME NEW b \in Numbers, NEW j \in Nat, NEW points, Border(b, j, points),
           Decoder(SubSeq(b, 1, j)) = Between(points)
    PROVE  Cut(b, j, j, points)
<1>1. SubSeq(b, j + 1, j) = << >>
    BY DEF Numbers
<1>2. Decoder(SubSeq(b, j + 1, j)) = Fresh
    BY <1>1, DecoderEmpty
<1>3. points \in Numbers
    BY DEF Border
<1>4. Prefixed(points, Fresh) = Between(points)
    BY <1>3, PrefixedBetween
<1>5. QED
    BY <1>2, <1>4 DEF Cut

\* What a byte makes of the bytes behind a border.
LEMMA CutAfterByte ==
    ASSUME NEW b \in Numbers, NEW k \in Nat, k < Len(b), NEW points, Border(b, k, points),
           Decoder(SubSeq(b, 1, k + 1)) = Prefixed(points, Decoder(<<b[k + 1]>>))
    PROVE  \E j \in Nat, p \in Numbers : Cut(b, k + 1, j, p)
<1> DEFINE x == b[k + 1]
           u == <<x>>
<1>1. x \in Nat /\ u \in Numbers /\ u # << >> /\ k + 1 \in 1 .. Len(b) /\ k + 1 \in Nat /\ Len(b) \in Nat
    <2>1. Len(b) \in Nat
        BY DEF Numbers
    <2>2. k + 1 \in 1 .. Len(b) /\ k + 1 \in Nat
        BY <2>1
    <2>3. x \in Nat
        BY <2>2 DEF Numbers
    <2> HIDE DEF x
    <2>4. QED
        BY <2>1, <2>2, <2>3, Single
<1>2. SubSeq(b, k + 1, k + 1) = u
    <2> DEFINE none == SubSeq(b, k + 1, k)
    <2>1. none \in Numbers /\ SubSeq(b, k + 1, k + 1) = Append(none, x) /\ Len(none) = k + 1 - (k + 1)
        <3>1. k + 1 \in Nat /\ 1 <= k + 1 /\ k + 1 <= Len(b)
            BY <1>1
        <3>2. QED
            BY <3>1, SubSeqGrows
    <2> HIDE DEF none, x
    <2>2. none = << >>
        BY <2>1, EmptySeq DEF Numbers
    <2>3. QED
        BY <2>1, <2>2
<1>3. points \in Numbers
    BY DEF Border
<1> HIDE DEF x
<1>4. CASE Unfinished(u)
    <2>1. Cut(b, k + 1, k, points)
        <3>1. k <= k + 1 /\ Decoder(SubSeq(b, 1, k + 1)) = Prefixed(points, Decoder(u))
            BY DEF x
        <3> HIDE DEF u
        <3>2. QED
            BY <1>2, <1>4, <3>1 DEF Cut
    <2>2. QED
        BY <1>3, <2>1
<1>5. CASE ~ Unfinished(u)
    <2> DEFINE w == Value(u)
    <2>1. Decoder(u) = Between(<<w>>)
        <3>1. CASE IsWhole(u)
            BY <1>1, <3>1, FirstByte
        <3>2. CASE ~ IsWhole(u)
            <4>1. ~ Fits(u)
                BY <1>1, <1>5, <3>2, WholeFits
            <4>2. w = REPLACEMENT
                BY <3>2 DEF Value
            <4>3. QED
                BY <1>1, <4>1, <4>2, FirstByte
        <3>3. QED
            BY <3>1, <3>2
    <2>2. k + 1 = Len(b) \/ ~ Fits(SubSeq(b, k + 1, (k + 1) + 1))
        <3>1. SUFFICES ASSUME k + 1 # Len(b), Fits(SubSeq(b, k + 1, (k + 1) + 1)) PROVE FALSE
            OBVIOUS
        <3> DEFINE e == k + 1
                   n == Len(b)
        <3>0. e \in Nat /\ 1 <= e /\ e \in 1 .. n /\ e # n /\ n \in Nat
            BY <1>1, <3>1
        <3>00. SubSeq(b, e, e) = u /\ Fits(SubSeq(b, e, e + 1))
            BY <1>2, <3>1
        <3> HIDE DEF e, n, u
        <3>000. e <= e + 1 /\ e + 1 <= n
            BY <3>0
        <3>2. e \in Nat /\ 1 <= e /\ e <= e + 1 /\ e + 1 <= Len(b) /\ SubSeq(b, e, e) = u /\ Fits(SubSeq(b, e, e + 1))
            BY <3>0, <3>00, <3>000 DEF n
        <3>3. SubSeq(b, e, e + 1) = Append(u, b[e + 1]) /\ b[e + 1] \in Nat
            BY <3>2, SubSeqGrows
        <3>4. Unfinished(u)
            BY <1>1, <3>2, <3>3, FitsShorter
        <3>5. QED
            BY <1>5, <3>4
    <2>3. PieceLen(b, k + 1) = 1
        <3>1. k + 1 = (k + 1) + 1 - 1 /\ k + 1 <= Len(b) /\ 1 \in 1 .. 4
            BY <1>1
        <3>2. QED
            BY <1>1, <2>2, <3>1, PieceEndsHere
    <2>4. w \in Nat /\ Border(b, k + 1, Append(points, w))
        <3>1. k < Len(b) /\ 1 = PieceLen(b, k + 1) /\ k + 1 <= Len(b) /\ 1 \in 1 .. 4
            BY <1>1, <2>3
        <3>2. Value(SubSeq(b, k + 1, k + 1)) \in Nat /\ Border(b, k + 1, Append(points, Value(SubSeq(b, k + 1, k + 1))))
            BY <3>1, Advance
        <3>3. QED
            BY <1>2, <3>2
    <2>5. Decoder(SubSeq(b, 1, k + 1)) = Prefixed(points, Between(<<w>>))
        BY <2>1 DEF x
    <2> HIDE DEF w
    <2>6. Between(<<w>>) = Prefixed(<<w>>, Fresh)
        BY <2>4, Single, PrefixedBetween
    <2>7. Append(points, w) \in Numbers
        BY <1>3, <2>4 DEF Numbers
    <2>8. Prefixed(points, Prefixed(<<w>>, Fresh)) = Between(Append(points, w))
        BY <1>3, <2>4, <2>7, FreshType, PrefixedTwice, PrefixedBetween
    <2>9. Cut(b, k + 1, k + 1, Append(points, w))
        BY <1>1, <2>4, <2>5, <2>6, <2>8, CutAtBorder
    <2>10. QED
        BY <1>1, <2>7, <2>9
<1>6. QED
    BY <1>4, <1>5

\* From a cut before a byte there is one after it: the decoder goes on in the piece, ends it, or gives it up.
LEMMA CutGrows ==
    ASSUME NEW b \in Numbers, NEW k \in Nat, k < Len(b), NEW j \in Nat, NEW points, Cut(b, k, j, points)
    PROVE  \E i \in Nat, p \in Numbers : Cut(b, k + 1, i, p)
<1> DEFINE x == b[k + 1]
           u == SubSeq(b, j + 1, k)
           v == SubSeq(b, j + 1, k + 1)
<1>1. Border(b, j, points) /\ j <= k /\ points \in Numbers
    BY DEF Cut, Border
<1>2. u \in Numbers /\ x \in Nat /\ v = Append(u, x) /\ Len(u) = k - j
    <2>1. /\ j + 1 \in Nat /\ 1 <= j + 1 /\ j + 1 <= k + 1 /\ k + 1 <= Len(b) /\ k + 1 - (j + 1) = k - j
        BY <1>1 DEF Cut, Border, Numbers
    <2>2. QED
        BY <2>1, SubSeqGrows
<1>3. Decoder(SubSeq(b, 1, k + 1)) = Prefixed(points, Decoder(v))
    <2> DEFINE q == SubSeq(b, 1, k)
    <2>1. q \in Numbers /\ SubSeq(b, 1, k + 1) = Append(q, x)
        BY SubSeqGrows DEF Numbers
    <2>2. Decoder(q) = Prefixed(points, Decoder(u))
        BY DEF Cut
    <2> HIDE DEF q, u, v, x
    <2>3. Decoder(SubSeq(b, 1, k + 1)) = NextByte(Prefixed(points, Decoder(u)), x)
        BY <1>2, <2>1, <2>2, DecoderAppend
    <2>4. Decoder(v) = NextByte(Decoder(u), x) /\ Decoder(u) \in DecoderState
        BY <1>2, DecoderAppend, DecoderType
    <2>5. points \in Numbers
        BY DEF Cut, Border
    <2>6. QED
        BY <1>2, <2>3, <2>4, <2>5, NextBytePrefixed
<1>4. Border(b, j, points) /\ j <= k /\ points \in Numbers /\ (j = k \/ Unfinished(u))
    BY <1>1, Zenon DEF Cut
<1>5. CASE j = k
    <2>1. u = << >>
        BY <1>2, <1>5, EmptySeq DEF Numbers
    <2> HIDE DEF u, v
    <2>2. v = <<x>>
        BY <1>2, <2>1
    <2>3. QED
        BY <1>3, <1>4, <1>5, <2>2, CutAfterByte
<1>6. CASE j < k
    <2>1. Unfinished(u) /\ StateKnown(u)
        <3>1. Unfinished(u)
            BY <1>4, <1>6
        <3>2. QED
            BY <1>2, <3>1, UnfinishedIsKnown
    <2>2. Len(u) \in 1 .. 3
        BY <1>2, <2>1, UnfinishedMeans
    <2>3. u # << >> /\ ~ IsWhole(u) /\ v # << >> /\ v \in Numbers
        <3>1. u # << >> /\ ~ IsWhole(u)
            BY <1>2, <2>1, UnfinishedMeans
        <3> HIDE DEF u, v, x
        <3>2. v # << >> /\ v \in Numbers
            BY <1>2 DEF Numbers
        <3>3. QED
            BY <3>1, <3>2
    <2>4. k - j \in 1 .. 3 /\ k + 1 <= Len(b) /\ Len(b) \in Nat /\ j + 1 \in 1 .. Len(b) /\ j < Len(b)
        BY <1>2, <1>6, <2>2 DEF Numbers
    <2>5. CASE Unfinished(v)
        <3>1. Cut(b, k + 1, j, points)
            BY <1>3, <1>4, <2>5 DEF Cut
        <3>2. QED
            BY <1>4, <3>1
    <2>6. CASE IsWhole(v)
        <3> DEFINE w == Value(v)
                   m == k + 1 - j
        <3>1. Decoder(v) = Between(<<w>>)
            <4> HIDE DEF u, v, x
            <4> QED
                BY <1>2, <2>1, <2>6, NextOfPiece DEF v
        <3>2. m \in 1 .. 4 /\ j + m = k + 1 /\ (j + 1) + m - 1 = k + 1 /\ k + 1 \in Nat
            BY <2>4
        <3>3. Fits(v)
            BY <2>3, <2>6, WholeFits
        <3>4. k + 1 = Len(b) \/ ~ Fits(SubSeq(b, j + 1, (k + 1) + 1))
            <4>1. SUFFICES ASSUME k + 1 # Len(b), Fits(SubSeq(b, j + 1, (k + 1) + 1)) PROVE FALSE
                OBVIOUS
            <4> DEFINE e == k + 1
                       a == j + 1
            <4>2. e \in Nat /\ a \in Nat /\ 1 <= a /\ a <= e + 1 /\ e + 1 <= Len(b) /\ SubSeq(b, a, e) = v /\ Fits(SubSeq(b, a, e + 1))
                BY <1>4, <2>4, <4>1
            <4> HIDE DEF e, a, v
            <4>3. SubSeq(b, a, e + 1) = Append(v, b[e + 1]) /\ b[e + 1] \in Nat
                BY <4>2, SubSeqGrows
            <4>4. Unfinished(v)
                BY <2>3, <4>2, <4>3, FitsShorter
            <4>5. Len(v) = Size(v[1])
                BY <2>3, <2>6, WholeFits
            <4>6. Len(v) < Size(v[1]) /\ Size(v[1]) \in Nat
                BY <2>3, <4>4, LowType DEF Unfinished
            <4>7. QED
                BY <4>5, <4>6
        <3> HIDE DEF m, v, u
        <3>5. PieceLen(b, j + 1) = m
            <4> DEFINE e == k + 1
                       a == j + 1
            <4>1. a \in 1 .. Len(b) /\ e \in Nat /\ e = a + m - 1 /\ e <= Len(b) /\ m \in 1 .. 4
                BY <2>4, <3>2
            <4>2. Fits(SubSeq(b, a, e)) /\ (e = Len(b) \/ ~ Fits(SubSeq(b, a, e + 1)))
                BY <3>3, <3>4 DEF v
            <4> HIDE DEF e, a
            <4>3. PieceLen(b, a) = m
                BY <4>1, <4>2, PieceEndsHere
            <4>4. QED
                BY <4>3 DEF a
        <3>6. w \in Nat /\ Border(b, k + 1, Append(points, w))
            <4>1. j + m <= Len(b) /\ SubSeq(b, j + 1, j + m) = v
                BY <2>4, <3>2 DEF v
            <4>2. Value(SubSeq(b, j + 1, j + m)) \in Nat /\ Border(b, j + m, Append(points, Value(SubSeq(b, j + 1, j + m))))
                BY <1>4, <2>4, <3>2, <3>5, <4>1, Advance
            <4>3. QED
                BY <3>2, <4>1, <4>2
        <3> HIDE DEF w
        <3>7. <<w>> \in Numbers /\ Append(points, w) \in Numbers
            BY <1>4, <3>6 DEF Numbers
        <3>8. Between(<<w>>) = Prefixed(<<w>>, Fresh)
            BY <3>7, PrefixedBetween
        <3>9. Prefixed(points, Prefixed(<<w>>, Fresh)) = Between(Append(points, w))
            BY <1>4, <3>6, <3>7, FreshType, PrefixedTwice, PrefixedBetween
        <3>10. Cut(b, k + 1, k + 1, Append(points, w))
            BY <1>3, <3>1, <3>2, <3>6, <3>8, <3>9, CutAtBorder
        <3>11. QED
            BY <3>2, <3>7, <3>10
    <2>7. CASE ~ Fits(v)
        <3> DEFINE m == k - j
                   w == REPLACEMENT
        <3>1. Decoder(v) = Prefixed(<<w>>, Decoder(<<x>>))
            <4> HIDE DEF u, v, x
            <4> QED
                BY <1>2, <2>1, <2>7, NextOfPiece DEF v
        <3>2. Value(u) = w
            BY <2>3 DEF Value
        <3>3. m \in 1 .. 4 /\ j + m = k /\ (j + 1) + m - 1 = k /\ k <= Len(b)
            BY <2>4
        <3>4. Fits(u)
            BY <2>1 DEF Unfinished
        <3> HIDE DEF m, v, u
        <3>5. PieceLen(b, j + 1) = m
            <4> DEFINE a == j + 1
            <4>1. a \in 1 .. Len(b) /\ k = a + m - 1 /\ k <= Len(b) /\ m \in 1 .. 4
                BY <2>4, <3>3
            <4>2. Fits(SubSeq(b, a, k)) /\ ~ Fits(SubSeq(b, a, k + 1))
                BY <2>7, <3>4 DEF u, v
            <4> HIDE DEF a
            <4>3. PieceLen(b, a) = m
                BY <4>1, <4>2, PieceEndsHere
            <4>4. QED
                BY <4>3 DEF a
        <3>6. w \in Nat /\ Border(b, k, Append(points, w))
            <4>1. j + m <= Len(b) /\ SubSeq(b, j + 1, j + m) = u
                BY <2>4, <3>3 DEF u
            <4>2. Value(SubSeq(b, j + 1, j + m)) \in Nat /\ Border(b, j + m, Append(points, Value(SubSeq(b, j + 1, j + m))))
                BY <1>4, <2>4, <3>3, <3>5, <4>1, Advance
            <4>3. QED
                BY <3>2, <3>3, <4>1, <4>2
        <3> HIDE DEF w
        <3>7. <<x>> \in Numbers /\ Decoder(<<x>>) \in DecoderState
            <4>1. <<x>> \in Numbers
                BY <1>2 DEF Numbers
            <4>2. QED
                BY <4>1, DecoderType
        <3>8. Prefixed(points, Prefixed(<<w>>, Decoder(<<x>>))) = Prefixed(Append(points, w), Decoder(<<x>>))
            BY <1>4, <3>6, <3>7, PrefixedTwice
        <3>9. Decoder(SubSeq(b, 1, k + 1)) = Prefixed(Append(points, w), Decoder(<<x>>))
            BY <1>3, <3>1, <3>8
        <3>10. QED
            BY <3>6, <3>9, CutAfterByte
    <2>8. QED
        BY <2>3, <2>5, <2>6, <2>7, WholeFits
<1>7. QED
    BY <1>4, <1>5, <1>6

\* The decoder does what the table says, whatever the bytes are.
THEOREM DecodesByTheTable ==
    \A bytes \in Seq(Nat) : DecodeUtf8(bytes) = ReferenceDecoding(bytes)
<1> SUFFICES ASSUME NEW b \in Numbers PROVE DecodeUtf8(b) = ReferenceDecoding(b)
    BY DEF Numbers
<1> DEFINE n == Len(b)
           T == {k \in 0 .. n : \E j \in Nat, p \in Numbers : Cut(b, k, j, p)}
<1>1. n \in Nat /\ SubSeq(b, 1, 0) = << >> /\ SubSeq(b, 1, n) = b
    BY DEF Numbers
<1>2. 0 \in T
    <2>1. Decoder(SubSeq(b, 1, 0)) = Between(<< >>)
        BY <1>1, DecoderEmpty DEF Fresh
    <2>2. Cut(b, 0, 0, << >>)
        BY <2>1, BorderFresh, CutAtBorder
    <2>3. << >> \in Numbers /\ 0 \in 0 .. n
        BY <1>1 DEF Numbers
    <2>4. QED
        BY <2>2, <2>3
<1>3. ASSUME NEW k \in 1 .. n, k - 1 \in T PROVE k \in T
    <2>1. PICK j \in Nat, p \in Numbers : Cut(b, k - 1, j, p)
        BY <1>3
    <2>2. k - 1 \in Nat /\ k - 1 < Len(b) /\ (k - 1) + 1 = k
        BY <1>1
    <2>3. \E i \in Nat, q \in Numbers : Cut(b, (k - 1) + 1, i, q)
        BY <2>1, <2>2, CutGrows
    <2>4. QED
        BY <2>2, <2>3
<1>4. n \in T
    <2>1. \A k \in 0 .. n : k \in T
        <3> HIDE DEF T
        <3> QED
            BY <1>1, <1>2, <1>3, Induction
    <2> HIDE DEF T
    <2>2. QED
        BY <1>1, <2>1
<1>5. PICK j \in Nat, p \in Numbers : Cut(b, n, j, p)
    BY <1>4
<1> DEFINE u == SubSeq(b, j + 1, n)
<1>6. Border(b, j, p) /\ j <= n /\ Decoder(b) = Prefixed(p, Decoder(u)) /\ (j = n \/ Unfinished(u))
    <2> HIDE DEF n
    <2>1. Border(b, j, p) /\ j <= n /\ (j = n \/ Unfinished(u))
        BY <1>5, Zenon DEF Cut
    <2>2. Decoder(SubSeq(b, 1, n)) = Prefixed(p, Decoder(u))
        BY <1>5, Zenon DEF Cut
    <2>3. QED
        BY <1>1, <2>1, <2>2
<1>7. DecodeUtf8(b) = Text(IF Decoder(b).needed = 0 THEN Decoder(b).points ELSE Append(Decoder(b).points, REPLACEMENT))
    BY Zenon DEF DecodeUtf8, Text
<1>8. CASE j = n
    <2>1. u = << >>
        BY <1>1, <1>8 DEF Numbers
    <2>2. Decoder(b) = Between(p)
        BY <1>6, <2>1, DecoderEmpty, PrefixedBetween
    <2>3. DecodeUtf8(b) = Text(p)
        BY <1>7, <2>2 DEF Between
    <2>4. QED
        BY <1>6, <1>8, <2>3, ReferenceIsAdded DEF Border
<1>9. CASE j < n
    <2>1. j + 1 \in 1 .. n /\ n \in j + 1 .. n /\ n + 1 - (j + 1) = n - j
        <3> HIDE DEF n
        <3> QED
            BY <1>1, <1>9
    <2>2. u \in Numbers /\ u # << >> /\ Len(u) = n - j
        <3>1. u \in Numbers /\ u # << >> /\ Len(u) = n + 1 - (j + 1)
            BY <2>1, SubSeqType
        <3>2. QED
            BY <2>1, <3>1
    <2>3. Unfinished(u)
        BY <1>6, <1>9
    <2>4. /\ Fits(u) /\ Len(u) \in 1 .. 3 /\ Value(u) = REPLACEMENT
          /\ Decoder(u).points = << >> /\ Decoder(u).needed # 0
        BY <2>2, <2>3, UnfinishedMeans
    <2> HIDE DEF u
    <2> DEFINE m == n - j
    <2>6. m \in 1 .. 4 /\ n = (j + 1) + m - 1 /\ j + m = n
        <3> HIDE DEF n
        <3> QED
            BY <1>1, <2>2, <2>4
    <2> HIDE DEF m
    <2>9. PieceLen(b, j + 1) = m
        <3> DEFINE a == j + 1
        <3>1. a \in 1 .. Len(b) /\ n = a + m - 1 /\ n <= Len(b) /\ m \in 1 .. 4 /\ n \in Nat
            BY <1>1, <2>1, <2>6
        <3>2. Fits(SubSeq(b, a, n))
            BY <2>4 DEF u
        <3> HIDE DEF a
        <3>3. PieceLen(b, a) = m
            BY <3>1, <3>2, PieceEndsHere
        <3>4. QED
            BY <3>3 DEF a
    <2>10. Border(b, n, Append(p, REPLACEMENT))
        <3>1. Border(b, j + m, Append(p, Value(SubSeq(b, j + 1, j + m))))
            BY <1>1, <1>6, <1>9, <2>6, <2>9, Advance
        <3>2. QED
            BY <2>4, <2>6, <3>1 DEF u
    <2>11. Decoder(b).points = p /\ Decoder(b).needed # 0
        <3>2. p \o << >> = p
            BY ConcatEmptySeq DEF Numbers
        <3>3. QED
            BY <1>6, <2>4, <3>2 DEF Prefixed
    <2>12. DecodeUtf8(b) = Text(Append(p, REPLACEMENT))
        BY <1>7, <2>11
    <2>13. QED
        BY <2>10, <2>12, ReferenceIsAdded DEF Border
<1>10. QED
    <2>1. j = n \/ j < n
        <3> HIDE DEF n
        <3> QED
            BY <1>1, <1>6
    <2>2. QED
        BY <1>8, <1>9, <2>1

-----------------------------------------------------------------------------
(* Encoding *)

\* How a point is written in UTF-8, by its size.
LEMMA BytesCases ==
    ASSUME NEW point \in Nat
    PROVE  /\ point < 128 => BytesOf(point) = <<point>>
           /\ point >= 128 /\ point < 2048 =>
                  BytesOf(point) = <<192 + point \div 64, Continuation(point, 1)>>
           /\ point >= 2048 /\ point < 65536 =>
                  BytesOf(point) = <<224 + point \div 4096, Continuation(point, 64), Continuation(point, 1)>>
           /\ point >= 65536 =>
                  BytesOf(point) = <<240 + point \div 262144, Continuation(point, 4096),
                                     Continuation(point, 64), Continuation(point, 1)>>
<1> DEFINE one == <<point>>
           two == <<192 + point \div 64, Continuation(point, 1)>>
           three == <<224 + point \div 4096, Continuation(point, 64), Continuation(point, 1)>>
           four == <<240 + point \div 262144, Continuation(point, 4096),
                     Continuation(point, 64), Continuation(point, 1)>>
<1>1. BytesOf(point) =
          CASE point < 128 -> one
            [] point >= 128 /\ point < 2048 -> two
            [] point >= 2048 /\ point < 65536 -> three
            [] point >= 65536 -> four
    BY SMT DEF BytesOf
<1> HIDE DEF one, two, three, four
<1>2. /\ point < 128 => BytesOf(point) = one
      /\ point >= 128 /\ point < 2048 => BytesOf(point) = two
      /\ point >= 2048 /\ point < 65536 => BytesOf(point) = three
      /\ point >= 65536 => BytesOf(point) = four
    BY <1>1
<1>3. QED
    BY <1>2, SMT DEF one, two, three, four

\* A byte that continues a point is a byte.
LEMMA ContinuationType ==
    ASSUME NEW point \in Nat
    PROVE  /\ Continuation(point, 1) \in Nat /\ Continuation(point, 64) \in Nat
           /\ Continuation(point, 4096) \in Nat
    BY DEF Continuation

\* A point is written in bytes.
LEMMA BytesType ==
    ASSUME NEW point \in Nat
    PROVE  BytesOf(point) \in Numbers
<1> DEFINE two == 192 + point \div 64
           three == 224 + point \div 4096
           four == 240 + point \div 262144
           c1 == Continuation(point, 1)
           c2 == Continuation(point, 64)
           c3 == Continuation(point, 4096)
<1>1. two \in Nat /\ three \in Nat /\ four \in Nat
    OBVIOUS
<1>2. c1 \in Nat /\ c2 \in Nat /\ c3 \in Nat
    BY ContinuationType
<1>3. BytesOf(point) = <<point>> \/ BytesOf(point) = <<two, c1>> \/ BytesOf(point) = <<three, c2, c1>>
      \/ BytesOf(point) = <<four, c3, c2, c1>>
    BY BytesCases
<1> HIDE DEF two, three, four, c1, c2, c3
<1>4. /\ <<point>> \in Seq(Nat) /\ <<two, c1>> \in Seq(Nat) /\ <<three, c2, c1>> \in Seq(Nat)
      /\ <<four, c3, c2, c1>> \in Seq(Nat)
    BY <1>1, <1>2
<1>5. QED
    BY <1>3, <1>4 DEF Numbers

\* A surrogate pair is written with its first unit and not with its second; others each by itself.
LEMMA UnitCases ==
    ASSUME NEW text, NEW i
    PROVE  /\ IsPair(text, i) /\ ~ IsPair(text, i - 1) => UnitBytes(text, i) = BytesOf(PairPoint(text, i))
           /\ IsPair(text, i - 1) /\ ~ IsPair(text, i) => UnitBytes(text, i) = << >>
           /\ ~ IsPair(text, i) /\ ~ IsPair(text, i - 1) => UnitBytes(text, i) = BytesOf(LonePoint(text[i]))
    BY DEF UnitBytes

\* A low half is no high half.
LEMMA NoTwoPairs ==
    ASSUME NEW text \in Numbers, NEW i \in 1 .. Len(text)
    PROVE  ~ (IsPair(text, i) /\ IsPair(text, i - 1))
<1> DEFINE unit == text[i]
<1>1. (i - 1) + 1 = i /\ unit \in Nat
    BY DEF Numbers
<1>2. IsPair(text, i - 1) => IsLowSurrogate(unit)
    BY <1>1 DEF IsPair
<1>3. IsPair(text, i) => IsHighSurrogate(unit)
    BY DEF IsPair
<1> HIDE DEF unit
<1>4. ~ (IsHighSurrogate(unit) /\ IsLowSurrogate(unit))
    BY <1>1 DEF IsHighSurrogate, IsLowSurrogate
<1>5. QED
    BY <1>2, <1>3, <1>4

\* Units stand for points.
LEMMA PointType ==
    ASSUME NEW text \in Numbers, NEW i \in 1 .. Len(text)
    PROVE  /\ IsPair(text, i) => PairPoint(text, i) \in Nat /\ PairPoint(text, i) >= 65536
           /\ LonePoint(text[i]) \in Nat
<1>1. text[i] \in Nat
    BY DEF Numbers
<1>2. LonePoint(text[i]) \in Nat
    BY <1>1 DEF LonePoint, REPLACEMENT
<1>3. ASSUME IsPair(text, i) PROVE PairPoint(text, i) \in Nat /\ PairPoint(text, i) >= 65536
    <2> DEFINE high == text[i]
               low == text[i + 1]
    <2>1. i + 1 \in 1 .. Len(text)
        BY <1>3 DEF IsPair, Numbers
    <2>2. high \in Nat /\ low \in Nat /\ IsHighSurrogate(high) /\ IsLowSurrogate(low)
        BY <1>1, <1>3, <2>1 DEF IsPair, Numbers
    <2>3. PairPoint(text, i) = 65536 + (high - 55296) * 1024 + (low - 56320)
        BY SMT DEF PairPoint
    <2> HIDE DEF high, low
    <2>4. QED
        BY <2>2, <2>3 DEF IsHighSurrogate, IsLowSurrogate
<1>4. QED
    BY <1>2, <1>3

\* A unit adds bytes.
LEMMA UnitBytesType ==
    ASSUME NEW text \in Numbers, NEW i \in 1 .. Len(text)
    PROVE  UnitBytes(text, i) \in Numbers
<1>1. CASE IsPair(text, i)
    <2>1. ~ IsPair(text, i - 1)
        BY <1>1, NoTwoPairs
    <2>2. UnitBytes(text, i) = BytesOf(PairPoint(text, i))
        BY <1>1, <2>1, UnitCases, Zenon
    <2>3. PairPoint(text, i) \in Nat
        BY <1>1, PointType
    <2>4. QED
        BY <2>2, <2>3, BytesType
<1>2. CASE IsPair(text, i - 1) /\ ~ IsPair(text, i)
    <2>1. UnitBytes(text, i) = << >>
        BY <1>2, UnitCases, Zenon
    <2>2. QED
        BY <2>1 DEF Numbers
<1>3. CASE ~ IsPair(text, i) /\ ~ IsPair(text, i - 1)
    <2>1. UnitBytes(text, i) = BytesOf(LonePoint(text[i]))
        BY <1>3, UnitCases, Zenon
    <2>2. LonePoint(text[i]) \in Nat
        BY PointType
    <2>3. QED
        BY <2>1, <2>2, BytesType
<1>4. QED
    BY <1>1, <1>2, <1>3

\* A text is encoded in bytes.
LEMMA EncodeType ==
    ASSUME NEW text \in Numbers
    PROVE  EncodeUtf8(text) \in Numbers
<1>1. Len(text) \in Nat /\ DOMAIN text = 1 .. Len(text)
    BY DEF Numbers
<1> DEFINE parts == [i \in DOMAIN text |-> UnitBytes(text, i)]
<1>2. parts \in [1 .. Len(text) -> Numbers]
    BY <1>1, UnitBytesType
<1>3. parts \in Seq(Seq(Nat))
    BY <1>1, <1>2 DEF Numbers
<1>4. EncodeUtf8(text) = FlattenSeq(parts)
    BY Zenon DEF EncodeUtf8
<1> HIDE DEF parts
<1>5. QED
    BY <1>3, <1>4, FlattenType DEF Numbers

\* Points are a text.
LEMMA TextType ==
    ASSUME NEW points \in Numbers
    PROVE  Text(points) \in Numbers
<1>1. DOMAIN points = 1 .. Len(points) /\ Len(points) \in Nat /\ \A i \in 1 .. Len(points) : points[i] \in Nat
    BY DEF Numbers
<1> DEFINE parts == [i \in DOMAIN points |-> UnitsOf(points[i])]
<1>2. parts \in [1 .. Len(points) -> Numbers]
    BY <1>1, UnitsType
<1>3. parts \in Seq(Seq(Nat))
    BY <1>1, <1>2 DEF Numbers
<1>4. Text(points) = FlattenSeq(parts)
    BY Zenon DEF Text
<1> HIDE DEF parts
<1>5. QED
    BY <1>3, <1>4, FlattenType DEF Numbers

\* What is decoded is the text of the points, and of a replacement for an unfinished one.
LEMMA DecodeIsText ==
    ASSUME NEW b \in Numbers
    PROVE  /\ Decoder(b).needed = 0 => DecodeUtf8(b) = Text(Decoder(b).points)
           /\ Decoder(b).needed # 0 => DecodeUtf8(b) = Text(Append(Decoder(b).points, REPLACEMENT))
<1>1. DecodeUtf8(b) = Text(IF Decoder(b).needed = 0 THEN Decoder(b).points ELSE Append(Decoder(b).points, REPLACEMENT))
    BY Zenon DEF DecodeUtf8, Text
<1>2. QED
    BY <1>1

\* Bytes are decoded to a text.
LEMMA DecodeType ==
    ASSUME NEW b \in Numbers
    PROVE  DecodeUtf8(b) \in Numbers
<1>1. Decoder(b).points \in Numbers
    BY DecoderType DEF DecoderState
<1>2. Append(Decoder(b).points, REPLACEMENT) \in Numbers
    BY <1>1 DEF REPLACEMENT, Numbers
<1>3. QED
    BY <1>1, <1>2, TextType, DecodeIsText

-----------------------------------------------------------------------------
(* What the programs say is numbers. *)

\* What HelpersAssumption says of the constants.
LEMMA ConstantTypes ==
    /\ Capacity \in Nat \ {0} /\ Image \in Numbers /\ Labels \in Seq(Numbers)
    /\ Len(History) \in Nat
    /\ \A i \in 1 .. Len(History) :
          History[i].id \in Numbers /\ History[i].preview \in Numbers /\ History[i].bytes \in Numbers
<1> DEFINE E == [id : Seq(Nat), preview : Seq(Nat), bytes : Seq(Nat)]
<1>1. Capacity \in Nat \ {0} /\ Image \in Numbers /\ Labels \in Seq(Numbers)
    BY HelpersAssumption DEF Numbers
<1>2. History \in Seq(E)
    BY HelpersAssumption
<1>3. \A e \in E : e.id \in Numbers /\ e.preview \in Numbers /\ e.bytes \in Numbers
    BY DEF Numbers
<1> HIDE DEF E
<1>4. Len(History) \in Nat /\ \A i \in 1 .. Len(History) : History[i] \in E
    BY <1>2
<1>5. QED
    BY <1>1, <1>3, <1>4

\* Lines joined are text.
LEMMA JoinedType ==
    ASSUME NEW n \in Nat, NEW lines, DOMAIN lines = 1 .. n, \A i \in 1 .. n : lines[i] \in Numbers
    PROVE  Joined(lines) \in Numbers
<1> DEFINE parts == [i \in 1 .. n |-> Append(lines[i], Newline)]
<1>1. \A i \in 1 .. n : Append(lines[i], Newline) \in Numbers
    BY DEF Numbers, Newline
<1>2. parts \in [1 .. n -> Numbers]
    BY <1>1
<1>3. parts \in Seq(Seq(Nat))
    BY <1>2 DEF Numbers
<1>4. Joined(lines) = FlattenSeq(parts)
    BY Zenon DEF Joined
<1> HIDE DEF parts
<1>5. QED
    BY <1>3, <1>4, FlattenType DEF Numbers

\* The list of the history is text,
LEMMA HistoryListType == HistoryList \in Numbers
<1> DEFINE n == Len(History)
           lines == [i \in DOMAIN History |-> Line(History[i])]
<1>1. n \in Nat /\ DOMAIN lines = 1 .. n
    BY HelpersAssumption
<1>2. \A i \in 1 .. n : lines[i] \in Numbers
    <2> SUFFICES ASSUME NEW i \in 1 .. n PROVE lines[i] \in Numbers
        OBVIOUS
    <2> DEFINE id == History[i].id
               preview == History[i].preview
    <2>1. id \in Numbers /\ preview \in Numbers /\ <<Tab>> \in Numbers
        BY ConstantTypes, Single DEF Tab
    <2>2. lines[i] = id \o <<Tab>> \o preview
        BY <1>1 DEF Line
    <2> HIDE DEF id, preview, lines
    <2>3. id \o <<Tab>> \in Numbers
        BY <2>1, ConcatProperties DEF Numbers
    <2>4. QED
        BY <2>1, <2>2, <2>3, ConcatProperties DEF Numbers
<1>3. HistoryList = Joined(lines)
    BY Zenon DEF HistoryList
<1> HIDE DEF n, lines
<1>4. QED
    BY <1>1, <1>2, <1>3, JoinedType

\* so are the labels of the panel menu,
LEMMA MenuInputType == MenuInput \in Numbers
<1>1. Len(Labels) \in Nat /\ DOMAIN Labels = 1 .. Len(Labels) /\ \A i \in 1 .. Len(Labels) : Labels[i] \in Numbers
    BY ConstantTypes
<1>2. QED
    BY <1>1, JoinedType DEF MenuInput

\* and the region.
LEMMA GeometryType == Geometry \in Numbers
    BY DEF Geometry, Numbers, Newline

\* A line of a text is a text.
LEMMA LinesType ==
    ASSUME NEW text \in Numbers, NEW line \in Lines(text)
    PROVE  line \in Numbers
<1>1. \E b \in (0 .. Len(text)) \X (2 .. Len(text) + 1) :
          b[1] + 1 < b[2] /\ line = SubSeq(text, b[1] + 1, b[2] - 1)
    BY Zenon DEF Lines
<1>2. PICK b \in (0 .. Len(text)) \X (2 .. Len(text) + 1) :
          b[1] + 1 < b[2] /\ line = SubSeq(text, b[1] + 1, b[2] - 1)
    BY <1>1
<1> DEFINE from == b[1] + 1
           to == b[2] - 1
<1>3. from \in 1 .. Len(text) /\ to \in from .. Len(text)
    BY <1>2 DEF Numbers
<1> HIDE DEF from, to
<1>4. SubSeq(text, from, to) \in Numbers
    BY <1>3, SubSeqType
<1>5. QED
    BY <1>2, <1>4 DEF from, to

\* An entry that a line names has bytes.
LEMMA EntryType ==
    ASSUME NEW line, Named(line) # {}
    PROVE  (CHOOSE entry \in Named(line) : TRUE).bytes \in Numbers
<1> DEFINE entry == CHOOSE e \in Named(line) : TRUE
<1>1. entry \in Named(line)
    OBVIOUS
<1> HIDE DEF entry
<1>2. entry \in ToSet(History)
    BY <1>1 DEF Named
<1>3. PICK i \in DOMAIN History : entry = History[i]
    BY <1>2, Zenon DEF ToSet
<1>4. DOMAIN History = 1 .. Len(History)
    BY HelpersAssumption
<1>5. entry.bytes \in Numbers
    BY <1>3, <1>4, ConstantTypes
<1>6. QED
    BY <1>5 DEF entry

\* A text without its last unit is a text.
LEMMA FrontType ==
    ASSUME NEW text \in Numbers, text # << >>
    PROVE  Front(text) \in Numbers
    BY EmptySeq DEF Front, Numbers

-----------------------------------------------------------------------------

Names == {"list", "picker", "slurp", "save", "decode", "copy", "run", "grim", "swappy"}

ChildType ==
    [name : Names, in : Numbers, sent : Nat, status : Nat,
     phase : {"reading", "asking", "writing", "ended"}, out : Numbers]

Command == [name : Names, given : Numbers, piped : BOOLEAN]

HelperType ==
    [script : {"none", "clipboard", "panel", "region", "screenshot"}, stage : {1, 2},
     at : {"off", "exec", "write", "read", "wait"}, exit : Nat]

\* A program starts with nothing written, and runs.
LEMMA ProgramType ==
    ASSUME NEW name \in Names, NEW given \in Numbers
    PROVE  /\ Program(name, given) \in ChildType
           /\ Program(name, given).sent = 0 /\ Program(name, given).in = given
           /\ Program(name, given).phase # "ended"
           /\ Program(name, given).name = name
<1> DEFINE phase == CASE name \in {"picker", "decode", "copy", "swappy"} /\ given = << >> -> "reading"
                      [] name = "slurp" -> "asking"
                      [] OTHER -> "writing"
           out == CASE name = "list" -> HistoryList
                    [] name = "grim" -> Image
                    [] OTHER -> << >>
<1>1. phase \in {"reading", "asking", "writing"}
    BY Zenon
<1>2. out \in Numbers
    <2>1. << >> \in Numbers
        BY DEF Numbers
    <2>2. out \in {HistoryList, Image, << >>}
        BY Zenon
    <2> HIDE DEF out
    <2>3. QED
        BY <2>1, <2>2, HistoryListType, ConstantTypes
<1>3. Program(name, given) =
          [name |-> name, in |-> given, sent |-> 0, status |-> 0, phase |-> phase, out |-> out]
    BY Zenon DEF Program
<1> HIDE DEF phase, out
<1>4. QED
    BY <1>1, <1>2, <1>3 DEF ChildType

-----------------------------------------------------------------------------
(* The flow of the output *)

\* What a child has written.
SentOf(child) == SubSeq(child.out, 1, child.sent)
SentBy(i) == IF i \in DOMAIN children THEN SentOf(children[i]) ELSE << >>

HelpersType ==
    /\ helper \in HelperType
    /\ commands \in Seq(Command) /\ Final <= 2
    /\ children \in Seq(ChildType) /\ Len(children) <= Final
    /\ pipes \in [0 .. 2 -> Numbers]
    /\ input \in Numbers /\ got \in Numbers /\ output \in Numbers
    /\ picked \in Numbers /\ effect \in Numbers

\* How far the pipeline is started.
Started ==
    /\ helper.at # "off" => Final >= 1
    /\ helper.at = "exec" => Len(children) < Final
    /\ helper.at \in {"write", "read", "wait"} => Len(children) = Final

\* A program reads from the pipe before it only; the helper reads the last one.
Connected ==
    /\ ends \subseteq (0 .. 2) \X (0 .. 2) \X {"read", "write"}
    /\ \A end \in ends : end[1] # 0 /\ end[3] = "read" => end[2] + 1 = end[1] /\ end[1] <= Final
    /\ helper.at \in {"write", "read"} /\ commands[Final].piped => <<0, Final, "read">> \in ends

Orderly(child) ==
    /\ child.sent <= Len(child.out)
    /\ child.phase \in {"reading", "asking"} => child.sent = 0
    /\ child.phase = "asking" => child.name \in {"picker", "slurp", "swappy"}
Sending == \A i \in DOMAIN children : Orderly(children[i])

\* What the last program has written is in its pipe or has been read, and finally all
\* of it has been.
Flow == helper.at \in {"exec", "write", "read"} => got \o pipes[Final] = SentBy(Final)
Returned ==
    helper.at = "wait" /\ commands[Final].piped =>
        output = DecodeUtf8(SentBy(Final)) /\ Readers(Final) = {}

FlowInv == HelpersType /\ Started /\ Connected /\ Sending /\ Flow /\ Returned

-----------------------------------------------------------------------------

\* There are at most two programs, and no more children than programs.
LEMMA Basics ==
    ASSUME HelpersType
    PROVE  /\ Final \in 0 .. 2 /\ Len(children) \in 0 .. Final
           /\ DOMAIN children = 1 .. Len(children) /\ DOMAIN commands = 1 .. Final
           /\ \A i \in 1 .. Len(children) : children[i] \in ChildType
           /\ \A i \in 1 .. Final : commands[i] \in Command
<1>1. commands \in Seq(Command) /\ children \in Seq(ChildType) /\ Final <= 2 /\ Len(children) <= Final
    BY DEF HelpersType
<1>2. Final \in Nat /\ DOMAIN commands = 1 .. Final /\ \A i \in 1 .. Final : commands[i] \in Command
    BY <1>1 DEF Final
<1>3. Len(children) \in Nat /\ DOMAIN children = 1 .. Len(children)
      /\ \A i \in 1 .. Len(children) : children[i] \in ChildType
    BY <1>1
<1>4. QED
    BY <1>1, <1>2, <1>3

\* Replacing a child leaves the others.
LEMMA ChildReplaced ==
    ASSUME NEW s \in Seq(ChildType), NEW i \in 1 .. Len(s), NEW c \in ChildType
    PROVE  /\ [s EXCEPT ![i] = c] \in Seq(ChildType) /\ Len([s EXCEPT ![i] = c]) = Len(s)
           /\ [s EXCEPT ![i] = c][i] = c
           /\ \A k \in 1 .. Len(s) : k # i => [s EXCEPT ![i] = c][k] = s[k]
    OBVIOUS

\* A child does something that is not writing.
LEMMA QuietStep ==
    ASSUME FlowInv, NEW i \in DOMAIN children, NEW c \in ChildType,
           Orderly(c), SentOf(c) = SentOf(children[i]), Becomes(i, c),
           pipes' \in [0 .. 2 -> Numbers], pipes'[Final] = pipes[Final],
           ends' \subseteq ends, \A end \in ends : end \in ends' \/ end[1] = i,
           picked' \in Numbers, effect' \in Numbers
    PROVE  FlowInv'
<1>1. /\ Final \in 0 .. 2 /\ Len(children) \in 0 .. Final
      /\ DOMAIN children = 1 .. Len(children) /\ children \in Seq(ChildType)
      /\ i \in 1 .. Len(children)
    BY Basics DEF FlowInv, HelpersType
<1>2. /\ children' = [children EXCEPT ![i] = c]
      /\ UNCHANGED <<helper, commands, input, got, output>> /\ Final' = Final
    BY DEF Becomes, Final
<1>3. /\ children' \in Seq(ChildType) /\ Len(children') = Len(children)
      /\ DOMAIN children' = 1 .. Len(children)
      /\ children'[i] = c /\ \A k \in 1 .. Len(children) : k # i => children'[k] = children[k]
    BY <1>1, <1>2, ChildReplaced
<1>4. SentBy(Final)' = SentBy(Final)
    BY <1>1, <1>2, <1>3 DEF SentBy
<1>5. HelpersType'
    BY <1>2, <1>3 DEF FlowInv, HelpersType
<1>6. Started'
    BY <1>2, <1>3 DEF FlowInv, Started
<1>7. Connected'
    <2>1. ends' \subseteq (0 .. 2) \X (0 .. 2) \X {"read", "write"}
        BY DEF FlowInv, Connected
    <2>2. <<0, Final, "read">> \in ends => <<0, Final, "read">> \in ends'
        BY <1>1
    <2>3. QED
        BY <1>2, <2>1, <2>2 DEF FlowInv, Connected
<1>8. Sending'
    <2>1. \A k \in DOMAIN children : Orderly(children[k])
        BY DEF FlowInv, Sending
    <2>2. QED
        BY <1>1, <1>3, <2>1 DEF Sending
<1>9. Flow'
    BY <1>2, <1>4 DEF FlowInv, Flow
<1>10. Returned'
    <2>1. Readers(Final)' \subseteq Readers(Final)
        BY <1>2 DEF Readers
    <2>2. QED
        BY <1>2, <1>4, <2>1 DEF FlowInv, Returned
<1>11. QED
    BY <1>5, <1>6, <1>7, <1>8, <1>9, <1>10 DEF FlowInv

\* A longer beginning is a shorter one and what lies between.
LEMMA SentGrows ==
    ASSUME NEW out \in Numbers, NEW m \in Nat, NEW n \in Nat, m <= n, n <= Len(out)
    PROVE  /\ SubSeq(out, 1, m) \in Numbers /\ SubSeq(out, m + 1, n) \in Numbers
           /\ SubSeq(out, 1, n) = SubSeq(out, 1, m) \o SubSeq(out, m + 1, n)
<1> DEFINE a == SubSeq(out, 1, m)
           b == SubSeq(out, m + 1, n)
           c == SubSeq(out, 1, n)
<1>1. out \in Seq(Nat) /\ Len(out) \in Nat
    BY DEF Numbers
<1>2. a \in Seq(Nat) /\ Len(a) = m /\ \A i \in 1 .. m : a[i] = out[i]
    BY <1>1
<1>3. b \in Seq(Nat) /\ Len(b) = n - m /\ \A i \in 1 .. n - m : b[i] = out[m + i]
    BY <1>1
<1>4. c \in Seq(Nat) /\ Len(c) = n /\ \A i \in 1 .. n : c[i] = out[i]
    BY <1>1
<1> HIDE DEF a, b, c
<1>5. a \o b \in Seq(Nat) /\ Len(a \o b) = n
      /\ \A i \in 1 .. n : (a \o b)[i] = IF i <= m THEN a[i] ELSE b[i - m]
    BY <1>2, <1>3, ConcatProperties
<1> DEFINE d == a \o b
<1>6. \A i \in 1 .. n : d[i] = c[i]
    <2>1. /\ \A i \in 1 .. n : d[i] = IF i <= m THEN a[i] ELSE b[i - m]
          /\ \A i \in 1 .. m : a[i] = out[i]
          /\ \A i \in 1 .. n - m : b[i] = out[m + i]
          /\ \A i \in 1 .. n : c[i] = out[i]
        BY <1>2, <1>3, <1>4, <1>5
    <2> HIDE DEF d
    <2> SUFFICES ASSUME NEW i \in 1 .. n PROVE d[i] = c[i]
        OBVIOUS
    <2>2. CASE i <= m
        <3>1. i \in 1 .. m
            BY <2>2
        <3>2. QED
            BY <2>1, <2>2, <3>1
    <2>3. CASE i > m
        <3>1. i - m \in 1 .. n - m /\ m + (i - m) = i /\ ~ (i <= m)
            BY <2>3
        <3>2. b[i - m] = out[i]
            BY <2>1, <3>1
        <3>3. QED
            BY <2>1, <3>1, <3>2
    <2>4. i <= m \/ i > m
        OBVIOUS
    <2>5. QED
        BY <2>2, <2>3, <2>4
<1>7. c = a \o b
    BY <1>4, <1>5, <1>6, SeqEqual
<1>8. QED
    BY <1>2, <1>3, <1>7 DEF a, b, c, Numbers

-----------------------------------------------------------------------------
(* Steps of the programs *)

\* What a step of a program may rely on; the pipe before a program is never the last one.
LEMMA ChildFacts ==
    ASSUME FlowInv, NEW i \in DOMAIN children
    PROVE  /\ i \in 1 .. 2 /\ i \in 1 .. Final /\ Final \in 1 .. 2 /\ i - 1 \in 0 .. 1 /\ i - 1 # Final
           /\ children[i] \in ChildType /\ Orderly(children[i])
           /\ pipes \in [0 .. 2 -> Numbers] /\ pipes[i - 1] \in Numbers /\ pipes[i] \in Numbers
           /\ picked \in Numbers /\ effect \in Numbers
<1>1. /\ Final \in 0 .. 2 /\ Len(children) \in 0 .. Final /\ i \in 1 .. Len(children)
      /\ children[i] \in ChildType
    BY Basics DEF FlowInv
<1>2. i \in 1 .. 2 /\ i \in 1 .. Final /\ Final \in 1 .. 2 /\ i - 1 \in 0 .. 1 /\ i - 1 # Final
    BY <1>1
<1>3. pipes \in [0 .. 2 -> Numbers] /\ pipes[i - 1] \in Numbers /\ pipes[i] \in Numbers
    BY <1>2 DEF FlowInv, HelpersType
<1>4. QED
    BY <1>1, <1>2, <1>3 DEF FlowInv, HelpersType, Sending

\* Nothing sent is nothing.
LEMMA NothingSent ==
    ASSUME NEW child, child.sent = 0
    PROVE  SentOf(child) = << >>
    BY DEF SentOf

\* The end of a program, in whatever way, closes its ends and leaves the bytes in the pipes.
LEMMA ExitsFlow ==
    ASSUME FlowInv, NEW i \in DOMAIN children, NEW status \in Nat, Exits(i, status),
           pipes' = pipes, picked' \in Numbers, effect' \in Numbers
    PROVE  FlowInv'
<1> DEFINE c == [children[i] EXCEPT !.phase = "ended", !.status = status]
<1>1. children[i] \in ChildType /\ Orderly(children[i])
    BY ChildFacts
<1>2. /\ c \in ChildType /\ c.sent = children[i].sent /\ c.out = children[i].out /\ c.phase = "ended"
    BY <1>1 DEF ChildType
<1>3. Becomes(i, c) /\ ends' = Without(i)
    BY Zenon DEF Exits
<1> HIDE DEF c
<1>4. SentOf(c) = SentOf(children[i])
    BY <1>2 DEF SentOf
<1>5. ends' \subseteq ends /\ \A end \in ends : end \in ends' \/ end[1] = i
    BY <1>3 DEF Without
<1>6. pipes' \in [0 .. 2 -> Numbers] /\ pipes'[Final] = pipes[Final]
    BY ChildFacts
<1>7. Orderly(c)
    BY <1>1, <1>2 DEF Orderly
<1>8. QED
    BY <1>2, <1>3, <1>4, <1>5, <1>6, <1>7, QuietStep

\* A program reads the pipe before it, which the helper does not.
LEMMA ReadsFlow ==
    ASSUME FlowInv, NEW i \in DOMAIN children, Reads(i)
    PROVE  FlowInv'
<1> DEFINE child == children[i]
           c == [child EXCEPT !.in = @ \o pipes[i - 1]]
<1>1. /\ child \in ChildType /\ Orderly(child) /\ child.phase = "reading"
      /\ i - 1 \in 0 .. 1 /\ i - 1 # Final /\ pipes \in [0 .. 2 -> Numbers] /\ pipes[i - 1] \in Numbers
      /\ picked \in Numbers /\ effect \in Numbers /\ Final \in 1 .. 2
    BY ChildFacts DEF Reads
<1>2. /\ Becomes(i, c) /\ pipes' = [pipes EXCEPT ![i - 1] = << >>]
      /\ UNCHANGED <<ends, picked, effect>>
    BY Zenon DEF Reads
<1> HIDE DEF child
<1>3. child.in \o pipes[i - 1] \in Numbers
    BY <1>1, ConcatProperties DEF ChildType, Numbers
<1>4. /\ c \in ChildType /\ c.sent = child.sent /\ c.out = child.out /\ c.phase = child.phase
      /\ c.name = child.name
    BY <1>1, <1>3 DEF ChildType
<1> HIDE DEF c
<1>5. SentOf(c) = SentOf(children[i])
    BY <1>4 DEF SentOf, child
<1>6. << >> \in Numbers
    BY DEF Numbers
<1>7. pipes' \in [0 .. 2 -> Numbers] /\ pipes'[Final] = pipes[Final]
    BY <1>1, <1>2, <1>6
<1>8. /\ ends' \subseteq ends /\ \A end \in ends : end \in ends' \/ end[1] = i
      /\ picked' \in Numbers /\ effect' \in Numbers
    BY <1>1, <1>2
<1>9. Orderly(c)
    BY <1>1, <1>4 DEF Orderly
<1>10. QED
    BY <1>2, <1>4, <1>5, <1>7, <1>8, <1>9, QuietStep

\* A program that has read its input has not written anything yet.
LEMMA HasReadFlow ==
    ASSUME FlowInv, NEW i \in DOMAIN children, HasRead(i)
    PROVE  FlowInv'
<1> DEFINE child == children[i]
           phase == IF child.name \in {"picker", "swappy"} THEN "asking" ELSE "writing"
           out == IF child.name = "decode" THEN (CHOOSE entry \in Named(child.in) : TRUE).bytes ELSE << >>
           bad == \/ child.name = "picker" /\ ~ IsText(child.in)
                  \/ child.name = "decode" /\ Named(child.in) = {}
           c == [child EXCEPT !.phase = phase, !.out = out]
<1>1. /\ child \in ChildType /\ child.phase = "reading" /\ child.sent = 0
      /\ pipes \in [0 .. 2 -> Numbers] /\ picked \in Numbers /\ effect \in Numbers
    BY ChildFacts DEF HasRead, Orderly
<1>2. /\ \/ bad /\ Exits(i, 1)
         \/ ~ bad /\ Becomes(i, c) /\ UNCHANGED ends
      /\ UNCHANGED <<pipes, picked, effect>>
    BY Zenon DEF HasRead
<1>3. CASE Exits(i, 1)
    BY <1>1, <1>2, <1>3, ExitsFlow
<1>4. CASE ~ bad /\ Becomes(i, c) /\ UNCHANGED ends
    <2>1. out \in Numbers
        <3>1. CASE child.name = "decode"
            <4>1. Named(child.in) # {}
                BY <1>4, <3>1
            <4>2. QED
                BY <3>1, <4>1, EntryType
        <3>2. CASE child.name # "decode"
            BY <3>2 DEF Numbers
        <3>3. QED
            BY <3>1, <3>2
    <2>2. phase \in {"asking", "writing"}
        OBVIOUS
    <2>9. phase = "asking" => child.name \in {"picker", "slurp", "swappy"}
        OBVIOUS
    <2> HIDE DEF out, phase, bad, child
    <2>3. c \in ChildType /\ c.sent = 0 /\ c.out = out /\ c.phase = phase /\ c.name = child.name
        BY <1>1, <2>1, <2>2 DEF ChildType
    <2>4. SentOf(c) = SentOf(children[i])
        BY <1>1, <2>3, NothingSent DEF child
    <2>5. Orderly(c)
        <3>1. 0 <= Len(out)
            BY <2>1 DEF Numbers
        <3> HIDE DEF c
        <3>2. QED
            BY <2>3, <2>9, <3>1 DEF Orderly
    <2> HIDE DEF c
    <2>6. /\ pipes' \in [0 .. 2 -> Numbers] /\ pipes'[Final] = pipes[Final]
          /\ ends' \subseteq ends /\ \A end \in ends : end \in ends' \/ end[1] = i
          /\ picked' \in Numbers /\ effect' \in Numbers
        BY <1>1, <1>2, <1>4
    <2>7. Becomes(i, c)
        BY <1>4
    <2>8. QED
        BY <2>3, <2>4, <2>5, <2>6, <2>7, QuietStep
<1>5. QED
    BY <1>2, <1>3, <1>4

\* So has one whose user answers.
LEMMA AnswerFlow ==
    ASSUME FlowInv, NEW i \in DOMAIN children, Answer(i)
    PROVE  FlowInv'
<1> DEFINE child == children[i]
           out(answer) == IF answer = << >> THEN << >> ELSE Append(answer, Newline)
           c(answer) == [child EXCEPT !.phase = "writing", !.out = out(answer)]
           answers == CASE child.name = "picker" -> Lines(child.in)
                        [] child.name = "slurp" -> Lines(Geometry)
                        [] child.name = "swappy" -> {<< >>}
<1>1. /\ child \in ChildType /\ child.phase = "asking" /\ child.sent = 0
      /\ pipes \in [0 .. 2 -> Numbers] /\ picked \in Numbers /\ effect \in Numbers
    BY ChildFacts DEF Answer, Orderly
<1>2. /\ \E answer \in answers :
            /\ picked' = IF answer = << >> THEN picked ELSE answer
            /\ Becomes(i, c(answer))
      /\ UNCHANGED <<pipes, ends, effect>>
    BY Zenon DEF Answer
<1>3. PICK answer \in answers :
          /\ picked' = IF answer = << >> THEN picked ELSE answer
          /\ Becomes(i, c(answer))
    BY <1>2
<1>4. \A a \in answers : a \in Numbers
    <2>1. child.name \in {"picker", "slurp", "swappy"}
        BY ChildFacts DEF Answer, Orderly
    <2>2. CASE child.name = "picker"
        <3>1. answers = Lines(child.in) /\ child.in \in Numbers
            BY <1>1, <2>2 DEF ChildType
        <3>2. QED
            BY <3>1, LinesType
    <2>3. CASE child.name = "slurp"
        <3>1. answers = Lines(Geometry)
            BY <2>3
        <3>2. QED
            BY <3>1, LinesType, GeometryType
    <2>4. CASE child.name = "swappy"
        <3>1. answers = {<< >>}
            BY <2>4
        <3>2. << >> \in Numbers
            BY DEF Numbers
        <3> HIDE DEF answers
        <3>3. QED
            BY <3>1, <3>2
    <2>5. QED
        BY <2>1, <2>2, <2>3, <2>4
<1>5. answer \in Numbers
    BY <1>4
<1>6. out(answer) \in Numbers
    BY <1>5 DEF Numbers, Newline
<1> DEFINE d == c(answer)
<1>7. /\ d \in ChildType /\ d.sent = 0 /\ d.out = out(answer) /\ d.phase = "writing"
    <2> HIDE DEF out, child
    <2> QED
        BY <1>1, <1>6 DEF ChildType
<1>8. SentOf(d) = SentOf(children[i])
    <2> HIDE DEF d
    <2> QED
        BY <1>1, <1>7, NothingSent
<1>9. Orderly(d)
    <2>1. 0 <= Len(out(answer))
        BY <1>6 DEF Numbers
    <2> HIDE DEF d, out
    <2>2. QED
        BY <1>7, <2>1 DEF Orderly
<1>10. Becomes(i, d)
    BY <1>3
<1>11. /\ pipes' \in [0 .. 2 -> Numbers] /\ pipes'[Final] = pipes[Final]
       /\ ends' \subseteq ends /\ \A end \in ends : end \in ends' \/ end[1] = i
       /\ effect' \in Numbers
    BY <1>1, <1>2
<1>12. picked' \in Numbers
    BY <1>1, <1>3, <1>5
<1> HIDE DEF d
<1>13. QED
    BY <1>7, <1>8, <1>9, <1>10, <1>11, <1>12, QuietStep

\* The user dismisses the menu.
LEMMA DismissFlow ==
    ASSUME FlowInv, NEW i \in DOMAIN children, Dismiss(i)
    PROVE  FlowInv'
    BY ExitsFlow, ChildFacts DEF Dismiss

\* A program writes to a pipe that nobody reads.
LEMMA BreaksFlow ==
    ASSUME FlowInv, NEW i \in DOMAIN children, Breaks(i)
    PROVE  FlowInv'
    BY ExitsFlow, ChildFacts DEF Breaks

\* A program dies: what it has written is in the pipe all the same.
LEMMA DiesFlow ==
    ASSUME FlowInv, NEW i \in DOMAIN children, Dies(i)
    PROVE  FlowInv'
    BY ExitsFlow, ChildFacts DEF Dies

\* A program is done.
LEMMA SucceedsFlow ==
    ASSUME FlowInv, NEW i \in DOMAIN children, Succeeds(i)
    PROVE  FlowInv'
<1> DEFINE child == children[i]
<1>1. child.in \in Numbers /\ effect \in Numbers /\ picked \in Numbers
    BY ChildFacts DEF ChildType
<1>2. /\ Exits(i, 0) /\ UNCHANGED <<pipes, picked>>
      /\ effect' = IF child.name \in {"copy", "swappy", "run"} THEN child.in ELSE effect
    BY Zenon DEF Succeeds
<1>3. effect' \in Numbers
    BY <1>1, <1>2
<1>4. QED
    BY <1>1, <1>2, <1>3, ExitsFlow

\* What a program writes goes behind what is in its pipe; nobody writes once the helper waits.
LEMMA WritesFlow ==
    ASSUME FlowInv, NEW i \in DOMAIN children, Writes(i)
    PROVE  FlowInv'
<1> DEFINE child == children[i]
<1>1. PICK sent \in child.sent + 1 .. Len(child.out) :
          /\ pipes' = [pipes EXCEPT ![i] = @ \o SubSeq(child.out, child.sent + 1, sent)]
          /\ Becomes(i, [child EXCEPT !.sent = sent])
    BY Zenon DEF Writes
<1>2. child.phase = "writing" /\ Readers(i) # {} /\ UNCHANGED <<ends, picked, effect>>
    BY Zenon DEF Writes
<1>3. /\ i \in 1 .. 2 /\ i \in 1 .. Final /\ Final \in 1 .. 2
      /\ child \in ChildType /\ pipes \in [0 .. 2 -> Numbers] /\ pipes[i] \in Numbers
      /\ picked \in Numbers /\ effect \in Numbers /\ child.sent <= Len(child.out)
    BY ChildFacts DEF Orderly
<1> DEFINE c == [child EXCEPT !.sent = sent]
           bytes == SubSeq(child.out, child.sent + 1, sent)
<1> HIDE DEF child
<1>4. child.out \in Numbers /\ child.sent \in Nat /\ sent \in Nat /\ child.sent <= sent /\ sent <= Len(child.out)
    <2>1. child.out \in Numbers /\ child.sent \in Nat
        BY <1>3 DEF ChildType
    <2>2. Len(child.out) \in Nat
        BY <2>1 DEF Numbers
    <2>3. QED
        BY <1>1, <2>1, <2>2
<1>5. /\ c \in ChildType /\ c.sent = sent /\ c.out = child.out /\ c.phase = "writing"
    BY <1>2, <1>3, <1>4 DEF ChildType
<1>6. bytes \in Numbers /\ SentOf(child) \in Numbers /\ SentOf(c) = SentOf(child) \o bytes
    <2>1. SentOf(c) = SubSeq(child.out, 1, sent)
        BY <1>5, Zenon DEF SentOf
    <2>2. QED
        BY <1>4, <2>1, SentGrows DEF SentOf
<1>7. children' = [children EXCEPT ![i] = c] /\ UNCHANGED <<helper, commands, input, got, output>> /\ Final' = Final
    BY <1>1 DEF Becomes, Final
<1>8. /\ DOMAIN children = 1 .. Len(children) /\ children \in Seq(ChildType)
      /\ Len(children) \in 0 .. Final /\ i \in 1 .. Len(children)
    BY Basics DEF FlowInv, HelpersType
<1>9. Orderly(c)
    BY <1>4, <1>5 DEF Orderly
<1> HIDE DEF c, bytes
<1>10. /\ children' \in Seq(ChildType) /\ Len(children') = Len(children)
       /\ DOMAIN children' = 1 .. Len(children)
       /\ children'[i] = c /\ \A k \in 1 .. Len(children) : k # i => children'[k] = children[k]
    BY <1>5, <1>7, <1>8, ChildReplaced
<1>11. /\ pipes' = [pipes EXCEPT ![i] = @ \o bytes]
       /\ pipes'[i] = pipes[i] \o bytes /\ (i # Final => pipes'[Final] = pipes[Final])
       /\ pipes' \in [0 .. 2 -> Numbers]
    <2>1. pipes[i] \o bytes \in Numbers
        BY <1>3, <1>6, ConcatProperties DEF Numbers
    <2>2. pipes' = [pipes EXCEPT ![i] = @ \o bytes]
        BY <1>1 DEF bytes
    <2>3. QED
        BY <1>3, <2>1, <2>2
<1>12. SentBy(Final)' = IF i = Final THEN SentBy(Final) \o bytes ELSE SentBy(Final)
    <2>1. CASE i = Final
        <3>1. SentBy(Final)' = SentOf(c) /\ SentBy(Final) = SentOf(child)
            BY <1>7, <1>8, <1>10, <2>1 DEF SentBy, child
        <3>2. QED
            BY <1>6, <2>1, <3>1
    <2>2. CASE i # Final
        BY <1>7, <1>8, <1>10, <2>2 DEF SentBy
    <2>3. QED
        BY <2>1, <2>2
<1>13. HelpersType'
    BY <1>2, <1>3, <1>7, <1>10, <1>11 DEF FlowInv, HelpersType
<1>14. Started'
    BY <1>7, <1>10 DEF FlowInv, Started
<1>15. Connected'
    BY <1>2, <1>7 DEF FlowInv, Connected
<1>16. Sending'
    <2>1. \A k \in DOMAIN children : Orderly(children[k])
        BY DEF FlowInv, Sending
    <2>2. QED
        BY <1>8, <1>9, <1>10, <2>1 DEF Sending
<1>17. Flow'
    <2> SUFFICES ASSUME helper.at \in {"exec", "write", "read"}
                 PROVE  got \o pipes'[Final] = SentBy(Final)'
        BY <1>7 DEF Flow
    <2>1. got \o pipes[Final] = SentBy(Final)
        BY DEF FlowInv, Flow
    <2>2. CASE i = Final
        <3>1. got \in Numbers
            BY DEF FlowInv, HelpersType
        <3>2. got \o (pipes[i] \o bytes) = (got \o pipes[i]) \o bytes
            BY <1>3, <1>6, <3>1, ConcatThree
        <3>3. QED
            BY <1>11, <1>12, <2>1, <2>2, <3>2
    <2>3. CASE i # Final
        BY <1>11, <1>12, <2>1, <2>3
    <2>4. QED
        BY <2>2, <2>3
<1>18. Returned'
    <2> SUFFICES ASSUME helper.at = "wait", commands[Final].piped
                 PROVE  output = DecodeUtf8(SentBy(Final)') /\ Readers(Final)' = {}
        BY <1>7 DEF Returned
    <2>1. output = DecodeUtf8(SentBy(Final)) /\ Readers(Final) = {}
        BY DEF FlowInv, Returned
    <2>2. i # Final
        BY <1>2, <2>1
    <2>3. Readers(Final)' = Readers(Final)
        BY <1>2, <1>7 DEF Readers
    <2>4. QED
        BY <1>12, <2>1, <2>2, <2>3
<1>19. QED
    BY <1>13, <1>14, <1>15, <1>16, <1>17, <1>18 DEF FlowInv

\* Every step of a program.
LEMMA ProgramsFlow ==
    ASSUME FlowInv, NEW i \in DOMAIN children, Child(i) \/ Answer(i) \/ Dismiss(i) \/ Dies(i)
    PROVE  FlowInv'
    BY ReadsFlow, HasReadFlow, WritesFlow, BreaksFlow, SucceedsFlow, AnswerFlow, DismissFlow, DiesFlow DEF Child

-----------------------------------------------------------------------------
(* Steps of the helper *)

\* The helper leaves.
LEMMA LeaveFlow ==
    ASSUME FlowInv, NEW code \in Nat, Leave(code)
    PROVE  FlowInv'
<1>1. /\ helper' = [helper EXCEPT !.at = "off", !.exit = code]
      /\ ends' = Without(0)
      /\ UNCHANGED <<commands, input, children, pipes, got, output, picked, effect>>
    BY Zenon DEF Leave
<1>2. helper' \in HelperType /\ helper'.at = "off"
    BY <1>1 DEF FlowInv, HelpersType, HelperType
<1>3. UNCHANGED <<Final, SentBy(Final)>>
    BY <1>1 DEF Final, SentBy
<1>4. HelpersType'
    BY <1>1, <1>2, <1>3 DEF FlowInv, HelpersType
<1>5. Started'
    BY <1>2 DEF Started
<1>6. Connected'
    <2>1. ends' \subseteq ends
        BY <1>1 DEF Without
    <2>2. QED
        BY <1>2, <1>3, <2>1 DEF FlowInv, Connected
<1>7. Sending'
    BY <1>1 DEF FlowInv, Sending
<1>8. Flow' /\ Returned'
    BY <1>2 DEF Flow, Returned
<1>9. QED
    BY <1>4, <1>5, <1>6, <1>7, <1>8 DEF FlowInv

\* A pipeline starts with nothing written.
LEMMA PipelineFlow ==
    ASSUME FlowInv, NEW names \in Seq(Names), Len(names) \in {1, 2},
           NEW text \in Numbers, NEW given \in Numbers, NEW captures \in BOOLEAN,
           RunPipeline(names, text, given, captures),
           helper' \in HelperType, helper'.at = "exec", picked' \in Numbers, effect' \in Numbers
    PROVE  FlowInv'
<1> DEFINE n == Len(names)
           command(i) == [name |-> names[i], given |-> IF i = 1 THEN given ELSE << >>,
                          piped |-> i < Len(names) \/ captures]
<1>1. /\ commands' = [i \in DOMAIN names |-> command(i)]
      /\ input' = EncodeUtf8(text)
      /\ children' = << >> /\ pipes' = [k \in 0 .. 2 |-> << >>]
      /\ ends' = IF text = << >> THEN {} ELSE {<<0, 0, "read">>, <<0, 0, "write">>}
      /\ got' = << >> /\ output' = << >>
    BY Zenon DEF RunPipeline
<1>2. n \in {1, 2} /\ DOMAIN names = 1 .. n /\ \A i \in 1 .. n : names[i] \in Names
    OBVIOUS
<1>3. << >> \in Numbers
    BY DEF Numbers
<1> HIDE DEF n
<1>4. \A i \in 1 .. n : command(i) \in Command
    <2> SUFFICES ASSUME NEW i \in 1 .. n PROVE command(i) \in Command
        OBVIOUS
    <2>1. names[i] \in Names /\ (IF i = 1 THEN given ELSE << >>) \in Numbers
          /\ (i < Len(names) \/ captures) \in BOOLEAN
        BY <1>2, <1>3
    <2>2. QED
        BY <2>1 DEF Command
<1> HIDE DEF command
<1>5. commands' \in [1 .. n -> Command]
    BY <1>1, <1>2, <1>4
<1>6. commands' \in Seq(Command) /\ Len(commands') = n
    BY <1>2, <1>5
<1>7. Final' = n
    BY <1>6 DEF Final
<1>8. /\ children' \in Seq(ChildType) /\ Len(children') = 0 /\ DOMAIN children' = {}
    BY <1>1
<1>9. pipes' \in [0 .. 2 -> Numbers] /\ pipes'[Final'] = << >>
    BY <1>1, <1>2, <1>3, <1>7
<1>10. HelpersType'
    <2>1. input' \in Numbers
        BY <1>1, EncodeType
    <2>2. Final' <= 2 /\ Len(children') <= Final'
        BY <1>2, <1>7, <1>8
    <2>3. QED
        BY <1>1, <1>3, <1>6, <1>8, <1>9, <2>1, <2>2 DEF HelpersType
<1>11. Started'
    <2>1. Final' >= 1 /\ Len(children') < Final'
        BY <1>2, <1>7, <1>8
    <2>2. QED
        BY <2>1 DEF Started
<1>12. Connected'
    BY <1>1 DEF Connected
<1>13. Sending'
    BY <1>8 DEF Sending
<1>14. Flow'
    <2>1. SentBy(Final)' = << >>
        BY <1>8 DEF SentBy
    <2>2. << >> \o << >> = << >>
        OBVIOUS
    <2>3. QED
        BY <1>1, <1>9, <2>1, <2>2 DEF Flow
<1>15. Returned'
    BY DEF Returned
<1>16. QED
    BY <1>10, <1>11, <1>12, <1>13, <1>14, <1>15 DEF FlowInv

\* A helper starts its first pipeline,
LEMMA OpensFlow ==
    ASSUME FlowInv, NEW script \in {"clipboard", "panel", "region", "screenshot"},
           NEW names \in Seq(Names), Len(names) \in {1, 2},
           NEW text \in Numbers, NEW captures \in BOOLEAN, Opens(script, names, text, captures)
    PROVE  FlowInv'
<1>1. /\ helper' = [script |-> script, stage |-> 1, at |-> "exec", exit |-> 0]
      /\ picked' = << >> /\ effect' = << >> /\ RunPipeline(names, text, << >>, captures)
    BY DEF Opens, Nothing
<1>2. helper' \in HelperType /\ helper'.at = "exec"
    BY <1>1 DEF HelperType
<1>3. << >> \in Numbers
    BY DEF Numbers
<1>4. picked' \in Numbers /\ effect' \in Numbers
    BY <1>1, <1>3
<1>5. QED
    BY <1>1, <1>2, <1>3, <1>4, PipelineFlow

\* or its second one.
LEMMA ContinueFlow ==
    ASSUME FlowInv, NEW names \in Seq(Names), Len(names) \in {1, 2},
           NEW text \in Numbers, NEW given \in Numbers, Continue(names, text, given)
    PROVE  FlowInv'
<1>1. /\ helper' = [helper EXCEPT !.stage = 2, !.at = "exec"]
      /\ RunPipeline(names, text, given, FALSE) /\ UNCHANGED <<picked, effect>>
    BY DEF Continue
<1>2. helper' \in HelperType /\ helper'.at = "exec"
    BY <1>1 DEF HelperType, FlowInv, HelpersType
<1>3. picked' \in Numbers /\ effect' \in Numbers
    BY <1>1 DEF FlowInv, HelpersType
<1>4. FALSE \in BOOLEAN
    OBVIOUS
<1>5. QED
    BY <1>1, <1>2, <1>3, <1>4, PipelineFlow

\* The pipelines of the helpers have one program or two.
LEMMA NameLists ==
    /\ <<"list", "picker">> \in Seq(Names) /\ Len(<<"list", "picker">>) \in {1, 2}
    /\ <<"picker">> \in Seq(Names) /\ Len(<<"picker">>) \in {1, 2}
    /\ <<"slurp">> \in Seq(Names) /\ Len(<<"slurp">>) \in {1, 2}
    /\ <<"save">> \in Seq(Names) /\ Len(<<"save">>) \in {1, 2}
    /\ <<"decode", "copy">> \in Seq(Names) /\ Len(<<"decode", "copy">>) \in {1, 2}
    /\ <<"run">> \in Seq(Names) /\ Len(<<"run">>) \in {1, 2}
    /\ <<"grim", "swappy">> \in Seq(Names) /\ Len(<<"grim", "swappy">>) \in {1, 2}
    /\ <<"copy">> \in Seq(Names) /\ Len(<<"copy">>) \in {1, 2}
    BY DEF Names

\* A key or a click.
LEMMA StartFlow ==
    ASSUME FlowInv, Start
    PROVE  FlowInv'
<1>1. << >> \in Numbers /\ TRUE \in BOOLEAN /\ FALSE \in BOOLEAN
    BY DEF Numbers
<1>2. CASE Opens("clipboard", <<"list", "picker">>, << >>, TRUE)
    BY <1>1, <1>2, NameLists, OpensFlow
<1>3. CASE Opens("panel", <<"picker">>, MenuInput, TRUE)
    BY <1>1, <1>3, NameLists, MenuInputType, OpensFlow
<1>4. CASE Opens("region", <<"slurp">>, << >>, TRUE)
    BY <1>1, <1>4, NameLists, OpensFlow
<1>5. CASE Opens("screenshot", <<"save">>, << >>, FALSE)
    BY <1>1, <1>5, NameLists, OpensFlow
<1>6. QED
    BY <1>2, <1>3, <1>4, <1>5 DEF Start

\* The selection is a text.
LEMMA SelectionType ==
    ASSUME FlowInv
    PROVE  Selection \in Numbers /\ output \in Numbers
<1>1. output \in Numbers
    BY DEF FlowInv, HelpersType
<1>2. QED
    BY <1>1, FrontType DEF Selection

\* What the helpers do after each pipeline.
LEMMA GoesOnFlow ==
    ASSUME FlowInv, GoesOn
    PROVE  FlowInv'
<1>1. << >> \in Numbers /\ Image \in Numbers /\ Selection \in Numbers /\ output \in Numbers
    BY SelectionType, ConstantTypes DEF Numbers
<1>2. ASSUME NEW code \in Nat, Leave(code) PROVE FlowInv'
    BY <1>2, LeaveFlow
<1>3. CASE Returns(1) /\ Continue(<<"decode", "copy">>, output, << >>)
    BY <1>1, <1>3, NameLists, ContinueFlow
<1>4. CASE Returns(1) /\ Continue(<<"run">>, << >>, Selection)
    BY <1>1, <1>4, NameLists, ContinueFlow
<1>5. CASE Returns(1) /\ Continue(<<"grim", "swappy">>, << >>, Selection)
    BY <1>1, <1>5, NameLists, ContinueFlow
<1>6. CASE Returns(1) /\ Continue(<<"copy">>, << >>, Image)
    BY <1>1, <1>6, NameLists, ContinueFlow
<1>7. CASE (helper.script \in {"panel", "screenshot"}) /\ Returns(2) /\ Leave(Status(1))
    <2>1. helper.at = "wait" /\ HelpersType /\ Started
        BY <1>7 DEF Returns, FlowInv
    <2>2. 1 \in 1 .. Len(children)
        BY <2>1, Basics DEF Started
    <2>3. children[1] \in ChildType
        BY <2>1, <2>2, Basics
    <2>4. Status(1) \in Nat
        BY <2>3 DEF Status, ChildType
    <2>5. QED
        BY <1>7, <2>4, LeaveFlow
<1>8. ClipboardPick => FlowInv'
    BY <1>2, <1>3 DEF ClipboardPick
<1>9. PanelMenu => FlowInv'
    <2>1. CASE helper.script = "panel" /\ Returns(1) /\ Status(1) # 0 /\ Leave(0)
        BY <1>2, <2>1
    <2>2. CASE helper.script = "panel" /\ Returns(1) /\ Leave(1)
        BY <1>2, <2>2
    <2>3. PanelMenu => \/ helper.script = "panel" /\ Returns(1) /\ Status(1) # 0 /\ Leave(0)
                       \/ helper.script = "panel" /\ Returns(1) /\ Leave(1)
                       \/ Returns(1) /\ Continue(<<"run">>, << >>, Selection)
                       \/ helper.script = "panel" /\ Returns(2) /\ Leave(Status(1))
        BY Zenon DEF PanelMenu
    <2>4. QED
        BY <1>4, <1>7, <2>1, <2>2, <2>3
<1>10. ScreenshotRegion => FlowInv'
    BY <1>2, <1>5 DEF ScreenshotRegion
<1>11. Screenshot => FlowInv'
    BY <1>2, <1>6, <1>7 DEF Screenshot
<1>12. QED
    BY <1>8, <1>9, <1>10, <1>11 DEF GoesOn

\* The helper moves on, and only closes ends.
LEMMA HelperStep ==
    ASSUME FlowInv, helper' \in HelperType, helper'.at \in {"exec", "write", "read"},
           helper'.at = helper.at \/ (helper.at = "write" /\ helper'.at = "read"),
           UNCHANGED <<commands, children, output, picked, effect>>,
           pipes' \in [0 .. 2 -> Numbers], input' \in Numbers, got' \in Numbers,
           got' \o pipes'[Final] = got \o pipes[Final],
           ends' \subseteq ends, \A end \in ends : end \in ends' \/ end[3] = "write"
    PROVE  FlowInv'
<1>1. UNCHANGED <<Final, SentBy(Final)>>
    BY DEF Final, SentBy
<1>2. HelpersType'
    BY <1>1 DEF FlowInv, HelpersType
<1>3. Started'
    BY <1>1 DEF FlowInv, Started
<1>4. Connected'
    <2>1. ends' \subseteq (0 .. 2) \X (0 .. 2) \X {"read", "write"}
        BY DEF FlowInv, Connected
    <2>2. \A end \in ends' : end[1] # 0 /\ end[3] = "read" => end[2] + 1 = end[1] /\ end[1] <= Final
        BY DEF FlowInv, Connected
    <2>3. <<0, Final, "read">> \in ends => <<0, Final, "read">> \in ends'
        OBVIOUS
    <2>4. helper'.at \in {"write", "read"} => helper.at \in {"write", "read"}
        OBVIOUS
    <2>5. helper.at \in {"write", "read"} /\ commands[Final].piped => <<0, Final, "read">> \in ends
        BY DEF FlowInv, Connected
    <2>6. QED
        BY <1>1, <2>1, <2>2, <2>3, <2>4, <2>5 DEF Connected
<1>5. Sending'
    BY DEF FlowInv, Sending
<1>6. Flow'
    BY <1>1 DEF FlowInv, Flow
<1>7. Returned'
    BY DEF Returned
<1>8. QED
    BY <1>2, <1>3, <1>4, <1>5, <1>6, <1>7 DEF FlowInv

\* The input goes to pipe 0, which is not the output.
LEMMA WriteInputFlow ==
    ASSUME FlowInv, WriteInput
    PROVE  FlowInv'
<1> DEFINE room == Capacity - Len(pipes[0])
           count == IF room < Len(input) THEN room ELSE Len(input)
<1>1. /\ helper.at = "write" /\ count > 0
      /\ pipes' = [pipes EXCEPT ![0] = @ \o SubSeq(input, 1, count)]
      /\ input' = SubSeq(input, count + 1, Len(input))
      /\ UNCHANGED <<helper, commands, children, ends, got, output, picked, effect>>
    BY Zenon DEF WriteInput
<1>2. /\ helper \in HelperType /\ input \in Numbers /\ got \in Numbers
      /\ pipes \in [0 .. 2 -> Numbers] /\ pipes[0] \in Numbers /\ Final \in 1 .. 2
    BY <1>1, Basics DEF FlowInv, HelpersType, Started
<1>3. count \in Nat /\ count <= Len(input) /\ Len(input) \in Nat
    <2>1. Len(input) \in Nat /\ Len(pipes[0]) \in Nat /\ Capacity \in Nat
        BY <1>2, ConstantTypes DEF Numbers
    <2>2. QED
        BY <1>1, <2>1
<1> HIDE DEF count
<1>4. SubSeq(input, 1, count) \in Numbers /\ SubSeq(input, count + 1, Len(input)) \in Numbers
    BY <1>2, <1>3, SentGrows
<1> DEFINE first == SubSeq(input, 1, count)
<1> HIDE DEF first
<1>5. pipes[0] \o first \in Numbers
    BY <1>2, <1>4, ConcatProperties DEF Numbers, first
<1>6. pipes' = [pipes EXCEPT ![0] = @ \o first]
    BY <1>1 DEF first
<1>7. pipes' \in [0 .. 2 -> Numbers] /\ pipes'[Final] = pipes[Final]
    BY <1>2, <1>5, <1>6
<1>8. input' \in Numbers
    BY <1>1, <1>4
<1>9. QED
    BY <1>1, <1>2, <1>7, <1>8, HelperStep

\* The helper closes the input.
LEMMA CloseInputFlow ==
    ASSUME FlowInv, CloseInput
    PROVE  FlowInv'
<1>1. helper' \in HelperType /\ helper'.at = "read"
    BY DEF CloseInput, FlowInv, HelpersType, HelperType
<1>2. /\ pipes' \in [0 .. 2 -> Numbers] /\ input' \in Numbers /\ got' \in Numbers
      /\ got' \o pipes'[Final] = got \o pipes[Final]
      /\ UNCHANGED <<commands, children, output, picked, effect>>
    BY DEF CloseInput, FlowInv, HelpersType
<1>3. ends' \subseteq ends /\ \A end \in ends : end \in ends' \/ end[3] = "write"
    BY DEF CloseInput
<1>4. helper.at = "write"
    BY DEF CloseInput
<1>5. QED
    BY <1>1, <1>2, <1>3, <1>4, HelperStep

\* A read moves bytes from the pipe to what is read, and loses none.
LEMMA ReadOutputFlow ==
    ASSUME FlowInv, ReadOutput
    PROVE  FlowInv'
<1>1. /\ helper.at = "read"
      /\ got' = got \o pipes[Final] /\ pipes' = [pipes EXCEPT ![Final] = << >>]
      /\ UNCHANGED <<helper, commands, input, children, ends, output, picked, effect>>
    BY DEF ReadOutput
<1>2. /\ helper \in HelperType /\ input \in Numbers /\ got \in Numbers
      /\ pipes \in [0 .. 2 -> Numbers] /\ Final \in 1 .. 2 /\ pipes[Final] \in Numbers
    BY <1>1, Basics DEF FlowInv, HelpersType, Started
<1>3. got' \in Numbers
    BY <1>1, <1>2, ConcatProperties DEF Numbers
<1>4. << >> \in Numbers
    BY DEF Numbers
<1>5. pipes' \in [0 .. 2 -> Numbers] /\ pipes'[Final] = << >>
    BY <1>1, <1>2, <1>4
<1>6. got' \o << >> = got'
    BY <1>3 DEF Numbers
<1>7. QED
    BY <1>1, <1>2, <1>3, <1>5, <1>6, HelperStep

\* At the end of the output nothing is left in the pipe, and nobody else reads it.
LEMMA EndOutputFlow ==
    ASSUME FlowInv, EndOutput
    PROVE  FlowInv'
<1>1. /\ helper.at = "read"
      /\ <<0, Final, "read">> \in ends => AtEnd(Final)
      /\ output' = DecodeUtf8(got)
      /\ ends' = Without(0)
      /\ helper' = [helper EXCEPT !.at = "wait"]
      /\ UNCHANGED <<commands, input, children, pipes, got, picked, effect>>
    BY DEF EndOutput
<1>2. helper' \in HelperType /\ helper'.at = "wait"
    BY <1>1 DEF FlowInv, HelpersType, HelperType
<1>3. UNCHANGED <<Final, SentBy(Final)>>
    BY <1>1 DEF Final, SentBy
<1>4. got \in Numbers /\ output' \in Numbers
    BY <1>1, DecodeType DEF FlowInv, HelpersType
<1>5. HelpersType'
    BY <1>1, <1>2, <1>3, <1>4 DEF FlowInv, HelpersType
<1>6. Started'
    BY <1>1, <1>2, <1>3 DEF FlowInv, Started
<1>7. Connected'
    <2>1. ends' \subseteq ends
        BY <1>1 DEF Without
    <2>2. QED
        BY <1>2, <1>3, <2>1 DEF FlowInv, Connected
<1>8. Sending'
    BY <1>1 DEF FlowInv, Sending
<1>9. Flow'
    BY <1>2 DEF Flow
<1>10. Returned'
    <2> SUFFICES ASSUME commands[Final].piped
                 PROVE  output' = DecodeUtf8(SentBy(Final)) /\ Readers(Final)' = {}
        BY <1>1, <1>3 DEF Returned
    <2>1. pipes[Final] = << >>
        BY <1>1 DEF FlowInv, Connected, AtEnd
    <2>2. got \o << >> = got
        BY <1>4 DEF Numbers
    <2>3. got = SentBy(Final)
        BY <1>1, <2>1, <2>2 DEF FlowInv, Flow
    <2>4. Readers(Final)' = {}
        <3> SUFFICES ASSUME NEW end \in ends, end[1] # 0, end[2] = Final, end[3] = "read"
                     PROVE  FALSE
            BY <1>1, <1>3 DEF Readers, Without
        <3>1. end[2] + 1 = end[1] /\ end[1] <= Final
            BY DEF FlowInv, Connected
        <3>2. Final \in 0 .. 2
            BY Basics DEF FlowInv
        <3>3. QED
            BY <3>1, <3>2
    <2>5. QED
        BY <1>1, <2>3, <2>4
<1>11. QED
    BY <1>5, <1>6, <1>7, <1>8, <1>9, <1>10 DEF FlowInv

\* A program is started with nothing written, and connected to its two pipes.
LEMMA ExecFlow ==
    ASSUME FlowInv, Exec
    PROVE  FlowInv'
<1> DEFINE i == Len(children) + 1
           passed == {end \in ends : end = <<0, i - 1, "read">>}
           command == commands[i]
           child == Program(command.name, command.given)
<1>1. /\ helper.at = "exec"
      /\ children' = Append(children, child)
      /\ ends' = (ends \ passed) \cup {<<i, i - 1, "read">> : end \in passed} \cup
                 (IF command.piped THEN {<<i, i, "write">>, <<0, i, "read">>} ELSE {})
      /\ helper' = [helper EXCEPT !.at = IF i = Final THEN "write" ELSE "exec"]
      /\ UNCHANGED <<commands, input, pipes, got, output, picked, effect>>
    BY Zenon DEF Exec
<1>2. /\ Final \in 1 .. 2 /\ Len(children) \in 0 .. Final - 1 /\ i \in 1 .. Final
      /\ children \in Seq(ChildType) /\ DOMAIN children = 1 .. Len(children) /\ command \in Command
    BY <1>1, Basics DEF FlowInv, HelpersType, Started
<1>3. child \in ChildType /\ child.sent = 0 /\ child.phase # "ended" /\ child.name = command.name
    BY <1>2, ProgramType DEF Command
<1>4. Orderly(child)
    <2>1. child.phase = "asking" => child.name \in {"picker", "slurp", "swappy"}
        <3> DEFINE name == command.name
                   given == command.given
        <3>1. child.phase = CASE name \in {"picker", "decode", "copy", "swappy"} /\ given = << >> -> "reading"
                              [] name = "slurp" -> "asking"
                              [] OTHER -> "writing"
            BY Zenon DEF Program
        <3> HIDE DEF name, given, child
        <3>2. name = "slurp" \/ child.phase # "asking"
            BY <3>1
        <3>3. QED
            BY <1>3, <3>2 DEF name
    <2>2. 0 <= Len(child.out)
        BY <1>3 DEF ChildType, Numbers
    <2> HIDE DEF child
    <2>3. QED
        BY <1>3, <2>1, <2>2 DEF Orderly
<1> HIDE DEF child
<1>5. /\ children' \in Seq(ChildType) /\ Len(children') = i /\ DOMAIN children' = 1 .. i
      /\ children'[i] = child /\ \A k \in 1 .. Len(children) : children'[k] = children[k]
    BY <1>1, <1>2, <1>3
<1>6. helper' \in HelperType /\ helper'.at = IF i = Final THEN "write" ELSE "exec"
    BY <1>1 DEF FlowInv, HelpersType, HelperType
<1>7. Final' = Final
    BY <1>1 DEF Final
<1>8. HelpersType'
    BY <1>1, <1>2, <1>5, <1>6, <1>7 DEF FlowInv, HelpersType
<1>9. Started'
    BY <1>2, <1>5, <1>6, <1>7 DEF Started
<1> HIDE DEF command
<1>10. Connected'
    <2>1. /\ ends \subseteq (0 .. 2) \X (0 .. 2) \X {"read", "write"}
          /\ \A end \in ends : end[1] # 0 /\ end[3] = "read" => end[2] + 1 = end[1] /\ end[1] <= Final
        BY DEF FlowInv, Connected
    <2>2. i \in 1 .. 2 /\ i - 1 \in 0 .. 2 /\ i <= Final /\ (i - 1) + 1 = i
        BY <1>2
    <2> HIDE DEF i
    <2>3. \A end \in ends' : \/ end \in ends
                             \/ end = <<i, i - 1, "read">>
                             \/ end = <<i, i, "write">>
                             \/ end = <<0, i, "read">>
        BY <1>1
    <2>4. ends' \subseteq (0 .. 2) \X (0 .. 2) \X {"read", "write"}
        BY <2>1, <2>2, <2>3
    <2>5. \A end \in ends' : end[1] # 0 /\ end[3] = "read" => end[2] + 1 = end[1] /\ end[1] <= Final
        <3> SUFFICES ASSUME NEW end \in ends', end[1] # 0, end[3] = "read"
                     PROVE  end[2] + 1 = end[1] /\ end[1] <= Final
            OBVIOUS
        <3>1. CASE end \in ends
            BY <2>1, <3>1
        <3>2. CASE end = <<i, i - 1, "read">>
            BY <2>2, <3>2
        <3>3. CASE end = <<i, i, "write">>
            BY <3>3
        <3>4. CASE end = <<0, i, "read">>
            BY <3>4
        <3>5. QED
            BY <2>3, <3>1, <3>2, <3>3, <3>4
    <2>6. helper'.at \in {"write", "read"} /\ commands[Final].piped => <<0, Final, "read">> \in ends'
        BY <1>1, <1>6 DEF command
    <2>7. QED
        BY <1>1, <1>7, <2>4, <2>5, <2>6 DEF Connected
<1>11. Sending'
    <2>1. \A k \in DOMAIN children : Orderly(children[k])
        BY DEF FlowInv, Sending
    <2>2. \A k \in 1 .. i : Orderly(children'[k])
        <3> SUFFICES ASSUME NEW k \in 1 .. i PROVE Orderly(children'[k])
            OBVIOUS
        <3>1. k = i \/ k \in 1 .. Len(children)
            BY <1>2
        <3>2. QED
            BY <1>2, <1>4, <1>5, <2>1, <3>1
    <2>3. QED
        BY <1>5, <2>2 DEF Sending
<1>12. Flow'
    <2>1. SentBy(Final) = << >>
        BY <1>2 DEF SentBy
    <2>2. SentBy(Final)' = << >>
        BY <1>2, <1>3, <1>5, <1>7, NothingSent DEF SentBy
    <2>3. got \o pipes[Final] = << >>
        BY <1>1, <2>1 DEF FlowInv, Flow
    <2>4. QED
        BY <1>1, <1>7, <2>2, <2>3 DEF Flow
<1>13. Returned'
    BY <1>6 DEF Returned
<1>14. QED
    BY <1>8, <1>9, <1>10, <1>11, <1>12, <1>13 DEF FlowInv

-----------------------------------------------------------------------------

\* Before the first helper nothing is connected.
LEMMA FlowInit == Init => FlowInv
<1> SUFFICES ASSUME Init PROVE FlowInv
    OBVIOUS
<1>1. << >> \in Numbers
    BY DEF Numbers
<1>2. commands = << >> /\ children = << >> /\ ends = {} /\ Final = 0 /\ helper.at = "off"
    BY DEF Init, Final
<1>3. helper \in HelperType
    BY DEF Init, HelperType
<1>4. pipes \in [0 .. 2 -> Numbers]
    BY <1>1 DEF Init
<1>5. HelpersType
    BY <1>1, <1>2, <1>3, <1>4 DEF Init, HelpersType, Nothing
<1>6. Started /\ Connected /\ Sending /\ Flow /\ Returned
    BY <1>2 DEF Started, Connected, Sending, Flow, Returned
<1>7. QED
    BY <1>5, <1>6 DEF FlowInv

\* Every step of the specification.
LEMMA FlowNext == FlowInv /\ [Next]_vars => FlowInv'
<1> SUFFICES ASSUME FlowInv, [Next]_vars PROVE FlowInv'
    OBVIOUS
<1>1. CASE Start
    BY <1>1, StartFlow
<1>2. CASE RunsPipeline
    <2>1. CASE InputBreaks
        BY <2>1, LeaveFlow DEF InputBreaks
    <2>2. QED
        BY <1>2, <2>1, ExecFlow, WriteInputFlow, CloseInputFlow, ReadOutputFlow, EndOutputFlow DEF RunsPipeline
<1>3. CASE PipeFails
    BY <1>3, LeaveFlow DEF PipeFails
<1>4. CASE GoesOn
    BY <1>4, GoesOnFlow
<1>5. CASE \E i \in DOMAIN children : Child(i) \/ Answer(i) \/ Dismiss(i) \/ Dies(i)
    BY <1>5, ProgramsFlow
<1>6. CASE UNCHANGED vars
    <2>1. UNCHANGED <<helper, commands, input, children, pipes, ends, got, output, picked, effect>>
        BY <1>6 DEF vars
    <2>2. UNCHANGED <<Final, SentBy(Final), Readers(Final)>>
        BY <2>1 DEF Final, SentBy, Readers
    <2>3. HelpersType' /\ Started'
        BY <2>1, <2>2 DEF FlowInv, HelpersType, Started
    <2>4. Connected' /\ Sending'
        BY <2>1, <2>2 DEF FlowInv, Connected, Sending
    <2>5. Flow' /\ Returned'
        BY <2>1, <2>2 DEF FlowInv, Flow, Returned
    <2>6. QED
        BY <2>3, <2>4, <2>5 DEF FlowInv
<1>7. QED
    BY <1>1, <1>2, <1>3, <1>4, <1>5, <1>6, Zenon DEF Next

\* What a program has written is always either in its pipe or read; when the helper has its
\* output as text, all of it has been read (runPipeline and readAll of process.qjs.ts).
THEOREM OutputFlows == Spec => []FlowInv
<1>1. Init => FlowInv
    BY FlowInit
<1>2. FlowInv /\ [Next]_vars => FlowInv'
    BY FlowNext
<1>3. QED
    BY <1>1, <1>2, PTL DEF Spec

\* The text runPipeline() returns is what the last program wrote, decoded by the table of
\* UTF-8, however the writes and the reads cut it.
THEOREM WholeOutput == Spec => []OutputIsWhole
<1>1. FlowInv => OutputIsWhole
    <2> SUFFICES ASSUME FlowInv, helper.at = "wait", commands[Final].piped
                 PROVE  output = ReferenceDecoding(SubSeq(children[Final].out, 1, children[Final].sent))
        BY DEF OutputIsWhole
    <2>1. output = DecodeUtf8(SentBy(Final))
        BY DEF FlowInv, Returned
    <2>2. Final \in DOMAIN children /\ children[Final] \in ChildType /\ Orderly(children[Final])
        BY Basics DEF FlowInv, Started, Sending
    <2> DEFINE child == children[Final]
    <2>3. SentBy(Final) = SentOf(child)
        BY <2>2 DEF SentBy
    <2>4. child.out \in Numbers /\ child.sent \in Nat /\ child.sent <= Len(child.out)
        BY <2>2 DEF ChildType, Orderly
    <2> HIDE DEF child
    <2>5. SubSeq(child.out, 1, child.sent) \in Numbers
        BY <2>4, SentGrows
    <2>6. DecodeUtf8(SentOf(child)) = ReferenceDecoding(SentOf(child))
        BY <2>5, DecodesByTheTable DEF SentOf, Numbers
    <2>7. QED
        BY <2>1, <2>3, <2>6 DEF SentOf, child
<1>2. QED
    BY <1>1, OutputFlows, PTL

-----------------------------------------------------------------------------
(* The decoder finds only characters *)

\* The code points that are characters: all but the surrogates.
IsScalar(x) == x < 55296 \/ (57344 <= x /\ x < 1114112)
Scalars == {x \in Nat : IsScalar(x)}

\* The decoder has found only characters and will, whatever the next bytes are: between
\* the least and the greatest point it can still reach there is no surrogate.
Avoids(least, greatest) == greatest < 55296 \/ (57344 <= least /\ greatest < 1114112)
OneLeft(p, l, u) == Avoids(p * 64 + (l - 128), p * 64 + (u - 128))
TwoLeft(p, l, u) == Avoids(p * 4096 + (l - 128) * 64, p * 4096 + (u - 128) * 64 + 63)
ThreeLeft(p, l, u) == Avoids(p * 262144 + (l - 128) * 4096, p * 262144 + (u - 128) * 4096 + 4095)
Safe(d) ==
    /\ d \in DecoderState /\ d.points \in Seq(Scalars)
    /\ d.needed # 0 => 128 <= d.lower /\ d.upper <= 191
    /\ d.needed = 1 => OneLeft(d.point, d.lower, d.upper)
    /\ d.needed = 2 => TwoLeft(d.point, d.lower, d.upper)
    /\ d.needed = 3 => ThreeLeft(d.point, d.lower, d.upper)

\* Characters are numbers.
LEMMA ScalarsAreNumbers ==
    /\ Scalars \subseteq Nat /\ Seq(Scalars) \subseteq Numbers
    /\ REPLACEMENT \in Scalars /\ Newline \in Scalars /\ << >> \in Seq(Scalars)
<1>1. Scalars \subseteq Nat
    BY DEF Scalars
<1>2. Seq(Scalars) \subseteq Numbers
    <2> SUFFICES ASSUME NEW points \in Seq(Scalars) PROVE points \in Seq(Nat)
        BY DEF Numbers
    <2>1. /\ points \in [1 .. Len(points) -> Scalars] /\ Len(points) \in Nat
        OBVIOUS
    <2>2. points \in [1 .. Len(points) -> Nat]
        BY <1>1, <2>1
    <2>3. QED
        BY <2>1, <2>2
<1>3. REPLACEMENT \in Scalars /\ Newline \in Scalars
    BY DEF REPLACEMENT, Newline, Scalars, IsScalar
<1>4. << >> \in Seq(Scalars)
    OBVIOUS
<1>5. QED
    BY <1>1, <1>2, <1>3, <1>4

\* A further character.
LEMMA PushSafe ==
    ASSUME NEW d \in DecoderState, d.points \in Seq(Scalars), NEW x \in Scalars
    PROVE  Safe(Push(d, x))
<1>1. Append(d.points, x) \in Seq(Scalars)
    OBVIOUS
<1>2. Push(d, x) \in DecoderState
    BY PushType, ScalarsAreNumbers
<1>3. Push(d, x).points = Append(d.points, x) /\ Push(d, x).needed = 0
    BY DEF Push, Between
<1>4. QED
    BY <1>1, <1>2, <1>3 DEF Safe

\* The start of a character.
LEMMA BeginSafe ==
    ASSUME NEW d \in DecoderState, d.points \in Seq(Scalars),
           NEW p \in Nat, NEW n \in 1 .. 3, NEW l \in Nat, NEW u \in Nat, 128 <= l, u <= 191,
           n = 1 => OneLeft(p, l, u), n = 2 => TwoLeft(p, l, u), n = 3 => ThreeLeft(p, l, u)
    PROVE  Safe(BeginPoint(d, p, n, l, u))
<1> DEFINE e == BeginPoint(d, p, n, l, u)
<1>1. e \in DecoderState
    <2>1. n \in 0 .. 3
        OBVIOUS
    <2>2. QED
        BY <2>1, BeginPointType
<1>2. e.points = d.points /\ e.point = p /\ e.needed = n /\ e.lower = l /\ e.upper = u
    BY DEF BeginPoint
<1> HIDE DEF e
<1>3. Safe(e)
    BY <1>1, <1>2 DEF Safe
<1>4. QED
    BY <1>3 DEF e

\* A first byte announces no surrogate: after ED a second byte from A0 on is not taken.
LEMMA LeadSafe ==
    ASSUME NEW d \in DecoderState, d.points \in Seq(Scalars), NEW byte \in Nat
    PROVE  Safe(Lead(d, byte))
<1>1. CASE byte < 128
    <2>1. byte \in Scalars
        BY <1>1 DEF Scalars, IsScalar
    <2>2. QED
        BY <1>1, <2>1, PushSafe, LeadCases
<1>2. CASE byte \in 194 .. 223
    <2> DEFINE l == 128
               u == 191
               p == byte % 32
    <2>1. p \in Nat /\ p < 32
        OBVIOUS
    <2>2. OneLeft(p, l, u)
        <3> HIDE DEF p
        <3> QED
            BY <2>1 DEF Avoids, OneLeft, TwoLeft, ThreeLeft
    <2>3. 1 \in 1 .. 3 /\ l \in Nat /\ u \in Nat /\ 128 <= l /\ u <= 191
        OBVIOUS
    <2>4. Lead(d, byte) = BeginPoint(d, p, 1, l, u)
        BY <1>2, LeadCases
    <2> HIDE DEF l, u, p
    <2>5. QED
        BY <2>1, <2>2, <2>3, <2>4, BeginSafe
<1>3. CASE byte \in 224 .. 239
    <2> DEFINE l == IF byte = 224 THEN 160 ELSE 128
               u == IF byte = 237 THEN 159 ELSE 191
               p == byte % 16
    <2>1. p \in Nat /\ p = byte - 224
        BY <1>3
    <2>2. l \in Nat /\ u \in Nat /\ 128 <= l /\ u <= 191 /\ (byte = 237 => u = 159)
        OBVIOUS
    <2>3. Lead(d, byte) = BeginPoint(d, p, 2, l, u) /\ 2 \in 1 .. 3
        BY <1>3, LeadCases
    <2> HIDE DEF l, u, p
    <2>4. TwoLeft(p, l, u)
        <3>1. 224 <= byte /\ byte <= 239
            BY <1>3
        <3>2. CASE byte < 237
            BY <2>1, <2>2, <3>2 DEF Avoids, OneLeft, TwoLeft, ThreeLeft
        <3>3. CASE byte = 237
            BY <2>1, <2>2, <3>3 DEF Avoids, OneLeft, TwoLeft, ThreeLeft
        <3>4. CASE byte > 237
            BY <2>1, <2>2, <3>1, <3>4 DEF Avoids, OneLeft, TwoLeft, ThreeLeft
        <3>5. QED
            BY <3>2, <3>3, <3>4
    <2>5. QED
        BY <2>1, <2>2, <2>3, <2>4, BeginSafe
<1>4. CASE byte \in 240 .. 244
    <2> DEFINE l == IF byte = 240 THEN 144 ELSE 128
               u == IF byte = 244 THEN 143 ELSE 191
               p == byte % 8
    <2>1. p \in Nat /\ p = byte - 240
        BY <1>4
    <2>2. l \in Nat /\ u \in Nat /\ 128 <= l /\ u <= 191 /\ (byte = 240 => l = 144) /\ (byte = 244 => u = 143)
        OBVIOUS
    <2>3. Lead(d, byte) = BeginPoint(d, p, 3, l, u) /\ 3 \in 1 .. 3
        BY <1>4, LeadCases
    <2> HIDE DEF l, u, p
    <2>4. ThreeLeft(p, l, u)
        <3>1. 240 <= byte /\ byte <= 244
            BY <1>4
        <3>2. CASE byte = 240
            BY <2>1, <2>2, <3>2 DEF Avoids, OneLeft, TwoLeft, ThreeLeft
        <3>3. CASE byte \in {241, 242, 243}
            BY <2>1, <2>2, <3>3 DEF Avoids, OneLeft, TwoLeft, ThreeLeft
        <3>4. CASE byte = 244
            BY <2>1, <2>2, <3>4 DEF Avoids, OneLeft, TwoLeft, ThreeLeft
        <3>5. QED
            BY <3>1, <3>2, <3>3, <3>4
    <2>5. QED
        BY <2>1, <2>2, <2>3, <2>4, BeginSafe
<1>5. CASE byte \in 128 .. 193 \/ byte > 244
    BY <1>5, PushSafe, LeadCases, ScalarsAreNumbers
<1>6. QED
    BY <1>1, <1>2, <1>3, <1>4, <1>5

\* A byte that continues a character keeps between the bounds.
LEMMA NextByteSafe ==
    ASSUME NEW d, Safe(d), NEW byte \in Nat
    PROVE  Safe(NextByte(d, byte))
<1>1. /\ d \in DecoderState /\ d.points \in Seq(Scalars) /\ d.needed \in 0 .. 3 /\ d.point \in Nat
      /\ d.lower \in Nat /\ d.upper \in Nat
    BY DEF Safe, DecoderState
<1>2. CASE d.needed = 0
    BY <1>1, <1>2, LeadSafe, NextByteCases
<1>3. CASE d.needed # 0 /\ byte \notin d.lower .. d.upper
    <2> DEFINE e == Push(d, REPLACEMENT)
    <2>1. Safe(e)
        BY <1>1, PushSafe, ScalarsAreNumbers
    <2>2. NextByte(d, byte) = Lead(e, byte)
        BY <1>1, <1>3, NextByteCases
    <2> HIDE DEF e
    <2>3. QED
        BY <2>1, <2>2, LeadSafe DEF Safe
<1> DEFINE p == d.point
           l == d.lower
           u == d.upper
           q == p * 64 + (byte % 64)
<1>4. CASE d.needed # 0 /\ byte \in d.lower .. d.upper
    <2>1. p \in Nat /\ l \in Nat /\ u \in Nat /\ 128 <= l /\ l <= byte /\ byte <= u /\ u <= 191
        BY <1>1, <1>4 DEF Safe
    <2> HIDE DEF p, l, u
    <2>2. byte % 64 = byte - 128
        BY <2>1
    <2>3. q \in Nat /\ q = p * 64 + (byte - 128)
        BY <2>1, <2>2
    <2> HIDE DEF q
    <2>4. CASE d.needed = 1
        <3>1. NextByte(d, byte) = Push(d, q)
            BY <1>1, <1>4, <2>4, NextByteCases DEF q, p
        <3>2. OneLeft(p, l, u)
            BY <2>4 DEF Safe, p, l, u
        <3>3. IsScalar(q)
            BY <2>1, <2>3, <3>2 DEF Avoids, OneLeft, IsScalar
        <3>4. q \in Scalars
            BY <2>3, <3>3 DEF Scalars
        <3>5. QED
            BY <1>1, <3>1, <3>4, PushSafe
    <2>5. CASE d.needed = 2
        <3>1. NextByte(d, byte) = BeginPoint(d, q, 1, 128, 191)
            <4>1. d.needed > 1 /\ d.needed - 1 = 1
                BY <2>5
            <4>2. NextByte(d, byte) = BeginPoint(d, d.point * 64 + (byte % 64), d.needed - 1, 128, 191)
                BY <1>1, <1>4, <4>1, NextByteCases
            <4>3. QED
                BY <4>1, <4>2 DEF q, p
        <3>2. TwoLeft(p, l, u)
            BY <2>5 DEF Safe, p, l, u
        <3>3. OneLeft(q, 128, 191)
            BY <2>1, <2>3, <3>2 DEF Avoids, OneLeft, TwoLeft, ThreeLeft
        <3>4. QED
            BY <1>1, <2>3, <3>1, <3>3, BeginSafe
    <2>6. CASE d.needed = 3
        <3>1. NextByte(d, byte) = BeginPoint(d, q, 2, 128, 191)
            <4>1. d.needed > 1 /\ d.needed - 1 = 2
                BY <2>6
            <4>2. NextByte(d, byte) = BeginPoint(d, d.point * 64 + (byte % 64), d.needed - 1, 128, 191)
                BY <1>1, <1>4, <4>1, NextByteCases
            <4>3. QED
                BY <4>1, <4>2 DEF q, p
        <3>2. ThreeLeft(p, l, u)
            BY <2>6 DEF Safe, p, l, u
        <3>3. TwoLeft(q, 128, 191)
            BY <2>1, <2>3, <3>2 DEF Avoids, OneLeft, TwoLeft, ThreeLeft
        <3>4. QED
            BY <1>1, <2>3, <3>1, <3>3, BeginSafe
    <2>7. QED
        BY <1>1, <1>4, <2>4, <2>5, <2>6
<1>5. QED
    BY <1>2, <1>3, <1>4

\* What is decoded is characters.
LEMMA DecoderSafe ==
    ASSUME NEW bytes \in Numbers
    PROVE  Safe(Decoder(bytes))
<1> DEFINE T == {b \in Numbers : Safe(Decoder(b))}
<1>1. << >> \in T
    <2>1. Fresh.points = << >> /\ Fresh.needed = 0
        BY DEF Fresh, Between
    <2>2. Safe(Fresh)
        BY <2>1, FreshType, ScalarsAreNumbers DEF Safe
    <2>3. << >> \in Numbers
        BY DEF Numbers
    <2>4. QED
        BY <2>2, <2>3, DecoderEmpty
<1>2. ASSUME NEW b \in Seq(Nat), NEW x \in Nat, b \in T PROVE Append(b, x) \in T
    <2>1. b \in Numbers /\ Append(b, x) \in Numbers
        BY DEF Numbers
    <2>2. Safe(NextByte(Decoder(b), x))
        BY <1>2, NextByteSafe
    <2>3. Decoder(Append(b, x)) = NextByte(Decoder(b), x)
        BY <2>1, DecoderAppend
    <2>4. QED
        BY <2>1, <2>2, <2>3
<1>3. Seq(Nat) \subseteq T
    <2> HIDE DEF T
    <2> QED
        BY <1>1, <1>2, SeqInduction
<1>4. QED
    BY <1>3 DEF Numbers

\* DecodeUtf8 gives the text of characters.
LEMMA DecodedCharacters ==
    ASSUME NEW bytes \in Numbers
    PROVE  \E points \in Seq(Scalars) : DecodeUtf8(bytes) = Text(points)
<1> DEFINE points == Decoder(bytes).points
<1>1. points \in Seq(Scalars)
    BY DecoderSafe DEF Safe
<1> HIDE DEF points
<1>2. Append(points, REPLACEMENT) \in Seq(Scalars)
    BY <1>1, ScalarsAreNumbers
<1>3. QED
    BY <1>1, <1>2, DecodeIsText DEF points

-----------------------------------------------------------------------------
(* The bytes of a character, and its value *)

\* A whole piece is decoded to its value.
LEMMA DecoderOfWhole ==
    ASSUME NEW u \in Numbers, u # << >>, IsWhole(u)
    PROVE  Decoder(u) = Between(<<Value(u)>>)
<1>1. PICK v \in Seq(Nat), x \in Nat : u = Append(v, x)
    BY SequenceEmptyOrAppend DEF Numbers
<1>2. v \in Numbers
    BY DEF Numbers
<1>3. CASE v = << >>
    <2>1. u = <<x>>
        BY <1>1, <1>3
    <2>2. QED
        BY <2>1, FirstByte
<1>4. CASE v # << >>
    <2>1. Fits(Append(v, x))
        BY <1>1, WholeFits
    <2>2. Unfinished(v) /\ StateKnown(v)
        BY <1>2, <1>4, <2>1, FitsShorter, UnfinishedIsKnown
    <2>3. QED
        BY <1>1, <1>2, <2>2, NextOfPiece
<1>5. QED
    BY <1>3, <1>4

\* The value of a whole character of one byte.
LEMMA WholeOne ==
    ASSUME NEW a \in Nat, a < 128
    PROVE  IsWhole(<<a>>) /\ Value(<<a>>) = a
<1> DEFINE u == <<a>>
<1>1. u \in Numbers /\ u # << >> /\ Len(u) = 1 /\ u[1] = a
    BY Single
<1> HIDE DEF u
<1>2. Size(a) = 1
    BY DEF Size
<1>3. Fits(u)
    BY <1>1, <1>2 DEF Fits
<1>4. IsWhole(u)
    BY <1>1, <1>2, <1>3, WholeFits
<1>5. Value(u) = a % 128
    BY <1>1, <1>4 DEF Value
<1>6. QED
    BY <1>4, <1>5 DEF u

\* The value of a whole character of two bytes.
LEMMA WholeTwo ==
    ASSUME NEW a \in 194 .. 223, NEW b \in 128 .. 191
    PROVE  IsWhole(<<a, b>>) /\ Value(<<a, b>>) = (a % 32) * 64 + (b % 64)
<1> DEFINE u == <<a, b>>
<1>1. u \in Numbers /\ u # << >> /\ Len(u) = 2 /\ u[1] = a /\ u[2] = b
    BY DEF Numbers
<1> HIDE DEF u
<1>2. Size(a) = 2 /\ Lowest(a) = 128 /\ Highest(a) = 191
    BY DEF Size, Lowest, Highest
<1>3. Fits(u)
    BY <1>1, <1>2 DEF Fits
<1>4. IsWhole(u)
    BY <1>1, <1>2, <1>3, WholeFits
<1>5. Value(u) = (a % 32) * 64 + (b % 64)
    BY <1>1, <1>4 DEF Value
<1>6. QED
    BY <1>4, <1>5 DEF u

Joint(a, b, c, d) == a * 262144 + b * 4096 + c * 64 + d

\* The value of a whole character of three bytes.
LEMMA WholeThree ==
    ASSUME NEW a \in 224 .. 239, NEW b \in Lowest(a) .. Highest(a), NEW c \in 128 .. 191
    PROVE  IsWhole(<<a, b, c>>) /\ Value(<<a, b, c>>) = Joint(0, a % 16, b % 64, c % 64)
<1> DEFINE u == <<a, b, c>>
<1>1. a \in Nat /\ b \in Nat /\ c \in Nat
    BY SizeType
<1>2. u \in Numbers /\ u # << >> /\ Len(u) = 3 /\ u[1] = a /\ u[2] = b /\ u[3] = c
    BY <1>1 DEF Numbers
<1> HIDE DEF u
<1>3. Size(a) = 3
    BY DEF Size
<1>4. Fits(u)
    BY <1>2, <1>3 DEF Fits
<1>5. IsWhole(u)
    BY <1>2, <1>3, <1>4, WholeFits
<1>6. Value(u) = Joint(0, a % 16, b % 64, c % 64)
    BY <1>1, <1>2, <1>5, SMT DEF Value, Joint
<1>7. QED
    BY <1>5, <1>6 DEF u

\* The value of a whole character of four bytes.
LEMMA WholeFour ==
    ASSUME NEW a \in 240 .. 244, NEW b \in Lowest(a) .. Highest(a), NEW c \in 128 .. 191, NEW d \in 128 .. 191
    PROVE  IsWhole(<<a, b, c, d>>)
           /\ Value(<<a, b, c, d>>) = Joint(a % 8, b % 64, c % 64, d % 64)
<1> DEFINE u == <<a, b, c, d>>
<1>1. a \in Nat /\ b \in Nat /\ c \in Nat /\ d \in Nat
    BY SizeType
<1>2. u \in Numbers /\ u # << >> /\ Len(u) = 4 /\ u[1] = a /\ u[2] = b /\ u[3] = c /\ u[4] = d
    BY <1>1 DEF Numbers
<1> HIDE DEF u
<1>3. Size(a) = 4
    BY DEF Size
<1>4. Fits(u)
    BY <1>2, <1>3 DEF Fits
<1>5. IsWhole(u)
    BY <1>2, <1>3, <1>4, WholeFits
<1>6. Value(u) = Joint(a % 8, b % 64, c % 64, d % 64)
    BY <1>2, <1>5, SMT DEF Value, Joint
<1>7. QED
    BY <1>5, <1>6 DEF u

-----------------------------------------------------------------------------
(* Characters written one after the other *)

\* A character is decoded from the bytes it is written in.
LEMMA CharacterIsWhole ==
    ASSUME NEW x \in Scalars
    PROVE  BytesOf(x) # << >> /\ IsWhole(BytesOf(x)) /\ Value(BytesOf(x)) = x
<1>1. x \in Nat /\ IsScalar(x)
    BY DEF Scalars
<1> DEFINE c1 == Continuation(x, 1)
           c2 == Continuation(x, 64)
           c3 == Continuation(x, 4096)
           l == x % 64
<1>2. /\ c1 \in 128 .. 191 /\ c1 % 64 = l /\ l \in Nat /\ l < 64
    BY <1>1 DEF Continuation
<1> HIDE DEF c1
<1>3. CASE x < 128
    BY <1>1, <1>3, BytesCases, WholeOne
<1>4. CASE x >= 128 /\ x < 2048
    <2> DEFINE t == x \div 64
               a == 192 + t
    <2>1. t \in Nat /\ x = t * 64 + l
        BY <1>1
    <2>2. BytesOf(x) = <<a, c1>>
        BY <1>1, <1>4, BytesCases DEF c1
    <2> HIDE DEF t, l
    <2>3. a \in 194 .. 223 /\ a % 32 = t
        BY <1>2, <1>4, <2>1
    <2> HIDE DEF a
    <2>4. IsWhole(<<a, c1>>) /\ Value(<<a, c1>>) = t * 64 + l
        BY <1>2, <2>3, WholeTwo
    <2>5. <<a, c1>> # << >>
        OBVIOUS
    <2>6. QED
        BY <2>1, <2>2, <2>4, <2>5
<1>5. CASE x >= 2048 /\ x < 65536
    <2> DEFINE y == x \div 64
               t == x \div 4096
               m == y % 64
               a == 224 + t
    <2>1. y \in Nat /\ x = y * 64 + l /\ y = t * 64 + m /\ m \in Nat /\ m < 64 /\ t \in Nat
        BY <1>1
    <2>2. BytesOf(x) = <<a, c2, c1>>
        BY <1>1, <1>5, BytesCases DEF c1
    <2>3. c2 = 128 + m
        BY DEF Continuation
    <2> HIDE DEF y, t, m, l, c2
    <2>4. x = t * 4096 + m * 64 + l
        BY <1>2, <2>1
    <2>5. a \in 224 .. 239 /\ a % 16 = t
        BY <1>2, <1>5, <2>1, <2>4
    <2>6. c2 % 64 = m /\ c2 \in 128 .. 191
        BY <2>1, <2>3
    <2>7. t = 0 => m >= 32
        BY <1>2, <1>5, <2>1, <2>4
    <2>8. t = 13 => m < 32
        BY <1>1, <1>2, <2>1, <2>4 DEF IsScalar
    <2>9. c2 \in Lowest(a) .. Highest(a)
        BY <2>1, <2>3, <2>5, <2>6, <2>7, <2>8 DEF Lowest, Highest
    <2> HIDE DEF a
    <2>10. IsWhole(<<a, c2, c1>>) /\ Value(<<a, c2, c1>>) = Joint(0, t, m, l)
        <3>1. a \in 224 .. 239 /\ c2 \in Lowest(a) .. Highest(a) /\ c1 \in 128 .. 191
            BY <1>2, <2>5, <2>6, <2>9
        <3>2. IsWhole(<<a, c2, c1>>) /\ Value(<<a, c2, c1>>) = Joint(0, a % 16, c2 % 64, c1 % 64)
            BY <3>1, WholeThree
        <3>3. QED
            BY <1>2, <2>5, <2>6, <3>2
    <2>11. <<a, c2, c1>> # << >>
        OBVIOUS
    <2>12. Joint(0, t, m, l) = x
        BY <1>2, <2>1, <2>4, SMT DEF Joint
    <2>13. QED
        BY <2>2, <2>10, <2>11, <2>12, Zenon
<1>6. CASE x >= 65536
    <2> DEFINE y == x \div 64
               z == x \div 4096
               t == x \div 262144
               m == y % 64
               h == z % 64
               a == 240 + t
    <2>1. /\ y \in Nat /\ x = y * 64 + l /\ y = z * 64 + m /\ z = t * 64 + h
          /\ m \in Nat /\ m < 64 /\ h \in Nat /\ h < 64 /\ t \in Nat /\ z \in Nat
        BY <1>1, SMT
    <2>2. BytesOf(x) = <<a, c3, c2, c1>>
        BY <1>1, <1>6, BytesCases DEF c1
    <2>3. c2 = 128 + m /\ c3 = 128 + h
        BY DEF Continuation
    <2> HIDE DEF y, z, t, m, h, l, c2, c3
    <2>4. x = t * 262144 + h * 4096 + m * 64 + l
        BY <1>2, <2>1, SMT
    <2>5. a \in 240 .. 244 /\ a % 8 = t
        BY <1>1, <1>2, <1>6, <2>1, <2>4, SMT DEF IsScalar
    <2>6. c2 % 64 = m /\ c2 \in 128 .. 191 /\ c3 % 64 = h /\ c3 \in 128 .. 191
        BY <2>1, <2>3
    <2>7. t = 0 => h >= 16
        BY <1>2, <1>6, <2>1, <2>4, SMT
    <2>8. t = 4 => h < 16
        BY <1>1, <1>2, <1>6, <2>1, <2>4, SMT DEF IsScalar
    <2>9. c3 \in Lowest(a) .. Highest(a)
        BY <2>1, <2>3, <2>5, <2>6, <2>7, <2>8, SMT DEF Lowest, Highest
    <2> HIDE DEF a
    <2>10. IsWhole(<<a, c3, c2, c1>>) /\ Value(<<a, c3, c2, c1>>) = Joint(t, h, m, l)
        <3>1. a \in 240 .. 244 /\ c3 \in Lowest(a) .. Highest(a) /\ c2 \in 128 .. 191 /\ c1 \in 128 .. 191
            BY <1>2, <2>5, <2>6, <2>9
        <3>2. /\ IsWhole(<<a, c3, c2, c1>>)
              /\ Value(<<a, c3, c2, c1>>) = Joint(a % 8, c3 % 64, c2 % 64, c1 % 64)
            BY <3>1, WholeFour, ZenonT(60)
        <3>3. QED
            BY <1>2, <2>5, <2>6, <3>2
    <2>11. <<a, c3, c2, c1>> # << >>
        OBVIOUS
    <2>12. Joint(t, h, m, l) = x
        BY <2>4, SMT DEF Joint
    <2>13. QED
        BY <2>2, <2>10, <2>11, <2>12, Zenon
<1>7. QED
    BY <1>1, <1>3, <1>4, <1>5, <1>6

\* The bytes a character is written in are decoded to it.
LEMMA CharacterDecoded ==
    ASSUME NEW x \in Scalars
    PROVE  BytesOf(x) \in Numbers /\ Decoder(BytesOf(x)) = Between(<<x>>)
<1>1. x \in Nat
    BY DEF Scalars
<1>2. QED
    BY <1>1, CharacterIsWhole, BytesType, DecoderOfWhole

\* Characters in bytes.
Written(points) == FlattenSeq([i \in DOMAIN points |-> BytesOf(points[i])])

\* No characters are written in no bytes.
LEMMA WrittenEmpty == Written(<< >>) = << >>
<1>1. [i \in DOMAIN << >> |-> BytesOf(<< >>[i])] = << >>
    OBVIOUS
<1>2. QED
    BY <1>1, FlattenEmpty DEF Written

\* A further character adds its bytes.
LEMMA WrittenAppend ==
    ASSUME NEW points \in Numbers, NEW point \in Nat
    PROVE  Written(Append(points, point)) = Written(points) \o BytesOf(point)
<1> DEFINE n == Len(points)
           q == Append(points, point)
           s == [i \in 1 .. n |-> BytesOf(points[i])]
           t == [i \in 1 .. n + 1 |-> BytesOf(q[i])]
<1>1. /\ n \in Nat /\ DOMAIN points = 1 .. n /\ DOMAIN q = 1 .. n + 1
      /\ q[n + 1] = point /\ \A i \in 1 .. n : q[i] = points[i] /\ points[i] \in Nat
    BY DEF Numbers
<1>2. \A p \in Nat : BytesOf(p) \in Numbers
    BY BytesType
<1>3. s \in Seq(Numbers)
    <2>1. s \in [1 .. n -> Numbers]
        BY <1>1, <1>2
    <2>2. QED
        BY <1>1, <2>1
<1>4. t = Append(s, BytesOf(point))
    <2> HIDE DEF q, n
    <2>1. Len(s) = n
        BY <1>1
    <2>2. QED
        BY <1>1, <2>1
<1>5. Written(q) = FlattenSeq(t) /\ Written(points) = FlattenSeq(s)
    <2> HIDE DEF q, n
    <2> QED
        BY <1>1, Zenon DEF Written
<1> HIDE DEF s, t, q
<1>6. BytesOf(point) \in Numbers
    BY <1>2
<1>7. QED
    BY <1>3, <1>4, <1>5, <1>6, Adds DEF q

\* What characters are written in is bytes.
LEMMA WrittenType ==
    ASSUME NEW points \in Numbers
    PROVE  Written(points) \in Numbers
<1> DEFINE T == {p \in Numbers : Written(p) \in Numbers}
<1>1. << >> \in T
    <2>1. << >> \in Numbers
        BY DEF Numbers
    <2>2. QED
        BY <2>1, WrittenEmpty
<1>2. ASSUME NEW p \in Seq(Nat), NEW x \in Nat, p \in T PROVE Append(p, x) \in T
    <2>1. p \in Numbers /\ Append(p, x) \in Numbers
        BY DEF Numbers
    <2>2. Written(p) \o BytesOf(x) \in Numbers
        BY <1>2, BytesType DEF Numbers
    <2>3. QED
        BY <2>1, <2>2, WrittenAppend
<1>3. Seq(Nat) \subseteq T
    <2> HIDE DEF T
    <2> QED
        BY <1>1, <1>2, SeqInduction
<1>4. QED
    BY <1>3 DEF Numbers

\* A further character makes a longer sequence of characters.
LEMMA CharactersAppend ==
    ASSUME NEW points \in Seq(Scalars), NEW x \in Scalars
    PROVE  /\ points \in Numbers /\ x \in Nat /\ Append(points, x) \in Seq(Scalars)
           /\ Append(points, x) \in Numbers
<1>1. points \in Numbers /\ x \in Nat
    BY ScalarsAreNumbers
<1>2. Append(points, x) \in Seq(Scalars)
    OBVIOUS
<1>3. QED
    BY <1>1, <1>2, ScalarsAreNumbers

\* Characters are decoded from the bytes they are written in.
LEMMA WrittenDecoded ==
    ASSUME NEW points \in Seq(Scalars)
    PROVE  Decoder(Written(points)) = Between(points)
<1> DEFINE T == {p \in Seq(Scalars) : Decoder(Written(p)) = Between(p)}
<1>1. << >> \in T
    BY WrittenEmpty, DecoderEmpty, ScalarsAreNumbers DEF Fresh
<1>2. ASSUME NEW p \in Seq(Scalars), NEW x \in Scalars, p \in T PROVE Append(p, x) \in T
    <2>1. p \in Numbers /\ x \in Nat /\ Append(p, x) \in Seq(Scalars)
        BY CharactersAppend
    <2>2. Written(p) \in Numbers /\ BytesOf(x) \in Numbers /\ Decoder(BytesOf(x)) = Between(<<x>>)
        BY <2>1, WrittenType, CharacterDecoded
    <2>3. Decoder(Written(p) \o BytesOf(x)) = Prefixed(p, Between(<<x>>))
        BY <1>2, <2>1, <2>2, DecoderConcat
    <2>4. Between(<<x>>) = Prefixed(<<x>>, Fresh)
        BY <2>1, PrefixedBetween, Single
    <2>5. Append(p, x) \in Numbers
        BY CharactersAppend
    <2>6. Prefixed(p, Between(<<x>>)) = Between(Append(p, x))
        BY <2>1, <2>4, <2>5, PrefixedTwice, PrefixedBetween, FreshType
    <2>7. QED
        BY <2>1, <2>3, <2>6, WrittenAppend
<1>3. Seq(Scalars) \subseteq T
    <2> HIDE DEF T
    <2> QED
        BY <1>1, <1>2, SeqInduction
<1>4. QED
    BY <1>3

\* What the code units of a text add, one after the other.
UnitParts(text) == [i \in 1 .. Len(text) |-> UnitBytes(text, i)]

\* A text is encoded unit by unit.
LEMMA PartsType ==
    ASSUME NEW text \in Numbers
    PROVE  /\ UnitParts(text) \in Seq(Numbers) /\ Len(UnitParts(text)) = Len(text)
           /\ EncodeUtf8(text) = FlattenSeq(UnitParts(text))
           /\ \A i \in 1 .. Len(text) : UnitParts(text)[i] = UnitBytes(text, i)
<1>1. Len(text) \in Nat /\ DOMAIN text = 1 .. Len(text)
    BY DEF Numbers
<1>2. UnitParts(text) \in [1 .. Len(text) -> Numbers]
    BY UnitBytesType DEF UnitParts
<1>3. EncodeUtf8(text) = FlattenSeq(UnitParts(text))
    BY <1>1, Zenon DEF EncodeUtf8, UnitParts
<1>4. \A i \in 1 .. Len(text) : UnitParts(text)[i] = UnitBytes(text, i)
    BY DEF UnitParts
<1>5. UnitParts(text) \in Seq(Numbers) /\ Len(UnitParts(text)) = Len(text)
    BY <1>1, <1>2
<1>6. QED
    BY <1>3, <1>4, <1>5

\* What follows a text does not change what its units add, unless it is the second half of a pair.
LEMMA PartsKept ==
    ASSUME NEW text \in Numbers, NEW longer \in Numbers, Len(longer) > Len(text),
           \A i \in 1 .. Len(text) : longer[i] = text[i],
           ~ IsLowSurrogate(longer[Len(text) + 1])
    PROVE  \A i \in 1 .. Len(text) : UnitBytes(longer, i) = UnitBytes(text, i)
<1> DEFINE n == Len(text)
<1>1. n \in Nat /\ Len(longer) \in Nat
    BY DEF Numbers
<1>2. ASSUME NEW i \in 0 .. n PROVE IsPair(longer, i) <=> IsPair(text, i)
    <2>1. CASE i < n
        <3>1. i \in 1 .. Len(longer) - 1 <=> i \in 1 .. n - 1
            BY <1>1, <2>1
        <3>2. i \in 1 .. n - 1 => longer[i] = text[i] /\ longer[i + 1] = text[i + 1]
            BY <1>1
        <3> HIDE DEF n
        <3>3. QED
            BY <3>1, <3>2 DEF IsPair, n
    <2>2. CASE i = n
        <3>1. ~ IsPair(text, i)
            BY <1>1, <2>2 DEF IsPair
        <3>2. ~ IsPair(longer, i)
            BY <2>2 DEF IsPair
        <3>3. QED
            BY <3>1, <3>2
    <2>3. QED
        BY <1>1, <2>1, <2>2
<1>3. ASSUME NEW i \in 1 .. n PROVE UnitBytes(longer, i) = UnitBytes(text, i)
    <2>1. i \in 0 .. n /\ i - 1 \in 0 .. n
        BY <1>1
    <2>2. (IsPair(longer, i) <=> IsPair(text, i)) /\ (IsPair(longer, i - 1) <=> IsPair(text, i - 1))
        BY <1>2, <2>1
    <2>3. longer[i] = text[i]
        OBVIOUS
    <2>4. PairPoint(longer, i) = PairPoint(text, i) \/ ~ IsPair(text, i)
        <3>1. ASSUME IsPair(text, i) PROVE longer[i + 1] = text[i + 1]
            BY <1>1, <3>1 DEF IsPair
        <3>2. QED
            BY <2>3, <3>1 DEF PairPoint
    <2>5. ~ (IsPair(text, i) /\ IsPair(text, i - 1))
        BY NoTwoPairs
    <2>6. QED
        BY <2>2, <2>3, <2>4, <2>5, UnitCases, Zenon
<1>4. QED
    BY <1>3

\* A character of one code unit.
LEMMA EncodeUnit ==
    ASSUME NEW text \in Numbers, NEW x \in Scalars, x < 65536
    PROVE  EncodeUtf8(Append(text, x)) = EncodeUtf8(text) \o BytesOf(x)
<1> DEFINE n == Len(text)
           longer == Append(text, x)
<1>1. x \in Nat /\ ~ IsHighSurrogate(x) /\ ~ IsLowSurrogate(x)
    BY DEF Scalars, IsScalar, IsHighSurrogate, IsLowSurrogate
<1>2. /\ n \in Nat /\ longer \in Numbers /\ Len(longer) = n + 1 /\ longer[n + 1] = x
      /\ \A i \in 1 .. n : longer[i] = text[i]
    BY <1>1 DEF Numbers
<1> HIDE DEF longer
<1>3. \A i \in 1 .. n : UnitBytes(longer, i) = UnitBytes(text, i)
    BY <1>1, <1>2, PartsKept
<1>4. UnitBytes(longer, n + 1) = BytesOf(x)
    <2>1. ~ IsPair(longer, n + 1)
        BY <1>2 DEF IsPair
    <2>2. ~ IsPair(longer, (n + 1) - 1)
        <3>1. (n + 1) - 1 + 1 = n + 1
            BY <1>2
        <3>2. QED
            BY <1>1, <1>2, <3>1 DEF IsPair
    <2>3. LonePoint(longer[n + 1]) = x
        BY <1>1, <1>2 DEF LonePoint
    <2> DEFINE k == n + 1
    <2>4. ~ IsPair(longer, k) /\ ~ IsPair(longer, k - 1)
        BY <2>1, <2>2
    <2> HIDE DEF k
    <2>5. UnitBytes(longer, k) = BytesOf(LonePoint(longer[k]))
        BY <2>4, UnitCases
    <2>6. QED
        BY <2>3, <2>5 DEF k
<1>5. UnitParts(longer) = Append(UnitParts(text), BytesOf(x))
    <2> DEFINE s == UnitParts(text)
               t == UnitParts(longer)
    <2>1. s \in Seq(Numbers) /\ t \in Seq(Numbers) /\ Len(s) = n /\ Len(t) = n + 1 /\ t[n + 1] = BytesOf(x)
        BY <1>2, <1>4, PartsType
    <2>2. \A i \in 1 .. n : t[i] = s[i]
        <3>1. ASSUME NEW i \in 1 .. n PROVE t[i] = s[i]
            <4>1. i \in 1 .. n + 1
                BY <1>2
            <4>2. t[i] = UnitBytes(longer, i) /\ s[i] = UnitBytes(text, i)
                BY <1>2, <4>1, PartsType
            <4>3. QED
                BY <1>3, <4>2
        <3>2. QED
            BY <3>1
    <2> HIDE DEF s, t, n
    <2>3. t = Append(s, BytesOf(x))
        BY <1>2, <2>1, <2>2
    <2>4. QED
        BY <2>3 DEF s, t
<1>6. BytesOf(x) \in Numbers
    BY <1>1, BytesType
<1>7. FlattenSeq(UnitParts(longer)) = FlattenSeq(UnitParts(text)) \o BytesOf(x)
    BY <1>5, <1>6, PartsType, Adds
<1>8. EncodeUtf8(longer) = FlattenSeq(UnitParts(longer)) /\ EncodeUtf8(text) = FlattenSeq(UnitParts(text))
    BY <1>2, PartsType
<1>9. QED
    BY <1>7, <1>8 DEF longer

-----------------------------------------------------------------------------
(* Text and surrogate pairs *)

\* A character of two code units.
High(x) == 55296 + (x - 65536) \div 1024
LowHalf(x) == 56320 + ((x - 65536) % 1024)

IsWide(x) == x >= 65536
Halves(x, h, l) == 65536 + (h - 55296) * 1024 + (l - 56320) = x

\* The surrogates that a wide character is cut into are a pair, and make that character.
LEMMA PairOf ==
    ASSUME NEW x \in Scalars, IsWide(x)
    PROVE  /\ UnitsOf(x) = <<High(x), LowHalf(x)>> /\ High(x) \in Nat /\ LowHalf(x) \in Nat
           /\ IsHighSurrogate(High(x)) /\ ~ IsLowSurrogate(High(x)) /\ IsLowSurrogate(LowHalf(x))
           /\ Halves(x, High(x), LowHalf(x))
<1>1. x \in Nat /\ x >= 65536 /\ x < 1114112
    BY SMT DEF Scalars, IsScalar, IsWide
<1>2. UnitsOf(x) = <<High(x), LowHalf(x)>>
    BY <1>1, SMT DEF UnitsOf, High, LowHalf
<1> DEFINE y == x - 65536
           a == y \div 1024
           b == y % 1024
<1>3. y \in Nat /\ y < 1048576 /\ x = 65536 + y
    BY <1>1, SMT
<1> HIDE DEF y
<1>4. a \in Nat /\ b \in Nat /\ b < 1024 /\ y = a * 1024 + b
    BY <1>3, SMT
<1>5. High(x) = 55296 + a /\ LowHalf(x) = 56320 + b
    BY SMT DEF High, LowHalf, y
<1> HIDE DEF a, b
<1>6. a < 1024
    BY <1>3, <1>4, SMT
<1>7. High(x) \in Nat /\ LowHalf(x) \in Nat
    BY <1>4, <1>5, SMT
<1>8. IsHighSurrogate(High(x)) /\ ~ IsLowSurrogate(High(x)) /\ IsLowSurrogate(LowHalf(x))
    BY <1>4, <1>5, <1>6, SMT DEF IsHighSurrogate, IsLowSurrogate
<1>9. Halves(x, High(x), LowHalf(x))
    BY <1>3, <1>4, <1>5, SMT DEF Halves
<1>10. QED
    BY <1>2, <1>7, <1>8, <1>9

\* A pair at the end of a text is encoded as the character it stands for.
LEMMA EncodePair ==
    ASSUME NEW text \in Numbers, NEW x \in Scalars, IsWide(x)
    PROVE  EncodeUtf8(text \o UnitsOf(x)) = EncodeUtf8(text) \o BytesOf(x)
<1> DEFINE n == Len(text)
           k == n + 1
           m == n + 2
           h == High(x)
           l == LowHalf(x)
           longer == Append(Append(text, h), l)
<1>1. h \in Nat /\ l \in Nat /\ IsHighSurrogate(h) /\ ~ IsLowSurrogate(h) /\ IsLowSurrogate(l)
    BY PairOf, Zenon
<1>2. UnitsOf(x) = <<h, l>> /\ x \in Nat
    BY PairOf, ScalarsAreNumbers, Zenon
<1>3. Halves(x, h, l)
    BY PairOf, Zenon
<1> HIDE DEF h, l
<1>4. text \o UnitsOf(x) = longer
    BY <1>1, <1>2 DEF Numbers
<1>5. /\ n \in Nat /\ longer \in Numbers /\ Len(longer) = m /\ longer[k] = h /\ longer[m] = l
      /\ \A i \in 1 .. n : longer[i] = text[i]
    BY <1>1 DEF Numbers
<1> HIDE DEF longer
<1>6. \A i \in 1 .. n : UnitBytes(longer, i) = UnitBytes(text, i)
    BY <1>1, <1>5, PartsKept
<1>7. k + 1 = m /\ k \in 1 .. m - 1 /\ m - 1 = k /\ k - 1 = n /\ m \in 1 .. m /\ k \in 1 .. m
    BY <1>5
<1>8. IsPair(longer, k) /\ PairPoint(longer, k) = x
    <2>1. IsPair(longer, k)
        BY <1>1, <1>5, <1>7 DEF IsPair
    <2>2. PairPoint(longer, k) = x
        BY <1>3, <1>5, <1>7, SMT DEF PairPoint, Halves
    <2>3. QED
        BY <2>1, <2>2
<1> HIDE DEF k, m, n
<1>9. UnitBytes(longer, k) = BytesOf(x)
    <2>1. ~ IsPair(longer, k - 1)
        BY <1>5, <1>7, <1>8, NoTwoPairs
    <2>2. QED
        BY <1>8, <2>1, UnitCases, Zenon
<1>10. UnitBytes(longer, m) = << >>
    <2>1. IsPair(longer, m - 1)
        BY <1>7, <1>8
    <2>2. ~ IsPair(longer, m)
        BY <1>5, <1>7, <2>1, NoTwoPairs
    <2>3. QED
        BY <2>1, <2>2, UnitCases, Zenon
<1>11. BytesOf(x) \in Numbers /\ << >> \in Numbers
    BY <1>2, BytesType DEF Numbers
<1> DEFINE s == UnitParts(text)
           t == UnitParts(longer)
           r == Append(s, BytesOf(x))
<1>12. /\ s \in Seq(Numbers) /\ t \in Seq(Numbers) /\ Len(s) = n /\ Len(t) = m
       /\ t[k] = BytesOf(x) /\ t[m] = << >>
    BY <1>5, <1>7, <1>9, <1>10, PartsType DEF n
<1>13. \A i \in 1 .. n : t[i] = s[i]
    <2>1. ASSUME NEW i \in 1 .. n PROVE t[i] = s[i]
        <3>1. i \in 1 .. m
            BY <1>5 DEF m
        <3>2. t[i] = UnitBytes(longer, i) /\ s[i] = UnitBytes(text, i)
            BY <1>5, <3>1, PartsType DEF n
        <3>3. QED
            BY <1>6, <3>2
    <2>2. QED
        BY <2>1
<1> HIDE DEF s, t
<1>14. t = Append(r, << >>) /\ r \in Seq(Numbers)
    BY <1>5, <1>11, <1>12, <1>13 DEF k, m
<1>15. FlattenSeq(r) = FlattenSeq(s) \o BytesOf(x)
    BY <1>11, <1>12, Adds
<1> HIDE DEF r
<1>16. FlattenSeq(t) = FlattenSeq(r) \o << >> /\ FlattenSeq(r) \in Numbers
    <2>1. FlattenSeq(t) = FlattenSeq(r) \o << >>
        BY <1>11, <1>14, Adds
    <2>2. FlattenSeq(r) \in Numbers
        BY <1>14, FlattenType DEF Numbers
    <2>3. QED
        BY <2>1, <2>2
<1>17. FlattenSeq(t) = FlattenSeq(r)
    BY <1>16, ConcatEmptySeq DEF Numbers
<1>18. EncodeUtf8(longer) = FlattenSeq(t) /\ EncodeUtf8(text) = FlattenSeq(s)
    BY <1>5, PartsType DEF s, t
<1>19. QED
    BY <1>4, <1>15, <1>17, <1>18

\* Encoding the text of characters gives the bytes they are written in.
LEMMA TextEncoded ==
    ASSUME NEW points \in Seq(Scalars)
    PROVE  EncodeUtf8(Text(points)) = Written(points)
<1> DEFINE T == {p \in Seq(Scalars) : EncodeUtf8(Text(p)) = Written(p)}
<1>1. << >> \in T
    <2>1. << >> \in Numbers
        BY DEF Numbers
    <2>2. UnitParts(<< >>) = << >>
        BY DEF UnitParts
    <2>3. EncodeUtf8(<< >>) = << >>
        BY <2>1, <2>2, PartsType, FlattenEmpty
    <2>4. QED
        BY <2>3, TextEmpty, WrittenEmpty
<1>2. ASSUME NEW p \in Seq(Scalars), NEW x \in Scalars, p \in T PROVE Append(p, x) \in T
    <2>1. p \in Numbers /\ x \in Nat /\ Append(p, x) \in Seq(Scalars)
        BY CharactersAppend
    <2>2. Text(p) \in Numbers
        BY <2>1, TextType
    <2>3. EncodeUtf8(Text(p) \o UnitsOf(x)) = EncodeUtf8(Text(p)) \o BytesOf(x)
        <3>1. CASE x < 65536
            <4>1. UnitsOf(x) = <<x>>
                BY <3>1 DEF UnitsOf
            <4>2. Text(p) \o UnitsOf(x) = Append(Text(p), x)
                BY <2>1, <2>2, <4>1 DEF Numbers
            <4>3. EncodeUtf8(Append(Text(p), x)) = EncodeUtf8(Text(p)) \o BytesOf(x)
                BY <2>2, <3>1, EncodeUnit, SMT
            <4>4. QED
                BY <4>2, <4>3, SMT
        <3>2. CASE IsWide(x)
            BY <2>2, <3>2, EncodePair
        <3>3. x < 65536 \/ IsWide(x)
            BY <2>1, SMT DEF IsWide
        <3>4. QED
            BY <3>1, <3>2, <3>3
    <2>4. QED
        BY <1>2, <2>1, <2>3, TextAppend, WrittenAppend
<1>3. Seq(Scalars) \subseteq T
    <2> HIDE DEF T
    <2> QED
        BY <1>1, <1>2, SeqInduction
<1>4. QED
    BY <1>3

\* Text that is characters is encoded to bytes that decode to it again (encodeUtf8 and
\* decodeUtf8 of utf8.qjs.ts): no character is lost between two programs.
THEOREM CharactersComeBack ==
    ASSUME NEW points \in Seq(Scalars)
    PROVE  DecodeUtf8(EncodeUtf8(Text(points))) = Text(points)
<1>1. EncodeUtf8(Text(points)) = Written(points) /\ points \in Numbers
    BY TextEncoded, ScalarsAreNumbers
<1>2. Decoder(Written(points)) = Between(points) /\ Written(points) \in Numbers
    BY <1>1, WrittenDecoded, WrittenType
<1>3. Between(points).needed = 0 /\ Between(points).points = points
    BY DEF Between
<1>4. QED
    BY <1>1, <1>2, <1>3, DecodeIsText

-----------------------------------------------------------------------------
(* Lines *)

\* A newline is a character of its own, never part of another one.
LEMMA NewlineByte ==
    ASSUME NEW x \in Scalars, NEW i \in 1 .. Len(BytesOf(x)), BytesOf(x)[i] = Newline
    PROVE  BytesOf(x) = <<Newline>> /\ x = Newline /\ i = 1
<1> DEFINE c1 == Continuation(x, 1)
           c2 == Continuation(x, 64)
           c3 == Continuation(x, 4096)
           a2 == 192 + x \div 64
           a3 == 224 + x \div 4096
           a4 == 240 + x \div 262144
           seq == BytesOf(x)
<1>1. x \in Nat
    BY ScalarsAreNumbers
<1>2. c1 > 127 /\ c2 > 127 /\ c3 > 127 /\ c1 \in Nat /\ c2 \in Nat /\ c3 \in Nat
    BY <1>1, SMT DEF Continuation
<1>3. a2 > 127 /\ a3 > 127 /\ a4 > 127 /\ a2 \in Nat /\ a3 \in Nat /\ a4 \in Nat
    BY <1>1, SMT
<1>4. \/ x < 128 /\ seq = <<x>>
      \/ seq = <<a2, c1>> \/ seq = <<a3, c2, c1>> \/ seq = <<a4, c3, c2, c1>>
    BY <1>1, BytesCases, SMT
<1> HIDE DEF a2, a3, a4, c1, c2, c3
<1>5. i \in 1 .. Len(seq) /\ seq[i] = Newline
    OBVIOUS
<1> HIDE DEF seq
<1>6. CASE seq = <<x>>
    <2>1. i = 1 /\ seq[i] = x
        BY <1>5, <1>6
    <2>2. QED
        BY <1>5, <1>6, <2>1 DEF seq
<1>7. seq # <<a2, c1>>
    BY <1>2, <1>3, <1>5, SMT DEF Newline
<1>8. seq # <<a3, c2, c1>>
    BY <1>2, <1>3, <1>5, SMT DEF Newline
<1>9. seq # <<a4, c3, c2, c1>>
    BY <1>2, <1>3, <1>5, SMT DEF Newline
<1>10. QED
    BY <1>4, <1>6, <1>7, <1>8, <1>9

\* A newline at j parts the characters before it from those after it.
Parted(points, j) ==
    \E f, s \in Seq(Scalars) :
        /\ Written(points) = Append(Written(f), Newline) \o Written(s)
        /\ Len(Written(f)) = j - 1

\* A newline among the bytes of characters is a character of its own.
LEMMA NewlineParts ==
    ASSUME NEW points \in Seq(Scalars), NEW j \in 1 .. Len(Written(points)), Written(points)[j] = Newline
    PROVE  Parted(points, j)
<1> DEFINE T == {p \in Seq(Scalars) : \A k \in 1 .. Len(Written(p)) : Written(p)[k] = Newline => Parted(p, k)}
<1>1. << >> \in T
    BY WrittenEmpty, ScalarsAreNumbers
<1>2. ASSUME NEW p \in Seq(Scalars), NEW x \in Scalars, p \in T PROVE Append(p, x) \in T
    <2> DEFINE q == Append(p, x)
               b == Written(p)
               c == BytesOf(x)
    <2>1. p \in Numbers /\ x \in Nat /\ q \in Seq(Scalars)
        BY CharactersAppend
    <2>2. b \in Numbers /\ c \in Numbers /\ Written(q) = b \o c
        BY <2>1, WrittenType, BytesType, WrittenAppend
    <2> HIDE DEF q
    <2>3. SUFFICES ASSUME NEW k \in 1 .. Len(Written(q)), Written(q)[k] = Newline PROVE Parted(q, k)
        BY <2>1 DEF q
    <2>4. CASE k <= Len(b)
        <3>1. k \in 1 .. Len(b) /\ b[k] = Newline
            BY <2>2, <2>3, <2>4 DEF Numbers
        <3>2. PICK f \in Seq(Scalars), s \in Seq(Scalars) :
                  b = Append(Written(f), Newline) \o Written(s) /\ Len(Written(f)) = k - 1
            BY <1>2, <3>1 DEF Parted
        <3>3. Written(f) \in Numbers /\ Written(s) \in Numbers /\ Newline \in Nat
            BY WrittenType, ScalarsAreNumbers DEF Newline
        <3>4. Append(Written(f), Newline) \in Numbers
            BY <3>3 DEF Numbers
        <3>5. b \o c = Append(Written(f), Newline) \o (Written(s) \o c)
            <4> DEFINE u == Append(Written(f), Newline)
                       w == Written(s)
            <4>1. b = u \o w /\ u \in Numbers /\ w \in Numbers
                BY <3>2, <3>3, <3>4
            <4> HIDE DEF u, w, b, c
            <4>2. u \o (w \o c) = (u \o w) \o c
                BY <2>2, <4>1, ConcatThree, Zenon
            <4>3. b \o c = u \o (w \o c)
                BY <4>1, <4>2
            <4>4. QED
                BY <4>3 DEF u, w
        <3>6. Written(s) \o c = Written(Append(s, x)) /\ Append(s, x) \in Seq(Scalars)
            BY CharactersAppend, WrittenAppend
        <3>7. QED
            BY <2>2, <3>2, <3>5, <3>6 DEF Parted
    <2>5. CASE k > Len(b)
        <3> DEFINE i == k - Len(b)
        <3>1. i \in 1 .. Len(c) /\ c[i] = Newline /\ Len(b) \in Nat
            BY <2>2, <2>3, <2>5 DEF Numbers
        <3>2. c = <<Newline>> /\ i = 1
            BY <3>1, NewlineByte
        <3>3. k - 1 = Len(b)
            BY <3>1, <3>2
        <3>4. b \o c = Append(b, Newline) /\ Append(b, Newline) \in Numbers
            BY <2>2, <3>2 DEF Numbers, Newline
        <3>5. Append(b, Newline) = Append(b, Newline) \o << >>
            BY <3>4, ConcatEmptySeq DEF Numbers
        <3>6. << >> \in Seq(Scalars)
            OBVIOUS
        <3>7. QED
            BY <2>2, <3>3, <3>4, <3>5, <3>6, WrittenEmpty DEF Parted
    <2>6. QED
        BY <2>2, <2>4, <2>5 DEF Numbers
<1>3. Seq(Scalars) \subseteq T
    <2> HIDE DEF T
    <2> QED
        BY <1>1, <1>2, SeqInduction
<1>4. QED
    BY <1>3

\* What is left of two sequences after the first one.
LEMMA Remainder ==
    ASSUME NEW u \in Numbers, NEW v \in Numbers
    PROVE  SubSeq(u \o v, Len(u) + 1, Len(u \o v)) = v
<1> DEFINE p == u \o v
           n == Len(u)
           m == Len(v)
           r == SubSeq(p, n + 1, Len(p))
<1>1. n \in Nat /\ m \in Nat /\ p \in Seq(Nat) /\ Len(p) = n + m /\ v \in Seq(Nat)
    BY DEF Numbers
<1>2. \A i \in 1 .. m : p[n + i] = v[i]
    BY DEF Numbers
<1> HIDE DEF p, n, m
<1>3. r \in Seq(Nat) /\ Len(r) = m
    BY <1>1
<1>4. \A i \in 1 .. m : r[i] = p[n + i]
    <2>1. ASSUME NEW i \in 1 .. m PROVE r[i] = p[n + i]
        <3>1. (n + 1) + i - 1 = n + i
            BY <1>1
        <3>2. r[i] = p[(n + 1) + i - 1]
            BY <1>1, <1>3
        <3>3. QED
            BY <3>1, <3>2
    <2>2. QED
        BY <2>1
<1> HIDE DEF r
<1>5. \A i \in 1 .. m : r[i] = v[i]
    BY <1>2, <1>4
<1>6. Len(v) = m
    BY DEF m
<1>7. r = v
    BY <1>1, <1>3, <1>5, <1>6
<1>8. QED
    BY <1>7 DEF r, p, n

\* The lines of characters are characters.
LEMMA LineWritten ==
    ASSUME NEW points \in Seq(Scalars), NEW line \in Lines(Written(points))
    PROVE  \E qs \in Seq(Scalars) : line = Written(qs)
<1> DEFINE text == Written(points)
           Bound(i) == i \in {0, Len(text) + 1} \/ text[i] = Newline
<1>1. PICK b \in (0 .. Len(text)) \X (2 .. Len(text) + 1) :
          /\ b[1] + 1 < b[2] /\ Bound(b[1]) /\ Bound(b[2])
          /\ line = SubSeq(text, b[1] + 1, b[2] - 1)
    BY Zenon DEF Lines
<1> DEFINE from == b[1]
           to == b[2]
<1>2. text \in Numbers
    BY ScalarsAreNumbers, WrittenType
<1> HIDE DEF text
<1>3. Len(text) \in Nat
    BY <1>2 DEF Numbers
<1>4. from \in 0 .. Len(text) /\ to \in 2 .. Len(text) + 1 /\ from + 1 < to /\ line = SubSeq(text, from + 1, to - 1)
    BY <1>1
<1>5. Bound(from) /\ Bound(to)
    BY <1>1
<1> HIDE DEF from, to
<1>6. \E f \in Seq(Scalars) : SubSeq(text, 1, to - 1) = Written(f)
    <2>1. CASE to = Len(text) + 1
        <3>1. SubSeq(text, 1, to - 1) = text
            BY <1>2, <1>3, <2>1 DEF Numbers
        <3>2. QED
            BY <3>1 DEF text
    <2>2. CASE to # Len(text) + 1
        <3>1. to \in 1 .. Len(text) /\ text[to] = Newline
            BY <1>3, <1>4, <1>5, <2>2
        <3>2. Parted(points, to)
            BY <3>1, NewlineParts DEF text
        <3>3. PICK f \in Seq(Scalars), s \in Seq(Scalars) :
                  text = Append(Written(f), Newline) \o Written(s) /\ Len(Written(f)) = to - 1
            BY <3>2 DEF Parted, text
        <3> DEFINE w == Written(f)
                   v == Written(s)
        <3>4. w \in Numbers /\ v \in Numbers
            BY ScalarsAreNumbers, WrittenType
        <3>5. text = Append(w, Newline) \o v /\ Len(w) = to - 1
            BY <3>3
        <3> HIDE DEF w, v
        <3>6. SubSeq(text, 1, to - 1) = w
            BY <3>4, <3>5 DEF Numbers, Newline
        <3>7. QED
            BY <3>6 DEF w
    <2>3. QED
        BY <2>1, <2>2
<1>7. PICK f \in Seq(Scalars) : SubSeq(text, 1, to - 1) = Written(f)
    BY <1>6
<1> DEFINE p == Written(f)
<1>8. p \in Numbers /\ Len(p) = to - 1 /\ \A i \in 1 .. to - 1 : p[i] = text[i]
    <2> DEFINE r == SubSeq(text, 1, to - 1)
    <2>1. 1 \in 1 .. Len(text) /\ to - 1 \in 1 .. Len(text)
        BY <1>3, <1>4
    <2>2. r \in Numbers /\ Len(r) = to - 1 /\ \A i \in 1 .. to - 1 : r[i] = text[i]
        BY <1>2, <1>3, <2>1 DEF Numbers
    <2>3. p = r
        BY <1>7
    <2> HIDE DEF p, r
    <2>4. QED
        BY <2>2, <2>3
<1>9. line = SubSeq(p, from + 1, to - 1)
    <2> HIDE DEF p
    <2>1. \A i \in from + 1 .. to - 1 : p[i] = text[i]
        BY <1>3, <1>4, <1>8
    <2>2. QED
        BY <1>2, <1>3, <1>4, <1>8, <2>1 DEF Numbers
<1>10. CASE from = 0
    <2>1. line = p
        <3> HIDE DEF p
        <3> QED
            BY <1>4, <1>8, <1>9, <1>10 DEF Numbers
    <2>2. QED
        BY <2>1
<1>11. CASE from # 0
    <2>1. from \in 1 .. Len(p) /\ p[from] = Newline
        <3> HIDE DEF p
        <3> QED
            BY <1>3, <1>4, <1>5, <1>8, <1>11
    <2>2. Parted(f, from)
        BY <2>1, NewlineParts
    <2>3. PICK g \in Seq(Scalars), h \in Seq(Scalars) :
              p = Append(Written(g), Newline) \o Written(h) /\ Len(Written(g)) = from - 1
        BY <2>2 DEF Parted
    <2> DEFINE w == Written(g)
               v == Written(h)
    <2>4. w \in Numbers /\ v \in Numbers
        BY ScalarsAreNumbers, WrittenType
    <2>5. p = Append(w, Newline) \o v /\ Len(w) = from - 1
        BY <2>3
    <2> HIDE DEF w, v, p
    <2>6. line = v
        <3> DEFINE u == Append(w, Newline)
        <3>1. u \in Numbers /\ Len(u) = from /\ from \in Nat /\ to \in Nat
            BY <1>4, <2>4, <2>5 DEF Numbers, Newline
        <3>2. p = u \o v
            BY <2>5
        <3> HIDE DEF u
        <3>3. SubSeq(p, Len(u) + 1, Len(p)) = v
            BY <2>4, <3>1, <3>2, Remainder
        <3>4. QED
            BY <1>8, <1>9, <3>1, <3>3
    <2>7. QED
        BY <2>6 DEF v
<1>12. QED
    BY <1>10, <1>11

\* A line of a text can be passed on as text: it comes back as the same bytes.
LEMMA LineComesBack ==
    ASSUME NEW text \in Numbers, IsText(text), NEW line \in Lines(text)
    PROVE  EncodeUtf8(DecodeUtf8(Append(line, Newline))) = Append(line, Newline)
<1>1. PICK points \in Seq(Scalars) : DecodeUtf8(text) = Text(points)
    BY DecodedCharacters
<1>2. text = Written(points)
    BY <1>1, TextEncoded DEF IsText
<1>3. PICK qs \in Seq(Scalars) : line = Written(qs)
    BY <1>2, LineWritten
<1> DEFINE rs == Append(qs, Newline)
           b == Append(line, Newline)
<1>4. Newline \in Scalars /\ Newline \in Nat /\ qs \in Numbers
    BY ScalarsAreNumbers DEF Newline
<1>5. rs \in Seq(Scalars) /\ rs \in Numbers
    BY <1>4, CharactersAppend
<1>6. Written(rs) = b
    <2>1. BytesOf(Newline) = <<Newline>>
        <3>1. Newline < 128
            BY DEF Newline
        <3>2. QED
            BY <1>4, <3>1, BytesCases
    <2>2. Written(rs) = line \o <<Newline>>
        BY <1>3, <1>4, <2>1, WrittenAppend
    <2>3. line \in Seq(Nat)
        BY <1>3, <1>4, WrittenType DEF Numbers
    <2>4. line \o <<Newline>> = Append(line, Newline)
        BY <1>4, <2>3
    <2>5. QED
        BY <2>2, <2>4
<1> HIDE DEF rs, b
<1>7. Decoder(b) = Between(rs) /\ b \in Numbers
    BY <1>5, <1>6, WrittenDecoded, WrittenType
<1>8. DecodeUtf8(b) = Text(rs)
    BY <1>7, DecodeIsText DEF Between
<1>9. EncodeUtf8(Text(rs)) = Written(rs)
    BY <1>5, TextEncoded
<1>10. QED
    BY <1>6, <1>8, <1>9 DEF b

\* A newline at the end is a newline at the end of the text.
LEMMA LineDecoded ==
    ASSUME NEW bytes \in Numbers
    PROVE  DecodeUtf8(Append(bytes, Newline)) = Append(DecodeUtf8(bytes), Newline)
<1> DEFINE d == Decoder(bytes)
           e == Push(d, REPLACEMENT)
           longer == Append(bytes, Newline)
<1>1. /\ d \in DecoderState /\ d.points \in Numbers /\ d.needed \in 0 .. 3
      /\ d.lower \in Nat /\ d.upper \in Nat
    BY DecoderType DEF DecoderState
<1>2. longer \in Numbers /\ Decoder(longer) = NextByte(d, Newline) /\ Newline \in Nat /\ Newline < 128
    BY DecoderAppend DEF Numbers, Newline
<1>3. e \in DecoderState /\ e.points = Append(d.points, REPLACEMENT) /\ REPLACEMENT \in Nat
    <2>1. REPLACEMENT \in Nat
        BY DEF REPLACEMENT
    <2>2. e.points = Append(d.points, REPLACEMENT)
        BY DEF Push, Between
    <2>3. QED
        BY <1>1, <2>1, <2>2, PushType
<1>4. UnitsOf(Newline) = <<Newline>>
    BY DEF UnitsOf, Newline
<1>5. ASSUME NEW p \in Numbers PROVE Text(Append(p, Newline)) = Append(Text(p), Newline)
    <2>1. Text(Append(p, Newline)) = Text(p) \o <<Newline>>
        BY <1>2, <1>4, TextAppend
    <2>2. Text(p) \in Seq(Nat)
        BY TextType DEF Numbers
    <2>3. Text(p) \o <<Newline>> = Append(Text(p), Newline)
        BY <1>2, <2>2
    <2>4. QED
        BY <2>1, <2>3
<1>6. ASSUME NEW c \in DecoderState PROVE
          Lead(c, Newline).needed = 0 /\ Lead(c, Newline).points = Append(c.points, Newline)
    <2>1. Lead(c, Newline) = Push(c, Newline)
        BY <1>2, LeadCases
    <2>2. QED
        BY <2>1 DEF Push, Between
<1> HIDE DEF d, e, longer
<1>7. CASE d.needed = 0
    <2>1. Decoder(longer) = Lead(d, Newline)
        BY <1>1, <1>2, <1>7, NextByteCases
    <2>2. DecodeUtf8(longer) = Text(Append(d.points, Newline))
        BY <1>1, <1>2, <1>6, <2>1, DecodeIsText
    <2>3. DecodeUtf8(bytes) = Text(d.points)
        BY <1>7, DecodeIsText DEF d
    <2>4. QED
        BY <1>1, <1>5, <2>2, <2>3 DEF longer
<1>8. CASE d.needed # 0
    <2>1. Newline \notin d.lower .. d.upper
        <3>1. 128 <= d.lower
            BY <1>8, DecoderSafe DEF Safe, d
        <3>2. QED
            BY <1>1, <1>2, <3>1
    <2>2. Decoder(longer) = Lead(e, Newline)
        BY <1>1, <1>2, <1>8, <2>1, NextByteCases DEF e
    <2>3. DecodeUtf8(longer) = Text(Append(e.points, Newline))
        BY <1>2, <1>3, <1>6, <2>2, DecodeIsText
    <2>4. DecodeUtf8(bytes) = Text(e.points)
        BY <1>3, <1>8, DecodeIsText DEF d
    <2>5. e.points \in Numbers
        BY <1>3 DEF DecoderState
    <2>6. QED
        BY <1>5, <2>3, <2>4, <2>5 DEF longer
<1>9. QED
    BY <1>7, <1>8

-----------------------------------------------------------------------------
(* What the programs are given and do *)

\* Which programs run for which helper.
NamesKnown ==
    /\ helper.script = "none" => helper.stage = 1 /\ Final = 0
    /\ helper.script = "clipboard" /\ helper.stage = 1 =>
          Final = 2 /\ commands[1].name = "list" /\ commands[2].name = "picker"
    /\ helper.script = "clipboard" /\ helper.stage = 2 =>
          Final = 2 /\ commands[1].name = "decode" /\ commands[2].name = "copy"
    /\ helper.script = "panel" /\ helper.stage = 1 => Final = 1 /\ commands[1].name = "picker"
    /\ helper.script = "panel" /\ helper.stage = 2 => Final = 1 /\ commands[1].name = "run"
    /\ helper.script = "region" /\ helper.stage = 1 => Final = 1 /\ commands[1].name = "slurp"
    /\ helper.script = "region" /\ helper.stage = 2 =>
          Final = 2 /\ commands[1].name = "grim" /\ commands[2].name = "swappy"
    /\ helper.script = "screenshot" /\ helper.stage = 1 => Final = 1 /\ commands[1].name = "save"
    /\ helper.script = "screenshot" /\ helper.stage = 2 => Final = 1 /\ commands[1].name = "copy"

\* What the programs are given, and what is connected to what.
GivenKnown ==
    /\ Final = 2 => commands[1].piped /\ commands[2].given = << >>
    /\ helper.stage = 1 /\ helper.script \in {"clipboard", "panel"} => commands[Final].piped
    /\ \A i \in 1 .. Final : commands[i].name \in {"picker", "decode"} => commands[i].given = << >>
\* A program has the name of its command, and its output open until it ends.
ChildrenKnown ==
    \A i \in DOMAIN children :
        /\ children[i].name = commands[i].name
        /\ children[i].phase # "ended" /\ commands[i].piped => <<i, i, "write">> \in ends

\* A helper that has not failed keeps the input open until all of it is written.
Alive == helper.at # "off" \/ helper.exit = 0
InputOpen ==
    Alive => input = << >> \/ (helper.at \in {"exec", "write"} /\ <<0, 0, "write">> \in ends)

\* What the first program is given, and the second one reads.
FirstIn == IF children = << >> THEN commands[1].given ELSE children[1].in
SecondIn == IF Len(children) = 2 THEN children[2].in ELSE << >>
\* What the first program of the second pipeline has read, what is in its pipe and what the
\* helper has yet to write are together what was picked; or it is given it.
Fed ==
    helper.stage = 2 =>
        /\ helper.script = "clipboard" => (FirstIn \o pipes[0]) \o input = Append(picked, Newline)
        /\ helper.script \in {"panel", "screenshot"} => pipes[0] = << >> /\ input = << >>
        /\ helper.script = "panel" => FirstIn = DecodeUtf8(picked)
        /\ helper.script = "screenshot" => FirstIn = Image
\* What one program has written, the next has read or will.
Link == Final = 2 => SecondIn \o pipes[1] = SentBy(1)

\* A program that has succeeded, or goes on after its input.
Succeeded(child) == child.phase = "ended" /\ child.status = 0
Past(child) == child.phase \in {"asking", "writing"} \/ Succeeded(child)

\* A picker has a text, and its answer is one of its lines.
HonestPicker(child) ==
    child.name = "picker" /\ Past(child) =>
        /\ IsText(child.in)
        /\ child.phase # "asking" => picked \in Lines(child.in) /\ child.out = Append(picked, Newline)
\* grim writes the image.
HonestGrim(child) ==
    child.name = "grim" => child.out = Image /\ child.phase \notin {"reading", "asking"}
\* cliphist writes the bytes of an entry that was picked.
HonestDecode(child) ==
    child.name = "decode" /\ Past(child) /\ Alive => child.out \in {entry.bytes : entry \in Named(picked)}
\* A program that succeeds has written all it had to say, and one that has read to the end
\* of its input finds it complete.
Honest(i) ==
    LET child == children[i]
    IN  /\ Succeeded(child) => child.sent = Len(child.out)
        /\ HonestPicker(child) /\ HonestGrim(child) /\ HonestDecode(child)
        /\ i = 2 /\ child.name \in {"copy", "swappy"} /\ Past(child) =>
              children[1].phase = "ended" /\ pipes[1] = << >>
AllHonest == \A i \in DOMAIN children : Honest(i)

\* What the last program has been given is in effect once it has succeeded, and not before.
Acted ==
    /\ helper.stage = 1 => effect = Nothing
    /\ helper.stage = 2 /\ Len(children) = Final /\ Succeeded(children[Final]) =>
          effect = children[Final].in

\* A helper that reports success after its second pipeline has seen every program succeed.
Done ==
    helper.at = "off" /\ helper.exit = 0 /\ helper.stage = 2 =>
        Len(children) = Final /\ \A i \in DOMAIN children : Succeeded(children[i])

\* The inductive invariant: none of its parts is inductive without the others.
CleanInv ==
    /\ FlowInv /\ NamesKnown /\ GivenKnown /\ ChildrenKnown /\ InputOpen /\ Fed /\ Link
    /\ AllHonest /\ Acted /\ Done

\* A program's step changes only what the step says: its own record, and the ends it had.
ChildSteps(i, c) ==
    /\ children[i].phase # "ended" /\ c \in ChildType /\ c.name = children[i].name
    /\ Becomes(i, c) /\ ends' \subseteq ends
    /\ \A end \in ends : end \in ends' \/ end[1] = i
    /\ c.phase # "ended" => ends' = ends
    /\ picked' = picked \/ children[i].name \in {"picker", "slurp"}
    /\ effect' = IF Succeeded(c) /\ c.name \in {"copy", "swappy", "run"} THEN c.in ELSE effect
    /\ pipes' \in [0 .. 2 -> Numbers]

\* What a step of a program leaves alone.
LEMMA ChildStepFacts ==
    ASSUME FlowInv, NEW i \in DOMAIN children, NEW c, ChildSteps(i, c)
    PROVE  /\ i \in 1 .. 2 /\ Final \in 1 .. 2 /\ Final' = Final /\ i \in 1 .. Len(children)
           /\ Len(children) \in 1 .. Final
           /\ UNCHANGED <<helper, commands, input, got, output>> /\ (Alive' <=> Alive)
           /\ children \in Seq(ChildType) /\ DOMAIN children = 1 .. Len(children)
           /\ children' \in Seq(ChildType) /\ DOMAIN children' = 1 .. Len(children)
           /\ Len(children') = Len(children) /\ children'[i] = c
           /\ \A k \in 1 .. Len(children) : k # i => children'[k] = children[k]
           /\ helper \in HelperType
<1>1. /\ Final \in 0 .. 2 /\ Len(children) \in 0 .. Final
      /\ DOMAIN children = 1 .. Len(children) /\ children \in Seq(ChildType)
      /\ i \in 1 .. Len(children) /\ helper \in HelperType
    BY Basics DEF FlowInv, HelpersType
<1>2. /\ children' = [children EXCEPT ![i] = c] /\ c \in ChildType
      /\ UNCHANGED <<helper, commands, input, got, output>>
    BY DEF ChildSteps, Becomes
<1>3. Final' = Final /\ (Alive' <=> Alive)
    BY <1>2 DEF Final, Alive
<1>4. /\ children' \in Seq(ChildType) /\ Len(children') = Len(children)
      /\ DOMAIN children' = 1 .. Len(children)
      /\ children'[i] = c /\ \A k \in 1 .. Len(children) : k # i => children'[k] = children[k]
    BY <1>1, <1>2, ChildReplaced
<1>5. i \in 1 .. 2 /\ Final \in 1 .. 2 /\ Len(children) \in 1 .. Final
    BY <1>1
<1>6. QED
    BY <1>1, <1>2, <1>3, <1>4, <1>5

\* Which programs there are.
LEMMA NamesHere ==
    ASSUME FlowInv, NamesKnown, ChildrenKnown, NEW i \in DOMAIN children
    PROVE  /\ i \in 1 .. Final /\ children[i].name = commands[i].name
           /\ helper.stage = 1 => children[i].name \in {"list", "picker", "slurp", "save"}
           /\ helper.stage = 2 => children[i].name \in {"decode", "copy", "run", "grim", "swappy"}
           /\ helper.stage = 2 /\ i = Final => children[i].name \in {"copy", "swappy", "run"}
           /\ helper.stage = 2 /\ i # Final => children[i].name \notin {"copy", "swappy", "run"}
           /\ children[i].name = "picker" => \A k \in DOMAIN children : k # i => children[k].name = "list"
           /\ children[i].name = "decode" => helper.script = "clipboard" /\ helper.stage = 2 /\ i = 1
           /\ children[i].name = "grim" => i = 1
           /\ helper.stage \in {1, 2} /\ Final \in 1 .. 2
<1>1. /\ i \in 1 .. Final /\ Final \in 1 .. 2 /\ children[i].name = commands[i].name
      /\ \A k \in DOMAIN children : k \in 1 .. Final /\ children[k].name = commands[k].name
    BY ChildFacts DEF ChildrenKnown
<1>2. helper.script \in {"none", "clipboard", "panel", "region", "screenshot"} /\ helper.stage \in {1, 2}
    BY DEF FlowInv, HelpersType, HelperType
<1>3. i = 1 \/ i = 2
    BY <1>1
<1>4. helper.script # "none"
    BY <1>1 DEF NamesKnown
<1>5. CASE helper.script = "clipboard" /\ helper.stage = 1
    BY <1>1, <1>3, <1>5 DEF NamesKnown
<1>6. CASE helper.script = "clipboard" /\ helper.stage = 2
    BY <1>1, <1>3, <1>6 DEF NamesKnown
<1>7. CASE helper.script = "panel"
    BY <1>1, <1>2, <1>3, <1>7 DEF NamesKnown
<1>8. CASE helper.script = "region" /\ helper.stage = 1
    BY <1>1, <1>3, <1>8 DEF NamesKnown
<1>9. CASE helper.script = "region" /\ helper.stage = 2
    BY <1>1, <1>3, <1>9 DEF NamesKnown
<1>10. CASE helper.script = "screenshot"
    BY <1>1, <1>2, <1>3, <1>10 DEF NamesKnown
<1>11. QED
    BY <1>2, <1>4, <1>5, <1>6, <1>7, <1>8, <1>9, <1>10

\* What a step of a program preserves as long as its input and the pipes are right, and it
\* is honest itself.
LEMMA ChildClean ==
    ASSUME CleanInv, FlowInv', NEW i \in DOMAIN children, NEW c, ChildSteps(i, c),
           Fed', Link', Honest(i)'
    PROVE  CleanInv'
<1>1. FlowInv /\ NamesKnown /\ GivenKnown /\ ChildrenKnown /\ InputOpen /\ AllHonest /\ Acted /\ Done
    BY DEF CleanInv
<1>2. /\ i \in 1 .. 2 /\ Final \in 1 .. 2 /\ Final' = Final /\ i \in 1 .. Len(children)
      /\ UNCHANGED <<helper, commands, input, got, output>> /\ (Alive' <=> Alive)
      /\ DOMAIN children = 1 .. Len(children) /\ DOMAIN children' = 1 .. Len(children)
      /\ Len(children') = Len(children) /\ children'[i] = c
      /\ \A k \in 1 .. Len(children) : k # i => children'[k] = children[k]
      /\ Len(children) \in 1 .. Final
    BY <1>1, ChildStepFacts
<1>3. /\ children[i].phase # "ended" /\ c.name = children[i].name
      /\ ends' \subseteq ends /\ \A end \in ends : end \in ends' \/ end[1] = i
      /\ c.phase # "ended" => ends' = ends
    BY DEF ChildSteps
<1>4. NamesKnown' /\ GivenKnown'
    BY <1>1, <1>2 DEF NamesKnown, GivenKnown
<1>5. ChildrenKnown'
    <2> SUFFICES ASSUME NEW k \in 1 .. Len(children)
                 PROVE  /\ children'[k].name = commands[k].name
                        /\ children'[k].phase # "ended" /\ commands[k].piped => <<k, k, "write">> \in ends'
        BY <1>2 DEF ChildrenKnown
    <2>1. CASE k = i
        BY <1>1, <1>2, <1>3, <2>1 DEF ChildrenKnown
    <2>2. CASE k # i
        BY <1>1, <1>2, <1>3, <2>2 DEF ChildrenKnown
    <2>3. QED
        BY <2>1, <2>2
<1>6. InputOpen'
    BY <1>1, <1>2, <1>3 DEF InputOpen
<1>7. AllHonest'
    <2> SUFFICES ASSUME NEW k \in 1 .. Len(children), k # i PROVE Honest(k)'
        BY <1>2 DEF AllHonest
    <2>1. Honest(k)
        BY <1>1, <1>2 DEF AllHonest
    <2>2. children'[k] = children[k]
        BY <1>2
    <2>3. children[k].name \in {"picker", "decode"} => picked' = picked
        <3>1. children[i].name \notin {"picker", "slurp"} \/ children[k].name \notin {"picker", "decode"}
            <4>1. CASE children[k].name = "picker"
                BY <1>1, <1>2, <4>1, NamesHere
            <4>2. CASE children[k].name = "decode"
                BY <1>1, <1>2, <4>2, NamesHere
            <4>3. QED
                BY <4>1, <4>2
        <3>2. QED
            BY <3>1 DEF ChildSteps
    <2>4. k = 2 => i = 1
        BY <1>2
    <2>5. ~ (k = 2 /\ children[k].name \in {"copy", "swappy"} /\ Past(children[k]))
        BY <1>3, <2>1, <2>4 DEF Honest
    <2>6. HonestPicker(children[k])' /\ HonestDecode(children[k])'
        BY <1>2, <2>1, <2>2, <2>3 DEF Honest, HonestPicker, HonestDecode, Past, Succeeded
    <2>7. QED
        BY <2>1, <2>2, <2>5, <2>6 DEF Honest, HonestGrim, Past, Succeeded
<1>8. Acted'
    <2>1. helper.stage = 1 => effect' = Nothing
        <3>1. helper.stage = 1 => effect' = effect
            BY <1>1, <1>3, NamesHere DEF ChildSteps
        <3>2. QED
            BY <1>1, <3>1 DEF Acted
    <2>2. ASSUME helper.stage = 2, Len(children) = Final, Succeeded(children'[Final])
          PROVE  effect' = children'[Final].in
        <3>1. CASE i = Final
            <4>1. c.name \in {"copy", "swappy", "run"} /\ children'[Final] = c
                BY <1>1, <1>2, <1>3, <2>2, <3>1, NamesHere
            <4>2. QED
                BY <2>2, <4>1 DEF ChildSteps
        <3>2. CASE i # Final
            <4>1. children'[Final] = children[Final] /\ Succeeded(children[Final])
                BY <1>2, <2>2, <3>2
            <4>2. effect' = effect
                BY <1>1, <1>3, <2>2, <3>2, NamesHere DEF ChildSteps
            <4>3. QED
                BY <1>1, <2>2, <4>1, <4>2 DEF Acted
        <3>3. QED
            BY <3>1, <3>2
    <2>3. QED
        BY <1>2, <2>1, <2>2 DEF Acted
<1>9. Done'
    <2>1. ~ (helper.at = "off" /\ helper.exit = 0 /\ helper.stage = 2)
        BY <1>1, <1>3 DEF Done, Succeeded
    <2>2. QED
        BY <1>2, <2>1 DEF Done
<1>10. QED
    BY <1>4, <1>5, <1>6, <1>7, <1>8, <1>9 DEF CleanInv

-----------------------------------------------------------------------------
(* A program ends *)

\* A program that does not read leaves alone what has been read.
LEMMA InKept ==
    ASSUME FlowInv, NEW i \in DOMAIN children, NEW c, ChildSteps(i, c), c.in = children[i].in
    PROVE  FirstIn' = FirstIn /\ SecondIn' = SecondIn
<1>1. /\ commands' = commands /\ Len(children) \in 1 .. Final /\ Final \in 1 .. 2
      /\ Len(children') = Len(children) /\ children'[i] = c
      /\ \A k \in 1 .. Len(children) : k # i => children'[k] = children[k]
      /\ children \in Seq(ChildType) /\ children' \in Seq(ChildType)
    BY ChildStepFacts
<1>2. children # << >> /\ children' # << >>
    BY <1>1
<1>3. \A k \in 1 .. Len(children) : children'[k].in = children[k].in
    BY <1>1
<1>4. QED
    BY <1>1, <1>2, <1>3 DEF FirstIn, SecondIn

\* What the user picks is picked before it is used.
LEMMA PickedKept ==
    ASSUME CleanInv, NEW i \in DOMAIN children, NEW c, ChildSteps(i, c), helper.stage = 2
    PROVE  picked' = picked
<1>1. children[i].name \in {"decode", "copy", "run", "grim", "swappy"}
    BY NamesHere DEF CleanInv
<1>2. QED
    BY <1>1 DEF ChildSteps

\* So it leaves alone what the first program is fed, unless it takes from its pipe.
LEMMA FedKept ==
    ASSUME CleanInv, NEW i \in DOMAIN children, NEW c, ChildSteps(i, c), c.in = children[i].in,
           pipes'[0] = pipes[0]
    PROVE  Fed'
<1>1. FlowInv /\ Fed
    BY DEF CleanInv
<1>2. UNCHANGED <<helper, input, FirstIn>>
    BY <1>1, InKept, ChildStepFacts
<1>3. helper.stage = 2 => picked' = picked
    BY PickedKept
<1>4. QED
    BY <1>1, <1>2, <1>3 DEF Fed

\* And what connects two programs, unless it writes.
LEMMA LinkKept ==
    ASSUME CleanInv, NEW i \in DOMAIN children, NEW c, ChildSteps(i, c), c.in = children[i].in,
           SentOf(c) = SentOf(children[i]), pipes'[1] = pipes[1]
    PROVE  Link'
<1>1. FlowInv /\ Link
    BY DEF CleanInv
<1>2. SecondIn' = SecondIn
    BY <1>1, InKept
<1>3. SentBy(1)' = SentBy(1) /\ Final' = Final
    BY <1>1, ChildStepFacts DEF SentBy
<1>4. QED
    BY <1>1, <1>2, <1>3 DEF Link

\* A program that ends without success.
LEMMA FailsClean ==
    ASSUME CleanInv, FlowInv', NEW i \in DOMAIN children, NEW status \in Nat \ {0}, Exits(i, status),
           children[i].phase # "ended", UNCHANGED <<pipes, picked, effect>>
    PROVE  CleanInv'
<1> DEFINE child == children[i]
           d == [child EXCEPT !.phase = "ended", !.status = status]
<1>1. FlowInv /\ AllHonest
    BY DEF CleanInv
<1>2. child \in ChildType /\ Becomes(i, d) /\ ends' = Without(i) /\ pipes \in [0 .. 2 -> Numbers]
    BY <1>1, ChildFacts, Zenon DEF Exits
<1> HIDE DEF child
<1>3. PICK c : c = d
    OBVIOUS
<1>4. /\ c \in ChildType /\ c.name = child.name /\ c.in = child.in /\ c.out = child.out /\ c.sent = child.sent
      /\ c.phase = "ended" /\ c.status = status /\ ~ Succeeded(c) /\ ~ Past(c)
    BY <1>3, <1>2 DEF ChildType, Succeeded, Past
<1> HIDE DEF d
<1>5. ChildSteps(i, c)
    BY <1>3, <1>2, <1>4 DEF ChildSteps, Without, child
<1>6. SentOf(c) = SentOf(child)
    BY <1>4 DEF SentOf
<1>7. Fed' /\ Link'
    BY <1>4, <1>5, <1>6, FedKept, LinkKept DEF child
<1>8. Honest(i)'
    <2>1. children'[i] = c
        BY <1>1, <1>5, ChildStepFacts
    <2>2. HonestGrim(child)
        BY <1>1 DEF AllHonest, Honest, child
    <2>3. HonestGrim(c)'
        BY <1>4, <2>2 DEF HonestGrim
    <2>4. ~ Succeeded(c) /\ ~ Past(c)
        BY <1>4 DEF Succeeded, Past
    <2>5. QED
        BY <2>1, <2>3, <2>4 DEF Honest, HonestPicker, HonestGrim, HonestDecode
<1>9. QED
    BY <1>5, <1>7, <1>8, ChildClean

\* The user picks nothing.
LEMMA DismissClean ==
    ASSUME CleanInv, FlowInv', NEW i \in DOMAIN children, Dismiss(i)
    PROVE  CleanInv'
<1>1. 1 \in Nat \ {0}
    OBVIOUS
<1>2. QED
    BY <1>1, FailsClean DEF Dismiss

\* Nobody reads what the program writes.
LEMMA BreaksClean ==
    ASSUME CleanInv, FlowInv', NEW i \in DOMAIN children, Breaks(i)
    PROVE  CleanInv'
<1>1. 141 \in Nat \ {0}
    OBVIOUS
<1>2. QED
    BY <1>1, FailsClean DEF Breaks

\* The program dies.
LEMMA DiesClean ==
    ASSUME CleanInv, FlowInv', NEW i \in DOMAIN children, Dies(i)
    PROVE  CleanInv'
<1>1. 127 \in Nat \ {0}
    OBVIOUS
<1>2. QED
    BY <1>1, FailsClean DEF Dies

\* A program that has written everything and ends.
LEMMA SucceedsClean ==
    ASSUME CleanInv, FlowInv', NEW i \in DOMAIN children, Succeeds(i)
    PROVE  CleanInv'
<1> DEFINE child == children[i]
           d == [child EXCEPT !.phase = "ended", !.status = 0]
<1>1. FlowInv /\ AllHonest
    BY DEF CleanInv
<1>2. /\ child.phase = "writing" /\ child.sent = Len(child.out) /\ Exits(i, 0) /\ UNCHANGED <<pipes, picked>>
      /\ effect' = IF child.name \in {"copy", "swappy", "run"} THEN child.in ELSE effect
    BY Zenon DEF Succeeds
<1>3. child \in ChildType /\ Becomes(i, d) /\ ends' = Without(i) /\ pipes \in [0 .. 2 -> Numbers]
    BY <1>1, <1>2, ChildFacts, Zenon DEF Exits
<1> HIDE DEF child
<1>4. PICK c : c = d
    OBVIOUS
<1>5. /\ c \in ChildType /\ c.name = child.name /\ c.in = child.in /\ c.out = child.out /\ c.sent = child.sent
      /\ c.phase = "ended" /\ Succeeded(c) /\ Past(c) /\ Past(child)
    BY <1>4, <1>2, <1>3 DEF ChildType, Succeeded, Past
<1> HIDE DEF d
<1>6. ChildSteps(i, c)
    BY <1>4, <1>2, <1>3, <1>5 DEF ChildSteps, Without, child
<1>7. SentOf(c) = SentOf(child)
    BY <1>5 DEF SentOf
<1>8. Fed' /\ Link'
    BY <1>2, <1>5, <1>6, <1>7, FedKept, LinkKept DEF child
<1>9. Honest(i)'
    <2>1. /\ children'[i] = c /\ (Alive' <=> Alive) /\ i \in 1 .. 2
          /\ \A k \in 1 .. Len(children) : k # i => children'[k] = children[k]
          /\ i \in 1 .. Len(children) /\ Len(children) \in 1 .. Final /\ Final \in 1 .. 2
        BY <1>1, <1>6, ChildStepFacts
    <2>2. Honest(i)
        BY <1>1 DEF AllHonest
    <2>3. HonestPicker(child) /\ HonestGrim(child) /\ HonestDecode(child)
        BY <2>2 DEF Honest, child
    <2>4. HonestPicker(c)'
        BY <1>2, <1>5, <2>3 DEF HonestPicker
    <2>5. HonestGrim(c)'
        BY <1>5, <2>3 DEF HonestGrim
    <2>6. HonestDecode(c)'
        BY <1>2, <1>5, <2>1, <2>3 DEF HonestDecode
    <2>7. i = 2 /\ c.name \in {"copy", "swappy"} => children'[1].phase = "ended" /\ pipes'[1] = << >>
        BY <1>2, <1>5, <2>1, <2>2 DEF Honest, child
    <2>8. c.sent = Len(c.out)
        BY <1>2, <1>5
    <2>9. QED
        BY <2>1, <2>4, <2>5, <2>6, <2>7, <2>8 DEF Honest, HonestPicker, HonestGrim, HonestDecode
<1>10. QED
    BY <1>6, <1>8, <1>9, ChildClean

-----------------------------------------------------------------------------
(* A program reads *)

\* No line is empty.
LEMMA LineHasText ==
    ASSUME NEW text \in Numbers, NEW line \in Lines(text)
    PROVE  line # << >>
<1>1. PICK b \in (0 .. Len(text)) \X (2 .. Len(text) + 1) :
          b[1] + 1 < b[2] /\ line = SubSeq(text, b[1] + 1, b[2] - 1)
    BY Zenon DEF Lines
<1> DEFINE from == b[1]
           to == b[2]
<1>2. from \in 0 .. Len(text) /\ to \in 2 .. Len(text) + 1 /\ Len(text) \in Nat
    BY DEF Numbers
<1>3. from + 1 < to /\ line = SubSeq(text, from + 1, to - 1)
    BY <1>1
<1> HIDE DEF from, to
<1>4. from + 1 \in 1 .. Len(text) /\ to - 1 \in from + 1 .. Len(text)
    BY <1>2, <1>3
<1>5. QED
    BY <1>3, <1>4, SubSeqType

\* cliphist finds the same entries whether or not the line is terminated.
LEMMA NamedByLine ==
    ASSUME NEW line \in Numbers
    PROVE  Named(Append(line, Newline)) = Named(line)
<1> DEFINE longer == Append(line, Newline)
<1>1. /\ line \in Seq(Nat) /\ longer \in Seq(Nat) /\ Len(longer) = Len(line) + 1 /\ Len(line) \in Nat
      /\ longer[Len(line) + 1] = Newline /\ \A i \in 1 .. Len(line) : longer[i] = line[i]
    BY DEF Numbers, Newline
<1> HIDE DEF longer
<1>2. ASSUME NEW entry \in ToSet(History)
      PROVE  IsPrefix(Append(entry.id, Tab), longer) <=> IsPrefix(Append(entry.id, Tab), line)
    <2> DEFINE p == Append(entry.id, Tab)
               n == Len(entry.id)
    <2>1. entry.id \in Seq(Nat)
        <3>1. PICK k \in DOMAIN History : entry = History[k]
            BY DEF ToSet
        <3>2. k \in 1 .. Len(History)
            BY HelpersAssumption
        <3>3. QED
            BY <3>1, <3>2, ConstantTypes DEF Numbers
    <2>2. p \in Seq(Nat) /\ Len(p) = n + 1 /\ n \in Nat /\ p[n + 1] = Tab
        BY <2>1 DEF Tab
    <2> HIDE DEF p, n
    <2>3. IsPrefix(p, longer) <=> Len(p) <= Len(longer) /\ \A i \in 1 .. Len(p) : p[i] = longer[i]
        BY <1>1, <2>2 DEF IsPrefix
    <2>4. IsPrefix(p, line) <=> Len(p) <= Len(line) /\ \A i \in 1 .. Len(p) : p[i] = line[i]
        BY <1>1, <2>2, SMTT(30) DEF IsPrefix
    <2>5. Tab # Newline
        BY DEF Tab, Newline
    <2>6. ASSUME IsPrefix(p, longer) PROVE IsPrefix(p, line)
        <3>1. n + 1 <= Len(line) + 1 /\ \A i \in 1 .. n + 1 : p[i] = longer[i]
            BY <1>1, <2>2, <2>3, <2>6
        <3>2. n # Len(line)
            <4>1. n + 1 \in 1 .. n + 1
                BY <2>2
            <4>2. p[n + 1] = longer[n + 1]
                BY <3>1, <4>1
            <4>3. QED
                BY <1>1, <2>2, <2>5, <4>2
        <3>3. n + 1 <= Len(line)
            BY <1>1, <2>2, <3>1, <3>2
        <3>4. \A i \in 1 .. n + 1 : i \in 1 .. Len(line)
            BY <1>1, <2>2, <3>3
        <3>5. \A i \in 1 .. n + 1 : p[i] = line[i]
            BY <1>1, <3>1, <3>4
        <3>6. QED
            BY <2>2, <2>4, <3>3, <3>5
    <2>7. ASSUME IsPrefix(p, line) PROVE IsPrefix(p, longer)
        <3>1. n + 1 <= Len(line) /\ \A i \in 1 .. n + 1 : p[i] = line[i]
            BY <2>2, <2>4, <2>7
        <3>2. \A i \in 1 .. n + 1 : i \in 1 .. Len(line)
            BY <1>1, <2>2, <3>1
        <3>3. \A i \in 1 .. n + 1 : p[i] = longer[i]
            BY <1>1, <3>1, <3>2
        <3>4. n + 1 <= Len(longer)
            BY <1>1, <2>2, <3>1
        <3>5. QED
            BY <2>2, <2>3, <3>3, <3>4
    <2>8. QED
        BY <2>6, <2>7 DEF p
<1>3. QED
    BY <1>2 DEF Named, longer

\* What a program takes from its pipe it has read.
LEMMA ReadsClean ==
    ASSUME CleanInv, FlowInv', NEW i \in DOMAIN children, Reads(i)
    PROVE  CleanInv'
<1> DEFINE child == children[i]
           d == [child EXCEPT !.in = @ \o pipes[i - 1]]
<1>1. FlowInv /\ AllHonest /\ Fed /\ Link
    BY DEF CleanInv
<1>2. /\ child \in ChildType /\ child.phase = "reading" /\ i \in 1 .. 2
      /\ i - 1 \in 0 .. 1 /\ pipes \in [0 .. 2 -> Numbers] /\ pipes[i - 1] \in Numbers
      /\ pipes[i - 1] # << >>
    BY <1>1, ChildFacts DEF Reads
<1>3. /\ Becomes(i, d) /\ pipes' = [pipes EXCEPT ![i - 1] = << >>]
      /\ UNCHANGED <<ends, picked, effect>>
    BY Zenon DEF Reads
<1> HIDE DEF child
<1>4. child.in \o pipes[i - 1] \in Numbers
    BY <1>2, ConcatProperties DEF ChildType, Numbers
<1>5. PICK c : c = d
    OBVIOUS
<1>6. /\ c \in ChildType /\ c.sent = child.sent /\ c.out = child.out /\ c.phase = "reading"
      /\ c.name = child.name /\ c.in = child.in \o pipes[i - 1] /\ ~ Succeeded(c) /\ ~ Past(c)
    BY <1>2, <1>4, <1>5 DEF ChildType, Succeeded, Past
<1> HIDE DEF d
<1>7. << >> \in Numbers
    BY DEF Numbers
<1>8. pipes' \in [0 .. 2 -> Numbers] /\ pipes'[i - 1] = << >> /\ \A k \in 0 .. 2 : k # i - 1 => pipes'[k] = pipes[k]
    BY <1>2, <1>3, <1>7
<1>9. ChildSteps(i, c)
    BY <1>2, <1>3, <1>5, <1>6, <1>8 DEF ChildSteps, child
<1>10. /\ UNCHANGED <<helper, commands, input, got, output>> /\ children'[i] = c /\ Len(children') = Len(children)
       /\ \A k \in 1 .. Len(children) : k # i => children'[k] = children[k]
       /\ i \in 1 .. Len(children) /\ Len(children) \in 1 .. Final /\ Final \in 1 .. 2 /\ Final' = Final
       /\ DOMAIN children = 1 .. Len(children) /\ DOMAIN children' = 1 .. Len(children)
    BY <1>1, <1>9, ChildStepFacts
<1>11. children # << >> /\ children' # << >>
    BY <1>10
<1>12. (child.in \o pipes[i - 1]) \o << >> = child.in \o pipes[i - 1]
    BY <1>4, ConcatEmptySeq DEF Numbers
<1>13. Fed'
    <2>1. CASE i = 1
        <3>1. FirstIn' = FirstIn \o pipes[0] /\ pipes'[0] = << >> /\ pipes[0] # << >>
            BY <1>2, <1>6, <1>8, <1>10, <1>11, <2>1 DEF FirstIn, child
        <3>2. (FirstIn \o pipes[0]) \o << >> = FirstIn \o pipes[0]
            BY <1>11, <1>12, <2>1 DEF FirstIn, child
        <3>3. QED
            BY <1>1, <1>3, <1>10, <3>1, <3>2 DEF Fed
    <2>2. CASE i = 2
        <3>1. FirstIn' = FirstIn
            BY <1>10, <1>11, <2>2 DEF FirstIn
        <3>2. pipes'[0] = pipes[0]
            BY <1>8, <2>2
        <3>3. QED
            BY <1>1, <1>3, <1>10, <3>1, <3>2 DEF Fed
    <2>3. QED
        BY <1>2, <2>1, <2>2
<1>14. Link'
    <2>1. SentOf(c) = SentOf(child)
        BY <1>6 DEF SentOf
    <2>2. SentBy(1)' = SentBy(1)
        BY <1>10, <2>1 DEF SentBy, child
    <2>3. CASE i = 1
        <3>1. SecondIn' = SecondIn /\ pipes'[1] = pipes[1]
            BY <1>8, <1>10, <2>3 DEF SecondIn
        <3>2. QED
            BY <1>1, <1>10, <2>2, <3>1 DEF Link
    <2>4. CASE i = 2
        <3>4. \A n \in 1 .. Final : Final \in 1 .. 2 /\ 2 \in 1 .. n => n = 2
            BY SMT
        <3>5. Len(children) = 2 /\ Len(children') = 2
            BY <1>10, <2>4, <3>4
        <3>6. SecondIn' = children'[2].in /\ SecondIn = children[2].in
            BY <3>5 DEF SecondIn
        <3>7. children'[2] = c /\ c.in = children[2].in \o pipes[1] /\ pipes'[1] = << >>
            BY <1>6, <1>8, <1>10, <2>4 DEF child
        <3>1. SecondIn' = SecondIn \o pipes[1] /\ pipes'[1] = << >>
            BY <3>6, <3>7, Zenon
        <3>2. (SecondIn \o pipes[1]) \o << >> = SecondIn \o pipes[1]
            BY <1>10, <1>12, <2>4, <3>5 DEF SecondIn, child
        <3>3. QED
            BY <1>1, <1>10, <2>2, <3>1, <3>2 DEF Link
    <2>5. QED
        BY <1>2, <2>3, <2>4
<1>15. Honest(i)'
    <2>1. HonestGrim(child)
        BY <1>1 DEF AllHonest, Honest, child
    <2>2. c.name # "grim"
        BY <1>2, <1>6, <2>1 DEF HonestGrim
    <2>3. QED
        BY <1>6, <1>10, <2>2 DEF Honest, HonestPicker, HonestGrim, HonestDecode
<1>16. QED
    BY <1>9, <1>13, <1>14, <1>15, ChildClean

-----------------------------------------------------------------------------
(* A program reads to the end, asks and writes *)

\* The end of a program's input is the end of what it is to read.
LEMMA DecodeInput ==
    ASSUME CleanInv, NEW i \in DOMAIN children, children[i].name = "decode", AtEnd(i - 1), Alive
    PROVE  Named(children[i].in) = Named(picked)
<1> DEFINE in == children[i].in
<1>1. /\ FlowInv /\ NamesKnown /\ ChildrenKnown /\ InputOpen /\ Fed
      /\ picked \in Numbers /\ children[i] \in ChildType
    BY ChildFacts DEF CleanInv
<1>2. helper.script = "clipboard" /\ helper.stage = 2 /\ i = 1
    BY <1>1, NamesHere
<1>3. pipes[0] = << >> /\ ~ (<<0, 0, "write">> \in ends)
    BY <1>2 DEF AtEnd
<1>4. input = << >>
    BY <1>1, <1>3 DEF InputOpen
<1>5. children # << >>
    BY <1>1, Basics DEF FlowInv
<1>6. FirstIn = in
    BY <1>2, <1>5 DEF FirstIn
<1>7. (in \o << >>) \o << >> = Append(picked, Newline)
    BY <1>1, <1>2, <1>3, <1>4, <1>6 DEF Fed
<1>8. in \in Numbers
    BY <1>1 DEF ChildType
<1> HIDE DEF in
<1>9. in \o << >> = in
    BY <1>8, ConcatEmptySeq DEF Numbers
<1>10. in = Append(picked, Newline)
    BY <1>7, <1>9
<1>11. QED
    BY <1>1, <1>10, NamedByLine DEF in

\* A program that reads from another finds the end when that one has ended.
LEMMA LastInput ==
    ASSUME CleanInv, NEW i \in DOMAIN children, i = 2, AtEnd(1)
    PROVE  children[1].phase = "ended" /\ pipes[1] = << >>
<1>1. FlowInv /\ GivenKnown /\ ChildrenKnown
    BY DEF CleanInv
<1>2. Final = 2 /\ 1 \in DOMAIN children
    <2>1. Final \in 1 .. 2 /\ 2 \in 1 .. Final /\ DOMAIN children = 1 .. Len(children)
          /\ 2 \in 1 .. Len(children) /\ Len(children) \in Nat
        BY <1>1, Basics, ChildFacts DEF FlowInv
    <2>2. QED
        BY <2>1
<1>3. commands[1].piped
    BY <1>1, <1>2 DEF GivenKnown
<1>4. pipes[1] = << >> /\ ~ (<<1, 1, "write">> \in ends)
    BY DEF AtEnd
<1>5. QED
    BY <1>1, <1>2, <1>3, <1>4 DEF ChildrenKnown

\* The bytes of an entry that a line names.
LEMMA EntryChosen ==
    ASSUME NEW line, Named(line) # {}
    PROVE  (CHOOSE entry \in Named(line) : TRUE).bytes \in {entry.bytes : entry \in Named(line)}
<1>1. (CHOOSE entry \in Named(line) : TRUE) \in Named(line)
    OBVIOUS
<1>2. QED
    BY <1>1

\* At the end of its input a program has read all that was to be read.
LEMMA HasReadClean ==
    ASSUME CleanInv, FlowInv', NEW i \in DOMAIN children, HasRead(i)
    PROVE  CleanInv'
<1> DEFINE child == children[i]
           phase == IF child.name \in {"picker", "swappy"} THEN "asking" ELSE "writing"
           out == IF child.name = "decode" THEN (CHOOSE entry \in Named(child.in) : TRUE).bytes ELSE << >>
           bad == \/ child.name = "picker" /\ ~ IsText(child.in)
                  \/ child.name = "decode" /\ Named(child.in) = {}
           d == [child EXCEPT !.phase = phase, !.out = out]
<1>1. FlowInv /\ AllHonest
    BY DEF CleanInv
<1>2. /\ child \in ChildType /\ child.phase = "reading" /\ child.sent = 0 /\ AtEnd(i - 1)
      /\ pipes \in [0 .. 2 -> Numbers] /\ picked \in Numbers /\ effect \in Numbers
    BY <1>1, ChildFacts DEF HasRead, Orderly
<1>3. /\ \/ bad /\ Exits(i, 1)
         \/ ~ bad /\ Becomes(i, d) /\ UNCHANGED ends
      /\ UNCHANGED <<pipes, picked, effect>>
    BY Zenon DEF HasRead
<1>4. CASE Exits(i, 1)
    <2>1. 1 \in Nat \ {0} /\ children[i].phase # "ended"
        BY <1>2
    <2>2. QED
        BY <1>3, <1>4, <2>1, FailsClean
<1>5. CASE ~ bad /\ Becomes(i, d) /\ UNCHANGED ends
    <2>1. child.name = "decode" => out \in {entry.bytes : entry \in Named(child.in)}
        BY <1>5, EntryChosen
    <2>2. out \in Numbers
        <3>1. child.name = "decode" => out \in Numbers
            BY <1>5, EntryType
        <3>2. << >> \in Numbers
            BY DEF Numbers
        <3>3. QED
            BY <3>1, <3>2
    <2>3. /\ phase \in {"asking", "writing"} /\ (child.name = "picker" => phase = "asking" /\ IsText(child.in))
        BY <1>5
    <2> HIDE DEF out, phase, bad, child
    <2>4. PICK c : c = d
        OBVIOUS
    <2>5. /\ c \in ChildType /\ c.sent = child.sent /\ c.sent = 0 /\ c.out = out /\ c.phase = phase
          /\ c.name = child.name /\ c.in = child.in
        BY <1>2, <2>2, <2>3, <2>4 DEF ChildType
    <2> HIDE DEF d
    <2>6. c.phase # "ended" /\ ~ Succeeded(c)
        BY <2>3, <2>5 DEF Succeeded
    <2>7. ChildSteps(i, c)
        BY <1>2, <1>3, <1>5, <2>4, <2>5, <2>6 DEF ChildSteps, child
    <2>8. SentOf(c) = SentOf(child)
        BY <1>2, <2>5, NothingSent
    <2>9. Fed' /\ Link'
        BY <1>3, <2>5, <2>7, <2>8, FedKept, LinkKept DEF child
    <2>10. Honest(i)'
        <3>1. /\ children'[i] = c /\ (Alive' <=> Alive) /\ i \in 1 .. 2
              /\ \A k \in 1 .. Len(children) : k # i => children'[k] = children[k]
              /\ i \in 1 .. Len(children) /\ Len(children) \in 1 .. Final /\ Final \in 1 .. 2
            BY <1>1, <2>7, ChildStepFacts
        <3>2. HonestPicker(c)'
            BY <2>3, <2>5 DEF HonestPicker
        <3>3. HonestGrim(c)'
            <4>1. HonestGrim(child)
                BY <1>1 DEF AllHonest, Honest, child
            <4>2. c.name # "grim"
                BY <1>2, <2>5, <4>1 DEF HonestGrim
            <4>3. QED
                BY <4>2 DEF HonestGrim
        <3>4. HonestDecode(c)'
            <4> SUFFICES ASSUME c.name = "decode", Alive'
                         PROVE  c.out \in {entry.bytes : entry \in Named(picked')}
                BY DEF HonestDecode
            <4>1. Named(child.in) = Named(picked)
                BY <1>2, <2>5, <3>1, DecodeInput DEF child
            <4>2. QED
                BY <1>3, <2>1, <2>5, <4>1
        <3>5. i = 2 => children'[1].phase = "ended" /\ pipes'[1] = << >>
            <4> SUFFICES ASSUME i = 2 PROVE children'[1].phase = "ended" /\ pipes'[1] = << >>
                OBVIOUS
            <4>1. AtEnd(1)
                BY <1>2
            <4>2. children[1].phase = "ended" /\ pipes[1] = << >>
                BY <4>1, LastInput
            <4>3. 1 \in 1 .. Len(children) /\ 1 # i
                BY <3>1
            <4>4. QED
                BY <1>3, <3>1, <4>2, <4>3
        <3>6. QED
            BY <2>6, <3>1, <3>2, <3>3, <3>4, <3>5 DEF Honest
    <2>11. QED
        BY <2>7, <2>9, <2>10, ChildClean
<1>6. QED
    BY <1>3, <1>4, <1>5

\* What the user picks is a line of what the picker has read.
LEMMA AnswerClean ==
    ASSUME CleanInv, FlowInv', NEW i \in DOMAIN children, Answer(i)
    PROVE  CleanInv'
<1> DEFINE child == children[i]
           out(answer) == IF answer = << >> THEN << >> ELSE Append(answer, Newline)
           became(answer) == [child EXCEPT !.phase = "writing", !.out = out(answer)]
           answers == CASE child.name = "picker" -> Lines(child.in)
                        [] child.name = "slurp" -> Lines(Geometry)
                        [] child.name = "swappy" -> {<< >>}
<1>1. FlowInv /\ AllHonest
    BY DEF CleanInv
<1>2. /\ child \in ChildType /\ child.phase = "asking" /\ child.sent = 0
      /\ pipes \in [0 .. 2 -> Numbers] /\ picked \in Numbers /\ effect \in Numbers
      /\ child.name \in {"picker", "slurp", "swappy"}
    BY <1>1, ChildFacts DEF Answer, Orderly
<1>3. UNCHANGED <<pipes, ends, effect>>
    BY Zenon DEF Answer
<1>4. PICK answer \in answers :
          /\ picked' = IF answer = << >> THEN picked ELSE answer
          /\ Becomes(i, became(answer))
    BY Zenon DEF Answer
<1>5. child.name = "picker" => answer \in Lines(child.in) /\ answer \in Numbers /\ answer # << >>
    <2> SUFFICES ASSUME child.name = "picker"
                 PROVE  answer \in Lines(child.in) /\ answer \in Numbers /\ answer # << >>
        OBVIOUS
    <2>1. answers = Lines(child.in) /\ child.in \in Numbers
        BY <1>2 DEF ChildType
    <2>2. QED
        BY <2>1, LinesType, LineHasText
<1>6. child.name = "slurp" => answer \in Numbers
    <2> SUFFICES ASSUME child.name = "slurp" PROVE answer \in Numbers
        OBVIOUS
    <2>1. answers = Lines(Geometry)
        BY <1>2
    <2>2. QED
        BY <2>1, LinesType, GeometryType
<1>7. child.name = "swappy" => answer = << >>
    <2> SUFFICES ASSUME child.name = "swappy" PROVE answer = << >>
        OBVIOUS
    <2>1. answers = {<< >>}
        BY <1>2
    <2> HIDE DEF answers
    <2>2. QED
        BY <2>1
<1> HIDE DEF answers
<1>8. out(answer) \in Numbers
    <2>1. answer \in Numbers
        <3>1. << >> \in Numbers
            BY DEF Numbers
        <3>2. QED
            BY <1>2, <1>5, <1>6, <1>7, <3>1
    <2>2. QED
        BY <2>1 DEF Numbers, Newline
<1>9. child.name = "picker" => out(answer) = Append(answer, Newline) /\ picked' = answer
    BY <1>4, <1>5
<1>10. picked' = picked \/ child.name \in {"picker", "slurp"}
    BY <1>2, <1>4, <1>7
<1> DEFINE text == out(answer)
           d == [child EXCEPT !.phase = "writing", !.out = text]
<1>11. Becomes(i, d)
    BY <1>4
<1> HIDE DEF out, text, child
<1>12. PICK c : c = d
    OBVIOUS
<1>13. /\ c \in ChildType /\ c.sent = child.sent /\ c.out = text /\ c.phase = "writing"
       /\ c.name = child.name /\ c.in = child.in /\ ~ Succeeded(c)
    <2>1. text \in Numbers
        BY <1>8 DEF text
    <2>2. QED
        BY <1>2, <1>12, <2>1 DEF ChildType, Succeeded
<1> HIDE DEF d
<1>14. ChildSteps(i, c)
    BY <1>2, <1>3, <1>10, <1>11, <1>12, <1>13 DEF ChildSteps, child
<1>15. SentOf(c) = SentOf(child)
    BY <1>2, <1>13, NothingSent
<1>16. Fed' /\ Link'
    BY <1>3, <1>13, <1>14, <1>15, FedKept, LinkKept DEF child
<1>17. Honest(i)'
    <2>1. /\ children'[i] = c /\ i \in 1 .. 2
          /\ \A k \in 1 .. Len(children) : k # i => children'[k] = children[k]
          /\ i \in 1 .. Len(children) /\ Len(children) \in 1 .. Final /\ Final \in 1 .. 2
        BY <1>1, <1>14, ChildStepFacts
    <2>2. Honest(i)
        BY <1>1 DEF AllHonest
    <2>3. HonestPicker(c)'
        <3>1. HonestPicker(child) /\ Past(child)
            BY <1>2, <2>2 DEF Honest, Past, child
        <3>2. QED
            BY <1>5, <1>9, <1>13, <3>1 DEF HonestPicker, text
    <2>4. HonestGrim(c)' /\ HonestDecode(c)'
        BY <1>2, <1>13 DEF HonestGrim, HonestDecode
    <2>5. i = 2 /\ c.name \in {"copy", "swappy"} => children'[1].phase = "ended" /\ pipes'[1] = << >>
        <3> SUFFICES ASSUME i = 2, c.name \in {"copy", "swappy"}
                     PROVE  children'[1].phase = "ended" /\ pipes'[1] = << >>
            OBVIOUS
        <3>1. Past(child)
            BY <1>2 DEF Past
        <3>2. children[1].phase = "ended" /\ pipes[1] = << >>
            BY <1>13, <2>2, <3>1 DEF Honest, child
        <3>3. 1 \in 1 .. Len(children) /\ 1 # i
            BY <2>1
        <3>4. QED
            BY <1>3, <2>1, <3>2, <3>3
    <2>6. QED
        BY <1>13, <2>1, <2>3, <2>4, <2>5 DEF Honest
<1>18. QED
    BY <1>14, <1>16, <1>17, ChildClean

\* What a program writes is in its pipe.
LEMMA WritesClean ==
    ASSUME CleanInv, FlowInv', NEW i \in DOMAIN children, Writes(i)
    PROVE  CleanInv'
<1> DEFINE child == children[i]
<1>1. FlowInv /\ AllHonest /\ Link
    BY DEF CleanInv
<1>2. PICK sent \in child.sent + 1 .. Len(child.out) :
          /\ pipes' = [pipes EXCEPT ![i] = @ \o SubSeq(child.out, child.sent + 1, sent)]
          /\ Becomes(i, [child EXCEPT !.sent = sent])
    BY Zenon DEF Writes
<1>3. child.phase = "writing" /\ UNCHANGED <<ends, picked, effect>>
    BY Zenon DEF Writes
<1>4. /\ i \in 1 .. 2 /\ i \in 1 .. Final /\ Final \in 1 .. 2
      /\ child \in ChildType /\ pipes \in [0 .. 2 -> Numbers] /\ pipes[i] \in Numbers
      /\ child.sent <= Len(child.out)
    BY <1>1, ChildFacts DEF Orderly
<1> DEFINE d == [child EXCEPT !.sent = sent]
           piece == SubSeq(child.out, child.sent + 1, sent)
<1> HIDE DEF child
<1>5. child.out \in Numbers /\ child.sent \in Nat /\ sent \in Nat /\ child.sent <= sent /\ sent <= Len(child.out)
    <2>1. child.out \in Numbers /\ child.sent \in Nat
        BY <1>4 DEF ChildType
    <2>2. Len(child.out) \in Nat
        BY <2>1 DEF Numbers
    <2>3. QED
        BY <1>2, <2>1, <2>2
<1>6. PICK c : c = d
    OBVIOUS
<1>7. /\ c \in ChildType /\ c.sent = sent /\ c.out = child.out /\ c.phase = "writing"
      /\ c.name = child.name /\ c.in = child.in /\ ~ Succeeded(c)
    BY <1>3, <1>4, <1>5, <1>6 DEF ChildType, Succeeded
<1>8. Becomes(i, c)
    BY <1>2, <1>6
<1> HIDE DEF d
<1>9. PICK bytes : bytes = piece
    OBVIOUS
<1>10. bytes \in Numbers /\ SentOf(child) \in Numbers /\ SentOf(c) = SentOf(child) \o bytes
    <2>1. SentOf(c) = SubSeq(child.out, 1, sent)
        BY <1>7, Zenon DEF SentOf
    <2>2. QED
        BY <1>5, <1>9, <2>1, SentGrows DEF SentOf
<1>11. pipes' = [pipes EXCEPT ![i] = @ \o bytes]
    BY <1>2, <1>9
<1> HIDE DEF piece
<1>12. /\ pipes'[i] = pipes[i] \o bytes /\ pipes' \in [0 .. 2 -> Numbers]
       /\ \A k \in 0 .. 2 : k # i => pipes'[k] = pipes[k]
    <2>1. pipes[i] \o bytes \in Numbers
        BY <1>4, <1>10, ConcatProperties DEF Numbers
    <2>2. QED
        BY <1>4, <1>11, <2>1
<1>13. ChildSteps(i, c)
    BY <1>3, <1>7, <1>8, <1>12 DEF ChildSteps, child
<1>14. Fed'
    <2>1. pipes'[0] = pipes[0]
        BY <1>4, <1>12
    <2>2. QED
        BY <1>7, <1>13, <2>1, FedKept DEF child
<1>15. /\ children'[i] = c /\ (Alive' <=> Alive) /\ Final' = Final
       /\ \A k \in 1 .. Len(children) : k # i => children'[k] = children[k]
       /\ i \in 1 .. Len(children) /\ Len(children) \in 1 .. Final
       /\ DOMAIN children = 1 .. Len(children) /\ DOMAIN children' = 1 .. Len(children)
    BY <1>1, <1>13, ChildStepFacts
<1>16. Link'
    <2>1. SecondIn' = SecondIn
        BY <1>1, <1>7, <1>13, InKept DEF child
    <2>2. CASE i = 1
        <3>1. SentBy(1) = SentOf(child) /\ SentBy(1)' = SentOf(c)
            BY <1>15, <2>2 DEF SentBy, child
        <3>2. SecondIn \in Numbers
            <4>1. << >> \in Numbers
                BY DEF Numbers
            <4>2. Len(children) = 2 => children[2] \in ChildType
                BY <1>1, Basics DEF FlowInv
            <4>3. QED
                BY <4>1, <4>2 DEF SecondIn, ChildType
        <3>3. SecondIn \o (pipes[1] \o bytes) = (SecondIn \o pipes[1]) \o bytes
            BY <1>4, <1>10, <2>2, <3>2, ConcatThree
        <3>4. pipes'[1] = pipes[1] \o bytes
            BY <1>12, <2>2
        <3>5. QED
            BY <1>1, <1>10, <1>15, <2>1, <3>1, <3>3, <3>4 DEF Link
    <2>3. CASE i = 2
        <3>1. pipes'[1] = pipes[1]
            BY <1>12, <2>3
        <3>2. SentBy(1)' = SentBy(1)
            BY <1>15, <2>3 DEF SentBy
        <3>3. QED
            BY <1>1, <1>15, <2>1, <3>1, <3>2 DEF Link
    <2>4. QED
        BY <1>4, <2>2, <2>3
<1>17. Honest(i)'
    <2>1. Honest(i)
        BY <1>1 DEF AllHonest
    <2>2. Past(child) /\ Past(c)
        BY <1>3, <1>7 DEF Past
    <2>3. HonestPicker(child) /\ HonestGrim(child) /\ HonestDecode(child)
        BY <2>1 DEF Honest, child
    <2>4. HonestPicker(c)' /\ HonestGrim(c)' /\ HonestDecode(c)'
        BY <1>3, <1>7, <1>15, <2>2, <2>3 DEF HonestPicker, HonestGrim, HonestDecode
    <2>5. i = 2 /\ c.name \in {"copy", "swappy"} => children'[1].phase = "ended" /\ pipes'[1] = << >>
        <3> SUFFICES ASSUME i = 2, c.name \in {"copy", "swappy"}
                     PROVE  children'[1].phase = "ended" /\ pipes'[1] = << >>
            OBVIOUS
        <3>1. children[1].phase = "ended" /\ pipes[1] = << >>
            BY <1>7, <2>1, <2>2 DEF Honest, child
        <3>2. 1 \in 1 .. Len(children) /\ 1 # i
            BY <1>15
        <3>3. pipes'[1] = pipes[1]
            BY <1>12
        <3>4. QED
            BY <1>15, <3>1, <3>2, <3>3
    <2>6. QED
        BY <1>7, <1>15, <2>4, <2>5 DEF Honest
<1>18. QED
    BY <1>13, <1>14, <1>16, <1>17, ChildClean

\* Every step of a program.
LEMMA ProgramsClean ==
    ASSUME CleanInv, FlowInv', NEW i \in DOMAIN children, Child(i) \/ Answer(i) \/ Dismiss(i) \/ Dies(i)
    PROVE  CleanInv'
    BY ReadsClean, HasReadClean, WritesClean, BreaksClean, SucceedsClean, AnswerClean, DismissClean, DiesClean
       DEF Child

-----------------------------------------------------------------------------
(* The helper writes, reads and leaves *)

\* A step of the helper that leaves the programs alone, and only closes its own ends.
LEMMA HelperClean ==
    ASSUME CleanInv, FlowInv', UNCHANGED <<commands, children, picked, effect>>,
           helper'.script = helper.script, helper'.stage = helper.stage,
           Alive' => Alive, InputOpen', Fed', Link', Done',
           pipes[1] = << >> => pipes'[1] = << >>,
           \A end \in ends : end \in ends' \/ end[1] = 0
    PROVE  CleanInv'
<1>1. FlowInv /\ NamesKnown /\ GivenKnown /\ ChildrenKnown /\ AllHonest /\ Acted
    BY DEF CleanInv
<1>2. Final' = Final
    BY DEF Final
<1>3. NamesKnown' /\ GivenKnown' /\ Acted'
    BY <1>1, <1>2 DEF NamesKnown, GivenKnown, Acted
<1>4. ChildrenKnown'
    <2> SUFFICES ASSUME NEW i \in DOMAIN children, children[i].phase # "ended", commands[i].piped
                 PROVE  <<i, i, "write">> \in ends'
        BY <1>1 DEF ChildrenKnown
    <2>1. <<i, i, "write">> \in ends
        BY <1>1 DEF ChildrenKnown
    <2>2. i # 0
        BY <1>1, ChildFacts
    <2>3. QED
        BY <2>1, <2>2
<1>5. AllHonest'
    <2> SUFFICES ASSUME NEW i \in DOMAIN children PROVE Honest(i)'
        BY DEF AllHonest
    <2>1. Honest(i)
        BY <1>1 DEF AllHonest
    <2>2. HonestPicker(children[i])' /\ HonestGrim(children[i])' /\ HonestDecode(children[i])'
        BY <2>1 DEF Honest, HonestPicker, HonestGrim, HonestDecode
    <2>3. QED
        BY <2>1, <2>2 DEF Honest
<1>6. QED
    BY <1>3, <1>4, <1>5 DEF CleanInv

\* A helper reports success only when it has waited for its programs.
LEMMA LeaveClean ==
    ASSUME CleanInv, FlowInv', NEW code \in Nat, Leave(code), helper.at # "off",
           code = 0 => helper.at = "wait",
           code = 0 /\ helper.stage = 2 => \A i \in DOMAIN children : Succeeded(children[i])
    PROVE  CleanInv'
<1>1. /\ helper' = [helper EXCEPT !.at = "off", !.exit = code]
      /\ ends' = Without(0)
      /\ UNCHANGED <<commands, input, children, pipes, got, output, picked, effect>>
    BY Zenon DEF Leave
<1>2. /\ FlowInv /\ InputOpen /\ Fed /\ Link /\ helper \in HelperType /\ Started
    BY DEF CleanInv, FlowInv, HelpersType
<1>3. /\ helper'.at = "off" /\ helper'.exit = code
      /\ helper'.script = helper.script /\ helper'.stage = helper.stage
    BY <1>1, <1>2 DEF HelperType
<1>4. UNCHANGED <<Final, FirstIn, SecondIn, SentBy(1)>>
    BY <1>1 DEF Final, FirstIn, SecondIn, SentBy
<1>5. Alive /\ (Alive' => code = 0)
    BY <1>3 DEF Alive
<1>6. InputOpen'
    BY <1>1, <1>2, <1>5 DEF InputOpen
<1>7. Fed' /\ Link'
    BY <1>1, <1>2, <1>3, <1>4 DEF Fed, Link
<1>8. Done'
    BY <1>1, <1>2, <1>3, <1>4 DEF Done, Started
<1>9. \A end \in ends : end \in ends' \/ end[1] = 0
    BY <1>1 DEF Without
<1>10. QED
    BY <1>1, <1>3, <1>5, <1>6, <1>7, <1>8, <1>9, HelperClean

\* The helper fails.
LEMMA FailureClean ==
    ASSUME CleanInv, FlowInv', PipeFails \/ InputBreaks
    PROVE  CleanInv'
<1>1. 1 \in Nat /\ 1 # 0 /\ 141 \in Nat /\ 141 # 0
    OBVIOUS
<1>2. CASE PipeFails
    BY <1>1, <1>2, LeaveClean DEF PipeFails
<1>3. CASE InputBreaks
    BY <1>1, <1>3, LeaveClean DEF InputBreaks
<1>4. QED
    BY <1>2, <1>3

\* What the helper writes goes from its input to the pipe.
LEMMA WriteInputClean ==
    ASSUME CleanInv, FlowInv', WriteInput
    PROVE  CleanInv'
<1> DEFINE room == Capacity - Len(pipes[0])
           count == IF room < Len(input) THEN room ELSE Len(input)
           first == SubSeq(input, 1, count)
           rest == SubSeq(input, count + 1, Len(input))
<1>1. /\ helper.at = "write" /\ count > 0
      /\ pipes' = [pipes EXCEPT ![0] = @ \o first] /\ input' = rest
      /\ UNCHANGED <<helper, commands, children, ends, got, output, picked, effect>>
    BY Zenon DEF WriteInput
<1>2. /\ FlowInv /\ InputOpen /\ Fed /\ Link /\ helper \in HelperType
      /\ input \in Numbers /\ pipes \in [0 .. 2 -> Numbers] /\ pipes[0] \in Numbers
    BY DEF CleanInv, FlowInv, HelpersType
<1>3. count \in Nat /\ count <= Len(input) /\ Len(input) \in Nat
    <2>1. Len(input) \in Nat /\ Len(pipes[0]) \in Nat /\ Capacity \in Nat
        BY <1>2, ConstantTypes DEF Numbers
    <2>2. QED
        BY <1>1, <2>1
<1> HIDE DEF count
<1>4. first \in Numbers /\ rest \in Numbers /\ input = first \o rest
    <2>1. SubSeq(input, 1, Len(input)) = input
        BY <1>2 DEF Numbers
    <2>2. Len(input) <= Len(input)
        BY <1>3
    <2>3. first \in Numbers /\ rest \in Numbers /\ SubSeq(input, 1, Len(input)) = first \o rest
        BY <1>2, <1>3, <2>2, SentGrows
    <2> HIDE DEF first, rest
    <2>4. QED
        BY <2>1, <2>3
<1> HIDE DEF first, rest
<1>5. pipes'[0] = pipes[0] \o first /\ pipes'[1] = pipes[1]
    BY <1>1, <1>2
<1>6. UNCHANGED <<Final, FirstIn, SecondIn, SentBy(1), Alive>>
    BY <1>1 DEF Final, FirstIn, SecondIn, SentBy, Alive
<1>7. Link' /\ Done'
    BY <1>1, <1>2, <1>5, <1>6 DEF Link, Done
<1>8. InputOpen'
    <2>1. input # << >>
        BY <1>1, <1>3
    <2>2. QED
        BY <1>1, <1>2, <1>6, <2>1 DEF InputOpen, Alive
<1>9. Fed'
    <2>1. FirstIn \in Numbers
        <3>1. children # << >> /\ children[1] \in ChildType
            BY <1>1, <1>2, Basics DEF FlowInv, Started
        <3>2. QED
            BY <3>1 DEF FirstIn, ChildType
    <2>2. (FirstIn \o (pipes[0] \o first)) \o rest = (FirstIn \o pipes[0]) \o (first \o rest)
        <3>1. FirstIn \o pipes[0] \in Numbers
            BY <1>2, <2>1, ConcatProperties DEF Numbers
        <3>2. FirstIn \o (pipes[0] \o first) = (FirstIn \o pipes[0]) \o first
            BY <1>2, <1>4, <2>1, ConcatThree, Zenon
        <3>3. (FirstIn \o pipes[0]) \o (first \o rest) = ((FirstIn \o pipes[0]) \o first) \o rest
            BY <1>4, <3>1, ConcatThree
        <3>4. QED
            BY <3>2, <3>3
    <2>3. (FirstIn \o pipes'[0]) \o input' = (FirstIn \o pipes[0]) \o input
        BY <1>1, <1>4, <1>5, <2>2
    <2>4. ~ (input = << >>)
        BY <1>1, <1>3
    <2>5. QED
        BY <1>1, <1>2, <1>6, <2>3, <2>4 DEF Fed
<1>10. QED
    BY <1>1, <1>5, <1>6, <1>7, <1>8, <1>9, HelperClean

\* The input is closed only when all of it is written.
LEMMA CloseInputClean ==
    ASSUME CleanInv, FlowInv', CloseInput
    PROVE  CleanInv'
<1>1. /\ helper.at = "write" /\ input = << >> /\ ends' = ends \ {<<0, 0, "write">>}
      /\ helper' = [helper EXCEPT !.at = "read"]
      /\ UNCHANGED <<commands, input, children, pipes, got, output, picked, effect>>
    BY Zenon DEF CloseInput
<1>2. FlowInv /\ Fed /\ Link /\ helper \in HelperType
    BY DEF CleanInv, FlowInv, HelpersType
<1>3. helper'.at = "read" /\ helper'.script = helper.script /\ helper'.stage = helper.stage
    BY <1>1, <1>2 DEF HelperType
<1>4. UNCHANGED <<Final, FirstIn, SecondIn, SentBy(1)>> /\ Alive
    BY <1>1 DEF Final, FirstIn, SecondIn, SentBy, Alive
<1>5. InputOpen' /\ Done'
    BY <1>1, <1>3 DEF InputOpen, Done
<1>6. Fed' /\ Link'
    BY <1>1, <1>2, <1>3, <1>4 DEF Fed, Link
<1>7. \A end \in ends : end \in ends' \/ end[1] = 0
    BY <1>1
<1>8. QED
    BY <1>1, <1>3, <1>4, <1>5, <1>6, <1>7, HelperClean

\* What the helper reads is not what one program reads from another.
LEMMA ReadOutputClean ==
    ASSUME CleanInv, FlowInv', ReadOutput
    PROVE  CleanInv'
<1>1. /\ helper.at = "read" /\ pipes' = [pipes EXCEPT ![Final] = << >>]
      /\ UNCHANGED <<helper, commands, input, children, ends, output, picked, effect>>
    BY Zenon DEF ReadOutput
<1>2. FlowInv /\ InputOpen /\ Fed /\ Link /\ pipes \in [0 .. 2 -> Numbers] /\ Final \in 1 .. 2
    BY <1>1, Basics DEF CleanInv, FlowInv, HelpersType, Started
<1>3. UNCHANGED <<Final, FirstIn, SecondIn, SentBy(1), Alive>>
    BY <1>1 DEF Final, FirstIn, SecondIn, SentBy, Alive
<1>4. pipes'[0] = pipes[0] /\ (Final = 2 => pipes'[1] = pipes[1]) /\ (pipes[1] = << >> => pipes'[1] = << >>)
    BY <1>1, <1>2
<1>5. InputOpen' /\ Fed' /\ Link' /\ Done'
    BY <1>1, <1>2, <1>3, <1>4 DEF InputOpen, Fed, Link, Done
<1>6. QED
    BY <1>1, <1>3, <1>4, <1>5, HelperClean

\* The helper has read the output, and its input is long written.
LEMMA EndOutputClean ==
    ASSUME CleanInv, FlowInv', EndOutput
    PROVE  CleanInv'
<1>1. /\ helper.at = "read" /\ ends' = Without(0) /\ helper' = [helper EXCEPT !.at = "wait"]
      /\ UNCHANGED <<commands, input, children, pipes, got, picked, effect>>
    BY Zenon DEF EndOutput
<1>2. FlowInv /\ InputOpen /\ Fed /\ Link /\ helper \in HelperType
    BY DEF CleanInv, FlowInv, HelpersType
<1>3. helper'.at = "wait" /\ helper'.script = helper.script /\ helper'.stage = helper.stage
    BY <1>1, <1>2 DEF HelperType
<1>4. UNCHANGED <<Final, FirstIn, SecondIn, SentBy(1)>> /\ Alive
    BY <1>1 DEF Final, FirstIn, SecondIn, SentBy, Alive
<1>5. input = << >>
    BY <1>1, <1>2, <1>4 DEF InputOpen
<1>6. InputOpen' /\ Done'
    BY <1>1, <1>3, <1>5 DEF InputOpen, Done
<1>7. Fed' /\ Link'
    BY <1>1, <1>2, <1>3, <1>4 DEF Fed, Link
<1>8. \A end \in ends : end \in ends' \/ end[1] = 0
    BY <1>1 DEF Without
<1>9. QED
    BY <1>1, <1>3, <1>4, <1>6, <1>7, <1>8, HelperClean

-----------------------------------------------------------------------------
(* The helper starts a program *)

\* A program that is to read has read nothing.
LEMMA ProgramStarts ==
    ASSUME NEW name \in Names, NEW given \in Numbers
    PROVE  /\ ~ Succeeded(Program(name, given))
           /\ name \in {"picker", "decode", "copy", "swappy"} /\ given = << >> => ~ Past(Program(name, given))
           /\ name = "grim" => Program(name, given).out = Image /\ Program(name, given).phase = "writing"
<1> DEFINE child == Program(name, given)
<1>1. child.phase = CASE name \in {"picker", "decode", "copy", "swappy"} /\ given = << >> -> "reading"
                      [] name = "slurp" -> "asking"
                      [] OTHER -> "writing"
    BY Zenon DEF Program
<1>2. child.out = CASE name = "list" -> HistoryList
                    [] name = "grim" -> Image
                    [] OTHER -> << >>
    BY Zenon DEF Program
<1> HIDE DEF child
<1>3. child.phase # "ended"
    BY <1>1, Zenon
<1>4. name \in {"picker", "decode", "copy", "swappy"} /\ given = << >> => child.phase = "reading"
    BY <1>1, Zenon
<1>5. name = "grim" => child.out = Image /\ child.phase = "writing"
    BY <1>1, <1>2
<1>6. QED
    BY <1>3, <1>4, <1>5 DEF Succeeded, Past, child

\* A program is started; one that is to read has not done so.
LEMMA ExecClean ==
    ASSUME CleanInv, FlowInv', Exec
    PROVE  CleanInv'
<1> DEFINE i == Len(children) + 1
           passed == {end \in ends : end = <<0, i - 1, "read">>}
           command == commands[i]
           child == Program(command.name, command.given)
<1>1. /\ helper.at = "exec"
      /\ children' = Append(children, child)
      /\ ends' = (ends \ passed) \cup {<<i, i - 1, "read">> : end \in passed} \cup
                 (IF command.piped THEN {<<i, i, "write">>, <<0, i, "read">>} ELSE {})
      /\ helper' = [helper EXCEPT !.at = IF i = Final THEN "write" ELSE "exec"]
      /\ UNCHANGED <<commands, input, pipes, got, output, picked, effect>>
    BY Zenon DEF Exec
<1>2. /\ FlowInv /\ NamesKnown /\ GivenKnown /\ ChildrenKnown /\ InputOpen /\ Fed /\ Link
      /\ AllHonest /\ Acted /\ Done /\ helper \in HelperType
    BY DEF CleanInv, FlowInv, HelpersType
<1>3. /\ Final \in 1 .. 2 /\ Len(children) \in 0 .. Final - 1 /\ i \in 1 .. Final
      /\ children \in Seq(ChildType) /\ DOMAIN children = 1 .. Len(children) /\ command \in Command
    BY <1>1, <1>2, Basics DEF FlowInv, HelpersType, Started
<1>4. /\ child \in ChildType /\ child.sent = 0 /\ child.phase # "ended"
      /\ child.name = command.name /\ child.in = command.given /\ ~ Succeeded(child)
      /\ child.name \in {"picker", "decode", "copy", "swappy"} /\ command.given = << >> => ~ Past(child)
      /\ child.name = "grim" => child.out = Image /\ child.phase = "writing"
    BY <1>3, ProgramType, ProgramStarts DEF Command
<1>5. \A end \in ends : end \in ends' \/ (end[1] = 0 /\ end[3] = "read")
    BY <1>1
<1>6. command.piped => <<i, i, "write">> \in ends'
    BY <1>1
<1>7. helper'.at \in {"exec", "write"} /\ helper'.script = helper.script /\ helper'.stage = helper.stage
    BY <1>1, <1>2 DEF HelperType
<1>8. PICK c : c = child
    OBVIOUS
<1>9. /\ c \in ChildType /\ c.sent = 0 /\ c.phase # "ended"
      /\ c.name = command.name /\ c.in = command.given /\ ~ Succeeded(c)
      /\ c.name \in {"picker", "decode", "copy", "swappy"} /\ command.given = << >> => ~ Past(c)
      /\ c.name = "grim" => c.out = Image /\ c.phase = "writing"
    BY <1>4, <1>8
<1>10. children' = Append(children, c)
    BY <1>1, <1>8
<1> HIDE DEF child
<1>11. PICK n : n = i
    OBVIOUS
<1>12. /\ n \in 1 .. Final /\ Len(children) = n - 1 /\ Len(children') = n /\ DOMAIN children' = 1 .. n
       /\ children'[n] = c /\ \A k \in 1 .. n - 1 : children'[k] = children[k]
       /\ DOMAIN children = 1 .. n - 1
    BY <1>3, <1>9, <1>10, <1>11
<1>13. /\ c.name = commands[n].name /\ c.in = commands[n].given
       /\ commands[n].piped => <<n, n, "write">> \in ends'
       /\ c.name \in {"picker", "decode", "copy", "swappy"} /\ commands[n].given = << >> => ~ Past(c)
    BY <1>6, <1>9, <1>11
<1> HIDE DEF i, passed, command
<1>14. Final' = Final /\ Alive /\ Alive'
    BY <1>1, <1>7 DEF Final, Alive
<1>15. NamesKnown' /\ GivenKnown'
    BY <1>1, <1>2, <1>7, <1>14 DEF NamesKnown, GivenKnown
<1>16. ChildrenKnown'
    <2> SUFFICES ASSUME NEW k \in 1 .. n
                 PROVE  /\ children'[k].name = commands[k].name
                        /\ children'[k].phase # "ended" /\ commands[k].piped => <<k, k, "write">> \in ends'
        BY <1>1, <1>12 DEF ChildrenKnown
    <2>1. CASE k = n
        BY <1>12, <1>13, <2>1
    <2>2. CASE k # n
        <3>1. k \in 1 .. n - 1 /\ children'[k] = children[k] /\ k \in DOMAIN children /\ k # 0
            BY <1>3, <1>12, <2>2
        <3>2. <<k, k, "write">> \in ends => <<k, k, "write">> \in ends'
            BY <1>5, <3>1
        <3>3. QED
            BY <1>2, <3>1, <3>2 DEF ChildrenKnown
    <2>3. QED
        BY <2>1, <2>2
<1>17. InputOpen'
    <2>1. <<0, 0, "write">> \in ends => <<0, 0, "write">> \in ends'
        BY <1>5
    <2>2. QED
        BY <1>1, <1>2, <1>7, <1>14, <2>1 DEF InputOpen
<1>18. FirstIn' = FirstIn
    <2>1. children' # << >>
        BY <1>3, <1>12
    <2>2. CASE n = 1
        <3>1. children = << >>
            BY <1>3, <1>12, <2>2
        <3>2. QED
            BY <1>12, <1>13, <2>1, <2>2, <3>1 DEF FirstIn
    <2>3. CASE n # 1
        <3>1. children # << >> /\ 1 \in 1 .. n - 1
            BY <1>3, <1>12, <2>3
        <3>2. QED
            BY <1>12, <2>1, <3>1 DEF FirstIn
    <2>4. QED
        BY <2>2, <2>3
<1>19. Fed'
    BY <1>1, <1>2, <1>7, <1>18 DEF Fed
<1>20. Link'
    <2> SUFFICES ASSUME Final = 2 PROVE SecondIn' \o pipes[1] = SentBy(1)'
        BY <1>1, <1>14 DEF Link
    <2>1. SecondIn = << >> /\ SecondIn \o pipes[1] = SentBy(1)
        <3>1. Len(children) # 2
            BY <1>3, SMTT(30)
        <3>2. SecondIn = << >>
            BY <3>1 DEF SecondIn
        <3>3. QED
            BY <1>2, <3>2 DEF Link
    <2>2. CASE n = 1
        <3>1. SecondIn' = << >>
            BY <1>12, <2>2 DEF SecondIn
        <3>2. SentBy(1) = << >>
            BY <1>12, <2>2 DEF SentBy
        <3>3. SentBy(1)' = << >>
            BY <1>9, <1>12, <2>2, NothingSent DEF SentBy
        <3>4. QED
            BY <2>1, <3>1, <3>2, <3>3
    <2>3. CASE n = 2
        <3>1. SecondIn' = << >>
            BY <1>2, <1>12, <1>13, <2>3 DEF SecondIn, GivenKnown
        <3>2. SentBy(1)' = SentBy(1)
            BY <1>12, <2>3 DEF SentBy
        <3>3. QED
            BY <2>1, <3>1, <3>2
    <2>4. QED
        BY <1>12, <2>2, <2>3
<1>21. AllHonest'
    <2> SUFFICES ASSUME NEW k \in 1 .. n PROVE Honest(k)'
        BY <1>12 DEF AllHonest
    <2>1. CASE k = n
        <3>1. c.name \in {"picker", "decode"} => ~ Past(c)
            BY <1>2, <1>12, <1>13 DEF GivenKnown
        <3>2. HonestPicker(c)' /\ HonestGrim(c)' /\ HonestDecode(c)'
            BY <1>9, <3>1 DEF HonestPicker, HonestGrim, HonestDecode
        <3>3. k = 2 /\ c.name \in {"copy", "swappy"} => ~ Past(c)
            <4> SUFFICES ASSUME k = 2, c.name \in {"copy", "swappy"} PROVE ~ Past(c)
                OBVIOUS
            <4>1. Final = 2
                BY <1>3, <1>12, <2>1
            <4>2. commands[n].given = << >>
                BY <1>2, <2>1, <4>1 DEF GivenKnown
            <4>3. QED
                BY <1>13, <4>2
        <3>4. children'[k] = c
            BY <1>12, <2>1
        <3>5. QED
            BY <1>9, <3>2, <3>3, <3>4 DEF Honest
    <2>2. CASE k # n
        <3>1. k \in 1 .. n - 1 /\ children'[k] = children[k] /\ k \in DOMAIN children /\ k # 2
            BY <1>3, <1>12, <2>2
        <3>2. Honest(k)
            BY <1>2, <3>1 DEF AllHonest
        <3>3. HonestPicker(children[k])' /\ HonestGrim(children[k])' /\ HonestDecode(children[k])'
            BY <1>1, <1>14, <3>1, <3>2 DEF Honest, HonestPicker, HonestGrim, HonestDecode
        <3>4. QED
            BY <3>1, <3>2, <3>3 DEF Honest
    <2>3. QED
        BY <2>1, <2>2
<1>22. Acted'
    <2>1. Len(children') = Final => ~ Succeeded(children'[Final])
        BY <1>9, <1>12
    <2>2. QED
        BY <1>1, <1>2, <1>7, <1>14, <2>1 DEF Acted
<1>23. Done'
    BY <1>7 DEF Done
<1>24. QED
    BY <1>15, <1>16, <1>17, <1>19, <1>20, <1>21, <1>22, <1>23 DEF CleanInv

-----------------------------------------------------------------------------
(* The helper starts a pipeline *)

\* The empty text is encoded in no bytes.
LEMMA NothingEncoded == EncodeUtf8(<< >>) = << >>
<1>1. << >> \in Seq(Scalars)
    OBVIOUS
<1>2. QED
    BY <1>1, TextEncoded, TextEmpty, WrittenEmpty

\* The programs of a pipeline.
LEMMA CommandsRun ==
    ASSUME NEW names \in Seq(Names), Len(names) \in {1, 2}, NEW text \in Numbers, NEW given \in Numbers,
           NEW captures \in BOOLEAN, RunPipeline(names, text, given, captures)
    PROVE  /\ Final' = Len(names)
           /\ commands'[1].name = names[1] /\ commands'[1].given = given
           /\ Len(names) = 2 \/ captures => commands'[1].piped
           /\ Len(names) = 2 => commands'[2].name = names[2] /\ commands'[2].given = << >>
           /\ Len(names) = 2 /\ captures => commands'[2].piped
           /\ children' = << >> /\ pipes' = [k \in 0 .. 2 |-> << >>] /\ input' = EncodeUtf8(text)
           /\ text # << >> => <<0, 0, "write">> \in ends'
<1> DEFINE n == Len(names)
           command(i) == [name |-> names[i], given |-> IF i = 1 THEN given ELSE << >>,
                          piped |-> i < n \/ captures]
<1>1. /\ commands' = [i \in DOMAIN names |-> command(i)]
      /\ input' = EncodeUtf8(text)
      /\ children' = << >> /\ pipes' = [k \in 0 .. 2 |-> << >>]
      /\ ends' = IF text = << >> THEN {} ELSE {<<0, 0, "read">>, <<0, 0, "write">>}
    BY Zenon DEF RunPipeline
<1>2. n \in {1, 2} /\ DOMAIN names = 1 .. n
    OBVIOUS
<1>3. \A i \in 1 .. n : command(i).name = names[i] /\ (i < n \/ captures => command(i).piped)
    OBVIOUS
<1>4. command(1).given = given /\ command(2).given = << >>
    OBVIOUS
<1> HIDE DEF command, n
<1>5. DOMAIN commands' = 1 .. n /\ \A i \in 1 .. n : commands'[i] = command(i)
    BY <1>1, <1>2
<1>6. commands' = [i \in 1 .. n |-> command(i)]
    BY <1>1, <1>2
<1>7. Len(commands') = n
    BY <1>2, <1>6
<1>8. Final' = n
    BY <1>7 DEF Final
<1>9. 1 \in 1 .. n /\ (n = 2 => 2 \in 1 .. n /\ 1 < n)
    BY <1>2
<1>10. commands'[1].name = names[1] /\ commands'[1].given = given /\ (n = 2 \/ captures => commands'[1].piped)
    BY <1>3, <1>4, <1>5, <1>9
<1>11. n = 2 => /\ commands'[2].name = names[2] /\ commands'[2].given = << >>
                /\ captures => commands'[2].piped
    BY <1>3, <1>4, <1>5, <1>9
<1>12. text # << >> => <<0, 0, "write">> \in ends'
    BY <1>1
<1>13. QED
    BY <1>1, <1>8, <1>10, <1>11, <1>12 DEF n

\* A pipeline begins with no programs; what remains is which ones they are, and what the
\* first one is to read.
LEMMA PipelineClean ==
    ASSUME FlowInv', NEW names \in Seq(Names), Len(names) \in {1, 2},
           NEW text \in Numbers, NEW given \in Numbers, NEW captures \in BOOLEAN,
           RunPipeline(names, text, given, captures),
           helper'.at = "exec", helper'.stage = 1 => effect' = Nothing,
           NamesKnown', GivenKnown', Fed'
    PROVE  CleanInv'
<1>1. /\ Final' = Len(names) /\ children' = << >> /\ pipes' = [k \in 0 .. 2 |-> << >>]
      /\ input' = EncodeUtf8(text) /\ (text # << >> => <<0, 0, "write">> \in ends')
    BY CommandsRun
<1>2. Len(children') = 0 /\ DOMAIN children' = {}
    BY <1>1
<1>3. ChildrenKnown' /\ AllHonest'
    BY <1>2 DEF ChildrenKnown, AllHonest
<1>4. InputOpen'
    BY <1>1, NothingEncoded DEF InputOpen
<1>5. Link'
    <2>1. SecondIn' = << >> /\ SentBy(1)' = << >>
        BY <1>2 DEF SecondIn, SentBy
    <2>2. pipes'[1] = << >> /\ << >> \o << >> = << >>
        BY <1>1
    <2>3. QED
        BY <2>1, <2>2 DEF Link
<1>6. Acted' /\ Done'
    <2>1. Len(children') # Final'
        BY <1>1, <1>2
    <2>2. helper'.stage = 2 => ~ (helper'.stage = 1)
        OBVIOUS
    <2>3. QED
        BY <2>1 DEF Acted, Done
<1>7. QED
    BY <1>3, <1>4, <1>5, <1>6 DEF CleanInv

\* A helper starts its first pipeline.
LEMMA StartClean ==
    ASSUME CleanInv, FlowInv', Start
    PROVE  CleanInv'
<1>1. << >> \in Numbers /\ TRUE \in BOOLEAN /\ FALSE \in BOOLEAN
    BY DEF Numbers
<1>2. ASSUME NEW script \in {"clipboard", "panel", "region", "screenshot"},
             NEW names \in Seq(Names), Len(names) \in {1, 2}, NEW text \in Numbers, NEW captures \in BOOLEAN,
             Opens(script, names, text, captures)
      PROVE  /\ helper'.script = script /\ helper'.stage = 1 /\ helper'.at = "exec" /\ effect' = Nothing
             /\ RunPipeline(names, text, << >>, captures) /\ Fed'
    BY <1>2 DEF Opens, Fed
<1>3. CASE Opens("clipboard", <<"list", "picker">>, << >>, TRUE)
    <2> DEFINE names == <<"list", "picker">>
    <2>1. names \in Seq(Names) /\ Len(names) = 2 /\ names[1] = "list" /\ names[2] = "picker"
        BY NameLists
    <2>2. /\ helper'.script = "clipboard" /\ helper'.stage = 1 /\ helper'.at = "exec" /\ effect' = Nothing
          /\ RunPipeline(names, << >>, << >>, TRUE) /\ Fed'
        BY <1>1, <1>2, <1>3, <2>1
    <2>3. Len(names) \in {1, 2}
        BY <2>1
    <2> HIDE DEF names
    <2>4. /\ Final' = 2 /\ commands'[1].name = "list" /\ commands'[2].name = "picker"
          /\ commands'[1].given = << >> /\ commands'[2].given = << >> /\ commands'[1].piped /\ commands'[2].piped
        BY <1>1, <2>1, <2>2, <2>3, CommandsRun
    <2>5. NamesKnown' /\ GivenKnown'
        BY <2>2, <2>4 DEF NamesKnown, GivenKnown
    <2>6. QED
        BY <1>1, <2>1, <2>2, <2>5, PipelineClean
<1>4. CASE Opens("panel", <<"picker">>, MenuInput, TRUE)
    <2> DEFINE names == <<"picker">>
    <2>1. names \in Seq(Names) /\ Len(names) = 1 /\ names[1] = "picker"
        BY NameLists
    <2>2. /\ helper'.script = "panel" /\ helper'.stage = 1 /\ helper'.at = "exec" /\ effect' = Nothing
          /\ RunPipeline(names, MenuInput, << >>, TRUE) /\ Fed'
        BY <1>1, <1>2, <1>4, <2>1, MenuInputType
    <2>3. Len(names) \in {1, 2}
        BY <2>1
    <2> HIDE DEF names
    <2>4. Final' = 1 /\ commands'[1].name = "picker" /\ commands'[1].given = << >> /\ commands'[1].piped
        BY <1>1, <2>1, <2>2, <2>3, MenuInputType, CommandsRun
    <2>5. NamesKnown' /\ GivenKnown'
        BY <2>2, <2>4 DEF NamesKnown, GivenKnown
    <2>6. QED
        BY <1>1, <2>1, <2>2, <2>5, MenuInputType, PipelineClean
<1>5. CASE Opens("region", <<"slurp">>, << >>, TRUE)
    <2> DEFINE names == <<"slurp">>
    <2>1. names \in Seq(Names) /\ Len(names) = 1 /\ names[1] = "slurp"
        BY NameLists
    <2>2. /\ helper'.script = "region" /\ helper'.stage = 1 /\ helper'.at = "exec" /\ effect' = Nothing
          /\ RunPipeline(names, << >>, << >>, TRUE) /\ Fed'
        BY <1>1, <1>2, <1>5, <2>1
    <2>3. Len(names) \in {1, 2}
        BY <2>1
    <2> HIDE DEF names
    <2>4. Final' = 1 /\ commands'[1].name = "slurp" /\ commands'[1].given = << >>
        BY <1>1, <2>1, <2>2, <2>3, CommandsRun
    <2>5. NamesKnown' /\ GivenKnown'
        BY <2>2, <2>4 DEF NamesKnown, GivenKnown
    <2>6. QED
        BY <1>1, <2>1, <2>2, <2>5, PipelineClean
<1>6. CASE Opens("screenshot", <<"save">>, << >>, FALSE)
    <2> DEFINE names == <<"save">>
    <2>1. names \in Seq(Names) /\ Len(names) = 1 /\ names[1] = "save"
        BY NameLists
    <2>2. /\ helper'.script = "screenshot" /\ helper'.stage = 1 /\ helper'.at = "exec" /\ effect' = Nothing
          /\ RunPipeline(names, << >>, << >>, FALSE) /\ Fed'
        BY <1>1, <1>2, <1>6, <2>1
    <2>3. Len(names) \in {1, 2}
        BY <2>1
    <2> HIDE DEF names
    <2>4. Final' = 1 /\ commands'[1].name = "save" /\ commands'[1].given = << >>
        BY <1>1, <2>1, <2>2, <2>3, CommandsRun
    <2>5. NamesKnown' /\ GivenKnown'
        BY <2>2, <2>4 DEF NamesKnown, GivenKnown
    <2>6. QED
        BY <1>1, <2>1, <2>2, <2>5, PipelineClean
<1>7. QED
    BY <1>3, <1>4, <1>5, <1>6 DEF Start

-----------------------------------------------------------------------------
(* The helper goes on *)

\* The output of a picker that succeeded is the line that was picked, and encodes to it again.
LEMMA PickedReturned ==
    ASSUME CleanInv, Returns(1), helper.script \in {"clipboard", "panel"}, Status(Final) = 0
    PROVE  /\ output = Append(DecodeUtf8(picked), Newline) /\ EncodeUtf8(output) = Append(picked, Newline)
           /\ DecodeUtf8(picked) \in Numbers /\ picked \in Numbers
<1> DEFINE child == children[Final]
<1>1. /\ FlowInv /\ NamesKnown /\ GivenKnown /\ ChildrenKnown /\ AllHonest /\ picked \in Numbers
      /\ helper.at = "wait" /\ helper.stage = 1 /\ Ended
    BY DEF CleanInv, FlowInv, HelpersType, Returns
<1>2. /\ Final \in 1 .. 2 /\ DOMAIN children = 1 .. Final
      /\ \A i \in 1 .. Final : children[i] \in ChildType
    BY <1>1, Basics DEF FlowInv, Started
<1>3. child \in ChildType /\ child.phase = "ended" /\ child.status = 0 /\ child.name = "picker"
      /\ commands[Final].piped
    <2>1. commands[Final].name = "picker" /\ commands[Final].piped
        BY <1>1 DEF NamesKnown, GivenKnown
    <2>2. Final \in DOMAIN children
        BY <1>2
    <2>3. QED
        BY <1>1, <1>2, <2>1, <2>2 DEF ChildrenKnown, Ended, Status
<1>4. Honest(Final)
    BY <1>1, <1>2 DEF AllHonest
<1>5. SentBy(Final) = SentOf(child)
    BY <1>2 DEF SentBy
<1>6. output = DecodeUtf8(SentBy(Final))
    BY <1>1, <1>3 DEF FlowInv, Returned
<1>7. /\ child.sent = Len(child.out) /\ IsText(child.in)
      /\ picked \in Lines(child.in) /\ child.out = Append(picked, Newline)
    <2>1. Succeeded(child) /\ Past(child)
        BY <1>3 DEF Succeeded, Past
    <2>2. QED
        BY <1>3, <1>4, <2>1 DEF Honest, HonestPicker
<1> HIDE DEF child
<1>8. SentOf(child) = Append(picked, Newline)
    <2>1. SubSeq(child.out, 1, Len(child.out)) = child.out
        BY <1>3 DEF ChildType, Numbers
    <2>2. QED
        BY <1>7, <2>1 DEF SentOf
<1>9. output = DecodeUtf8(Append(picked, Newline))
    BY <1>5, <1>6, <1>8
<1>10. EncodeUtf8(output) = Append(picked, Newline)
    <2>1. child.in \in Numbers
        BY <1>3 DEF ChildType
    <2>2. QED
        BY <1>7, <1>9, <2>1, LineComesBack
<1>11. DecodeUtf8(picked) \in Numbers
    BY <1>1, DecodeType
<1>12. QED
    BY <1>1, <1>9, <1>10, <1>11, LineDecoded

\* A helper whose programs have all ended with status 0.
LEMMA AllSucceededMeans ==
    ASSUME Ended, AllSucceeded
    PROVE  \A i \in DOMAIN children : Succeeded(children[i])
    BY DEF Ended, AllSucceeded, Status, Succeeded

\* A helper that leaves with success after its second pipeline has seen both programs succeed.
LEMMA ReturnsClean ==
    ASSUME CleanInv, FlowInv', Returns(2), Leave(IF AllSucceeded THEN 0 ELSE 1)
    PROVE  CleanInv'
<1>1. helper.at = "wait" /\ helper.stage = 2 /\ Ended
    BY DEF Returns
<1>2. CASE AllSucceeded
    <2>1. 0 \in Nat /\ Leave(0)
        BY <1>2
    <2>2. QED
        BY <1>1, <1>2, <2>1, AllSucceededMeans, LeaveClean
<1>3. CASE ~ AllSucceeded
    <2>1. 1 \in Nat /\ 1 # 0 /\ Leave(1)
        BY <1>3
    <2>2. QED
        BY <1>1, <2>1, LeaveClean
<1>4. QED
    BY <1>2, <1>3

\* A helper that leaves with the status of its only program.
LEMMA StatusClean ==
    ASSUME CleanInv, FlowInv', helper.script \in {"panel", "screenshot"}, Returns(2), Leave(Status(1))
    PROVE  CleanInv'
<1>1. helper.at = "wait" /\ helper.stage = 2 /\ Ended /\ FlowInv /\ NamesKnown
    BY DEF Returns, CleanInv
<1>2. Final = 1 /\ DOMAIN children = 1 .. 1 /\ children[1] \in ChildType
    <2>1. Final = 1
        BY <1>1 DEF NamesKnown
    <2>2. QED
        BY <1>1, <2>1, Basics DEF FlowInv, Started
<1>3. Status(1) \in Nat
    BY <1>2 DEF Status, ChildType
<1>4. Status(1) = 0 => \A i \in DOMAIN children : Succeeded(children[i])
    <2>1. \A i \in DOMAIN children : i = 1
        BY <1>2
    <2>2. QED
        BY <1>1, <1>2, <2>1 DEF Ended, Status, Succeeded
<1>5. QED
    BY <1>1, <1>3, <1>4, LeaveClean

\* Success after the first pipeline: nothing has been done, and nothing was to be done.
LEMMA NothingDone ==
    ASSUME CleanInv, FlowInv', Returns(1), NEW code \in Nat, Leave(code)
    PROVE  CleanInv'
<1>1. helper.at = "wait" /\ helper.stage = 1
    BY DEF Returns
<1>2. QED
    BY <1>1, LeaveClean

\* The second pipeline is given what was picked.
LEMMA ContinueFacts ==
    ASSUME CleanInv, NEW names \in Seq(Names), Len(names) \in {1, 2}, NEW text \in Numbers,
           NEW given \in Numbers, Continue(names, text, given)
    PROVE  /\ helper'.script = helper.script /\ helper'.stage = 2 /\ helper'.at = "exec"
           /\ picked' = picked /\ RunPipeline(names, text, given, FALSE)
           /\ FirstIn' = given /\ pipes'[0] = << >> /\ input' = EncodeUtf8(text)
<1>1. /\ helper' = [helper EXCEPT !.stage = 2, !.at = "exec"]
      /\ RunPipeline(names, text, given, FALSE) /\ UNCHANGED <<picked, effect>>
    BY Zenon DEF Continue
<1>2. helper \in HelperType /\ FALSE \in BOOLEAN
    BY DEF CleanInv, FlowInv, HelpersType
<1>3. helper'.script = helper.script /\ helper'.stage = 2 /\ helper'.at = "exec"
    BY <1>1, <1>2 DEF HelperType
<1>4. commands'[1].given = given /\ children' = << >> /\ pipes' = [k \in 0 .. 2 |-> << >>] /\ input' = EncodeUtf8(text)
    BY <1>1, <1>2, CommandsRun
<1>5. FirstIn' = given
    BY <1>4 DEF FirstIn
<1>6. pipes'[0] = << >>
    BY <1>4
<1>7. QED
    BY <1>1, <1>3, <1>4, <1>5, <1>6

\* cliphist is given the line that was picked.
LEMMA DecodeClean ==
    ASSUME CleanInv, FlowInv', helper.script = "clipboard", Returns(1), Status(2) = 0,
           Continue(<<"decode", "copy">>, output, << >>)
    PROVE  CleanInv'
<1> DEFINE names == <<"decode", "copy">>
<1>1. /\ names \in Seq(Names) /\ Len(names) = 2 /\ Len(names) \in {1, 2}
      /\ names[1] = "decode" /\ names[2] = "copy" /\ << >> \in Numbers /\ FALSE \in BOOLEAN
    BY NameLists DEF Numbers
<1>2. /\ Continue(names, output, << >>) /\ output \in Numbers /\ picked \in Numbers
    BY DEF CleanInv, FlowInv, HelpersType
<1> HIDE DEF names
<1>3. /\ helper'.script = "clipboard" /\ helper'.stage = 2 /\ helper'.at = "exec"
      /\ picked' = picked /\ RunPipeline(names, output, << >>, FALSE)
      /\ FirstIn' = << >> /\ pipes'[0] = << >> /\ input' = EncodeUtf8(output)
    BY <1>1, <1>2, ContinueFacts
<1>4. /\ Final' = 2 /\ commands'[1].name = "decode" /\ commands'[2].name = "copy"
      /\ commands'[1].given = << >> /\ commands'[2].given = << >> /\ commands'[1].piped
    BY <1>1, <1>2, <1>3, CommandsRun
<1>5. NamesKnown' /\ GivenKnown'
    BY <1>3, <1>4 DEF NamesKnown, GivenKnown
<1>6. input' = Append(picked, Newline)
    <2>1. Final = 2
        BY DEF CleanInv, NamesKnown, Returns
    <2>2. QED
        BY <1>3, <2>1, PickedReturned
<1>7. Fed'
    <2>1. (<< >> \o << >>) \o input' = input'
        <3>1. Append(picked, Newline) \in Numbers
            BY <1>2 DEF Numbers, Newline
        <3>2. << >> \o << >> = << >>
            OBVIOUS
        <3>3. << >> \o input' = input'
            BY <1>6, <3>1, ConcatEmptySeq DEF Numbers
        <3>4. QED
            BY <3>2, <3>3
    <2>2. QED
        BY <1>3, <1>6, <2>1 DEF Fed
<1>8. QED
    BY <1>1, <1>2, <1>3, <1>5, <1>7, PipelineClean

\* The command of the menu is given the selection.
LEMMA RunClean ==
    ASSUME CleanInv, FlowInv', helper.script = "panel", Returns(1), Status(1) = 0,
           Continue(<<"run">>, << >>, Selection)
    PROVE  CleanInv'
<1> DEFINE names == <<"run">>
<1>1. /\ names \in Seq(Names) /\ Len(names) = 1 /\ Len(names) \in {1, 2}
      /\ names[1] = "run" /\ << >> \in Numbers /\ FALSE \in BOOLEAN
    BY NameLists DEF Numbers
<1>2. /\ Continue(names, << >>, Selection) /\ Selection \in Numbers
    BY SelectionType DEF CleanInv
<1> HIDE DEF names
<1>3. /\ helper'.script = "panel" /\ helper'.stage = 2 /\ helper'.at = "exec"
      /\ picked' = picked /\ RunPipeline(names, << >>, Selection, FALSE)
      /\ FirstIn' = Selection /\ pipes'[0] = << >> /\ input' = << >>
    BY <1>1, <1>2, ContinueFacts, NothingEncoded
<1>4. Final' = 1 /\ commands'[1].name = "run"
    BY <1>1, <1>2, <1>3, CommandsRun
<1>5. NamesKnown' /\ GivenKnown'
    BY <1>3, <1>4 DEF NamesKnown, GivenKnown
<1>6. Selection = DecodeUtf8(picked)
    <2>1. Final = 1
        BY DEF CleanInv, NamesKnown, Returns
    <2>2. output = Append(DecodeUtf8(picked), Newline) /\ DecodeUtf8(picked) \in Numbers
        BY <2>1, PickedReturned
    <2>3. PICK text \in Numbers : text = DecodeUtf8(picked)
        BY <2>2
    <2>4. output = Append(text, Newline)
        BY <2>2, <2>3
    <2>5. output # << >> /\ output[Len(output)] = Newline /\ Front(output) = text
        BY <2>4 DEF Front, Numbers, Newline
    <2>6. QED
        BY <2>3, <2>5 DEF Selection
<1>7. Fed'
    BY <1>3, <1>6 DEF Fed
<1>8. helper'.stage = 1 => effect' = Nothing
    BY <1>3
<1>9. QED
    BY <1>1, <1>2, <1>3, <1>5, <1>7, <1>8, PipelineClean, Zenon

\* grim is given the region.
LEMMA GrimClean ==
    ASSUME CleanInv, FlowInv', helper.script = "region", Returns(1),
           Continue(<<"grim", "swappy">>, << >>, Selection)
    PROVE  CleanInv'
<1> DEFINE names == <<"grim", "swappy">>
<1>1. /\ names \in Seq(Names) /\ Len(names) = 2 /\ Len(names) \in {1, 2}
      /\ names[1] = "grim" /\ names[2] = "swappy" /\ << >> \in Numbers /\ FALSE \in BOOLEAN
    BY NameLists DEF Numbers
<1>2. /\ Continue(names, << >>, Selection) /\ Selection \in Numbers
    BY SelectionType DEF CleanInv
<1> HIDE DEF names
<1>3. /\ helper'.script = "region" /\ helper'.stage = 2 /\ helper'.at = "exec"
      /\ RunPipeline(names, << >>, Selection, FALSE)
    BY <1>1, <1>2, ContinueFacts
<1>4. /\ Final' = 2 /\ commands'[1].name = "grim" /\ commands'[2].name = "swappy"
      /\ commands'[2].given = << >> /\ commands'[1].piped
    BY <1>1, <1>2, <1>3, CommandsRun
<1>5. NamesKnown' /\ GivenKnown'
    <2>1. \A i \in 1 .. 2 : commands'[i].name \in {"grim", "swappy"}
        BY <1>4
    <2>2. QED
        BY <1>3, <1>4, <2>1 DEF NamesKnown, GivenKnown
<1>6. Fed'
    BY <1>3 DEF Fed
<1>7. QED
    BY <1>1, <1>2, <1>3, <1>5, <1>6, PipelineClean

\* wl-copy is given the image that was saved.
LEMMA CopyClean ==
    ASSUME CleanInv, FlowInv', helper.script = "screenshot", Returns(1),
           Continue(<<"copy">>, << >>, Image)
    PROVE  CleanInv'
<1> DEFINE names == <<"copy">>
<1>1. /\ names \in Seq(Names) /\ Len(names) = 1 /\ Len(names) \in {1, 2}
      /\ names[1] = "copy" /\ << >> \in Numbers /\ Image \in Numbers /\ FALSE \in BOOLEAN
    BY NameLists, ConstantTypes DEF Numbers
<1>2. Continue(names, << >>, Image)
    OBVIOUS
<1> HIDE DEF names
<1>3. /\ helper'.script = "screenshot" /\ helper'.stage = 2 /\ helper'.at = "exec"
      /\ RunPipeline(names, << >>, Image, FALSE)
      /\ FirstIn' = Image /\ pipes'[0] = << >> /\ input' = << >>
    BY <1>1, <1>2, ContinueFacts, NothingEncoded
<1>4. Final' = 1 /\ commands'[1].name = "copy"
    BY <1>1, <1>2, <1>3, CommandsRun
<1>5. NamesKnown' /\ GivenKnown'
    BY <1>3, <1>4 DEF NamesKnown, GivenKnown
<1>6. Fed'
    BY <1>3 DEF Fed
<1>7. helper'.stage = 1 => effect' = Nothing
    BY <1>3
<1>8. QED
    BY <1>1, <1>2, <1>3, <1>5, <1>6, <1>7, PipelineClean, Zenon

\* A helper goes on, or leaves, after a pipeline.
LEMMA GoesOnClean ==
    ASSUME CleanInv, FlowInv', GoesOn
    PROVE  CleanInv'
<1>1. 0 \in Nat /\ 1 \in Nat
    OBVIOUS
<1>2. CASE ClipboardPick
    BY <1>1, <1>2, NothingDone, DecodeClean, ReturnsClean DEF ClipboardPick
<1>3. CASE PanelMenu
    <2>1. \/ Returns(1) /\ Leave(0)
          \/ Returns(1) /\ Leave(1)
          \/ helper.script = "panel" /\ Returns(1) /\ Status(1) = 0 /\ Continue(<<"run">>, << >>, Selection)
          \/ helper.script = "panel" /\ Returns(2) /\ Leave(Status(1))
        BY <1>3, Zenon DEF PanelMenu
    <2>2. QED
        BY <1>1, <2>1, NothingDone, RunClean, StatusClean
<1>4. CASE ScreenshotRegion
    BY <1>1, <1>4, NothingDone, GrimClean, ReturnsClean DEF ScreenshotRegion
<1>5. CASE Screenshot
    BY <1>1, <1>5, NothingDone, CopyClean, StatusClean DEF Screenshot
<1>6. QED
    BY <1>2, <1>3, <1>4, <1>5 DEF GoesOn

-----------------------------------------------------------------------------
(* Success means that the whole of what was picked is done *)

\* The invariant holds initially.
LEMMA CleanInit == Init => CleanInv
<1> SUFFICES ASSUME Init PROVE CleanInv
    OBVIOUS
<1>1. /\ helper.script = "none" /\ helper.stage = 1 /\ helper.at = "off"
      /\ commands = << >> /\ children = << >> /\ input = << >> /\ effect = Nothing /\ Final = 0
    BY DEF Init, Final
<1>2. Len(children) = 0 /\ DOMAIN children = {}
    BY <1>1
<1>3. NamesKnown /\ GivenKnown
    BY <1>1 DEF NamesKnown, GivenKnown
<1>4. ChildrenKnown /\ AllHonest
    BY <1>2 DEF ChildrenKnown, AllHonest
<1>5. InputOpen /\ Fed /\ Link /\ Acted /\ Done
    BY <1>1 DEF InputOpen, Fed, Link, Acted, Done
<1>6. QED
    BY <1>3, <1>4, <1>5, FlowInit DEF CleanInv

\* Every step preserves the invariant.
LEMMA CleanNext == CleanInv /\ [Next]_vars => CleanInv'
<1> SUFFICES ASSUME CleanInv, [Next]_vars PROVE CleanInv'
    OBVIOUS
<1>1. FlowInv'
    BY FlowNext DEF CleanInv
<1>2. CASE Start
    BY <1>1, <1>2, StartClean
<1>3. CASE RunsPipeline
    BY <1>1, <1>3, ExecClean, WriteInputClean, FailureClean, CloseInputClean, ReadOutputClean, EndOutputClean
       DEF RunsPipeline
<1>4. CASE PipeFails
    BY <1>1, <1>4, FailureClean
<1>5. CASE GoesOn
    BY <1>1, <1>5, GoesOnClean
<1>6. CASE \E i \in DOMAIN children : Child(i) \/ Answer(i) \/ Dismiss(i) \/ Dies(i)
    BY <1>1, <1>6, ProgramsClean
<1>7. CASE UNCHANGED vars
    <2>1. UNCHANGED <<helper, commands, input, children, pipes, ends, got, output, picked, effect>>
        BY <1>7 DEF vars
    <2>2. UNCHANGED <<Final, FirstIn, SecondIn, SentBy(1), Alive>>
        BY <2>1 DEF Final, FirstIn, SecondIn, SentBy, Alive
    <2>3. InputOpen /\ Fed /\ Link /\ Done
        BY DEF CleanInv
    <2>4. InputOpen' /\ Fed' /\ Link' /\ Done'
        BY <2>1, <2>2, <2>3 DEF InputOpen, Fed, Link, Done
    <2>5. QED
        BY <1>1, <2>1, <2>2, <2>4, HelperClean
<1>8. QED
    BY <1>2, <1>3, <1>4, <1>5, <1>6, <1>7, Zenon DEF Next

\* What the programs have been given, and have done, at every moment.
THEOREM CleanExits == Spec => []CleanInv
<1>1. Init => CleanInv
    BY CleanInit
<1>2. CleanInv /\ [Next]_vars => CleanInv'
    BY CleanNext
<1>3. QED
    BY <1>1, <1>2, PTL DEF Spec

\* What the last of two programs has been given once both have succeeded.
LEMMA SecondGiven ==
    ASSUME CleanInv, Final = 2, Len(children) = 2, Succeeded(children[1]), Succeeded(children[2]),
           children[2].name \in {"copy", "swappy"}
    PROVE  children[2].in = children[1].out
<1>1. /\ FlowInv /\ Link /\ AllHonest /\ DOMAIN children = 1 .. 2
      /\ children[1] \in ChildType /\ children[2] \in ChildType
    BY Basics DEF CleanInv, FlowInv
<1>2. Honest(1) /\ Honest(2)
    BY <1>1 DEF AllHonest
<1>3. pipes[1] = << >>
    BY <1>2 DEF Honest, Past
<1>4. SubSeq(children[1].out, 1, children[1].sent) = children[1].out
    <2>1. children[1].sent = Len(children[1].out) /\ children[1].out \in Seq(Nat)
        BY <1>1, <1>2 DEF Honest, ChildType, Numbers
    <2>2. QED
        BY <2>1
<1>5. SentBy(1) = children[1].out
    BY <1>1, <1>4 DEF SentBy, SentOf
<1>6. children[2].in \o << >> = children[2].in
    BY <1>1, ConcatEmptySeq DEF ChildType, Numbers
<1>7. QED
    BY <1>1, <1>3, <1>5, <1>6 DEF Link, SecondIn

\* A helper that reports success has done nothing, because nothing was picked, or the whole
\* of what was picked (clipboard-pick.main.ts, panel-menu.main.ts, screenshot.main.ts,
\* screenshot-region.main.ts over runPipeline of process.qjs.ts).
THEOREM WholeExits == Spec => []CleanExitMeansWhole
<1>1. CleanInv => CleanExitMeansWhole
    <2> SUFFICES ASSUME CleanInv, helper.at = "off", helper.exit = 0, helper.script # "none"
                 PROVE  IF helper.stage = 1 THEN effect = Nothing ELSE effect \in Wanted
        BY DEF CleanExitMeansWhole
    <2>1. FlowInv /\ NamesKnown /\ ChildrenKnown /\ Fed /\ AllHonest /\ Acted /\ Done /\ helper \in HelperType
        BY DEF CleanInv, FlowInv, HelpersType
    <2>2. helper.stage = 1 => effect = Nothing
        BY <2>1 DEF Acted
    <2> SUFFICES ASSUME helper.stage = 2 PROVE effect \in Wanted
        BY <2>1, <2>2 DEF HelperType
    <2>3. Len(children) = Final /\ \A i \in DOMAIN children : Succeeded(children[i])
        BY <2>1 DEF Done
    <2>4. Final \in 1 .. 2 /\ DOMAIN children = 1 .. Final
        <3>1. Final # 0
            BY <2>1 DEF NamesKnown, HelperType
        <3>2. QED
            BY <2>1, <2>3, <3>1, Basics DEF FlowInv
    <2>5. effect = children[Final].in
        BY <2>1, <2>3, <2>4 DEF Acted
    <2>6. children # << >> /\ FirstIn = children[1].in
        BY <2>3, <2>4 DEF FirstIn
    <2>7. CASE helper.script = "clipboard"
        <3>1. Final = 2 /\ commands[1].name = "decode" /\ commands[2].name = "copy"
            BY <2>1, <2>7 DEF NamesKnown
        <3>2. children[1].name = "decode" /\ children[2].name = "copy" /\ Succeeded(children[1]) /\ Succeeded(children[2])
            BY <2>1, <2>3, <2>4, <3>1 DEF ChildrenKnown
        <3>3. effect = children[1].out
            BY <2>3, <2>5, <3>1, <3>2, SecondGiven
        <3>4. Honest(1) /\ Alive
            BY <2>1, <2>4 DEF AllHonest, Alive
        <3>5. children[1].out \in {entry.bytes : entry \in Named(picked)}
            BY <3>2, <3>4 DEF Honest, HonestDecode, Past
        <3>6. QED
            BY <2>7, <3>3, <3>5 DEF Wanted
    <2>8. CASE helper.script = "panel"
        <3>1. Final = 1
            BY <2>1, <2>8 DEF NamesKnown
        <3>2. effect = DecodeUtf8(picked)
            BY <2>1, <2>5, <2>6, <2>8, <3>1 DEF Fed
        <3>3. QED
            BY <2>8, <3>2 DEF Wanted
    <2>9. CASE helper.script = "region"
        <3>1. Final = 2 /\ commands[1].name = "grim" /\ commands[2].name = "swappy"
            BY <2>1, <2>9 DEF NamesKnown
        <3>2. children[1].name = "grim" /\ children[2].name = "swappy" /\ Succeeded(children[1]) /\ Succeeded(children[2])
            BY <2>1, <2>3, <2>4, <3>1 DEF ChildrenKnown
        <3>3. effect = children[1].out
            BY <2>3, <2>5, <3>1, <3>2, SecondGiven
        <3>4. Honest(1)
            BY <2>1, <2>4 DEF AllHonest
        <3>5. children[1].out = Image
            BY <3>2, <3>4 DEF Honest, HonestGrim
        <3>6. QED
            BY <2>9, <3>3, <3>5 DEF Wanted
    <2>10. CASE helper.script = "screenshot"
        <3>1. Final = 1
            BY <2>1, <2>10 DEF NamesKnown
        <3>2. effect = Image
            BY <2>1, <2>5, <2>6, <2>10, <3>1 DEF Fed
        <3>3. QED
            BY <2>10, <3>2 DEF Wanted
    <2>11. QED
        BY <2>1, <2>7, <2>8, <2>9, <2>10 DEF HelperType
<1>2. QED
    BY <1>1, CleanExits, PTL
=============================================================================
