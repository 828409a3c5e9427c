-------------------------------- MODULE Rank --------------------------------
(***************************************************************************)
(* The ranking of names against a query (launcher/core/src/rank.rs).       *)
(*                                                                         *)
(* A character is its code point and a text a sequence of them, so that    *)
(* comparing texts compares code points, which is the order of UTF-8       *)
(* strings.  Case folding and the notion of an alphanumeric character are  *)
(* those of the ASCII range.  Positions and indices count from 1.          *)
(***************************************************************************)
EXTENDS Naturals, Sequences, FiniteSets, SequencesExt

\* A tier is its rank in the display order; no tier means no match.
Prefix == 1
WordStart == 2
Anywhere == 3
NoMatch == 4

Space == 32

Alphanumeric == (48..57) \cup (65..90) \cup (97..122)

Lowered(text) ==
    [i \in DOMAIN text |-> IF text[i] \in 65..90 THEN text[i] + 32 ELSE text[i]]

OccursAt(name, query, p) ==
    /\ p + Len(query) <= Len(name) + 1
    /\ \A i \in DOMAIN query : name[p + i - 1] = query[i]

\* The positions str::match_indices reports: from the left, and never inside
\* an occurrence it has already reported.
MatchIndices(name, query) ==
    LET reported[p \in 1..Len(name)] ==
            /\ OccursAt(name, query, p)
            /\ \A r \in 1..(p - 1) : reported[r] => r + Len(query) <= p
    IN  {p \in 1..Len(name) : reported[p]}

Tier(name, query) ==
    LET found == MatchIndices(name, query)
    IN  IF OccursAt(name, query, 1) THEN Prefix
        ELSE IF \E p \in found \ {1} : name[p - 1] \notin Alphanumeric THEN WordStart
        ELSE IF found # {} THEN Anywhere ELSE NoMatch

\* The order of two texts, as Rust compares strings.
TextLess(s, t) ==
    \E k \in 1..Len(t) :
        /\ \A i \in 1..(k - 1) : i <= Len(s) /\ s[i] = t[i]
        /\ k <= Len(s) => s[k] < t[k]

\* The indices of the names that match, by tier, then by name when the order is
\* alphabetical, then by index.
RankedSearch(query, names, order) ==
    LET q == Lowered(query)
        lowered == [i \in DOMAIN names |-> Lowered(names[i])]
        tier == [i \in DOMAIN names |-> Tier(lowered[i], q)]
        KeyLess(i, j) == order = "alphabetical" /\ TextLess(lowered[i], lowered[j])
        Before(i, j) ==
            \/ tier[i] < tier[j]
            \/ tier[i] = tier[j] /\ KeyLess(i, j)
            \/ tier[i] = tier[j] /\ ~KeyLess(j, i) /\ i < j
        found == {i \in DOMAIN names : tier[i] # NoMatch}
        Place(i) == Cardinality({j \in found : Before(j, i)}) + 1
    IN  [n \in 1 .. Cardinality(found) |-> CHOOSE i \in found : Place(i) = n]

-----------------------------------------------------------------------------
\* What the ranking promises, independent of how the code finds occurrences.

ContainsText(name, query) ==
    \E p \in 1..(Len(name) + 1) : OccursAt(name, query, p)

StartsWord(name, query) ==
    \E p \in 2..Len(name) :
        OccursAt(name, query, p) /\ name[p - 1] \notin Alphanumeric

PromisedTier(name, query) ==
    IF OccursAt(name, query, 1) THEN Prefix
    ELSE IF StartsWord(name, query) THEN WordStart ELSE Anywhere

\* matches lists every name that contains the query, once, better tiers first
\* and ties in the order asked for.
IsPromisedRanking(matches, query, names, order) ==
    LET q == Lowered(query)
        Low(i) == Lowered(names[i])
    IN  /\ ToSet(matches) = {i \in DOMAIN names : ContainsText(Low(i), q)}
        /\ Len(matches) = Cardinality(ToSet(matches))
        /\ \A a, b \in DOMAIN matches :
              LET i == matches[a]
                  j == matches[b]
                  ti == PromisedTier(Low(i), q)
                  tj == PromisedTier(Low(j), q)
              IN  a < b => /\ ti <= tj
                           /\ (ti = tj /\ order = "alphabetical") => ~TextLess(Low(j), Low(i))
                           /\ (ti = tj /\ (order = "given" \/ Low(i) = Low(j))) => i < j
=============================================================================
