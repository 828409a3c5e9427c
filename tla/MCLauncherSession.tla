------------------------- MODULE MCLauncherSession --------------------------
(***************************************************************************)
(* A session over real rankings: Search is the code's own algorithm.       *)
(***************************************************************************)
EXTENDS LauncherSession

A == 97
B == 98
UpperA == 65

MCChar == {A, B, UpperA, Space}
MCTexts == {<<>>, <<A>>, <<B>>, <<UpperA>>, <<3>>, <<A, B>>}
MCSpacedTexts == {<<A>>, <<B>>, <<Space>>}
MCScrollSteps == {-1, 1}

\* Names with upper case, a repeated name, words after a space, and every tier for "a" and "ab".
MCLists == {
    <<>>,
    <<<<B>>, <<UpperA, B>>, <<B, Space, A, B>>, <<B, A, B>>, <<A>>>>,
    <<<<B, B, A>>, <<A, B>>, <<A, B>>, <<B, Space, A>>>>}

\* "ba a a" holds "a a" twice, the second time at the start of a word.
MCSpacedLists == {
    <<<<B, A, Space, A, Space, A>>, <<B, A, Space, A>>, <<B, Space, A, Space, A>>>>}
=============================================================================
