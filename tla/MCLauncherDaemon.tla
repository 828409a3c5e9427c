-------------------------- MODULE MCLauncherDaemon --------------------------
(***************************************************************************)
(* Small instances of the daemon with the code's own ranking.              *)
(***************************************************************************)
EXTENDS LauncherDaemon, Rank

CONSTANTS e1, e2, e3

A == 97
B == 98

MCChar == {A, B}
MCTexts == {<<B>>}
MCEntryName == (e1 :> <<A>>) @@ (e2 :> <<B>>) @@ (e3 :> <<A, B>>)

\* The catalog grows, shrinks and changes the index of an entry.
MCCatalogs == {<<e1, e2, e3>>, <<e3, e2>>}
MCMenus == {<<<<A, B>>, <<A>>, <<B>>>>}
MCLists == {Names(catalog) : catalog \in MCCatalogs} \cup MCMenus

\* Clients and surfaces are only compared and stored.
MCSymmetry == Permutations(Clients) \cup Permutations(Surfaces)

\* The instance for liveness: what a list holds does not matter there.
MCOneCatalog == {<<e2>>}
MCOneMenu == {<<<<B>>>>}
MCOneList == {Names(<<e2>>)} \cup MCOneMenu
=============================================================================
