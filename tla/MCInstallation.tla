---------------------------- MODULE MCInstallation ----------------------------
(* Desktops and guests with and without SSH; from a live medium, from an installed host, *)
(* and from a host that is another machine; and a target that is only a partition.       *)
EXTENDS Installation

Desktop == [platform |-> "physical", ssh |-> TRUE, wholeDisk |-> TRUE,
            optimized |-> FALSE, live |-> TRUE, sameHost |-> TRUE]
Guest == [Desktop EXCEPT !.platform = "hyper_v"]
InstalledHost(m) == [m EXCEPT !.live = FALSE, !.optimized = TRUE]
AnotherHost(m) == [InstalledHost(m) EXCEPT !.sameHost = FALSE]
NoSsh(m) == [m EXCEPT !.ssh = FALSE]
Partition(m) == [m EXCEPT !.wholeDisk = FALSE]

MCMachines == {Desktop, NoSsh(Desktop), InstalledHost(Desktop), Partition(Desktop),
               Guest, NoSsh(Guest), AnotherHost(Guest), Partition(AnotherHost(NoSsh(Guest)))}
=============================================================================
