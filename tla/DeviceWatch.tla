---------------------------- MODULE DeviceWatch -----------------------------
(***************************************************************************)
(* How the daemon keeps up with input devices and application directories  *)
(* (launcher/daemon/src/main.rs): the start that loads the catalog, then   *)
(* watches, then scans for devices; the changes the watch reports, read in *)
(* batches; the set of open devices; and the delayed reload.               *)
(*                                                                         *)
(* A device node appears locked and becomes readable when udev grants it.  *)
(* A change names its node and nothing else, and the handler looks at the  *)
(* file system as it is by then, so unread changes are a set.              *)
(***************************************************************************)
EXTENDS Naturals

CONSTANTS
    Nodes,        \* names of event device nodes of keyboards and pointers
    Applications  \* the change reported for an application directory

ASSUME WatchAssumption == Applications \notin Nodes

VARIABLES
    phase,    \* how far the daemon is
    node,     \* per name: absent, locked or ready
    sources,  \* per name: event loop sources that read the device there is now
    open,     \* the names in open_devices
    changes,  \* changes reported and not read yet
    catalog,  \* the catalog against the disk: fresh, due (a reported change) or overlooked
    pending,  \* reload_pending
    timer     \* whether a reload is scheduled

vars == <<phase, node, sources, open, changes, catalog, pending, timer>>

TypeOK ==
    /\ phase \in {"down", "loaded", "watching", "scanned", "running"}
    /\ node \in [Nodes -> {"absent", "locked", "ready"}]
    /\ sources \in [Nodes -> Nat]
    /\ open \subseteq Nodes
    /\ changes \subseteq Nodes \cup {Applications}
    /\ catalog \in {"fresh", "due", "overlooked"}
    /\ pending \in BOOLEAN
    /\ timer \in BOOLEAN

Init ==
    /\ phase = "down"
    /\ node \in [Nodes -> {"absent", "ready"}]
    /\ sources = [n \in Nodes |-> 0]
    /\ open = {}
    /\ changes = {}
    /\ catalog = "fresh"
    /\ pending = FALSE
    /\ timer = FALSE

-----------------------------------------------------------------------------
\* Devices, udev and packages.

\* Mutant: the watch is set up after the scan.
WatchingLate == phase = "running"

Watching == phase \in {"watching", "scanned", "running"}

Reported(change) == changes' = IF Watching THEN changes \cup {change} ELSE changes

Plug(n) ==
    /\ node[n] = "absent"
    /\ node' = [node EXCEPT ![n] = "locked"]
    /\ Reported(n)
    /\ UNCHANGED <<phase, sources, open, catalog, pending, timer>>

Grant(n) ==
    /\ node[n] = "locked"
    /\ node' = [node EXCEPT ![n] = "ready"]
    /\ Reported(n)
    /\ UNCHANGED <<phase, sources, open, catalog, pending, timer>>

\* The kernel resets a node's permissions before it removes the node, and the watch
\* reports that.  The next read of the device fails, which removes its sources.
Unplug(n) ==
    /\ node[n] # "absent"
    /\ node' = [node EXCEPT ![n] = "absent"]
    /\ sources' = [sources EXCEPT ![n] = 0]
    /\ Reported(n)
    /\ UNCHANGED <<phase, open, catalog, pending, timer>>

\* A package changes a watched directory, or one that is not: a directory that did not
\* exist at the start, or one below those that are watched.
InstallWatched ==
    /\ catalog' = IF Watching THEN "due" ELSE "overlooked"
    /\ Reported(Applications)
    /\ UNCHANGED <<phase, node, sources, open, pending, timer>>

InstallElsewhere ==
    /\ catalog' = IF catalog = "due" THEN "due" ELSE "overlooked"
    /\ UNCHANGED <<phase, node, sources, open, changes, pending, timer>>

-----------------------------------------------------------------------------
\* The start: catalog::load(), then the watches, then the scan of /dev/input, then the loop.

Load ==
    /\ phase = "down"
    /\ phase' = "loaded"
    /\ catalog' = "fresh"
    /\ UNCHANGED <<node, sources, open, changes, pending, timer>>

Watch ==
    /\ phase = "loaded"
    /\ phase' = "watching"
    /\ UNCHANGED <<node, sources, open, changes, catalog, pending, timer>>

\* add_input_device() on some names: a node that cannot be opened is not remembered.
AddDevices(names) ==
    LET added == {n \in names \ open : node[n] = "ready"}
    IN  /\ sources' = [n \in Nodes |-> IF n \in added THEN sources[n] + 1 ELSE sources[n]]
        /\ open' = open \cup added

\* open_input_devices()
Scan ==
    /\ phase = "watching"
    /\ phase' = "scanned"
    /\ AddDevices(Nodes)
    /\ UNCHANGED <<node, changes, catalog, pending, timer>>

Run ==
    /\ phase = "scanned"
    /\ phase' = "running"
    /\ UNCHANGED <<node, sources, open, changes, catalog, pending, timer>>

-----------------------------------------------------------------------------
\* The event loop.

\* Mutant: after a failure the flag is not reset.
ScheduleReloadOnce ==
    IF Applications \in changes /\ ~pending
    THEN \/ /\ pending' = TRUE
            /\ timer' = TRUE
            /\ UNCHANGED catalog
         \/ /\ catalog' = IF catalog = "due" THEN "overlooked" ELSE catalog
            /\ pending' = TRUE
            /\ UNCHANGED timer
    ELSE UNCHANGED <<catalog, pending, timer>>

\* The reload is scheduled unless one is, which may fail.
ScheduleReload ==
    IF Applications \in changes /\ ~pending
    THEN \/ /\ pending' = TRUE
            /\ timer' = TRUE
            /\ UNCHANGED catalog
         \/ /\ catalog' = IF catalog = "due" THEN "overlooked" ELSE catalog
            /\ UNCHANGED <<pending, timer>>
    ELSE UNCHANGED <<catalog, pending, timer>>

\* Mutant: a change of an application directory is taken for one of a device.
HandleChangesOfAnyWatch ==
    /\ phase = "running"
    /\ changes # {}
    /\ changes' = {}
    /\ LET added == {n \in changes \ open : n \in Nodes => node[n] = "ready"}
       IN  /\ sources' = [n \in Nodes |-> IF n \in added THEN sources[n] + 1 ELSE sources[n]]
           /\ open' = open \cup added
    /\ ScheduleReload
    /\ UNCHANGED <<phase, node>>

\* Mutant: devices that are open already are opened again.
HandleChangesReopening ==
    /\ phase = "running"
    /\ changes # {}
    /\ changes' = {}
    /\ LET added == {n \in changes \cap Nodes : node[n] = "ready"}
       IN  /\ sources' = [n \in Nodes |-> IF n \in added THEN sources[n] + 1 ELSE sources[n]]
           /\ open' = {n \in open \cup added : node[n] # "absent"}
    /\ ScheduleReload
    /\ UNCHANGED <<phase, node>>

\* The handler of the watch: opens what is new, forgets what is gone, then reloads later.
HandleChanges ==
    /\ phase = "running"
    /\ changes # {}
    /\ changes' = {}
    /\ LET added == {n \in (changes \cap Nodes) \ open : node[n] = "ready"}
       IN  /\ sources' = [n \in Nodes |-> IF n \in added THEN sources[n] + 1 ELSE sources[n]]
           /\ open' = {n \in open \cup added : node[n] # "absent"}
    /\ ScheduleReload
    /\ UNCHANGED <<phase, node>>

\* Mutant: the reload waits until nothing changes.
ReloadWhenQuiet ==
    /\ timer
    /\ changes = {}
    /\ timer' = FALSE
    /\ pending' = FALSE
    /\ catalog' = "fresh"
    /\ UNCHANGED <<phase, node, sources, open, changes>>

\* The timer fires: reload_catalog() reads the disk as it is.
Reload ==
    /\ timer
    /\ timer' = FALSE
    /\ pending' = FALSE
    /\ catalog' = "fresh"
    /\ UNCHANGED <<phase, node, sources, open, changes>>

\* The process ends, at any point.
End ==
    /\ phase # "down"
    /\ phase' = "down"
    /\ sources' = [n \in Nodes |-> 0]
    /\ open' = {}
    /\ changes' = {}
    /\ catalog' = "fresh"
    /\ pending' = FALSE
    /\ timer' = FALSE
    /\ UNCHANGED node

Next ==
    \/ \E n \in Nodes : Plug(n) \/ Grant(n) \/ Unplug(n)
    \/ InstallWatched
    \/ InstallElsewhere
    \/ Load
    \/ Watch
    \/ Scan
    \/ Run
    \/ HandleChanges
    \/ Reload
    \/ End

\* The event loop reads the watch when it is ready and fires its timer.
Spec ==
    /\ Init
    /\ [][Next]_vars
    /\ WF_vars(Scan)
    /\ WF_vars(Run)
    /\ WF_vars(HandleChanges)
    /\ WF_vars(Reload)

-----------------------------------------------------------------------------
\* No device is read by two sources: every key would count twice, a Meta+F12 chord would
\* suspend and restore the shortcuts at once.
ReadOnce == \A n \in Nodes : sources[n] <= 1

\* No device is missed, whenever it appears and whenever udev grants it: during the
\* start, before the scan, or while another change is being handled.
DevicesAreOpened ==
    \A n \in Nodes : phase = "running" /\ node[n] = "ready" /\ n \notin changes => n \in open

\* A reported change of the applications is never forgotten: it is unread, or a reload is
\* scheduled that has not read the disk yet.
CatalogIsDue == catalog = "due" => Applications \in changes \/ timer

\* A reported change reaches the catalog however often packages change, unless
\* scheduling the reload fails.
CatalogCatchesUp == catalog = "due" ~> catalog # "due"

\* A replugged device reopens: once the changes are read, every readable device is read.
ReplugReopens ==
    \A n \in Nodes : phase = "running" /\ changes = {} /\ node[n] = "ready" => sources[n] = 1
=============================================================================
