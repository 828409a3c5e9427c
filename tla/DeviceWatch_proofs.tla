------------------------- MODULE DeviceWatch_proofs -------------------------
(***************************************************************************)
(* The safety of DeviceWatch for any set of device nodes.                  *)
(***************************************************************************)
EXTENDS DeviceWatch, TLAPS

\* A source belongs to a remembered node that is there: an open name is never opened
\* again, and a name is forgotten only once its node, and so its source, is gone.
SourcesAreOpen ==
    \A n \in Nodes : sources[n] # 0 => sources[n] = 1 /\ n \in open /\ node[n] # "absent"

\* Nothing is open before the scan.
OpenAfterScan == phase \in {"down", "loaded", "watching"} => open = {}

\* From the scan on, a readable node is open or its change is unread.
ReadyIsKnown ==
    \A n \in Nodes :
        phase \in {"scanned", "running"} /\ node[n] = "ready" => n \in open \/ n \in changes

\* The flag that holds back a second reload is never set without a timer that clears it.
PendingHasTimer == pending => timer

IInv ==
    /\ TypeOK
    /\ SourcesAreOpen
    /\ OpenAfterScan
    /\ ReadyIsKnown
    /\ PendingHasTimer
    /\ CatalogIsDue

LEMMA InitIInv == Init => IInv
<1> SUFFICES ASSUME Init PROVE IInv
    OBVIOUS
<1>1. node \in [Nodes -> {"absent", "locked", "ready"}]
    BY DEF Init
<1>2. sources \in [Nodes -> Nat] /\ SourcesAreOpen
    BY DEF Init, SourcesAreOpen
<1>3. TypeOK
    BY <1>1, <1>2 DEF Init, TypeOK
<1>4. OpenAfterScan /\ ReadyIsKnown /\ PendingHasTimer /\ CatalogIsDue
    BY DEF Init, OpenAfterScan, ReadyIsKnown, PendingHasTimer, CatalogIsDue
<1>5. QED
    BY <1>2, <1>3, <1>4 DEF IInv

\* Devices and packages change what the watch reports, never what is open.
LEMMA EnvironmentInv ==
    ASSUME IInv,
           \/ \E n \in Nodes : Plug(n) \/ Grant(n) \/ Unplug(n)
           \/ InstallWatched
           \/ InstallElsewhere
    PROVE  IInv'
<1> USE DEF IInv, TypeOK, SourcesAreOpen, OpenAfterScan, ReadyIsKnown, PendingHasTimer,
           CatalogIsDue, Reported, Watching
<1>1. ASSUME NEW n \in Nodes, Plug(n)
      PROVE  IInv'
    BY <1>1 DEF Plug
<1>2. ASSUME NEW n \in Nodes, Grant(n)
      PROVE  IInv'
    BY <1>2 DEF Grant
<1>3. ASSUME NEW n \in Nodes, Unplug(n)
      PROVE  IInv'
    BY <1>3 DEF Unplug
<1>4. CASE InstallWatched
    BY <1>4 DEF InstallWatched
<1>5. CASE InstallElsewhere
    BY <1>5 DEF InstallElsewhere
<1>6. QED
    BY <1>1, <1>2, <1>3, <1>4, <1>5

LEMMA StartInv ==
    ASSUME IInv, Load \/ Watch \/ Scan \/ Run
    PROVE  IInv'
<1> USE DEF IInv, TypeOK, SourcesAreOpen, OpenAfterScan, ReadyIsKnown, PendingHasTimer,
           CatalogIsDue
<1>1. CASE Load
    BY <1>1 DEF Load
<1>2. CASE Watch
    BY <1>2 DEF Watch
<1>3. CASE Scan
    BY <1>3 DEF Scan, AddDevices
<1>4. CASE Run
    BY <1>4 DEF Run
<1>5. QED
    BY <1>1, <1>2, <1>3, <1>4

LEMMA HandleChangesInv ==
    ASSUME IInv, HandleChanges
    PROVE  IInv'
<1> DEFINE added == {n \in (changes \cap Nodes) \ open : node[n] = "ready"}
<1>1. /\ phase = "running" /\ phase' = "running" /\ changes' = {} /\ node' = node
      /\ sources' = [n \in Nodes |-> IF n \in added THEN sources[n] + 1 ELSE sources[n]]
      /\ open' = {n \in open \cup added : node[n] # "absent"}
      /\ ScheduleReload
    BY DEF HandleChanges
<1>2. added \subseteq Nodes \ open /\ \A n \in added : node[n] = "ready"
    OBVIOUS
<1>3. /\ catalog' \in {"fresh", "due", "overlooked"} /\ pending' \in BOOLEAN /\ timer' \in BOOLEAN
      /\ PendingHasTimer'
      /\ catalog' = "due" => timer'
    BY <1>1 DEF ScheduleReload, IInv, TypeOK, PendingHasTimer, CatalogIsDue
<1>4. SourcesAreOpen'
    <2> SUFFICES ASSUME NEW n \in Nodes, sources'[n] # 0
                 PROVE  sources'[n] = 1 /\ n \in open' /\ node'[n] # "absent"
        BY DEF SourcesAreOpen
    <2>1. CASE n \in added
        BY <1>1, <1>2, <2>1 DEF IInv, SourcesAreOpen
    <2>2. CASE n \notin added
        BY <1>1, <2>2 DEF IInv, SourcesAreOpen
    <2>3. QED
        BY <2>1, <2>2
<1>5. ReadyIsKnown'
    BY <1>1 DEF IInv, ReadyIsKnown
<1>6. TypeOK'
    BY <1>1, <1>2, <1>3 DEF IInv, TypeOK
<1>7. QED
    BY <1>1, <1>3, <1>4, <1>5, <1>6 DEF IInv, OpenAfterScan, CatalogIsDue

LEMMA NextIInv == IInv /\ [Next]_vars => IInv'
<1> SUFFICES ASSUME IInv, [Next]_vars PROVE IInv'
    OBVIOUS
<1>1. CASE Reload
    BY <1>1 DEF Reload, IInv, TypeOK, SourcesAreOpen, OpenAfterScan, ReadyIsKnown,
                PendingHasTimer, CatalogIsDue
<1>2. CASE End
    BY <1>2 DEF End, IInv, TypeOK, SourcesAreOpen, OpenAfterScan, ReadyIsKnown,
                PendingHasTimer, CatalogIsDue
<1>3. CASE UNCHANGED vars
    BY <1>3 DEF vars, IInv, TypeOK, SourcesAreOpen, OpenAfterScan, ReadyIsKnown,
                PendingHasTimer, CatalogIsDue
<1>4. QED
    BY <1>1, <1>2, <1>3, EnvironmentInv, StartInv, HandleChangesInv DEF Next

LEMMA SpecIInv == Spec => []IInv
    BY InitIInv, NextIInv, PTL DEF Spec

-----------------------------------------------------------------------------
\* The state of the start, the devices and the watch keeps its types.
THEOREM WatchTypeCorrect == Spec => []TypeOK
<1>1. IInv => TypeOK
    BY DEF IInv
<1>2. QED
    BY <1>1, SpecIInv, PTL

\* No device is ever read by two sources, however devices come and go.
THEOREM NoDeviceIsReadTwice == Spec => []ReadOnce
<1>1. ASSUME IInv PROVE ReadOnce
    <2>1. ASSUME NEW n \in Nodes PROVE sources[n] <= 1
        <3>1. sources[n] = 0 \/ sources[n] = 1
            BY <1>1 DEF IInv, SourcesAreOpen
        <3>2. QED
            BY <3>1
    <2>2. QED
        BY <2>1 DEF ReadOnce
<1>2. QED
    BY <1>1, SpecIInv, PTL

\* No device is missed, whether it comes before, during or after the start.
THEOREM NoDeviceIsMissed == Spec => []DevicesAreOpened
<1>1. IInv => DevicesAreOpened
    BY DEF IInv, ReadyIsKnown, DevicesAreOpened
<1>2. QED
    BY <1>1, SpecIInv, PTL

\* A reported change of the applications always has a reload ahead of it.
THEOREM NoChangeIsForgotten == Spec => []CatalogIsDue
<1>1. IInv => CatalogIsDue
    BY DEF IInv
<1>2. QED
    BY <1>1, SpecIInv, PTL
=============================================================================
