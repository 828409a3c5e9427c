------------------------- MODULE TapDevices_proofs --------------------------
(***************************************************************************)
(* The safety of TapDevices for any set of devices, any keys on them, any  *)
(* tap window and any bounds.                                              *)
(***************************************************************************)
EXTENDS TapDevices, TLAPS

-----------------------------------------------------------------------------
\* The recognizer.

\* The recognizer keeps its type, and changes the guard exactly when it says so: what
\* handle_key_event() needs to keep the flag file in step.
LEMMA FeedSafe ==
    ASSUME NEW r \in RecognizerType, NEW event \in Events
    PROVE  /\ Feed(r, event).recognizer \in RecognizerType
           /\ Feed(r, event).action # "guard" => Feed(r, event).recognizer.suspended = r.suspended
           /\ Feed(r, event).action = "tap" => ~r.suspended
<1> DEFINE f == Feed(r, event)
<1>1. event.code \in Codes /\ event.value \in {"press", "release"} /\ event.time \in Nat
    BY DevicesAssumption DEF Events, Times
<1>2. /\ [r EXCEPT !.metaDownAt = event.time, !.armed = TRUE] \in RecognizerType
      /\ [r EXCEPT !.metaDownAt = NotHeld, !.armed = FALSE] \in RecognizerType
      /\ [r EXCEPT !.armed = FALSE, !.suspended = ~@] \in RecognizerType
      /\ [r EXCEPT !.armed = FALSE] \in RecognizerType
    BY <1>1 DEF RecognizerType
<1>3. /\ [r EXCEPT !.metaDownAt = event.time, !.armed = TRUE].suspended = r.suspended
      /\ [r EXCEPT !.metaDownAt = NotHeld, !.armed = FALSE].suspended = r.suspended
      /\ [r EXCEPT !.armed = FALSE].suspended = r.suspended
    BY DEF RecognizerType
<1>4. CASE event.code = "meta" /\ event.value = "press"
    <2>1. f = Fed([r EXCEPT !.metaDownAt = event.time, !.armed = TRUE], "none")
        BY <1>4 DEF Feed, FeedMeta
    <2>2. /\ f.recognizer = [r EXCEPT !.metaDownAt = event.time, !.armed = TRUE]
          /\ f.action = "none"
        BY <2>1 DEF Fed
    <2>3. QED
        BY <2>2, <1>2, <1>3
<1>5. CASE event.code = "meta" /\ event.value = "release"
    <2>1. f = Fed([r EXCEPT !.metaDownAt = NotHeld, !.armed = FALSE],
                  IF r.armed /\ WithinWindow(r, event.time) /\ ~r.suspended THEN "tap" ELSE "none")
        BY <1>5 DEF Feed, FeedMeta
    <2>2. /\ f.recognizer = [r EXCEPT !.metaDownAt = NotHeld, !.armed = FALSE]
          /\ f.action # "guard" /\ (f.action = "tap" => ~r.suspended)
        BY <2>1 DEF Fed
    <2>3. QED
        BY <2>2, <1>2, <1>3
<1>6. CASE event.code # "meta" /\ event.value # "press"
    <2>1. f = Fed(r, "none")
        BY <1>6 DEF Feed
    <2>2. QED
        BY <2>1 DEF Fed
<1>7. CASE event.code = "f12" /\ event.value = "press" /\ r.metaDownAt # NotHeld
    <2>1. f = Fed([r EXCEPT !.armed = FALSE, !.suspended = ~@], "guard")
        BY <1>7 DEF Feed
    <2>2. /\ f.recognizer = [r EXCEPT !.armed = FALSE, !.suspended = ~@]
          /\ f.action = "guard"
        BY <2>1 DEF Fed
    <2>3. QED
        BY <2>2, <1>2
<1>8. CASE /\ event.code # "meta" /\ event.value = "press"
           /\ ~(event.code = "f12" /\ r.metaDownAt # NotHeld)
    <2>1. f = Fed([r EXCEPT !.armed = FALSE], "none")
        BY <1>8 DEF Feed
    <2>2. f.recognizer = [r EXCEPT !.armed = FALSE] /\ f.action = "none"
        BY <2>1 DEF Fed
    <2>3. QED
        BY <2>2, <1>2, <1>3
<1>9. QED
    BY <1>1, <1>4, <1>5, <1>6, <1>7, <1>8

-----------------------------------------------------------------------------
\* The invariant.

\* What is queued is queued for a daemon that runs.
UnreadIsForDaemon == ~running => open = {} /\ unread = [d \in Devices |-> <<>>]

IInv ==
    /\ TypeOK
    /\ UnreadIsForDaemon
    /\ GuardIsRecorded
    /\ SuspendedIsSilent

LEMMA InitIInv == Init => IInv
<1> SUFFICES ASSUME Init PROVE IInv
    OBVIOUS
<1>1. NoPress \in Since
    BY DEF NoPress, Since
<1>2. recognizer \in RecognizerType /\ recognizer.suspended = flag
    BY DEF Init, NewRecognizer, RecognizerType
<1>3. now \in Times
    BY DevicesAssumption DEF Init, Times
<1>4. since \in [Devices -> Since] /\ unread \in [Devices -> Seq(Events)]
    BY <1>1 DEF Init
<1>5. TypeOK
    BY <1>2, <1>3, <1>4 DEF Init, TypeOK
<1>6. UnreadIsForDaemon /\ GuardIsRecorded /\ SuspendedIsSilent
    BY <1>2 DEF Init, UnreadIsForDaemon, GuardIsRecorded, SuspendedIsSilent
<1>7. QED
    BY <1>5, <1>6 DEF IInv

LEMMA PassInv ==
    ASSUME IInv, Pass
    PROVE  IInv'
<1>1. now' \in Times
    BY DevicesAssumption DEF Pass, IInv, TypeOK, Times
<1>2. QED
    BY <1>1 DEF Pass, DaemonUnchanged, IInv, TypeOK, UnreadIsForDaemon, GuardIsRecorded,
                SuspendedIsSilent

\* The kernel queues a well formed event, for a daemon that runs.
LEMMA QueueInv ==
    ASSUME IInv, NEW d \in Devices, NEW code \in Codes, NEW value \in {"press", "release"},
           Queue(d, code, value)
    PROVE  unread' \in [Devices -> Seq(Events)] /\ UnreadIsForDaemon'
<1> DEFINE event == [code |-> code, value |-> value, time |-> now, since |-> since[d]]
<1>1. event \in Events
    BY DEF IInv, TypeOK, Events
<1>2. Append(unread[d], event) \in Seq(Events)
    BY <1>1 DEF IInv, TypeOK
<1>3. unread' = IF d \in open THEN [unread EXCEPT ![d] = Append(unread[d], event)] ELSE unread
    BY DEF Queue
<1>4. unread' \in [Devices -> Seq(Events)]
    BY <1>2, <1>3 DEF IInv, TypeOK
<1>5. UnreadIsForDaemon'
    BY <1>3 DEF Queue, DaemonUnchanged, IInv, UnreadIsForDaemon
<1>6. QED
    BY <1>4, <1>5

LEMMA KeyInv ==
    ASSUME IInv, NEW d \in Devices, NEW code \in CodesOf[d],
           PressKey(d, code) \/ ReleaseKey(d, code)
    PROVE  IInv'
<1>1. code \in Codes
    BY DevicesAssumption
<1>2. NoPress \in Since /\ [time |-> now, pressed |-> {}] \in Since
    BY DEF NoPress, Since, IInv, TypeOK
<1>3. CASE PressKey(d, code)
    <2>1. Queue(d, code, "press")
        BY <1>3 DEF PressKey
    <2>2. unread' \in [Devices -> Seq(Events)] /\ UnreadIsForDaemon'
        BY <1>1, <2>1, QueueInv
    <2>3. held' \subseteq Devices \X Codes
        BY <1>1, <1>3 DEF PressKey, IInv, TypeOK
    <2>4. ASSUME NEW e \in Devices PROVE [since[e] EXCEPT !.pressed = @ \cup {d}] \in Since
        <3>1. since[e] \in [time: Times \cup {NotHeld}, pressed: SUBSET Devices]
            BY DEF Since, IInv, TypeOK
        <3>2. since[e].pressed \cup {d} \in SUBSET Devices
            BY <3>1
        <3>3. QED
            BY <3>1, <3>2 DEF Since
    <2>5. since' \in [Devices -> Since]
        BY <1>2, <1>3, <2>4 DEF PressKey, IInv, TypeOK
    <2>6. QED
        BY <2>1, <2>2, <2>3, <2>5 DEF Queue, DaemonUnchanged, IInv, TypeOK, GuardIsRecorded,
                                      SuspendedIsSilent
<1>4. CASE ReleaseKey(d, code)
    <2>1. Queue(d, code, "release")
        BY <1>4 DEF ReleaseKey
    <2>2. unread' \in [Devices -> Seq(Events)] /\ UnreadIsForDaemon'
        BY <1>1, <2>1, QueueInv
    <2>3. held' \subseteq Devices \X Codes
        BY <1>4 DEF ReleaseKey, IInv, TypeOK
    <2>4. since' \in [Devices -> Since]
        BY <1>2, <1>4 DEF ReleaseKey, IInv, TypeOK
    <2>5. QED
        BY <2>1, <2>2, <2>3, <2>4 DEF Queue, DaemonUnchanged, IInv, TypeOK, GuardIsRecorded,
                                      SuspendedIsSilent
<1>5. QED
    BY <1>3, <1>4

LEMMA PlugInv ==
    ASSUME IInv, NEW d \in Devices, Plug(d) \/ Unplug(d)
    PROVE  IInv'
<1>1. CASE Plug(d)
    BY <1>1 DEF Plug, DaemonUnchanged, IInv, TypeOK, UnreadIsForDaemon, GuardIsRecorded,
                SuspendedIsSilent
<1>2. CASE Unplug(d)
    <2>1. unread' \in [Devices -> Seq(Events)]
        BY <1>2 DEF Unplug, IInv, TypeOK
    <2>2. since' \in [Devices -> Since]
        BY <1>2 DEF Unplug, IInv, TypeOK, Since, NoPress
    <2>3. TypeOK'
        BY <1>2, <2>1, <2>2 DEF Unplug, IInv, TypeOK
    <2>4. UnreadIsForDaemon'
        BY <1>2 DEF Unplug, IInv, TypeOK, UnreadIsForDaemon
    <2>5. QED
        BY <1>2, <2>3, <2>4 DEF Unplug, IInv, GuardIsRecorded, SuspendedIsSilent
<1>3. QED
    BY <1>1, <1>2

\* Feeding an event: the flag file follows the recognizer, and a suspended recognizer is
\* silent, so a tap is reported only while the guard is not on record.
LEMMA FeedInv ==
    ASSUME IInv, NEW d \in Devices, FeedNext(d)
    PROVE  IInv'
<1> DEFINE event == Head(unread[d])
<1> DEFINE fed == Feed(recognizer, event)
<1>1. /\ unread' = [unread EXCEPT ![d] = Tail(@)] /\ unread[d] # <<>>
      /\ reading' = IF Len(unread[d]) > 1 THEN d ELSE NoDevice
      /\ recognizer' = fed.recognizer
      /\ tap' = IF fed.action = "tap" THEN event ELSE NoTap
      /\ IF fed.action = "guard" THEN GuardChanged(fed.recognizer.suspended)
                                 ELSE UNCHANGED <<flag, recorded>>
      /\ UNCHANGED <<now, held, since, attached, running, open>>
    BY DEF FeedNext
<1>2. unread[d] \in Seq(Events)
    BY DEF IInv, TypeOK
<1>3. event \in Events /\ Tail(unread[d]) \in Seq(Events)
    BY <1>1, <1>2
<1>4. /\ fed.recognizer \in RecognizerType
      /\ fed.action # "guard" => fed.recognizer.suspended = recognizer.suspended
      /\ fed.action = "tap" => ~recognizer.suspended
    BY <1>3, FeedSafe DEF IInv, TypeOK
<1>5. running
    BY <1>1 DEF IInv, UnreadIsForDaemon
<1>6. flag' \in BOOLEAN /\ recorded' \in BOOLEAN
    BY <1>1, <1>4 DEF GuardChanged, IInv, TypeOK, RecognizerType
<1>7. unread' \in [Devices -> Seq(Events)]
    BY <1>1, <1>3 DEF IInv, TypeOK
<1>8. TypeOK'
    BY <1>1, <1>3, <1>4, <1>6, <1>7 DEF IInv, TypeOK
<1>9. UnreadIsForDaemon'
    BY <1>1, <1>5 DEF UnreadIsForDaemon
<1>10. GuardIsRecorded'
    BY <1>1, <1>4 DEF GuardChanged, IInv, GuardIsRecorded
<1>11. SuspendedIsSilent'
    BY <1>1, <1>4, <1>5 DEF IInv, GuardIsRecorded, SuspendedIsSilent
<1>12. QED
    BY <1>8, <1>9, <1>10, <1>11 DEF IInv

\* The process ends and starts: the new recognizer takes the guard from the flag file.
LEMMA ProcessInv ==
    ASSUME IInv, Stop \/ Crash \/ Start
    PROVE  IInv'
<1>1. ASSUME NEW b \in BOOLEAN PROVE NewRecognizer(b) \in RecognizerType /\ NewRecognizer(b).suspended = b
    BY DEF NewRecognizer, RecognizerType
<1>2. CASE Start
    <2>1. recognizer' \in RecognizerType /\ recognizer'.suspended = flag
        BY <1>1, <1>2 DEF Start, IInv, TypeOK
    <2>2. QED
        BY <1>2, <2>1 DEF Start, IInv, TypeOK, UnreadIsForDaemon, GuardIsRecorded, SuspendedIsSilent
<1>3. CASE Ended /\ flag' \in {FALSE, flag}
    <2>1. recognizer' \in RecognizerType
        BY <1>1, <1>3 DEF Ended
    <2>2. unread' \in [Devices -> Seq(Events)]
        BY <1>3 DEF Ended
    <2>3. flag' \in BOOLEAN
        BY <1>3 DEF IInv, TypeOK
    <2>4. TypeOK'
        BY <1>3, <2>1, <2>2, <2>3 DEF Ended, IInv, TypeOK
    <2>5. QED
        BY <1>3, <2>4 DEF Ended, IInv, UnreadIsForDaemon, GuardIsRecorded, SuspendedIsSilent
<1>4. QED
    BY <1>2, <1>3 DEF Stop, Crash

LEMMA NextIInv == IInv /\ [Next]_vars => IInv'
<1> SUFFICES ASSUME IInv, [Next]_vars PROVE IInv'
    OBVIOUS
<1>1. CASE UNCHANGED vars
    BY <1>1 DEF vars, IInv, TypeOK, UnreadIsForDaemon, GuardIsRecorded, SuspendedIsSilent
<1>2. QED
    BY <1>1, PassInv, KeyInv, PlugInv, FeedInv, ProcessInv DEF Next

LEMMA SpecIInv == Spec => []IInv
    BY InitIInv, NextIInv, PTL DEF Spec

-----------------------------------------------------------------------------
\* The queues, the recognizer and the guard keep their types.
THEOREM TapsTypeCorrect == Spec => []TypeOK
<1>1. IInv => TypeOK
    BY DEF IInv
<1>2. QED
    BY <1>1, SpecIInv, PTL

\* The guard in force is the recorded one, through crashes, restarts and failed writes.
THEOREM GuardSurvives == Spec => []GuardIsRecorded
<1>1. IInv => GuardIsRecorded
    BY DEF IInv
<1>2. QED
    BY <1>1, SpecIInv, PTL

\* Nothing is reported as a tap while the guard is on record.
THEOREM GuardSilences == Spec => []SuspendedIsSilent
<1>1. IInv => SuspendedIsSilent
    BY DEF IInv
<1>2. QED
    BY <1>1, SpecIInv, PTL

-----------------------------------------------------------------------------
\* A tap belongs to one press of Meta.

\* One keyboard has Meta. The recognizer does not know which device an event is from, so with
\* two it takes the press of one and the release of the other for a tap.
OneMeta == \A d, e \in Devices : "meta" \in CodesOf[d] /\ "meta" \in CodesOf[e] => d = e

\* Between two events of a queue.
NoMetaIn(q, m, n) == \A k \in m..n : q[k].code # "meta"
PressIn(q, m, n) == \E k \in m..n : q[k].value = "press"

\* The last Meta event among the first n of q is the press that s is about, and if the
\* device has pressed another key since, a press comes behind it.
Explained(d, q, n, s) ==
    \A j \in 1..n :
        q[j].code = "meta" /\ NoMetaIn(q, j + 1, n) =>
            /\ q[j].value = "press" /\ q[j].time = s.time
            /\ d \in s.pressed => PressIn(q, j + 1, n)

\* If there is none, the recognizer has read that press; as long as it is armed, a press of
\* another key is still in the queue.
Believed(d, r, q, n, s) ==
    NoMetaIn(q, 1, n) /\ r.armed /\ r.metaDownAt # NotHeld =>
        /\ r.metaDownAt = s.time
        /\ d \in s.pressed => PressIn(q, 1, n)

\* A recognizer r that has read n events of q knows what s says.
Follows(d, r, q, n, s) == Explained(d, q, n, s) /\ Believed(d, r, q, n, s)

IsRelease(event) == event.code = "meta" /\ event.value = "release"

\* It knows so when it comes to a release of Meta, and when it has read everything while
\* Meta is down.
QueueFollows(d) ==
    \A i \in DOMAIN unread[d] :
        IsRelease(unread[d][i]) => Follows(d, recognizer, unread[d], i - 1, unread[d][i].since)

HeldFollows(d) ==
    since[d].time # NotHeld => Follows(d, recognizer, unread[d], Len(unread[d]), since[d])

\* What `since` says of Meta is so of the keys that are down.
KeysAreKnown ==
    /\ \A d \in Devices : since[d].time # NotHeld => <<d, "meta">> \in held /\ "meta" \in CodesOf[d]
    /\ \A d \in Devices : <<d, "meta">> \in held => since[d].time # NotHeld
    /\ \A d \in Devices : since[d].time = NotHeld => since[d] = NoPress
    /\ \A key \in held : key[1] \in attached

\* A device sends its own keys only.
QueueIsKnown ==
    \A d \in Devices : \A i \in DOMAIN unread[d] :
        /\ unread[d][i].code \in CodesOf[d]
        /\ IsRelease(unread[d][i]) => unread[d][i].since.time # NotHeld

\* No event is lost while the daemon runs.
AllAreOpen == running => open = attached

RecognizerFollows == running => \A d \in Devices : QueueFollows(d) /\ HeldFollows(d)

LoneInv == KeysAreKnown /\ QueueIsKnown /\ AllAreOpen /\ RecognizerFollows

-----------------------------------------------------------------------------
\* What reading an event does to what the recognizer believes of Meta.
LEMMA FeedBelieves ==
    ASSUME NEW r \in RecognizerType, NEW event \in Events, NEW f, f = Feed(r, event)
    PROVE  /\ event.code # "meta" =>
                /\ f.recognizer.metaDownAt = r.metaDownAt
                /\ f.recognizer.armed => r.armed /\ event.value = "release"
                /\ f.action # "tap"
           /\ event.code = "meta" /\ event.value = "press" =>
                f.recognizer.metaDownAt = event.time /\ f.action # "tap"
           /\ event.code = "meta" /\ event.value = "release" => f.recognizer.metaDownAt = NotHeld
           /\ f.action = "tap" => IsRelease(event) /\ r.armed /\ WithinWindow(r, event.time)
<1>1. event.code \in Codes /\ event.value \in {"press", "release"}
    BY DEF Events
<1>2. /\ [r EXCEPT !.metaDownAt = event.time, !.armed = TRUE].metaDownAt = event.time
      /\ [r EXCEPT !.metaDownAt = NotHeld, !.armed = FALSE].metaDownAt = NotHeld
      /\ [r EXCEPT !.armed = FALSE].metaDownAt = r.metaDownAt
      /\ ~[r EXCEPT !.armed = FALSE].armed
      /\ [r EXCEPT !.armed = FALSE, !.suspended = ~@].metaDownAt = r.metaDownAt
      /\ ~[r EXCEPT !.armed = FALSE, !.suspended = ~@].armed
    BY DEF RecognizerType
<1>3. CASE event.code = "meta" /\ event.value = "press"
    <2>1. f = Fed([r EXCEPT !.metaDownAt = event.time, !.armed = TRUE], "none")
        BY <1>3 DEF Feed, FeedMeta
    <2>2. f.recognizer = [r EXCEPT !.metaDownAt = event.time, !.armed = TRUE] /\ f.action = "none"
        BY <2>1 DEF Fed
    <2>3. QED
        BY <1>2, <1>3, <2>2
<1>4. CASE event.code = "meta" /\ event.value = "release"
    <2>1. f = Fed([r EXCEPT !.metaDownAt = NotHeld, !.armed = FALSE],
                  IF r.armed /\ WithinWindow(r, event.time) /\ ~r.suspended THEN "tap" ELSE "none")
        BY <1>4 DEF Feed, FeedMeta
    <2>2. /\ f.recognizer = [r EXCEPT !.metaDownAt = NotHeld, !.armed = FALSE]
          /\ f.action = "tap" => r.armed /\ WithinWindow(r, event.time)
        BY <2>1 DEF Fed
    <2>3. QED
        BY <1>2, <1>4, <2>2 DEF IsRelease
<1>5. CASE event.code # "meta" /\ event.value # "press"
    <2>1. f = Fed(r, "none")
        BY <1>5 DEF Feed
    <2>2. f.recognizer = r /\ f.action = "none"
        BY <2>1 DEF Fed
    <2>3. QED
        BY <1>1, <1>5, <2>2
<1>6. CASE event.code = "f12" /\ event.value = "press" /\ r.metaDownAt # NotHeld
    <2>1. f = Fed([r EXCEPT !.armed = FALSE, !.suspended = ~@], "guard")
        BY <1>6 DEF Feed
    <2>2. f.recognizer = [r EXCEPT !.armed = FALSE, !.suspended = ~@] /\ f.action = "guard"
        BY <2>1 DEF Fed
    <2>3. QED
        BY <1>2, <1>6, <2>2
<1>7. CASE /\ event.code # "meta" /\ event.value = "press"
           /\ ~(event.code = "f12" /\ r.metaDownAt # NotHeld)
    <2>1. f = Fed([r EXCEPT !.armed = FALSE], "none")
        BY <1>7 DEF Feed
    <2>2. f.recognizer = [r EXCEPT !.armed = FALSE] /\ f.action = "none"
        BY <2>1 DEF Fed
    <2>3. QED
        BY <1>2, <1>7, <2>2
<1>8. QED
    BY <1>1, <1>3, <1>4, <1>5, <1>6, <1>7

\* Only the events read count.
LEMMA PrefixFollows ==
    ASSUME NEW d, NEW r, NEW q, NEW p, NEW n \in Nat, NEW s,
           \A k \in 1..n : p[k] = q[k], Follows(d, r, q, n, s)
    PROVE  Follows(d, r, p, n, s)
<1>1. ASSUME NEW j \in 1..n, p[j].code = "meta", NoMetaIn(p, j + 1, n)
      PROVE  p[j].value = "press" /\ p[j].time = s.time /\ (d \in s.pressed => PressIn(p, j + 1, n))
    <2>1. NoMetaIn(q, j + 1, n)
        BY <1>1 DEF NoMetaIn
    <2>2. q[j].value = "press" /\ q[j].time = s.time /\ (d \in s.pressed => PressIn(q, j + 1, n))
        BY <1>1, <2>1 DEF Follows, Explained
    <2>3. PressIn(q, j + 1, n) => PressIn(p, j + 1, n)
        BY DEF PressIn
    <2>4. QED
        BY <2>2, <2>3
<1>2. Explained(d, p, n, s)
    BY <1>1 DEF Explained
<1>3. NoMetaIn(p, 1, n) => NoMetaIn(q, 1, n)
    BY DEF NoMetaIn
<1>4. PressIn(q, 1, n) => PressIn(p, 1, n)
    BY DEF PressIn
<1>5. Believed(d, r, p, n, s)
    BY <1>3, <1>4 DEF Follows, Believed
<1>6. QED
    BY <1>2, <1>5 DEF Follows

\* One more event that is not Meta; if the device's Meta has seen it, it is a press.
LEMMA KeyFollows ==
    ASSUME NEW d, NEW r, NEW q, NEW n \in Nat, NEW s, NEW t,
           q[n + 1].code # "meta", t.time = s.time,
           d \in t.pressed => d \in s.pressed \/ q[n + 1].value = "press",
           Follows(d, r, q, n, s)
    PROVE  Follows(d, r, q, n + 1, t)
<1>1. ASSUME NEW m \in 1..(n + 1), NoMetaIn(q, m, n + 1)
      PROVE  NoMetaIn(q, m, n)
    BY <1>1 DEF NoMetaIn
<1>2. ASSUME NEW m \in 1..(n + 1), d \in s.pressed => PressIn(q, m, n)
      PROVE  d \in t.pressed => PressIn(q, m, n + 1)
    <2>1. PressIn(q, m, n) => PressIn(q, m, n + 1)
        BY DEF PressIn
    <2>2. q[n + 1].value = "press" => PressIn(q, m, n + 1)
        <3>1. n + 1 \in m..(n + 1)
            OBVIOUS
        <3>2. QED
            BY <3>1 DEF PressIn
    <2>3. QED
        BY <1>2, <2>1, <2>2
<1>3. ASSUME NEW j \in 1..(n + 1), q[j].code = "meta", NoMetaIn(q, j + 1, n + 1)
      PROVE  q[j].value = "press" /\ q[j].time = t.time /\ (d \in t.pressed => PressIn(q, j + 1, n + 1))
    <2>1. j \in 1..n
        BY <1>3
    <2>2. j + 1 \in 1..(n + 1)
        BY <2>1
    <2>3. NoMetaIn(q, j + 1, n)
        BY <1>1, <1>3, <2>2
    <2>4. q[j].value = "press" /\ q[j].time = s.time /\ (d \in s.pressed => PressIn(q, j + 1, n))
        BY <1>3, <2>1, <2>3 DEF Follows, Explained
    <2>5. QED
        BY <1>2, <2>2, <2>4
<1>4. Explained(d, q, n + 1, t)
    BY <1>3 DEF Explained
<1>5. Believed(d, r, q, n + 1, t)
    <2>1. 1 \in 1..(n + 1)
        OBVIOUS
    <2>2. SUFFICES ASSUME NoMetaIn(q, 1, n + 1), r.armed, r.metaDownAt # NotHeld
                   PROVE  r.metaDownAt = t.time /\ (d \in t.pressed => PressIn(q, 1, n + 1))
        BY DEF Believed
    <2>3. r.metaDownAt = s.time /\ (d \in s.pressed => PressIn(q, 1, n))
        BY <1>1, <2>1, <2>2 DEF Follows, Believed
    <2>4. QED
        BY <1>2, <2>1, <2>3
<1>6. QED
    BY <1>4, <1>5 DEF Follows

\* Meta goes down, and has seen nothing of its device yet.
LEMMA MetaPressFollows ==
    ASSUME NEW d, NEW r, NEW q, NEW n \in Nat, NEW s, q[n + 1].code = "meta",
           q[n + 1].value = "press", q[n + 1].time = s.time, d \notin s.pressed
    PROVE  Follows(d, r, q, n + 1, s)
<1>1. ASSUME NEW m \in 1..(n + 1), NoMetaIn(q, m, n + 1)
      PROVE  FALSE
    <2>1. n + 1 \in m..(n + 1)
        OBVIOUS
    <2>2. QED
        BY <1>1, <2>1 DEF NoMetaIn
<1>2. ASSUME NEW j \in 1..(n + 1), NoMetaIn(q, j + 1, n + 1)
      PROVE  j = n + 1
    <2>1. CASE j \in 1..n
        <3>1. j + 1 \in 1..(n + 1)
            BY <2>1
        <3>2. QED
            BY <1>1, <1>2, <3>1
    <2>2. QED
        BY <2>1
<1>3. Explained(d, q, n + 1, s)
    BY <1>2 DEF Explained
<1>4. 1 \in 1..(n + 1)
    OBVIOUS
<1>5. Believed(d, r, q, n + 1, s)
    BY <1>1, <1>4 DEF Believed
<1>6. QED
    BY <1>3, <1>5 DEF Follows

\* A recognizer that another device's key has disarmed believes less.
LEMMA DisarmedFollows ==
    ASSUME NEW d, NEW r, NEW q, NEW n, NEW s, NEW disarmed,
           disarmed.armed => r.armed, disarmed.metaDownAt = r.metaDownAt, Follows(d, r, q, n, s)
    PROVE  Follows(d, disarmed, q, n, s)
BY DEF Follows, Believed

\* The recognizer reads the first event of the queue.
LEMMA FedFollows ==
    ASSUME NEW d, NEW r \in RecognizerType, NEW q \in Seq(Events), q # <<>>, NEW n \in Nat,
           n + 1 <= Len(q), NEW s, Follows(d, r, q, n + 1, s)
    PROVE  Follows(d, Feed(r, Head(q)).recognizer, Tail(q), n, s)
<1> DEFINE p == Tail(q)
<1> DEFINE fed == Feed(r, Head(q))
<1>1. Head(q) \in Events /\ Head(q) = q[1]
    OBVIOUS
<1>2. ASSUME NEW k \in 1..n
      PROVE  p[k] = q[k + 1]
    OBVIOUS
<1> HIDE DEF p
<1>3. ASSUME NEW m \in 1..(n + 1), NoMetaIn(p, m, n)
      PROVE  NoMetaIn(q, m + 1, n + 1)
    <2>1. ASSUME NEW k \in (m + 1)..(n + 1)
          PROVE  q[k].code # "meta"
        <3>1. k - 1 \in m..n /\ k - 1 \in 1..n /\ (k - 1) + 1 = k
            OBVIOUS
        <3>2. p[k - 1] = q[k]
            BY <1>2, <3>1
        <3>3. QED
            BY <1>3, <3>1, <3>2 DEF NoMetaIn
    <2>2. QED
        BY <2>1 DEF NoMetaIn
<1>4. ASSUME NEW m \in 1..(n + 1), PressIn(q, m + 1, n + 1)
      PROVE  PressIn(p, m, n)
    <2>1. PICK k \in (m + 1)..(n + 1) : q[k].value = "press"
        BY <1>4 DEF PressIn
    <2>2. k - 1 \in m..n /\ k - 1 \in 1..n /\ (k - 1) + 1 = k
        OBVIOUS
    <2>3. p[k - 1].value = "press"
        BY <1>2, <2>1, <2>2
    <2>4. QED
        BY <2>2, <2>3 DEF PressIn
<1>5. ASSUME NEW j \in 1..n, p[j].code = "meta", NoMetaIn(p, j + 1, n)
      PROVE  p[j].value = "press" /\ p[j].time = s.time /\ (d \in s.pressed => PressIn(p, j + 1, n))
    <2>1. j + 1 \in 1..(n + 1) /\ p[j] = q[j + 1]
        BY <1>2
    <2>2. NoMetaIn(q, (j + 1) + 1, n + 1)
        BY <1>3, <1>5, <2>1
    <2>3. /\ q[j + 1].value = "press" /\ q[j + 1].time = s.time
          /\ d \in s.pressed => PressIn(q, (j + 1) + 1, n + 1)
        BY <1>5, <2>1, <2>2 DEF Follows, Explained
    <2>4. QED
        BY <1>4, <2>1, <2>3
<1>6. Explained(d, p, n, s)
    BY <1>5 DEF Explained
<1>7. 1 \in 1..(n + 1) /\ 1 + 1 = 2
    OBVIOUS
<1>8. Believed(d, fed.recognizer, p, n, s)
    <2>1. SUFFICES ASSUME NoMetaIn(p, 1, n), fed.recognizer.armed, fed.recognizer.metaDownAt # NotHeld
                   PROVE  fed.recognizer.metaDownAt = s.time /\ (d \in s.pressed => PressIn(p, 1, n))
        BY DEF Believed
    <2>2. NoMetaIn(q, 2, n + 1)
        BY <1>3, <1>7, <2>1
    <2>3. PressIn(q, 2, n + 1) => PressIn(p, 1, n)
        BY <1>4, <1>7
    <2>4. CASE q[1].code = "meta"
        <3>1. q[1].value = "press" /\ q[1].time = s.time /\ (d \in s.pressed => PressIn(q, 2, n + 1))
            BY <1>7, <2>2, <2>4 DEF Follows, Explained
        <3>2. fed.recognizer.metaDownAt = s.time
            BY <1>1, <2>4, <3>1, FeedBelieves
        <3>3. QED
            BY <2>3, <3>1, <3>2
    <2>5. CASE q[1].code # "meta"
        <3>1. fed.recognizer.metaDownAt = r.metaDownAt /\ r.armed /\ q[1].value = "release"
            BY <1>1, <2>1, <2>5, FeedBelieves
        <3>2. NoMetaIn(q, 1, n + 1)
            <4>1. ASSUME NEW k \in 1..(n + 1)
                  PROVE  q[k].code # "meta"
                <5>1. k = 1 \/ k \in 2..(n + 1)
                    OBVIOUS
                <5>2. QED
                    BY <2>2, <2>5, <5>1 DEF NoMetaIn
            <4>2. QED
                BY <4>1 DEF NoMetaIn
        <3>3. r.metaDownAt = s.time /\ (d \in s.pressed => PressIn(q, 1, n + 1))
            BY <2>1, <3>1, <3>2 DEF Follows, Believed
        <3>4. PressIn(q, 1, n + 1) => PressIn(q, 2, n + 1)
            <4>1. ASSUME NEW k \in 1..(n + 1), q[k].value = "press"
                  PROVE  k \in 2..(n + 1)
                BY <3>1, <4>1
            <4>2. QED
                BY <4>1 DEF PressIn
        <3>5. QED
            BY <2>3, <3>1, <3>3, <3>4
    <2>6. QED
        BY <2>4, <2>5
<1>9. QED
    BY <1>6, <1>8 DEF Follows, p

-----------------------------------------------------------------------------
LEMMA InitLone == Init => LoneInv
<1> SUFFICES ASSUME Init PROVE LoneInv
    OBVIOUS
<1>1. \A d \in Devices : since[d] = NoPress /\ since[d].time = NotHeld /\ unread[d] = <<>>
    BY DEF Init, NoPress
<1>2. KeysAreKnown /\ AllAreOpen
    BY <1>1 DEF Init, KeysAreKnown, AllAreOpen
<1>3. \A d \in Devices : DOMAIN unread[d] = {}
    BY <1>1
<1>4. QueueIsKnown /\ RecognizerFollows
    BY <1>1, <1>3 DEF QueueIsKnown, RecognizerFollows, QueueFollows, HeldFollows
<1>5. QED
    BY <1>2, <1>4 DEF LoneInv

\* What an event that is appended leaves as it was.
LEMMA AppendKeepsQueue ==
    ASSUME NEW d, NEW r, NEW q \in Seq(Events), NEW event \in Events,
           \A i \in DOMAIN q : IsRelease(q[i]) => Follows(d, r, q, i - 1, q[i].since),
           IsRelease(event) => Follows(d, r, q, Len(q), event.since),
           NEW p, p = Append(q, event)
    PROVE  \A i \in DOMAIN p : IsRelease(p[i]) => Follows(d, r, p, i - 1, p[i].since)
<1>1. Len(q) \in Nat /\ DOMAIN q = 1..Len(q) /\ DOMAIN p = 1..(Len(q) + 1)
    OBVIOUS
<1>2. /\ \A k \in 1..Len(q) : p[k] = q[k]
      /\ p[Len(q) + 1] = event
    OBVIOUS
<1>3. SUFFICES ASSUME NEW i \in 1..(Len(q) + 1), IsRelease(p[i])
               PROVE  Follows(d, r, p, i - 1, p[i].since)
    BY <1>1
<1>4. i - 1 \in Nat /\ \A k \in 1..(i - 1) : p[k] = q[k]
    BY <1>1, <1>2
<1>5. Follows(d, r, q, i - 1, p[i].since)
    <2>1. CASE i \in 1..Len(q)
        BY <1>1, <1>2, <1>3, <2>1
    <2>2. CASE i = Len(q) + 1
        <3>1. i - 1 = Len(q)
            BY <1>1, <2>2
        <3>2. QED
            BY <1>2, <1>3, <2>2, <3>1
    <2>3. QED
        BY <1>1, <2>1, <2>2
<1>6. QED
    BY <1>4, <1>5, PrefixFollows

\* What is in the queue is not touched by a key: only one event comes behind it.
LEMMA QueueLone ==
    ASSUME IInv, LoneInv, NEW d \in Devices, NEW code \in CodesOf[d],
           NEW value \in {"press", "release"}, Queue(d, code, value),
           value = "release" => <<d, code>> \in held
    PROVE  /\ QueueIsKnown'
           /\ running => \A e \in Devices : QueueFollows(e)'
<1> DEFINE event == [code |-> code, value |-> value, time |-> now, since |-> since[d]]
<1>1. code \in Codes
    BY DevicesAssumption
<1>2. event \in Events
    BY <1>1 DEF IInv, TypeOK, Events
<1>3. unread \in [Devices -> Seq(Events)]
    BY DEF IInv, TypeOK
<1>4. /\ unread' = IF d \in open THEN [unread EXCEPT ![d] = Append(unread[d], event)] ELSE unread
      /\ recognizer' = recognizer /\ running' = running
    BY DEF Queue, DaemonUnchanged
<1>5. event.code = code /\ event.since = since[d] /\ event.value = value
    OBVIOUS
<1> HIDE DEF event
<1>6. IsRelease(event) => since[d].time # NotHeld
    BY <1>5 DEF IsRelease, LoneInv, KeysAreKnown
<1>7. \A e \in Devices : unread'[e] = unread[e] \/ (e = d /\ unread'[e] = Append(unread[d], event))
    BY <1>3, <1>4
<1>8. QueueIsKnown'
    <2>1. ASSUME NEW e \in Devices, NEW i \in DOMAIN unread'[e]
          PROVE  /\ unread'[e][i].code \in CodesOf[e]
                 /\ IsRelease(unread'[e][i]) => unread'[e][i].since.time # NotHeld
        <3>1. CASE unread'[e] = unread[e]
            BY <2>1, <3>1 DEF LoneInv, QueueIsKnown
        <3>2. CASE e = d /\ unread'[e] = Append(unread[d], event)
            <4>1. \/ i \in DOMAIN unread[d] /\ unread'[e][i] = unread[d][i]
                  \/ unread'[e][i] = event
                BY <1>2, <1>3, <2>1, <3>2
            <4>2. QED
                BY <1>5, <1>6, <3>2, <4>1 DEF LoneInv, QueueIsKnown
        <3>3. QED
            BY <1>7, <3>1, <3>2
    <2>2. QED
        BY <2>1 DEF QueueIsKnown, IsRelease
<1>9. ASSUME running, NEW e \in Devices
      PROVE  QueueFollows(e)'
    <2>1. CASE unread'[e] = unread[e]
        BY <1>4, <1>9, <2>1 DEF LoneInv, RecognizerFollows, QueueFollows, IsRelease
    <2>2. CASE e = d /\ unread'[e] = Append(unread[d], event)
        <3>1. IsRelease(event) => Follows(d, recognizer, unread[d], Len(unread[d]), event.since)
            BY <1>5, <1>6, <1>9 DEF LoneInv, RecognizerFollows, HeldFollows
        <3>2. \A i \in DOMAIN unread[d] :
                  IsRelease(unread[d][i]) => Follows(d, recognizer, unread[d], i - 1, unread[d][i].since)
            BY <1>9 DEF LoneInv, RecognizerFollows, QueueFollows
        <3>3. unread[d] \in Seq(Events)
            BY <1>3
        <3>4. \A i \in DOMAIN unread'[e] :
                  IsRelease(unread'[e][i]) => Follows(d, recognizer, unread'[e], i - 1, unread'[e][i].since)
            BY <1>2, <2>2, <3>1, <3>2, <3>3, AppendKeepsQueue
        <3>5. QED
            BY <1>4, <2>2, <3>4 DEF QueueFollows, IsRelease
    <2>3. QED
        BY <1>7, <2>1, <2>2
<1>10. QED
    BY <1>8, <1>9

LEMMA PressLone ==
    ASSUME IInv, LoneInv, NEW d \in Devices, NEW code \in CodesOf[d], PressKey(d, code)
    PROVE  LoneInv'
<1>1. /\ d \in attached /\ held' = held \cup {<<d, code>>} /\ Queue(d, code, "press")
      /\ since' = [e \in Devices |->
                    IF e = d /\ code = "meta" THEN [time |-> now, pressed |-> {}]
                    ELSE IF since[e] = NoPress THEN NoPress
                    ELSE [since[e] EXCEPT !.pressed = @ \cup {d}]]
    BY DEF PressKey
<1>2. UNCHANGED <<attached, open, running, recognizer, now>>
    BY <1>1 DEF Queue, DaemonUnchanged
<1>3. code \in Codes /\ now \in Nat /\ now # NotHeld
    BY DevicesAssumption DEF IInv, TypeOK, Times, NotHeld
<1>4. ASSUME NEW e \in Devices
      PROVE  /\ e = d /\ code = "meta" => since'[e].time = now /\ since'[e].pressed = {}
             /\ ~(e = d /\ code = "meta") =>
                  /\ since'[e].time = since[e].time
                  /\ since[e].time # NotHeld =>
                        since'[e].pressed = since[e].pressed \cup {d}
                  /\ since[e].time = NotHeld => since'[e] = NoPress
    <2>1. since[e] \in [time: Times \cup {NotHeld}, pressed: SUBSET Devices]
        BY DEF IInv, TypeOK, Since
    <2>2. /\ [since[e] EXCEPT !.pressed = @ \cup {d}].time = since[e].time
          /\ [since[e] EXCEPT !.pressed = @ \cup {d}].pressed = since[e].pressed \cup {d}
        BY <2>1
    <2>3. since[e].time = NotHeld <=> since[e] = NoPress
        <3>1. NoPress.time = NotHeld
            BY DEF NoPress
        <3>2. since[e].time = NotHeld => since[e] = NoPress
            BY DEF LoneInv, KeysAreKnown
        <3>3. QED
            BY <3>1, <3>2
    <2>4. QED
        BY <1>1, <2>2, <2>3 DEF NoPress
<1>5. KeysAreKnown'
    <2>1. ASSUME NEW e \in Devices
          PROVE  /\ since'[e].time # NotHeld => <<e, "meta">> \in held' /\ "meta" \in CodesOf[e]
                 /\ <<e, "meta">> \in held' => since'[e].time # NotHeld
                 /\ since'[e].time = NotHeld => since'[e] = NoPress
        <3>1. CASE e = d /\ code = "meta"
            BY <1>1, <1>3, <1>4, <3>1
        <3>2. CASE ~(e = d /\ code = "meta")
            <4>1. <<e, "meta">> \in held' <=> <<e, "meta">> \in held
                BY <1>1, <3>2
            <4>2. QED
                BY <1>4, <3>2, <4>1 DEF LoneInv, KeysAreKnown
        <3>3. QED
            BY <3>1, <3>2
    <2>2. \A key \in held' : key[1] \in attached'
        BY <1>1, <1>2 DEF LoneInv, KeysAreKnown
    <2>3. QED
        BY <2>1, <2>2 DEF KeysAreKnown
<1>6. QueueIsKnown' /\ (running => \A e \in Devices : QueueFollows(e)')
    BY <1>1, QueueLone
<1>7. AllAreOpen'
    BY <1>2 DEF LoneInv, AllAreOpen
<1>8. ASSUME running, NEW e \in Devices
      PROVE  HeldFollows(e)'
    <2> DEFINE event == [code |-> code, value |-> "press", time |-> now, since |-> since[d]]
    <2>1. SUFFICES ASSUME since'[e].time # NotHeld
                   PROVE  Follows(e, recognizer, unread'[e], Len(unread'[e]), since'[e])
        BY <1>2 DEF HeldFollows
    <2>2. unread' = [unread EXCEPT ![d] = Append(unread[d], event)]
        BY <1>1, <1>8 DEF Queue, LoneInv, AllAreOpen
    <2>3. unread \in [Devices -> Seq(Events)] /\ event \in Events
        BY <1>3 DEF IInv, TypeOK, Events
    <2>4. event.code = code /\ event.value = "press" /\ event.time = now
        OBVIOUS
    <2> HIDE DEF event
    <2>5. HeldFollows(e)
        BY <1>8 DEF LoneInv, RecognizerFollows
    <2>6. CASE e # d
        <3>1. unread'[e] = unread[e]
            BY <2>2, <2>3, <2>6
        <3>2. since'[e].time = since[e].time /\ (e \in since'[e].pressed => e \in since[e].pressed)
            BY <1>4, <2>1, <2>6
        <3>3. Follows(e, recognizer, unread[e], Len(unread[e]), since[e])
            BY <2>1, <2>5, <3>2 DEF HeldFollows
        <3>4. QED
            BY <3>1, <3>2, <3>3 DEF Follows, Explained, Believed
    <2>7. CASE e = d
        <3> DEFINE n == Len(unread[d])
        <3>1. /\ n \in Nat /\ Len(unread'[d]) = n + 1 /\ unread'[d][n + 1] = event
              /\ \A k \in 1..n : unread'[d][k] = unread[d][k]
            BY <2>2, <2>3
        <3>2. CASE code = "meta"
            <4>1. since'[d].time = now /\ d \notin since'[d].pressed
                BY <1>4, <3>2
            <4>2. Follows(d, recognizer, unread'[d], n + 1, since'[d])
                BY <2>4, <3>1, <3>2, <4>1, MetaPressFollows
            <4>3. QED
                BY <2>7, <3>1, <4>2
        <3>3. CASE code # "meta"
            <4>1. since'[d].time = since[d].time
                BY <1>4, <3>3
            <4>2. Follows(d, recognizer, unread[d], n, since[d])
                BY <2>1, <2>5, <2>7, <4>1 DEF HeldFollows
            <4>3. Follows(d, recognizer, unread'[d], n, since[d])
                BY <3>1, <4>2, PrefixFollows
            <4>4. Follows(d, recognizer, unread'[d], n + 1, since'[d])
                BY <2>4, <3>1, <3>3, <4>1, <4>3, KeyFollows
            <4>5. QED
                BY <2>7, <3>1, <4>4
        <3>4. QED
            BY <3>2, <3>3
    <2>8. QED
        BY <2>6, <2>7
<1>9. QED
    BY <1>2, <1>5, <1>6, <1>7, <1>8 DEF LoneInv, RecognizerFollows

LEMMA ReleaseLone ==
    ASSUME IInv, LoneInv, NEW d \in Devices, NEW code \in CodesOf[d], ReleaseKey(d, code)
    PROVE  LoneInv'
<1>1. /\ <<d, code>> \in held /\ held' = held \ {<<d, code>>} /\ Queue(d, code, "release")
      /\ since' = IF code = "meta" THEN [since EXCEPT ![d] = NoPress] ELSE since
    BY DEF ReleaseKey
<1>2. UNCHANGED <<attached, open, running, recognizer, now>>
    BY <1>1 DEF Queue, DaemonUnchanged
<1>3. since \in [Devices -> Since]
    BY DEF IInv, TypeOK
<1>4. ASSUME NEW e \in Devices
      PROVE  /\ e = d /\ code = "meta" => since'[e] = NoPress
             /\ ~(e = d /\ code = "meta") => since'[e] = since[e]
    BY <1>1, <1>3
<1>5. NoPress.time = NotHeld
    BY DEF NoPress
<1>6. KeysAreKnown'
    <2>1. ASSUME NEW e \in Devices
          PROVE  /\ since'[e].time # NotHeld => <<e, "meta">> \in held' /\ "meta" \in CodesOf[e]
                 /\ <<e, "meta">> \in held' => since'[e].time # NotHeld
                 /\ since'[e].time = NotHeld => since'[e] = NoPress
        <3>1. CASE e = d /\ code = "meta"
            BY <1>1, <1>4, <1>5, <3>1
        <3>2. CASE ~(e = d /\ code = "meta")
            <4>1. <<e, "meta">> \in held' <=> <<e, "meta">> \in held
                BY <1>1, <3>2
            <4>2. QED
                BY <1>4, <3>2, <4>1 DEF LoneInv, KeysAreKnown
        <3>3. QED
            BY <3>1, <3>2
    <2>2. \A key \in held' : key[1] \in attached'
        BY <1>1, <1>2 DEF LoneInv, KeysAreKnown
    <2>3. QED
        BY <2>1, <2>2 DEF KeysAreKnown
<1>7. QueueIsKnown' /\ (running => \A e \in Devices : QueueFollows(e)')
    BY <1>1, QueueLone
<1>8. AllAreOpen'
    BY <1>2 DEF LoneInv, AllAreOpen
<1>9. ASSUME running, NEW e \in Devices
      PROVE  HeldFollows(e)'
    <2> DEFINE event == [code |-> code, value |-> "release", time |-> now, since |-> since[d]]
    <2>1. SUFFICES ASSUME since'[e].time # NotHeld
                   PROVE  Follows(e, recognizer, unread'[e], Len(unread'[e]), since'[e])
        BY <1>2 DEF HeldFollows
    <2>2. ~(e = d /\ code = "meta") /\ since'[e] = since[e]
        BY <1>4, <1>5, <2>1
    <2>3. Follows(e, recognizer, unread[e], Len(unread[e]), since[e])
        BY <1>9, <2>1, <2>2 DEF LoneInv, RecognizerFollows, HeldFollows
    <2>4. unread \in [Devices -> Seq(Events)] /\ event \in Events
        BY DevicesAssumption DEF IInv, TypeOK, Events
    <2>5. \/ unread'[e] = unread[e]
          \/ e = d /\ unread'[e] = Append(unread[d], event)
        BY <1>1, <2>4 DEF Queue
    <2>6. event.code = code
        OBVIOUS
    <2> HIDE DEF event
    <2>7. CASE unread'[e] = unread[e]
        BY <2>2, <2>3, <2>7
    <2>8. CASE e = d /\ unread'[e] = Append(unread[d], event)
        <3> DEFINE n == Len(unread[d])
        <3>1. /\ n \in Nat /\ Len(unread'[d]) = n + 1 /\ unread'[d][n + 1] = event
              /\ \A k \in 1..n : unread'[d][k] = unread[d][k]
            BY <2>4, <2>8
        <3>2. Follows(d, recognizer, unread'[d], n, since[d])
            BY <2>3, <2>8, <3>1, PrefixFollows
        <3>3. Follows(d, recognizer, unread'[d], n + 1, since[d])
            BY <2>2, <2>6, <2>8, <3>1, <3>2, KeyFollows
        <3>4. QED
            BY <2>2, <2>8, <3>1, <3>3
    <2>9. QED
        BY <2>5, <2>7, <2>8
<1>10. QED
    BY <1>2, <1>6, <1>7, <1>8, <1>9 DEF LoneInv, RecognizerFollows

LEMMA PlugLone ==
    ASSUME IInv, LoneInv, NEW d \in Devices, Plug(d) \/ Unplug(d)
    PROVE  LoneInv'
<1>1. CASE Plug(d)
    <2>1. UNCHANGED <<held, since, unread, recognizer, running>>
        BY <1>1 DEF Plug, DaemonUnchanged
    <2>2. AllAreOpen'
        BY <1>1 DEF Plug, DaemonUnchanged, LoneInv, AllAreOpen
    <2>3. KeysAreKnown'
        BY <1>1, <2>1 DEF Plug, LoneInv, KeysAreKnown
    <2>4. QueueIsKnown' /\ RecognizerFollows'
        BY <2>1 DEF LoneInv, QueueIsKnown, RecognizerFollows, QueueFollows, HeldFollows, IsRelease
    <2>5. QED
        BY <2>2, <2>3, <2>4 DEF LoneInv
<1>2. CASE Unplug(d)
    <2>1. /\ attached' = attached \ {d} /\ open' = open \ {d}
          /\ unread' = [unread EXCEPT ![d] = <<>>]
          /\ held' = {key \in held : key[1] # d}
          /\ since' = [since EXCEPT ![d] = NoPress]
          /\ running' = running /\ recognizer' = recognizer
        BY <1>2 DEF Unplug
    <2>2. unread \in [Devices -> Seq(Events)] /\ since \in [Devices -> Since]
        BY DEF IInv, TypeOK
    <2>3. \A e \in Devices :
              \/ e = d /\ unread'[e] = <<>> /\ since'[e] = NoPress
              \/ e # d /\ unread'[e] = unread[e] /\ since'[e] = since[e]
        BY <2>1, <2>2
    <2>4. NoPress.time = NotHeld
        BY DEF NoPress
    <2>5. KeysAreKnown'
        <3>1. ASSUME NEW e \in Devices
              PROVE  /\ since'[e].time # NotHeld => <<e, "meta">> \in held' /\ "meta" \in CodesOf[e]
                     /\ <<e, "meta">> \in held' => since'[e].time # NotHeld
                     /\ since'[e].time = NotHeld => since'[e] = NoPress
            <4>1. <<e, "meta">>[1] = e
                OBVIOUS
            <4>2. <<e, "meta">> \in held' <=> <<e, "meta">> \in held /\ e # d
                BY <2>1, <4>1
            <4>3. QED
                BY <2>3, <2>4, <4>2 DEF LoneInv, KeysAreKnown
        <3>2. \A key \in held' : key[1] \in attached'
            BY <2>1 DEF LoneInv, KeysAreKnown
        <3>3. QED
            BY <3>1, <3>2 DEF KeysAreKnown
    <2>6. AllAreOpen'
        BY <2>1 DEF LoneInv, AllAreOpen
    <2>7. ASSUME NEW e \in Devices, e = d
          PROVE  DOMAIN unread'[e] = {} /\ since'[e].time = NotHeld
        BY <2>3, <2>4, <2>7
    <2>8. QueueIsKnown'
        BY <2>3, <2>7 DEF LoneInv, QueueIsKnown, IsRelease
    <2>9. ASSUME running, NEW e \in Devices
          PROVE  QueueFollows(e)' /\ HeldFollows(e)'
        <3>1. CASE e = d
            BY <2>7, <3>1 DEF QueueFollows, HeldFollows
        <3>2. CASE e # d
            <4>1. unread'[e] = unread[e] /\ since'[e] = since[e]
                BY <2>3, <3>2
            <4>2. QueueFollows(e) /\ HeldFollows(e)
                BY <2>9 DEF LoneInv, RecognizerFollows
            <4>3. QED
                BY <2>1, <4>1, <4>2 DEF QueueFollows, HeldFollows, IsRelease
        <3>3. QED
            BY <3>1, <3>2
    <2>10. QED
        BY <2>1, <2>5, <2>6, <2>8, <2>9 DEF LoneInv, RecognizerFollows
<1>3. QED
    BY <1>1, <1>2

\* Feeding an event: what it tells the recognizer is what happened.
LEMMA FeedLone ==
    ASSUME OneMeta, IInv, LoneInv, NEW d \in Devices, FeedNext(d)
    PROVE  LoneInv'
<1> DEFINE event == Head(unread[d])
<1> DEFINE fed == Feed(recognizer, event)
<1>1. /\ unread' = [unread EXCEPT ![d] = Tail(@)] /\ unread[d] # <<>>
      /\ recognizer' = fed.recognizer
      /\ UNCHANGED <<held, since, attached, running, open>>
    BY DEF FeedNext
<1>2. unread \in [Devices -> Seq(Events)] /\ recognizer \in RecognizerType
    BY DEF IInv, TypeOK
<1>3. event \in Events /\ event = unread[d][1] /\ 1 \in DOMAIN unread[d]
    BY <1>1, <1>2
<1>4. unread'[d] = Tail(unread[d]) /\ (\A e \in Devices \ {d} : unread'[e] = unread[e])
    BY <1>1, <1>2
<1>5. running
    BY <1>1, <1>2 DEF IInv, UnreadIsForDaemon
<1>6. KeysAreKnown' /\ AllAreOpen'
    BY <1>1 DEF LoneInv, KeysAreKnown, AllAreOpen
<1>7. /\ Len(unread'[d]) \in Nat /\ Len(unread'[d]) + 1 = Len(unread[d])
      /\ \A i \in DOMAIN unread'[d] : /\ i \in Nat /\ i + 1 \in DOMAIN unread[d]
                                      /\ unread'[d][i] = unread[d][i + 1]
                                      /\ i - 1 \in Nat /\ (i - 1) + 1 = i /\ i <= Len(unread[d])
    BY <1>1, <1>2, <1>4
<1>8. QueueIsKnown'
    <2>1. ASSUME NEW e \in Devices, NEW i \in DOMAIN unread'[e]
          PROVE  /\ unread'[e][i].code \in CodesOf[e]
                 /\ IsRelease(unread'[e][i]) => unread'[e][i].since.time # NotHeld
        <3>1. CASE e = d
            BY <1>7, <2>1, <3>1 DEF LoneInv, QueueIsKnown
        <3>2. CASE e # d
            BY <1>4, <2>1, <3>2 DEF LoneInv, QueueIsKnown
        <3>3. QED
            BY <3>1, <3>2
    <2>2. QED
        BY <2>1 DEF QueueIsKnown, IsRelease
<1>9. \A n \in Nat : \A s :
          Follows(d, recognizer, unread[d], n + 1, s) /\ n + 1 <= Len(unread[d]) =>
              Follows(d, recognizer', unread'[d], n, s)
    BY <1>1, <1>2, <1>4, FedFollows
<1>10. QueueFollows(d)' /\ HeldFollows(d)'
    <2>1. QueueFollows(d) /\ HeldFollows(d)
        BY <1>5 DEF LoneInv, RecognizerFollows
    <2>2. ASSUME NEW i \in DOMAIN unread'[d], IsRelease(unread'[d][i])
          PROVE  Follows(d, recognizer', unread'[d], i - 1, unread'[d][i].since)
        <3>1. /\ i + 1 \in DOMAIN unread[d] /\ unread'[d][i] = unread[d][i + 1]
              /\ i - 1 \in Nat /\ (i - 1) + 1 = i /\ i <= Len(unread[d]) /\ (i + 1) - 1 = i
            BY <1>7, <2>2
        <3>2. Follows(d, recognizer, unread[d], (i - 1) + 1, unread'[d][i].since)
            BY <2>1, <2>2, <3>1 DEF QueueFollows
        <3>3. QED
            BY <1>9, <3>1, <3>2
    <2>3. ASSUME since[d].time # NotHeld
          PROVE  Follows(d, recognizer', unread'[d], Len(unread'[d]), since[d])
        <3>1. Follows(d, recognizer, unread[d], Len(unread'[d]) + 1, since[d])
            BY <1>7, <2>1, <2>3 DEF HeldFollows
        <3>2. QED
            BY <1>7, <1>9, <3>1
    <2>4. QED
        BY <1>1, <2>2, <2>3 DEF QueueFollows, HeldFollows, IsRelease
<1>11. ASSUME NEW e \in Devices, e # d
       PROVE  QueueFollows(e)' /\ HeldFollows(e)'
    <2>1. QueueFollows(e) /\ HeldFollows(e)
        BY <1>5 DEF LoneInv, RecognizerFollows
    <2>2. CASE event.code = "meta"
        <3>1. "meta" \in CodesOf[d]
            BY <1>3, <2>2 DEF LoneInv, QueueIsKnown
        <3>2. "meta" \notin CodesOf[e]
            BY <1>11, <3>1 DEF OneMeta
        <3>3. since[e].time = NotHeld
            BY <3>2 DEF LoneInv, KeysAreKnown
        <3>4. \A i \in DOMAIN unread[e] : ~IsRelease(unread[e][i])
            BY <3>2 DEF LoneInv, QueueIsKnown, IsRelease
        <3>5. QED
            BY <1>1, <1>4, <1>11, <3>3, <3>4 DEF QueueFollows, HeldFollows, IsRelease
    <2>3. CASE event.code # "meta"
        <3>1. recognizer'.metaDownAt = recognizer.metaDownAt /\ (recognizer'.armed => recognizer.armed)
            BY <1>1, <1>2, <1>3, <2>3, FeedBelieves
        <3>2. \A q, n, s : Follows(e, recognizer, q, n, s) => Follows(e, recognizer', q, n, s)
            BY <3>1, DisarmedFollows
        <3>3. QED
            BY <1>1, <1>4, <1>11, <2>1, <3>2 DEF QueueFollows, HeldFollows, IsRelease
    <2>4. QED
        BY <2>2, <2>3
<1>12. QED
    BY <1>6, <1>8, <1>10, <1>11 DEF LoneInv, RecognizerFollows

\* A daemon that starts believes nothing, and has nothing to read.
LEMMA ProcessLone ==
    ASSUME IInv, LoneInv, Stop \/ Crash \/ Start
    PROVE  LoneInv'
<1>1. CASE Start
    <2>1. UNCHANGED <<held, since, attached, unread>> /\ open' = attached
          /\ recognizer' = NewRecognizer(flag) /\ ~running
        BY <1>1 DEF Start
    <2>2. \A e \in Devices : unread[e] = <<>>
        BY <2>1 DEF IInv, UnreadIsForDaemon
    <2>3. recognizer'.metaDownAt = NotHeld
        BY <2>1 DEF NewRecognizer
    <2>4. ASSUME NEW e \in Devices
          PROVE  QueueFollows(e)' /\ HeldFollows(e)'
        <3>1. DOMAIN unread'[e] = {} /\ Len(unread'[e]) = 0
            BY <2>1, <2>2
        <3>2. \A s : Follows(e, recognizer', unread'[e], 0, s)
            BY <2>3 DEF Follows, Explained, Believed
        <3>3. QED
            BY <3>1, <3>2 DEF QueueFollows, HeldFollows
    <2>5. KeysAreKnown' /\ QueueIsKnown' /\ AllAreOpen'
        BY <2>1 DEF LoneInv, KeysAreKnown, QueueIsKnown, AllAreOpen, IsRelease
    <2>6. QED
        BY <2>4, <2>5 DEF LoneInv, RecognizerFollows
<1>2. CASE Ended
    <2>1. UNCHANGED <<held, since, attached>> /\ ~running' /\ unread' = [d \in Devices |-> <<>>]
        BY <1>2 DEF Ended
    <2>2. QueueIsKnown'
        BY <2>1 DEF QueueIsKnown
    <2>3. KeysAreKnown' /\ AllAreOpen' /\ RecognizerFollows'
        BY <2>1 DEF LoneInv, KeysAreKnown, AllAreOpen, RecognizerFollows
    <2>4. QED
        BY <2>2, <2>3 DEF LoneInv
<1>3. QED
    BY <1>1, <1>2 DEF Stop, Crash

LEMMA NextLone == OneMeta /\ IInv /\ LoneInv /\ [Next]_vars => LoneInv'
<1> SUFFICES ASSUME OneMeta, IInv, LoneInv, [Next]_vars PROVE LoneInv'
    OBVIOUS
<1>1. CASE UNCHANGED <<held, since, attached, running, open, unread, recognizer>>
    BY <1>1 DEF LoneInv, KeysAreKnown, QueueIsKnown, AllAreOpen, RecognizerFollows, QueueFollows,
                HeldFollows, IsRelease
<1>2. CASE Pass
    BY <1>1, <1>2 DEF Pass, DaemonUnchanged
<1>3. CASE UNCHANGED vars
    BY <1>1, <1>3 DEF vars
<1>4. QED
    BY <1>2, <1>3, PressLone, ReleaseLone, PlugLone, FeedLone, ProcessLone DEF Next

\* A release that is reported is what the recognizer believes of it.
LEMMA ReportsLoneTaps ==
    ASSUME IInv, LoneInv, NEW d \in Devices, Reporting(d)
    PROVE  /\ tap'.since.time # NotHeld
           /\ tap'.time - tap'.since.time <= TapWindow
           /\ d \notin tap'.since.pressed
<1> DEFINE event == Head(unread[d])
<1> DEFINE fed == Feed(recognizer, event)
<1>1. unread[d] # <<>> /\ tap' = IF fed.action = "tap" THEN event ELSE NoTap
    BY DEF Reporting, FeedNext
<1>2. fed.action = "tap" /\ tap' = event
    BY <1>1 DEF Reporting
<1>3. unread[d] \in Seq(Events) /\ recognizer \in RecognizerType
    BY DEF IInv, TypeOK
<1>4. event \in Events /\ event = unread[d][1] /\ 1 \in DOMAIN unread[d]
    BY <1>1, <1>3
<1>5. IsRelease(event) /\ recognizer.armed /\ WithinWindow(recognizer, event.time)
    BY <1>2, <1>3, <1>4, FeedBelieves
<1>6. running
    BY <1>1 DEF IInv, UnreadIsForDaemon
<1>7. event.since.time # NotHeld
    BY <1>4, <1>5 DEF LoneInv, QueueIsKnown
<1>8. Follows(d, recognizer, unread[d], 0, event.since)
    <2>1. QueueFollows(d)
        BY <1>6 DEF LoneInv, RecognizerFollows
    <2>2. Follows(d, recognizer, unread[d], 1 - 1, event.since)
        BY <1>4, <1>5, <2>1 DEF QueueFollows
    <2>3. QED
        BY <2>2
<1>9. NoMetaIn(unread[d], 1, 0) /\ ~PressIn(unread[d], 1, 0)
    BY DEF NoMetaIn, PressIn
<1>10. recognizer.metaDownAt = event.since.time /\ d \notin event.since.pressed
    BY <1>5, <1>8, <1>9 DEF Follows, Believed, WithinWindow
<1>11. QED
    BY <1>2, <1>5, <1>7, <1>10 DEF WithinWindow

\* With one keyboard that has Meta, a reported tap is a short press of that Meta in which its
\* keyboard saw no other key, for any devices, any backlog, and any unplugging and restarts.
THEOREM TapsAreLone == OneMeta => (Spec => TapsAreShortAndLone)
<1>1. SUFFICES ASSUME OneMeta PROVE Spec => TapsAreShortAndLone
    OBVIOUS
<1>2. IInv /\ LoneInv /\ [Next]_vars => LoneInv'
    BY <1>1, NextLone
<1>3. IInv /\ LoneInv /\ [Next]_vars =>
        [\A d \in Devices : Reporting(d) =>
            /\ tap'.since.time # NotHeld
            /\ tap'.time - tap'.since.time <= TapWindow
            /\ d \notin tap'.since.pressed]_vars
    BY ReportsLoneTaps
<1>4. QED
    BY <1>2, <1>3, InitLone, SpecIInv, PTL DEF Spec, TapsAreShortAndLone
=============================================================================
