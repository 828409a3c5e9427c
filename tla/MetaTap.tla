------------------------------ MODULE MetaTap -------------------------------
(***************************************************************************)
(* The recognizer of a bare Meta tap and of the Meta+F12 shortcut guard    *)
(* (launcher/core/src/tap.rs), as operators on a recognizer record.        *)
(***************************************************************************)
EXTENDS Integers

CONSTANT TapWindow  \* longest press of Meta that still counts as a tap (TAP_WINDOW)

ASSUME TapAssumption == TapWindow \in Nat

Codes == {"meta", "f12", "other"}  \* left Meta, F12, any other key or button
NotHeld == -1

RecognizerType == [metaDownAt: Nat \cup {NotHeld}, armed: BOOLEAN, suspended: BOOLEAN]

NewRecognizer(suspended) == [metaDownAt |-> NotHeld, armed |-> FALSE, suspended |-> suspended]

Fed(recognizer, action) == [recognizer |-> recognizer, action |-> action]

\* Whether a release of Meta now would still be within the window.
WithinWindow(r, time) == r.metaDownAt # NotHeld /\ time - r.metaDownAt <= TapWindow

\* Mutant: whether another key was pressed is not looked at.
FeedMetaUnarmed(r, event) ==
    CASE event.value = "press" ->
            Fed([r EXCEPT !.metaDownAt = event.time, !.armed = TRUE], "none")
      [] event.value = "release" ->
            Fed([r EXCEPT !.metaDownAt = NotHeld, !.armed = FALSE],
                IF WithinWindow(r, event.time) /\ ~r.suspended THEN "tap" ELSE "none")
      [] OTHER -> Fed(r, "none")

\* feed_meta(): autorepeat is ignored.
FeedMeta(r, event) ==
    CASE event.value = "press" ->
            Fed([r EXCEPT !.metaDownAt = event.time, !.armed = TRUE], "none")
      [] event.value = "release" ->
            Fed([r EXCEPT !.metaDownAt = NotHeld, !.armed = FALSE],
                IF r.armed /\ WithinWindow(r, event.time) /\ ~r.suspended THEN "tap" ELSE "none")
      [] OTHER -> Fed(r, "none")

\* feed()
Feed(r, event) ==
    CASE event.code = "meta" -> FeedMeta(r, event)
      [] event.code # "meta" /\ event.value # "press" -> Fed(r, "none")
      [] event.code = "f12" /\ event.value = "press" /\ r.metaDownAt # NotHeld ->
            Fed([r EXCEPT !.armed = FALSE, !.suspended = ~@], "guard")
      [] OTHER -> Fed([r EXCEPT !.armed = FALSE], "none")
=============================================================================
