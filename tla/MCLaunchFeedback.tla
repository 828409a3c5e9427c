-------------------------- MODULE MCLaunchFeedback --------------------------
(***************************************************************************)
(* Small instances of LaunchFeedback.  Two feedbacks are enough for the    *)
(* answers of one to reach the other, and a third launch refreshes.        *)
(***************************************************************************)
EXTENDS LaunchFeedback
=============================================================================
