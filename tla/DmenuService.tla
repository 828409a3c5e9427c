---------------------------- MODULE DmenuService ----------------------------
(***************************************************************************)
(* What the launcher promises a dmenu client: it is answered at most once, *)
(* only one menu is on screen at a time, a line is chosen only from the    *)
(* menu on screen and only among the lines its own client supplied, and a  *)
(* menu leaves the screen only together with its client's answer.          *)
(***************************************************************************)
EXTENDS Sequences

CONSTANTS Clients, Menus

VARIABLE asked  \* per client: idle, waiting, shown or answered

Idle == [state |-> "idle"]
Waiting(lines) == [state |-> "waiting", lines |-> lines]
OnScreen(lines) == [state |-> "shown", lines |-> lines]
Answered(answer) == [state |-> "answered", answer |-> answer]

Selected(line) == [kind |-> "selected", line |-> line]
Cancelled == [kind |-> "cancelled"]
Failed == [kind |-> "failed"]
Lost == [kind |-> "lost"]  \* the client was gone when its answer came

IsShown(c) == asked[c].state = "shown"

Init == asked = [c \in Clients |-> Idle]

Ask(c, lines) ==
    /\ asked[c] = Idle
    /\ asked' = [asked EXCEPT ![c] = Waiting(lines)]

Refuse(c) ==
    /\ asked[c] = Idle
    /\ asked' = [asked EXCEPT ![c] = Answered(Failed)]

\* A new menu takes the screen, and cancels the one it replaces.
Show(c) ==
    /\ asked[c].state = "waiting"
    /\ \E answer \in {Cancelled, Lost} :
          asked' = [d \in Clients |->
                       IF d = c THEN OnScreen(asked[c].lines)
                       ELSE IF IsShown(d) THEN Answered(answer)
                       ELSE asked[d]]

Choose(c) ==
    /\ IsShown(c)
    /\ \E i \in DOMAIN asked[c].lines :
          \E answer \in {Selected(asked[c].lines[i]), Lost} :
              asked' = [asked EXCEPT ![c] = Answered(answer)]

Dismissed(c) ==
    /\ IsShown(c)
    /\ \E answer \in {Cancelled, Lost} : asked' = [asked EXCEPT ![c] = Answered(answer)]

\* The daemon goes away: everyone who asked is answered.
Outage ==
    \E answers \in [Clients -> {Cancelled, Failed, Lost}] :
        asked' = [c \in Clients |-> IF asked[c].state \in {"waiting", "shown"}
                                    THEN Answered(answers[c]) ELSE asked[c]]

Next ==
    \/ \E c \in Clients, lines \in Menus : Ask(c, lines)
    \/ \E c \in Clients : Refuse(c) \/ Show(c) \/ Choose(c) \/ Dismissed(c)
    \/ Outage

Spec == Init /\ [][Next]_asked
=============================================================================
