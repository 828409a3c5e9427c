------------------------------ MODULE FirstBoot ------------------------------
(***************************************************************************)
(* installer/src/first-boot.main.ts: the temporary LUKS passphrase is      *)
(* replaced by a TPM2 key with a PIN and a recovery key.                   *)
(*                                                                         *)
(* One action per command that the program runs. The key slots are on the  *)
(* disk; where the program is, is lost when it stops. It may stop at any   *)
(* point: a command fails, the user presses Ctrl+C, the power goes.        *)
(***************************************************************************)
EXTENDS Naturals

VARIABLES
    machine,   \* the machine description
    facts,     \* what is true of the firmware; the installer adds the disk and the host
    slots,     \* types of the key slots in the LUKS header
    bound,     \* what the TPM2 slot was sealed to: its PCRs and the state they held
    held,      \* whether the owner has a record of the recovery key in the header
    step       \* the last thing the running program has done

diskVars == <<slots, bound, held>>

Slots == {"password", "recovery", "tpm2"}
Steps == {"off", "asked", "enforcing", "fresh", "keyed", "tested", "enrolled", "shown",
          "confirmed", "ready", "wiped", "done"}

Enforcing == "secure-boot" \in facts /\ "setup-mode" \notin facts

TPM2_PCRS == [physical |-> {7}, hyper_v |-> {7, 14}]
Unbound == [pcrs |-> {}, enforcing |-> FALSE]
Bindings == [pcrs : SUBSET {7, 14}, enforcing : BOOLEAN]

Becomes(from, to) == step = from /\ step' = to

\* askSecret: the passphrase and the PIN, typed twice alike and not empty.
Launch == Becomes("off", "asked") /\ UNCHANGED diskVars

\* enrollUnlocking
\* Mutant: a firmware in setup mode counts as enforcing.
ReadSwitchOnly == "secure-boot" \in facts /\ Becomes("asked", "enforcing") /\ UNCHANGED diskVars

ReadStatus == Enforcing /\ Becomes("asked", "enforcing") /\ UNCHANGED diskVars

NoneEnrolled == slots \cap {"recovery", "tpm2"} = {}
ListSlots == NoneEnrolled /\ Becomes("enforcing", "fresh") /\ UNCHANGED diskVars

\* With the right passphrase in the environment; a wrong one fails.
AddRecoveryKey ==
    /\ "password" \in slots
    /\ Becomes("fresh", "keyed")
    /\ slots' = slots \cup {"recovery"} /\ held' = FALSE
    /\ UNCHANGED bound

TestRecoveryKey ==
    "recovery" \in slots /\ Becomes("keyed", "tested") /\ UNCHANGED diskVars

AddTpm2 ==
    /\ "password" \in slots
    /\ Becomes("tested", "enrolled")
    /\ slots' = slots \cup {"tpm2"}
    /\ bound' = [pcrs |-> TPM2_PCRS[machine.platform], enforcing |-> Enforcing]
    /\ UNCHANGED held

\* The key is on the console, and the owner records it, or does not.
ShowKey ==
    /\ Becomes("enrolled", "shown")
    /\ held' \in BOOLEAN
    /\ UNCHANGED <<slots, bound>>

\* Mutant: whatever is typed is taken for the key.
TypeAnything == Becomes("shown", "confirmed") /\ UNCHANGED diskVars

\* Only who has the key can type it; anything else declines.
TypeBack == held /\ Becomes("shown", "confirmed") /\ UNCHANGED diskVars

\* removePassphrase
BothEnrolled == {"recovery", "tpm2"} \subseteq slots
CheckSlots == BothEnrolled /\ Becomes("confirmed", "ready") /\ UNCHANGED diskVars

\* Mutant: every slot is wiped, not only the passphrase's.
WipeAll ==
    /\ "recovery" \in slots
    /\ Becomes("ready", "wiped")
    /\ slots' = {}
    /\ UNCHANGED <<bound, held>>

WipePassword ==
    /\ "recovery" \in slots
    /\ Becomes("ready", "wiped")
    /\ slots' = slots \ {"password"}
    /\ UNCHANGED <<bound, held>>

CheckRemoval ==
    /\ "password" \notin slots /\ BothEnrolled
    /\ Becomes("wiped", "done")
    /\ UNCHANGED diskVars

\* A refusal, a failure, a decline, a crash, or the end.
Stop == step # "off" /\ step' = "off" /\ UNCHANGED diskVars

FirstBootStep ==
    \/ Launch \/ ReadStatus \/ ListSlots \/ AddRecoveryKey \/ TestRecoveryKey \/ AddTpm2
    \/ ShowKey \/ TypeBack \/ CheckSlots \/ WipePassword \/ CheckRemoval \/ Stop
=============================================================================
