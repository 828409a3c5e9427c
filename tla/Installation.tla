----------------------------- MODULE Installation -----------------------------
(***************************************************************************)
(* A machine from its old disk to its last passphrase: the installer's     *)
(* commands one by one, runs that fail and are repeated, the firmware,     *)
(* reboots, and first boot on the installed system.                        *)
(***************************************************************************)
EXTENDS Installer, FirstBoot

CONSTANTS Machines    \* the machines installed

\* The live medium has the script that finds the optimized repositories; an installed
\* host has these already. A desktop is installed from its own live medium or host.
ASSUME MachinesAssumption ==
    /\ Machines \subseteq Machine
    /\ \A m \in Machines : m.live \/ m.optimized
    /\ \A m \in Machines : m.platform = "physical" => m.sameHost

VARIABLES
    system,    \* what is booted: the firmware menu, the installer's host, or the target
    pc,        \* the next command of the running installer, 0 when none runs
    finished,  \* whether install() has returned since the disk was last erased
    reported   \* history: whether the running install() has had the disk listed whole and idle

vars == <<machine, facts, slots, bound, held, step, system, pc, finished, reported>>

Plans == [m \in Machines |-> Install(m)]
Plan == Plans[machine]

\* What a host has before the installer has run on it.
HostFacts(m) == When(m.live, {"calamares"}) \cup When(~m.live, {"keyring", "keyrings", "populated"})

\* What holds the disk: of the installer's own, and of others.
Own == Mounts \cup {"open", "top"}
Others == {"mounted", "mapped"}
Idle == facts \cap (Own \cup Others) = {}

\* A disk that something else is on, or an empty one.
Init ==
    /\ machine \in Machines
    /\ \E old \in SUBSET {"foreign", "secure-boot", "setup-mode"} : facts = HostFacts(machine) \cup old
    /\ slots = {} /\ bound = Unbound /\ held = FALSE
    /\ step = "off" /\ system = "firmware" /\ pc = 0
    /\ finished = FALSE /\ reported = FALSE

-----------------------------------------------------------------------------
(* The installer *)

\* install.main.ts: as root, under UEFI, the host name typed, three secrets given.
Start ==
    /\ system = "host" /\ pc = 0
    /\ pc' = 1
    /\ UNCHANGED <<machine, facts, diskVars, step, system, finished, reported>>

\* The umask and the firmware's quirks are not modelled further, and may be either.
MayPass(check) ==
    /\ check = "setup-mode" => "setup-mode" \in facts
    /\ check = "idle-disk" => machine.wholeDisk /\ AssertTargetDisk(FlattenDevice(facts))
MayRefuse(check) ==
    \/ check \in {"umask", "quirks"}
    \/ check = "setup-mode" /\ "setup-mode" \notin facts
    \/ check = "idle-disk" /\ ~ MayPass(check)

CanRun(c) == c.needs \subseteq facts /\ c.without \cap facts = {}

\* A new LUKS header has the passphrase in its only slot.
Changes(c) ==
    /\ facts' = After(facts, c)
    /\ IF "luks" \in c.adds THEN slots' = {"password"} /\ held' = FALSE /\ bound' = Unbound
       ELSE IF "luks" \in c.dels THEN slots' = {} /\ held' = FALSE /\ bound' = Unbound
       ELSE UNCHANGED diskVars

RunCommand ==
    /\ pc # 0
    /\ MayPass(Plan[pc].check)
    /\ CanRun(Plan[pc])
    /\ Changes(Plan[pc])
    /\ pc' = IF pc = Len(Plan) THEN 0 ELSE pc + 1
    /\ finished' = IF pc = Len(Plan) THEN TRUE ELSE finished /\ "luks" \notin Plan[pc].dels
    /\ reported' = IF Plan[pc].check = "idle-disk" THEN machine.wholeDisk /\ Idle
                   ELSE reported /\ pc # Len(Plan)
    /\ UNCHANGED <<machine, step, system>>

Refuse ==
    /\ pc # 0
    /\ MayRefuse(Plan[pc].check)
    /\ pc' = 0 /\ reported' = FALSE
    /\ UNCHANGED <<machine, facts, diskVars, step, system, finished>>

\* A command fails or the run is interrupted in it, after all, some or none of its work.
CommandFails ==
    /\ pc # 0
    /\ \/ Changes([Plan[pc] EXCEPT !.adds = {}, !.dels = {}])
       \/ Changes([Plan[pc] EXCEPT !.adds = {}])
       \/ CanRun(Plan[pc]) /\ Changes(Plan[pc])
    /\ pc' = 0 /\ reported' = FALSE
    /\ finished' = (finished /\ "luks" \notin Plan[pc].dels)
    /\ UNCHANGED <<machine, step, system>>

-----------------------------------------------------------------------------
(* The people and the rest of the machine *)

\* Something on the host mounts or maps what is on the disk, or lets go of it, whether or
\* not the installer runs.
UseDisk ==
    /\ system = "host"
    /\ \/ facts \cap {"foreign", "esp"} # {} /\ facts' = facts \cup {"mounted"}
       \/ facts \cap {"foreign", "luks"} # {} /\ facts' = facts \cup {"mapped"}
       \/ facts' = facts \ Others
    /\ UNCHANGED <<machine, diskVars, step, system, pc, finished, reported>>

\* The first instruction of "Installed. Next:", and what a run that failed needs.
CleanUp ==
    /\ system = "host" /\ pc = 0
    /\ facts' = facts \ Own
    /\ UNCHANGED <<machine, diskVars, step, system, pc, finished, reported>>

\* By command or by loss of power: what is in memory is gone, and who runs is stopped.
Restart ==
    /\ system # "firmware"
    /\ system' = "firmware" /\ pc' = 0 /\ step' = "off" /\ reported' = FALSE
    /\ facts' = facts \ (InMemory \cup When(machine.live, Made(PrepareHost)))
    /\ UNCHANGED <<machine, diskVars, finished>>

\* In the firmware menu: the switch, and clearing the keys, which enters setup mode.
ChangeFirmware ==
    /\ system = "firmware"
    /\ \/ facts' = facts \cup {"secure-boot"}
       \/ facts' = facts \ {"secure-boot"}
       \/ machine.platform = "physical" /\ facts' = (facts \cup {"setup-mode"}) \ {"our-keys"}
    /\ UNCHANGED <<machine, diskVars, step, system, pc, finished, reported>>

\* The live medium is not signed by a key of the firmware.
BootHost ==
    /\ system = "firmware"
    /\ ~ Enforcing \/ ~ machine.sameHost
    /\ system' = "host"
    /\ UNCHANGED <<machine, facts, diskVars, step, pc, finished, reported>>

\* MokManager, which shim starts: the request confirmed or let pass, or the certificate
\* enrolled from the ESP.
EnrollMok ==
    /\ system = "firmware" /\ "MokManager" \in facts
    /\ \/ "MOK-request" \in facts /\ facts' = facts \ {"MOK-request"}
       \/ /\ facts \cap {"MOK-request", "MOK-certificate"} # {}
          /\ facts' = (facts \cup {"our-MOK"}) \ {"MOK-request"}
    /\ UNCHANGED <<machine, diskVars, step, system, pc, finished, reported>>

\* What the firmware loads when it enforces signatures, and when it does not.
Loads ==
    IF machine.platform = "physical" THEN {"boot-files"} \cup When(Enforcing, {"signed", "our-keys"})
    ELSE {"boot-files", "shim", "grub"} \cup When(Enforcing, {"signed", "our-MOK"})

Unlocks ==
    \/ "password" \in slots
    \/ "recovery" \in slots /\ held
    \/ "tpm2" \in slots /\ bound.enforcing = Enforcing

BootTarget ==
    /\ system = "firmware" /\ finished
    /\ Loads \subseteq facts /\ Unlocks
    /\ system' = "target"
    /\ UNCHANGED <<machine, facts, diskVars, step, pc, finished, reported>>

\* First boot is a program of the installed system.
EnrollUnlocking ==
    /\ system = "target" /\ {"checkout", "machine.json", "deno"} \subseteq facts
    /\ FirstBootStep
    /\ UNCHANGED <<machine, facts, system, pc, finished, reported>>

Next ==
    \/ Start \/ RunCommand \/ Refuse \/ CommandFails
    \/ UseDisk \/ CleanUp \/ Restart \/ ChangeFirmware \/ BootHost \/ EnrollMok \/ BootTarget
    \/ EnrollUnlocking

Spec == Init /\ [][Next]_vars

-----------------------------------------------------------------------------
(* Properties *)

\* What can be true of a machine: what its host has, what its installation makes, what is
\* on the disk before, and what people and the firmware do.
Facts == [m \in Machines |->
    HostFacts(m) \cup Made(Plans[m]) \cup Others \cup {"foreign"}
    \cup {"secure-boot", "setup-mode", "our-MOK"}]

\* Every command of install() is one the machine can be at, and the disk has key slots
\* exactly while it has a LUKS header; first boot runs only on the installed system.
TypeOK ==
    /\ machine \in Machines /\ facts \subseteq Facts[machine]
    /\ slots \subseteq Slots /\ bound \in Bindings /\ held \in BOOLEAN
    /\ step \in Steps /\ system \in {"firmware", "host", "target"}
    /\ pc \in 0 .. Len(Plan) /\ finished \in BOOLEAN /\ reported \in BOOLEAN
    /\ slots # {} <=> "luks" \in facts
    /\ pc # 0 => system = "host"
    /\ step # "off" => system = "target"

\* Whatever an earlier run left behind, however it ended, and wherever the disk comes from:
\* the disk is accepted again once it is unmounted and closed, and once a command's checks
\* have passed it finds what it needs, and nothing that it cannot work with. host.ts
\* promises it for tools, "instead of failing halfway".
RunsCanBeRepeated ==
    /\ machine.wholeDisk /\ Idle => MayPass("idle-disk")
    /\ pc # 0 /\ MayPass(Plan[pc].check) => CanRun(Plan[pc])

\* What is on a disk is lost only on the word of lsblk: to a run that has had it list the
\* disk, not an earlier run, and found it whole and used by nobody, neither by others nor by
\* what a run that failed has left mounted or open. Whoever uses the disk when it is erased
\* has begun after that.
ErasedAsReported ==
    [][ ~ (facts \cap {"foreign", "luks"} \subseteq facts') => reported /\ facts \cap Own = {} ]_vars

\* When install() has returned, no later command has undone what an earlier one settled:
\* the boot files are built from the configuration as it is and signed, the home directory
\* is the user's, the copied secrets are root's, the password hash of the MOK is gone,
\* and the snapshot to roll back to holds all of it. Under Hyper-V the certificate is
\* there even if MokManager has dropped the request.
FinishedIsSettled ==
    finished =>
        /\ {"boot-files", "current", "signed", "fstab", "passwords", "home-owned", "enabled",
             "retention", "timers", "restricted", "snapshot"} \subseteq facts
        /\ machine.platform = "hyper_v" =>
               {"shim", "MokManager", "grub", "MOK-certificate"} \subseteq facts
        /\ "MOK-hash" \notin facts

\* Something the owner has always opens the disk: the passphrase, or the recovery key that
\* is written down. A first boot that stops anywhere never leaves only the TPM.
Unlockable ==
    "luks" \in facts => "password" \in slots \/ ("recovery" \in slots /\ held)

\* The passphrase is given up only for a TPM2 key that is sealed to enforced Secure Boot, and
\* to the MOK list where there is one, whatever the firmware was told in between.
PassphraseIsReplaced ==
    "luks" \in facts /\ "password" \notin slots
        => slots = {"recovery", "tpm2"} /\ bound = [pcrs |-> TPM2_PCRS[machine.platform], enforcing |-> TRUE]
=============================================================================
