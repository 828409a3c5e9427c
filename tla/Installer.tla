------------------------------ MODULE Installer ------------------------------
(***************************************************************************)
(* The installer as the list of the commands it runs, in order.            *)
(*                                                                         *)
(* What a command needs and what it changes are facts: something is true   *)
(* of the host, of the kernel, of the disk or of the firmware, or it is    *)
(* not. Every function of installer/src that runs commands is an operator  *)
(* that returns them; install() is their concatenation. A command that is  *)
(* a check changes nothing, and ends the run if it does not pass.          *)
(***************************************************************************)
EXTENDS Naturals, Sequences

Platforms == {"physical", "hyper_v"}

\* machine.json, and the host: whether the target is a whole disk, whether pacman.conf
\* lists the optimized repositories already, whether the host is the live medium, and
\* whether it is the machine that will boot the disk.
Machine == [platform : Platforms, ssh : BOOLEAN, wholeDisk : BOOLEAN,
            optimized : BOOLEAN, live : BOOLEAN, sameHost : BOOLEAN]

\* What a run of commands may refuse to go on without.
Checks == {"none", "umask", "setup-mode", "quirks", "idle-disk"}

\* shell.run, shell.capture and shell.writeFile: what must be true and what must not be
\* for the command to work, and what is true after it and no longer true.
Do(needs, adds) ==
    [check |-> "none", needs |-> needs, without |-> {}, adds |-> adds, dels |-> {}]
New(needs, f) == [Do(needs, {f}) EXCEPT !.without = {f}]
Check(c, needs) == [Do(needs, {}) EXCEPT !.check = c]
Spoil(c, dels) == [c EXCEPT !.dels = @ \cup dels]

\* What a command leaves true.
After(facts, c) == (facts \ c.dels) \cup c.adds

\* A command in the installed system, and a file written there. Both change the root
\* file system, so a snapshot taken earlier lacks them.
Chroot == {"tools", "root"}
InTarget(needs, adds) == Spoil(Do(Chroot \cup needs, adds), {"snapshot"})
File(f) == Spoil(Do({"root"}, {f}), {"snapshot"})

ForEach(seq, Command(_)) == [i \in DOMAIN seq |-> Command(seq[i])]
When(condition, S) == IF condition THEN S ELSE {}
Only(condition, seq) == IF condition THEN seq ELSE << >>

\* What a list of commands makes true.
Made(commands) == UNION {commands[i].adds : i \in DOMAIN commands}

-----------------------------------------------------------------------------
(* host.ts *)

PrepareHost ==
    << Check("umask", {}),
       Do({}, {"keyring"}),
       Do({"keyring"}, {"keyrings"}),
       Do({"keyrings"}, {"populated"}),
       Do({"populated"}, {"tools"}),
       Do({"keyring"}, {"key"}),
       Do({"key"}, {"trust"}) >>

-----------------------------------------------------------------------------
(* base.ts *)

\* What the packages bring that later commands run. Fish and the hardware detection
\* are in the base selection, the kernel and Limine hooks build the boot files.
BasePackages == {"sbctl", "limine", "snapper", "openssl", "deno", "fish", "chwd", "btrfs-progs", "services"}
PlatformPackages == [physical |-> {"amd-ucode", "linux-firmware"},
                     hyper_v |-> {"hyperv", "shim-signed", "mokutil", "objcopy"}]
SessionPackages == {"labwc-config"}
PackagesFor(m) ==
    BasePackages \cup PlatformPackages[m.platform] \cup When(m.ssh, {"openssh"}) \cup SessionPackages

\* The configuration that the boot files are built from, and where the target is mounted.
Preseed == {"cmdline", "limine-defaults", "initramfs", "keymap"}
Mounts == {"root", "/var/cache", "/var/log", "/var/tmp", "/boot"}

PreseedBootConfiguration ==
    << Spoil(File("cmdline"), {"current"}), Spoil(File("limine-defaults"), {"current"}),
       Spoil(File("initramfs"), {"current"}), File("keymap") >>

\* Mutant: the detection runs at every installation.
DetectsAlways(m) == FALSE

\* The live pacman.conf is copied at every run. The detection would insert its sections
\* twice, which pacman rejects, so it is skipped if they are there.
HasOptimizedRepositories(m) == m.optimized

TargetPacmanConf(m) ==
    << Spoil(Do({}, {"conf"} \cup When(m.optimized, {"optimized"})), {"optimized"}) >> \o
    Only(~HasOptimizedRepositories(m), << New({"conf", "calamares"}, "optimized") >>) \o
    << Do({"root", "optimized"}, {"target-conf"}) >>

InstallBase(m) ==
    TargetPacmanConf(m) \o
    << Do({"root"}, {}),
       Do({"root"}, {"mirrors"}),
       Do({"root", "trust"}, {"gnupg"}) >> \o
    PreseedBootConfiguration \o
    << Do({"tools", "target-conf", "mirrors", "gnupg"} \cup Preseed \cup Mounts,
          PackagesFor(m) \cup {"packages", "boot-files", "current"}),
       Do({"tools"} \cup Mounts, {"fstab"}) >>

-----------------------------------------------------------------------------
(* configure.ts *)

ConfigureIdentity ==
    << InTarget({"packages"}, {"time-zone"}), InTarget({"packages"}, {}),
       File("locale.gen"), InTarget({"packages", "locale.gen"}, {"locales"}),
       File("locale.conf"), File("hostname"), File("hosts") >>

\* A file in the home directory belongs to root until the last command gives it away.
HomeFile(f) == Spoil(Do({"root", "user"}, {f}), {"snapshot", "home-owned"})

ConfigureUsers(m) ==
    << [InTarget({"packages", "fish"}, {"user"}) EXCEPT !.without = {"user"}], InTarget({"user"}, {"passwords"}),
       File("sudo"), File("autologin"), HomeFile("gtk-3"), HomeFile("gtk-4") >> \o
    Only(m.ssh, << HomeFile("authorized-key"), InTarget({"authorized-key"}, {}), File("sshd") >>) \o
    << InTarget({"user"}, {"home-owned"}) >>

Services(m) == {"services"} \cup When(m.platform = "hyper_v", {"hyperv"}) \cup When(m.ssh, {"openssh"})

ConfigureSystem(m) ==
    ConfigureIdentity \o ConfigureUsers(m) \o
    Only(m.platform = "physical", << InTarget({"chwd"}, {"profiles"}) >>) \o
    << InTarget(Services(m), {"enabled"}) >>

-----------------------------------------------------------------------------
(* snapshots.ts *)

\* The package creates the two files that are then read and rewritten. The initramfs
\* hook is in no initramfs built before.
ConfigureSnapshots ==
    << InTarget({"packages", "target-conf", "mirrors", "gnupg"}, {"snapper-config", "sync-conf"}),
       Do({"root", "snapper-config"}, {"retention"}),
       File("nightly"),
       Do({"root", "sync-conf"}, {"entries"}),
       Spoil(File("overlay"), {"current"}),
       InTarget({"snapper", "nightly"}, {"timers"}) >>

CreateInstallSnapshot == << Do({"tools", "root", "snapper", "retention"}, {"snapshot"}) >>

-----------------------------------------------------------------------------
(* secure-boot.ts *)

AssertReadyForSecureBoot(m) ==
    Only(m.platform = "physical", << Check("setup-mode", {"tools"}), Check("quirks", {}) >>)

InstallShimHooks ==
    << File("sbat-builder"), File("sbat-hook"), File("copy-hook"),
       InTarget({"sbat-builder", "deno", "objcopy", "limine"}, {"sbat"}) >>

\* Builds and signs the boot files from the configuration as it is now.
LimineUpdate(needs, adds) ==
    InTarget({"limine", "keys", "/boot"} \cup Preseed \cup needs,
             {"boot-files", "current", "signed"} \cup adds)

\* enroll-keys ends setup mode. The request for the MOK goes to the firmware of the host
\* that runs the installer, and the hash is needed only for it.
ConfigureSecureBoot(m) ==
    << InTarget({"sbctl"}, {"keys"}) >> \o
    (IF m.platform = "physical"
     THEN << Spoil(InTarget({"sbctl", "keys", "setup-mode"}, {"our-keys"}), {"setup-mode"}),
             LimineUpdate({}, {}),
             InTarget({"sbctl", "signed"}, {}) >>
     ELSE InstallShimHooks \o
          << InTarget({"openssl", "keys"}, {"certificate"}),
             InTarget({"certificate", "/boot"}, {"MOK-certificate"}),
             InTarget({"shim-signed", "/boot"}, {"shim"}),
             InTarget({"shim-signed", "/boot"}, {"MokManager"}),
             LimineUpdate({"sbat", "copy-hook", "shim"}, {"grub"}),
             InTarget({"mokutil"}, {}),
             File("MOK-hash"),
             InTarget({"mokutil", "certificate", "MOK-hash"}, When(m.sameHost, {"MOK-request"})),
             Spoil(Do({"root"}, {}), {"MOK-hash", "snapshot"}) >>)

-----------------------------------------------------------------------------
(* install.ts: what first boot runs from, machine.json readable by root only *)

CopyInstaller ==
    << File("checkout"),
       Spoil(Do({"root", "checkout"}, {"machine.json"}), {"restricted", "snapshot"}),
       InTarget({"checkout"}, {"restricted"}) >>

-----------------------------------------------------------------------------
(* disk-guard.ts and disk.ts *)

PassiveTypes == {"disk", "part"}

\* What lsblk lists on the target disk, flattened: the disk, its partitions, and what is
\* stacked on them. "mounted" and "mapped" are uses by others. A partition that is mounted
\* stays listed when its table is erased.
Device(type, mountpoints) == [type |-> type, mountpoints |-> mountpoints]
FlattenDevice(facts) ==
    {Device("disk", {})}
    \cup When(facts \cap {"foreign", "partitions", "mounted"} # {}, {Device("part", facts \cap {"mounted", "/boot"})})
    \cup When("mapped" \in facts, {Device("lvm", {})})
    \cup When("open" \in facts, {Device("crypt", facts \cap {"top", "root"})})

\* Mutant: only mounts count, not what holds the disk open.
AssertNothingMounted(devices) == \A d \in devices : d.mountpoints = {}

\* assertTargetDisk: nothing on the disk is mounted, and nothing holds it open.
AssertTargetDisk(devices) ==
    /\ \A d \in devices : d.mountpoints = {}
    /\ \A d \in devices : d.type \in PassiveTypes

CheckTargetDisk == << Do({}, {}), Check("idle-disk", {}) >>

Subvolumes == << "@", "@cache", "@log", "@tmp" >>
Detached == << [subvolume |-> "@cache", path |-> "/var/cache"],
               [subvolume |-> "@log", path |-> "/var/log"],
               [subvolume |-> "@tmp", path |-> "/var/tmp"] >>

Layout ==
    << New({"tools"}, "partitions"),
       Do({"tools", "partitions"}, {"table"}),
       Do({"table"}, {"links"}),
       Do({"tools", "links"}, {"esp"}),
       Do({"tools", "links"}, {"luks"}),
       New({"tools", "luks"}, "open"),
       Do({"tools", "open"}, {"btrfs"}),
       New({"btrfs", "open"}, "top") >> \o
    ForEach(Subvolumes, LAMBDA s : New({"top"}, s)) \o
    << Spoil(Do({"top"}, {}), {"top"}),
       New({"@", "open"}, "root"),
       Do({"root"}, {"mount-points"}) >> \o
    ForEach(Detached, LAMBDA d : New({d.subvolume, "open", "mount-points"}, d.path)) \o
    << New({"esp", "links", "mount-points"}, "/boot") >>

\* What is in memory, not on the disk: what the kernel holds of it, and /tmp.
InMemory == {"conf", "optimized", "open", "top", "mounted", "mapped"} \cup Mounts

\* What is on the disk of what the commands make, what was there before, and the keys
\* that the firmware was given for it: they are not the keys of the next installation.
OnDisk(made) == ((made \cup Made(Layout)) \ InMemory) \cup {"foreign", "our-MOK"}

\* The signatures, then the partition tables.
Erase(made) == << Spoil(Do({}, {}), OnDisk(made)), Spoil(Do({"tools"}, {}), OnDisk(made)) >>

PrepareDisk(made) == CheckTargetDisk \o Erase(made) \o Layout

-----------------------------------------------------------------------------
(* install.ts: the order *)

\* Mutant: the snapshot tools, with their initramfs hook, after the boot files are signed.
InstallSnapshotsLast(m) ==
    LET rest == InstallBase(m) \o ConfigureSystem(m) \o ConfigureSecureBoot(m) \o
                ConfigureSnapshots \o CopyInstaller \o CreateInstallSnapshot
    IN  PrepareHost \o AssertReadyForSecureBoot(m) \o PrepareDisk(Made(rest)) \o rest

Install(m) ==
    LET rest == InstallBase(m) \o ConfigureSystem(m) \o ConfigureSnapshots \o
                ConfigureSecureBoot(m) \o CopyInstaller \o CreateInstallSnapshot
    IN  PrepareHost \o AssertReadyForSecureBoot(m) \o PrepareDisk(Made(rest)) \o rest
=============================================================================
