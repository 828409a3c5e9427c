------------------------- MODULE Installation_proofs -------------------------
(***************************************************************************)
(* For every set of machines. First a contract for each function of        *)
(* installer/src that lists commands, put together in the order of         *)
(* install(). Then that the disk can always be opened, and the passphrase  *)
(* is given up only for both other keys, whatever the commands are, for it *)
(* only matters whether one makes a LUKS header or removes one; then, from *)
(* the contracts, that runs can be repeated, that the disk is erased only  *)
(* on lsblk's word, and what is settled. Others may use the disk at any    *)
(* step of a run.                                                          *)
(***************************************************************************)
EXTENDS Installation, TLAPS

-----------------------------------------------------------------------------
\* What a list of commands does, whatever it starts from.

List(cs) == cs \in Seq({cs[i] : i \in DOMAIN cs})

LEMMA SequenceIsList ==
    ASSUME NEW S, NEW cs \in Seq(S)
    PROVE  List(cs)
BY DEF List

LEMMA ListIsSequence ==
    ASSUME NEW cs, List(cs)
    PROVE  Len(cs) \in Nat /\ DOMAIN cs = 1..Len(cs) /\ \E S : cs \in Seq(S)
BY DEF List

LEMMA ListsJoin ==
    ASSUME NEW a, NEW b, List(a), List(b)
    PROVE  /\ List(a \o b)
           /\ Len(a) \in Nat /\ Len(b) \in Nat /\ Len(a \o b) = Len(a) + Len(b)
           /\ \A i \in 1..Len(a) : (a \o b)[i] = a[i]
           /\ \A i \in 1..Len(b) : (a \o b)[Len(a) + i] = b[i]
<1>1. PICK S : a \in Seq(S)
    BY DEF List
<1>2. PICK T : b \in Seq(T)
    BY DEF List
<1>3. a \in Seq(S \cup T) /\ b \in Seq(S \cup T)
    BY <1>1, <1>2
<1>4. a \o b \in Seq(S \cup T)
    BY <1>3
<1>5. List(a \o b)
    BY <1>4, SequenceIsList
<1>6. QED
    BY <1>3, <1>5

\* What a check that has passed says of the facts, whatever others do to the disk.
Passes(m, F, check) ==
    /\ check = "setup-mode" => "setup-mode" \in F
    /\ check = "idle-disk" => m.wholeDisk /\ Own \cap F = {}

\* lsblk lists every use of the installer's own below the disk.
Listed(F) ==
    /\ "/boot" \in F => F \cap {"foreign", "partitions"} # {}
    /\ F \cap ((Mounts \ {"/boot"}) \cup {"top"}) # {} => "open" \in F

\* A command finds what it needs, hides no use from lsblk, and erases only what is idle.
Fits(m, F, c) ==
    /\ c.needs \subseteq F /\ c.without \cap F = {}
    /\ Listed(F) => Listed(F \ c.dels) /\ Listed(After(F, c))
    /\ c.dels \cap {"foreign", "luks"} # {} => m.wholeDisk /\ Own \cap F = {}

\* The first n commands of the list have run, and s says what was true after each.
Runs(m, cs, n, s) ==
    \A i \in 1..n : Passes(m, s[i - 1], cs[i].check) /\ s[i] = After(s[i - 1], cs[i])

\* A contract: what a list needs and must not find, what it leaves and clears, and bounds
\* on what its commands make true and spoil. A check changes nothing.
Fields == {"check", "needs", "without", "adds", "dels"}
Bounded(c, p) ==
    /\ DOMAIN c = Fields
    /\ c.adds \subseteq p.makes /\ c.dels \subseteq p.spoils
    /\ c.check # "none" => c.adds = {} /\ c.dels = {}
Started(m, cs, n, s, p) ==
    Runs(m, cs, n, s) /\ p.needs \subseteq s[0] /\ p.without \cap s[0] = {}
Left(p, F, G) ==
    /\ p.leaves \subseteq G /\ p.clears \cap G = {}
    /\ F \ p.spoils \subseteq G /\ G \subseteq F \cup p.makes

Acts(m, cs, p) ==
    /\ List(cs)
    /\ \A i \in 1..Len(cs) : Bounded(cs[i], p)
    /\ \A s : \A n \in 0..Len(cs) :
          Started(m, cs, n, s, p) =>
            /\ n < Len(cs) /\ Passes(m, s[n], cs[n + 1].check) => Fits(m, s[n], cs[n + 1])
            /\ n = Len(cs) => Left(p, s[0], s[n])

\* One list after another.
Joins(p, q, r) ==
    /\ p.needs \subseteq r.needs /\ p.without \subseteq r.without
    /\ q.needs \subseteq p.leaves \cup (r.needs \ p.spoils)
    /\ q.without \subseteq p.clears \cup (r.without \ p.makes)
    /\ r.leaves \subseteq q.leaves \cup ((p.leaves \cup (r.needs \ p.spoils)) \ q.spoils)
    /\ r.clears \subseteq q.clears \cup ((p.clears \cup (r.without \ p.makes)) \ q.makes)
    /\ p.makes \cup q.makes \subseteq r.makes
    /\ p.spoils \cup q.spoils \subseteq r.spoils

LEMMA Sequence ==
    ASSUME NEW m, NEW a, NEW b, NEW p, NEW q, NEW r,
           Acts(m, a, p), Acts(m, b, q), Joins(p, q, r)
    PROVE  Acts(m, a \o b, r)
<1> DEFINE cs == a \o b
<1>1. List(cs) /\ Len(a) \in Nat /\ Len(b) \in Nat /\ Len(cs) = Len(a) + Len(b)
    BY ListsJoin DEF Acts
<1>2. /\ \A i \in 1..Len(a) : cs[i] = a[i]
      /\ \A i \in 1..Len(b) : cs[Len(a) + i] = b[i]
    BY ListsJoin DEF Acts
<1> HIDE DEF cs
<1>3. \A i \in 1..Len(cs) : i \in 1..Len(a) \/ \E j \in 1..Len(b) : i = Len(a) + j
    <2>1. ASSUME NEW i \in 1..Len(cs), i \notin 1..Len(a)
          PROVE  i - Len(a) \in 1..Len(b) /\ i = Len(a) + (i - Len(a))
        BY <1>1, <2>1
    <2>2. QED
        BY <2>1
<1>4. ASSUME NEW i \in 1..Len(cs)
      PROVE  Bounded(cs[i], r)
    <2>1. CASE i \in 1..Len(a)
        BY <1>2, <2>1 DEF Acts, Joins, Bounded
    <2>2. CASE \E j \in 1..Len(b) : i = Len(a) + j
        <3>1. PICK j \in 1..Len(b) : i = Len(a) + j
            BY <2>2
        <3>2. cs[i] = b[j] /\ Bounded(b[j], q)
            BY <1>2, <3>1 DEF Acts
        <3>3. QED
            BY <3>2 DEF Joins, Bounded
    <2>3. QED
        BY <1>3, <2>1, <2>2
<1>5. ASSUME NEW n \in 0..Len(cs), NEW s,
             Started(m, cs, n, s, r)
      PROVE  /\ n < Len(cs) /\ Passes(m, s[n], cs[n + 1].check) => Fits(m, s[n], cs[n + 1])
             /\ n = Len(cs) => Left(r, s[0], s[n])
    <2>1. p.needs \subseteq s[0] /\ p.without \cap s[0] = {}
        BY <1>5 DEF Joins, Started
    <2>2. CASE n < Len(a)
        <3>1. n \in 0..Len(a) /\ n + 1 \in 1..Len(a) /\ n < Len(cs)
            BY <1>1, <2>2
        <3>2. Runs(m, a, n, s)
            <4>1. \A i \in 1..n : i \in 1..Len(a)
                BY <1>1, <2>2
            <4>2. QED
                BY <1>2, <1>5, <4>1 DEF Runs, Started
        <3>3. Passes(m, s[n], a[n + 1].check) => Fits(m, s[n], a[n + 1])
            BY <2>1, <2>2, <3>1, <3>2 DEF Acts, Started
        <3>4. cs[n + 1] = a[n + 1]
            BY <1>2, <3>1
        <3>5. QED
            BY <3>1, <3>3, <3>4
    <2>3. CASE n >= Len(a)
        <3> DEFINE k == n - Len(a)
        <3> DEFINE t == [i \in Nat |-> s[Len(a) + i]]
        <3>1. k \in 0..Len(b) /\ n = Len(a) + k
            BY <1>1, <2>3
        <3>3. /\ t[0] = s[Len(a)] /\ t[k] = s[n]
              /\ \A i \in 1..k : t[i] = s[Len(a) + i] /\ t[i - 1] = s[(Len(a) + i) - 1]
            BY <1>1, <3>1
        <3> HIDE DEF k, t
        <3>4. /\ p.leaves \subseteq s[Len(a)] /\ p.clears \cap s[Len(a)] = {}
              /\ s[0] \ p.spoils \subseteq s[Len(a)] /\ s[Len(a)] \subseteq s[0] \cup p.makes
            <4>1. Runs(m, a, Len(a), s)
                <5>1. \A i \in 1..Len(a) : i \in 1..n
                    BY <1>1, <2>3
                <5>2. QED
                    BY <1>2, <1>5, <5>1 DEF Runs, Started
            <4>2. Len(a) \in 0..Len(a)
                BY <1>1
            <4>3. QED
                BY <2>1, <4>1, <4>2 DEF Acts, Started, Left
        <3>5. Runs(m, b, k, t)
            <4>1. ASSUME NEW i \in 1..k
                  PROVE  Passes(m, t[i - 1], b[i].check) /\ t[i] = After(t[i - 1], b[i])
                <5>1. i \in 1..Len(b) /\ Len(a) + i \in 1..n
                    BY <1>1, <3>1
                <5>2. cs[Len(a) + i] = b[i]
                    BY <1>2, <5>1
                <5>3. /\ Passes(m, s[(Len(a) + i) - 1], cs[Len(a) + i].check)
                      /\ s[Len(a) + i] = After(s[(Len(a) + i) - 1], cs[Len(a) + i])
                    BY <1>5, <5>1 DEF Runs, Started
                <5>4. QED
                    BY <3>3, <5>2, <5>3
            <4>2. QED
                BY <4>1 DEF Runs
        <3>6. q.needs \subseteq t[0] /\ q.without \cap t[0] = {}
            BY <1>5, <3>3, <3>4 DEF Joins, Started
        <3>7. /\ k < Len(b) /\ Passes(m, t[k], b[k + 1].check) => Fits(m, t[k], b[k + 1])
              /\ k = Len(b) => /\ q.leaves \subseteq t[k] /\ q.clears \cap t[k] = {}
                               /\ t[0] \ q.spoils \subseteq t[k]
                               /\ t[k] \subseteq t[0] \cup q.makes
            BY <3>1, <3>5, <3>6 DEF Acts, Started, Left
        <3>8. n < Len(cs) /\ Passes(m, s[n], cs[n + 1].check) => Fits(m, s[n], cs[n + 1])
            <4>1. n < Len(cs) => k < Len(b) /\ cs[n + 1] = b[k + 1]
                <5>1. n < Len(cs) => k < Len(b) /\ k + 1 \in 1..Len(b) /\ n + 1 = Len(a) + (k + 1)
                    BY <1>1, <3>1
                <5>2. QED
                    BY <1>2, <5>1
            <4>2. QED
                BY <3>3, <3>7, <4>1
        <3>9. ASSUME n = Len(cs)
              PROVE  Left(r, s[0], s[n])
            <4>1. k = Len(b)
                BY <1>1, <3>1, <3>9
            <4>2. /\ q.leaves \subseteq s[n] /\ q.clears \cap s[n] = {}
                  /\ s[Len(a)] \ q.spoils \subseteq s[n] /\ s[n] \subseteq s[Len(a)] \cup q.makes
                BY <3>3, <3>7, <4>1
            <4>3. r.leaves \subseteq s[n]
                BY <1>5, <3>4, <4>2 DEF Joins, Started
            <4>4. r.clears \cap s[n] = {}
                BY <1>5, <3>4, <4>2 DEF Joins, Started
            <4>5. s[0] \ r.spoils \subseteq s[n] /\ s[n] \subseteq s[0] \cup r.makes
                BY <3>4, <4>2 DEF Joins
            <4>6. QED
                BY <4>3, <4>4, <4>5 DEF Left
        <3>10. QED
            BY <3>8, <3>9
    <2>4. QED
        BY <1>1, <2>2, <2>3
<1>6. QED
    BY <1>1, <1>4, <1>5 DEF Acts, cs

\* A weaker contract.
LEMMA Weaker ==
    ASSUME NEW m, NEW cs, NEW p, NEW r, Acts(m, cs, p),
           p.needs \subseteq r.needs, p.without \subseteq r.without,
           r.leaves \subseteq p.leaves \cup (r.needs \ p.spoils),
           r.clears \subseteq p.clears \cup (r.without \ p.makes),
           p.makes \subseteq r.makes, p.spoils \subseteq r.spoils
    PROVE  Acts(m, cs, r)
<1>1. List(cs) /\ \A i \in 1..Len(cs) : Bounded(cs[i], r)
    BY DEF Acts, Bounded
<1>2. ASSUME NEW n \in 0..Len(cs), NEW s, Started(m, cs, n, s, r)
      PROVE  /\ n < Len(cs) /\ Passes(m, s[n], cs[n + 1].check) => Fits(m, s[n], cs[n + 1])
             /\ n = Len(cs) => Left(r, s[0], s[n])
    <2>1. Started(m, cs, n, s, p)
        BY <1>2 DEF Started
    <2>2. /\ n < Len(cs) /\ Passes(m, s[n], cs[n + 1].check) => Fits(m, s[n], cs[n + 1])
          /\ n = Len(cs) => Left(p, s[0], s[n])
        BY <2>1 DEF Acts
    <2>3. Left(p, s[0], s[n]) => Left(r, s[0], s[n])
        BY <1>2 DEF Left, Started
    <2>4. QED
        BY <2>2, <2>3
<1>3. QED
    BY <1>1, <1>2 DEF Acts

\* Nothing to do.
LEMMA NothingActs ==
    ASSUME NEW m, NEW p, p.leaves \subseteq p.needs, p.clears \subseteq p.without
    PROVE  Acts(m, << >>, p)
<1>1. List(<< >>) /\ Len(<< >>) = 0
    BY DEF List
<1>2. ASSUME NEW n \in 0..0, NEW s, Started(m, << >>, n, s, p)
      PROVE  Left(p, s[0], s[n])
    BY <1>2 DEF Started, Left
<1>3. QED
    BY <1>1, <1>2 DEF Acts

\* The fields of a command.
Is(c, check, needs, without, adds, dels) ==
    /\ DOMAIN c = Fields
    /\ c.check = check /\ c.needs = needs /\ c.without = without
    /\ c.adds = adds /\ c.dels = dels

\* A command that erases nothing and mounts only what is on the open mapping.
Plain(c) ==
    /\ c.dels \cap {"foreign", "partitions", "luks", "open"} = {}
    /\ "/boot" \notin c.adds
    /\ c.adds \cap ((Mounts \ {"/boot"}) \cup {"top"}) # {} => "open" \in c.needs

Finds(F, c) == c.needs \subseteq F /\ c.without \cap F = {}

LEMMA PlainFits ==
    ASSUME NEW m, NEW F, NEW c, Plain(c), Finds(F, c)
    PROVE  Fits(m, F, c)
<1>1. Listed(F) => Listed(F \ c.dels) /\ Listed(After(F, c))
    BY DEF Plain, Finds, Listed, Mounts, After
<1>2. QED
    BY <1>1 DEF Fits, Plain, Finds

LEMMA PlainActs ==
    ASSUME NEW m, NEW cs, List(cs), NEW p,
           \A i \in 1..Len(cs) : Bounded(cs[i], p) /\ Plain(cs[i]),
           \A s : \A n \in 0..Len(cs) :
               Started(m, cs, n, s, p) =>
                  /\ n < Len(cs) => Finds(s[n], cs[n + 1])
                  /\ n = Len(cs) => Left(p, s[0], s[n])
    PROVE  Acts(m, cs, p)
<1>1. ASSUME NEW n \in 0..Len(cs), NEW s, Started(m, cs, n, s, p)
      PROVE  /\ n < Len(cs) => Fits(m, s[n], cs[n + 1])
             /\ n = Len(cs) => Left(p, s[0], s[n])
    <2>1. n < Len(cs) => n + 1 \in 1..Len(cs)
        OBVIOUS
    <2>2. QED
        BY <1>1, <2>1, PlainFits
<1>2. QED
    BY <1>1 DEF Acts

\* A list of one command.
LEMMA OneActs ==
    ASSUME NEW m, NEW c, NEW p, Bounded(c, p), Plain(c),
           c.needs \subseteq p.needs, c.without \subseteq p.without,
           p.leaves \subseteq (p.needs \ c.dels) \cup c.adds,
           p.clears \subseteq (p.without \cup c.dels) \ c.adds
    PROVE  Acts(m, << c >>, p)
<1> DEFINE cs == << c >>
<1>1. List(cs) /\ Len(cs) = 1 /\ cs[1] = c
    BY DEF List
<1> HIDE DEF cs
<1>2. ASSUME NEW n \in 0..1, NEW s, Started(m, cs, n, s, p)
      PROVE  /\ n < 1 => Finds(s[n], cs[n + 1])
             /\ n = 1 => Left(p, s[0], s[n])
    <2>1. n = 1 => s[1] = After(s[0], c)
        BY <1>1, <1>2 DEF Started, Runs
    <2>2. n = 1 => Left(p, s[0], s[n])
        BY <1>2, <2>1 DEF Started, After, Left, Bounded
    <2>3. n = 0 => Finds(s[n], c)
        BY <1>2 DEF Started, Finds
    <2>4. QED
        BY <1>1, <2>2, <2>3
<1>3. \A i \in 1..1 : Bounded(cs[i], p) /\ Plain(cs[i])
    BY <1>1
<1>4. QED
    BY <1>1, <1>2, <1>3, PlainActs DEF cs

-----------------------------------------------------------------------------
(* The lists whose commands are written out. *)

\* host.ts: the tools for the installation, and the trust in the repository's key.
PrepareHostContract ==
    [needs |-> {}, without |-> {},
     leaves |-> {"tools", "trust"},
     clears |-> {},
     makes |-> {"keyring", "keyrings", "populated", "key", "tools", "trust"},
     spoils |-> {}]

LEMMA PrepareHostActs ==
    ASSUME NEW m
    PROVE  Acts(m, PrepareHost, PrepareHostContract)
<1> DEFINE cs == PrepareHost
<1>1. List(cs) /\ Len(cs) = 7
    BY DEF List, PrepareHost
<1>2. /\ Is(cs[1], "umask", {}, {}, {}, {})
      /\ Is(cs[2], "none", {}, {}, {"keyring"}, {})
      /\ Is(cs[3], "none", {"keyring"}, {}, {"keyrings"}, {})
      /\ Is(cs[4], "none", {"keyrings"}, {}, {"populated"}, {})
      /\ Is(cs[5], "none", {"populated"}, {}, {"tools"}, {})
      /\ Is(cs[6], "none", {"keyring"}, {}, {"key"}, {})
      /\ Is(cs[7], "none", {"key"}, {}, {"trust"}, {})
    BY DEF PrepareHost, Check, Do, Is, Fields
<1> HIDE DEF cs
<1>3. \A i \in 1..7 : Bounded(cs[i], PrepareHostContract) /\ Plain(cs[i])
    BY <1>2 DEF Is, Bounded, Plain, Mounts, PrepareHostContract
<1>4. ASSUME NEW n \in 0..7, NEW s, Started(m, cs, n, s, PrepareHostContract)
      PROVE  /\ n < 7 => Finds(s[n], cs[n + 1])
             /\ n = 7 => Left(PrepareHostContract, s[0], s[n])
    <2>1. /\ n >= 1 => s[1] = After(s[0], cs[1])
          /\ n >= 2 => s[2] = After(s[1], cs[2])
          /\ n >= 3 => s[3] = After(s[2], cs[3])
          /\ n >= 4 => s[4] = After(s[3], cs[4])
          /\ n >= 5 => s[5] = After(s[4], cs[5])
          /\ n >= 6 => s[6] = After(s[5], cs[6])
          /\ n >= 7 => s[7] = After(s[6], cs[7])
        BY <1>4 DEF Started, Runs
    <2>2. QED
        BY <1>2, <1>4, <2>1 DEF Started, Finds, After, Is, Left, PrepareHostContract
<1>5. QED
    BY <1>1, <1>3, <1>4, PlainActs DEF cs

\* base.ts: the mirrors and the keyring of the target.
MirrorsContract ==
    [needs |-> {"root", "trust"}, without |-> {},
     leaves |-> {"mirrors", "gnupg"},
     clears |-> {},
     makes |-> {"mirrors", "gnupg"},
     spoils |-> {}]

LEMMA MirrorsActs ==
    ASSUME NEW m
    PROVE  Acts(m, << Do({"root"}, {}), Do({"root"}, {"mirrors"}), Do({"root", "trust"}, {"gnupg"}) >>,
          MirrorsContract)
<1> DEFINE cs == << Do({"root"}, {}), Do({"root"}, {"mirrors"}), Do({"root", "trust"}, {"gnupg"}) >>
<1>1. List(cs) /\ Len(cs) = 3
    BY DEF List
<1>2. /\ Is(cs[1], "none", {"root"}, {}, {}, {})
      /\ Is(cs[2], "none", {"root"}, {}, {"mirrors"}, {})
      /\ Is(cs[3], "none", {"root", "trust"}, {}, {"gnupg"}, {})
    BY DEF Do, Is, Fields
<1> HIDE DEF cs
<1>3. \A i \in 1..3 : Bounded(cs[i], MirrorsContract) /\ Plain(cs[i])
    BY <1>2 DEF Is, Bounded, Plain, Mounts, MirrorsContract
<1>4. ASSUME NEW n \in 0..3, NEW s, Started(m, cs, n, s, MirrorsContract)
      PROVE  /\ n < 3 => Finds(s[n], cs[n + 1])
             /\ n = 3 => Left(MirrorsContract, s[0], s[n])
    <2>1. /\ n >= 1 => s[1] = After(s[0], cs[1])
          /\ n >= 2 => s[2] = After(s[1], cs[2])
          /\ n >= 3 => s[3] = After(s[2], cs[3])
        BY <1>4 DEF Started, Runs
    <2>2. QED
        BY <1>2, <1>4, <2>1 DEF Started, Finds, After, Is, Left, MirrorsContract
<1>5. QED
    BY <1>1, <1>3, <1>4, PlainActs DEF cs

\* base.ts: what the boot files are built from.
PreseedBootConfigurationContract ==
    [needs |-> {"root"}, without |-> {},
     leaves |-> {"cmdline", "limine-defaults", "initramfs", "keymap"},
     clears |-> {},
     makes |-> {"cmdline", "limine-defaults", "initramfs", "keymap"},
     spoils |-> {"snapshot", "current"}]

LEMMA PreseedBootConfigurationActs ==
    ASSUME NEW m
    PROVE  Acts(m, PreseedBootConfiguration, PreseedBootConfigurationContract)
<1> DEFINE cs == PreseedBootConfiguration
<1>1. List(cs) /\ Len(cs) = 4
    BY DEF List, PreseedBootConfiguration
<1>2. /\ Is(cs[1], "none", {"root"}, {}, {"cmdline"}, {"snapshot", "current"})
      /\ Is(cs[2], "none", {"root"}, {}, {"limine-defaults"}, {"snapshot", "current"})
      /\ Is(cs[3], "none", {"root"}, {}, {"initramfs"}, {"snapshot", "current"})
      /\ Is(cs[4], "none", {"root"}, {}, {"keymap"}, {"snapshot"})
    BY DEF PreseedBootConfiguration, Spoil, File, Do, Is, Fields
<1> HIDE DEF cs
<1>3. \A i \in 1..4 : Bounded(cs[i], PreseedBootConfigurationContract) /\ Plain(cs[i])
    BY <1>2 DEF Is, Bounded, Plain, Mounts, PreseedBootConfigurationContract
<1>4. ASSUME NEW n \in 0..4, NEW s, Started(m, cs, n, s, PreseedBootConfigurationContract)
      PROVE  /\ n < 4 => Finds(s[n], cs[n + 1])
             /\ n = 4 => Left(PreseedBootConfigurationContract, s[0], s[n])
    <2>1. /\ n >= 1 => s[1] = After(s[0], cs[1])
          /\ n >= 2 => s[2] = After(s[1], cs[2])
          /\ n >= 3 => s[3] = After(s[2], cs[3])
          /\ n >= 4 => s[4] = After(s[3], cs[4])
        BY <1>4 DEF Started, Runs
    <2>2. QED
        BY <1>2, <1>4, <2>1 DEF Started, Finds, After, Is, Left, PreseedBootConfigurationContract
<1>5. QED
    BY <1>1, <1>3, <1>4, PlainActs DEF cs

\* configure.ts: time zone, locales and names.
ConfigureIdentityContract ==
    [needs |-> {"tools", "root", "packages"}, without |-> {},
     leaves |-> {},
     clears |-> {},
     makes |-> {"time-zone", "locale.gen", "locales", "locale.conf", "hostname", "hosts"},
     spoils |-> {"snapshot"}]

LEMMA ConfigureIdentityActs ==
    ASSUME NEW m
    PROVE  Acts(m, ConfigureIdentity, ConfigureIdentityContract)
<1> DEFINE cs == ConfigureIdentity
<1>1. List(cs) /\ Len(cs) = 7
    BY DEF List, ConfigureIdentity
<1>2. /\ Is(cs[1], "none", {"tools", "root", "packages"}, {}, {"time-zone"}, {"snapshot"})
      /\ Is(cs[2], "none", {"tools", "root", "packages"}, {}, {}, {"snapshot"})
      /\ Is(cs[3], "none", {"root"}, {}, {"locale.gen"}, {"snapshot"})
      /\ Is(cs[4], "none", {"tools", "root", "packages", "locale.gen"}, {}, {"locales"}, {"snapshot"})
      /\ Is(cs[5], "none", {"root"}, {}, {"locale.conf"}, {"snapshot"})
      /\ Is(cs[6], "none", {"root"}, {}, {"hostname"}, {"snapshot"})
      /\ Is(cs[7], "none", {"root"}, {}, {"hosts"}, {"snapshot"})
    BY DEF ConfigureIdentity, InTarget, File, Spoil, Chroot, Do, Is, Fields
<1> HIDE DEF cs
<1>3. \A i \in 1..7 : Bounded(cs[i], ConfigureIdentityContract) /\ Plain(cs[i])
    BY <1>2 DEF Is, Bounded, Plain, Mounts, ConfigureIdentityContract
<1>4. ASSUME NEW n \in 0..7, NEW s, Started(m, cs, n, s, ConfigureIdentityContract)
      PROVE  /\ n < 7 => Finds(s[n], cs[n + 1])
             /\ n = 7 => Left(ConfigureIdentityContract, s[0], s[n])
    <2>1. /\ n >= 1 => s[1] = After(s[0], cs[1])
          /\ n >= 2 => s[2] = After(s[1], cs[2])
          /\ n >= 3 => s[3] = After(s[2], cs[3])
          /\ n >= 4 => s[4] = After(s[3], cs[4])
          /\ n >= 5 => s[5] = After(s[4], cs[5])
          /\ n >= 6 => s[6] = After(s[5], cs[6])
          /\ n >= 7 => s[7] = After(s[6], cs[7])
        BY <1>4 DEF Started, Runs
    <2>2. QED
        BY <1>2, <1>4, <2>1 DEF Started, Finds, After, Is, Left, ConfigureIdentityContract
<1>5. QED
    BY <1>1, <1>3, <1>4, PlainActs DEF cs

\* snapshots.ts: the tools, whose hook makes the boot files out of date.
ConfigureSnapshotsContract ==
    [needs |-> {"tools", "root", "packages", "target-conf", "mirrors", "gnupg", "snapper"},
               without |-> {},
     leaves |-> {"retention", "timers"},
     clears |-> {},
     makes |-> {"snapper-config", "sync-conf", "retention", "nightly", "entries", "overlay", "timers"},
     spoils |-> {"snapshot", "current"}]

LEMMA ConfigureSnapshotsActs ==
    ASSUME NEW m
    PROVE  Acts(m, ConfigureSnapshots, ConfigureSnapshotsContract)
<1> DEFINE cs == ConfigureSnapshots
<1>1. List(cs) /\ Len(cs) = 6
    BY DEF List, ConfigureSnapshots
<1>2. /\ Is(cs[1], "none", {"tools", "root", "packages", "target-conf", "mirrors", "gnupg"}, {},
            {"snapper-config", "sync-conf"}, {"snapshot"})
      /\ Is(cs[2], "none", {"root", "snapper-config"}, {}, {"retention"}, {})
      /\ Is(cs[3], "none", {"root"}, {}, {"nightly"}, {"snapshot"})
      /\ Is(cs[4], "none", {"root", "sync-conf"}, {}, {"entries"}, {})
      /\ Is(cs[5], "none", {"root"}, {}, {"overlay"}, {"snapshot", "current"})
      /\ Is(cs[6], "none", {"tools", "root", "snapper", "nightly"}, {}, {"timers"}, {"snapshot"})
    BY DEF ConfigureSnapshots, InTarget, File, Spoil, Chroot, Do, Is, Fields
<1> HIDE DEF cs
<1>3. \A i \in 1..6 : Bounded(cs[i], ConfigureSnapshotsContract) /\ Plain(cs[i])
    BY <1>2 DEF Is, Bounded, Plain, Mounts, ConfigureSnapshotsContract
<1>4. ASSUME NEW n \in 0..6, NEW s, Started(m, cs, n, s, ConfigureSnapshotsContract)
      PROVE  /\ n < 6 => Finds(s[n], cs[n + 1])
             /\ n = 6 => Left(ConfigureSnapshotsContract, s[0], s[n])
    <2>1. /\ n >= 1 => s[1] = After(s[0], cs[1])
          /\ n >= 2 => s[2] = After(s[1], cs[2])
          /\ n >= 3 => s[3] = After(s[2], cs[3])
          /\ n >= 4 => s[4] = After(s[3], cs[4])
          /\ n >= 5 => s[5] = After(s[4], cs[5])
          /\ n >= 6 => s[6] = After(s[5], cs[6])
        BY <1>4 DEF Started, Runs
    <2>2. QED
        BY <1>2, <1>4, <2>1 DEF Started, Finds, After, Is, Left, ConfigureSnapshotsContract
<1>5. QED
    BY <1>1, <1>3, <1>4, PlainActs DEF cs

\* snapshots.ts: the snapshot to roll back to.
CreateInstallSnapshotContract ==
    [needs |-> {"tools", "root", "snapper", "retention"}, without |-> {},
     leaves |-> {"snapshot"},
     clears |-> {},
     makes |-> {"snapshot"},
     spoils |-> {}]

LEMMA CreateInstallSnapshotActs ==
    ASSUME NEW m
    PROVE  Acts(m, CreateInstallSnapshot, CreateInstallSnapshotContract)
<1> DEFINE cs == CreateInstallSnapshot
<1>1. List(cs) /\ Len(cs) = 1
    BY DEF List, CreateInstallSnapshot
<1>2. /\ Is(cs[1], "none", {"tools", "root", "snapper", "retention"}, {}, {"snapshot"}, {})
    BY DEF CreateInstallSnapshot, Do, Is, Fields
<1> HIDE DEF cs
<1>3. \A i \in 1..1 : Bounded(cs[i], CreateInstallSnapshotContract) /\ Plain(cs[i])
    BY <1>2 DEF Is, Bounded, Plain, Mounts, CreateInstallSnapshotContract
<1>4. ASSUME NEW n \in 0..1, NEW s, Started(m, cs, n, s, CreateInstallSnapshotContract)
      PROVE  /\ n < 1 => Finds(s[n], cs[n + 1])
             /\ n = 1 => Left(CreateInstallSnapshotContract, s[0], s[n])
    <2>1. /\ n >= 1 => s[1] = After(s[0], cs[1])
        BY <1>4 DEF Started, Runs
    <2>2. QED
        BY <1>2, <1>4, <2>1 DEF Started, Finds, After, Is, Left, CreateInstallSnapshotContract
<1>5. QED
    BY <1>1, <1>3, <1>4, PlainActs DEF cs

\* install.ts: what first boot runs from.
CopyInstallerContract ==
    [needs |-> {"tools", "root"}, without |-> {},
     leaves |-> {"restricted"},
     clears |-> {},
     makes |-> {"checkout", "machine.json", "restricted"},
     spoils |-> {"restricted", "snapshot"}]

LEMMA CopyInstallerActs ==
    ASSUME NEW m
    PROVE  Acts(m, CopyInstaller, CopyInstallerContract)
<1> DEFINE cs == CopyInstaller
<1>1. List(cs) /\ Len(cs) = 3
    BY DEF List, CopyInstaller
<1>2. /\ Is(cs[1], "none", {"root"}, {}, {"checkout"}, {"snapshot"})
      /\ Is(cs[2], "none", {"root", "checkout"}, {}, {"machine.json"}, {"restricted", "snapshot"})
      /\ Is(cs[3], "none", {"tools", "root", "checkout"}, {}, {"restricted"}, {"snapshot"})
    BY DEF CopyInstaller, InTarget, File, Spoil, Chroot, Do, Is, Fields
<1> HIDE DEF cs
<1>3. \A i \in 1..3 : Bounded(cs[i], CopyInstallerContract) /\ Plain(cs[i])
    BY <1>2 DEF Is, Bounded, Plain, Mounts, CopyInstallerContract
<1>4. ASSUME NEW n \in 0..3, NEW s, Started(m, cs, n, s, CopyInstallerContract)
      PROVE  /\ n < 3 => Finds(s[n], cs[n + 1])
             /\ n = 3 => Left(CopyInstallerContract, s[0], s[n])
    <2>1. /\ n >= 1 => s[1] = After(s[0], cs[1])
          /\ n >= 2 => s[2] = After(s[1], cs[2])
          /\ n >= 3 => s[3] = After(s[2], cs[3])
        BY <1>4 DEF Started, Runs
    <2>2. QED
        BY <1>2, <1>4, <2>1 DEF Started, Finds, After, Is, Left, CopyInstallerContract
<1>5. QED
    BY <1>1, <1>3, <1>4, PlainActs DEF cs

\* secure-boot.ts: the hooks that keep shim's second stage.
InstallShimHooksContract ==
    [needs |-> {"tools", "root", "deno", "objcopy", "limine"}, without |-> {},
     leaves |-> {"sbat", "copy-hook"},
     clears |-> {},
     makes |-> {"sbat-builder", "sbat-hook", "copy-hook", "sbat"},
     spoils |-> {"snapshot"}]

LEMMA InstallShimHooksActs ==
    ASSUME NEW m
    PROVE  Acts(m, InstallShimHooks, InstallShimHooksContract)
<1> DEFINE cs == InstallShimHooks
<1>1. List(cs) /\ Len(cs) = 4
    BY DEF List, InstallShimHooks
<1>2. /\ Is(cs[1], "none", {"root"}, {}, {"sbat-builder"}, {"snapshot"})
      /\ Is(cs[2], "none", {"root"}, {}, {"sbat-hook"}, {"snapshot"})
      /\ Is(cs[3], "none", {"root"}, {}, {"copy-hook"}, {"snapshot"})
      /\ Is(cs[4], "none", {"tools", "root", "sbat-builder", "deno", "objcopy", "limine"}, {},
            {"sbat"}, {"snapshot"})
    BY DEF InstallShimHooks, InTarget, File, Spoil, Chroot, Do, Is, Fields
<1> HIDE DEF cs
<1>3. \A i \in 1..4 : Bounded(cs[i], InstallShimHooksContract) /\ Plain(cs[i])
    BY <1>2 DEF Is, Bounded, Plain, Mounts, InstallShimHooksContract
<1>4. ASSUME NEW n \in 0..4, NEW s, Started(m, cs, n, s, InstallShimHooksContract)
      PROVE  /\ n < 4 => Finds(s[n], cs[n + 1])
             /\ n = 4 => Left(InstallShimHooksContract, s[0], s[n])
    <2>1. /\ n >= 1 => s[1] = After(s[0], cs[1])
          /\ n >= 2 => s[2] = After(s[1], cs[2])
          /\ n >= 3 => s[3] = After(s[2], cs[3])
          /\ n >= 4 => s[4] = After(s[3], cs[4])
        BY <1>4 DEF Started, Runs
    <2>2. QED
        BY <1>2, <1>4, <2>1 DEF Started, Finds, After, Is, Left, InstallShimHooksContract
<1>5. QED
    BY <1>1, <1>3, <1>4, PlainActs DEF cs

\* configure.ts: the user, who is not there yet.
AccountsContract ==
    [needs |-> {"tools", "root", "packages", "fish"}, without |-> {"user"},
     leaves |-> {"user", "passwords"},
     clears |-> {},
     makes |-> {"user", "passwords", "sudo", "autologin", "gtk-3", "gtk-4"},
     spoils |-> {"snapshot", "home-owned"}]

LEMMA AccountsActs ==
    ASSUME NEW m
    PROVE  Acts(m, << [InTarget({"packages", "fish"}, {"user"}) EXCEPT !.without = {"user"}],
                   InTarget({"user"}, {"passwords"}),
                   File("sudo"), File("autologin"), HomeFile("gtk-3"), HomeFile("gtk-4") >>,
                         AccountsContract)
<1> DEFINE cs == << [InTarget({"packages", "fish"}, {"user"}) EXCEPT !.without = {"user"}],
                   InTarget({"user"}, {"passwords"}),
                   File("sudo"), File("autologin"), HomeFile("gtk-3"), HomeFile("gtk-4") >>
<1>1. List(cs) /\ Len(cs) = 6
    BY DEF List
<1>2. /\ Is(cs[1], "none", {"tools", "root", "packages", "fish"}, {"user"}, {"user"}, {"snapshot"})
      /\ Is(cs[2], "none", {"tools", "root", "user"}, {}, {"passwords"}, {"snapshot"})
      /\ Is(cs[3], "none", {"root"}, {}, {"sudo"}, {"snapshot"})
      /\ Is(cs[4], "none", {"root"}, {}, {"autologin"}, {"snapshot"})
      /\ Is(cs[5], "none", {"root", "user"}, {}, {"gtk-3"}, {"snapshot", "home-owned"})
      /\ Is(cs[6], "none", {"root", "user"}, {}, {"gtk-4"}, {"snapshot", "home-owned"})
    BY DEF InTarget, File, Spoil, Chroot, HomeFile, Do, Is, Fields
<1> HIDE DEF cs
<1>3. \A i \in 1..6 : Bounded(cs[i], AccountsContract) /\ Plain(cs[i])
    BY <1>2 DEF Is, Bounded, Plain, Mounts, AccountsContract
<1>4. ASSUME NEW n \in 0..6, NEW s, Started(m, cs, n, s, AccountsContract)
      PROVE  /\ n < 6 => Finds(s[n], cs[n + 1])
             /\ n = 6 => Left(AccountsContract, s[0], s[n])
    <2>1. /\ n >= 1 => s[1] = After(s[0], cs[1])
          /\ n >= 2 => s[2] = After(s[1], cs[2])
          /\ n >= 3 => s[3] = After(s[2], cs[3])
          /\ n >= 4 => s[4] = After(s[3], cs[4])
          /\ n >= 5 => s[5] = After(s[4], cs[5])
          /\ n >= 6 => s[6] = After(s[5], cs[6])
        BY <1>4 DEF Started, Runs
    <2>2. QED
        BY <1>2, <1>4, <2>1 DEF Started, Finds, After, Is, Left, AccountsContract
<1>5. QED
    BY <1>1, <1>3, <1>4, PlainActs DEF cs

\* configure.ts: remote access.
SshContract ==
    [needs |-> {"tools", "root", "user"}, without |-> {},
     leaves |-> {},
     clears |-> {},
     makes |-> {"authorized-key", "sshd"},
     spoils |-> {"snapshot", "home-owned"}]

LEMMA SshActs ==
    ASSUME NEW m
    PROVE  Acts(m, << HomeFile("authorized-key"), InTarget({"authorized-key"}, {}), File("sshd") >>,
          SshContract)
<1> DEFINE cs == << HomeFile("authorized-key"), InTarget({"authorized-key"}, {}), File("sshd") >>
<1>1. List(cs) /\ Len(cs) = 3
    BY DEF List
<1>2. /\ Is(cs[1], "none", {"root", "user"}, {}, {"authorized-key"}, {"snapshot", "home-owned"})
      /\ Is(cs[2], "none", {"tools", "root", "authorized-key"}, {}, {}, {"snapshot"})
      /\ Is(cs[3], "none", {"root"}, {}, {"sshd"}, {"snapshot"})
    BY DEF InTarget, File, Spoil, Chroot, HomeFile, Do, Is, Fields
<1> HIDE DEF cs
<1>3. \A i \in 1..3 : Bounded(cs[i], SshContract) /\ Plain(cs[i])
    BY <1>2 DEF Is, Bounded, Plain, Mounts, SshContract
<1>4. ASSUME NEW n \in 0..3, NEW s, Started(m, cs, n, s, SshContract)
      PROVE  /\ n < 3 => Finds(s[n], cs[n + 1])
             /\ n = 3 => Left(SshContract, s[0], s[n])
    <2>1. /\ n >= 1 => s[1] = After(s[0], cs[1])
          /\ n >= 2 => s[2] = After(s[1], cs[2])
          /\ n >= 3 => s[3] = After(s[2], cs[3])
        BY <1>4 DEF Started, Runs
    <2>2. QED
        BY <1>2, <1>4, <2>1 DEF Started, Finds, After, Is, Left, SshContract
<1>5. QED
    BY <1>1, <1>3, <1>4, PlainActs DEF cs

\* configure.ts: the home directory is given away last.
HomeOwnedContract ==
    [needs |-> {"tools", "root", "user"}, without |-> {},
     leaves |-> {"home-owned"},
     clears |-> {},
     makes |-> {"home-owned"},
     spoils |-> {"snapshot"}]

LEMMA HomeOwnedActs ==
    ASSUME NEW m
    PROVE  Acts(m, << InTarget({"user"}, {"home-owned"}) >>, HomeOwnedContract)
<1> DEFINE c == InTarget({"user"}, {"home-owned"})
<1>1. Is(c, "none", {"tools", "root", "user"}, {}, {"home-owned"}, {"snapshot"})
    BY DEF InTarget, Spoil, Chroot, Do, Is, Fields
<1> HIDE DEF c
<1>2. Acts(m, << c >>, HomeOwnedContract)
    BY <1>1, OneActs DEF Is, Bounded, Plain, Mounts, HomeOwnedContract
<1>3. QED
    BY <1>2 DEF c

\* configure.ts: the drivers of a desktop.
DriversContract ==
    [needs |-> {"tools", "root", "chwd"}, without |-> {},
     leaves |-> {},
     clears |-> {},
     makes |-> {"profiles"},
     spoils |-> {"snapshot"}]

LEMMA DriversActs ==
    ASSUME NEW m
    PROVE  Acts(m, << InTarget({"chwd"}, {"profiles"}) >>, DriversContract)
<1> DEFINE c == InTarget({"chwd"}, {"profiles"})
<1>1. Is(c, "none", {"tools", "root", "chwd"}, {}, {"profiles"}, {"snapshot"})
    BY DEF InTarget, Spoil, Chroot, Do, Is, Fields
<1> HIDE DEF c
<1>2. Acts(m, << c >>, DriversContract)
    BY <1>1, OneActs DEF Is, Bounded, Plain, Mounts, DriversContract
<1>3. QED
    BY <1>2 DEF c

\* configure.ts: the services of the installed packages.
EnabledContract(m) ==
    [needs |-> {"tools", "root"} \cup Services(m), without |-> {},
     leaves |-> {"enabled"},
     clears |-> {},
     makes |-> {"enabled"},
     spoils |-> {"snapshot"}]

LEMMA EnabledActs ==
    ASSUME NEW m
    PROVE  Acts(m, << InTarget(Services(m), {"enabled"}) >>, EnabledContract(m))
<1> DEFINE c == InTarget(Services(m), {"enabled"})
<1>1. Is(c, "none", {"tools", "root"} \cup Services(m), {}, {"enabled"}, {"snapshot"})
    BY DEF InTarget, Spoil, Chroot, Do, Is, Fields
<1> HIDE DEF c
<1>2. Acts(m, << c >>, EnabledContract(m))
    BY <1>1, OneActs DEF Is, Bounded, Plain, Mounts, EnabledContract
<1>3. QED
    BY <1>2 DEF c

\* base.ts: the host's pacman.conf is copied anew, so what was inserted is gone.
OwnConfContract(m) ==
    [needs |-> {}, without |-> {},
     leaves |-> {"conf"} \cup When(m.optimized, {"optimized"}),
     clears |-> When(~m.optimized, {"optimized"}),
     makes |-> {"conf", "optimized"},
     spoils |-> {"optimized"}]

LEMMA OwnConfActs ==
    ASSUME NEW m
    PROVE  Acts(m, << Spoil(Do({}, {"conf"} \cup When(m.optimized, {"optimized"})), {"optimized"}) >>,
                OwnConfContract(m))
<1> DEFINE c == Spoil(Do({}, {"conf"} \cup When(m.optimized, {"optimized"})), {"optimized"})
<1>1. Is(c, "none", {}, {}, {"conf"} \cup When(m.optimized, {"optimized"}), {"optimized"})
    BY DEF Spoil, Do, Is, Fields
<1> HIDE DEF c
<1>2. Acts(m, << c >>, OwnConfContract(m))
    BY <1>1, OneActs DEF Is, Bounded, Plain, Mounts, OwnConfContract, When
<1>3. QED
    BY <1>2 DEF c

\* base.ts: the detection inserts the optimized repositories, once.
DetectionContract ==
    [needs |-> {"conf", "calamares"}, without |-> {"optimized"},
     leaves |-> {"optimized"},
     clears |-> {},
     makes |-> {"optimized"},
     spoils |-> {}]

LEMMA DetectionActs ==
    ASSUME NEW m
    PROVE  Acts(m, << New({"conf", "calamares"}, "optimized") >>, DetectionContract)
<1> DEFINE c == New({"conf", "calamares"}, "optimized")
<1>1. Is(c, "none", {"conf", "calamares"}, {"optimized"}, {"optimized"}, {})
    BY DEF New, Do, Is, Fields
<1> HIDE DEF c
<1>2. Acts(m, << c >>, DetectionContract)
    BY <1>1, OneActs DEF Is, Bounded, Plain, Mounts, DetectionContract
<1>3. QED
    BY <1>2 DEF c

\* base.ts: the target gets the same configuration.
TargetConfContract ==
    [needs |-> {"root", "optimized"}, without |-> {},
     leaves |-> {"target-conf"},
     clears |-> {},
     makes |-> {"target-conf"},
     spoils |-> {}]

LEMMA TargetConfActs ==
    ASSUME NEW m
    PROVE  Acts(m, << Do({"root", "optimized"}, {"target-conf"}) >>, TargetConfContract)
<1> DEFINE c == Do({"root", "optimized"}, {"target-conf"})
<1>1. Is(c, "none", {"root", "optimized"}, {}, {"target-conf"}, {})
    BY DEF Do, Is, Fields
<1> HIDE DEF c
<1>2. Acts(m, << c >>, TargetConfContract)
    BY <1>1, OneActs DEF Is, Bounded, Plain, Mounts, TargetConfContract
<1>3. QED
    BY <1>2 DEF c

\* base.ts: the packages, into the mounted target.
PackagesContract(m) ==
    [needs |-> {"tools", "target-conf", "mirrors", "gnupg"} \cup Preseed \cup Mounts, without |-> {},
     leaves |-> PackagesFor(m) \cup {"packages", "fstab"},
     clears |-> {},
     makes |-> PackagesFor(m) \cup {"packages", "boot-files", "current", "fstab"},
     spoils |-> {}]

LEMMA PackagesActs ==
    ASSUME NEW m \in Machine
    PROVE  Acts(m, << Do({"tools", "target-conf", "mirrors", "gnupg"} \cup Preseed \cup Mounts,
                    PackagesFor(m) \cup {"packages", "boot-files", "current"}),
                 Do({"tools"} \cup Mounts, {"fstab"}) >>, PackagesContract(m))
<1> DEFINE cs == << Do({"tools", "target-conf", "mirrors", "gnupg"} \cup Preseed \cup Mounts,
                    PackagesFor(m) \cup {"packages", "boot-files", "current"}),
                 Do({"tools"} \cup Mounts, {"fstab"}) >>
<1>1. List(cs) /\ Len(cs) = 2
    BY DEF List
<1>2. /\ Is(cs[1], "none", {"tools", "target-conf", "mirrors", "gnupg"} \cup Preseed \cup Mounts, {},
            PackagesFor(m) \cup {"packages", "boot-files", "current"}, {})
      /\ Is(cs[2], "none", {"tools"} \cup Mounts, {}, {"fstab"}, {})
    BY DEF Do, Is, Fields
<1> HIDE DEF cs
<1>3. \A i \in 1..2 : Bounded(cs[i], PackagesContract(m)) /\ Plain(cs[i])
    BY <1>2 DEF Is, Bounded, Plain, Mounts, PackagesContract, PackagesFor, PlatformPackages,
                BasePackages, SessionPackages, When, Preseed, Mounts, Machine, Platforms
<1>4. ASSUME NEW n \in 0..2, NEW s, Started(m, cs, n, s, PackagesContract(m))
      PROVE  /\ n < 2 => Finds(s[n], cs[n + 1])
             /\ n = 2 => Left(PackagesContract(m), s[0], s[n])
    <2>1. /\ n >= 1 => s[1] = After(s[0], cs[1])
          /\ n >= 2 => s[2] = After(s[1], cs[2])
        BY <1>4 DEF Started, Runs
    <2>2. QED
        BY <1>2, <1>4, <2>1 DEF Started, Finds, After, Is, Left, PackagesContract, PackagesFor,
                                PlatformPackages, BasePackages, SessionPackages, When, Preseed, Mounts,
                                      Machine, Platforms
<1>5. QED
    BY <1>1, <1>3, <1>4, PlainActs DEF cs

\* secure-boot.ts: the signing keys.
KeysContract ==
    [needs |-> {"tools", "root", "sbctl"}, without |-> {},
     leaves |-> {"keys"},
     clears |-> {},
     makes |-> {"keys"},
     spoils |-> {"snapshot"}]

LEMMA KeysActs ==
    ASSUME NEW m
    PROVE  Acts(m, << InTarget({"sbctl"}, {"keys"}) >>, KeysContract)
<1> DEFINE c == InTarget({"sbctl"}, {"keys"})
<1>1. Is(c, "none", {"tools", "root", "sbctl"}, {}, {"keys"}, {"snapshot"})
    BY DEF InTarget, Spoil, Chroot, Do, Is, Fields
<1> HIDE DEF c
<1>2. Acts(m, << c >>, KeysContract)
    BY <1>1, OneActs DEF Is, Bounded, Plain, Mounts, KeysContract
<1>3. QED
    BY <1>2 DEF c

\* secure-boot.ts: a desktop's firmware gets the keys, which ends setup mode.
OwnKeysContract ==
    [needs |-> {"tools", "root", "sbctl", "setup-mode", "limine", "keys", "/boot", "cmdline",
               "limine-defaults", "initramfs", "keymap"}, without |-> {},
     leaves |-> {"boot-files", "current", "signed"},
     clears |-> {},
     makes |-> {"our-keys", "boot-files", "current", "signed"},
     spoils |-> {"snapshot", "setup-mode"}]

LEMMA OwnKeysActs ==
    ASSUME NEW m
    PROVE  Acts(m, << Spoil(InTarget({"sbctl", "keys", "setup-mode"}, {"our-keys"}), {"setup-mode"}),
                LimineUpdate({}, {}), InTarget({"sbctl", "signed"}, {}) >>, OwnKeysContract)
<1> DEFINE cs == << Spoil(InTarget({"sbctl", "keys", "setup-mode"}, {"our-keys"}), {"setup-mode"}),
                LimineUpdate({}, {}), InTarget({"sbctl", "signed"}, {}) >>
<1>1. List(cs) /\ Len(cs) = 3
    BY DEF List
<1>2. /\ Is(cs[1], "none", {"tools", "root", "sbctl", "keys", "setup-mode"}, {}, {"our-keys"},
            {"setup-mode", "snapshot"})
      /\ Is(cs[2], "none", {"tools", "root", "limine", "keys", "/boot", "cmdline", "limine-defaults",
            "initramfs", "keymap"}, {}, {"boot-files", "current", "signed"}, {"snapshot"})
      /\ Is(cs[3], "none", {"tools", "root", "sbctl", "signed"}, {}, {}, {"snapshot"})
    BY DEF InTarget, File, Spoil, Chroot, LimineUpdate, Preseed, Do, Is, Fields
<1> HIDE DEF cs
<1>3. \A i \in 1..3 : Bounded(cs[i], OwnKeysContract) /\ Plain(cs[i])
    BY <1>2 DEF Is, Bounded, Plain, Mounts, OwnKeysContract
<1>4. ASSUME NEW n \in 0..3, NEW s, Started(m, cs, n, s, OwnKeysContract)
      PROVE  /\ n < 3 => Finds(s[n], cs[n + 1])
             /\ n = 3 => Left(OwnKeysContract, s[0], s[n])
    <2>1. /\ n >= 1 => s[1] = After(s[0], cs[1])
          /\ n >= 2 => s[2] = After(s[1], cs[2])
          /\ n >= 3 => s[3] = After(s[2], cs[3])
        BY <1>4 DEF Started, Runs
    <2>2. QED
        BY <1>2, <1>4, <2>1 DEF Started, Finds, After, Is, Left, OwnKeysContract
<1>5. QED
    BY <1>1, <1>3, <1>4, PlainActs DEF cs

\* secure-boot.ts: a guest boots through shim, and the hash for MokManager is removed.
ShimContract ==
    [needs |-> {"tools", "root", "openssl", "shim-signed", "mokutil", "sbat", "copy-hook", "limine",
               "keys", "/boot", "cmdline", "limine-defaults", "initramfs", "keymap"}, without |-> {},
     leaves |-> {"boot-files", "current", "signed", "shim", "MokManager", "grub", "MOK-certificate"},
     clears |-> {"MOK-hash"},
     makes |-> {"certificate", "MOK-certificate", "shim", "MokManager", "grub", "MOK-hash",
               "MOK-request", "boot-files", "current", "signed"},
     spoils |-> {"snapshot", "MOK-hash"}]

LEMMA ShimActs ==
    ASSUME NEW m
    PROVE  Acts(m, << InTarget({"openssl", "keys"}, {"certificate"}),
             InTarget({"certificate", "/boot"}, {"MOK-certificate"}),
             InTarget({"shim-signed", "/boot"}, {"shim"}),
             InTarget({"shim-signed", "/boot"}, {"MokManager"}),
             LimineUpdate({"sbat", "copy-hook", "shim"}, {"grub"}),
             InTarget({"mokutil"}, {}),
             File("MOK-hash"),
             InTarget({"mokutil", "certificate", "MOK-hash"}, When(m.sameHost, {"MOK-request"})),
             Spoil(Do({"root"}, {}), {"MOK-hash", "snapshot"}) >>, ShimContract)
<1> DEFINE cs == << InTarget({"openssl", "keys"}, {"certificate"}),
             InTarget({"certificate", "/boot"}, {"MOK-certificate"}),
             InTarget({"shim-signed", "/boot"}, {"shim"}),
             InTarget({"shim-signed", "/boot"}, {"MokManager"}),
             LimineUpdate({"sbat", "copy-hook", "shim"}, {"grub"}),
             InTarget({"mokutil"}, {}),
             File("MOK-hash"),
             InTarget({"mokutil", "certificate", "MOK-hash"}, When(m.sameHost, {"MOK-request"})),
             Spoil(Do({"root"}, {}), {"MOK-hash", "snapshot"}) >>
<1>1. List(cs) /\ Len(cs) = 9
    BY DEF List
<1>2. /\ Is(cs[1], "none", {"tools", "root", "openssl", "keys"}, {}, {"certificate"}, {"snapshot"})
      /\ Is(cs[2], "none", {"tools", "root", "certificate", "/boot"}, {}, {"MOK-certificate"},
            {"snapshot"})
      /\ Is(cs[3], "none", {"tools", "root", "shim-signed", "/boot"}, {}, {"shim"}, {"snapshot"})
      /\ Is(cs[4], "none", {"tools", "root", "shim-signed", "/boot"}, {}, {"MokManager"}, {"snapshot"})
      /\ Is(cs[5], "none", {"tools", "root", "limine", "keys", "/boot", "cmdline", "limine-defaults",
            "initramfs", "keymap", "sbat", "copy-hook", "shim"}, {}, {"boot-files", "current",
                  "signed", "grub"}, {"snapshot"})
      /\ Is(cs[6], "none", {"tools", "root", "mokutil"}, {}, {}, {"snapshot"})
      /\ Is(cs[7], "none", {"root"}, {}, {"MOK-hash"}, {"snapshot"})
      /\ Is(cs[8], "none", {"tools", "root", "mokutil", "certificate", "MOK-hash"}, {},
            When(m.sameHost, {"MOK-request"}), {"snapshot"})
      /\ Is(cs[9], "none", {"root"}, {}, {}, {"MOK-hash", "snapshot"})
    BY DEF InTarget, File, Spoil, Chroot, LimineUpdate, Preseed, Do, Is, Fields
<1> HIDE DEF cs
<1>3. \A i \in 1..9 : Bounded(cs[i], ShimContract) /\ Plain(cs[i])
    BY <1>2 DEF Is, Bounded, Plain, Mounts, ShimContract, When
<1>4. ASSUME NEW n \in 0..9, NEW s, Started(m, cs, n, s, ShimContract)
      PROVE  /\ n < 9 => Finds(s[n], cs[n + 1])
             /\ n = 9 => Left(ShimContract, s[0], s[n])
    <2>1. /\ n >= 1 => s[1] = After(s[0], cs[1])
          /\ n >= 2 => s[2] = After(s[1], cs[2])
          /\ n >= 3 => s[3] = After(s[2], cs[3])
          /\ n >= 4 => s[4] = After(s[3], cs[4])
          /\ n >= 5 => s[5] = After(s[4], cs[5])
          /\ n >= 6 => s[6] = After(s[5], cs[6])
          /\ n >= 7 => s[7] = After(s[6], cs[7])
          /\ n >= 8 => s[8] = After(s[7], cs[8])
          /\ n >= 9 => s[9] = After(s[8], cs[9])
        BY <1>4 DEF Started, Runs
    <2>2. QED
        BY <1>2, <1>4, <2>1 DEF Started, Finds, After, Is, Left, ShimContract, When
<1>5. QED
    BY <1>1, <1>3, <1>4, PlainActs DEF cs

\* secure-boot.ts: a desktop's firmware is in setup mode.
SetupModeContract ==
    [needs |-> {"tools"}, without |-> {},
     leaves |-> {"setup-mode"},
     clears |-> {},
     makes |-> {},
     spoils |-> {}]

LEMMA SetupModeActs ==
    ASSUME NEW m
    PROVE  Acts(m, << Check("setup-mode", {"tools"}), Check("quirks", {}) >>, SetupModeContract)
<1> DEFINE cs == << Check("setup-mode", {"tools"}), Check("quirks", {}) >>
<1>1. List(cs) /\ Len(cs) = 2
    BY DEF List
<1>2. /\ Is(cs[1], "setup-mode", {"tools"}, {}, {}, {})
      /\ Is(cs[2], "quirks", {}, {}, {}, {})
    BY DEF Check, Do, Is, Fields
<1> HIDE DEF cs
<1>3. \A i \in 1..2 : Bounded(cs[i], SetupModeContract) /\ Plain(cs[i])
    BY <1>2 DEF Is, Bounded, Plain, Mounts, SetupModeContract
<1>4. ASSUME NEW n \in 0..2, NEW s, Started(m, cs, n, s, SetupModeContract)
      PROVE  /\ n < 2 => Finds(s[n], cs[n + 1])
             /\ n = 2 => Left(SetupModeContract, s[0], s[n])
    <2>1. /\ n >= 1 => s[1] = After(s[0], cs[1])
          /\ n >= 2 => s[2] = After(s[1], cs[2])
          /\ n >= 1 => Passes(m, s[0], cs[1].check)
        BY <1>4 DEF Started, Runs
    <2>2. QED
        BY <1>2, <1>4, <2>1 DEF Started, Finds, After, Is, Left, SetupModeContract, Passes
<1>5. QED
    BY <1>1, <1>3, <1>4, PlainActs DEF cs

\* disk.ts: the partitions, opened and formatted.
PartitionsContract ==
    [needs |-> {"tools"}, without |-> {"partitions", "open", "top"},
     leaves |-> {"partitions", "links", "esp", "open", "top"},
     clears |-> {},
     makes |-> {"partitions", "table", "links", "esp", "luks", "open", "btrfs", "top"},
     spoils |-> {}]

LEMMA PartitionsActs ==
    ASSUME NEW m
    PROVE  Acts(m, << New({"tools"}, "partitions"),
                   Do({"tools", "partitions"}, {"table"}),
                   Do({"table"}, {"links"}),
                   Do({"tools", "links"}, {"esp"}),
                   Do({"tools", "links"}, {"luks"}),
                   New({"tools", "luks"}, "open"),
                   Do({"tools", "open"}, {"btrfs"}),
                   New({"btrfs", "open"}, "top") >>, PartitionsContract)
<1> DEFINE cs == << New({"tools"}, "partitions"),
                   Do({"tools", "partitions"}, {"table"}),
                   Do({"table"}, {"links"}),
                   Do({"tools", "links"}, {"esp"}),
                   Do({"tools", "links"}, {"luks"}),
                   New({"tools", "luks"}, "open"),
                   Do({"tools", "open"}, {"btrfs"}),
                   New({"btrfs", "open"}, "top") >>
<1>1. List(cs) /\ Len(cs) = 8
    BY DEF List
<1>2. /\ Is(cs[1], "none", {"tools"}, {"partitions"}, {"partitions"}, {})
      /\ Is(cs[2], "none", {"tools", "partitions"}, {}, {"table"}, {})
      /\ Is(cs[3], "none", {"table"}, {}, {"links"}, {})
      /\ Is(cs[4], "none", {"tools", "links"}, {}, {"esp"}, {})
      /\ Is(cs[5], "none", {"tools", "links"}, {}, {"luks"}, {})
      /\ Is(cs[6], "none", {"tools", "luks"}, {"open"}, {"open"}, {})
      /\ Is(cs[7], "none", {"tools", "open"}, {}, {"btrfs"}, {})
      /\ Is(cs[8], "none", {"btrfs", "open"}, {"top"}, {"top"}, {})
    BY DEF New, Do, Is, Fields
<1> HIDE DEF cs
<1>3. \A i \in 1..8 : Bounded(cs[i], PartitionsContract) /\ Plain(cs[i])
    BY <1>2 DEF Is, Bounded, Plain, Mounts, PartitionsContract
<1>4. ASSUME NEW n \in 0..8, NEW s, Started(m, cs, n, s, PartitionsContract)
      PROVE  /\ n < 8 => Finds(s[n], cs[n + 1])
             /\ n = 8 => Left(PartitionsContract, s[0], s[n])
    <2>1. /\ n >= 1 => s[1] = After(s[0], cs[1])
          /\ n >= 2 => s[2] = After(s[1], cs[2])
          /\ n >= 3 => s[3] = After(s[2], cs[3])
          /\ n >= 4 => s[4] = After(s[3], cs[4])
          /\ n >= 5 => s[5] = After(s[4], cs[5])
          /\ n >= 6 => s[6] = After(s[5], cs[6])
          /\ n >= 7 => s[7] = After(s[6], cs[7])
          /\ n >= 8 => s[8] = After(s[7], cs[8])
        BY <1>4 DEF Started, Runs
    <2>2. QED
        BY <1>2, <1>4, <2>1 DEF Started, Finds, After, Is, Left, PartitionsContract
<1>5. QED
    BY <1>1, <1>3, <1>4, PlainActs DEF cs

\* disk.ts: the subvolumes.
SubvolumesContract ==
    [needs |-> {"top"}, without |-> {"@", "@cache", "@log", "@tmp"},
     leaves |-> {"@", "@cache", "@log", "@tmp"},
     clears |-> {},
     makes |-> {"@", "@cache", "@log", "@tmp"},
     spoils |-> {}]

LEMMA SubvolumesActs ==
    ASSUME NEW m
    PROVE  Acts(m, ForEach(Subvolumes, LAMBDA s : New({"top"}, s)), SubvolumesContract)
<1> DEFINE cs == ForEach(Subvolumes, LAMBDA s : New({"top"}, s))
<1>1. List(cs) /\ Len(cs) = 4
    BY DEF List, ForEach, Subvolumes
<1>2. /\ Is(cs[1], "none", {"top"}, {"@"}, {"@"}, {})
      /\ Is(cs[2], "none", {"top"}, {"@cache"}, {"@cache"}, {})
      /\ Is(cs[3], "none", {"top"}, {"@log"}, {"@log"}, {})
      /\ Is(cs[4], "none", {"top"}, {"@tmp"}, {"@tmp"}, {})
    BY DEF ForEach, Subvolumes, New, Do, Is, Fields
<1> HIDE DEF cs
<1>3. \A i \in 1..4 : Bounded(cs[i], SubvolumesContract) /\ Plain(cs[i])
    BY <1>2 DEF Is, Bounded, Plain, Mounts, SubvolumesContract
<1>4. ASSUME NEW n \in 0..4, NEW s, Started(m, cs, n, s, SubvolumesContract)
      PROVE  /\ n < 4 => Finds(s[n], cs[n + 1])
             /\ n = 4 => Left(SubvolumesContract, s[0], s[n])
    <2>1. /\ n >= 1 => s[1] = After(s[0], cs[1])
          /\ n >= 2 => s[2] = After(s[1], cs[2])
          /\ n >= 3 => s[3] = After(s[2], cs[3])
          /\ n >= 4 => s[4] = After(s[3], cs[4])
        BY <1>4 DEF Started, Runs
    <2>2. QED
        BY <1>2, <1>4, <2>1 DEF Started, Finds, After, Is, Left, SubvolumesContract
<1>5. QED
    BY <1>1, <1>3, <1>4, PlainActs DEF cs

\* disk.ts: the root subvolume is mounted instead of the top.
RootContract ==
    [needs |-> {"top", "@", "open"}, without |-> {"root"},
     leaves |-> {"root", "mount-points"},
     clears |-> {},
     makes |-> {"root", "mount-points"},
     spoils |-> {"top"}]

LEMMA RootActs ==
    ASSUME NEW m
    PROVE  Acts(m, << Spoil(Do({"top"}, {}), {"top"}),
             New({"@", "open"}, "root"),
             Do({"root"}, {"mount-points"}) >>, RootContract)
<1> DEFINE cs == << Spoil(Do({"top"}, {}), {"top"}),
             New({"@", "open"}, "root"),
             Do({"root"}, {"mount-points"}) >>
<1>1. List(cs) /\ Len(cs) = 3
    BY DEF List
<1>2. /\ Is(cs[1], "none", {"top"}, {}, {}, {"top"})
      /\ Is(cs[2], "none", {"@", "open"}, {"root"}, {"root"}, {})
      /\ Is(cs[3], "none", {"root"}, {}, {"mount-points"}, {})
    BY DEF New, Spoil, Do, Is, Fields
<1> HIDE DEF cs
<1>3. \A i \in 1..3 : Bounded(cs[i], RootContract) /\ Plain(cs[i])
    BY <1>2 DEF Is, Bounded, Plain, Mounts, RootContract
<1>4. ASSUME NEW n \in 0..3, NEW s, Started(m, cs, n, s, RootContract)
      PROVE  /\ n < 3 => Finds(s[n], cs[n + 1])
             /\ n = 3 => Left(RootContract, s[0], s[n])
    <2>1. /\ n >= 1 => s[1] = After(s[0], cs[1])
          /\ n >= 2 => s[2] = After(s[1], cs[2])
          /\ n >= 3 => s[3] = After(s[2], cs[3])
        BY <1>4 DEF Started, Runs
    <2>2. QED
        BY <1>2, <1>4, <2>1 DEF Started, Finds, After, Is, Left, RootContract
<1>5. QED
    BY <1>1, <1>3, <1>4, PlainActs DEF cs

\* disk.ts: the subvolumes that snapshots leave out.
DetachedContract ==
    [needs |-> {"@cache", "@log", "@tmp", "open", "mount-points"}, without |-> {"/var/cache",
               "/var/log", "/var/tmp"},
     leaves |-> {"/var/cache", "/var/log", "/var/tmp"},
     clears |-> {},
     makes |-> {"/var/cache", "/var/log", "/var/tmp"},
     spoils |-> {}]

LEMMA DetachedActs ==
    ASSUME NEW m
    PROVE  Acts(m, ForEach(Detached, LAMBDA d : New({d.subvolume, "open", "mount-points"}, d.path)),
          DetachedContract)
<1> DEFINE cs == ForEach(Detached, LAMBDA d : New({d.subvolume, "open", "mount-points"}, d.path))
<1>1. List(cs) /\ Len(cs) = 3
    BY DEF List, ForEach, Detached
<1>2. /\ Is(cs[1], "none", {"@cache", "open", "mount-points"}, {"/var/cache"}, {"/var/cache"}, {})
      /\ Is(cs[2], "none", {"@log", "open", "mount-points"}, {"/var/log"}, {"/var/log"}, {})
      /\ Is(cs[3], "none", {"@tmp", "open", "mount-points"}, {"/var/tmp"}, {"/var/tmp"}, {})
    BY DEF ForEach, Detached, New, Do, Is, Fields
<1> HIDE DEF cs
<1>3. \A i \in 1..3 : Bounded(cs[i], DetachedContract) /\ Plain(cs[i])
    BY <1>2 DEF Is, Bounded, Plain, Mounts, DetachedContract
<1>4. ASSUME NEW n \in 0..3, NEW s, Started(m, cs, n, s, DetachedContract)
      PROVE  /\ n < 3 => Finds(s[n], cs[n + 1])
             /\ n = 3 => Left(DetachedContract, s[0], s[n])
    <2>1. /\ n >= 1 => s[1] = After(s[0], cs[1])
          /\ n >= 2 => s[2] = After(s[1], cs[2])
          /\ n >= 3 => s[3] = After(s[2], cs[3])
        BY <1>4 DEF Started, Runs
    <2>2. QED
        BY <1>2, <1>4, <2>1 DEF Started, Finds, After, Is, Left, DetachedContract
<1>5. QED
    BY <1>1, <1>3, <1>4, PlainActs DEF cs

\* /boot is mounted from a partition that is there.
BootContract ==
    [needs |-> {"esp", "links", "mount-points", "partitions"}, without |-> {"/boot"},
     leaves |-> {"/boot"},
     clears |-> {},
     makes |-> {"/boot"}, spoils |-> {}]

LEMMA BootActs ==
    ASSUME NEW m
    PROVE  Acts(m, << New({"esp", "links", "mount-points"}, "/boot") >>, BootContract)
<1> DEFINE cs == << New({"esp", "links", "mount-points"}, "/boot") >>
<1>1. List(cs) /\ Len(cs) = 1
    BY DEF List
<1>2. Is(cs[1], "none", {"esp", "links", "mount-points"}, {"/boot"}, {"/boot"}, {})
    BY DEF New, Do, Is, Fields
<1> HIDE DEF cs
<1>3. \A i \in 1..1 : Bounded(cs[i], BootContract)
    BY <1>2 DEF Is, Bounded, BootContract
<1>4. ASSUME NEW n \in 0..1, NEW s, Started(m, cs, n, s, BootContract)
      PROVE  /\ n < 1 => Fits(m, s[n], cs[n + 1])
             /\ n = 1 => Left(BootContract, s[0], s[n])
    <2>1. n >= 1 => s[1] = After(s[0], cs[1])
        BY <1>4 DEF Started, Runs
    <2>2. n < 1 => cs[n + 1].needs \subseteq s[n] /\ cs[n + 1].without \cap s[n] = {}
        BY <1>2, <1>4 DEF Started, Is, BootContract
    <2>3. n < 1 /\ Listed(s[n]) => Listed(s[n] \ cs[n + 1].dels) /\ Listed(After(s[n], cs[n + 1]))
        BY <1>2, <1>4 DEF Started, Is, BootContract, Listed, After, Mounts
    <2>4. n < 1 => cs[n + 1].dels = {}
        BY <1>2 DEF Is
    <2>5. n = 1 => Left(BootContract, s[0], s[n])
        BY <1>2, <1>4, <2>1 DEF Started, After, Is, Left, BootContract
    <2>6. QED
        BY <2>2, <2>3, <2>4, <2>5 DEF Fits
<1>5. QED
    BY <1>1, <1>3, <1>4 DEF Acts, cs

-----------------------------------------------------------------------------
(* Lists made of lists. *)

LEMMA MadeJoins ==
    ASSUME NEW a, NEW b, List(a), List(b)
    PROVE  Made(a \o b) = Made(a) \cup Made(b)
<1> DEFINE cs == a \o b
<1>1. /\ Len(a) \in Nat /\ Len(b) \in Nat /\ Len(cs) = Len(a) + Len(b)
      /\ DOMAIN a = 1..Len(a) /\ DOMAIN b = 1..Len(b) /\ DOMAIN cs = 1..Len(cs)
      /\ \A i \in 1..Len(a) : cs[i] = a[i]
      /\ \A i \in 1..Len(b) : cs[Len(a) + i] = b[i]
    BY ListsJoin, ListIsSequence
<1> HIDE DEF cs
<1>2. \A i \in 1..Len(a) : i \in 1..Len(cs)
    BY <1>1
<1>3. \A i \in 1..Len(b) : Len(a) + i \in 1..Len(cs)
    BY <1>1
<1>4. \A i \in 1..Len(cs) : i \in 1..Len(a) \/ \E j \in 1..Len(b) : i = Len(a) + j
    <2>1. ASSUME NEW i \in 1..Len(cs), i \notin 1..Len(a)
          PROVE  i - Len(a) \in 1..Len(b) /\ i = Len(a) + (i - Len(a))
        BY <1>1, <2>1
    <2>2. QED
        BY <2>1
<1>5. Made(a) \subseteq Made(cs)
    BY <1>1, <1>2 DEF Made
<1>6. Made(b) \subseteq Made(cs)
    BY <1>1, <1>3 DEF Made
<1>7. Made(cs) \subseteq Made(a) \cup Made(b)
    <2>1. ASSUME NEW i \in 1..Len(cs)
          PROVE  cs[i].adds \subseteq Made(a) \cup Made(b)
        <3>1. CASE i \in 1..Len(a)
            BY <1>1, <3>1 DEF Made
        <3>2. CASE \E j \in 1..Len(b) : i = Len(a) + j
            BY <1>1, <3>2 DEF Made
        <3>3. QED
            BY <1>4, <3>1, <3>2
    <2>2. QED
        BY <1>1, <2>1 DEF Made
<1>8. QED
    BY <1>5, <1>6, <1>7 DEF cs

\* A contract bounds what its list makes true.
LEMMA MadeIsBounded ==
    ASSUME NEW m, NEW cs, NEW p, Acts(m, cs, p)
    PROVE  Made(cs) \subseteq p.makes
<1>1. DOMAIN cs = 1..Len(cs)
    BY ListIsSequence DEF Acts
<1>2. QED
    BY <1>1 DEF Acts, Bounded, Made

-----------------------------------------------------------------------------
(* disk.ts: the layout of an erased disk. *)

PartitionCommands ==
    << New({"tools"}, "partitions"),
       Do({"tools", "partitions"}, {"table"}),
       Do({"table"}, {"links"}),
       Do({"tools", "links"}, {"esp"}),
       Do({"tools", "links"}, {"luks"}),
       New({"tools", "luks"}, "open"),
       Do({"tools", "open"}, {"btrfs"}),
       New({"btrfs", "open"}, "top") >>
SubvolumeCommands == ForEach(Subvolumes, LAMBDA s : New({"top"}, s))
RootCommands ==
    << Spoil(Do({"top"}, {}), {"top"}),
       New({"@", "open"}, "root"),
       Do({"root"}, {"mount-points"}) >>
DetachedCommands == ForEach(Detached, LAMBDA d : New({d.subvolume, "open", "mount-points"}, d.path))
BootCommands == << New({"esp", "links", "mount-points"}, "/boot") >>

LEMMA LayoutParts ==
    Layout = PartitionCommands \o SubvolumeCommands \o RootCommands \o DetachedCommands \o BootCommands
BY DEF Layout, PartitionCommands, SubvolumeCommands, RootCommands, DetachedCommands, BootCommands

\* The layout up to a command: what is there by then, and what has been mounted.
LayingOut(leaves, mounted) ==
    [needs |-> {"tools"},
     without |-> Own \cup {"partitions", "@", "@cache", "@log", "@tmp"},
     leaves |-> leaves, clears |-> {},
     makes |-> {"partitions", "table", "links", "esp", "luks", "open", "btrfs", "top",
                "@", "@cache", "@log", "@tmp", "mount-points"} \cup mounted,
     spoils |-> {"top"}]
LayoutContract == LayingOut(Mounts, Mounts)

LEMMA LayoutActs ==
    ASSUME NEW m
    PROVE  Acts(m, Layout, LayoutContract)
<1> DEFINE Given == {"partitions", "links", "esp", "open"}
<1> DEFINE p == LayingOut(Given \cup {"top", "@", "@cache", "@log", "@tmp"}, {})
<1> DEFINE q == LayingOut(Given \cup {"mount-points", "root", "@cache", "@log", "@tmp"}, {"root"})
<1> DEFINE r == LayingOut(Given \cup {"mount-points"} \cup (Mounts \ {"/boot"}), Mounts \ {"/boot"})
<1>1. Acts(m, PartitionCommands \o SubvolumeCommands, p)
    <2>1. Joins(PartitionsContract, SubvolumesContract, p)
        BY DEF Joins, PartitionsContract, SubvolumesContract, LayingOut, Own, Mounts
    <2>2. QED
        BY <2>1, PartitionsActs, SubvolumesActs, Sequence DEF PartitionCommands, SubvolumeCommands
<1>2. Acts(m, PartitionCommands \o SubvolumeCommands \o RootCommands, q)
    <2>1. Joins(p, RootContract, q)
        BY DEF Joins, RootContract, LayingOut, Own, Mounts
    <2>2. QED
        BY <1>1, <2>1, RootActs, Sequence DEF RootCommands
<1>3. Acts(m, PartitionCommands \o SubvolumeCommands \o RootCommands \o DetachedCommands, r)
    <2>1. Joins(q, DetachedContract, r)
        BY DEF Joins, DetachedContract, LayingOut, Own, Mounts
    <2>2. QED
        BY <1>2, <2>1, DetachedActs, Sequence DEF DetachedCommands
<1>4. Joins(r, BootContract, LayoutContract)
    BY DEF Joins, BootContract, LayoutContract, LayingOut, Own, Mounts
<1>5. QED
    BY <1>3, <1>4, BootActs, Sequence, LayoutParts DEF BootCommands

LEMMA LayoutMakes ==
    /\ List(Layout)
    /\ {"luks", "partitions", "@", "@cache", "@log", "@tmp"} \subseteq Made(Layout)
<1>1. \A m : /\ List(PartitionCommands) /\ List(SubvolumeCommands) /\ List(RootCommands)
             /\ List(DetachedCommands) /\ List(BootCommands)
    BY PartitionsActs, SubvolumesActs, RootActs, DetachedActs, BootActs
       DEF Acts, PartitionCommands, SubvolumeCommands, RootCommands, DetachedCommands, BootCommands
<1>2. Made(Layout) = Made(PartitionCommands) \cup Made(SubvolumeCommands) \cup Made(RootCommands)
                        \cup Made(DetachedCommands) \cup Made(BootCommands)
    BY <1>1, LayoutParts, ListsJoin, MadeJoins
<1>3. {"luks", "partitions"} \subseteq Made(PartitionCommands)
    <2>1. /\ 1 \in DOMAIN PartitionCommands /\ PartitionCommands[1].adds = {"partitions"}
          /\ 5 \in DOMAIN PartitionCommands /\ PartitionCommands[5].adds = {"luks"}
        BY DEF PartitionCommands, New, Do
    <2>2. QED
        BY <2>1 DEF Made
<1>4. {"@", "@cache", "@log", "@tmp"} \subseteq Made(SubvolumeCommands)
    <2>1. \A i \in 1..4 : i \in DOMAIN SubvolumeCommands /\ SubvolumeCommands[i].adds = {Subvolumes[i]}
        BY DEF SubvolumeCommands, ForEach, Subvolumes, New, Do
    <2>2. {Subvolumes[1], Subvolumes[2], Subvolumes[3], Subvolumes[4]} \subseteq Made(SubvolumeCommands)
        BY <2>1 DEF Made
    <2>3. QED
        BY <2>2 DEF Subvolumes
<1>5. QED
    BY <1>2, <1>3, <1>4, LayoutActs DEF Acts

\* What is on the disk never holds it in use.
LEMMA OnDiskStays ==
    ASSUME NEW made
    PROVE  /\ OnDisk(made) \cap (Own \cup Others) = {}
           /\ made \ (Own \cup Others \cup {"conf", "optimized"}) \subseteq OnDisk(made)
           /\ {"foreign", "luks", "partitions", "@", "@cache", "@log", "@tmp"} \subseteq OnDisk(made)
           /\ OnDisk(made) \subseteq made \cup LayoutContract.makes \cup {"foreign", "our-MOK"}
<1>1. Made(Layout) \subseteq LayoutContract.makes
    BY LayoutActs, MadeIsBounded
<1>2. InMemory = Own \cup Others \cup {"conf", "optimized"}
    BY DEF InMemory, Own, Others
<1>3. {"foreign", "luks", "partitions", "@", "@cache", "@log", "@tmp", "our-MOK"} \cap InMemory = {}
    BY DEF InMemory, Mounts
<1>4. QED
    BY <1>1, <1>2, <1>3, LayoutMakes DEF OnDisk

\* What is on the disk is erased once nothing uses it.
ErasedContract(made) ==
    [needs |-> {"tools"}, without |-> {},
     leaves |-> {}, clears |-> Own \cup OnDisk(made),
     makes |-> {}, spoils |-> OnDisk(made)]

LEMMA ErasedActs ==
    ASSUME NEW m, NEW made, "tools" \notin OnDisk(made)
    PROVE  Acts(m, CheckTargetDisk \o Erase(made), ErasedContract(made))
<1> DEFINE cs == CheckTargetDisk \o Erase(made)
<1> DEFINE Old == OnDisk(made)
<1>1. List(cs) /\ Len(cs) = 4
    <2>1. List(CheckTargetDisk) /\ List(Erase(made))
        BY DEF List, CheckTargetDisk, Erase
    <2>2. Len(CheckTargetDisk) = 2 /\ Len(Erase(made)) = 2
        BY DEF CheckTargetDisk, Erase
    <2>3. QED
        BY <2>1, <2>2, ListsJoin
<1>2. /\ Is(cs[1], "none", {}, {}, {}, {})
      /\ Is(cs[2], "idle-disk", {}, {}, {}, {})
      /\ Is(cs[3], "none", {}, {}, {}, Old)
      /\ Is(cs[4], "none", {"tools"}, {}, {}, Old)
    BY DEF CheckTargetDisk, Erase, Spoil, Check, Do, Is, Fields
<1>3. Old \cap Own = {}
    BY OnDiskStays
<1> HIDE DEF cs, Old
<1>4. \A i \in 1..4 : Bounded(cs[i], ErasedContract(made))
    BY <1>2 DEF Is, Bounded, ErasedContract, Old
<1>5. ASSUME NEW n \in 0..4, NEW s, Started(m, cs, n, s, ErasedContract(made))
      PROVE  /\ n < 4 => Fits(m, s[n], cs[n + 1])
             /\ n = 4 => Left(ErasedContract(made), s[0], s[n])
    <2>1. /\ n >= 1 => s[1] = After(s[0], cs[1])
          /\ n >= 2 => s[2] = After(s[1], cs[2]) /\ Passes(m, s[1], cs[2].check)
          /\ n >= 3 => s[3] = After(s[2], cs[3])
          /\ n >= 4 => s[4] = After(s[3], cs[4])
        BY <1>5 DEF Started, Runs
    <2>2. "tools" \in s[0] /\ "tools" \notin Old
        BY <1>5 DEF Started, ErasedContract, Old
    <2>3. n >= 1 => s[1] = s[0]
        BY <1>2, <2>1 DEF After, Is
    <2>4. n >= 2 => s[2] = s[0] /\ m.wholeDisk /\ Own \cap s[2] = {}
        BY <1>2, <2>1, <2>3 DEF After, Is, Passes
    <2>5. n >= 3 => s[3] = s[0] \ Old
        BY <1>2, <2>1, <2>4 DEF After, Is
    <2>6. n >= 4 => s[4] = s[0] \ Old
        BY <1>2, <2>1, <2>5 DEF After, Is
    <2>7. n < 4 => cs[n + 1].needs \subseteq s[n] /\ cs[n + 1].without \cap s[n] = {}
        BY <1>2, <2>2, <2>3, <2>4, <2>5 DEF Is
    <2>8. n < 4 => \/ cs[n + 1].adds = {} /\ cs[n + 1].dels = {}
                   \/ cs[n + 1].adds = {} /\ m.wholeDisk /\ Own \cap s[n] = {}
        BY <1>2, <1>3, <2>3, <2>4, <2>5 DEF Is
    <2>9. n < 4 /\ Listed(s[n]) => Listed(s[n] \ cs[n + 1].dels) /\ Listed(After(s[n], cs[n + 1]))
        <3>1. CASE cs[n + 1].adds = {} /\ cs[n + 1].dels = {}
            BY <3>1 DEF After, Listed
        <3>2. CASE cs[n + 1].adds = {} /\ m.wholeDisk /\ Own \cap s[n] = {}
            BY <3>2 DEF After, Listed, Own, Mounts
        <3>3. QED
            BY <2>8, <3>1, <3>2
    <2>10. n = 4 => Left(ErasedContract(made), s[0], s[n])
        BY <2>4, <2>6 DEF Left, ErasedContract, Old
    <2>11. QED
        BY <2>7, <2>8, <2>9, <2>10 DEF Fits
<1>6. QED
    BY <1>1, <1>4, <1>5 DEF Acts, cs

-----------------------------------------------------------------------------
(* Every function, and install() itself. *)

LEMMA OnlyActs ==
    ASSUME NEW m, NEW condition \in BOOLEAN, NEW cs, NEW p,
           condition => Acts(m, cs, p),
           ~condition => p.leaves \subseteq p.needs /\ p.clears \subseteq p.without
    PROVE  Acts(m, Only(condition, cs), p)
BY NothingActs DEF Only

\* The packages of every machine.
AllPackages ==
    BasePackages \cup {"amd-ucode", "linux-firmware", "hyperv", "shim-signed", "mokutil", "objcopy"}
    \cup {"openssh"} \cup SessionPackages

LEMMA PackageFacts ==
    ASSUME NEW m \in Machine
    PROVE  /\ BasePackages \subseteq PackagesFor(m) /\ PackagesFor(m) \subseteq AllPackages
           /\ Services(m) \subseteq PackagesFor(m)
           /\ m.platform = "hyper_v" => {"shim-signed", "mokutil", "objcopy"} \subseteq PackagesFor(m)
<1>1. m.platform \in Platforms
    BY DEF Machine
<1>2. CASE m.platform = "physical"
    BY <1>2 DEF PackagesFor, AllPackages, PlatformPackages, Services, When, BasePackages
<1>3. CASE m.platform = "hyper_v"
    BY <1>3 DEF PackagesFor, AllPackages, PlatformPackages, Services, When, BasePackages
<1>4. QED
    BY <1>1, <1>2, <1>3 DEF Platforms

\* base.ts: whether or not the detection is needed.
TargetPacmanConfContract(m) ==
    [needs |-> {"root"} \cup When(~m.optimized, {"calamares"}), without |-> {},
     leaves |-> {"target-conf"}, clears |-> {},
     makes |-> {"conf", "optimized", "target-conf"}, spoils |-> {"optimized"}]

LEMMA TargetPacmanConfActs ==
    ASSUME NEW m \in Machine
    PROVE  Acts(m, TargetPacmanConf(m), TargetPacmanConfContract(m))
<1> DEFINE conf == << Spoil(Do({}, {"conf"} \cup When(m.optimized, {"optimized"})), {"optimized"}) >>
<1> DEFINE detection == << New({"conf", "calamares"}, "optimized") >>
<1> DEFINE p == [needs |-> {"conf"} \cup When(m.optimized, {"optimized"}) \cup When(~m.optimized,
                           {"calamares"}),
                 without |-> When(~m.optimized, {"optimized"}), leaves |-> {"optimized"}, clears |-> {},
                 makes |-> {"optimized"}, spoils |-> {}]
<1> DEFINE q == [needs |-> When(~m.optimized, {"calamares"}), without |-> {},
     leaves |-> {"optimized"},
                 clears |-> {},
     makes |-> {"conf", "optimized"}, spoils |-> {"optimized"}]
<1>1. m.optimized \in BOOLEAN
    BY DEF Machine
<1>2. Acts(m, Only(~m.optimized, detection), p)
    <2>1. ~m.optimized => Acts(m, detection, p)
        <3>1. Acts(m, detection, DetectionContract)
            BY DetectionActs
        <3>2. ~m.optimized => /\ DetectionContract.needs \subseteq p.needs
                              /\ DetectionContract.without \subseteq p.without
            BY DEF DetectionContract, When
        <3>3. /\ DetectionContract.leaves = p.leaves /\ DetectionContract.clears = p.clears
              /\ DetectionContract.makes = p.makes /\ DetectionContract.spoils = p.spoils
            BY DEF DetectionContract
        <3>4. QED
            BY <3>1, <3>2, <3>3, Weaker
    <2>2. ~~m.optimized => p.leaves \subseteq p.needs /\ p.clears \subseteq p.without
        BY DEF When
    <2>3. QED
        BY <1>1, <2>1, <2>2, OnlyActs
<1>3. Acts(m, conf \o Only(~m.optimized, detection), q)
    <2>1. Joins(OwnConfContract(m), p, q)
        BY <1>1 DEF Joins, OwnConfContract, When
    <2>2. QED
        BY <1>2, <2>1, OwnConfActs, Sequence
<1>4. Joins(q, TargetConfContract, TargetPacmanConfContract(m))
    BY DEF Joins, TargetConfContract, TargetPacmanConfContract
<1>5. QED
    BY <1>3, <1>4, TargetConfActs, Sequence DEF TargetPacmanConf, HasOptimizedRepositories

\* base.ts.
InstallBaseContract(m) ==
    [needs |-> {"tools", "trust"} \cup Mounts \cup When(~m.optimized, {"calamares"}), without |-> {},
     leaves |-> PackagesFor(m) \cup Preseed \cup {"packages", "target-conf", "mirrors", "gnupg",
                "fstab"},
     clears |-> {},
     makes |-> AllPackages \cup Preseed \cup {"conf", "optimized", "target-conf", "mirrors", "gnupg",
                                              "packages", "boot-files", "current", "fstab"},
     spoils |-> {"optimized", "snapshot", "current"}]

LEMMA InstallBaseActs ==
    ASSUME NEW m \in Machine
    PROVE  Acts(m, InstallBase(m), InstallBaseContract(m))
<1> DEFINE mirrors == << Do({"root"}, {}), Do({"root"}, {"mirrors"}), Do({"root", "trust"},
      {"gnupg"}) >>
<1> DEFINE Sources == {"target-conf", "mirrors", "gnupg"}
<1> DEFINE p == [needs |-> {"root", "trust"} \cup When(~m.optimized, {"calamares"}), without |-> {},
                 leaves |-> Sources, clears |-> {},
                 makes |-> Sources \cup {"conf", "optimized"}, spoils |-> {"optimized"}]
<1> DEFINE q == [needs |-> {"root", "trust"} \cup When(~m.optimized, {"calamares"}), without |-> {},
                 leaves |-> Sources \cup Preseed, clears |-> {},
                 makes |-> Sources \cup {"conf", "optimized"} \cup Preseed,
                 spoils |-> {"optimized", "snapshot", "current"}]
<1>1. Acts(m, TargetPacmanConf(m) \o mirrors, p)
    <2>1. Joins(TargetPacmanConfContract(m), MirrorsContract, p)
        BY DEF Joins, TargetPacmanConfContract, MirrorsContract
    <2>2. QED
        BY <2>1, TargetPacmanConfActs, MirrorsActs, Sequence
<1>2. Acts(m, TargetPacmanConf(m) \o mirrors \o PreseedBootConfiguration, q)
    <2>1. Joins(p, PreseedBootConfigurationContract, q)
        BY DEF Joins, PreseedBootConfigurationContract, Preseed
    <2>2. QED
        BY <1>1, <2>1, PreseedBootConfigurationActs, Sequence
<1>3. Joins(q, PackagesContract(m), InstallBaseContract(m))
    BY PackageFacts DEF Joins, PackagesContract, InstallBaseContract, Preseed, Mounts, When
<1>4. QED
    BY <1>2, <1>3, PackagesActs, Sequence DEF InstallBase

\* configure.ts: with or without remote access.
ConfigureUsersContract ==
    [needs |-> {"tools", "root", "packages", "fish"}, without |-> {"user"},
     leaves |-> {"user", "passwords", "home-owned"}, clears |-> {},
     makes |-> {"user", "passwords", "sudo", "autologin", "gtk-3", "gtk-4", "authorized-key", "sshd",
                "home-owned"},
     spoils |-> {"snapshot", "home-owned"}]

LEMMA ConfigureUsersActs ==
    ASSUME NEW m \in Machine
    PROVE  Acts(m, ConfigureUsers(m), ConfigureUsersContract)
<1> DEFINE accounts == << [InTarget({"packages", "fish"}, {"user"}) EXCEPT !.without = {"user"}],
                          InTarget({"user"}, {"passwords"}),
                          File("sudo"), File("autologin"), HomeFile("gtk-3"), HomeFile("gtk-4") >>
<1> DEFINE ssh == << HomeFile("authorized-key"), InTarget({"authorized-key"}, {}), File("sshd") >>
<1> DEFINE p == [needs |-> {"tools", "root", "packages", "fish"}, without |-> {"user"},
                 leaves |-> {"user", "passwords"}, clears |-> {},
                 makes |-> ConfigureUsersContract.makes, spoils |-> {"snapshot", "home-owned"}]
<1>1. Acts(m, accounts \o Only(m.ssh, ssh), p)
    <2>1. Acts(m, Only(m.ssh, ssh), SshContract)
        <3>1. SshContract.leaves = {} /\ SshContract.clears = {}
            BY DEF SshContract
        <3>2. m.ssh \in BOOLEAN
            BY DEF Machine
        <3>3. QED
            BY <3>1, <3>2, SshActs, OnlyActs
    <2>2. Joins(AccountsContract, SshContract, p)
        BY DEF Joins, AccountsContract, SshContract, ConfigureUsersContract
    <2>3. QED
        BY <2>1, <2>2, AccountsActs, Sequence
<1>2. Joins(p, HomeOwnedContract, ConfigureUsersContract)
    BY DEF Joins, HomeOwnedContract, ConfigureUsersContract
<1>3. QED
    BY <1>1, <1>2, HomeOwnedActs, Sequence DEF ConfigureUsers

\* What is set up in the installed system, up to a function of configure.ts.
Configuring(m, leaves) ==
    [needs |-> {"tools", "root", "packages"} \cup PackagesFor(m), without |-> {"user"},
     leaves |-> leaves, clears |-> {},
     makes |-> ConfigureIdentityContract.makes \cup ConfigureUsersContract.makes \cup {"profiles",
               "enabled"},
     spoils |-> {"snapshot", "home-owned"}]
ConfigureSystemContract(m) == Configuring(m, {"passwords", "home-owned", "enabled"})

LEMMA ConfigureSystemActs ==
    ASSUME NEW m \in Machine
    PROVE  Acts(m, ConfigureSystem(m), ConfigureSystemContract(m))
<1> DEFINE drivers == << InTarget({"chwd"}, {"profiles"}) >>
<1> DEFINE p == Configuring(m, {"passwords", "home-owned"})
<1>1. PackagesFor(m) \cap {"snapshot", "home-owned"} = {} /\ {"fish", "chwd"} \subseteq PackagesFor(m)
    BY PackageFacts DEF AllPackages, BasePackages, SessionPackages
<1>2. Acts(m, ConfigureIdentity \o ConfigureUsers(m), p)
    <2>1. Joins(ConfigureIdentityContract, ConfigureUsersContract, p)
        BY <1>1 DEF Joins, ConfigureIdentityContract, ConfigureUsersContract, Configuring
    <2>2. QED
        BY <2>1, ConfigureIdentityActs, ConfigureUsersActs, Sequence
<1>3. Acts(m, ConfigureIdentity \o ConfigureUsers(m) \o Only(m.platform = "physical", drivers), p)
    <2>1. Acts(m, Only(m.platform = "physical", drivers), DriversContract)
        <3>1. DriversContract.leaves = {} /\ DriversContract.clears = {}
            BY DEF DriversContract
        <3>2. QED
            BY <3>1, DriversActs, OnlyActs
    <2>2. Joins(p, DriversContract, p)
        BY <1>1 DEF Joins, DriversContract, Configuring
    <2>3. QED
        BY <1>2, <2>1, <2>2, Sequence
<1>4. Joins(p, EnabledContract(m), ConfigureSystemContract(m))
    BY <1>1, PackageFacts DEF Joins, EnabledContract, ConfigureSystemContract, Configuring
<1>5. QED
    BY <1>3, <1>4, EnabledActs, Sequence DEF ConfigureSystem

\* secure-boot.ts: only a desktop is checked.
AssertReadyContract(m) ==
    [needs |-> {"tools"}, without |-> {},
     leaves |-> When(m.platform = "physical", {"setup-mode"}),
     clears |-> {},
     makes |-> {}, spoils |-> {}]

LEMMA AssertReadyActs ==
    ASSUME NEW m
    PROVE  Acts(m, AssertReadyForSecureBoot(m), AssertReadyContract(m))
<1>1. m.platform = "physical" => AssertReadyContract(m) = SetupModeContract
    BY DEF AssertReadyContract, SetupModeContract, When
<1>2. m.platform # "physical" => AssertReadyContract(m).leaves = {}
    BY DEF AssertReadyContract, When
<1>3. AssertReadyContract(m).clears = {}
    BY DEF AssertReadyContract
<1>4. QED
    BY <1>1, <1>2, <1>3, SetupModeActs, OnlyActs DEF AssertReadyForSecureBoot

\* secure-boot.ts: on both platforms.
SecureBootContract(m) ==
    [needs |-> {"tools", "root", "/boot"} \cup PackagesFor(m) \cup Preseed
                  \cup When(m.platform = "physical", {"setup-mode"}),
     without |-> {},
     leaves |-> {"boot-files", "current", "signed"}
                  \cup When(m.platform = "hyper_v", {"shim", "MokManager", "grub", "MOK-certificate"}),
     clears |-> When(m.platform = "hyper_v", {"MOK-hash"}),
     makes |-> {"keys", "our-keys", "boot-files", "current", "signed"}
                  \cup When(m.platform = "hyper_v", InstallShimHooksContract.makes
                        \cup ShimContract.makes),
     spoils |-> {"snapshot", "setup-mode", "MOK-hash"}]

LEMMA SecureBootActs ==
    ASSUME NEW m \in Machine
    PROVE  Acts(m, ConfigureSecureBoot(m), SecureBootContract(m))
<1>1. m.platform = "physical" \/ m.platform = "hyper_v"
    BY DEF Machine, Platforms
<1>2. /\ PackagesFor(m) \cap {"snapshot", "setup-mode", "MOK-hash"} = {}
      /\ {"sbctl", "limine", "openssl", "deno"} \subseteq PackagesFor(m)
    BY PackageFacts DEF AllPackages, BasePackages, SessionPackages
<1>3. CASE m.platform = "physical"
    <2>1. Joins(KeysContract, OwnKeysContract, SecureBootContract(m))
        BY <1>2, <1>3 DEF Joins, KeysContract, OwnKeysContract, SecureBootContract, Preseed, When
    <2>2. QED
        BY <1>3, <2>1, KeysActs, OwnKeysActs, Sequence DEF ConfigureSecureBoot
<1>4. CASE m.platform = "hyper_v"
    <2> DEFINE p == [needs |-> {"tools", "root", "/boot", "keys"} \cup PackagesFor(m) \cup Preseed,
                     without |-> {}, leaves |-> ShimContract.leaves, clears |-> {"MOK-hash"},
                     makes |-> InstallShimHooksContract.makes \cup ShimContract.makes,
                     spoils |-> {"snapshot", "MOK-hash"}]
    <2> DEFINE shim == << InTarget({"openssl", "keys"}, {"certificate"}),
                          InTarget({"certificate", "/boot"}, {"MOK-certificate"}),
                          InTarget({"shim-signed", "/boot"}, {"shim"}),
                          InTarget({"shim-signed", "/boot"}, {"MokManager"}),
                          LimineUpdate({"sbat", "copy-hook", "shim"}, {"grub"}),
                          InTarget({"mokutil"}, {}),
                          File("MOK-hash"),
                          InTarget({"mokutil", "certificate", "MOK-hash"}, When(m.sameHost,
                                {"MOK-request"})),
                          Spoil(Do({"root"}, {}), {"MOK-hash", "snapshot"}) >>
    <2>1. {"shim-signed", "mokutil", "objcopy"} \subseteq PackagesFor(m)
        BY <1>4, PackageFacts
    <2>2. Joins(InstallShimHooksContract, ShimContract, p)
        BY <1>2, <2>1 DEF Joins, InstallShimHooksContract, ShimContract, Preseed
    <2>3. Acts(m, InstallShimHooks \o shim, p)
        BY <2>2, InstallShimHooksActs, ShimActs, Sequence
    <2>4. Joins(KeysContract, p, SecureBootContract(m))
        BY <1>2, <1>4 DEF Joins, KeysContract, InstallShimHooksContract, ShimContract,
                          SecureBootContract, Preseed, When
    <2>5. QED
        BY <1>4, <2>3, <2>4, KeysActs, Sequence DEF ConfigureSecureBoot
<1>5. QED
    BY <1>1, <1>3, <1>4

-----------------------------------------------------------------------------
(* install.ts *)

\* What is settled when install() returns.
Settled(m) ==
    {"boot-files", "current", "signed", "fstab", "passwords", "home-owned", "enabled",
     "retention", "timers", "restricted", "snapshot"}
    \cup When(m.platform = "hyper_v", {"shim", "MokManager", "grub", "MOK-certificate"})

\* What an erased and mounted disk still lacks, the packages and all.
RestNeeds(m) ==
    {"tools", "trust"} \cup Mounts \cup When(~m.optimized, {"calamares"})
    \cup When(m.platform = "physical", {"setup-mode"})
RestMakes(m) ==
    InstallBaseContract(m).makes \cup ConfigureSystemContract(m).makes
          \cup ConfigureSnapshotsContract.makes
    \cup SecureBootContract(m).makes \cup CopyInstallerContract.makes
          \cup CreateInstallSnapshotContract.makes

\* The commands after the layout, up to a function.
Installing(m, leaves, clears, spoils) ==
    [needs |-> RestNeeds(m), without |-> {"user"},
     leaves |-> leaves, clears |-> clears,
     makes |-> RestMakes(m),
     spoils |-> {"optimized", "snapshot", "current", "home-owned"} \cup spoils]
RestContract(m) ==
    Installing(m, Settled(m), When(m.platform = "hyper_v", {"MOK-hash"}), {"setup-mode", "MOK-hash",
          "restricted"})

Rest(m) ==
    InstallBase(m) \o ConfigureSystem(m) \o ConfigureSnapshots \o
    ConfigureSecureBoot(m) \o CopyInstaller \o CreateInstallSnapshot

LEMMA RestActs ==
    ASSUME NEW m \in Machine
    PROVE  Acts(m, Rest(m), RestContract(m))
<1> DEFINE Mok == When(m.platform = "hyper_v", {"MOK-hash"})
<1> DEFINE Ready == PackagesFor(m) \cup Preseed \cup
                    {"packages", "target-conf", "mirrors", "gnupg", "fstab"}
<1> DEFINE p == Installing(m, Ready \cup {"passwords", "home-owned", "enabled"}, {}, {})
<1> DEFINE q == Installing(m, Ready \cup {"passwords", "home-owned", "enabled", "retention", "timers"},
                           {}, {})
<1> DEFINE r == Installing(m, (Settled(m) \ {"restricted", "snapshot"}) \cup {"snapper"}, Mok,
                           {"setup-mode", "MOK-hash"})
<1> DEFINE t == Installing(m, (Settled(m) \ {"snapshot"}) \cup {"snapper"}, Mok,
                           {"setup-mode", "MOK-hash", "restricted"})
<1>1. /\ PackagesFor(m) \cap
          {"user", "optimized", "snapshot", "current", "home-owned", "setup-mode", "MOK-hash",
           "restricted"} = {}
      /\ {"fish", "chwd", "snapper"} \subseteq PackagesFor(m)
      /\ "user" \notin AllPackages
    BY PackageFacts DEF AllPackages, BasePackages, SessionPackages
<1>2. Acts(m, InstallBase(m) \o ConfigureSystem(m), p)
    <2>1. Joins(InstallBaseContract(m), ConfigureSystemContract(m), p)
        BY <1>1 DEF Joins, InstallBaseContract, ConfigureSystemContract, Configuring, Installing,
                    RestNeeds, RestMakes, Preseed, Mounts
    <2>2. QED
        BY <2>1, InstallBaseActs, ConfigureSystemActs, Sequence
<1>3. Acts(m, InstallBase(m) \o ConfigureSystem(m) \o ConfigureSnapshots, q)
    <2>1. Joins(p, ConfigureSnapshotsContract, q)
        BY <1>1 DEF Joins, ConfigureSnapshotsContract, Installing, RestNeeds, RestMakes, Preseed, Mounts
    <2>2. QED
        BY <1>2, <2>1, ConfigureSnapshotsActs, Sequence
<1>4. Acts(m, InstallBase(m) \o ConfigureSystem(m) \o ConfigureSnapshots \o ConfigureSecureBoot(m), r)
    <2>1. Joins(q, SecureBootContract(m), r)
        BY <1>1 DEF Joins, SecureBootContract, Installing, RestNeeds, RestMakes, Preseed, Mounts,
                    Settled, When
    <2>2. QED
        BY <1>3, <2>1, SecureBootActs, Sequence
<1>5. Acts(m, InstallBase(m) \o ConfigureSystem(m) \o ConfigureSnapshots \o ConfigureSecureBoot(m)
              \o CopyInstaller, t)
    <2>1. Joins(r, CopyInstallerContract, t)
        BY DEF Joins, CopyInstallerContract, Installing, RestNeeds, RestMakes, Mounts, Settled, When
    <2>2. QED
        BY <1>4, <2>1, CopyInstallerActs, Sequence
<1>6. Joins(t, CreateInstallSnapshotContract, RestContract(m))
    BY DEF Joins, CreateInstallSnapshotContract, RestContract, Installing, RestNeeds, RestMakes,
           Mounts, Settled, When
<1>7. QED
    BY <1>5, <1>6, CreateInstallSnapshotActs, Sequence DEF Rest

\* The erased disk, mounted.
PrepareDiskContract(made) ==
    [needs |-> {"tools"}, without |-> {},
     leaves |-> Mounts, clears |-> OnDisk(made) \ LayoutContract.makes,
     makes |-> LayoutContract.makes, spoils |-> OnDisk(made) \cup {"top"}]

LEMMA PrepareDiskActs ==
    ASSUME NEW m, NEW made, "tools" \notin OnDisk(made)
    PROVE  Acts(m, PrepareDisk(made), PrepareDiskContract(made))
<1>1. Joins(ErasedContract(made), LayoutContract, PrepareDiskContract(made))
    <2>1. /\ {"partitions", "@", "@cache", "@log", "@tmp"} \subseteq OnDisk(made)
          /\ OnDisk(made) \cap Mounts = {}
        BY OnDiskStays DEF Own
    <2>2. /\ LayoutContract.needs = {"tools"} /\ LayoutContract.leaves = Mounts /\ LayoutContract.clears = {}
          /\ LayoutContract.without = Own \cup {"partitions", "@", "@cache", "@log", "@tmp"}
          /\ LayoutContract.spoils = {"top"} /\ "top" \notin Mounts
        BY DEF LayoutContract, LayingOut, Mounts
    <2>3. QED
        BY <2>1, <2>2 DEF Joins, ErasedContract, PrepareDiskContract
<1>2. QED
    BY <1>1, ErasedActs, LayoutActs, Sequence DEF PrepareDisk

LEMMA OnlyIsList ==
    ASSUME NEW condition \in BOOLEAN, NEW cs, List(cs)
    PROVE  List(Only(condition, cs))
BY DEF Only, List

\* The rest of the commands make the user's account, so it is erased with the disk.
LEMMA UserIsMade ==
    ASSUME NEW m \in Machine
    PROVE  "user" \in Made(Rest(m))
<1> DEFINE accounts == << [InTarget({"packages", "fish"}, {"user"}) EXCEPT !.without = {"user"}],
                          InTarget({"user"}, {"passwords"}),
                          File("sudo"), File("autologin"), HomeFile("gtk-3"), HomeFile("gtk-4") >>
<1> DEFINE ssh == << HomeFile("authorized-key"), InTarget({"authorized-key"}, {}), File("sshd") >>
<1> DEFINE homeOwned == << InTarget({"user"}, {"home-owned"}) >>
<1> DEFINE drivers == << InTarget({"chwd"}, {"profiles"}) >>
<1> DEFINE enabled == << InTarget(Services(m), {"enabled"}) >>
<1>1. Made(ConfigureSystem(m)) \subseteq Made(Rest(m))
    <2>1. /\ List(InstallBase(m)) /\ List(ConfigureSystem(m)) /\ List(ConfigureSnapshots)
          /\ List(ConfigureSecureBoot(m)) /\ List(CopyInstaller) /\ List(CreateInstallSnapshot)
        BY InstallBaseActs, ConfigureSystemActs, ConfigureSnapshotsActs, SecureBootActs,
           CopyInstallerActs, CreateInstallSnapshotActs DEF Acts
    <2>2. QED
        BY <2>1, MadeJoins, ListsJoin DEF Rest
<1>2. Made(ConfigureUsers(m)) \subseteq Made(ConfigureSystem(m))
    <2>1. List(ConfigureIdentity) /\ List(ConfigureUsers(m)) /\ List(drivers) /\ List(enabled)
        BY ConfigureIdentityActs, ConfigureUsersActs, DriversActs, EnabledActs DEF Acts
    <2>2. List(Only(m.platform = "physical", drivers))
        BY <2>1, OnlyIsList
    <2> HIDE DEF drivers, enabled
    <2>3. Made(ConfigureUsers(m)) \subseteq Made(
              ConfigureIdentity \o ConfigureUsers(m) \o Only(m.platform = "physical",
                    drivers) \o enabled)
        BY <2>1, <2>2, MadeJoins, ListsJoin
    <2>4. QED
        BY <2>3 DEF ConfigureSystem, drivers, enabled
<1>3. Made(accounts) \subseteq Made(ConfigureUsers(m))
    <2>1. List(accounts) /\ List(ssh) /\ List(homeOwned) /\ m.ssh \in BOOLEAN
        BY AccountsActs, SshActs, HomeOwnedActs DEF Acts, Machine
    <2> HIDE DEF accounts, ssh, homeOwned
    <2>2. Made(accounts) \subseteq Made(accounts \o Only(m.ssh, ssh) \o homeOwned)
        BY <2>1, OnlyIsList, MadeJoins, ListsJoin
    <2>3. QED
        BY <2>2 DEF ConfigureUsers, accounts, ssh, homeOwned
<1>4. 1 \in DOMAIN accounts /\ accounts[1].adds = {"user"}
    <2>1. 1 \in DOMAIN accounts
        OBVIOUS
    <2>2. accounts[1].adds = {"user"}
        BY DEF InTarget, Spoil, Do, File, HomeFile, Chroot
    <2>3. QED
        BY <2>1, <2>2
<1>5. "user" \in Made(accounts)
    BY <1>4 DEF Made
<1>6. QED
    BY <1>1, <1>2, <1>3, <1>5

\* What a run needs, what it spoils, and what it settles.
InstallMakes(m) == PrepareHostContract.makes \cup LayoutContract.makes \cup RestMakes(m)
InstallContract(m) ==
    [needs |-> When(~m.optimized, {"calamares"}), without |-> {},
     leaves |-> Settled(m), clears |-> When(m.platform = "hyper_v", {"MOK-hash"}),
     makes |-> InstallMakes(m),
     spoils |-> OnDisk(Made(Rest(m))) \cup RestContract(m).spoils \cup {"top"}]

LEMMA ErasedFacts ==
    ASSUME NEW m \in Machine
    PROVE  /\ "user" \in OnDisk(Made(Rest(m))) \ LayoutContract.makes
           /\ {"tools", "trust", "setup-mode", "calamares", "keyring", "keyrings", "populated"}
                 \cap OnDisk(Made(Rest(m))) = {}
<1>1. Made(Rest(m)) \subseteq RestMakes(m)
    <2>1. RestContract(m).makes = RestMakes(m)
        BY DEF RestContract, Installing
    <2>2. QED
        BY <2>1, RestActs, MadeIsBounded
<1>2. {"tools", "trust", "setup-mode", "calamares", "keyring", "keyrings", "populated"}
          \cap (RestMakes(m) \cup LayoutContract.makes \cup {"foreign", "our-MOK"}) = {}
    BY DEF RestMakes, LayoutContract, LayingOut, Mounts, InstallBaseContract, AllPackages, BasePackages,
           SessionPackages, Preseed, ConfigureSystemContract, Configuring, ConfigureIdentityContract,
           ConfigureUsersContract, ConfigureSnapshotsContract, SecureBootContract, When,
           InstallShimHooksContract, ShimContract, CopyInstallerContract, CreateInstallSnapshotContract
<1>3. "user" \notin LayoutContract.makes /\ "user" \notin Own \cup Others \cup {"conf", "optimized"}
    BY DEF LayoutContract, LayingOut, Own, Others, Mounts
<1>4. QED
    BY <1>1, <1>2, <1>3, OnDiskStays, UserIsMade

LEMMA InstallActs ==
    ASSUME NEW m \in Machine
    PROVE  Acts(m, Install(m), InstallContract(m))
<1> DEFINE Calamares == When(~m.optimized, {"calamares"})
<1> DEFINE SetupMode == When(m.platform = "physical", {"setup-mode"})
<1> DEFINE Old == OnDisk(Made(Rest(m)))
<1> DEFINE p == [needs |-> {}, without |-> {},
     leaves |-> {"tools", "trust"} \cup SetupMode, clears |-> {},
                 makes |-> PrepareHostContract.makes, spoils |-> {}]
<1> DEFINE q == [needs |-> Calamares, without |-> {},
                 leaves |-> {"tools", "trust"} \cup SetupMode \cup Mounts \cup Calamares,
                 clears |-> {"user"},
                 makes |-> PrepareHostContract.makes \cup LayoutContract.makes,
                 spoils |-> Old \cup {"top"}]
<1>1. Acts(m, PrepareHost \o AssertReadyForSecureBoot(m), p)
    <2>1. Joins(PrepareHostContract, AssertReadyContract(m), p)
        BY DEF Joins, PrepareHostContract, AssertReadyContract
    <2>2. QED
        BY <2>1, PrepareHostActs, AssertReadyActs, Sequence
<1>2. Acts(m, PrepareHost \o AssertReadyForSecureBoot(m) \o PrepareDisk(Made(Rest(m))), q)
    <2>1. Joins(p, PrepareDiskContract(Made(Rest(m))), q)
        BY ErasedFacts DEF Joins, PrepareDiskContract, When
    <2>2. "tools" \notin Old
        BY ErasedFacts
    <2>3. QED
        BY <1>1, <2>1, <2>2, PrepareDiskActs, Sequence
<1>3. Joins(q, RestContract(m), InstallContract(m))
    <2>1. /\ RestContract(m).needs = RestNeeds(m) /\ RestContract(m).without = {"user"}
          /\ RestContract(m).leaves = Settled(m) /\ RestContract(m).makes = RestMakes(m)
          /\ RestContract(m).clears = When(m.platform = "hyper_v", {"MOK-hash"})
        BY DEF RestContract, Installing
    <2>2. QED
        BY <2>1 DEF Joins, InstallContract, InstallMakes, RestNeeds
<1>4. QED
    BY <1>2, <1>3, RestActs, Sequence DEF Install, Rest

-----------------------------------------------------------------------------
(* Until the disk is erased, a run spoils nothing, and just before it has the disk listed. *)

Harmless(c) == c.dels = {} /\ "MOK-hash" \notin c.adds
ErasesFirst(cs) ==
    \E k \in 2..Len(cs) :
        /\ "luks" \in cs[k].dels /\ cs[k - 1].check = "idle-disk"
        /\ \A i \in 1..(k - 1) : Harmless(cs[i])

LEMMA HarmlessThenErases ==
    ASSUME NEW a, NEW b, List(a), List(b), \A i \in 1..Len(a) : Harmless(a[i]), ErasesFirst(b)
    PROVE  ErasesFirst(a \o b)
<1> DEFINE cs == a \o b
<1>1. /\ Len(a) \in Nat /\ Len(b) \in Nat /\ Len(cs) = Len(a) + Len(b)
      /\ \A i \in 1..Len(a) : cs[i] = a[i]
      /\ \A i \in 1..Len(b) : cs[Len(a) + i] = b[i]
    BY ListsJoin
<1> HIDE DEF cs
<1>2. PICK k \in 2..Len(b) : /\ "luks" \in b[k].dels /\ b[k - 1].check = "idle-disk"
                            /\ \A i \in 1..(k - 1) : Harmless(b[i])
    BY DEF ErasesFirst
<1> DEFINE n == Len(a) + k
<1>3. n \in 2..Len(cs) /\ "luks" \in cs[n].dels /\ cs[n - 1].check = "idle-disk"
    <2>1. n \in 2..Len(cs) /\ "luks" \in cs[n].dels
        BY <1>1, <1>2
    <2>2. k - 1 \in 1..Len(b) /\ n - 1 = Len(a) + (k - 1)
        BY <1>1
    <2>3. cs[n - 1] = b[k - 1]
        BY <1>1, <2>2
    <2>4. QED
        BY <1>2, <2>1, <2>3
<1>4. ASSUME NEW i \in 1..(n - 1)
      PROVE  Harmless(cs[i])
    <2>1. CASE i <= Len(a)
        BY <1>1, <2>1
    <2>2. CASE i > Len(a)
        <3>1. /\ i - Len(a) \in 1..Len(b) /\ i - Len(a) \in 1..(k - 1)
              /\ i = Len(a) + (i - Len(a))
            BY <1>1, <1>2, <2>2
        <3>2. QED
            BY <1>1, <1>2, <3>1
    <2>3. QED
        BY <1>1, <2>1, <2>2
<1> HIDE DEF n
<1>5. QED
    BY <1>3, <1>4 DEF ErasesFirst, cs

LEMMA ErasesThenAny ==
    ASSUME NEW a, NEW b, List(a), List(b), ErasesFirst(a)
    PROVE  ErasesFirst(a \o b)
<1> DEFINE cs == a \o b
<1>1. /\ Len(a) \in Nat /\ Len(b) \in Nat /\ Len(cs) = Len(a) + Len(b)
      /\ \A i \in 1..Len(a) : cs[i] = a[i]
    BY ListsJoin
<1> HIDE DEF cs
<1>2. PICK k \in 2..Len(a) : /\ "luks" \in a[k].dels /\ a[k - 1].check = "idle-disk"
                            /\ \A i \in 1..(k - 1) : Harmless(a[i])
    BY DEF ErasesFirst
<1>3. k \in 2..Len(cs) /\ k - 1 \in 1..Len(a) /\ \A i \in 1..(k - 1) : i \in 1..Len(a)
    BY <1>1
<1>4. QED
    BY <1>1, <1>2, <1>3 DEF ErasesFirst, cs

LEMMA InstallErasesFirst ==
    ASSUME NEW m \in Machine
    PROVE  ErasesFirst(Install(m))
<1> DEFINE before == PrepareHost \o AssertReadyForSecureBoot(m)
<1> DEFINE made == Made(Rest(m))
<1>1. List(before) /\ \A i \in 1..Len(before) : Harmless(before[i])
    <2> DEFINE p == [needs |-> {}, without |-> {},
     leaves |-> {}, clears |-> {},
                     makes |-> PrepareHostContract.makes, spoils |-> {}]
    <2>1. Joins(PrepareHostContract, AssertReadyContract(m), p)
        BY DEF Joins, PrepareHostContract, AssertReadyContract
    <2>2. Acts(m, before, p)
        BY <2>1, PrepareHostActs, AssertReadyActs, Sequence
    <2>3. "MOK-hash" \notin p.makes
        BY DEF PrepareHostContract
    <2> HIDE DEF before
    <2>4. QED
        BY <2>2, <2>3 DEF Acts, Bounded, Harmless
<1>2. ErasesFirst(CheckTargetDisk \o Erase(made))
    <2>1. /\ Len(CheckTargetDisk \o Erase(made)) = 4
          /\ Harmless((CheckTargetDisk \o Erase(made))[1])
          /\ Harmless((CheckTargetDisk \o Erase(made))[2])
          /\ (CheckTargetDisk \o Erase(made))[2].check = "idle-disk"
          /\ (CheckTargetDisk \o Erase(made))[3].dels = OnDisk(made)
        BY DEF CheckTargetDisk, Erase, Spoil, Check, Do, Harmless
    <2>2. "luks" \in OnDisk(made)
        BY OnDiskStays
    <2> DEFINE cs == CheckTargetDisk \o Erase(made)
    <2> HIDE DEF cs
    <2>3. QED
        BY <2>1, <2>2 DEF ErasesFirst, cs
<1>3. "tools" \notin OnDisk(made)
    BY ErasedFacts
<1>4. List(CheckTargetDisk \o Erase(made)) /\ List(Layout) /\ List(PrepareDisk(made)) /\ List(Rest(m))
    BY <1>3, ErasedActs, LayoutActs, PrepareDiskActs, RestActs DEF Acts
<1>5. ErasesFirst(PrepareDisk(made))
    BY <1>2, <1>4, ErasesThenAny DEF PrepareDisk
<1> HIDE DEF before, made
<1>6. ErasesFirst(before \o PrepareDisk(made)) /\ List(before \o PrepareDisk(made))
    BY <1>1, <1>4, <1>5, HarmlessThenErases, ListsJoin
<1>7. ErasesFirst(before \o PrepareDisk(made) \o Rest(m))
    BY <1>4, <1>6, ErasesThenAny
<1>8. QED
    BY <1>7 DEF Install, Rest, before, made

\* A desktop has no MOK, no run leaves a fact of the host spoiled, and no command does what
\* others do to the disk, or undoes it.
LEMMA InstallFacts ==
    ASSUME NEW m \in Machine
    PROVE  /\ m.platform = "physical" => "MOK-hash" \notin InstallMakes(m)
           /\ {"calamares", "keyring", "keyrings", "populated"} \cap InstallContract(m).spoils = {}
           /\ Others \cap InstallMakes(m) = {} /\ Others \cap InstallContract(m).spoils = {}
<1>1. m.platform = "physical" => "MOK-hash" \notin InstallMakes(m)
    BY DEF InstallMakes, PrepareHostContract, RestMakes, LayoutContract, LayingOut, Mounts,
           InstallBaseContract,
           AllPackages, BasePackages, SessionPackages, Preseed, ConfigureSystemContract, Configuring,
           ConfigureIdentityContract, ConfigureUsersContract, ConfigureSnapshotsContract,
                 SecureBootContract,
           When, CopyInstallerContract, CreateInstallSnapshotContract
<1>2. {"calamares", "keyring", "keyrings", "populated"} \cap (RestContract(m).spoils \cup {"top"}) = {}
    BY DEF RestContract, Installing
<1>3. Others \cap InstallMakes(m) = {}
    BY DEF Others, InstallMakes, PrepareHostContract, RestMakes, LayoutContract, LayingOut, Mounts,
           InstallBaseContract, AllPackages, BasePackages, SessionPackages, Preseed,
           ConfigureSystemContract, Configuring, ConfigureIdentityContract, ConfigureUsersContract,
           ConfigureSnapshotsContract, SecureBootContract, When, InstallShimHooksContract, ShimContract,
           CopyInstallerContract, CreateInstallSnapshotContract
<1>4. Others \cap (RestContract(m).spoils \cup {"top"}) = {}
    BY DEF RestContract, Installing, Others
<1>5. QED
    BY <1>1, <1>2, <1>3, <1>4, ErasedFacts, OnDiskStays DEF InstallContract

-----------------------------------------------------------------------------
(* The installation and first boot, together. *)

\* The installer and first boot never run at the same time, and first boot only while
\* the installed system is up.
OneProgram ==
    /\ pc # 0 => system = "host"
    /\ step # "off" => system = "target"

\* Once first boot has read the status, the firmware enforces as long as it runs.
StatusHolds == step \notin {"off", "asked"} => Enforcing

\* What the running program has put into the header, and what the owner has by then.
TpmIsBound ==
    step \in {"enrolled", "shown", "confirmed", "ready"} =>
        bound = [pcrs |-> TPM2_PCRS[machine.platform], enforcing |-> TRUE]
RecoveryIsHeld == step \in {"confirmed", "ready", "wiped", "done"} => held
PassphraseStays ==
    step \in {"keyed", "tested", "enrolled", "shown", "confirmed", "ready"} => "password" \in slots
BothAreListed == step \in {"ready", "wiped", "done"} => {"recovery", "tpm2"} \subseteq slots

IInv ==
    /\ slots \subseteq Slots
    /\ OneProgram
    /\ StatusHolds
    /\ TpmIsBound
    /\ RecoveryIsHeld
    /\ PassphraseStays
    /\ BothAreListed
    /\ Unlockable
    /\ PassphraseIsReplaced

LEMMA InitIInv == Init => IInv
<1> SUFFICES ASSUME Init PROVE IInv
    OBVIOUS
<1>1. slots \subseteq Slots /\ OneProgram
    BY DEF Init, Slots, OneProgram
<1>2. "luks" \notin facts
    BY DEF Init, HostFacts, When
<1>3. StatusHolds /\ TpmIsBound /\ RecoveryIsHeld /\ PassphraseStays /\ BothAreListed
    BY DEF Init, StatusHolds, TpmIsBound, RecoveryIsHeld, PassphraseStays, BothAreListed
<1>4. Unlockable /\ PassphraseIsReplaced
    BY <1>2 DEF Unlockable, PassphraseIsReplaced
<1>5. QED
    BY <1>1, <1>3, <1>4 DEF IInv

\* A command leaves the header with the passphrase alone, without slots, or as it was.
LEMMA ChangesInv ==
    ASSUME IInv, step = "off", system = "host", NEW c, Changes(c),
           machine' = machine, step' = step, system' = system
    PROVE  IInv'
<1>1. OneProgram'
    BY DEF IInv, OneProgram
<1>2. StatusHolds' /\ TpmIsBound' /\ RecoveryIsHeld' /\ PassphraseStays' /\ BothAreListed'
    BY DEF StatusHolds, TpmIsBound, RecoveryIsHeld, PassphraseStays, BothAreListed
<1>3. CASE "luks" \in c.adds
    <2>1. slots' = {"password"}
        BY <1>3 DEF Changes
    <2>2. QED
        BY <1>1, <1>2, <2>1 DEF IInv, Slots, Unlockable, PassphraseIsReplaced
<1>4. CASE "luks" \notin c.adds /\ "luks" \in c.dels
    <2>1. slots' = {} /\ "luks" \notin facts'
        BY <1>4 DEF Changes, After
    <2>2. QED
        BY <1>1, <1>2, <2>1 DEF IInv, Slots, Unlockable, PassphraseIsReplaced
<1>5. CASE "luks" \notin c.adds /\ "luks" \notin c.dels
    <2>1. UNCHANGED diskVars /\ ("luks" \in facts' <=> "luks" \in facts)
        BY <1>5 DEF Changes, After
    <2>2. slots' = slots /\ bound' = bound /\ held' = held
        BY <2>1 DEF diskVars
    <2>3. Unlockable' /\ PassphraseIsReplaced'
        BY <2>1, <2>2 DEF IInv, Unlockable, PassphraseIsReplaced
    <2>4. QED
        BY <1>1, <1>2, <2>2, <2>3 DEF IInv
<1>6. QED
    BY <1>3, <1>4, <1>5

LEMMA InstallerInv ==
    ASSUME IInv, Start \/ RunCommand \/ Refuse \/ CommandFails
    PROVE  IInv'
<1>1. CASE Start
    BY <1>1 DEF IInv, Start, diskVars, OneProgram, StatusHolds, Enforcing, TpmIsBound,
                RecoveryIsHeld, PassphraseStays, BothAreListed, Unlockable,
                PassphraseIsReplaced
<1>2. CASE Refuse
    BY <1>2 DEF IInv, Refuse, diskVars, OneProgram, StatusHolds, Enforcing, TpmIsBound,
                RecoveryIsHeld, PassphraseStays, BothAreListed, Unlockable, PassphraseIsReplaced
<1>3. ASSUME pc # 0
      PROVE  step = "off" /\ system = "host"
    BY <1>3 DEF IInv, OneProgram
<1>4. CASE RunCommand
    BY <1>3, <1>4, ChangesInv DEF RunCommand
<1>5. CASE CommandFails
    <2>1. PICK c : Changes(c)
        BY <1>5 DEF CommandFails
    <2>2. QED
        BY <1>3, <1>5, <2>1, ChangesInv DEF CommandFails
<1>6. QED
    BY <1>1, <1>2, <1>4, <1>5

\* The host, the people and the firmware change no slot, and nothing while first boot
\* runs except to stop it.
LEMMA EnvironmentInv ==
    ASSUME IInv,
           UseDisk \/ CleanUp \/ Restart \/ ChangeFirmware \/ BootHost \/ EnrollMok \/ BootTarget
    PROVE  IInv'
<1>1. slots' = slots /\ bound' = bound /\ held' = held /\ machine' = machine
    BY DEF UseDisk, CleanUp, Restart, ChangeFirmware, BootHost, EnrollMok, BootTarget, diskVars
<1>2. "luks" \in facts' => "luks" \in facts
    <2>1. CASE UseDisk \/ CleanUp
        BY <2>1 DEF UseDisk, CleanUp
    <2>2. CASE Restart
        BY <2>2 DEF Restart
    <2>3. CASE ChangeFirmware
        <3>1. CASE facts' = facts \cup {"secure-boot"}
            BY <3>1
        <3>2. CASE facts' = facts \ {"secure-boot"}
            BY <3>2
        <3>3. CASE facts' = (facts \cup {"setup-mode"}) \ {"our-keys"}
            BY <3>3
        <3>4. QED
            BY <2>3, <3>1, <3>2, <3>3 DEF ChangeFirmware
    <2>4. CASE BootHost \/ BootTarget
        BY <2>4 DEF BootHost, BootTarget
    <2>5. CASE EnrollMok
        <3>1. CASE facts' = facts \ {"MOK-request"}
            BY <3>1
        <3>2. CASE facts' = (facts \cup {"our-MOK"}) \ {"MOK-request"}
            BY <3>2
        <3>3. QED
            BY <2>5, <3>1, <3>2 DEF EnrollMok
    <2>6. QED
        BY <2>1, <2>2, <2>3, <2>4, <2>5
<1>3. step' = "off"
    BY DEF IInv, OneProgram, UseDisk, CleanUp, Restart, ChangeFirmware, BootHost, EnrollMok, BootTarget
<1>4. pc' # 0 => system' = "host"
    BY DEF IInv, OneProgram, UseDisk, CleanUp, Restart, ChangeFirmware, BootHost, EnrollMok, BootTarget
<1>5. OneProgram' /\ StatusHolds' /\ TpmIsBound' /\ RecoveryIsHeld' /\ PassphraseStays' /\ BothAreListed'
    BY <1>3, <1>4 DEF OneProgram, StatusHolds, TpmIsBound, RecoveryIsHeld, PassphraseStays, BothAreListed
<1>6. Unlockable' /\ PassphraseIsReplaced'
    BY <1>1, <1>2 DEF IInv, Unlockable, PassphraseIsReplaced
<1>7. QED
    BY <1>1, <1>5, <1>6 DEF IInv

\* The steps of first boot that change no slot.
LEMMA ReadingInv ==
    ASSUME IInv, UNCHANGED <<machine, facts, system, pc, finished, reported>>, system = "target",
           Launch \/ ReadStatus \/ ListSlots \/ TestRecoveryKey \/ TypeBack \/ CheckSlots
           \/ CheckRemoval \/ Stop
    PROVE  IInv'
<1>1. UNCHANGED <<slots, bound, held, machine, facts, system, pc>>
    BY DEF Launch, ReadStatus, ListSlots, TestRecoveryKey, TypeBack, CheckSlots, CheckRemoval,
           Stop, diskVars
<1>2. OneProgram' /\ Unlockable' /\ PassphraseIsReplaced' /\ (slots \subseteq Slots)'
    BY <1>1 DEF IInv, OneProgram, Unlockable, PassphraseIsReplaced
<1>3. StatusHolds'
    BY <1>1 DEF IInv, StatusHolds, Enforcing, Launch, ReadStatus, ListSlots, TestRecoveryKey,
                TypeBack, CheckSlots, CheckRemoval, Stop, Becomes
<1>4. TpmIsBound'
    BY <1>1 DEF IInv, TpmIsBound, Launch, ReadStatus, ListSlots, TestRecoveryKey,
                TypeBack, CheckSlots, CheckRemoval, Stop, Becomes
<1>5. RecoveryIsHeld'
    BY <1>1 DEF IInv, RecoveryIsHeld, Launch, ReadStatus, ListSlots, TestRecoveryKey,
                TypeBack, CheckSlots, CheckRemoval, Stop, Becomes
<1>6. BothAreListed' /\ PassphraseStays'
    BY <1>1 DEF IInv, BothAreListed, PassphraseStays, BothEnrolled, Launch, ReadStatus, ListSlots, TestRecoveryKey,
                TypeBack, CheckSlots, CheckRemoval, Stop, Becomes
<1>7. QED
    BY <1>2, <1>3, <1>4, <1>5, <1>6 DEF IInv

\* The steps that change the header or tell the owner the key.
LEMMA EnrollingInv ==
    ASSUME IInv, UNCHANGED <<machine, facts, system, pc, finished, reported>>, system = "target",
           AddRecoveryKey \/ AddTpm2 \/ ShowKey \/ WipePassword
    PROVE  IInv'
<1>1. StatusHolds' /\ OneProgram'
    BY DEF IInv, OneProgram, StatusHolds, Enforcing, AddRecoveryKey, AddTpm2, ShowKey, WipePassword,
           Becomes
<1>2. CASE AddRecoveryKey
    BY <1>1, <1>2 DEF IInv, Slots, TpmIsBound, RecoveryIsHeld, PassphraseStays, BothAreListed, Unlockable,
                      PassphraseIsReplaced, AddRecoveryKey, Becomes
<1>3. CASE AddTpm2
    <2>1. Enforcing = TRUE
        BY <1>3 DEF IInv, StatusHolds, Enforcing, AddTpm2, Becomes
    <2>2. bound' = [pcrs |-> TPM2_PCRS[machine'.platform], enforcing |-> TRUE]
        BY <1>3, <2>1 DEF AddTpm2
    <2>3. QED
        BY <1>1, <1>3, <2>2 DEF IInv, Slots, TpmIsBound, RecoveryIsHeld, PassphraseStays, BothAreListed, Unlockable,
                          PassphraseIsReplaced, AddTpm2, Becomes
<1>4. CASE ShowKey
    BY <1>1, <1>4 DEF IInv, Slots, TpmIsBound, RecoveryIsHeld, PassphraseStays, BothAreListed, Unlockable,
                      PassphraseIsReplaced, ShowKey, Becomes
<1>5. CASE WipePassword
    BY <1>1, <1>5 DEF IInv, Slots, TpmIsBound, RecoveryIsHeld, PassphraseStays, BothAreListed, Unlockable,
                      PassphraseIsReplaced, WipePassword, Becomes
<1>6. QED
    BY <1>2, <1>3, <1>4, <1>5

LEMMA NextIInv == IInv /\ [Next]_vars => IInv'
<1> SUFFICES ASSUME IInv, [Next]_vars PROVE IInv'
    OBVIOUS
<1>1. CASE Start \/ RunCommand \/ Refuse \/ CommandFails
    BY <1>1, InstallerInv
<1>2. CASE UseDisk \/ CleanUp \/ Restart \/ ChangeFirmware \/ BootHost \/ EnrollMok \/ BootTarget
    BY <1>2, EnvironmentInv
<1>3. CASE EnrollUnlocking
    <2>1. UNCHANGED <<machine, facts, system, pc, finished, reported>> /\ system = "target" /\ FirstBootStep
        BY <1>3 DEF EnrollUnlocking
    <2>2. CASE AddRecoveryKey \/ AddTpm2 \/ ShowKey \/ WipePassword
        BY <2>1, <2>2, EnrollingInv
    <2>3. CASE \/ Launch \/ ReadStatus \/ ListSlots \/ TestRecoveryKey \/ TypeBack \/ CheckSlots
               \/ CheckRemoval \/ Stop
        BY <2>1, <2>3, ReadingInv
    <2>4. QED
        BY <2>1, <2>2, <2>3 DEF FirstBootStep
<1>4. CASE UNCHANGED vars
    BY <1>4 DEF vars, diskVars, IInv, OneProgram, StatusHolds, Enforcing, TpmIsBound, RecoveryIsHeld,
                PassphraseStays, BothAreListed, Unlockable, PassphraseIsReplaced
<1>5. QED
    BY <1>1, <1>2, <1>3, <1>4 DEF Next

THEOREM InvariantHolds == Spec => []IInv
BY InitIInv, NextIInv, PTL DEF Spec

\* Something the owner has always opens the disk, for every set of machines.
THEOREM UnlockableAlways == Spec => []Unlockable
<1>1. IInv => Unlockable
    BY DEF IInv
<1>2. QED
    BY InvariantHolds, <1>1, PTL

\* The passphrase is given up only for both other keys, the TPM2 key sealed to enforced
\* Secure Boot, for every set of machines.
THEOREM PassphraseIsReplacedAlways == Spec => []PassphraseIsReplaced
<1>1. IInv => PassphraseIsReplaced
    BY DEF IInv
<1>2. QED
    BY InvariantHolds, <1>1, PTL
-----------------------------------------------------------------------------
(* A run of install(), for every machine: what each command finds, and what is settled *)
(* at the end. The machine is always at a point of a run that began on a prepared host. *)

HostIsReady == HostFacts(machine) \subseteq facts
DesktopHasNoMok == machine.platform = "physical" => "MOK-hash" \notin facts

\* n commands lead to the facts F from facts that held the host's.
OnPath(n, F) ==
    \E s : /\ Runs(machine, Plan, n, s) /\ s[n] = F
           /\ HostFacts(machine) \subseteq s[0]
           /\ machine.platform = "physical" => "MOK-hash" \notin s[0]

\* The running installer has got here, and would have whatever others did to the disk.
Had(F, O) == (F \ Others) \cup O
RunIsOnPath == pc # 0 => \A O \in SUBSET Others : OnPath(pc - 1, Had(facts, O))

\* A run that is past the check has had the disk listed.
ReportIsKept == pc # 0 => \A k \in 1..(pc - 1) : Plan[k].check = "idle-disk" => reported

\* As long as an earlier installation counts as finished, this run has erased nothing.
NotErasedYet == finished /\ pc # 0 => \A k \in 1..(pc - 1) : "luks" \notin Plan[k].dels
IsSettled == finished => Settled(machine) \subseteq facts /\ "MOK-hash" \notin facts

RunInv ==
    /\ TypeOK
    /\ HostIsReady
    /\ Listed(facts)
    /\ DesktopHasNoMok
    /\ RunIsOnPath
    /\ ReportIsKept
    /\ NotErasedYet
    /\ IsSettled
    /\ system = "target" => slots # {}

LEMMA PlanFacts ==
    ASSUME machine \in Machines
    PROVE  /\ machine \in Machine /\ Plan = Install(machine) /\ Made(Plan) \subseteq Facts[machine]
           /\ Acts(machine, Plan, InstallContract(machine))
           /\ Len(Plan) \in Nat \ {0} /\ DOMAIN Plan = 1..Len(Plan)
           /\ InstallContract(machine).needs \subseteq HostFacts(machine)
           /\ InstallContract(machine).without = {}
<1>1. machine \in Machine /\ (machine.live \/ machine.optimized)
    BY MachinesAssumption
<1>2. Plan = Install(machine) /\ Made(Plan) \subseteq Facts[machine]
    BY DEF Plan, Plans, Facts
<1>3. Acts(machine, Plan, InstallContract(machine))
    BY <1>1, <1>2, InstallActs
<1>4. Len(Plan) \in Nat /\ DOMAIN Plan = 1..Len(Plan)
    BY <1>3, ListIsSequence DEF Acts
<1>5. Len(Plan) # 0
    BY <1>1, <1>2, <1>4, InstallErasesFirst DEF ErasesFirst
<1>6. InstallContract(machine).needs \subseteq HostFacts(machine)
    BY <1>1 DEF InstallContract, HostFacts, When
<1>7. QED
    BY <1>1, <1>2, <1>3, <1>4, <1>5, <1>6 DEF InstallContract

\* What a command of the plan may make and may spoil.
LEMMA PlanCommand ==
    ASSUME machine \in Machines, NEW k \in 1..Len(Plan)
    PROVE  /\ Plan[k].adds \subseteq Facts[machine]
           /\ Plan[k].dels \cap HostFacts(machine) = {}
           /\ machine.platform = "physical" => "MOK-hash" \notin Plan[k].adds
           /\ Plan[k].check # "none" => Plan[k].adds = {} /\ Plan[k].dels = {}
           /\ Others \cap Plan[k].adds = {} /\ Others \cap Plan[k].dels = {}
<1>1. Bounded(Plan[k], InstallContract(machine)) /\ machine \in Machine
    BY PlanFacts DEF Acts
<1>2. Plan[k].adds \subseteq Facts[machine]
    BY PlanFacts DEF Made
<1>3. HostFacts(machine) \subseteq {"calamares", "keyring", "keyrings", "populated"}
    BY DEF HostFacts, When
<1>4. Plan[k].dels \subseteq InstallContract(machine).spoils /\ Plan[k].adds \subseteq InstallMakes(machine)
    BY <1>1 DEF Bounded, InstallContract
<1>5. QED
    BY <1>1, <1>2, <1>3, <1>4, InstallFacts DEF Bounded

\* lsblk lists every use, so an idle disk is one that nothing uses.
LEMMA IdleIsUnused ==
    ASSUME Listed(facts), AssertTargetDisk(FlattenDevice(facts))
    PROVE  Idle
<1> DEFINE devices == FlattenDevice(facts)
<1>1. "mapped" \notin facts
    <2>1. "mapped" \in facts => Device("lvm", {}) \in devices
        BY DEF FlattenDevice, When
    <2>2. Device("lvm", {}) \in devices => "lvm" \in PassiveTypes
        BY DEF AssertTargetDisk, Device
    <2>3. QED
        BY <2>1, <2>2 DEF PassiveTypes
<1>2. "open" \notin facts
    <2>1. "open" \in facts => Device("crypt", facts \cap {"top", "root"}) \in devices
        BY DEF FlattenDevice, When
    <2>2. Device("crypt", facts \cap {"top", "root"}) \in devices => "crypt" \in PassiveTypes
        BY DEF AssertTargetDisk, Device
    <2>3. QED
        BY <2>1, <2>2 DEF PassiveTypes
<1>3. facts \cap {"mounted", "/boot"} = {}
    <2>1. facts \cap {"foreign", "partitions", "mounted"} # {} => Device("part", facts \cap {"mounted", "/boot"}) \in devices
        BY DEF FlattenDevice, When
    <2>2. Device("part", facts \cap {"mounted", "/boot"}) \in devices => facts \cap {"mounted", "/boot"} = {}
        BY DEF AssertTargetDisk, Device
    <2>3. QED
        BY <2>1, <2>2 DEF Listed
<1>4. QED
    BY <1>1, <1>2, <1>3 DEF Listed, Idle, Own, Others, Mounts

LEMMA ChecksPass ==
    ASSUME Listed(facts), NEW check, MayPass(check)
    PROVE  Passes(machine, facts, check)
BY IdleIsUnused DEF MayPass, Passes, Idle

\* A command whose check has passed finds what it needs.
LEMMA CommandFits ==
    ASSUME RunInv, pc # 0, Passes(machine, facts, Plan[pc].check)
    PROVE  Fits(machine, facts, Plan[pc])
<1>1. machine \in Machines /\ pc \in 1..Len(Plan) /\ pc - 1 \in 0..Len(Plan) /\ pc - 1 < Len(Plan)
    BY PlanFacts DEF RunInv, TypeOK
<1>2. PICK s : /\ Runs(machine, Plan, pc - 1, s) /\ s[pc - 1] = facts
               /\ HostFacts(machine) \subseteq s[0]
    <2>1. Had(facts, facts \cap Others) = facts
        BY DEF Had
    <2>2. OnPath(pc - 1, Had(facts, facts \cap Others))
        BY DEF RunInv, RunIsOnPath
    <2>3. QED
        BY <2>1, <2>2 DEF OnPath
<1>3. Started(machine, Plan, pc - 1, s, InstallContract(machine))
    BY <1>1, <1>2, PlanFacts DEF Started
<1>4. (pc - 1) + 1 = pc
    BY <1>1
<1>5. QED
    BY <1>1, <1>2, <1>3, <1>4, PlanFacts DEF Acts

\* However a command ends: the uses stay listed, and it erases only what is idle.
LEMMA CommandIsSafe ==
    ASSUME RunInv, pc # 0
    PROVE  /\ Listed(facts \ Plan[pc].dels) /\ Listed(After(facts, Plan[pc]))
           /\ Plan[pc].dels \cap {"foreign", "luks"} # {} => machine.wholeDisk /\ Own \cap facts = {}
<1>1. machine \in Machines /\ pc \in 1..Len(Plan) /\ Listed(facts)
    BY PlanFacts DEF RunInv, TypeOK
<1>2. CASE Plan[pc].check = "none"
    BY <1>1, <1>2, CommandFits DEF Passes, Fits
<1>3. CASE Plan[pc].check # "none"
    <2>1. Plan[pc].adds = {} /\ Plan[pc].dels = {}
        BY <1>1, <1>3, PlanCommand
    <2>2. facts \ Plan[pc].dels = facts /\ After(facts, Plan[pc]) = facts
        BY <2>1 DEF After
    <2>3. QED
        BY <1>1, <2>1, <2>2
<1>4. QED
    BY <1>2, <1>3

\* No command before the check spoils anything, so one that does comes after it.
LEMMA ErasingIsReported ==
    ASSUME RunInv, pc # 0, Plan[pc].dels # {}
    PROVE  reported
<1>1. machine \in Machines /\ pc \in 1..Len(Plan) /\ Len(Plan) \in Nat
    BY PlanFacts DEF RunInv, TypeOK
<1>2. PICK k \in 2..Len(Plan) : /\ Plan[k - 1].check = "idle-disk"
                               /\ \A i \in 1..(k - 1) : Harmless(Plan[i])
    BY <1>1, PlanFacts, InstallErasesFirst DEF ErasesFirst
<1>3. ~ pc \in 1..(k - 1)
    BY <1>2 DEF Harmless
<1>4. k - 1 \in 1..(pc - 1)
    BY <1>1, <1>3
<1>5. QED
    BY <1>2, <1>4 DEF RunInv, ReportIsKept

\* A command that has done its work, or that has failed after all, some or none of it.
Doings(c) == {c, [c EXCEPT !.adds = {}], [c EXCEPT !.adds = {}, !.dels = {}]}

LEMMA DoingsFields ==
    ASSUME RunInv, pc # 0, NEW d \in Doings(Plan[pc])
    PROVE  /\ d.adds = Plan[pc].adds \/ d.adds = {}
           /\ d.dels = Plan[pc].dels \/ d.dels = {}
           /\ After(facts, d) \in {After(facts, Plan[pc]), facts \ Plan[pc].dels, facts}
<1>1. DOMAIN Plan[pc] = Fields
    <2>1. machine \in Machines /\ pc \in 1..Len(Plan)
        BY PlanFacts DEF RunInv, TypeOK
    <2>2. QED
        BY <2>1, PlanFacts DEF Acts, Bounded
<1>2. CASE d = Plan[pc]
    BY <1>2
<1>3. CASE d = [Plan[pc] EXCEPT !.adds = {}]
    BY <1>1, <1>3 DEF Fields, After
<1>4. CASE d = [Plan[pc] EXCEPT !.adds = {}, !.dels = {}]
    BY <1>1, <1>4 DEF Fields, After
<1>5. QED
    BY <1>2, <1>3, <1>4 DEF Doings

LEMMA InitRun == Init => RunInv
<1> SUFFICES ASSUME Init PROVE RunInv
    OBVIOUS
<1>1. PICK old \in SUBSET {"foreign", "secure-boot", "setup-mode"} : facts = HostFacts(machine) \cup old
    BY DEF Init
<1>2. HostFacts(machine) \subseteq {"calamares", "keyring", "keyrings", "populated"}
    BY DEF HostFacts, When
<1>3. TypeOK
    <2>1. facts \subseteq Facts[machine]
        BY <1>1 DEF Init, Facts
    <2>2. bound \in Bindings
        BY DEF Init, Bindings, Unbound
    <2>3. machine \in Machines /\ pc \in 0..Len(Plan)
        BY PlanFacts DEF Init
    <2>4. "luks" \notin facts
        BY <1>1, <1>2
    <2>5. QED
        BY <2>1, <2>2, <2>3, <2>4 DEF Init, TypeOK, Slots, Steps
<1>4. HostIsReady /\ DesktopHasNoMok
    BY <1>1, <1>2 DEF HostIsReady, DesktopHasNoMok
<1>5. Listed(facts)
    BY <1>1, <1>2 DEF Listed, Mounts
<1>6. QED
    BY <1>3, <1>4, <1>5 DEF Init, RunInv, RunIsOnPath, ReportIsKept, NotErasedYet, IsSettled

\* Of the state, what a command changes and what it leaves.
LEMMA CommandKeeps ==
    ASSUME RunInv, pc # 0, NEW d \in Doings(Plan[pc]), Changes(d),
           UNCHANGED <<machine, step, system>>, pc' \in 0..Len(Plan), finished' \in BOOLEAN,
           reported' \in BOOLEAN, step = "off"
    PROVE  TypeOK' /\ HostIsReady' /\ Listed(facts') /\ DesktopHasNoMok' /\ system' = "host"
<1> DEFINE c == Plan[pc]
<1>1. /\ machine \in Machines /\ pc \in 1..Len(Plan) /\ system = "host"
      /\ facts \subseteq Facts[machine] /\ slots \subseteq Slots /\ bound \in Bindings /\ held \in BOOLEAN
      /\ slots # {} <=> "luks" \in facts
      /\ HostFacts(machine) \subseteq facts /\ Listed(facts)
      /\ machine.platform = "physical" => "MOK-hash" \notin facts
    BY PlanFacts DEF RunInv, TypeOK, HostIsReady, DesktopHasNoMok
<1>2. /\ d.adds = c.adds \/ d.adds = {}
      /\ d.dels = c.dels \/ d.dels = {}
      /\ After(facts, d) \in {After(facts, c), facts \ c.dels, facts}
    BY DoingsFields
<1>3. /\ c.adds \subseteq Facts[machine] /\ c.dels \cap HostFacts(machine) = {}
      /\ machine.platform = "physical" => "MOK-hash" \notin c.adds
    BY <1>1, PlanCommand
<1>4. facts' = After(facts, d) /\ machine' = machine
    BY DEF Changes
<1> HIDE DEF c
<1>5. facts' \subseteq Facts[machine'] /\ HostIsReady' /\ DesktopHasNoMok'
    BY <1>1, <1>2, <1>3, <1>4 DEF After, HostIsReady, DesktopHasNoMok
<1>6. Listed(facts')
    BY <1>1, <1>2, <1>4, CommandIsSafe DEF c
<1>7. /\ slots' \subseteq Slots /\ bound' \in Bindings /\ held' \in BOOLEAN
      /\ slots' # {} <=> "luks" \in facts'
    <2> USE DEF Changes, After, Slots
    <2>0. Unbound \in Bindings
        BY DEF Unbound, Bindings
    <2>1. CASE "luks" \in d.adds
        <3>1. slots' = {"password"} /\ held' = FALSE /\ bound' = Unbound
            BY <2>1
        <3>2. QED
            BY <1>4, <2>0, <2>1, <3>1
    <2>2. CASE "luks" \notin d.adds /\ "luks" \in d.dels
        <3>1. slots' = {} /\ held' = FALSE /\ bound' = Unbound
            BY <2>2
        <3>2. QED
            BY <1>4, <2>0, <2>2, <3>1
    <2>3. CASE "luks" \notin d.adds /\ "luks" \notin d.dels
        <3>1. slots' = slots /\ bound' = bound /\ held' = held
            BY <2>3 DEF Changes, diskVars
        <3>2. "luks" \in facts' <=> "luks" \in facts
            BY <1>4, <2>3 DEF After
        <3>3. QED
            BY <1>1, <3>1, <3>2
    <2>4. QED
        BY <2>1, <2>2, <2>3
<1>8. Plan' = Plan
    BY <1>4 DEF Plan, Plans
<1>9. QED
    BY <1>1, <1>4, <1>5, <1>6, <1>7, <1>8 DEF TypeOK, Steps

\* An installation that is finished stays settled until the next run erases it.
LEMMA SettledIsKept ==
    ASSUME RunInv, pc # 0, NEW d \in Doings(Plan[pc]), Changes(d), machine' = machine,
           finished, "luks" \notin Plan[pc].dels
    PROVE  Settled(machine) \subseteq facts' /\ "MOK-hash" \notin facts'
<1>1. machine \in Machines /\ pc \in 1..Len(Plan) /\ Len(Plan) \in Nat
    BY PlanFacts DEF RunInv, TypeOK
<1>2. PICK k \in 2..Len(Plan) : "luks" \in Plan[k].dels /\ \A i \in 1..(k - 1) : Harmless(Plan[i])
    BY <1>1, PlanFacts, InstallErasesFirst DEF ErasesFirst
<1>3. pc < k
    <2>1. ~ k \in 1..(pc - 1)
        BY <1>2 DEF RunInv, NotErasedYet
    <2>2. k # pc
        BY <1>2
    <2>3. QED
        BY <1>1, <2>1, <2>2
<1>4. Harmless(Plan[pc])
    BY <1>1, <1>2, <1>3
<1>5. facts' = After(facts, d)
    BY DEF Changes
<1>6. QED
    BY <1>4, <1>5, DoingsFields DEF RunInv, IsSettled, Harmless, After

LEMMA StartRun ==
    ASSUME RunInv, OneProgram, Start
    PROVE  RunInv'
<1>1. /\ UNCHANGED <<machine, facts, slots, bound, held, step, system, finished, reported>>
      /\ system = "host" /\ pc' = 1
    BY DEF Start, diskVars
<1>2. Plan' = Plan /\ machine \in Machines
    BY <1>1 DEF Plan, Plans, RunInv, TypeOK
<1>3. TypeOK'
    BY <1>1, <1>2, PlanFacts DEF RunInv, TypeOK
<1>4. RunIsOnPath'
    <2>1. ASSUME NEW O \in SUBSET Others
          PROVE  OnPath(0, Had(facts, O))
        <3> DEFINE s == [i \in {0} |-> Had(facts, O)]
        <3>1. s[0] = Had(facts, O) /\ Runs(machine, Plan, 0, s)
            BY DEF Runs
        <3>2. HostFacts(machine) \subseteq Had(facts, O)
            BY DEF RunInv, HostIsReady, HostFacts, When, Others, Had
        <3>3. machine.platform = "physical" => "MOK-hash" \notin Had(facts, O)
            BY DEF RunInv, DesktopHasNoMok, Others, Had
        <3> HIDE DEF s
        <3>4. QED
            BY <3>1, <3>2, <3>3 DEF OnPath
    <2>2. pc' - 1 = 0
        BY <1>1
    <2>3. QED
        BY <1>1, <1>2, <2>1, <2>2 DEF RunIsOnPath, OnPath, Had
<1>5. NotErasedYet' /\ ReportIsKept'
    BY <1>1 DEF NotErasedYet, ReportIsKept
<1>6. QED
    BY <1>1, <1>3, <1>4, <1>5 DEF RunInv, HostIsReady, DesktopHasNoMok, IsSettled

\* A command that works is the next one on the path, and the last one settles it.
LEMMA RunCommandRun ==
    ASSUME RunInv, OneProgram, RunCommand
    PROVE  RunInv'
<1> DEFINE c == Plan[pc]
<1>1. /\ machine \in Machines /\ pc \in 1..Len(Plan) /\ Len(Plan) \in Nat \ {0} /\ step = "off"
      /\ UNCHANGED <<machine, step, system>> /\ pc # 0 /\ system = "host"
    <2>1. UNCHANGED <<machine, step, system>> /\ pc # 0
        BY DEF RunCommand
    <2>2. QED
        BY <2>1, PlanFacts DEF RunInv, TypeOK, OneProgram
<1>2. facts' = After(facts, c) /\ Changes(c) /\ c \in Doings(c) /\ Passes(machine, facts, c.check)
    BY ChecksPass DEF RunCommand, Changes, RunInv, Doings
<1>3. Plan' = Plan
    BY <1>1 DEF Plan, Plans
<1>4. pc' = (IF pc = Len(Plan) THEN 0 ELSE pc + 1) /\ pc' \in 0..Len(Plan)
    BY <1>1 DEF RunCommand
<1>5. finished' \in BOOLEAN /\ reported' \in BOOLEAN
    BY <1>1, PlanFacts DEF RunCommand, RunInv, TypeOK, Machine
<1>6. TypeOK' /\ HostIsReady' /\ Listed(facts') /\ DesktopHasNoMok' /\ system' = "host"
    BY <1>1, <1>2, <1>4, <1>5, CommandKeeps
<1>7. ASSUME NEW O \in SUBSET Others
      PROVE  OnPath(pc, Had(facts', O))
    <2>1. PICK t : /\ Runs(machine, Plan, pc - 1, t) /\ t[pc - 1] = Had(facts, O)
                   /\ HostFacts(machine) \subseteq t[0]
                   /\ machine.platform = "physical" => "MOK-hash" \notin t[0]
        BY <1>1 DEF RunInv, RunIsOnPath, OnPath
    <2> DEFINE s == [i \in 0..pc |-> IF i = pc THEN Had(facts', O) ELSE t[i]]
    <2>2. s[pc] = Had(facts', O) /\ \A i \in 0..(pc - 1) : s[i] = t[i]
        BY <1>1
    <2> HIDE DEF s
    <2>3. s[0] = t[0] /\ s[pc - 1] = Had(facts, O)
        BY <1>1, <2>1, <2>2
    <2>4. Had(facts', O) = After(Had(facts, O), c)
        <3>1. Others \cap c.adds = {} /\ Others \cap c.dels = {}
            BY <1>1, PlanCommand
        <3> HIDE DEF c
        <3>2. QED
            BY <1>2, <3>1 DEF After, Had
    <2>5. Passes(machine, Had(facts, O), c.check)
        <3>1. Own \cap Others = {} /\ "setup-mode" \notin Others
            BY DEF Own, Mounts, Others
        <3> HIDE DEF c
        <3>2. QED
            BY <1>2, <3>1 DEF Passes, Had
    <2>6. Runs(machine, Plan, pc, s)
        <3>1. ASSUME NEW i \in 1..pc
              PROVE  Passes(machine, s[i - 1], Plan[i].check) /\ s[i] = After(s[i - 1], Plan[i])
            <4>1. CASE i = pc
                BY <2>2, <2>3, <2>4, <2>5, <4>1
            <4>2. CASE i # pc
                <5>1. i \in 1..(pc - 1) /\ s[i] = t[i] /\ s[i - 1] = t[i - 1]
                    BY <1>1, <2>2, <4>2
                <5>2. QED
                    BY <2>1, <5>1 DEF Runs
            <4>3. QED
                BY <4>1, <4>2
        <3>2. QED
            BY <3>1 DEF Runs
    <2>7. QED
        BY <2>1, <2>2, <2>3, <2>6 DEF OnPath
<1> HIDE DEF c
<1>8. RunIsOnPath'
    <2>1. pc' # 0 => pc' - 1 = pc
        BY <1>1, <1>4
    <2>2. ASSUME pc' # 0, NEW O \in SUBSET Others
          PROVE  OnPath(pc - 1, Had(facts, O))'
        <3>1. PICK s : /\ Runs(machine, Plan, pc, s) /\ s[pc] = Had(facts', O)
                       /\ HostFacts(machine) \subseteq s[0]
                       /\ machine.platform = "physical" => "MOK-hash" \notin s[0]
            BY <1>7 DEF OnPath
        <3>2. pc' - 1 = pc /\ Had(facts, O)' = Had(facts', O)
            BY <2>1, <2>2 DEF Had
        <3>3. QED
            BY <1>1, <1>3, <3>1, <3>2 DEF OnPath
    <2>3. QED
        BY <2>2 DEF RunIsOnPath
<1>9. NotErasedYet'
    <2>1. ASSUME finished', pc' # 0, NEW k \in 1..(pc' - 1)
          PROVE  "luks" \notin Plan[k].dels
        <3>1. pc # Len(Plan) /\ finished /\ "luks" \notin Plan[pc].dels
            BY <1>4, <2>1 DEF RunCommand
        <3>2. k \in 1..(pc - 1) \/ k = pc
            BY <1>1, <1>4, <2>1
        <3>3. QED
            BY <1>1, <3>1, <3>2 DEF RunInv, NotErasedYet
    <2>2. QED
        BY <1>3, <2>1 DEF NotErasedYet
<1>10. IsSettled'
    <2>1. CASE pc = Len(Plan)
        <3>0. PICK s : /\ Runs(machine, Plan, pc, s) /\ s[pc] = facts'
                       /\ HostFacts(machine) \subseteq s[0]
                       /\ machine.platform = "physical" => "MOK-hash" \notin s[0]
            <4>1. Had(facts', facts' \cap Others) = facts'
                BY DEF Had
            <4>2. OnPath(pc, Had(facts', facts' \cap Others))
                BY <1>7
            <4>3. QED
                BY <4>1, <4>2 DEF OnPath
        <3>1. Started(machine, Plan, Len(Plan), s, InstallContract(machine))
            BY <1>1, <2>1, <3>0, PlanFacts DEF Started
        <3>2. Left(InstallContract(machine), s[0], facts')
            BY <1>1, <2>1, <3>0, <3>1, PlanFacts DEF Acts
        <3>3. /\ Settled(machine) \subseteq facts' /\ facts' \subseteq s[0] \cup InstallMakes(machine)
              /\ When(machine.platform = "hyper_v", {"MOK-hash"}) \cap facts' = {}
            BY <3>2 DEF Left, InstallContract
        <3>4. machine \in Machine /\ (machine.platform = "physical" \/ machine.platform = "hyper_v")
            BY <1>1, PlanFacts DEF Machine, Platforms
        <3>5. "MOK-hash" \notin facts'
            BY <3>0, <3>3, <3>4, InstallFacts DEF When
        <3>6. QED
            BY <1>1, <3>3, <3>5 DEF IsSettled
    <2>2. CASE pc # Len(Plan)
        <3>1. finished' => finished /\ "luks" \notin Plan[pc].dels
            BY <2>2 DEF RunCommand
        <3>2. QED
            BY <1>1, <1>2, <3>1, SettledIsKept DEF IsSettled, c
    <2>3. QED
        BY <2>1, <2>2
<1>11. ReportIsKept'
    <2>1. c.check = "idle-disk" => reported'
        BY ChecksPass, IdleIsUnused DEF RunCommand, MayPass, RunInv, c
    <2>2. ASSUME pc' # 0, NEW k \in 1..(pc' - 1), Plan[k].check = "idle-disk"
          PROVE  reported'
        <3>1. pc # Len(Plan) /\ (k \in 1..(pc - 1) \/ k = pc)
            BY <1>1, <1>4, <2>2
        <3>2. CASE k = pc
            BY <2>1, <2>2, <3>2 DEF c
        <3>3. CASE k # pc /\ c.check # "idle-disk"
            <4>1. reported
                BY <1>1, <2>2, <3>1, <3>3 DEF RunInv, ReportIsKept
            <4>2. QED
                BY <3>1, <3>3, <4>1 DEF RunCommand, c
        <3>4. QED
            BY <2>1, <3>2, <3>3
    <2>3. QED
        BY <1>3, <2>2 DEF ReportIsKept
<1>12. QED
    BY <1>6, <1>8, <1>9, <1>10, <1>11 DEF RunInv

LEMMA FailedRun ==
    ASSUME RunInv, OneProgram, Refuse \/ CommandFails
    PROVE  RunInv'
<1>0. reported' \in BOOLEAN
    BY Zenon DEF Refuse, CommandFails
<1>1. /\ machine \in Machines /\ pc \in 1..Len(Plan) /\ Len(Plan) \in Nat \ {0} /\ step = "off"
      /\ UNCHANGED <<machine, step, system>> /\ pc # 0 /\ pc' = 0 /\ system = "host"
    BY PlanFacts DEF RunInv, TypeOK, OneProgram, Refuse, CommandFails
<1>2. RunIsOnPath' /\ ReportIsKept' /\ NotErasedYet'
    BY <1>1 DEF RunIsOnPath, ReportIsKept, NotErasedYet
<1>3. CASE Refuse
    <2>1. UNCHANGED <<machine, facts, slots, bound, held, step, system, finished>>
        BY <1>3 DEF Refuse, diskVars
    <2>2. Plan' = Plan
        BY <2>1 DEF Plan, Plans
    <2>3. TypeOK'
        <3>1. pc' \in 0..Len(Plan')
            BY <1>1, <2>2
        <3>2. QED
            BY <1>0, <1>1, <2>1, <2>2, <3>1 DEF RunInv, TypeOK
    <2>4. QED
        BY <1>2, <2>1, <2>3 DEF RunInv, HostIsReady, DesktopHasNoMok, IsSettled
<1>4. CASE CommandFails
    <2>1. PICK d \in Doings(Plan[pc]) : Changes(d)
        BY <1>4 DEF CommandFails, Doings
    <2>2. finished' = (finished /\ "luks" \notin Plan[pc].dels) /\ finished' \in BOOLEAN
          /\ pc' \in 0..Len(Plan)
        BY <1>1, <1>4 DEF CommandFails
    <2>3. TypeOK' /\ HostIsReady' /\ Listed(facts') /\ DesktopHasNoMok' /\ system' = "host"
        BY <1>0, <1>1, <2>1, <2>2, CommandKeeps
    <2>4. IsSettled'
        BY <1>1, <2>1, <2>2, SettledIsKept DEF IsSettled
    <2>5. QED
        BY <1>2, <2>3, <2>4 DEF RunInv
<1>5. QED
    BY <1>3, <1>4

\* What the people, the firmware and a restart may add, and what they may take away.
Gained == Others \cup {"secure-boot", "setup-mode", "our-MOK"}
Lost(m) ==
    Own \cup Others \cup {"conf", "optimized", "secure-boot", "our-keys", "MOK-request"}
    \cup When(m.live, PrepareHostContract.makes)

LEMMA OthersChangeLittle ==
    ASSUME UseDisk \/ CleanUp \/ Restart \/ ChangeFirmware \/ BootHost \/ EnrollMok \/ BootTarget
    PROVE  facts' \subseteq facts \cup Gained /\ facts \subseteq facts' \cup Lost(machine)
<1> USE DEF Gained, Lost, Own, Others
<1>1. CASE UseDisk
    <2>1. \/ facts' = facts \cup {"mounted"} \/ facts' = facts \cup {"mapped"}
          \/ facts' = facts \ Others
        BY <1>1 DEF UseDisk
    <2>2. QED
        BY <2>1
<1>2. CASE CleanUp
    BY <1>2 DEF CleanUp
<1>3. CASE Restart
    <2>1. Made(PrepareHost) \subseteq PrepareHostContract.makes
        BY PrepareHostActs, MadeIsBounded
    <2>2. facts' = facts \ (InMemory \cup When(machine.live, Made(PrepareHost)))
        BY <1>3 DEF Restart
    <2>3. QED
        BY <2>1, <2>2 DEF InMemory, When
<1>4. CASE ChangeFirmware
    <2>1. \/ facts' = facts \cup {"secure-boot"} \/ facts' = facts \ {"secure-boot"}
          \/ facts' = (facts \cup {"setup-mode"}) \ {"our-keys"}
        BY <1>4 DEF ChangeFirmware
    <2>2. QED
        BY <2>1
<1>5. CASE BootHost \/ BootTarget
    BY <1>5 DEF BootHost, BootTarget
<1>6. CASE EnrollMok
    <2>1. \/ facts' = facts \ {"MOK-request"} \/ facts' = (facts \cup {"our-MOK"}) \ {"MOK-request"}
        BY <1>6 DEF EnrollMok
    <2>2. QED
        BY <2>1
<1>7. QED
    BY <1>1, <1>2, <1>3, <1>4, <1>5, <1>6

LEMMA OthersKeepListed ==
    ASSUME Listed(facts),
           UseDisk \/ CleanUp \/ Restart \/ ChangeFirmware \/ BootHost \/ EnrollMok \/ BootTarget
    PROVE  Listed(facts')
<1> USE DEF Listed, Mounts, Own, Others
<1>1. CASE UseDisk
    <2>1. \/ facts' = facts \cup {"mounted"} \/ facts' = facts \cup {"mapped"}
          \/ facts' = facts \ Others
        BY <1>1 DEF UseDisk
    <2>2. QED
        BY <2>1
<1>2. CASE CleanUp
    BY <1>2 DEF CleanUp
<1>3. CASE Restart
    <2>1. facts' = facts \ (InMemory \cup When(machine.live, Made(PrepareHost)))
        BY <1>3 DEF Restart
    <2>2. facts' \cap InMemory = {}
        BY <2>1
    <2>3. QED
        BY <2>2 DEF InMemory
<1>4. CASE ChangeFirmware
    <2>1. \/ facts' = facts \cup {"secure-boot"} \/ facts' = facts \ {"secure-boot"}
          \/ facts' = (facts \cup {"setup-mode"}) \ {"our-keys"}
        BY <1>4 DEF ChangeFirmware
    <2>2. QED
        BY <2>1
<1>5. CASE BootHost \/ BootTarget
    BY <1>5 DEF BootHost, BootTarget
<1>6. CASE EnrollMok
    <2>1. \/ facts' = facts \ {"MOK-request"} \/ facts' = (facts \cup {"our-MOK"}) \ {"MOK-request"}
        BY <1>6 DEF EnrollMok
    <2>2. QED
        BY <2>1
<1>7. QED
    BY <1>1, <1>2, <1>3, <1>4, <1>5, <1>6

LEMMA OthersRun ==
    ASSUME RunInv, OneProgram,
           UseDisk \/ CleanUp \/ Restart \/ ChangeFirmware \/ BootHost \/ EnrollMok \/ BootTarget
    PROVE  RunInv'
<1>1. UNCHANGED <<machine, slots, bound, held, finished>>
    BY DEF UseDisk, CleanUp, Restart, ChangeFirmware, BootHost, EnrollMok, BootTarget, diskVars
<1>2. /\ pc' = 0 \/ (UseDisk /\ UNCHANGED <<pc, system>>)
      /\ pc' \in {pc, 0} /\ reported' \in {reported, FALSE} /\ step' = "off"
      /\ system' \in {"firmware", "host", "target"}
    BY DEF RunInv, TypeOK, OneProgram, UseDisk, CleanUp, Restart, ChangeFirmware, BootHost, EnrollMok,
           BootTarget
<1>3. system' = "target" => slots # {}
    <2>1. CASE BootTarget
        BY <2>1 DEF BootTarget, Unlocks
    <2>2. CASE UseDisk \/ CleanUp \/ Restart \/ ChangeFirmware \/ BootHost \/ EnrollMok
        BY <2>2 DEF UseDisk, CleanUp, Restart, ChangeFirmware, BootHost, EnrollMok
    <2>3. QED
        BY <2>1, <2>2
<1>4. facts' \subseteq facts \cup Gained /\ facts \subseteq facts' \cup Lost(machine)
    BY OthersChangeLittle
<1>5. ("luks" \in facts' <=> "luks" \in facts) /\ ("MOK-hash" \in facts' <=> "MOK-hash" \in facts)
    BY <1>4 DEF Gained, Lost, Own, Others, Mounts, When, PrepareHostContract
<1>6. HostFacts(machine) \cap Lost(machine) = {} /\ Settled(machine) \cap Lost(machine) = {}
    BY DEF HostFacts, Lost, Settled, Own, Others, Mounts, When, PrepareHostContract
<1>7. Plan' = Plan /\ Len(Plan) \in Nat
    BY <1>1, PlanFacts DEF Plan, Plans, RunInv, TypeOK
<1>8. TypeOK'
    <2>1. facts' \subseteq Facts[machine]
        BY <1>4 DEF RunInv, TypeOK, Facts, Gained
    <2>2. reported' \in BOOLEAN
        <3>1. CASE reported' = reported
            BY <3>1, Zenon DEF RunInv, TypeOK
        <3>2. CASE reported' = FALSE
            BY <3>2, Zenon
        <3>3. QED
            BY <1>2, <3>1, <3>2
    <2>3. pc' \in 0..Len(Plan')
        BY <1>2, <1>7 DEF RunInv, TypeOK
    <2>4. pc' # 0 => system' = "host"
        BY <1>2 DEF RunInv, TypeOK
    <2>5. step' \in Steps /\ (step' # "off" => system' = "target")
        BY <1>2 DEF Steps
    <2>6. QED
        BY <1>1, <1>2, <1>5, <2>1, <2>2, <2>5, <2>3, <2>4 DEF RunInv, TypeOK
<1>9. HostIsReady' /\ DesktopHasNoMok' /\ IsSettled'
    BY <1>1, <1>4, <1>5, <1>6 DEF RunInv, HostIsReady, DesktopHasNoMok, IsSettled
<1>10. RunIsOnPath' /\ ReportIsKept' /\ NotErasedYet'
    <2>1. CASE pc' = 0
        BY <2>1 DEF RunIsOnPath, ReportIsKept, NotErasedYet
    <2>2. CASE UseDisk /\ UNCHANGED <<pc, system>>
        <3>1. \A O \in SUBSET Others : Had(facts', O) = Had(facts, O)
            <4>1. facts' \ Others = facts \ Others
                BY <2>2 DEF UseDisk, Others
            <4>2. QED
                BY <4>1 DEF Had
        <3>2. RunIsOnPath'
            BY <1>1, <1>7, <2>2, <3>1 DEF RunInv, RunIsOnPath, OnPath, Had
        <3>3. reported' = reported
            BY <2>2 DEF UseDisk
        <3>4. QED
            BY <1>1, <1>7, <2>2, <3>2, <3>3 DEF RunInv, ReportIsKept, NotErasedYet
    <2>3. QED
        BY <1>2, <2>1, <2>2
<1>11. QED
    BY <1>1, <1>3, <1>8, <1>9, <1>10, OthersKeepListed DEF RunInv

\* First boot changes the slots only, and there is always one.
LEMMA FirstBootRun ==
    ASSUME RunInv, IInv, EnrollUnlocking
    PROVE  RunInv'
<1>1. UNCHANGED <<machine, facts, system, pc, finished, reported>> /\ system = "target" /\ FirstBootStep
    BY DEF EnrollUnlocking
<1>2. pc = 0
    BY <1>1 DEF RunInv, TypeOK
<1>3. /\ slots' \subseteq Slots /\ bound' \in Bindings /\ held' \in BOOLEAN /\ step' \in Steps
      /\ slots' # {}
    <2> USE DEF RunInv, TypeOK, Becomes, Steps
    <2>1. CASE Launch \/ ReadStatus \/ ListSlots \/ TestRecoveryKey \/ TypeBack \/ CheckSlots
               \/ CheckRemoval \/ Stop
        BY <1>1, <2>1 DEF Launch, ReadStatus, ListSlots, TestRecoveryKey, TypeBack, CheckSlots, CheckRemoval,
                          Stop, diskVars
    <2>2. CASE AddRecoveryKey
        BY <2>2 DEF AddRecoveryKey, Slots
    <2>3. CASE AddTpm2
        <3>1. machine.platform \in {"physical", "hyper_v"}
            BY PlanFacts DEF Machine, Platforms
        <3>2. TPM2_PCRS[machine.platform] \in SUBSET {7, 14} /\ Enforcing \in BOOLEAN
            BY <3>1 DEF TPM2_PCRS, Enforcing
        <3>3. bound' \in Bindings
            BY <2>3, <3>2 DEF AddTpm2, Bindings
        <3>4. QED
            BY <2>3, <3>3 DEF AddTpm2, Slots
    <2>4. CASE ShowKey
        BY <1>1, <2>4 DEF ShowKey
    <2>5. CASE WipePassword
        BY <2>5 DEF WipePassword
    <2>6. QED
        BY <1>1, <2>1, <2>2, <2>3, <2>4, <2>5 DEF FirstBootStep
<1>4. Plan' = Plan
    BY <1>1 DEF Plan, Plans
<1>5. TypeOK'
    BY <1>1, <1>3, <1>4 DEF RunInv, TypeOK
<1>6. QED
    BY <1>1, <1>2, <1>3, <1>5 DEF RunInv, HostIsReady, DesktopHasNoMok, RunIsOnPath, ReportIsKept, NotErasedYet,
                                    IsSettled

LEMMA NextRun == RunInv /\ IInv /\ [Next]_vars => RunInv'
<1> SUFFICES ASSUME RunInv, IInv, [Next]_vars PROVE RunInv'
    OBVIOUS
<1>1. OneProgram
    BY DEF IInv
<1>2. CASE Start
    BY <1>1, <1>2, StartRun
<1>3. CASE RunCommand
    BY <1>1, <1>3, RunCommandRun
<1>4. CASE Refuse \/ CommandFails
    BY <1>1, <1>4, FailedRun
<1>5. CASE UseDisk \/ CleanUp \/ Restart \/ ChangeFirmware \/ BootHost \/ EnrollMok \/ BootTarget
    BY <1>1, <1>5, OthersRun
<1>6. CASE EnrollUnlocking
    BY <1>6, FirstBootRun
<1>7. CASE UNCHANGED vars
    <2>1. UNCHANGED <<machine, facts, slots, bound, held, step, system, pc, finished, reported>>
        BY <1>7 DEF vars, diskVars
    <2>2. Plan' = Plan
        BY <2>1 DEF Plan, Plans
    <2>3. RunIsOnPath' /\ ReportIsKept' /\ NotErasedYet'
        BY <2>1, <2>2 DEF RunInv, RunIsOnPath, OnPath, Had, ReportIsKept, NotErasedYet
    <2>4. TypeOK'
        BY <2>1, <2>2 DEF RunInv, TypeOK
    <2>5. QED
        BY <2>1, <2>3, <2>4 DEF RunInv, HostIsReady, DesktopHasNoMok, IsSettled
<1>8. QED
    BY <1>2, <1>3, <1>4, <1>5, <1>6, <1>7 DEF Next

LEMMA SpecRunInv == Spec => []RunInv
BY InvariantHolds, InitRun, NextRun, PTL DEF Spec

\* The state is of its types at every step, a header has slots, and one program runs at a
\* time, for every set of machines.
THEOREM InstallationTypeCorrect == Spec => []TypeOK
<1>1. RunInv => TypeOK
    BY DEF RunInv
<1>2. QED
    BY SpecRunInv, <1>1, PTL

\* An installation can be run again from wherever another ended: an idle disk is accepted,
\* and a command whose check has passed finds what it needs, for every set of machines.
THEOREM RunsRepeat == Spec => []RunsCanBeRepeated
<1>1. RunInv => RunsCanBeRepeated
    <2>1. machine.wholeDisk /\ Idle => MayPass("idle-disk")
        <3>1. ASSUME Idle, NEW d \in FlattenDevice(facts)
              PROVE  d.mountpoints = {} /\ d.type \in PassiveTypes
            BY <3>1 DEF Idle, Own, Others, Mounts, FlattenDevice, When, Device, PassiveTypes
        <3>2. QED
            BY <3>1 DEF MayPass, AssertTargetDisk
    <2>2. ASSUME RunInv, pc # 0, MayPass(Plan[pc].check)
          PROVE  CanRun(Plan[pc])
        BY <2>2, ChecksPass, CommandFits DEF RunInv, Fits, CanRun
    <2>3. QED
        BY <2>1, <2>2 DEF RunsCanBeRepeated
<1>2. QED
    BY SpecRunInv, <1>1, PTL

\* When install() has returned, everything it settled is still so until the disk is erased
\* again, for every set of machines.
THEOREM SettledWhenFinished == Spec => []FinishedIsSettled
<1>1. RunInv => FinishedIsSettled
    BY DEF RunInv, IsSettled, Settled, When, FinishedIsSettled
<1>2. QED
    BY SpecRunInv, <1>1, PTL

\* What is on the disk is lost only to a run that has had it listed whole and idle, and to
\* which nothing of an earlier run is in the way, for every set of machines.
THEOREM DiskErasedAsReported == Spec => ErasedAsReported
<1> DEFINE Erases == ~ (facts \cap {"foreign", "luks"} \subseteq facts')
<1>1. RunInv /\ [Next]_vars => [Erases => reported /\ facts \cap Own = {}]_vars
    <2> SUFFICES ASSUME RunInv, Next, Erases
                 PROVE  reported /\ facts \cap Own = {}
        OBVIOUS
    <2>1. CASE RunCommand \/ CommandFails
        <3>1. pc # 0
            BY <2>1 DEF RunCommand, CommandFails
        <3>2. PICK d \in Doings(Plan[pc]) : Changes(d)
            BY <2>1 DEF RunCommand, CommandFails, Doings
        <3>3. Plan[pc].dels \cap {"foreign", "luks"} # {}
            BY <3>1, <3>2, DoingsFields DEF Changes, After
        <3>4. facts \cap Own = {}
            BY <3>1, <3>3, CommandIsSafe
        <3>5. reported
            BY <3>1, <3>3, ErasingIsReported
        <3>6. QED
            BY <3>4, <3>5
    <2>2. CASE UseDisk \/ CleanUp \/ Restart \/ ChangeFirmware \/ BootHost \/ EnrollMok \/ BootTarget
        <3>1. {"foreign", "luks"} \cap Lost(machine) = {}
            BY DEF Lost, Own, Others, Mounts, When, PrepareHostContract
        <3>2. QED
            BY <2>2, <3>1, OthersChangeLittle
    <2>3. CASE Start \/ Refuse \/ EnrollUnlocking
        BY <2>3 DEF Start, Refuse, EnrollUnlocking
    <2>4. QED
        BY <2>1, <2>2, <2>3 DEF Next
<1>2. QED
    BY SpecRunInv, <1>1, PTL DEF Spec, ErasedAsReported
=============================================================================
