-------------------------- MODULE RecoveryDiskProofs --------------------------
(***************************************************************************)
(* For every setup, every number of runs, kills, failing mounts and unmounts: *)
(* the disk that is mounted is the one whose partitions were listed, also when *)
(* importvg has mounted the VM's own EFI partition anew in between; and where  *)
(* the run's own EFI mount does not count the scripts are given its path.      *)
(***************************************************************************)
EXTENDS RecoveryDisk, FiniteSetTheorems, WellFoundedInduction, SequenceTheorems, TLAPS

Aside  == custom # NoDisk \/ ~IsNvme \/ root \notin vm.efi
Before == {"details", "import", "remount", "distro", "mount"}

\* Asked again, the path is the same as long as the run has not mounted an EFI
\* partition that is looked at.
SameAnswer ==
    /\ pc \in Before \cup {"idle", "list"} => root = NoDisk
    /\ pc = "environment" /\ Aside => DiskPath = root
    /\ pc = "scripts" /\ Aside => env = root

\* What the search finds as long as the VM's own disk is the last one mounted, or the
\* only one.
OwnAnswer ==
    LET left == RemoteDisks \ {SevenChars(vm.own)}
    IN  IF RemoteControllers # {} /\ Cardinality(left) = 1 THEN CHOOSE d \in left : TRUE ELSE NoDisk

MountsOK ==
    /\ vm \in Setups
    /\ efiMounts \in Seq(Mount)
    /\ \A i \in DOMAIN efiMounts : ~efiMounts[i].rescue => efiMounts[i].disk = vm.own

\* The disk listed is the one a search finds, asked before or after importvg.
ListedRight ==
    /\ pc \in Before /\ (custom # NoDisk \/ ~IsNvme) => DiskPath = listed
    /\ pc \in Before /\ custom = NoDisk /\ IsNvme /\ ~Leftover =>
           listed = OwnAnswer /\ vm.own.bus = "nvme"
    /\ pc \in Before \ {"remount"} /\ (~Leftover \/ listed \notin vm.lvm) => DiskPath = listed
    /\ pc \in {"import", "remount"} => listed \in vm.lvm

LEMMA SameQuestion ==
    ASSUME UNCHANGED <<vm, custom, efiMounts>>
    PROVE  DiskPath' = DiskPath /\ IsNvme' = IsNvme /\ Leftover' = Leftover /\ OwnAnswer' = OwnAnswer
<1>1. NvmeMounts' = NvmeMounts /\ LastMount' = LastMount
  BY DEF NvmeMounts, LastMount
<1>2. RemoteControllers' = RemoteControllers /\ RemoteDisks' = RemoteDisks
  BY DEF RemoteControllers, RemoteDisks
<1>3. NvmeDisk' = NvmeDisk /\ OwnAnswer' = OwnAnswer
  BY <1>1, <1>2 DEF NvmeDisk, OwnAnswer, SevenChars
<1> QED  BY <1>3 DEF DiskPath, IsNvme, Leftover

\* Without the NVMe search the mounts have no part in the answer.
LEMMA MountsAside ==
    ASSUME UNCHANGED <<vm, custom>>, custom # NoDisk \/ ~IsNvme
    PROVE  DiskPath' = DiskPath
BY DEF DiskPath, IsNvme

LEMMA OwnAnswerKept ==
    ASSUME UNCHANGED vm
    PROVE  OwnAnswer' = OwnAnswer /\ IsNvme' = IsNvme
BY DEF OwnAnswer, IsNvme, RemoteControllers, RemoteDisks, SevenChars

------------------------------------------------------------------------------
(* The mounts.                                                               *)

LEMMA InitMounts == Init => MountsOK
<1> SUFFICES ASSUME Init PROVE MountsOK
  OBVIOUS
<1>1. vm \in Setups /\ vm.own \in Disk
  BY SetupAssumption DEF Init, Setup
<1> DEFINE m == [disk |-> vm.own, rescue |-> FALSE]
<1>2. m \in Mount /\ m.disk = vm.own
  BY <1>1 DEF Mount
<1> HIDE DEF m
<1>3. efiMounts \in {<<m>>, <<>>}
  BY DEF Init, m
<1>4. <<m>> \in Seq(Mount) /\ <<>> \in Seq(Mount) /\ \A i \in DOMAIN <<m>> : <<m>>[i] = m
  BY <1>2
<1>5. DOMAIN <<>> = {}
  OBVIOUS
<1>6. vm.own = m.disk
  BY <1>2
<1>7. CASE efiMounts = <<m>>
  BY <1>1, <1>4, <1>6, <1>7 DEF MountsOK
<1>8. CASE efiMounts = <<>>
  BY <1>1, <1>4, <1>5, <1>8 DEF MountsOK
<1> QED  BY <1>3, <1>7, <1>8

\* What is taken out of the list leaves only mounts that were there.
LEMMA LastAway ==
    ASSUME NEW S, NEW s \in Seq(S)
    PROVE  /\ Front(s) \in Seq(S)
           /\ \A i \in DOMAIN Front(s) : i \in DOMAIN s /\ Front(s)[i] = s[i]
<1>1. CASE Len(s) = 0
  BY <1>1 DEF Front
<1>2. CASE Len(s) >= 1
  BY <1>2, SubSeqProperties DEF Front
<1> QED  BY <1>1, <1>2

LEMMA OneAway ==
    ASSUME NEW S, NEW s \in Seq(S), NEW n \in DOMAIN s
    PROVE  /\ RemoveAt(s, n) \in Seq(S)
           /\ \A i \in DOMAIN RemoveAt(s, n) : \E j \in DOMAIN s : RemoveAt(s, n)[i] = s[j]
           /\ \A j \in DOMAIN s : j # n => \E i \in DOMAIN RemoveAt(s, n) : RemoveAt(s, n)[i] = s[j]
<1>1. n \in 1..Len(s) /\ Len(s) \in Nat /\ DOMAIN s = 1..Len(s)
  OBVIOUS
<1> DEFINE a == SubSeq(s, 1, n - 1)
           b == SubSeq(s, n + 1, Len(s))
           c == a \o b
<1>2. a \in Seq(S) /\ Len(a) = n - 1 /\ \A i \in 1..(n - 1) : a[i] = s[i]
  BY <1>1
<1>3. b \in Seq(S) /\ Len(b) = Len(s) - n /\ \A i \in 1..(Len(s) - n) : b[i] = s[n + i]
  BY <1>1
<1>4. RemoveAt(s, n) = c
  BY DEF RemoveAt
<1> HIDE DEF a, b
<1>5. c \in Seq(S) /\ Len(c) = Len(s) - 1
  <2>1. c \in Seq(S) /\ Len(c) = Len(a) + Len(b)
    BY <1>2, <1>3, ConcatProperties
  <2> HIDE DEF c
  <2> QED  BY <1>1, <1>2, <1>3, <2>1
<1>6. ASSUME NEW i \in 1..(n - 1)
      PROVE  c[i] = s[i]
  BY <1>1, <1>2, <1>3, <1>6, ConcatProperties
<1>7. ASSUME NEW i \in n..(Len(s) - 1)
      PROVE  c[i] = s[i + 1]
  <2>1. i \in 1..(Len(a) + Len(b)) /\ ~(i <= Len(a))
    BY <1>1, <1>2, <1>3, <1>7
  <2>2. c[i] = b[i - Len(a)]
    BY <1>2, <1>3, <2>1, ConcatProperties
  <2>3. i - Len(a) \in 1..(Len(s) - n) /\ n + (i - Len(a)) = i + 1
    BY <1>1, <1>2, <1>7
  <2> QED  BY <1>3, <2>2, <2>3
<1> HIDE DEF c
<1>8. DOMAIN c = 1..(Len(s) - 1)
  BY <1>5
<1>9. ASSUME NEW i \in DOMAIN c
      PROVE  \E j \in DOMAIN s : c[i] = s[j]
  <2>1. CASE i \in 1..(n - 1)
    <3>1. i \in DOMAIN s
      BY <1>1, <2>1
    <3> QED  BY <2>1, <3>1, <1>6
  <2>2. CASE i \in n..(Len(s) - 1)
    <3>1. i + 1 \in DOMAIN s
      BY <1>1, <2>2
    <3> QED  BY <2>2, <3>1, <1>7
  <2>3. i \in 1..(n - 1) \/ i \in n..(Len(s) - 1)
    BY <1>1, <1>8, <1>9
  <2> QED  BY <2>1, <2>2, <2>3
<1>10. ASSUME NEW j \in DOMAIN s, j # n
       PROVE  \E i \in DOMAIN c : c[i] = s[j]
  <2>1. CASE j < n
    <3>1. j \in 1..(n - 1) /\ j \in DOMAIN c
      BY <1>1, <1>8, <2>1
    <3> QED  BY <3>1, <1>6
  <2>2. CASE j > n
    <3>1. j - 1 \in n..(Len(s) - 1) /\ j - 1 \in DOMAIN c /\ (j - 1) + 1 = j
      BY <1>1, <1>8, <2>2
    <3>2. c[j - 1] = s[j]
      BY <3>1, <1>7
    <3> QED  BY <3>1, <3>2
  <2> QED  BY <2>1, <2>2, <1>10, <1>1
<1> QED  BY <1>4, <1>5, <1>9, <1>10

\* The greatest of a bounded set of numbers: the one with the least distance to the bound.
LEMMA MaxIn ==
    ASSUME NEW n \in Nat, NEW S \in SUBSET (0..n), S # {}
    PROVE  Max(S) \in S
<1> DEFINE T == {n - i : i \in S}
<1>0. \A i \in S : i \in 0..n /\ n - i \in Nat
  OBVIOUS
<1>1. T \in SUBSET Nat /\ T # {}
  BY <1>0
<1>2. \E x \in T : \A y \in T : ~(<<y, x>> \in OpToRel(<, Nat))
  <2> HIDE DEF T
  <2> QED  BY <1>1, NatLessThanWellFounded, WFMin, Zenon
<1>3. PICK x \in T : \A y \in T : ~(y < x)
  BY <1>1, <1>2 DEF OpToRel
<1>4. PICK m \in S : x = n - m
  BY <1>3
<1>5. ASSUME NEW i \in S
      PROVE  m >= i
  <2>1. n - i \in T /\ ~(n - i < x)
    BY <1>3
  <2> HIDE DEF T
  <2> QED  BY <2>1, <1>0, <1>4
<1> QED  BY <1>5 DEF Max

LEMMA MinIn ==
    ASSUME NEW S \in SUBSET Nat, S # {}
    PROVE  Min(S) \in S
<1>1. \E x \in S : \A y \in S : ~(<<y, x>> \in OpToRel(<, Nat))
  BY NatLessThanWellFounded, WFMin, Zenon
<1>2. PICK x \in S : \A y \in S : ~(y < x)
  BY <1>1 DEF OpToRel
<1>3. \A y \in S : x <= y
  BY <1>2
<1> QED  BY <1>3 DEF Min

LEMMA OwnEfiFirst ==
    ASSUME MountsOK, OwnEfiMounts # {}
    PROVE  Min(OwnEfiMounts) \in DOMAIN efiMounts /\ ~efiMounts[Min(OwnEfiMounts)].rescue
<1>1. OwnEfiMounts \in SUBSET Nat
  BY DEF OwnEfiMounts, MountsOK
<1> QED  BY <1>1, MinIn DEF OwnEfiMounts

LEMMA StepMounts ==
    ASSUME MountsOK, [Next]_vars
    PROVE  MountsOK'
<1> USE DEF MountsOK
<1>1. vm' = vm
  BY DEF Next, Step, Start, List, Details, SkipImport, UmountBoot, RemountBoot, WhatDistro,
         MountParts, SetEnvironment, RunScripts, Umount, Cleanup, Crash, Rest, vars
<1>2. vm.efi \subseteq Disk /\ vm.own \in Disk
  BY SetupAssumption DEF Setup
<1>3. CASE MountParts
  <2>1. CASE UNCHANGED efiMounts
    BY <1>1, <2>1
  <2>2. CASE DiskPath \in vm.efi
               /\ efiMounts' = Append(efiMounts, [disk |-> DiskPath, rescue |-> TRUE])
    <3> DEFINE m == [disk |-> DiskPath, rescue |-> TRUE]
    <3>1. m \in Mount /\ m.rescue
      BY <2>2, <1>2 DEF Mount
    <3> HIDE DEF m
    <3>2. efiMounts' = Append(efiMounts, m)
      BY <2>2 DEF m
    <3> QED  BY <1>1, <3>1, <3>2
  <2> QED  BY <1>3, <2>1, <2>2 DEF MountParts
<1>4. CASE RemountBoot
  <2>1. CASE UNCHANGED efiMounts
    BY <1>1, <2>1
  <2>2. CASE efiMounts' = Append(efiMounts, [disk |-> vm.own, rescue |-> FALSE])
    <3> DEFINE m == [disk |-> vm.own, rescue |-> FALSE]
    <3>1. m \in Mount /\ m.disk = vm.own
      BY <1>2 DEF Mount
    <3> HIDE DEF m
    <3>2. efiMounts' = Append(efiMounts, m)
      BY <2>2 DEF m
    <3> QED  BY <1>1, <3>1, <3>2
  <2> QED  BY <1>4, <2>1, <2>2 DEF RemountBoot
<1>5. CASE Umount
  <2>1. efiMounts' \in {efiMounts, Front(efiMounts)}
    BY <1>5 DEF Umount
  <2> QED  BY <1>1, <2>1, LastAway
<1>6. CASE UmountBoot
  <2>1. CASE UNCHANGED efiMounts
    BY <1>1, <2>1
  <2>2. CASE efiMounts' = RemoveAt(efiMounts, Min(OwnEfiMounts))
    BY <1>1, <1>6, <2>2, OwnEfiFirst, OneAway DEF UmountBoot
  <2> QED  BY <1>6, <2>1, <2>2 DEF UmountBoot
<1>7. CASE UNCHANGED efiMounts
  BY <1>1, <1>7
<1> QED  BY <1>3, <1>4, <1>5, <1>6, <1>7
     DEF Next, Step, Start, List, Details, SkipImport, WhatDistro, SetEnvironment, RunScripts,
         Cleanup, Crash, Rest, vars

\* importvg neither leaves nor takes away a mount of another disk.
LEMMA ImportLeftover ==
    ASSUME MountsOK, UmountBoot \/ RemountBoot
    PROVE  Leftover' = Leftover
<1> USE DEF MountsOK
<1>1. CASE UNCHANGED <<vm, efiMounts>>
  BY <1>1 DEF Leftover
<1>2. CASE UmountBoot /\ efiMounts' = RemoveAt(efiMounts, Min(OwnEfiMounts))
  <2>1. ~efiMounts[Min(OwnEfiMounts)].rescue /\ Min(OwnEfiMounts) \in DOMAIN efiMounts /\ vm' = vm
    BY <1>2, OwnEfiFirst DEF UmountBoot
  <2>2. Leftover' => Leftover
    BY <1>2, <2>1, OneAway DEF Leftover
  <2>3. ASSUME NEW j \in DOMAIN efiMounts, efiMounts[j].rescue, efiMounts[j].disk # vm.own
        PROVE  Leftover'
    <3>1. \E i \in DOMAIN efiMounts' : efiMounts'[i] = efiMounts[j]
      BY <1>2, <2>1, <2>3, OneAway
    <3> QED  BY <2>1, <2>3, <3>1 DEF Leftover
  <2> QED  BY <2>2, <2>3 DEF Leftover
<1>3. CASE RemountBoot /\ efiMounts' = Append(efiMounts, [disk |-> vm.own, rescue |-> FALSE])
  <2> DEFINE m == [disk |-> vm.own, rescue |-> FALSE]
  <2>1. m \in Mount /\ ~m.rescue /\ vm' = vm
    BY <1>3, SetupAssumption DEF Mount, Setup, RemountBoot
  <2> HIDE DEF m
  <2>2. efiMounts' = Append(efiMounts, m)
    BY <1>3 DEF m
  <2>3. /\ DOMAIN efiMounts' = 1..(Len(efiMounts) + 1)
        /\ DOMAIN efiMounts = 1..Len(efiMounts)
        /\ \A i \in 1..Len(efiMounts) : efiMounts'[i] = efiMounts[i]
        /\ efiMounts'[Len(efiMounts) + 1] = m
    BY <2>1, <2>2
  <2>4. \A i \in DOMAIN efiMounts' : i \in DOMAIN efiMounts \/ i = Len(efiMounts) + 1
    BY <2>3
  <2> QED  BY <2>1, <2>3, <2>4 DEF Leftover
<1> QED  BY <1>1, <1>2, <1>3 DEF UmountBoot, RemountBoot

------------------------------------------------------------------------------
(* The answer.  Among mounts that are all of the VM's own disk "the last one"  *)
(* is it, and the disk that is left is another.                              *)

LEMMA LastOfOwn ==
    ASSUME NEW m \in Seq(Mount), NEW own, \A i \in DOMAIN m : m[i].disk = own,
           {i \in DOMAIN m : m[i].disk.bus = "nvme"} # {}
    PROVE  m[Max({i \in DOMAIN m : m[i].disk.bus = "nvme"})].disk = own /\ own.bus = "nvme"
<1> DEFINE n == {i \in DOMAIN m : m[i].disk.bus = "nvme"}
<1>1. n \in SUBSET (0..Len(m)) /\ Len(m) \in Nat /\ n # {}
  OBVIOUS
<1>2. Max(n) \in n
  <2> HIDE DEF n
  <2> QED  BY <1>1, MaxIn
<1> QED  BY <1>2

LEMMA OwnFound ==
    ASSUME MountsOK, ~Leftover, NvmeMounts # {}
    PROVE  NvmeDisk = OwnAnswer /\ vm.own.bus = "nvme"
<1>1. \A i \in DOMAIN efiMounts : efiMounts[i].disk = vm.own
  BY DEF MountsOK, Leftover
<1>2. LastMount = vm.own /\ vm.own.bus = "nvme"
  BY <1>1, LastOfOwn DEF MountsOK, LastMount, NvmeMounts
<1> QED  BY <1>2 DEF NvmeDisk, OwnAnswer

LEMMA InitSame == Init => SameAnswer /\ ListedRight
BY DEF Init, SameAnswer, ListedRight, Before

LEMMA QuitSame == Quit => SameAnswer' /\ ListedRight'
BY DEF Quit, SameAnswer, ListedRight, Before

LEMMA ListListed ==
    ASSUME MountsOK, List
    PROVE  ListedRight'
<1>1. CASE Quit
  BY <1>1, QuitSame
<1>2. CASE DiskPath # NoDisk /\ pc' = "details" /\ listed' = DiskPath
  <2>1. DiskPath' = DiskPath /\ UNCHANGED <<vm, custom>> /\ IsNvme' = IsNvme
        /\ Leftover' = Leftover /\ OwnAnswer' = OwnAnswer
    BY SameQuestion DEF List
  <2>2. custom = NoDisk /\ IsNvme /\ ~Leftover => DiskPath = OwnAnswer /\ vm.own.bus = "nvme"
    BY <1>2, OwnFound DEF DiskPath, NvmeDisk
  <2> QED  BY <1>2, <2>1, <2>2 DEF ListedRight
<1> QED  BY <1>1, <1>2 DEF List

LEMMA UmountListed ==
    ASSUME MountsOK, ListedRight, UmountBoot
    PROVE  ListedRight'
<1>1. pc = "import" /\ pc' = "remount" /\ UNCHANGED <<vm, custom, listed>>
  BY DEF UmountBoot
<1>2. Leftover' = Leftover /\ OwnAnswer' = OwnAnswer /\ IsNvme' = IsNvme
  BY <1>1, ImportLeftover, OwnAnswerKept
<1>3. custom # NoDisk \/ ~IsNvme => DiskPath' = DiskPath
  BY <1>1, MountsAside
<1> QED  BY <1>1, <1>2, <1>3 DEF ListedRight, Before

LEMMA RemountListed ==
    ASSUME MountsOK, MountsOK', ListedRight, RemountBoot
    PROVE  ListedRight'
<1>1. CASE Quit
  BY <1>1, QuitSame
<1>2. CASE pc' = "distro" /\ efiMounts' = Append(efiMounts, [disk |-> vm.own, rescue |-> FALSE])
           /\ UNCHANGED <<listed, root, env>>
  <2>1. pc = "remount" /\ UNCHANGED <<vm, custom, listed>> /\ listed \in vm.lvm
    BY <1>2 DEF RemountBoot, ListedRight
  <2>2. Leftover' = Leftover /\ OwnAnswer' = OwnAnswer /\ IsNvme' = IsNvme
    BY <2>1, ImportLeftover, OwnAnswerKept
  <2>3. custom # NoDisk \/ ~IsNvme => DiskPath' = DiskPath
    BY <2>1, MountsAside
  <2>4. ASSUME custom = NoDisk, IsNvme, ~Leftover
        PROVE  DiskPath' = listed
    <3>1. listed = OwnAnswer /\ vm.own.bus = "nvme"
      BY <2>1, <2>4 DEF ListedRight, Before
    <3> DEFINE m == [disk |-> vm.own, rescue |-> FALSE]
    <3>2. m \in Mount /\ m.disk.bus = "nvme"
      BY <3>1, SetupAssumption DEF Mount, Setup, MountsOK
    <3> HIDE DEF m
    <3>3. efiMounts' = Append(efiMounts, m)
      BY <1>2 DEF m
    <3>4. Len(efiMounts) + 1 \in NvmeMounts'
      BY <3>2, <3>3 DEF NvmeMounts, MountsOK
    <3>5. \A i \in DOMAIN efiMounts' : efiMounts'[i].disk = vm'.own
      BY <2>2, <2>4 DEF MountsOK, Leftover
    <3>6. LastMount' = vm'.own
      <4>1. efiMounts' \in Seq(Mount) /\ NvmeMounts' # {}
        BY <3>4 DEF MountsOK
      <4>2. efiMounts'[Max(NvmeMounts')].disk = vm'.own
        <5> DEFINE here == efiMounts'
                   nvme == {i \in DOMAIN here : here[i].disk.bus = "nvme"}
        <5>1. nvme = NvmeMounts' /\ here = efiMounts'
          BY DEF NvmeMounts
        <5> SUFFICES here[Max(nvme)].disk = vm'.own
          BY <5>1
        <5> HIDE DEF here
        <5>2. here \in Seq(Mount) /\ nvme # {} /\ \A i \in DOMAIN here : here[i].disk = vm'.own
          BY <5>1, <4>1, <3>5
        <5> QED  BY <5>2, LastOfOwn
      <4> QED  BY <4>2 DEF LastMount
    <3>7. NvmeDisk' = OwnAnswer'
      BY <3>4, <3>6 DEF NvmeDisk, OwnAnswer
    <3> QED  BY <2>1, <2>2, <2>4, <3>1, <3>7 DEF DiskPath
  <2> QED  BY <1>2, <2>1, <2>2, <2>3, <2>4 DEF ListedRight, Before
<1> QED  BY <1>1, <1>2 DEF RemountBoot

LEMMA StepListed ==
    ASSUME MountsOK, MountsOK', ListedRight, [Next]_vars
    PROVE  ListedRight'
<1>1. CASE Start \/ MountParts \/ SetEnvironment \/ RunScripts \/ Umount
  <2>1. pc' \in {"list", "environment", "scripts", "umount", "cleanup", "idle"}
    BY <1>1 DEF Start, MountParts, SetEnvironment, RunScripts, Umount, Quit
  <2> QED  BY <2>1 DEF ListedRight, Before
<1>2. CASE List
  BY <1>2, ListListed
<1>3. CASE UNCHANGED <<vm, custom, listed, efiMounts>> /\ pc \in Before \ {"remount"}
           /\ pc' \in Before \ {"remount"} /\ (pc' = "import" => listed \in vm.lvm)
  BY <1>3, SameQuestion DEF ListedRight
<1>4. CASE Details
  BY <1>3, <1>4, QuitSame DEF Details, Before
<1>5. CASE SkipImport
  BY <1>3, <1>5 DEF SkipImport, Before
<1>6. CASE UmountBoot
  BY <1>6, UmountListed
<1>7. CASE RemountBoot
  BY <1>7, RemountListed
<1>8. CASE WhatDistro
  BY <1>3, <1>8, QuitSame DEF WhatDistro, Before
<1>9. CASE Cleanup \/ Crash
  BY <1>9, QuitSame DEF Cleanup, Crash
<1>10. CASE Rest \/ UNCHANGED vars
  BY <1>10, SameQuestion DEF Rest, vars, ListedRight
<1> QED  BY <1>1, <1>2, <1>4, <1>5, <1>6, <1>7, <1>8, <1>9, <1>10 DEF Next, Step

LEMMA MountSame ==
    ASSUME SameAnswer, MountParts
    PROVE  SameAnswer'
<1>1. CASE Quit
  BY <1>1, QuitSame
<1>2. CASE pc' = "environment" /\ root' = DiskPath /\ UNCHANGED <<listed, env>>
  <2>1. UNCHANGED <<vm, custom>>
    BY DEF MountParts
  <2>2. ASSUME Aside'
        PROVE  DiskPath' = DiskPath
    <3>1. CASE custom # NoDisk \/ ~IsNvme
      BY <3>1, <2>1, MountsAside
    <3>2. CASE root' \notin vm.efi
      BY <3>2, <1>2, SameQuestion DEF MountParts, Quit
    <3> QED  BY <3>1, <3>2, <2>1, <2>2 DEF Aside, IsNvme
  <2> QED  BY <1>2, <2>1, <2>2 DEF SameAnswer, Before
<1> QED  BY <1>1, <1>2 DEF MountParts

LEMMA StepSame ==
    ASSUME SameAnswer, [Next]_vars
    PROVE  SameAnswer'
<1>1. CASE Start \/ List \/ Details \/ SkipImport \/ UmountBoot \/ RemountBoot \/ WhatDistro
  <2>1. Quit \/ (pc' \in Before \cup {"list"} /\ root' = root /\ pc \in Before \cup {"idle", "list"})
    BY <1>1 DEF Start, List, Details, SkipImport, UmountBoot, RemountBoot, WhatDistro, Before
  <2> QED  BY <2>1, QuitSame DEF SameAnswer, Before
<1>2. CASE MountParts
  BY <1>2, MountSame
<1>3. CASE SetEnvironment
  <2>1. Aside' => Aside \/ Quit
    BY <1>3 DEF SetEnvironment, Aside, IsNvme
  <2> QED  BY <1>3, <2>1, QuitSame DEF SetEnvironment, SameAnswer, Before
<1>4. CASE RunScripts
  BY <1>4 DEF RunScripts, SameAnswer, Before
<1>5. CASE Umount
  BY <1>5 DEF Umount, SameAnswer, Before
<1>6. CASE Cleanup \/ Crash
  BY <1>6, QuitSame DEF Cleanup, Crash
<1>7. CASE Rest \/ UNCHANGED vars
  <2>1. UNCHANGED vars
    BY <1>7 DEF Rest
  <2>2. DiskPath' = DiskPath /\ Aside' = Aside
    BY <2>1, SameQuestion DEF vars, Aside
  <2> QED  BY <2>1, <2>2 DEF vars, SameAnswer
<1> QED  BY <1>1, <1>2, <1>3, <1>4, <1>5, <1>6, <1>7 DEF Next, Step

IInv == MountsOK /\ ListedRight /\ SameAnswer

LEMMA InitInv == Init => IInv
BY InitMounts, InitSame DEF IInv

LEMMA StepInv == IInv /\ [Next]_vars => IInv'
BY StepMounts, StepListed, StepSame DEF IInv

------------------------------------------------------------------------------
\* What is mounted is the disk that was listed, through importvg's unmounting and
\* mounting of /boot/efi, kills and leftovers; but for a leftover, an NVMe controller and
\* an LVM disk together.
THEOREM OneDisk == Spec => ListedIsMounted
<1>1. IInv /\ MountParts => root' \in {NoDisk, DiskPath} /\ pc = "mount"
  BY DEF MountParts, Quit
<1>2. IInv /\ pc = "mount" /\ (custom # NoDisk \/ ~IsNvme \/ ~Leftover \/ listed \notin vm.lvm)
      => DiskPath = listed
  BY DEF IInv, ListedRight, Before
<1> DEFINE A == MountParts /\ root' # NoDisk
                    /\ (custom # NoDisk \/ ~IsNvme \/ ~Leftover \/ listed \notin vm.lvm)
                => root' = listed
<1>3. IInv => A
  BY <1>1, <1>2
<1>4. IInv => [A]_vars
  BY <1>3
<1> HIDE DEF A
<1>5. Spec => [][A]_vars
  BY <1>4, InitInv, StepInv, PTL DEF Spec
<1> QED  BY <1>5 DEF ListedIsMounted, A

\* The scripts are given the path of that disk, unless the search for the disk of an
\* NVMe controller meets the EFI partition the run has mounted itself.
THEOREM EnvironmentRight == Spec => []EnvironmentFits
<1>1. IInv => EnvironmentFits
  BY DEF IInv, SameAnswer, EnvironmentFits, Aside
<1> QED  BY <1>1, InitInv, StepInv, PTL DEF Spec

LEMMA SevenCharsExact ==
    ASSUME NEW d \in Disk, d.ns < 10
    PROVE  SevenChars(d) = d
BY DEF SevenChars, Disk

LEMMA NotOwn ==
    ASSUME MountsOK
    PROVE  OwnAnswer # vm.own
<1>1. vm \in Setup /\ vm.own \in Disk /\ vm.own.ns < 10
  BY SetupAssumption, OwnDiskAssumption DEF MountsOK, Setup
<1>2. NoDisk # vm.own
  BY <1>1 DEF NoDisk, Disk
<1>3. SevenChars(vm.own) = vm.own
  BY <1>1, SevenCharsExact
<1>4. SUFFICES ASSUME NEW left, left = RemoteDisks \ {vm.own}, Cardinality(left) = 1
               PROVE  (CHOOSE d \in left : TRUE) # vm.own
  BY <1>2, <1>3 DEF OwnAnswer
<1>5. left # {}
  BY <1>4, FS_EmptySet
<1> QED  BY <1>4, <1>5

\* A run that meets no leftover of another does not take the VM's own disk for the one to
\* repair, whatever controllers there are and in whatever order, and importvg does not
\* change its mind.
THEOREM OwnDiskLeftAlone == Spec => []OwnDiskSpared
<1>1. IInv => OwnDiskSpared
  <2> SUFFICES ASSUME MountsOK, ListedRight, pc \in Before, custom = NoDisk, ~Leftover
               PROVE  listed # vm.own /\ (pc # "remount" => DiskPath = listed)
    BY DEF OwnDiskSpared, IInv, Before
  <2>1. CASE IsNvme
    BY <2>1, NotOwn DEF ListedRight
  <2>2. CASE ~IsNvme
    <3>1. listed = vm.lun0
      BY <2>2 DEF ListedRight, DiskPath
    <3>2. vm.lun0 # vm.own
      BY OwnDiskAssumption DEF MountsOK
    <3> QED  BY <2>2, <3>1, <3>2 DEF ListedRight
  <2> QED  BY <2>1, <2>2
<1> QED  BY <1>1, InitInv, StepInv, PTL DEF Spec
==============================================================================
