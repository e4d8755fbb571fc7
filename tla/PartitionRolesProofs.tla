------------------------- MODULE PartitionRolesProofs -------------------------
(***************************************************************************)
(* For every set of partition tables and both tools an operating system is  *)
(* known when the roles are assigned; for tables with one system and one    *)
(* partition that cannot be read, /boot is mounted from the partition that  *)
(* gave the LUKS header; and every image of Azure is recognised and each of *)
(* its partitions mounted as what it is for.                                *)
(***************************************************************************)
EXTENDS PartitionRoles, WellFoundedInduction, TLAPS

\* A least element exists in every set of positions.
LEMMA FirstLeast ==
    ASSUME NEW S \in SUBSET Nat, NEW i \in S
    PROVE  First(S) \in S /\ First(S) <= i
<1>1. \E x \in S : \A y \in S : ~(<<y, x>> \in OpToRel(<, Nat))
  BY NatLessThanWellFounded, WFMin, Zenon
<1>2. PICK x \in S : \A y \in S : ~(<<y, x>> \in OpToRel(<, Nat))
  BY <1>1
<1>3. \A y \in S : ~(y < x)
  BY <1>2 DEF OpToRel
<1>4. \A y \in S : x <= y
  BY <1>3
<1> QED  BY <1>4 DEF First

LEMMA FirstIn ==
    ASSUME NEW S \in SUBSET Nat, S # {}
    PROVE  First(S) \in S
BY FirstLeast

LEMMA FirstOr0In ==
    ASSUME NEW S \in SUBSET Nat, 0 \notin S
    PROVE  /\ FirstOr0(S) # 0 => FirstOr0(S) \in S /\ FirstOr0(S) = First(S)
           /\ S # {} => FirstOr0(S) = First(S)
BY FirstIn DEF FirstOr0

------------------------------------------------------------------------------
(* What is noted of the partitions agrees with the table; nothing is taken   *)
(* for the system before the loop over the partitions ends.                 *)

PartsOK ==
    /\ table \in Seq(Row)
    /\ DOMAIN parts \subseteq DOMAIN table
    /\ \A i \in DOMAIN parts : parts[i] \in PartInfo
    /\ left \subseteq DOMAIN parts
    /\ parts = [i \in DOMAIN parts |-> parts[i]]

OsOK ==
    /\ pc \in {"probe", "unlock", "types", "adeVolumes", "volumes", "detect"} => Os = {}
    /\ pc \in {"filesystems", "assign"} => Os # {}

Positions == DOMAIN parts \in SUBSET Nat /\ 0 \notin DOMAIN parts

LEMMA PartsArePositions == PartsOK => Positions /\ left \in SUBSET Nat
BY DEF PartsOK, Positions

LEMMA HereIn == PartsOK /\ left # {} => Here \in left /\ Here \in DOMAIN parts
BY PartsArePositions, FirstIn DEF Here, PartsOK

LEMMA CryptIn == PartsOK /\ Crypt # {} => First(Crypt) \in Crypt
BY PartsArePositions, FirstIn DEF Crypt, Positions

LEMMA ProbeParts ==
    ASSUME PartsOK, Probe
    PROVE  /\ PartsOK' /\ Os' = {} /\ DOMAIN parts' = Listed
           /\ \A i \in Listed : parts'[i].fs = "crypt?" => table[i].fs = "none"
<1>1. \A i \in DOMAIN table : table[i] \in Row
  BY DEF PartsOK
<1> QED  BY <1>1 DEF PartsOK, Probe, Listed, Row, PartInfo, Os

LEMMA AsVolumes ==
    ASSUME NEW p \in PartInfo
    PROVE  LET q == [p EXCEPT !.fs = "LVM2_member", !.lvs = TRUE]
           IN  q \in PartInfo /\ q.os = p.os
BY DEF PartInfo

LEMMA StepOK ==
    ASSUME PartsOK, OsOK, [Next]_vars
    PROVE  PartsOK' /\ OsOK'
<1>1. CASE Probe
  BY <1>1, ProbeParts DEF Probe, OsOK
<1>2. CASE Unlock
  BY <1>2 DEF Unlock, Fail, PartsOK, OsOK, Os
<1>3. CASE CheckTypes
  BY <1>3 DEF CheckTypes, Fail, PartsOK, OsOK, Os
<1>4. CASE AdeVolumes
  <2>1. CASE UNCHANGED parts
    BY <2>1, <1>4 DEF AdeVolumes, PartsOK, OsOK, Os
  <2>2. CASE parts' = [parts EXCEPT ![First(Crypt)].fs = "LVM2_member",
                                    ![First(Crypt)].lvs = TRUE]
    <3> DEFINE c == First(Crypt)
    <3>1. DOMAIN parts' = DOMAIN parts
      BY <2>2
    <3>2. \A i \in DOMAIN parts : i # c => parts'[i] = parts[i]
      BY <2>2 DEF PartsOK
    <3>3. c \in DOMAIN parts =>
            parts'[c] = [parts[c] EXCEPT !.fs = "LVM2_member", !.lvs = TRUE]
      BY <2>2 DEF PartsOK
    <3>4. \A i \in DOMAIN parts : parts'[i] \in PartInfo /\ parts'[i].os = parts[i].os
      <4> TAKE i \in DOMAIN parts
      <4>1. parts[i] \in PartInfo
        BY DEF PartsOK
      <4>2. LET p == [parts[i] EXCEPT !.fs = "LVM2_member", !.lvs = TRUE]
            IN  p \in PartInfo /\ p.os = parts[i].os
        BY <4>1, AsVolumes
      <4>3. CASE i = c
        BY <4>2, <4>3, <3>3
      <4> QED  BY <4>1, <4>3, <3>2
    <3>5. parts' = [i \in DOMAIN parts' |-> parts'[i]]
      BY <2>2 DEF PartsOK
    <3> HIDE DEF c
    <3> QED  BY <3>1, <3>4, <3>5, <1>4 DEF AdeVolumes, PartsOK, OsOK, Os
  <2> QED  BY <2>1, <2>2, <1>4 DEF AdeVolumes
<1>5. CASE Volumes
  BY <1>5 DEF Volumes, PartsOK, OsOK, Os, PartInfo, Mentions
<1>6. CASE Detect
  <2>1. CASE Fail /\ UNCHANGED <<parts, left>>
    BY <2>1, <1>6 DEF Detect, Fail, PartsOK, OsOK
  <2>2. CASE left # {} /\ Skip
    BY <2>2, <1>6 DEF Detect, Skip, PartsOK, OsOK, Os
  <2>3. CASE left # {} /\ Found
    <3>1. Here \in DOMAIN parts
      BY <2>3, HereIn
    <3>2. parts'[Here].os /\ Here \in DOMAIN parts'
      BY <3>1, <2>3 DEF Found, PartsOK, PartInfo
    <3>3. Os' # {} /\ pc' = "filesystems"
      BY <3>2, <2>3 DEF Found, Os
    <3>4. PartsOK'
      BY <3>1, <2>3, <1>6 DEF Detect, Found, PartsOK, PartInfo
    <3> QED  BY <3>3, <3>4 DEF OsOK
  <2> QED  BY <2>1, <2>2, <2>3, <1>6 DEF Detect, Stop
<1>7. CASE SetFileSystems
  BY <1>7 DEF SetFileSystems, PartsOK, OsOK, Os, Crypt, PartInfo
<1>8. CASE Assign
  BY <1>8 DEF Assign, PartsOK, OsOK
<1>9. CASE Done \/ UNCHANGED vars
  BY <1>9 DEF Done, vars, PartsOK, OsOK, Os
<1> QED  BY <1>1, <1>2, <1>3, <1>4, <1>5, <1>6, <1>7, <1>8, <1>9 DEF Next

LEMMA InitOK == Init => PartsOK /\ OsOK
BY TableAssumption DEF Init, PartsOK, OsOK, Os

\* The unwrap in mount_required_partitions always finds an operating system.
THEOREM OsAlwaysKnown == Spec => []OsUnwrapSafe
<1>1. PartsOK /\ OsOK /\ [Next]_vars => PartsOK' /\ OsOK'
  BY StepOK
<1>2. OsOK => OsUnwrapSafe
  BY DEF OsOK, OsUnwrapSafe
<1> QED  BY InitOK, <1>1, <1>2, PTL DEF Spec

------------------------------------------------------------------------------
(* The partition c that is unlocked becomes the system: then the candidates  *)
(* for the header, chosen when c was the one without a file system, are the  *)
(* candidates for /boot.                                                     *)

Others(c) == {i \in DOMAIN parts : i # c /\ ~Is(parts[i], "EF00")}

Plain == OneSystem(table) /\ OneHidden(table)

Unlocked(c) ==
    /\ table[c].use = "os"
    /\ Others(c) # {} /\ header = First(Others(c))
    /\ pc \in {"types", "adeVolumes"} => Crypt = {c}
    /\ pc = "detect" => Crypt \subseteq {c}
    /\ pc \in {"filesystems", "assign", "mounted"} => Os = {c}
    /\ pc = "mounted" => roles.boot = header

HeaderOK ==
    /\ Plain
    /\ pc = "unlock" => Crypt # {} /\ \A i, j \in Crypt : i = j
    /\ pc \in {"probe", "unlock", "volumes"} => header = 0
    /\ header # 0 /\ pc # "failed" => \E c \in DOMAIN parts : Unlocked(c)

LEMMA UnlockHeader ==
    ASSUME PartsOK, OsOK, HeaderOK, Unlock
    PROVE  HeaderOK'
<1>1. PICK c \in DOMAIN parts : c = First(Crypt) /\ Crypt = {c}
  BY CryptIn DEF HeaderOK, Unlock, Crypt
<1>2. HeaderCandidates = Others(c)
  BY <1>1 DEF HeaderCandidates, Others
<1>3. CASE pc' = "failed"
  BY <1>3 DEF HeaderOK, Unlock, Plain
<1>4. CASE pc' = "types"
  <2>1. header' # 0 /\ table[c].use = "os"
    BY <1>1, <1>4 DEF Unlock, Fail
  <2>2. header' = FirstOr0(Others(c))
    BY <1>2 DEF Unlock
  <2>3. Others(c) # {} /\ header' = First(Others(c))
    BY <2>1, <2>2 DEF FirstOr0
  <2>4. UNCHANGED <<table, parts>> /\ Others(c)' = Others(c) /\ Crypt' = Crypt
    BY DEF Unlock, Others, Is, Crypt
  <2>5. Unlocked(c)'
    BY <2>1, <2>3, <2>4, <1>1, <1>4 DEF Unlocked
  <2> QED  BY <2>4, <2>5, <1>4 DEF HeaderOK, Plain
<1> QED  BY <1>3, <1>4 DEF Unlock, Fail

LEMMA FoundHeader ==
    ASSUME PartsOK, OsOK, HeaderOK, Detect, left # {}, Found, header # 0,
           HasOsRelease
    PROVE  HeaderOK'
<1>1. pc = "detect" /\ Here \in DOMAIN parts /\ Here \in DOMAIN table
  BY HereIn DEF Detect, PartsOK
<1>2. PICK c \in DOMAIN parts : Unlocked(c)
  BY <1>1 DEF HeaderOK
<1>3. Here = c
  <2>1. CASE parts[Here].fs = "crypt?"
    BY <2>1, <1>1, <1>2 DEF Unlocked, Crypt
  <2>2. CASE table[Here].use = "os"
    BY <2>2, <1>1, <1>2 DEF Unlocked, HeaderOK, Plain, OneSystem, PartsOK
  <2> QED  BY <2>1, <2>2 DEF HasOsRelease
<1>4. Os = {}
  BY <1>1 DEF OsOK
<1>5. parts' = [parts EXCEPT ![c].os = TRUE]
  BY <1>3 DEF Found
<1>6. Os' = {c}
  BY <1>4, <1>5 DEF Os, PartsOK, PartInfo
<1>7. Others(c)' = Others(c)
  BY <1>5 DEF Others, Is, PartsOK, PartInfo
<1>8. pc' = "filesystems" /\ UNCHANGED <<table, header, roles>>
  BY DEF Found, Detect
<1>9. Unlocked(c)'
  BY <1>2, <1>6, <1>7, <1>8 DEF Unlocked
<1>10. c \in DOMAIN parts'
  BY <1>5
<1> QED  BY <1>8, <1>9, <1>10 DEF HeaderOK, Plain

LEMMA AssignHeader ==
    ASSUME PartsOK, OsOK, HeaderOK, Assign
    PROVE  HeaderOK'
<1>1. CASE header = 0
  BY <1>1 DEF HeaderOK, Assign, Plain
<1>2. CASE header # 0
  <2>1. PICK c \in DOMAIN parts : Unlocked(c)
    BY <1>2 DEF HeaderOK, Assign
  <2>2. Os = {c}
    BY <2>1 DEF Unlocked, Assign
  <2>3. {i \in DOMAIN parts \ Os : ~Is(parts[i], "EF00")} = Others(c)
    BY <2>2 DEF Others
  <2>4. roles'.boot = First(Others(c))
    BY <2>1, <2>3 DEF Assign, FirstOr0, Unlocked
  <2>5. Unlocked(c)'
    BY <2>1, <2>2, <2>4 DEF Unlocked, Assign, Others, Os, Is
  <2> QED  BY <2>1, <2>5 DEF HeaderOK, Assign, Plain
<1> QED  BY <1>1, <1>2

LEMMA HeaderStep ==
    ASSUME PartsOK, OsOK, HeaderOK, [Next]_vars
    PROVE  HeaderOK'
<1>1. CASE Probe
  <2>1. DOMAIN parts' = Listed /\ \A i \in Listed : parts'[i].fs = "crypt?" => table[i].fs = "none"
    BY <1>1, ProbeParts
  <2>2. \A i \in Crypt' : i \in DOMAIN table /\ table[i].code # "EF02" /\ table[i].fs = "none"
    BY <2>1 DEF Crypt, Listed
  <2>3. \A i, j \in Crypt' : i = j
    BY <2>2 DEF HeaderOK, Plain, OneHidden
  <2> QED  BY <2>3, <1>1 DEF HeaderOK, Probe, Plain
<1>2. CASE Unlock
  BY <1>2, UnlockHeader
<1>3. CASE CheckTypes
  BY <1>3 DEF CheckTypes, Fail, HeaderOK, Plain, Unlocked, Others, Crypt, Is
<1>4. CASE AdeVolumes
  <2>1. CASE header = 0
    BY <2>1, <1>4 DEF AdeVolumes, HeaderOK, Plain
  <2>2. CASE header # 0
    <3>1. PICK c \in DOMAIN parts : Unlocked(c)
      BY <2>2, <1>4 DEF HeaderOK, AdeVolumes
    <3>2. Crypt = {c}
      BY <3>1, <1>4 DEF Unlocked, AdeVolumes
    <3>3. DOMAIN parts' = DOMAIN parts
      BY <1>4 DEF AdeVolumes
    <3>4. \A i \in DOMAIN parts : i # First(Crypt) => parts'[i] = parts[i]
      BY <1>4 DEF AdeVolumes, PartsOK
    <3>5. First(Crypt) = c
      BY <3>2, CryptIn
    <3>6. Crypt' \subseteq {c} /\ Others(c)' = Others(c)
      BY <3>2, <3>3, <3>4, <3>5 DEF Crypt, Others, Is
    <3>7. Unlocked(c)'
      BY <3>1, <3>6, <1>4 DEF Unlocked, AdeVolumes
    <3> QED  BY <3>3, <3>7, <1>4 DEF HeaderOK, AdeVolumes, Plain
  <2> QED  BY <2>1, <2>2
<1>5. CASE Volumes
  BY <1>5 DEF Volumes, HeaderOK, Plain
<1>6. CASE Detect
  <2>1. CASE pc' = "failed"
    BY <2>1, <1>6 DEF Detect, HeaderOK, Plain
  <2>2. CASE Skip
    BY <2>2, <1>6 DEF Detect, Skip, HeaderOK, Plain, Unlocked, Others, Crypt, Is
  <2>3. CASE left # {} /\ Found /\ HasOsRelease
    <3>1. CASE header # 0
      BY <3>1, <2>3, <1>6, FoundHeader
    <3>2. CASE header = 0
      BY <3>2, <2>3, <1>6 DEF Detect, Found, HeaderOK, Plain
    <3> QED  BY <3>1, <3>2
  <2> QED  BY <2>1, <2>2, <2>3, <1>6 DEF Detect, Stop, Fail, HasOsRelease
<1>7. CASE SetFileSystems
  <2>1. DOMAIN parts' = DOMAIN parts
    BY <1>7 DEF SetFileSystems
  <2>2. \A i \in DOMAIN parts : /\ parts'[i].os = parts[i].os /\ parts'[i].code = parts[i].code
                                /\ parts'[i].long = parts[i].long
    BY <1>7 DEF SetFileSystems, PartsOK, PartInfo
  <2>3. Os' = Os /\ \A c \in DOMAIN parts : Others(c)' = Others(c)
    BY <2>1, <2>2 DEF Os, Others, Is
  <2>4. \A c \in DOMAIN parts : Unlocked(c) => Unlocked(c)'
    BY <2>3, <1>7 DEF Unlocked, SetFileSystems
  <2> QED  BY <2>1, <2>4, <1>7 DEF HeaderOK, SetFileSystems, Plain
<1>8. CASE Assign
  BY <1>8, AssignHeader
<1>9. CASE Done \/ UNCHANGED vars
  BY <1>9 DEF Done, vars, HeaderOK, Plain, Unlocked, Others, Crypt, Os, Is
<1> QED  BY <1>1, <1>2, <1>3, <1>4, <1>5, <1>6, <1>7, <1>8, <1>9 DEF Next

LEMMA TableStays == [Next]_vars => table' = table /\ tool' = tool
BY DEF Next, vars, Probe, Unlock, CheckTypes, AdeVolumes, Volumes, Detect, SetFileSystems,
       Assign, Done

\* What gives the LUKS header is mounted as /boot, on every disk with one system
\* and at most one partition that cannot be read, whatever the types and orders.
THEOREM HeaderMountedAsBoot == Spec => []HeaderIsBoot
<1> DEFINE Inv == PartsOK /\ OsOK /\ (Plain => HeaderOK)
<1>1. Init => Inv
  BY InitOK DEF Init, HeaderOK
<1>2. Inv /\ [Next]_vars => Inv'
  <2> SUFFICES ASSUME Inv, [Next]_vars  PROVE Inv'
    OBVIOUS
  <2>1. Plain' => Plain
    BY TableStays DEF Plain
  <2> QED  BY <2>1, StepOK, HeaderStep
<1>3. Inv => HeaderIsBoot
  BY DEF HeaderOK, HeaderIsBoot, Unlocked, Plain
<1> HIDE DEF Inv
<1> QED  BY <1>1, <1>2, <1>3, PTL DEF Spec
------------------------------------------------------------------------------
(* On an image of Azure the system is found where it is, and nothing on the   *)
(* way makes the run give up.                                                *)

\* What only comes behind members of a set does not change its first one.
LEMMA FirstBefore ==
    ASSUME NEW S \in SUBSET Nat, NEW T \in SUBSET Nat, S \subseteq T,
           \A t \in T \ S : \E s \in S : s < t
    PROVE  FirstOr0(T) = FirstOr0(S)
<1>1. CASE S = {}
  <2>1. T = {}
    BY <1>1
  <2> QED  BY <1>1, <2>1 DEF FirstOr0
<1>2. CASE S # {}
  <2>1. First(S) \in S /\ First(T) \in T
    BY <1>2, FirstIn
  <2>2. First(T) \in S
    <3>1. SUFFICES ASSUME First(T) \notin S PROVE FALSE
      OBVIOUS
    <3>2. PICK s \in S : s < First(T)
      BY <2>1, <3>1
    <3>3. First(T) <= s
      BY FirstLeast
    <3>4. s \in Nat /\ First(T) \in Nat
      BY <2>1
    <3> QED  BY <3>2, <3>3, <3>4
  <2>3. First(S) <= First(T) /\ First(T) <= First(S)
    BY <2>1, <2>2, FirstLeast
  <2>4. First(S) \in Nat /\ First(T) \in Nat
    BY <2>1
  <2>5. First(S) = First(T)
    BY <2>3, <2>4
  <2> QED  BY <1>2, <2>5 DEF FirstOr0
<1> QED  BY <1>1, <1>2

LEMMA FirstOfOne ==
    ASSUME NEW i \in Nat
    PROVE  First({i}) = i /\ FirstOr0({i}) = i
BY FirstIn DEF FirstOr0

UsedAs(use) == {i \in DOMAIN table : table[i].use = use}
Shown       == {i \in DOMAIN table : table[i].use # "bios"}
Lvm(o)      == table[o].fs = "LVM2_member" \/ (table[o].fs = "none" /\ table[o].code = "8E00")

\* What is noted agrees with the table; only the system may be encrypted or a volume.
Agrees(o) ==
    /\ pc # "probe" => DOMAIN parts = Shown
    /\ \A i \in DOMAIN parts :
          /\ parts[i].code = table[i].code /\ ~parts[i].long
          /\ i # o => parts[i].fs \notin {"crypt?", "LVM2_member"}
SystemNoted(o) ==
    /\ pc \in {"unlock", "types", "adeVolumes"} => parts[o].fs = "crypt?" /\ ~parts[o].lvs
                                                   /\ table[o].fs = "none"
    /\ pc = "volumes" => parts[o].fs = table[o].fs /\ table[o].fs # "none"
    /\ pc \in {"unlock", "types", "adeVolumes", "volumes", "detect"} => o \in left
    /\ pc \in {"detect", "filesystems", "assign"} =>
           /\ parts[o].lvs <=> Lvm(o)
           /\ parts[o].fs = "LVM2_member" => parts[o].code = "8E00"
    /\ pc \in {"filesystems", "assign"} => Os = {o}
Rightly == roles = [os |-> With("os"), efi |-> With("efi"), boot |-> With("boot"), volumes |-> OsIsLvm]

ImageOK(o) == /\ Agrees(o) /\ SystemNoted(o)
              /\ pc \in {"probe", "unlock", "types", "adeVolumes", "volumes", "detect",
                         "filesystems", "assign", "mounted"}
              /\ pc = "mounted" => Rightly
ImageInv == OnImage => \A o \in UsedAs("os") : ImageOK(o)

\* An image, its system, and what is known before a step.
OfImage(o) == AzureImage(table) /\ tool = "sgdisk" /\ o \in UsedAs("os") /\ PartsOK /\ OsOK /\ ImageOK(o)

LEMMA SystemIs ==
    ASSUME NEW o, OfImage(o)
    PROVE  /\ o \in Shown /\ UsedAs("os") = {o} /\ o \in Nat
           /\ table[o].code \notin {"EF00", "EF02"}
           /\ \A i \in Shown \ {o} : /\ table[i].use \in {"efi", "boot", "data"}
                                     /\ table[i].fs \in {"vfat", "ext4", "xfs"}
           /\ \A i \in DOMAIN table : table[i] \in Row
BY DEF OfImage, UsedAs, Shown, AzureImage, OneSystem, PartsOK

\* The first partition that is neither the system nor the EFI partition is /boot.
LEMMA BootIsFirst ==
    ASSUME NEW o, OfImage(o), pc # "probe",
           NEW T, T = {i \in DOMAIN parts : i # o /\ ~Is(parts[i], "EF00")}
    PROVE  FirstOr0(T) = FirstOr0(UsedAs("boot"))
<1>1. DOMAIN table \subseteq Nat
  BY DEF OfImage, PartsOK
<1>2. T \subseteq Nat /\ UsedAs("boot") \subseteq Nat
  BY <1>1 DEF OfImage, PartsOK, UsedAs
<1>3. \A i \in DOMAIN parts : parts[i].code = table[i].code /\ ~parts[i].long
  BY DEF OfImage, ImageOK, Agrees
<1>4. DOMAIN parts = Shown
  BY DEF OfImage, ImageOK, Agrees
<1>5. \A i \in DOMAIN table : table[i].use = "efi" <=> table[i].code = "EF00"
  BY DEF OfImage, AzureImage
<1>6. T = {i \in DOMAIN table : table[i].use \in {"boot", "data"}}
  <2>1. \A i \in T : i \in DOMAIN table /\ table[i].use \in {"boot", "data"}
    BY <1>3, <1>4, <1>5, SystemIs DEF Is, Shown
  <2>2. \A i \in DOMAIN table : table[i].use \in {"boot", "data"} => i \in T
    BY <1>3, <1>4, <1>5, SystemIs DEF Is, Shown, UsedAs
  <2> QED  BY <2>1, <2>2
<1>7. \A t \in T \ UsedAs("boot") : \E s \in UsedAs("boot") : s < t
  <2> TAKE t \in T \ UsedAs("boot")
  <2>1. t \in DOMAIN table /\ table[t].use = "data"
    BY <1>6 DEF UsedAs
  <2>2. PICK j \in 1..(t - 1) : table[j].use = "boot"
    BY <2>1 DEF OfImage, AzureImage
  <2>3. j \in DOMAIN table /\ j < t
    BY <2>1, <2>2 DEF OfImage, PartsOK
  <2> QED  BY <2>2, <2>3 DEF UsedAs
<1>8. UsedAs("boot") \subseteq T
  BY <1>6 DEF UsedAs
<1> QED  BY <1>2, <1>7, <1>8, FirstBefore

LEMMA ProbeImage ==
    ASSUME NEW o, OfImage(o), Probe
    PROVE  ImageOK(o)'
<1>1. \A i \in DOMAIN table :
         /\ table[i].use = "bios" <=> table[i].code = "EF02"
         /\ table[i].use # "bios" => FirstDigit(table[i].num) \in 1..6
         /\ i + 6 > Len(table)
  BY DEF OfImage, AzureImage, PartsOK
<1>2. Listed = Shown
  BY <1>1 DEF Listed, Shown, OfImage
<1>3. parts' = [i \in Shown |->
                   [code |-> table[i].code, long |-> FALSE,
                    fs |-> IF table[i].fs = "none" THEN "crypt?" ELSE table[i].fs,
                    os |-> FALSE, lvs |-> FALSE]]
  BY <1>2 DEF Probe, OfImage
<1>4. \A i \in Shown \ {o} : parts'[i].fs \notin {"crypt?", "LVM2_member"}
  BY <1>3, SystemIs
<1>5. Agrees(o)'
  BY <1>3, <1>4 DEF Agrees, Shown, Probe
<1>6. parts'[o].fs = IF table[o].fs = "none" THEN "crypt?" ELSE table[o].fs
  BY <1>3, SystemIs
<1>7. table[o].fs # "crypt?"
  BY SystemIs DEF Row, Shown
<1>8. IF table[o].fs = "none" THEN o \in Crypt' ELSE Crypt' = {}
  BY <1>3, <1>4, <1>6, <1>7, SystemIs DEF Crypt
<1>9. pc' = IF table[o].fs = "none" THEN "unlock" ELSE "volumes"
  BY <1>8 DEF Probe
<1>10. o \in left' /\ ~parts'[o].lvs
  BY <1>2, <1>3, SystemIs DEF Probe
<1> QED  BY <1>5, <1>6, <1>9, <1>10 DEF ImageOK, SystemNoted, Probe

LEMMA UnlockImage ==
    ASSUME NEW o, OfImage(o), Unlock
    PROVE  ImageOK(o)'
<1>1. /\ DOMAIN parts = Shown /\ parts[o].fs = "crypt?" /\ table[o].fs = "none"
      /\ \A i \in DOMAIN parts : i # o => parts[i].fs # "crypt?"
  BY DEF OfImage, ImageOK, Agrees, SystemNoted, Unlock
<1>2. Crypt = {o} /\ First(Crypt) = o /\ table[o].use = "os"
  BY <1>1, SystemIs, FirstOfOne DEF Crypt, UsedAs, OfImage
<1>3. HeaderCandidates = {i \in DOMAIN parts : i # o /\ ~Is(parts[i], "EF00")}
  BY <1>2 DEF HeaderCandidates
<1>4. header' = FirstOr0(UsedAs("boot"))
  BY <1>3, BootIsFirst DEF Unlock
<1>5. UsedAs("boot") # {}
  BY <1>1 DEF OfImage, AzureImage, SystemFits, UsedAs
<1>6. UsedAs("boot") \in SUBSET Nat /\ 0 \notin UsedAs("boot")
  BY DEF UsedAs, OfImage, PartsOK
<1>7. header' \in UsedAs("boot") /\ header' # 0
  BY <1>4, <1>5, <1>6, FirstIn DEF FirstOr0
<1>8. pc' = "types" /\ UNCHANGED <<table, parts, left, roles>>
  BY <1>2, <1>7 DEF Unlock, UsedAs
<1> QED  BY <1>1, <1>8 DEF OfImage, ImageOK, Agrees, SystemNoted, Shown, Unlock

LEMMA CryptedImage ==
    ASSUME NEW o, OfImage(o), CheckTypes \/ AdeVolumes
    PROVE  ImageOK(o)'
<1>1. /\ DOMAIN parts = Shown /\ parts[o].fs = "crypt?" /\ table[o].fs = "none"
      /\ \A i \in DOMAIN parts : /\ i # o => parts[i].fs \notin {"crypt?", "LVM2_member"}
                                 /\ parts[i].code = table[i].code /\ ~parts[i].long
  BY DEF OfImage, ImageOK, Agrees, SystemNoted, CheckTypes, AdeVolumes
<1>2. o \in DOMAIN parts /\ Crypt = {o} /\ First(Crypt) = o
  BY <1>1, SystemIs, FirstOfOne DEF Crypt
<1>3. table[o].code \in {"8300", "8E00"}
  BY <1>1 DEF OfImage, AzureImage, SystemFits, UsedAs
<1>4. CASE CheckTypes
  <2>1. pc' = "adeVolumes" /\ UNCHANGED <<table, parts, left, roles>>
    BY <1>1, <1>2, <1>3, <1>4 DEF CheckTypes, Is
  <2>2. pc = "types"
    BY <1>4 DEF CheckTypes
  <2> QED  BY <1>1, <2>1, <2>2 DEF OfImage, ImageOK, Agrees, SystemNoted, Shown
<1>5. CASE AdeVolumes
  <2>1. pc' = "detect" /\ UNCHANGED <<table, left, roles>>
    BY <1>5 DEF AdeVolumes
  <2>2. table[o].code # "8E00" => parts' = parts
    BY <1>1, <1>2, <1>5 DEF AdeVolumes, Mentions
  <2>3. table[o].code = "8E00" =>
            parts' = [parts EXCEPT ![o].fs = "LVM2_member", ![o].lvs = TRUE]
    BY <1>1, <1>2, <1>5 DEF AdeVolumes, Mentions
  <2>4. parts \in [DOMAIN parts -> PartInfo] /\ o \in left
    BY <1>5 DEF OfImage, PartsOK, AdeVolumes, ImageOK, SystemNoted
  <2>5. DOMAIN parts' = Shown
    BY <1>1, <2>2, <2>3
  <2>6. \A i \in DOMAIN parts :
            /\ i # o => parts'[i] = parts[i]
            /\ parts'[i].code = parts[i].code /\ parts'[i].long = parts[i].long
    BY <2>2, <2>3, <2>4 DEF PartInfo
  <2>7. CASE table[o].code = "8E00"
    <3>1. parts'[o].fs = "LVM2_member" /\ parts'[o].lvs
      BY <2>3, <2>4, <2>7, <1>2 DEF PartInfo
    <3> QED  BY <1>1, <1>2, <2>1, <2>4, <2>5, <2>6, <2>7, <3>1
             DEF ImageOK, Agrees, SystemNoted, Shown, Lvm
  <2>8. CASE table[o].code # "8E00"
    <3>1. ~parts[o].lvs
      BY <1>5 DEF OfImage, ImageOK, SystemNoted, AdeVolumes
    <3> QED  BY <1>1, <1>2, <2>1, <2>2, <2>4, <2>8, <3>1
             DEF ImageOK, Agrees, SystemNoted, Shown, Lvm
  <2> QED  BY <2>7, <2>8
<1> QED  BY <1>4, <1>5

LEMMA VolumesImage ==
    ASSUME NEW o, OfImage(o), Volumes
    PROVE  ImageOK(o)'
<1>1. /\ DOMAIN parts = Shown /\ o \in Shown /\ o \in left
      /\ parts[o].fs = table[o].fs /\ table[o].fs # "none"
      /\ \A i \in DOMAIN parts : /\ i # o => parts[i].fs \notin {"crypt?", "LVM2_member"}
                                 /\ parts[i].code = table[i].code /\ ~parts[i].long
                                 /\ parts[i] \in PartInfo
  BY SystemIs DEF OfImage, ImageOK, Agrees, SystemNoted, Volumes, PartsOK
<1>2. DOMAIN parts' = DOMAIN parts
  BY DEF Volumes
<1>3. \A i \in DOMAIN parts :
         /\ parts'[i].fs = parts[i].fs /\ parts'[i].code = parts[i].code
         /\ parts'[i].long = parts[i].long /\ (parts'[i].lvs <=> parts[i].code = "8E00")
  BY <1>1 DEF Volumes, Mentions, PartInfo
<1>4. table[o].fs = "LVM2_member" <=> table[o].code = "8E00"
  BY <1>1 DEF OfImage, AzureImage, SystemFits, UsedAs
<1>5. pc' = "detect" /\ UNCHANGED <<table, left, roles>>
  BY DEF Volumes
<1> QED  BY <1>1, <1>2, <1>3, <1>4, <1>5 DEF ImageOK, Agrees, SystemNoted, Shown, Lvm

LEMMA DetectImage ==
    ASSUME NEW o, OfImage(o), Detect
    PROVE  ImageOK(o)'
<1>1. /\ pc = "detect" /\ DOMAIN parts = Shown /\ o \in left /\ Os = {}
      /\ parts[o].lvs <=> Lvm(o)
      /\ parts[o].fs = "LVM2_member" => parts[o].code = "8E00"
      /\ \A i \in DOMAIN parts : /\ i # o => parts[i].fs \notin {"crypt?", "LVM2_member"}
                                 /\ parts[i].code = table[i].code /\ ~parts[i].long
  BY DEF OfImage, ImageOK, Agrees, SystemNoted, Detect, OsOK
<1>2. Here \in left /\ Here \in DOMAIN parts
  BY <1>1, HereIn DEF OfImage
<1>3. CASE Here # o
  <2>1. table[Here].use # "os"
    BY <1>1, <1>2, <1>3, SystemIs DEF UsedAs, Shown
  <2>2. ~HasOsRelease /\ parts[Here].fs # "LVM2_member"
    BY <1>1, <1>2, <1>3, <2>1 DEF HasOsRelease
  <2>3. Skip /\ UNCHANGED <<table, roles>>
    BY <1>1, <2>2 DEF Detect
  <2> QED  BY <1>1, <1>3, <2>3 DEF Skip, ImageOK, Agrees, SystemNoted, Shown, Lvm
<1>4. CASE Here = o
  <2>1. HasOsRelease /\ table[o].use = "os"
    BY <1>4, SystemIs DEF HasOsRelease, UsedAs
  <2>2. ~Mentions(parts[Here], "EF00")
    BY <1>1, <1>2, <1>4, SystemIs DEF Mentions
  <2>3. parts[Here].fs = "LVM2_member" => Mentions(parts[Here], "8E00")
    BY <1>1, <1>4 DEF Mentions
  <2>4. Found /\ UNCHANGED <<table, roles>>
    BY <1>1, <1>4, <2>1, <2>2, <2>3 DEF Detect
  <2>5. parts' = [parts EXCEPT ![o].os = TRUE] /\ pc' = "filesystems"
    BY <2>4, <1>4 DEF Found
  <2>6. parts \in [DOMAIN parts -> PartInfo]
    BY DEF OfImage, PartsOK
  <2>7. /\ DOMAIN parts' = Shown
        /\ \A i \in DOMAIN parts :
              /\ parts'[i].fs = parts[i].fs /\ parts'[i].code = parts[i].code
              /\ parts'[i].long = parts[i].long /\ parts'[i].lvs = parts[i].lvs
              /\ parts'[i].os = (parts[i].os \/ i = o)
    BY <1>1, <2>5, <2>6 DEF PartInfo
  <2>8. Os' = {o}
    BY <1>1, <1>2, <1>4, <2>7 DEF Os
  <2> QED  BY <1>1, <1>2, <1>4, <2>4, <2>5, <2>7, <2>8 DEF ImageOK, Agrees, SystemNoted, Shown, Lvm
<1> QED  BY <1>3, <1>4

LEMMA FileSystemsImage ==
    ASSUME NEW o, OfImage(o), SetFileSystems
    PROVE  ImageOK(o)'
<1>1. /\ DOMAIN parts = Shown /\ Os = {o} /\ o \in DOMAIN parts
      /\ parts[o].lvs <=> Lvm(o)
      /\ parts[o].fs = "LVM2_member" => parts[o].code = "8E00"
      /\ \A i \in DOMAIN parts : /\ i # o => parts[i].fs \notin {"crypt?", "LVM2_member"}
                                 /\ parts[i].code = table[i].code /\ ~parts[i].long
                                 /\ parts[i] \in PartInfo
  BY SystemIs DEF OfImage, ImageOK, Agrees, SystemNoted, SetFileSystems, PartsOK
<1>2. DOMAIN parts' = DOMAIN parts
  BY DEF SetFileSystems
<1>3. \A i \in DOMAIN parts :
         /\ parts'[i].fs = IF parts[i].fs = "crypt?" THEN "xfs" ELSE parts[i].fs
         /\ parts'[i].code = parts[i].code /\ parts'[i].long = parts[i].long
         /\ parts'[i].lvs = parts[i].lvs /\ parts'[i].os = parts[i].os
  BY <1>1 DEF SetFileSystems, Crypt, PartInfo
<1>4. Os' = Os
  BY <1>2, <1>3 DEF Os
<1>5. pc' = "assign" /\ UNCHANGED <<table, left, roles>>
  BY DEF SetFileSystems
<1> QED  BY <1>1, <1>2, <1>3, <1>4, <1>5 DEF ImageOK, Agrees, SystemNoted, Shown, Lvm

LEMMA AssignImage ==
    ASSUME NEW o, OfImage(o), Assign
    PROVE  ImageOK(o)'
<1>1. /\ pc = "assign" /\ DOMAIN parts = Shown /\ Os = {o}
      /\ parts[o].lvs <=> Lvm(o)
      /\ \A i \in DOMAIN parts : parts[i].code = table[i].code /\ ~parts[i].long
  BY DEF OfImage, ImageOK, Agrees, SystemNoted, Assign
<1>2. First(Os) = o /\ With("os") = o
  BY <1>1, SystemIs, FirstOfOne DEF With, UsedAs
<1>3. {i \in DOMAIN parts : Is(parts[i], "EF00")} = {i \in DOMAIN table : table[i].use = "efi"}
  BY <1>1 DEF Is, Shown, OfImage, AzureImage
<1>4. {i \in DOMAIN parts \ Os : ~Is(parts[i], "EF00")}
        = {i \in DOMAIN parts : i # o /\ ~Is(parts[i], "EF00")}
  BY <1>1
<1>5. FirstOr0({i \in DOMAIN parts \ Os : ~Is(parts[i], "EF00")}) = With("boot")
  BY <1>1, <1>4, BootIsFirst DEF With, UsedAs
<1>6. parts[o].lvs \in BOOLEAN /\ o \in DOMAIN parts
  BY <1>1, SystemIs DEF OfImage, PartsOK, PartInfo
<1>7. parts[o].lvs = OsIsLvm
  BY <1>1, <1>2, <1>6 DEF OsIsLvm, Lvm
<1>8. roles' = [os |-> With("os"), efi |-> With("efi"), boot |-> With("boot"), volumes |-> OsIsLvm]
  BY <1>2, <1>3, <1>5, <1>7 DEF Assign, With
<1>9. pc' = "mounted" /\ UNCHANGED <<table, parts, left>>
  BY DEF Assign
<1>10. Rightly'
  BY <1>8, <1>9 DEF Rightly, With, OsIsLvm
<1>11. Agrees(o)'
  BY <1>9, <1>1 DEF Agrees, Shown, OfImage, ImageOK
<1> QED  BY <1>9, <1>10, <1>11 DEF ImageOK, SystemNoted

LEMMA ImageStep ==
    ASSUME NEW o, OfImage(o), [Next]_vars
    PROVE  ImageOK(o)'
<1>1. CASE Done \/ UNCHANGED vars
  BY <1>1 DEF Done, vars, OfImage, ImageOK, Agrees, SystemNoted, Shown, Lvm, Os, Rightly, With,
         OsIsLvm
<1> QED  BY <1>1, ProbeImage, UnlockImage, CryptedImage, VolumesImage, DetectImage,
            FileSystemsImage, AssignImage DEF Next

LEMMA InitImage == Init => ImageInv
BY DEF Init, ImageInv, ImageOK, Agrees, SystemNoted

LEMMA ImageKept ==
    ASSUME PartsOK, OsOK, ImageInv, [Next]_vars
    PROVE  ImageInv'
<1> SUFFICES ASSUME OnImage', NEW o \in UsedAs("os")'  PROVE ImageOK(o)'
  BY DEF ImageInv
<1>1. OnImage /\ o \in UsedAs("os")
  BY TableStays DEF OnImage, UsedAs
<1>2. OfImage(o)
  BY <1>1, ImageAssumption DEF OfImage, OnImage, ImageInv
<1> QED  BY <1>2, ImageStep

LEMMA AlwaysImage == Spec => [](PartsOK /\ OsOK /\ ImageInv)
<1>1. PartsOK /\ OsOK /\ ImageInv /\ [Next]_vars => PartsOK' /\ OsOK' /\ ImageInv'
  BY StepOK, ImageKept
<1> QED  BY InitOK, InitImage, <1>1, PTL DEF Spec

LEMMA ImageHasSystem == OnImage => \E o : o \in UsedAs("os")
BY ImageAssumption DEF OnImage, AzureImage, UsedAs

\* On every image of Azure each partition is mounted as what it is for, the root as a
\* logical volume just if it is one.
THEOREM RolesAreRight == Spec => []RolesRight
<1>1. ImageInv => RolesRight
  BY ImageHasSystem DEF ImageInv, ImageOK, RolesRight, Rightly
<1> QED  BY AlwaysImage, <1>1, PTL

\* No step of the detection gives up on an image of Azure.
THEOREM ImagesRecognised == Spec => []Recognised
<1>1. ImageInv => Recognised
  BY ImageHasSystem DEF ImageInv, ImageOK, Recognised
<1> QED  BY AlwaysImage, <1>1, PTL
==============================================================================
