---------------------------- MODULE PartitionRoles ----------------------------
(***************************************************************************)
(* From the partition table of the disk to the roles its partitions play:   *)
(* which is encrypted and which has the LUKS header, which has the          *)
(* operating system, which are mounted as /boot and /boot/efi.  The types   *)
(* are read from sgdisk ("EF00") or, where that is missing, from partx      *)
(* ("EFI System Partition 0xEF00"); some places of the code compare them    *)
(* with ==, others with contains.                                          *)
(***************************************************************************)
EXTENDS Naturals, Sequences

CONSTANTS
    Tables,   \* partition tables, each a sequence of Row
    Images,   \* those of them that Azure images have
    Tools     \* the tool the recovery VM has

\* num: partition number; fs: file system that can be read from it, "none" for
\* an encrypted, swap or unformatted one; use: what the disk's owner has it for.
Codes == {"EF00", "EF02", "8300", "8304", "8E00", "8200", "0700"}
Row   == [num : Nat \ {0}, code : Codes,
          fs  : {"vfat", "ext4", "xfs", "LVM2_member", "none"},
          use : {"bios", "efi", "boot", "os", "data", "swap", "blank"}]

ASSUME TableAssumption == Tables \subseteq Seq(Row) /\ Images \subseteq Tables
ASSUME ToolAssumption  == Tools \subseteq {"sgdisk", "partx"}

\* Positions in the table name the partitions; 0 is none.
VARIABLES
    table, tool,
    pc,        \* next step; "failed" for an exit or a panic
    parts,     \* what is noted of each listed partition, see PartInfo
    header,    \* the partition the LUKS header is read from
    left,      \* partitions not yet looked into
    roles      \* the partitions mounted, and whether the root is a logical volume
vars == <<table, tool, pc, parts, header, left, roles>>

PartInfo == [code : Codes, long : BOOLEAN,
             fs   : {"vfat", "ext4", "xfs", "LVM2_member", "crypt?"},
             os   : BOOLEAN, lvs : BOOLEAN]

\* part_type == c, and part_type.contains(c).
Is(p, c)       == ~p.long /\ p.code = c
Mentions(p, c) == p.code = c

Crypt     == {i \in DOMAIN parts : parts[i].fs = "crypt?"}
First(S)  == CHOOSE i \in S : \A j \in S : i <= j
FirstOr0(S) == IF S = {} THEN 0 ELSE First(S)
Fail      == pc' = "failed"

\* Tables with one operating system, and with one partition that cannot be read.
OneSystem(t) == \A i, j \in DOMAIN t : t[i].use = "os" /\ t[j].use = "os" => i = j
OneHidden(t) ==
    \A i, j \in DOMAIN t :
        /\ t[i].fs = "none" /\ t[i].code # "EF02"
        /\ t[j].fs = "none" /\ t[j].code # "EF02"
        => i = j

------------------------------------------------------------------------------
Init ==
    /\ table \in Tables /\ tool \in Tools
    /\ pc = "probe" /\ parts = <<>> /\ header = 0 /\ left = {}
    /\ roles = [os |-> 0, efi |-> 0, boot |-> 0, volumes |-> FALSE]

\* sgdisk -p | tail -n6 | grep "^ *[1,2,3,4,5,6]" | grep -v EF02: the last six
\* rows, if the number begins with one of these digits.  partx: all rows.
FirstDigit(n) == IF n < 10 THEN n ELSE n \div 10
Listed ==
    {i \in DOMAIN table :
        /\ table[i].code # "EF02"
        /\ tool = "sgdisk" => /\ i + 6 > Len(table)
                              /\ FirstDigit(table[i].num) \in 1..6}

\* get_partition_details.
Probe ==
    /\ pc = "probe"
    /\ parts' = [i \in Listed |->
                   [code |-> table[i].code, long |-> tool = "partx",
                    fs |-> IF table[i].fs = "none" THEN "crypt?" ELSE table[i].fs,
                    os |-> FALSE, lvs |-> FALSE]]
    /\ left' = Listed
    /\ pc' = IF Crypt' # {} THEN "unlock" ELSE "volumes"
    /\ UNCHANGED <<table, tool, header, roles>>

\* Mutant: the EFI partition is not left out.
HeaderCandidatesAll == DOMAIN parts \ Crypt

\* find_boot_partition_number.
HeaderCandidates == {i \in DOMAIN parts \ Crypt : ~Is(parts[i], "EF00")}

\* enable_encrypted_partition: the first partition without a file system is
\* opened with the header that is on the first one which has one; without any
\* the unwrap panics.
Unlock ==
    /\ pc = "unlock"
    /\ header' = FirstOr0(HeaderCandidates)
    /\ IF header' # 0 /\ table[First(Crypt)].use = "os" /\ table[header'].use = "boot"
       THEN pc' = "types" ELSE Fail
    /\ UNCHANGED <<table, tool, parts, left, roles>>

\* enable_ade: import the group of an 8E00, nothing for an 8300, exit otherwise.
CheckTypes ==
    /\ pc = "types"
    /\ IF \A i \in Crypt : Is(parts[i], "8E00") \/ Is(parts[i], "8300")
       THEN pc' = "adeVolumes" ELSE Fail
    /\ UNCHANGED <<table, tool, parts, header, left, roles>>

\* ade_prepare_lv.
AdeVolumes ==
    /\ pc = "adeVolumes"
    /\ parts' = IF Mentions(parts[First(Crypt)], "8E00")
                THEN [parts EXCEPT ![First(Crypt)].fs = "LVM2_member",
                                   ![First(Crypt)].lvs = TRUE]
                ELSE parts
    /\ pc' = "detect"
    /\ UNCHANGED <<table, tool, header, left, roles>>

\* build_logical_volume_details.
Volumes ==
    /\ pc = "volumes"
    /\ parts' = [i \in DOMAIN parts |->
                   [parts[i] EXCEPT !.lvs = Mentions(parts[i], "8E00")]]
    /\ pc' = "detect"
    /\ UNCHANGED <<table, tool, header, left, roles>>

------------------------------------------------------------------------------
(* what_distro_name_version, for the next partition. *)

Here == First(left)
Skip == left' = left \ {Here} /\ UNCHANGED <<pc, parts>>
Found == parts' = [parts EXCEPT ![Here].os = TRUE] /\ pc' = "filesystems" /\ UNCHANGED left
Stop == Fail /\ UNCHANGED <<parts, left>>

\* Behind /dev/mapper/rescueencrypt is the system, whatever partition is looked at.
HasOsRelease == parts[Here].fs = "crypt?" \/ table[Here].use = "os"

\* Mutant: when no partition is left the roles are assigned all the same.
DetectOnward ==
    /\ pc = "detect"
    /\ IF left = {} THEN pc' = "filesystems" /\ UNCHANGED <<parts, left>>
       ELSE IF ~Mentions(parts[Here], "EF00") /\ HasOsRelease THEN Found ELSE Skip
    /\ UNCHANGED <<table, tool, header, roles>>

Detect ==
    /\ pc = "detect"
    /\ \/ left = {} /\ Stop
       \/ left # {} /\ Mentions(parts[Here], "EF00") /\ Skip
       \/ /\ left # {} /\ ~Mentions(parts[Here], "EF00")
          /\ CASE parts[Here].fs # "LVM2_member" ->
                    IF HasOsRelease THEN Found ELSE Skip
               [] parts[Here].fs = "LVM2_member" /\ Mentions(parts[Here], "8E00") ->
                    IF table[Here].use = "os" THEN Found ELSE Stop
               [] OTHER -> Stop                          \* cannot be mounted
    /\ UNCHANGED <<table, tool, header, roles>>

\* ade_set_no_lvm_partiton_fs.
SetFileSystems ==
    /\ pc = "filesystems"
    /\ parts' = [i \in DOMAIN parts |->
                   IF i \in Crypt THEN [parts[i] EXCEPT !.fs = "xfs"] ELSE parts[i]]
    /\ pc' = "assign"
    /\ UNCHANGED <<table, tool, header, left, roles>>

Os == {i \in DOMAIN parts : parts[i].os}

\* Mutant: the EFI partition may be /boot as well.
AssignBootAny ==
    /\ pc = "assign"
    /\ roles' = [os   |-> First(Os),
                 efi  |-> FirstOr0({i \in DOMAIN parts : Is(parts[i], "EF00")}),
                 boot |-> FirstOr0(DOMAIN parts \ Os),
                 volumes |-> parts[First(Os)].lvs]
    /\ pc' = "mounted"
    /\ UNCHANGED <<table, tool, parts, header, left>>

\* Mutant: the partition with the system may be /boot as well.
AssignBootOs ==
    /\ pc = "assign"
    /\ roles' = [os   |-> First(Os),
                 efi  |-> FirstOr0({i \in DOMAIN parts : Is(parts[i], "EF00")}),
                 boot |-> FirstOr0({i \in DOMAIN parts : ~Is(parts[i], "EF00")}),
                 volumes |-> parts[First(Os)].lvs]
    /\ pc' = "mounted"
    /\ UNCHANGED <<table, tool, parts, header, left>>

\* mount_required_partitions.
Assign ==
    /\ pc = "assign"
    /\ roles' = [os   |-> First(Os),
                 efi  |-> FirstOr0({i \in DOMAIN parts : Is(parts[i], "EF00")}),
                 boot |-> FirstOr0({i \in DOMAIN parts \ Os : ~Is(parts[i], "EF00")}),
                 volumes |-> parts[First(Os)].lvs]
    /\ pc' = "mounted"
    /\ UNCHANGED <<table, tool, parts, header, left>>

Done == pc \in {"mounted", "failed"} /\ UNCHANGED vars

Next == Probe \/ Unlock \/ CheckTypes \/ AdeVolumes \/ Volumes \/ Detect
        \/ SetFileSystems \/ Assign \/ Done
Spec == Init /\ [][Next]_vars

------------------------------------------------------------------------------
(* Properties *)

\* What the images of Azure have in common: at most six partitions with numbers sgdisk's
\* output is filtered for; one system, on a partition of the type its file system calls
\* for; if it is encrypted, a /boot; EFI and BIOS by their types; a file system on all
\* the rest, and data only behind /boot.
SystemFits(t, i) ==
    /\ t[i].fs = "LVM2_member" => t[i].code = "8E00"
    /\ t[i].code = "8E00" => t[i].fs \in {"LVM2_member", "none"}
    /\ t[i].fs = "none" => /\ t[i].code \in {"8300", "8E00"}
                           /\ \E j \in DOMAIN t : t[j].use = "boot"
AzureImage(t) ==
    /\ Len(t) <= 6
    /\ \E i \in DOMAIN t : t[i].use = "os"
    /\ OneSystem(t)
    /\ \A i \in DOMAIN t :
          /\ t[i].use \in {"bios", "efi", "boot", "os", "data"}
          /\ t[i].use = "bios" <=> t[i].code = "EF02"
          /\ t[i].use = "efi" <=> t[i].code = "EF00"
          /\ t[i].use # "bios" => FirstDigit(t[i].num) \in 1..6
          /\ t[i].use = "os" => SystemFits(t, i)
          /\ t[i].use \in {"efi", "boot", "data"} => t[i].fs \in {"vfat", "ext4", "xfs"}
          /\ t[i].use = "data" => \E j \in 1..(i - 1) : t[j].use = "boot"
ASSUME ImageAssumption == \A t \in Images : AzureImage(t)

With(use) == FirstOr0({i \in DOMAIN table : table[i].use = use})
OsIsLvm   == LET os == table[With("os")]
             IN  os.fs = "LVM2_member" \/ (os.fs = "none" /\ os.code = "8E00")

OnImage   == table \in Images /\ tool = "sgdisk"

\* Each partition of an image is mounted as what it is for, none in place of one the
\* disk does not have, and the root as a logical volume just if it is one.
RolesRight ==
    OnImage /\ pc = "mounted" =>
        roles = [os |-> With("os"), efi |-> With("efi"),
                 boot |-> With("boot"), volumes |-> OsIsLvm]

\* No step gives up on an image.
Recognised == OnImage => pc # "failed"

\* On a disk with one system and one partition that cannot be read, the LUKS header was
\* read from the partition that is mounted as /boot: ade.rs and prepare_chroot.rs choose
\* it by different conditions, at different times.
HeaderIsBoot ==
    OneSystem(table) /\ OneHidden(table) /\ pc = "mounted" /\ header # 0
        => roles.boot = header

\* "unwrap is safe as we have always an OS partition" (prepare_chroot.rs).
OsUnwrapSafe == pc = "assign" => Os # {}

\* partx is a "replacement for sgdisk" (Changelog.md): what is the EFI partition
\* does not depend on the tool.
PartxReplacesSgdisk == pc = "mounted" => roles.efi = With("efi")
==============================================================================
