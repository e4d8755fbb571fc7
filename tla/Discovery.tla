------------------------------ MODULE Discovery ------------------------------
(***************************************************************************)
(* The first half of a run, Distro::new: collect the partitions of the     *)
(* disk, unlock it if it is encrypted, make its volume group answer to the *)
(* name "rootvg", and look into each partition for an operating system.    *)
(* Every error on the way is process::exit(1), which undoes nothing.       *)
(***************************************************************************)
EXTENDS AlarState

\* get_partition_details; an empty file system type is taken for encryption.
Probe ==
    /\ pc = "probe"
    /\ \E ok \in BOOLEAN :
         /\ Outcome(job.disk \in attached, ok)
         /\ CASE ~ok -> Quit("err")
              [] ok /\ Encrypted(job.disk) -> Goto("unlock")
              [] ok /\ ~Encrypted(job.disk) /\ HasKind(job.disk, "lvm") -> Goto("import")
              [] OTHER -> Goto("detect")
    /\ UNCHANGED <<lvm, disk, mnt>>

\* enable_encrypted_partition.  The volumes with the key and the LUKS header are
\* mounted first; the path of the header's partition has no "p" in it, so with
\* NVMe there is none.  When luksOpen fails the mapping, whoever made it, is
\* closed.  After it succeeds unmounting the two may still fail.
Unlock ==
    /\ pc = "unlock"
    /\ \/ /\ IF vm.nvme THEN Works ELSE Fails
          /\ UNCHANGED <<luks, active>>
          /\ Quit("err")
       \/ /\ ~vm.nvme /\ luks = Nobody
          /\ luks' = job.disk
          /\ active' = AutoActivated(job.disk)
          /\ \/ Works /\ Goto(IF HasKind(job.disk, "lvm") THEN "adeImport" ELSE "detect")
             \/ Fails /\ Quit("err")
       \/ /\ ~vm.nvme
          /\ IF luks = Nobody THEN Fails ELSE Works
          /\ luks' = IF LuksInUse THEN luks ELSE Nobody
          /\ UNCHANGED active
          /\ Quit("err")
    /\ UNCHANGED <<vg, attached, mnt>>

\* ade_importvg: whether to import depends on the directory /dev/rootvg alone.
AdeImport ==
    /\ pc = "adeImport"
    /\ IF DevDir("rootvg")
       THEN Goto("clone") /\ Works /\ UNCHANGED active
       ELSE (\E ok \in BOOLEAN : VgActivate("rootvg", ok)) /\ Goto("adeScan")
    /\ UNCHANGED <<vg, disk, mnt>>

\* The vgscan --mknodes after it is the only command whose status counts.
AdeScan ==
    /\ pc = "adeScan"
    /\ \/ Works /\ Goto("list")
       \/ Fails /\ Quit("err")
    /\ UNCHANGED <<lvm, disk, mnt>>

\* importvg: note down /boot; skip the import when a "rescuevg" is listed, when
\* there is no /dev/rootvg, or when just one physical volume is of a "rootvg".
Import ==
    /\ pc = "import"
    /\ \/ /\ Works
          /\ LET skip == \/ Listed("rescuevg") \cup Listed("rescuevg1") # {}
                         \/ ~DevDir("rootvg")
                         \/ Cardinality(Listed("rootvg")) = 1
             IN  pc' = IF skip THEN "list" ELSE "clone"
          /\ job' = [job EXCEPT !.saved = bootMnt]
          /\ UNCHANGED rc
       \/ Fails /\ Quit("err")                          \* pvscan
    /\ UNCHANGED <<lvm, disk, mnt>>

\* vgimportclone, and for an encrypted disk vgchange -ay rescuevg: commands of
\* one shell line, whose status is that of the last, vgscan --mknodes.
Clone ==
    /\ pc = "clone"
    /\ \E ok \in BOOLEAN : VgImportClone(job.disk, ok)
    /\ Goto(IF Encrypted(job.disk) THEN "wake" ELSE "scan")
    /\ UNCHANGED <<active, disk, mnt>>

Wake ==
    /\ pc = "wake"
    /\ \E ok \in BOOLEAN : VgActivate("rescuevg", ok)
    /\ Goto("scan")
    /\ UNCHANGED <<vg, disk, mnt>>

Scan ==
    /\ pc = "scan"
    /\ \/ Works /\ Goto("lend")
       \/ Fails /\ Quit("err")
    /\ UNCHANGED <<lvm, disk, mnt>>

\* "vgrename rootvg oldvg; vgrename rescuevg rootvg", and when the disk is not
\* encrypted "; vgchange -ay": again the last status is the only one seen.
Lend ==
    /\ pc = "lend"
    /\ \E ok \in BOOLEAN : VgRename("rootvg", "oldvg", ok)
    /\ Goto("borrow")
    /\ UNCHANGED <<active, disk, mnt>>

Borrow ==
    /\ pc = "borrow"
    /\ \E ok \in BOOLEAN :
         /\ VgRename("rescuevg", "rootvg", ok)
         /\ IF Encrypted(job.disk)
            THEN IF ok THEN Goto("list") ELSE Quit("err")
            ELSE Goto("activate")
    /\ UNCHANGED <<active, disk, mnt>>

Activate ==
    /\ pc = "activate"
    /\ \E ok \in BOOLEAN : VgActivateAll(ok) /\ IF ok THEN Goto("remount") ELSE Quit("err")
    /\ UNCHANGED <<vg, disk, mnt>>

\* /boot is unmounted, whatever is on it, and the noted device mounted again;
\* that mount is a strict one: on failure the program stops.
Remount ==
    /\ pc = "remount"
    /\ \/ /\ Works /\ Goto("list")
          /\ bootMnt' = IF job.saved = Nobody THEN bootMnt ELSE job.saved
       \/ Fails /\ job.saved # Nobody /\ Quit("err") /\ bootMnt' = Nobody
    /\ UNCHANGED <<lvm, disk, assertStk, rootStk, wiped>>

\* Mutant: the volumes are taken to be there under the usual name.
ListAssumed ==
    /\ pc = "list"
    /\ Works
    /\ job' = [job EXCEPT !.lvs = "rootvg"]
    /\ pc' = "detect"
    /\ UNCHANGED <<rc, lvm, disk, mnt>>

\* build_logical_volume_details, ade_prepare_lv: lsblk names each LV by the
\* name its VG has now; an inactive VG shows none.
List ==
    /\ pc = "list"
    /\ Works
    /\ job' = [job EXCEPT !.lvs = IF job.disk \in active THEN vg[job.disk] ELSE "empty"]
    /\ pc' = "detect"
    /\ UNCHANGED <<rc, lvm, disk, mnt>>

------------------------------------------------------------------------------
(* what_distro_name_version: the loop over the partitions. *)

Remaining == job.idx <= Len(PartsOf(job.disk))
NextPart  == job' = [job EXCEPT !.idx = @ + 1] /\ pc' = "detect" /\ UNCHANGED rc

\* remove_dir_all on the mount point: what is still mounted there is emptied
\* before the directory turns out to be busy.
RmdirAssert(stk) == wiped' = IF stk = <<>> THEN wiped ELSE wiped \cup {Head(stk).src}

NoOsFound ==
    /\ pc = "detect" /\ ~Remaining
    /\ Works
    /\ RmdirAssert(assertStk)
    /\ Quit("err")
    /\ UNCHANGED <<lvm, disk, assertStk, rootStk, bootMnt>>

SkipEfi ==
    /\ pc = "detect" /\ Remaining /\ This.kind = "efi"
    /\ Works
    /\ NextPart
    /\ UNCHANGED <<lvm, disk, mnt>>

\* is_lvm_on_repair_disk: findmnt | grep mapper | grep usr, which also finds what a killed
\* run left mounted.
UsrLeft(stk) == \E i \in DOMAIN stk : {"usr", "lvs"} \cap stk[i].kids # {}
LvmInUse     == vm.hostLvm \/ UsrLeft(assertStk) \/ UsrLeft(rootStk)

\* is_repairvm_with_lvm_allowed, and at least one LV has to be there.
LvmGate ==
    /\ pc = "detect" /\ Remaining /\ This.kind = "lvm"
    /\ Works
    /\ IF (LvmInUse /\ ~vm.allowed) \/ job.lvs = "empty"
       THEN Quit("err") ELSE Goto("fsckLv")
    /\ UNCHANGED <<lvm, disk, mnt>>

\* fsck_partition: for XFS the file system is mounted on /tmp/assert and
\* unmounted to replay its log, then checked; a failed mount unmounts whatever
\* is on /tmp/assert.  fsck.ext4 refuses a mounted device with a status that
\* is ignored.
Fsck(dev, next) ==
    /\ \/ /\ vm.fs = "xfs"
          /\ Outcome(CanMount(dev, assertStk), FALSE)
          /\ assertStk' = Pop(assertStk) /\ Quit("err")
       \/ /\ vm.fs = "xfs" /\ CanMount(dev, assertStk)
          /\ \E ok \in BOOLEAN :
                /\ Outcome(~MountedSomewhere(dev), ok)
                /\ IF ok THEN Goto(next) ELSE Quit("err")
          /\ UNCHANGED assertStk
       \/ vm.fs = "ext4" /\ Works /\ Goto(next) /\ UNCHANGED assertStk
       \/ vm.fs = "ext4" /\ Fails /\ Quit("err") /\ UNCHANGED assertStk
    /\ UNCHANGED <<lvm, disk, rootStk, bootMnt, wiped>>

MountAssert(dev, next) ==
    /\ \E ok \in BOOLEAN :
         /\ Outcome(CanMount(dev, assertStk), ok)
         /\ assertStk' = IF ok THEN Push(dev, assertStk) ELSE assertStk
         /\ IF ok THEN Goto(next) ELSE Quit("err")
    /\ UNCHANGED <<lvm, disk, rootStk, bootMnt, wiped>>

PartDev == <<job.disk, job.idx>>

FsckPart ==
    /\ pc = "detect" /\ Remaining /\ This.kind \in {"boot", "os"}
    /\ Fsck(PartDev, "assertPart")

AssertPart == pc = "assertPart" /\ MountAssert(PartDev, "peek")

\* Mutant: a failed unmount is only logged.
PeekOn ==
    /\ pc = "peek"
    /\ \E ok \in BOOLEAN :
         /\ Outcome(assertStk # <<>>, ok)
         /\ assertStk' = IF ok THEN Tail(assertStk) ELSE assertStk
         /\ IF This.kind = "os"
            THEN /\ RmdirAssert(assertStk')
                 /\ job' = [job EXCEPT !.os = job.idx]
                 /\ pc' = "scripts" /\ UNCHANGED rc
            ELSE NextPart /\ UNCHANGED wiped
    /\ UNCHANGED <<lvm, disk, rootStk, bootMnt>>

\* Look for etc/os-release, then a lazy unmount, which even a busy mount allows.
Peek ==
    /\ pc = "peek"
    /\ \E ok \in BOOLEAN :
         /\ Outcome(assertStk # <<>>, ok)
         /\ assertStk' = IF ok THEN Tail(assertStk) ELSE assertStk
         /\ CASE ~ok -> Quit("err") /\ UNCHANGED wiped
              [] ok /\ This.kind = "os" ->
                    /\ RmdirAssert(Tail(assertStk))
                    /\ job' = [job EXCEPT !.os = job.idx]
                    /\ pc' = "scripts" /\ UNCHANGED rc
              [] OTHER -> NextPart /\ UNCHANGED wiped
    /\ UNCHANGED <<lvm, disk, rootStk, bootMnt>>

------------------------------------------------------------------------------
(* read_distro_name_version_from_lv: the device is /dev/rootvg/rootlv,      *)
(* whichever volume group has the name.                                     *)

RootLv == <<CHOOSE e \in active : vg[e] = "rootvg", 0>>

FsckLv ==
    /\ pc = "fsckLv"
    /\ IF DevDir("rootvg")
       THEN Fsck(RootLv, "assertLv")
       ELSE Works /\ Goto("assertLv") /\ UNCHANGED <<lvm, disk, mnt>>

AssertLv ==
    /\ pc = "assertLv"
    /\ IF DevDir("rootvg")
       THEN MountAssert(RootLv, "assertUsr")
       ELSE Works /\ Quit("err") /\ UNCHANGED <<lvm, disk, mnt>>

\* The volume of /usr is checked, then mounted on /tmp/assert/usr.  If its log
\* cannot be replayed it is the root volume that comes off /tmp/assert.
AssertUsr ==
    /\ pc = "assertUsr"
    /\ \/ /\ Works /\ assertStk' = AddKid("usr", assertStk) /\ Goto("readLv")
       \/ /\ Fails /\ UNCHANGED assertStk /\ Quit("err")
       \/ /\ vm.fs = "xfs" /\ Fails /\ assertStk' = Pop(assertStk) /\ Quit("err")
    /\ UNCHANGED <<lvm, disk, rootStk, bootMnt, wiped>>

\* os-release cannot be read: exit, with both volumes still mounted.
ReadLv ==
    /\ pc = "readLv"
    /\ \/ /\ Works
          /\ job' = [job EXCEPT !.os = job.idx] /\ pc' = "unassertLv" /\ UNCHANGED rc
       \/ Fails /\ Quit("err")
    /\ UNCHANGED <<lvm, disk, mnt>>

UnassertLv ==
    /\ pc = "unassertLv"
    /\ \E ok \in BOOLEAN : UmountR(assertStk, assertStk', ok)
    /\ Goto("scripts")
    /\ UNCHANGED <<lvm, disk, rootStk, bootMnt, wiped>>

DiscoveryNext ==
    \/ Probe \/ Unlock \/ AdeImport \/ AdeScan \/ Import \/ Clone \/ Wake \/ Scan \/ Lend
    \/ Borrow \/ Activate \/ Remount \/ List
    \/ NoOsFound \/ SkipEfi \/ LvmGate \/ FsckPart \/ AssertPart \/ Peek
    \/ FsckLv \/ AssertLv \/ AssertUsr \/ ReadLv \/ UnassertLv
==============================================================================
