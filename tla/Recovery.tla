------------------------------- MODULE Recovery -------------------------------
(***************************************************************************)
(* The second half of a run: provide the action scripts, assemble the       *)
(* chroot, run the actions in it, and give back what the run took.          *)
(* Two kinds of failure matter: an Err that main answers with umount and    *)
(* cleanup, and one that ends the process on the spot (a strict mount, the  *)
(* operator ?, a panic).                                                    *)
(***************************************************************************)
EXTENDS AlarState

\* helper::cleanup does, by what the disk is:
CleanupEntry ==
    CASE Encrypted(job.disk) /\ job.lvs # "none" -> "adeDeactivate"
      [] Encrypted(job.disk) /\ job.lvs = "none" -> "closeCrypt"
      [] ~Encrypted(job.disk) /\ job.lvs # "none" -> "disable"
      [] OTHER -> "finish"

\* rc is set to "err" already when the program will exit with an error.
CleanupThenFail == pc' = CleanupEntry /\ rc' = "err" /\ UNCHANGED job
UmountThenFail  == pc' = "umount" /\ rc' = "err" /\ UNCHANGED job

\* download_action_scripts_or
LoadScripts ==
    /\ pc = "scripts"
    /\ \/ Works /\ Goto("available")
       \/ Fails /\ CleanupThenFail
    /\ UNCHANGED <<lvm, disk, mnt>>

\* is_action_available lower-cases the name before it looks for the script.
IsActionAvailable(a) == a # "unknown"

CheckActions ==
    /\ pc = "available"
    /\ \/ /\ Works
          /\ IF \A i \in DOMAIN vm.actions : IsActionAvailable(vm.actions[i])
             THEN Goto("mountRoot") ELSE CleanupThenFail
       \/ Fails /\ Quit("err")                       \* read_dir(...)?
    /\ UNCHANGED <<lvm, disk, mnt>>

------------------------------------------------------------------------------
(* prepare_chroot *)

OnRoot(stk) == rootStk' = stk /\ UNCHANGED <<lvm, disk, assertStk, bootMnt, wiped>>

StrictMount(possible, stk, next) ==
    \E ok \in BOOLEAN :
        /\ Outcome(possible, ok)
        /\ IF ok THEN OnRoot(stk) /\ Goto(next) ELSE OnRoot(rootStk) /\ Quit("err")

\* Mutant: a root that is mounted already is taken for the one wanted.
MountOsPartitionReused ==
    /\ job.lvs = "none"
    /\ LET dev == <<job.disk, job.os>>
       IN  IF rootStk # <<>>
           THEN Works /\ Goto("mountBoot") /\ OnRoot(rootStk)
           ELSE StrictMount(CanMount(dev, rootStk), Push(dev, rootStk), "mountBoot")

\* The partition with the OS, for a disk without LVM.
MountOsPartition ==
    /\ job.lvs = "none"
    /\ LET dev == <<job.disk, job.os>>
       IN  StrictMount(CanMount(dev, rootStk), Push(dev, rootStk), "mountBoot")

\* Mutant: the name need only contain "rootlv".
MountOsVolumeByPart ==
    /\ job.lvs # "none"
    /\ \E e \in Entities :
          /\ e \in active /\ vg[e] = job.lvs
          /\ LET dev == <<e, 0>>
             IN  StrictMount(CanMount(dev, rootStk), Push(dev, rootStk), "mountLvs")

\* The volume whose name is exactly rootvg-rootlv; if the list has no such name
\* nothing is mounted here.
MountOsVolume ==
    \/ /\ job.lvs = "rootvg"
       /\ \E e \in Entities :
             /\ e \in active /\ vg[e] = "rootvg"
             /\ LET dev == <<e, 0>>
                IN  StrictMount(CanMount(dev, rootStk), Push(dev, rootStk), "mountLvs")
    \/ job.lvs \notin {"none", "rootvg"} /\ Works /\ Goto("mountLvs") /\ OnRoot(rootStk)

MountRoot ==
    /\ pc = "mountRoot"
    /\ \/ Fails /\ UmountThenFail /\ OnRoot(rootStk)           \* mkdir_rescue_root
       \/ MountOsPartition
       \/ MountOsVolume

\* The mount point of every other volume is cut out of its name; a name that
\* is not rootvg-<x>lv makes unwrap panic.
MountLvs ==
    /\ pc = "mountLvs"
    /\ IF job.lvs # "rootvg" \/ OddNames(job.disk)
       THEN Works /\ Quit("err") /\ OnRoot(rootStk)
       ELSE StrictMount(TRUE, AddKid("lvs", rootStk), "mountBoot")

MountKid(kid, next) ==
    IF HasKind(job.disk, kid)
    THEN StrictMount(job.disk \in attached, AddKid(kid, rootStk), next)
    ELSE Works /\ Goto(next) /\ OnRoot(rootStk)

\* The boot partition is the first one that is neither the OS nor "EF00".
MountBoot == pc = "mountBoot" /\ MountKid("boot", "mountEfi")
MountEfi  == pc = "mountEfi" /\ MountKid("efi", "bind")

\* mkdir_support_filesystems, mount_support_filesystems, set_environment: an
\* Err here is main's to handle.
Bind ==
    /\ pc = "bind"
    /\ \/ Works /\ Goto("run") /\ OnRoot(AddKid("bind", rootStk))
       \/ Fails /\ UmountThenFail /\ OnRoot(rootStk)

------------------------------------------------------------------------------
(* The actions *)

ChrootCli == \E i \in DOMAIN vm.actions : vm.actions[i] = "chroot-cli"

\* One "chroot-cli" among the actions and the others are not run.
RunChrootCli ==
    /\ pc = "run" /\ ChrootCli
    /\ \/ Works /\ Goto("report")
       \/ Fails /\ UmountThenFail                    \* no tmux
       \/ Fails /\ Quit("err")                       \* execute_chroot_cli()?
    /\ UNCHANGED <<lvm, disk, mnt>>

\* run_repair_script: chmod on the name as it was typed, then chroot; what the
\* script makes of it is printed and not looked at.
RunRepairScript ==
    /\ pc = "run" /\ ~ChrootCli
    /\ \E ok \in BOOLEAN :
         /\ Outcome(vm.actions[job.todo] # "mixed", ok)
         /\ CASE ~ok -> Quit("err")
              [] ok /\ job.todo < Len(vm.actions) ->
                    job' = [job EXCEPT !.todo = @ + 1] /\ UNCHANGED <<pc, rc>>
              [] OTHER -> Goto("report")
    /\ UNCHANGED <<lvm, disk, mnt>>

\* send_envelope()?: an unreachable endpoint is no error, a client that cannot
\* be built is one.
Report ==
    /\ pc = "report"
    /\ \/ Works /\ Goto("umount")
       \/ Fails /\ Quit("err")
    /\ UNCHANGED <<lvm, disk, mnt>>

\* umount -R /srv/rescue-root; its status is not looked at.
Umount ==
    /\ pc = "umount"
    /\ \E ok \in BOOLEAN : UmountR(rootStk, rootStk', ok)
    /\ Goto(CleanupEntry)
    /\ UNCHANGED <<lvm, disk, assertStk, bootMnt, wiped>>

------------------------------------------------------------------------------
(* helper::cleanup, disk not encrypted: disable_broken_disk, rename_oldvg,   *)
(* rescan_host.  Each error is logged and the next one is tried.             *)

\* Mutant: the disk goes although its volume group could not be deactivated.
DisableUnasked ==
    /\ pc = "disable"
    /\ \E ok \in BOOLEAN : VgDeactivate("rootvg", ok)
    /\ Goto(IF ~vm.nvme THEN "delete" ELSE "renameBack")
    /\ UNCHANGED <<vg, disk, mnt>>

\* Mutant: the disk is left in place, and with it the second "rootvg".
DisableInPlace ==
    /\ pc = "disable"
    /\ \E ok \in BOOLEAN : VgDeactivate("rootvg", ok)
    /\ Goto("renameBack")
    /\ UNCHANGED <<vg, disk, mnt>>

\* With an NVMe controller the device stays.
Disable ==
    /\ pc = "disable"
    /\ \E ok \in BOOLEAN :
         /\ VgDeactivate("rootvg", ok)
         /\ Goto(IF ok /\ ~vm.nvme THEN "delete" ELSE "renameBack")
    /\ UNCHANGED <<vg, disk, mnt>>

Delete ==
    /\ pc = "delete"
    /\ \E ok \in BOOLEAN :
         /\ Outcome(job.disk \in attached, ok)
         /\ attached' = IF ok THEN attached \ {job.disk} ELSE attached
    /\ Goto("renameBack")
    /\ UNCHANGED <<lvm, luks, mnt>>

RenameOldvg ==
    /\ pc = "renameBack"
    /\ \E ok \in BOOLEAN : VgRename("oldvg", "rootvg", ok)
    /\ Goto("rescan")
    /\ UNCHANGED <<active, disk, mnt>>

\* Mutant: the SCSI host is not told to look for the disk.
RescanForgotten ==
    /\ pc = "rescan"
    /\ Works
    /\ pc' = "rescanMounts" /\ job' = [job EXCEPT !.saved = bootMnt]
    /\ UNCHANGED <<rc, lvm, disk, mnt>>

\* The disk comes back, and its boot partition may land on the VM's /boot: the
\* file systems have the same UUIDs.
Rescan ==
    /\ pc = "rescan"
    /\ \/ /\ Works
          /\ attached' = attached \cup {job.disk}
          /\ active' = IF job.disk \in attached THEN active ELSE AutoActivated(job.disk)
          /\ \/ UNCHANGED bootMnt
             \/ HasKind(job.disk, "boot") /\ bootMnt' = job.disk
       \/ Fails /\ UNCHANGED <<attached, active, bootMnt>>
    /\ pc' = "rescanMounts" /\ job' = [job EXCEPT !.saved = bootMnt]
    /\ UNCHANGED <<rc, vg, luks, assertStk, rootStk, wiped>>

\* Mutant: /boot is left as the rescan made it.
RescanMountsLeft ==
    /\ pc = "rescanMounts"
    /\ Works /\ Goto("finish")
    /\ UNCHANGED <<lvm, disk, mnt>>

\* /boot goes back to the device noted before the rescan.
RescanMounts ==
    /\ pc = "rescanMounts"
    /\ \/ Works /\ Goto("finish")
          /\ bootMnt' = IF job.saved = Nobody THEN bootMnt ELSE job.saved
       \/ Fails /\ job.saved # Nobody /\ Goto("finish") /\ UNCHANGED bootMnt  \* umount
       \/ Fails /\ job.saved # Nobody /\ Quit("err") /\ bootMnt' = Nobody     \* mount
    /\ UNCHANGED <<lvm, disk, assertStk, rootStk, wiped>>

------------------------------------------------------------------------------
(* helper::cleanup, encrypted disk: ade_lvm_cleanup is one shell line, whose *)
(* errors are logged; close_rescueencrypt()? ends main.                      *)

AdeDeactivate ==
    /\ pc = "adeDeactivate"
    /\ \E ok \in BOOLEAN : VgDeactivate("rootvg", ok)
    /\ Goto("adeClose")
    /\ UNCHANGED <<vg, disk, mnt>>

\* Mutant: the VM's own volume group is forgotten.
AdeCloseOnly ==
    /\ pc = "adeClose"
    /\ \E ok \in BOOLEAN : CryptClose(ok)
    /\ Goto("finish")
    /\ UNCHANGED <<lvm, attached, mnt>>

AdeClose ==
    /\ pc = "adeClose"
    /\ \E ok \in BOOLEAN : CryptClose(ok)
    /\ Goto(IF DevDir("oldvg") THEN "adeRenameBack" ELSE "finish")
    /\ UNCHANGED <<lvm, attached, mnt>>

AdeRenameBack ==
    /\ pc = "adeRenameBack"
    /\ \E ok \in BOOLEAN : VgRename("oldvg", "rootvg", ok)
    /\ Goto("finish")
    /\ UNCHANGED <<active, disk, mnt>>

CloseCrypt ==
    /\ pc = "closeCrypt"
    /\ \E ok \in BOOLEAN : CryptClose(ok) /\ IF ok THEN Goto("finish") ELSE Quit("err")
    /\ UNCHANGED <<lvm, attached, mnt>>

Finish ==
    /\ pc = "finish"
    /\ Works
    /\ Quit(IF rc = "err" THEN "err" ELSE "ok")
    /\ UNCHANGED <<lvm, disk, mnt>>

RecoveryNext ==
    \/ LoadScripts \/ CheckActions
    \/ MountRoot \/ MountLvs \/ MountBoot \/ MountEfi \/ Bind
    \/ RunChrootCli \/ RunRepairScript \/ Report \/ Umount
    \/ Disable \/ Delete \/ RenameOldvg \/ Rescan \/ RescanMounts
    \/ AdeDeactivate \/ AdeClose \/ AdeRenameBack \/ CloseCrypt \/ Finish
==============================================================================
