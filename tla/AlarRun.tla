------------------------------- MODULE AlarRun -------------------------------
(***************************************************************************)
(* The program as a whole: main runs Discovery and then Recovery on one     *)
(* disk.  It may be started again on the same recovery VM, for the same     *)
(* disk or another one, also after a run that was killed half way.          *)
(***************************************************************************)
EXTENDS Discovery, Recovery

\* The recovery VM before the first run: nothing mounted, the VM's own volume
\* group in use, that of a disk active only if udev did it.
Untouched(d) == IF HasKind(d, "lvm") THEN "rootvg" ELSE "none"
InitialVg == [e \in Entities |->
                 IF e = Host THEN IF vm.hostLvm THEN "rootvg" ELSE "none"
                 ELSE Untouched(e)]
CanWakeUp == {d \in Disks : HasKind(d, "lvm") /\ ~Encrypted(d)}

Init ==
    /\ vm \in Scenarios
    /\ pc = "idle" /\ rc = "none" /\ job = NoJob
    /\ vg = InitialVg
    /\ IF vm.hostLvm THEN active = {Host}
       ELSE IF vm.auto /\ CanWakeUp # {} THEN \E d \in CanWakeUp : active = {d}
       ELSE active = {}
    /\ attached = Disks /\ luks = Nobody
    /\ assertStk = <<>> /\ rootStk = <<>> /\ bootMnt = Host /\ wiped = {}
    /\ runs = 0 /\ faults = 0 /\ crashes = 0

\* cli::cli and the check for root are passed; the disk is --custom-recover-disk
\* or the one at lun0.
Start ==
    /\ pc = "idle" /\ runs < MaxRuns
    /\ \E d \in Disks : job' = NewJob(d)
    /\ pc' = "probe" /\ rc' = "none"
    /\ runs' = runs + 1
    /\ UNCHANGED <<vm, lvm, disk, mnt, faults, crashes>>

Step == (DiscoveryNext \/ RecoveryNext) /\ UNCHANGED <<vm, runs, crashes>>

\* The process is killed; what it did to the VM stays.
Crash ==
    /\ pc # "idle" /\ crashes < MaxCrashes
    /\ Quit("killed")
    /\ crashes' = crashes + 1
    /\ UNCHANGED <<vm, lvm, disk, mnt, runs, faults>>

\* No more runs within the bound.
Rest == pc = "idle" /\ runs = MaxRuns /\ UNCHANGED vars

Next == Start \/ Step \/ Crash \/ Rest

Spec     == Init /\ [][Next]_vars
FairSpec == Spec /\ WF_vars(Step)

------------------------------------------------------------------------------
(* Properties *)

Labels == {"idle", "probe", "unlock", "adeImport", "adeScan", "import", "clone", "wake",
           "scan", "lend", "borrow", "activate", "remount", "list", "detect",
           "assertPart", "peek", "fsckLv", "assertLv", "assertUsr", "readLv",
           "unassertLv", "scripts", "available", "mountRoot", "mountLvs",
           "mountBoot", "mountEfi", "bind", "run", "report", "umount",
           "disable", "delete", "renameBack", "rescan", "rescanMounts",
           "adeDeactivate", "adeClose", "adeRenameBack", "closeCrypt", "finish"}

\* Every variable has its type, the mount stacks and the job included.
TypeOK ==
    /\ vm \in Scenarios /\ pc \in Labels /\ rc \in {"none", "ok", "err", "killed"}
    /\ job \in Job
    /\ vg \in [Entities -> VgNames] /\ active \subseteq Entities
    /\ attached \subseteq Disks /\ luks \in Disks \cup {Nobody}
    /\ assertStk \in Seq(Layer) /\ rootStk \in Seq(Layer)
    /\ bootMnt \in Owners /\ wiped \subseteq Entities \X Nat
    /\ runs \in 0 .. MaxRuns /\ faults \in 0 .. MaxFaults /\ crashes \in 0 .. MaxCrashes

\* The root the run means to repair.
Selected == <<job.disk, IF job.lvs = "none" THEN job.os ELSE 0>>

\* A repair script is run in a chroot whose newest mount is the root file
\* system of the disk the user chose, never that of another disk or of the
\* recovery VM, and with all the parts of it mounted (run_repair_script,
\* mount_required_partitions) -- whatever was left behind by earlier runs and
\* whichever commands failed.
ScriptOnSelectedDisk ==
    pc = "run" =>
        /\ rootStk # <<>>
        /\ Head(rootStk).src = Selected
        /\ job.lvs # "none" => "lvs" \in Head(rootStk).kids
        /\ \A k \in {"boot", "efi"} :
              HasKind(job.disk, k) => k \in Head(rootStk).kids
        /\ "bind" \in Head(rootStk).kids

\* remove_dir_all(/tmp/assert) never empties a file system of the disk under
\* repair, whatever an earlier run left mounted there (rmdir,
\* what_distro_name_version).  Of another disk it may.
SelectedNotWiped == [][\A s \in wiped' \ wiped : s[1] # job.disk]_vars

\* The recovery VM is as it was before the first run.
VmRestored == /\ vg = InitialVg /\ luks = Nobody
              /\ assertStk = <<>> /\ rootStk = <<>>
HostActive == vm.hostLvm => Host \in active

\* One disk for repair, and it can be detached where its volume group has to give the
\* name back to the VM's.
Detachable ==
    /\ \E d \in Disks : Disks = {d}
    /\ \A d \in Disks : HasKind(d, "lvm") /\ vm.hostLvm /\ vm.allowed => ~vm.nvme

\* A situation the code is made for: besides, a VM with LVM that is allowed to repair
\* disks with LVM; volumes with the usual names; an encrypted disk with a system on it,
\* on SCSI, and not woken up by udev where its volume group would get the name at once;
\* and scripts named as they are.
Repairable ==
    /\ Detachable
    /\ \A d \in Disks :
         /\ HasKind(d, "lvm") /\ vm.hostLvm => vm.allowed
         /\ HasKind(d, "lvm") => ~OddNames(d)
         /\ Encrypted(d) => ~vm.nvme /\ (HasKind(d, "os") \/ HasKind(d, "lvm"))
         /\ Encrypted(d) /\ HasKind(d, "lvm") => vm.hostLvm \/ ~vm.auto
    /\ \A i \in DOMAIN vm.actions : vm.actions[i] # "mixed"

\* When no command fails and no run is killed, the end of a run, be it good or
\* bad, leaves the VM as it was, with its own /boot and all disks there.
EndsClean ==
    pc = "idle" /\ faults = 0 /\ crashes = 0 /\ Repairable =>
        VmRestored /\ HostActive /\ bootMnt = Host /\ attached = Disks

\* A run that reports success leaves the VM as it was before the first run,
\* also when it follows runs that were killed: it either puts the leftovers
\* in order or it does not report success.
SuccessIsClean == rc = "ok" /\ faults = 0 /\ Detachable => VmRestored /\ HostActive

\* The device of a disk is deleted (disable_broken_disk) only when its root
\* volume is not mounted any more, also if the umount before it failed.
DetachOnlyUnmounted ==
    [][\A d \in attached \ attached' : ~VgMounted(d)]_vars

\* The VM's volume group, once renamed, gets its name back (importvg,
\* rename_oldvg), and a deleted disk comes back (rescan_host).
HostNameReturns == vg # InitialVg ~> vg = InitialVg
DiskReturns     == attached # Disks ~> attached = Disks

\* Who answers to /dev/rootvg, and whose root volume is mounted.
RootvgOwner == IF DevDir("rootvg") THEN CHOOSE e \in active : vg[e] = "rootvg" ELSE Nobody
RootsInUse  == {e \in Entities : \E l \in Layers(assertStk) \cup Layers(rootStk) :
                                    l.src = <<e, 0>>}

Lease == INSTANCE RootvgLease WITH owner <- RootvgOwner, used <- RootsInUse

\* Every step of a run, and every crash, is a step of the lease or leaves it
\* alone: the name never goes from one disk to another at once, and a root
\* volume is mounted only while its disk holds the name.
LeaseRespected == Lease!Spec

------------------------------------------------------------------------------
(* What a comment of the code says, and the code does not keep up.          *)

\* "It is verified at the start of the recover process whether the recover VM
\* is based on LVM or not" (mount.rs:388): on a VM that is not allowed to
\* repair LVM disks a run, once over, has left the VM's volume group alone.
RefusedVmUntouched ==
    pc = "idle" /\ vm.hostLvm /\ ~vm.allowed => vg[Host] = InitialVg[Host]
==============================================================================
