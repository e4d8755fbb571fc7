----------------------------- MODULE RecoveryDisk -----------------------------
(***************************************************************************)
(* Which disk a run works on.  Its path is not kept: it is found anew at     *)
(* every use, from --custom-recover-disk, from the link to LUN 0 or, on a VM  *)
(* with an NVMe controller, as the one disk that is not mounted at /boot/efi. *)
(* What the run itself mounts, and what a killed run left mounted, is then    *)
(* part of the question.                                                    *)
(***************************************************************************)
EXTENDS Faults, SequencesExt

CONSTANTS
    Setups,      \* the recovery VMs, see Setup
    Customs,     \* what --custom-recover-disk may be; NoDisk is nothing
    MaxRuns,     \* bound: runs of the program on this VM
    MaxCrashes   \* bound: runs killed half way

\* /dev/nvme<ctl>n<ns> or, with ctl 0, the disk ns of the SCSI bus.
Disk   == [bus : {"nvme", "scsi"}, ctl : 0..9, ns : 1..99]
NoDisk == [bus |-> "none", ctl |-> 0, ns |-> 0]

\* own, ownEfi: the VM's own disk and whether its EFI partition is mounted; ctrls: what
\* /sys/class/nvme lists, in the order of the names, local if the model is
\* "Microsoft NVMe Direct Disk"; efi: the disks with an EFI partition; lvm: those with a
\* plain LVM partition.
Controller == [local : BOOLEAN, disks : SUBSET Disk]
Setup == [own : Disk, ownEfi : BOOLEAN, ctrls : Seq(Controller),
          lun0 : Disk \cup {NoDisk}, efi : SUBSET Disk, lvm : SUBSET Disk]

\* An EFI partition is mounted at the VM's /boot/efi or below /srv/rescue-root.
Mount == [disk : Disk, rescue : BOOLEAN]

ASSUME SetupAssumption  == Setups \subseteq Setup
ASSUME CustomAssumption == Customs \subseteq Disk \cup {NoDisk}

\* The platform numbers the disk a VM was started from with one digit, and LUN 0 is
\* the first data disk.
ASSUME OwnDiskAssumption == \A s \in Setups : s.own.ns < 10 /\ s.lun0 # s.own

\* pc: the next place that asks for the path.
VARIABLES
    vm,             \* the setup
    pc,
    custom,         \* custom_recover_disk of this run
    listed,         \* the disk whose partitions were listed
    root,           \* the disk mounted below /srv/rescue-root
    env,            \* the disk of RECOVER_DISK_PATH, boot_part_path and efi_part_path
    efiMounts,      \* the mounts at some /boot/efi, in the order of /proc/mounts
    runs, crashes
vars == <<vm, pc, custom, listed, root, env, efiMounts, runs, crashes, faults>>

------------------------------------------------------------------------------
(* get_recovery_disk_path.  NoDisk stands for process::exit and for a panic. *)

\* is_nvme_controller.
IsNvme == vm.ctrls # <<>>

\* get_nvme_mounts: the lines of /proc/mounts with /dev/nvme... and /boot/efi, of which
\* the last one is taken.
NvmeMounts == {i \in DOMAIN efiMounts : efiMounts[i].disk.bus = "nvme"}
LastMount  == efiMounts[Max(NvmeMounts)].disk

\* controllers.retain, of which the first is looked at.
RemoteControllers == {i \in DOMAIN vm.ctrls : ~vm.ctrls[i].local}
RemoteDisks       == vm.ctrls[Min(RemoteControllers)].disks

\* split_off(5) and split_off(7): "nvme0n" and one digit.
SevenChars(d) == [d EXCEPT !.ns = IF d.ns < 10 THEN d.ns ELSE d.ns \div 10]

\* Mutant: the OS disk is not removed.
NvmeDiskKeepsOs ==
    IF NvmeMounts # {} /\ RemoteControllers # {} /\ Cardinality(RemoteDisks) = 1
    THEN CHOOSE d \in RemoteDisks : TRUE ELSE NoDisk

\* get_recovery_nvme_disk_path.
NvmeDisk ==
    IF NvmeMounts = {} \/ RemoteControllers = {} THEN NoDisk
    ELSE LET left == RemoteDisks \ {SevenChars(LastMount)}
         IN  IF Cardinality(left) = 1 THEN CHOOSE d \in left : TRUE ELSE NoDisk

DiskPath == IF custom # NoDisk THEN custom ELSE IF IsNvme THEN NvmeDisk ELSE vm.lun0

\* The name of a partition has a "p" just if there is an NVMe controller.
PartitionNamesRight(d) == IsNvme <=> d.bus = "nvme"

------------------------------------------------------------------------------
Init ==
    /\ vm \in Setups
    /\ pc = "idle" /\ custom = NoDisk
    /\ listed = NoDisk /\ root = NoDisk /\ env = NoDisk
    /\ efiMounts = IF vm.ownEfi THEN <<[disk |-> vm.own, rescue |-> FALSE]>> ELSE <<>>
    /\ runs = 0 /\ crashes = 0 /\ faults = 0

Quit == pc' = "idle" /\ listed' = NoDisk /\ root' = NoDisk /\ env' = NoDisk

Start ==
    /\ pc = "idle" /\ runs < MaxRuns
    /\ custom' \in Customs
    /\ pc' = "list" /\ runs' = runs + 1
    /\ UNCHANGED <<vm, listed, root, env, efiMounts, crashes, faults>>

\* get_relevant_recover_partition_information.
List ==
    /\ pc = "list"
    /\ IF DiskPath = NoDisk THEN Quit
       ELSE pc' = "details" /\ listed' = DiskPath /\ UNCHANGED <<root, env>>
    /\ UNCHANGED <<vm, custom, efiMounts, runs, crashes, faults>>

\* get_partition_details and the path of the LVM partition.  Behind names of no partition
\* everything looks encrypted, and there is no partition with the LUKS header.
Details ==
    /\ pc = "details"
    /\ IF DiskPath = NoDisk \/ ~PartitionNamesRight(DiskPath) THEN Quit
       ELSE /\ pc' = IF listed \in vm.lvm THEN "import" ELSE "distro"
            /\ UNCHANGED <<listed, root, env>>
    /\ UNCHANGED <<vm, custom, efiMounts, runs, crashes, faults>>

OwnEfiMounts == {i \in DOMAIN efiMounts : ~efiMounts[i].rescue}

\* importvg finds rescuevg or only one rootvg, or the VM's /boot/efi is not mounted.
SkipImport ==
    /\ pc = "import"
    /\ pc' = "distro"
    /\ UNCHANGED <<vm, custom, listed, root, env, efiMounts, runs, crashes, faults>>

\* After the groups have changed their names importvg unmounts the VM's /boot/efi.  When
\* that fails it goes on.
UmountBoot ==
    /\ pc = "import" /\ OwnEfiMounts # {}
    /\ \/ Works /\ efiMounts' = RemoveAt(efiMounts, Min(OwnEfiMounts))
       \/ Fails /\ UNCHANGED efiMounts
    /\ pc' = "remount"
    /\ UNCHANGED <<vm, custom, listed, root, env, runs, crashes>>

\* Mutant: what is mounted again is the partition of the disk to repair.
RemountOfListed ==
    /\ pc = "remount"
    /\ \/ /\ Works /\ OwnEfiMounts = {}
          /\ efiMounts' = Append(efiMounts, [disk |-> listed, rescue |-> FALSE])
          /\ pc' = "distro" /\ UNCHANGED <<listed, root, env>>
       \/ /\ IF OwnEfiMounts = {} THEN Fails ELSE UNCHANGED faults
          /\ Quit /\ UNCHANGED efiMounts
    /\ UNCHANGED <<vm, custom, runs, crashes>>

\* And mounts it again, now as the last one; when that fails, as it does where it is
\* still mounted, the program ends.
RemountBoot ==
    /\ pc = "remount"
    /\ \/ /\ Works /\ OwnEfiMounts = {}
          /\ efiMounts' = Append(efiMounts, [disk |-> vm.own, rescue |-> FALSE])
          /\ pc' = "distro" /\ UNCHANGED <<listed, root, env>>
       \/ /\ IF OwnEfiMounts = {} THEN Fails ELSE UNCHANGED faults
          /\ Quit /\ UNCHANGED efiMounts
    /\ UNCHANGED <<vm, custom, runs, crashes>>

\* The rest of build_logical_volume_details, and what_distro_name_version.
WhatDistro ==
    /\ pc = "distro"
    /\ IF DiskPath = NoDisk THEN Quit
       ELSE pc' = "mount" /\ UNCHANGED <<listed, root, env>>
    /\ UNCHANGED <<vm, custom, efiMounts, runs, crashes, faults>>

\* mount_required_partitions: the path of /boot and EFI is asked for before they are mounted.
MountParts ==
    /\ pc = "mount"
    /\ IF DiskPath = NoDisk THEN Quit /\ UNCHANGED efiMounts
       ELSE /\ pc' = "environment" /\ root' = DiskPath /\ UNCHANGED <<listed, env>>
            /\ efiMounts' = IF DiskPath \in vm.efi
                            THEN Append(efiMounts, [disk |-> DiskPath, rescue |-> TRUE])
                            ELSE efiMounts
    /\ UNCHANGED <<vm, custom, runs, crashes, faults>>

\* Mutant: what was given on the command line is not looked at.
SetEnvironmentDefault ==
    /\ pc = "environment"
    /\ LET path == IF IsNvme THEN NvmeDisk ELSE vm.lun0
       IN  IF path = NoDisk THEN Quit
           ELSE pc' = "scripts" /\ env' = path /\ UNCHANGED <<listed, root>>
    /\ UNCHANGED <<vm, custom, efiMounts, runs, crashes, faults>>

\* set_environment.
SetEnvironment ==
    /\ pc = "environment"
    /\ IF DiskPath = NoDisk THEN Quit
       ELSE pc' = "scripts" /\ env' = DiskPath /\ UNCHANGED <<listed, root>>
    /\ UNCHANGED <<vm, custom, efiMounts, runs, crashes, faults>>

RunScripts ==
    /\ pc = "scripts"
    /\ pc' = "umount"
    /\ UNCHANGED <<vm, custom, listed, root, env, efiMounts, runs, crashes, faults>>

\* umount -R /srv/rescue-root, whose status is not looked at.
Umount ==
    /\ pc = "umount"
    /\ \/ /\ Works
          /\ efiMounts' = IF root \in vm.efi THEN Front(efiMounts) ELSE efiMounts
       \/ Fails /\ UNCHANGED efiMounts
    /\ pc' = "cleanup"
    /\ UNCHANGED <<vm, custom, listed, root, env, runs, crashes>>

\* disable_broken_disk asks once more; with or without a path the run is over.
Cleanup ==
    /\ pc = "cleanup"
    /\ Quit
    /\ UNCHANGED <<vm, custom, efiMounts, runs, crashes, faults>>

\* The process is killed; the mounts stay.
Crash ==
    /\ pc # "idle" /\ crashes < MaxCrashes
    /\ Quit /\ crashes' = crashes + 1
    /\ UNCHANGED <<vm, custom, efiMounts, runs, faults>>

Rest == pc = "idle" /\ runs = MaxRuns /\ UNCHANGED vars

Step ==
    \/ List \/ Details \/ SkipImport \/ UmountBoot \/ RemountBoot \/ WhatDistro
    \/ MountParts \/ SetEnvironment \/ RunScripts \/ Umount \/ Cleanup
Next == Start \/ Step \/ Crash \/ Rest
Spec == Init /\ [][Next]_vars

------------------------------------------------------------------------------
(* Properties *)

\* A killed run, or one whose umount failed, has left a recovery disk mounted.
Leftover == \E i \in DOMAIN efiMounts : efiMounts[i].rescue /\ efiMounts[i].disk # vm.own

\* The partitions that are mounted are of the disk whose partitions were listed, though
\* the path is asked for in ten places from the one to the other and importvg mounts the
\* VM's own EFI partition anew in between: on NVMe that changes the answer for a disk with
\* LVM only if a run before has left a mount, which had been the last.
ListedIsMounted ==
    [][MountParts /\ root' # NoDisk
            /\ (custom # NoDisk \/ ~IsNvme \/ ~Leftover \/ listed \notin vm.lvm)
       => root' = listed]_vars

\* The scripts are given the path of the disk they run on when it came from the command
\* line or from LUN 0, and on NVMe when that disk has no EFI partition.
EnvironmentFits ==
    pc = "scripts" /\ (custom # NoDisk \/ ~IsNvme \/ root \notin vm.efi) => env = root

\* A run that meets no leftover of another does not take the VM's own disk for the one
\* to repair: the own one is mounted, and "remove the OS disk" finds it, before importvg
\* has taken it away and mounted it again as after.
OwnDiskSpared ==
    /\ pc \in {"details", "import", "remount", "distro", "mount"}
    /\ custom = NoDisk /\ ~Leftover
    => listed # vm.own /\ (pc # "remount" => DiskPath = listed)

\* "remove the OS disk" (nvme.rs): the path the scripts are given is that of the disk
\* mounted for them.
EnvironmentNamesDisk == pc = "scripts" => env = root
==============================================================================
