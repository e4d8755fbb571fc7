# ALAR: a verification development

ALAR (Azure Linux Auto Recover) runs on a *recovery VM* to which the OS disk of
a broken VM is attached.  One run finds the operating system on that disk,
assembles a chroot from its partitions or logical volumes, runs one or more
repair scripts in it, and puts the recovery VM back as it was.  The TLA+ modules
here model that run: which disk it takes, what it does to volume groups, to the
dm-crypt mapping, to mounts and to the block device, and what the repair scripts do
to the broken system, with failing commands, killed runs and repeated runs.  Paths
below are relative to the repository.

The difficulty is in the names.  On images of one family the disk under repair
and the recovery VM both have a volume group called `rootvg`.  ALAR renames the
VM's to `oldvg`, imports the disk's under `rescuevg`, renames that to `rootvg`,
and undoes it all in the end.  Commands are joined by `;` so that the failure of
one is hidden, many errors are `process::exit(1)` in the middle of the work, and
the next run starts from whatever the last one left.

## The system

| Part | State it keeps | Operations | Hard because |
|---|---|---|---|
| `src/main.rs` | step of the run, exit status | Distro::new, scripts, availability, chroot, actions, telemetry, umount, cleanup | errors it answers with umount and cleanup, and errors (`?`, exit, panic) that bypass both |
| `src/distro.rs` | partitions, LV names, is_ade, is_lvm | partition details, LV details, search for the OS | everything it notes is used much later; every error is an exit |
| `src/mount.rs` | mount table, VG names, SCSI device (of the VM) | mount, umount, fsck, importvg, rename_oldvg, disable_broken_disk, rescan_host | masked statuses, `umount -R` unchecked, `/boot` moved by a rescan |
| `src/ade.rs` | dm-crypt mapping, BEK and boot mounts, passphrase file | prepare environment, luksOpen, import, cleanup | partial failure with secrets and mounts about |
| `src/prepare_chroot.rs` | mounts under `/srv/rescue-root`, environment | root, other LVs, boot, efi, bind mounts | strict mounts exit at once |
| `src/helper.rs` | action scripts in `/tmp` | cleanup, scripts, disk path, metadata query | cleanup goes on after each error |
| `src/action.rs` | - | availability, run one script, interactive chroot | name checked in one form and used in another |
| `src/nvme.rs` | - | the disk that is not mounted at /boot/efi | searched for again at every use, while the mounts change |
| `src/cli.rs`, `src/telemetry.rs`, `src/constants.rs` | - | options, reports | - |
| `src/action_implementation/fstab-impl.sh` | `/etc/fstab`, its copies | move away, build anew | killed half way, run again, names that mean something else on this VM |
| `.../grubfix-impl.sh`, `efifix-impl.sh` | boot loader, EFI file system, `resolv.conf` | reinstall, format, edit fstab | statuses unchecked, exits between moving a file away and back |
| `.../auditd-impl.sh` | `auditd.conf`, logical volumes | walk up to a line of fstab, grow | a loop that needs such a line, flags for what was seen |
| `.../sudo-impl.sh`, `helpers.sh` | modes and owners of files | check and fix | one fix undoes another |
| `.../kernel-impl.sh`, `serialconsole-impl.sh`, `initrd-impl.sh` | GRUB's defaults, up to two `grub.cfg`, the initrd | edit the defaults, make the files anew | each script makes another choice of which `grub.cfg` to make, and looks for the one of the EFI partition under other names |
| `.../corrupt`, `test`, `safe-exit` | - | print, guard a shell | - |

Interaction is by calls within one process and by commands to the VM, whose
state outlives the process.  There are no threads.  The concurrency is that of a
process which can be killed between any two commands, of udev, which activates
volume groups and mounts file systems on its own, and of later runs.

What makes each part correct:

- main: what runs as a script runs on the selected disk; a success report means
  the VM is as before; every run ends.
- distro, mount: the name `rootvg` belongs to one disk at a time; what is looked
  into is the selected disk; what was renamed or deleted comes back.
- ade: the mapping is closed when the run is over; no passphrase is left behind.
- prepare_chroot: all parts are mounted, on the right root, before a script runs.
- helper::cleanup: the order deactivate, delete, rename, rescan, remount.
- nvme, helper::get_recovery_disk_path: every search in a run finds the same disk,
  and never the VM's own.
- the scripts: nothing of the system is lost; what was right before is right after a
  second run, a kill or another action; every script ends.

## Modules

| Module | Models | |
|---|---|---|
| `AlarState` | state of the VM and of the process; the external commands | `src/distro.rs` types, LVM, dm-crypt, mounts |
| `Discovery` | `Distro::new` | `src/distro.rs`, `src/mount.rs` (importvg, fsck_partition), `src/ade.rs` |
| `Recovery` | scripts, chroot, actions, cleanup | `src/main.rs`, `src/prepare_chroot.rs`, `src/action.rs`, `src/helper.rs`, `src/mount.rs`, `src/ade.rs` |
| `AlarRun` | a sequence of runs, with kills; the properties | `src/main.rs` |
| `RootvgLease` | abstract specification: the name `rootvg` as a lease | - |
| `AdeUnlock` | unlocking the disk, one command at a time | `src/ade.rs` (prepare_ade_environment, enable_encrypted_partition) |
| `UnlockContract` | abstract specification: what unlocking may do to the mapping | - |
| `PartitionRoles` | which partition is the system, /boot, EFI, or has the LUKS header | `src/distro.rs`, `src/ade.rs`, `src/prepare_chroot.rs` |
| `RecoveryDisk` | which disk a run works on | `src/nvme.rs`, `src/helper.rs` (get_recovery_disk_path), `src/prepare_chroot.rs` (set_environment) |
| `RepairState` | state of the system under repair; resolv-pre and resolv-after | the scripts |
| `FstabScript`, `BootScripts`, `AuditdScript`, `SudoScript`, `ConfigScripts` | one action each; grubfix and efifix together; kernel, serialconsole and initrd together | `src/action_implementation/*-impl.sh`, `helpers.sh` |
| `RepairScripts` | runs with lists of these actions, with kills; the properties | the loop of `src/main.rs`, `src/action.rs` |
| `Faults` | the status of a command; used by all state machines | `src/helper.rs` (run_fun, run_cmd) |
| `MCAlarRun`, `MCAdeUnlock`, `MCPartitionRoles`, `MCRecoveryDisk`, `MCRepairScripts` | instances for TLC | - |
| `AlarRunProofs`, `StepProofs`, `EndProofs`, `AdeUnlockProofs`, `PartitionRolesProofs`, `RecoveryDiskProofs`, `RepairScriptsProofs`, `FstabProofs` | theorems | - |

`pc` is the next step of the run; one action is one command or one uninterrupted
stretch of code between two commands, so that a kill (`Crash`) can fall between
any two.  `job` is what the process remembers: the disk, the partition of the
loop, the partition with the OS, the volume group under which the logical
volumes were noted (`lvs`), the next action, and the device noted for `/boot`.
`rc` is how the last run ended.  The rest belongs to the VM and survives the
process: `vg` (the name written on each disk), `active` (whose volumes have
device nodes), `attached`, `luks`, the mount stacks `assertStk` (`/tmp/assert`)
and `rootStk` (`/srv/rescue-root`), `bootMnt` (`/boot`) and the ghost `wiped`
(file systems emptied through a mount point).

`Quit` is process::exit, a panic or the end of main: it forgets the memory and
keeps the VM.  `Outcome(possible, ok)` is the status of a command: it cannot
succeed when something prevents it, and it may fail for no reason of ours at the
expense of the bound `MaxFaults`.  Where the code does not look at a status, the
action goes on with either.

### How the models fit together

`AlarRun` takes the partitions with their kinds resolved and opens an encrypted
disk in one step, `Unlock`.  `PartitionRoles` is the pure part that was left out
there: from the rows of sgdisk or partx, through the file system types and the
search for the system, to `roles`, what prepare_chroot mounts as what.  Each of
its actions is one function of the code; nothing outside the process changes, so
kills and failing commands add nothing.  A row has the code and file system type
the tools show and, for the properties only, what the partition is really for
(`use`).

`AdeUnlock` has the commands behind `Unlock`: a repair VM's own mount and mapping
of the disk are taken down (`UmountOwn`, `DeactivateOwn`, `CloseOwn`, statuses not
looked at), the key comes from the BEK volume or from `--ade-password` and a file
in `/tmp`, the partition with the header is mounted, luksOpen is tried, and then
everything is given back in an order that depends on how it went (`job.todo`), each
step ending the run if it fails.  `UnlockContract` says what that may do to the
mapping, and it is what `Unlock` of `Discovery` does: it opens a mapping that was
not there and grants it, or ends the run and leaves it, closes it, or, when giving
back fails after luksOpen has succeeded, leaves it open.

`RecoveryDisk` is about the input `job.disk` of `AlarRun`.  The code does not keep the
path: `DiskPath` is evaluated in each action that asks for it (`List`, `Details`,
`WhatDistro`, `MountParts`, `SetEnvironment`).  A disk is its bus, controller and
namespace; `efiMounts` are the mounts at some `/boot/efi` in the order of
`/proc/mounts`, among them those of this run and of killed ones.  For a disk with an LVM
partition importvg, when it changes the names of the groups, unmounts the VM's own EFI
partition and mounts it again (`UmountBoot`, `RemountBoot`), and from then on it is the last.
`importvg` in `Discovery` has the same of `/boot`.  Of everything else a run does only the
mounts matter here, so that one action stands for many commands.

`RepairScripts` is what happens in the step `RunRepairScript` of `AlarRun`, on one
system.  `todo` is the list of actions, `pc` the next command of the script; a run
mounts the EFI partition anew (`Start`), the rest of the state is on the disk and
stays from run to run.  A line of fstab is where it mounts, by which kind of name, and,
for a UUID, which one.  The scripts share fstab (fstab rebuilds it, efifix edits a line,
auditd reads it) and `resolv.conf`, for which three of them have the same two functions
but for a letter.  `copies` are the `/etc/fstab.copy-<seconds>`; `stamp` is the second of the
last move to one.  A run takes longer than a second, but of two fstab actions in a list, which
main.rs takes as it is typed, the second may begin within the second of the first (`sys.fast`).
`gawk` is whether awk knows `[[:space:]]`, which some mawk does not: without it, and with a
failed `apt-get install gawk`, the script finds no line for the root and none for /boot.
`torn` notes which of the few moments at which a kill does lasting harm (`WeakSteps`) a kill has
hit; the properties name the ones they leave out.

They also share GRUB's configuration.  `defaults` is what `/etc/default/grub` says of the
kernel to boot and of the serial console.  `cfgs` has what the two `grub.cfg` were made
from: `main`, and `efi`, that of the EFI partition, which the firmware reads first and which
may be absent (`NoCfg`), lead to the main one (`Redirect`), or be a full one of its own.
`Booted` is the one that counts.  `Mkconfig` makes one of the two from the defaults as they
are; kernel, serialconsole, initrd, grubfix and efifix each make one, the other or both.
`done` notes which of kernel, serialconsole and initrd have come to their end without a
fault: it is a ghost, from which `EffectsLast` tells what should hold.  On a system,
`sys.grub` says under which name the scripts find the directory on the EFI partition (they
have three ways to guess it) and what is there at the beginning.  Where GRUB takes kernels and
arguments from `/boot/loader/entries` (`sys.grub.bls`, RHEL 8 and later and its relatives)
`Booted` is what the entries say, whatever is in the files.  On SUSE efifix removes the package
whose file `/etc/default/grub` is, so that it is put aside as `rpmsave`, and copies it back
(`EfiRemove`, `EfiInstall`, `EfiCopy`).

`Holder` is the file system `df` measures for a directory in the chroot: there the volumes are
at `/<x>` for `rootvg-<x>lv`, so that none is ever at `/var/log`, and below `/var` it is `/var`, or
`/` where `/var` is no volume.  `Which`, `Linked` and `Shown` are what `$(which sudo)` finds and what
`stat`, which does not follow a link, shows of it.

### External behaviour that is assumed

These are programs outside `src/`; the map marks them external.

- LVM finds groups by name among readable disks.  `vgrename` is refused when the
  source is missing or ambiguous or the target exists; `vgimportclone` is refused
  on an active group and numbers a name that exists; `vgchange -an` is refused
  while a volume of the group is mounted; `vgchange -ay` activates what it can
  and reports an error when a name is there twice.
- `/dev/<vg>` is a directory exactly while a group of that name is active.
- udev may activate the group of a disk that becomes readable (`vm.auto`), when
  no other group has that name.
- Mounting what is already the newest mount of that mount point is refused
  (EBUSY); otherwise mounts stack.  `umount -R` works from the leaves up and a
  busy one stops it; the lazy unmount takes the newest layer.
- `xfs_repair` fails on a mounted device; `fsck.ext4` does too, with a status the
  code ignores.  The check of one file system is one step.
- `cryptsetup close` is refused while the mapping is in use.
- remove_dir_all on a mount point removes the content of what is mounted there.
- `/proc/mounts` is in the order of the mounts; `/sys/class/nvme` is read by name.
- `mkfs.vfat` refuses a mounted device and gives a new UUID; `mv` is atomic; `chown`
  clears the setuid bit; `lvextend --resizefs` may grow the volume and fail to grow the
  file system; `grub2-install` needs room for the BIOS loader (not on Gen2 disks).
- `sys.seen` is what blkid says of a device name on the recovery VM, whose devices may
  have other names than those of the broken VM.
- The system of a disk is on a partition or on volumes, not on both, as on Azure images
  (`LayoutAssumption`); the recovery VM has a `/boot` of its own.
- For `RecoveryDisk`: a disk has one LVM partition at most, which is not an encrypted one; the
  lazy unmount of `/boot/efi` takes it off the mount table when it succeeds, and mounting what is
  still mounted there is refused (EBUSY), whereupon importvg gives up and the program exits.
- `zypper remove` renames a changed `/etc/default/grub` to `grub.rpmsave`, and may leave no copy of
  one that is as the package brought it; `which` finds only what may be executed; `mv` moves a
  link as a link, `chmod` and `chown` change what it leads to.

## Runs

| Run | Question | Bounds |
|---|---|---|
| `normal` | Without failures, does each run in a supported situation give everything back, whether it ends well or not, and does what it takes come back eventually? | 1 disk, 5 layouts with and without LVM on the VM, two file systems, three lists of actions, 2 runs |
| `faulty` | With failing commands and kills: on what do scripts run, what does success mean, when does a disk go away? | 1 disk, all situations of 5 layouts, 3 runs, 2 failures, 2 kills |
| `two_disks` | Do leftovers of one disk's run mislead another's? Is the detailed run an implementation of the lease? | 2 disks of 3 layouts each, 3 runs, 1 failure, 1 kill |
| `unlock` | Whatever failed or was left behind: what does a granted mapping come with, what is done to the mapping, and are the volumes given back? | every situation of the VM, every password, 3 runs, 2 failures, 1 kill |
| `roles` | Is every partition of an Azure image mounted as what it is? Is a system known whenever roles are assigned, on any disk and with either tool? | tables of up to 4 rows (BIOS, EFI, /boot, system, data) in all orders, numbered 1, 2, ... or 1, 13, ..., plain, LVM and encrypted systems, sgdisk; for `OsUnwrapSafe` also swap, data and unformatted partitions, an empty table, a volume group outside an LVM partition, and partx |
| `recovery_disk` | Is the disk that is listed, mounted and named to the scripts the same, and never the VM's own? | VMs with NVMe (a local controller before, behind or absent; none, one or two disks, of one and two digits) and SCSI (also with a local NVMe disk), own EFI mounted or not, disks with and without an LVM partition, 3 runs, 1 kill, 1 failing unmount or mount; 39120 states |
| `scripts` | What do the scripts leave, in any order, run twice, killed or with a failing command? Do they end? | 232 systems: five distributions, both generations, fstab by UUID, device, label and volume, an awk that needs gawk, copies that may share a second, full and free volumes, also for /var/log and /var/log/audit, everything that can be wrong with sudo, a link and a binary nobody may execute included, the defaults and `grub.cfg` a system may come with, entries in `/boot/loader`, an initrd or none; lists of up to two of the eight actions, some of them the same twice, 2 runs, 1 failure, 1 kill; 535752 states |
| `refused_vm`, `partx_roles`, `nvme_environment`, `sudo_setuid`, `kernel_after_initrd` | each shows one place where the code does not do what a comment, the README or the changelog says | the smallest situations that show it |

Properties of the passing runs:

- `TypeOK`: the type invariant.
- `EndsClean`: after each run without failures, in a situation the code is made for
  (`Repairable`), the VM is as before the first one.
- `HostNameReturns`, `DiskReturns`: a renamed group and a deleted disk come back
  (liveness).
- `ScriptOnSelectedDisk`: a script finds as its root the newest mount, which is
  the root of the selected disk, with all its other volumes and partitions.
- `SuccessIsClean`: if no command failed, success means a clean VM, also after a
  run that was killed; with one disk, which the code can take out of the way if it has to
  (`Detachable`).
- `DetachOnlyUnmounted`: a disk is deleted only when its root is not mounted.
- `SelectedNotWiped`: removing `/tmp/assert` never empties the disk under repair.
- `LeaseRespected`: refinement of `RootvgLease`.
- `UnlockedIsBare`: when the mapping is granted it is the one this run opened, the
  VM's own is closed, and the header's partition and the place of the key are off.
- `ContractKept`: refinement of `UnlockContract`.
- `VolumesGivenBack`: without failures, and with SCSI, the BEK volume and the header's
  partition are unmounted after each run, also after a wrong password.
- `RolesRight`: system, /boot, EFI and the choice of LVM agree with what the
  partitions are for; `Recognised`: no Azure table makes the run give up.
- `HeaderIsBoot`: the partition that gave the LUKS header is the one that becomes
  /boot, though two functions choose it by different conditions at different times.
- `OsUnwrapSafe`: the unwrap of the system partition never panics.
- `ListedIsMounted`: when the partitions are mounted it is those of the disk whose partitions
  were listed, though the mount table has changed in between; not on NVMe where another run has
  left a mount and the disk has an LVM partition, for then importvg makes the VM's own mount the
  last and the search gives another answer.
- `EnvironmentFits`: the path the scripts get is that of the mounted disk, when it came
  from the command line or LUN 0, or the disk has no EFI partition.
- `OwnDiskSpared`: without a leftover mount of another run the search does not give the
  VM's own disk, and gives the same one at each use until the run mounts something, but while
  importvg has `/boot/efi` unmounted.
- `LinesKept`: each line the system had is in fstab or in a copy, but the one efifix
  changes; where two copies cannot have one name (`~sys.fast`).
- `FstabBoots`: outside the fstab script, and until one is killed half way, there is one
  line for the root, and it and that for /boot name what they named; for systems whose
  root the script can name (`RootNameable`: by UUID, by a volume with LVM, or by a device
  that has the same name on the recovery VM), and, where awk needs gawk, as long as no command
  has failed.
- `EfiEntryFits`: the line for /boot/efi names the file system that efifix has made.
- `AuditDone`: without failures, HALT is gone, neither / nor /var is full with room left on a
  volume fstab names, neither grew twice, and no volume grew, /var/log or the log's own either,
  unless the one `df` measures for it was full; where fstab has /var before what is below it
  (`VarFirst`).  These three are about tables as one expects them
  (`Orderly`): no place twice, each UUID that of what is there, and the lines of the resource
  disk and the BEK volume where these go.  `SystemsOrderly` has TLC check that all the
  systems of the run are such.
- `ResolvRestored`: between scripts the system's own `resolv.conf` is there, a file or a link, for
  lists without efifix and without a grubfix that can give up (`ResolvSafe`), until a kill comes
  between the two moves.
- `SudoReset`: at the end of a sudo script without failures, whatever a killed one left, the
  files of sudoers are right; so is the owner of a binary that `which` finds, unless a link of
  root's leads to it, and its mode, unless the owner had to be changed after it.
- `EffectsLast`: once kernel, serialconsole or initrd has ended without a fault, the
  `grub.cfg` that boots has the previous kernel, or the console, and the initrd is there,
  whatever actions, failures and kills follow.  Its exceptions are the cases in which the code
  does lose the effect.  Kernel and console: where GRUB_DEFAULT is only in a comment, where the
  entries of `/boot/loader` decide, where a full `grub.cfg` is on the EFI partition and some script
  does not reach it (`OneConfig`), and on SUSE once a command has failed or efifix was killed while
  the defaults were put aside (`Lasting`).  The initrd: on Ubuntu and Debian, which remove it to
  make it again, once a command has failed, a kill has come between the two, or `dpkg.log` has
  another version than that of the kernel (`Remade`).
- `RunEnds` (liveness): each run ends, if auditd.conf names a log file, the root has its line
  and awk does not need gawk (`AuditEnds`).

The bounds are enough for the cases to occur: two runs are needed for a run to
meet the leftovers of another, three for leftovers of two to meet; one kill
leaves one thing behind, and two failures reach a failing cleanup after a failing
command.  Two disks are all that can collide over a name.  Azure images have at most
four partitions of different uses, and the choice of roles looks at one partition
at a time and takes the first that fits, so all orders of up to four show it.
For the disk, three runs let a killed run and a failed unmount meet in the third.  The
scripts change a state that the second run finds as the first has left it, and lists of
two actions are all the ways one of them can follow another; one failure between them
is enough, as no script looks at the status of more than one command.

`EndsClean` and `SuccessIsClean` say in their antecedents which situations they are about.
`Detachable` is one disk, and not a volume group `rootvg` on it and on a VM with NVMe at
once: there the disk cannot be deleted and keeps the name.  `Repairable` leaves out besides
what is among the findings below: a refused VM with a group of its own, volumes of odd names
(a panic), an encrypted disk with NVMe or without a system, one whose group udev activates on a
VM without LVM, and a mistyped action.  `faulty` has all of these situations; `normal` has those of `Repairable`, since its liveness properties are false
elsewhere.  `SuccessIsClean` speaks only of behaviours without failing commands: cleanup goes on
after each error and reports success.  In `roles` the images are those of `AzureImage`: at most
six partitions, one system on a partition of the type that fits its file system, a /boot if
it is encrypted, and data only behind /boot; where data comes before it, or where there is no
/boot, data is mounted as /boot (see below).

Fairness: `FairSpec` is weak fairness of `Step`.  There is one process, it does
nothing but its next step, and every command it waits for is assumed to return.
Nothing is assumed of `Start` and `Crash`; with fewer runs to come, what a run
took must be back by the time it ends.  Liveness is checked without kills and
failures: after a kill nobody is there to give anything back.  For the scripts it is
the same fairness of the one process, `Step` of `RepairScripts`: action.rs waits for the
script without a limit.  There kills and failures are included, and a loop that never
ends is a step for ever, which is what `RunEnds` excludes.

## What the violations show

1. `refused_vm`: the recovery VM is checked for its version after its volume group
   was renamed; the refused run exits with the VM named `oldvg` (`src/distro.rs:426`).
2. `partx_roles`: with partx no type equals `EF00`; on a RHEL image the EFI partition
   is mounted as /boot (`src/prepare_chroot.rs:196`).
3. `nvme_environment`: on NVMe the search for `RECOVER_DISK_PATH` meets the EFI mount of
   the run itself and names the VM's own disk, on which grubfix then runs sgdisk and
   grub2-install and, on Ubuntu, efifix formats (`src/prepare_chroot.rs:110`).
4. `sudo_setuid`: chown after chmod takes the setuid bit away
   (`src/action_implementation/sudo-impl.sh:123`).
5. `kernel_after_initrd`: on Ubuntu initrd puts a full `grub.cfg` where the firmware looks
   first (`src/action_implementation/initrd-impl.sh:52`); kernel makes only the other one,
   and the old kernel is booted.

The models also have these, which no run singles out:

- `Disable` with NVMe on an LVM VM: the disk keeps the name `rootvg`, the VM's group cannot
  get it back, and the run reports success (`src/mount.rs:462`).
- `Import`: a `rescuevg` left by a killed run makes later runs skip the import for good
  (`src/mount.rs:288`).
- `RmdirAssert`: a mount a killed run left on `/tmp/assert` is emptied by a run for another
  disk (`src/mount.rs:261`).
- `LuksOpen` with a passphrase that does not fit: its file in `/tmp` stays
  (`src/ade.rs:253`).
- `RunRepairScript` with an action typed `Fstab`: found available in lower case
  (`src/action.rs:97`), not found as typed, and the exit is past umount and cleanup.
- `AdeImport` with `vm.auto`: the unlocked disk's own group, activated by udev, is taken
  for the VM's (`src/ade.rs:301`).
- `Lend`: a failed first rename is hidden and the VM's own root is inspected
  (`src/mount.rs:338`).  The later steps do not take it for the disk's: the root of
  the chroot is chosen by the name noted from the disk itself, which is what
  `ScriptOnSelectedDisk` says.
- `Disable`, then `Delete`, with two disks for repair, of which one is encrypted, after a kill
  and failures: `vgchange -an rootvg` has deactivated the other disk's group, and the disk is
  deleted with its root mounted (`src/mount.rs:462`).  And a run for one disk reports success
  while what a killed run left of the other is still there.
- `Assign`: on a disk without /boot the first data partition is mounted as /boot
  (`src/prepare_chroot.rs:204`).
- `Unlock` of `PartitionRoles`: an unformatted disk is taken for an encrypted one, and the
  unwrap called safe (`src/ade.rs:150`) panics.
- `MountBek`: a repair VM's own mapping is closed before it is known whether there is a
  key to open it again (`src/ade.rs:226`).
- `MountHeader`: with NVMe the path lacks the `p` (`src/ade.rs:199`), so that an
  encrypted disk is never unlocked.
- `NvmeDisk`: an EFI mount left by a killed run makes the next one take the VM's own disk
  (`src/nvme.rs:84`), and of a namespace with two digits one is kept (`src/nvme.rs:100`).
- `WriteRoot` with LVM and lines by UUID: fstab ends without a line for the root
  (`fstab-impl.sh:93`), and auditd after it loops for ever (`auditd-impl.sh:33`), as it
  does when auditd.conf names no file.
- `Matches`: with /var/log before /var in fstab one volume is measured and the other
  grows (`auditd-impl.sh:44`); a volume named by UUID never grows (`auditd-impl.sh:52`).
- `Holder`: a volume for /var/log or /var/log/audit is not mounted there in the chroot, and the
  temporary mount changes `LOGDIR`, not what `df` is asked for (`auditd-impl.sh:66`, `69`): it grows
  when /var, or /, is full, not when it is, though `src/README.md` promises growth for the volume
  that contains the audit logs.
- `UmountBoot`: an EFI mount a killed run left, which the search had taken for the OS disk's,
  is no longer the last once importvg has mounted the VM's own again: on NVMe the disk that is
  mounted is then not the one that was listed (`src/mount.rs:363`).
- `InstallGawk`: where it fails, an awk without `[[:space:]]` leaves fstab without the root's line
  (`fstab-impl.sh:26`).
- `Save`: two fstab actions in one second have one copy, of which the second takes the place
  (`fstab-impl.sh:20`).
- `EfiRemove`: a kill before line 55 leaves the package's defaults, and a `grub.rpmsave` of
  an earlier time is taken for what was put aside (`efifix-impl.sh:55`).
- `BinMode`, `BinOwner`: `$(which sudo)` is nothing when nobody may execute sudo, and nothing is
  fixed; of a link the owner is that of the link (`sudo-impl.sh:119-123`; `dev/tasks/16` has the
  link of Ubuntu 25.10).
- `Booted` with `bls`: neither kernel nor serialconsole edits the entries that decide there
  (`dev/tasks/05` and `21` say so).
- `GrubChecked`, then `MoveResolv`: after a grubfix that gave up on a Gen2 disk the saved
  `resolv.conf` is overwritten by the replacement (`grubfix-impl.sh:24`).
- `MisplaceResolv`: efifix moves it back as `resolve.conf` (`efifix-impl.sh:10`).  `dev/tasks/11`
  says of the other two scripts as well that a `resolv.conf` which is a link, as on Ubuntu, SUSE
  and Debian, is lost.  There the code is better than that text: `mv` moves the link itself, and
  moves it back.  What the text says of an exit before resolv-after is so, see the item before.
- `NewEfiName`: on Ubuntu the line for /boot/efi gets an empty UUID (`efifix-impl.sh:141`).
- `GrubRefuse`: versions 8.6 and 9.6 are refused as 6.x (`grubfix-impl.sh:14`); `SerialRefused`
  the same, and SLES 15.6 with them (`serialconsole-impl.sh:32`).
- `GrubFits`: on SUSE grub2-install is given `{/dev/...}`, the brace before the dollar, and
  fails unnoticed (`grubfix-impl.sh:40`).
- `Reaches`: kernel looks for the directory on the EFI partition as redhat or centos
  (`kernel-impl.sh:18`), serialconsole by the ID of os-release (`serialconsole-impl.sh:59`):
  on AlmaLinux only the second finds it, on Oracle Linux only the first.
- `KernelLine`: a GRUB_DEFAULT that is only in a comment is taken for one and edited there
  (`kernel-impl.sh:10`).
- `InitrdMake`: with a `dpkg.log` that names no kernel the version is empty, though a comment
  says an empty file is dealt with (`initrd-impl.sh:34`): no initrd is made.

## Proofs

TLAPS proves, for every value of the constants:

- `AlarRunProofs!TypeCorrect`: `Spec => []TypeOK`;
- `AlarRunProofs!ScriptsRunOnSelectedDisk`: `Spec => []ScriptOnSelectedDisk`;
- `StepProofs!LeaseKept`: `Spec => LeaseRespected`, the refinement;
- `StepProofs!DetachedUnmounted`: `Spec => DetachOnlyUnmounted` where there is one disk, and
  `StepProofs!HolderDetachedUnmounted` the same of the disk that holds the name, where
  there are more;
- `StepProofs!SelectedSpared`: `Spec => SelectedNotWiped`;
- `EndProofs!EndsAsItBegan`: `Spec => []EndsClean`;
- `EndProofs!SuccessRestores`: `Spec => []SuccessIsClean`;
- `PartitionRolesProofs!OsAlwaysKnown`: `Spec => []OsUnwrapSafe`;
- `PartitionRolesProofs!HeaderMountedAsBoot`: `Spec => []HeaderIsBoot`; the property is
  about images with one system and at most one partition that shows no file system;
- `PartitionRolesProofs!RolesAreRight`: `Spec => []RolesRight`;
- `PartitionRolesProofs!ImagesRecognised`: `Spec => []Recognised`;
- `AdeUnlockProofs!GrantedBare`: `Spec => []UnlockedIsBare`;
- `AdeUnlockProofs!KeepsContract`: `Spec => ContractKept`, the refinement;
- `AdeUnlockProofs!VolumesReturned`: `Spec => []VolumesGivenBack`;
- `RecoveryDiskProofs!OneDisk`: `Spec => []ListedIsMounted`;
- `RecoveryDiskProofs!EnvironmentRight`: `Spec => []EnvironmentFits`;
- `RecoveryDiskProofs!OwnDiskLeftAlone`: `Spec => []OwnDiskSpared`;
- `RepairScriptsProofs!NoLineLost`: `Spec => []LinesKept`;
- `RepairScriptsProofs!SudoIsReset`: `Spec => []SudoReset`;
- `RepairScriptsProofs!ResolvIsRestored`: `Spec => []ResolvRestored`;
- `RepairScriptsProofs!EffectsStay`: `Spec => []EffectsLast`;
- `FstabProofs!FstabStaysGood`: `Spec => []FstabBoots`;
- `FstabProofs!EfiEntryKept`: `Spec => []EfiEntryFits`;
- `FstabProofs!AuditHolds`: `Spec => []AuditDone`.

### A run

Assumptions: the VM's disk and "nobody" are no disks for repair, the scenarios
are of the type `Scenario`, the bounds are naturals, and the system of a disk is on a
partition or on volumes, not on both (`LayoutAssumption`).

The inductive invariant `IInv` is needed because what a script sees is decided
long before it runs.  `List` notes the volumes under the name their group has at
that moment; the root is mounted by that name several commands later.  So `IInv`
carries:

- `NamesApart`: no two active groups have one name, so a device path
  `/dev/mapper/rootvg-...` is a volume of one disk (each LVM command preserves it:
  lemmas `RenameKeepsApart`, `ImportKeepsApart`, `ActivateKeepsApart`, ...);
- `ListHolds`: from `List` to the mount of the root nothing renames or deactivates
  the group that was noted;
- `RootReady`: after the k-th step of prepare_chroot the newest layer of the stack
  is the selected root and has the first k parts;
- `AssertReady`, and the types.

One lemma per group of conjuncts goes through the actions of Discovery and one
through those of Recovery; `Inductive` puts them together.

`LeaseKept`: each command changes the volume groups or the mounts, not both.  The former
hand the name over only when nobody has it (`Handover`, one lemma for each LVM command, from
`NamesApart`); the latter add or take one root, and it is the root of the holder
(`RootMove`), since a root volume is mounted by the name `rootvg` (`ListHolds`).

`DetachedUnmounted`: at `delete` the one group that LVM lists as `rootvg` has no mount
(`DetachReady`), because its deactivation has just succeeded.  That this is the group of the disk
to be deleted needs that there is no other disk.

`SelectedSpared`: `LoopInv` says what a layer on `/tmp/assert` can be: a root volume, or a
partition that some loop looked into, hence one behind nothing but EFI and boot partitions.  The
loop of the selected disk, which takes the partitions in the same order, has therefore not yet
come to it, and mounting it is refused (EBUSY) when it does: the removal of the directory, which
comes after that, is never reached with such a layer on top.

### The end of a run

`EndsAsItBegan` follows one run, with `Flow` saying for each step which disks come to it
(`Routes`), what the process remembers (`Memory`), which names the two groups have (`Groups`:
the VM's is `oldvg` from `borrow` to the renaming back, the disk's `rescuevg` in between), which
are active (`Volumes`), attached and unlocked (`Devices`), and how deep the mounts are
(`Mounts`).  Every LVM command then has one outcome (`Views` says what LVM sees), and at `idle`
`Flow` is the state before the first run.

`SuccessRestores` cannot rely on that order: the run that succeeds may have found any state a
killed one left.  `Kept` says what is still known.  `Lasting` is what no kill undoes; `Names`
and `Notes` are what a run learns from LVM's not having refused: that it came past `clone`
says what the names were, and the name noted at `list` is that of the disk's group
from then on; `Stacks` says that leftover mounts are of the run's own disk, and that the one on
the root is just what this run will mount there, so that the mount is refused and the run does not
succeed; and `Returned` what a run that has not given up has put back at each step of cleanup.
At `idle` with `rc = "ok"` all of it is back.

### Roles

`OsAlwaysKnown` rests on `Detect` being the only way on, and it goes on only with a
partition marked: `OsOK` says so from then to `Assign`.  `PartsOK` says that the
partitions kept are rows of the table, and has their types.  `HeaderOK` adds, once a
header was read, that one partition `c` was the encrypted one (`Unlocked`): the header is
the first of the others that is no EF00, `c` is what the table has the system on, and
`c` alone can be found as the system.  So what is left for /boot are the partitions that
were candidates for the header, and the first of them is the same.  Without the two
assumptions on the table this is false: with an unformatted partition of type 8300 between
the encrypted one and /boot, the first candidates differ.

`RolesAreRight` and `ImagesRecognised` share `ImageInv`, which follows the system's
partition `o` of an image: nothing else is encrypted or a volume (`Agrees`), `o` is always among
the partitions still to be looked into, is noted as a volume when it is one, and is found when
the loop comes to it (`SystemNoted`); every other partition is passed over.  The header, and later
/boot, is the first of the others that is no EFI partition: data comes behind /boot, so
this is /boot where there is one (`BootIsFirst`, from `FirstBefore` on first members of sets).
`ImageAssumption` says of the constant `Images` what Azure's images have in common; TLC
checks it for the tables of the run.

### Unlocking

A granted mapping is this run's because luksOpen succeeds only when there was none and
the VM's own is closed.  `JobOK` has the types and where each key is used, `HoldsOK` what
is mounted before luksOpen, and `GivingOK` that, once luksOpen has succeeded, what is
still mounted is still in `todo`.  `KeepsContract` maps `luks` to the mapping and the
steps of the run to the stages `idle`, `asked`, `opened` and `granted`; each action is
then a step of the contract or a stutter.  `VolumesReturned` needs the converse of `HoldsOK`:
`HeldOK` says that nothing is mounted that the steps to come (`todo`) will not unmount, in a
run nothing disturbed, so that at the end nothing is.

### The disk

`ListedRight` is the point of `OneDisk`: from `list` to `mount` what `DiskPath` gives is
`listed`, except where `ListedIsMounted` says so.  Without leftovers all EFI mounts are of the VM's
own disk, so whichever is the last, before importvg or after, the search finds the same
(`OwnAnswer`); for a disk without LVM the table does not change at all.  After the run has
mounted its EFI partition the answer is `root` only where the search does not look at the mounts,
or they have not changed (`SameAnswer`), and this is the condition of `EnvironmentFits`.  `OwnDiskLeftAlone` is
about the search itself: what is left when the disk of the last mount at `/boot/efi` is taken away
is not the VM's if that mount is the VM's own; `MaxIn` says that there is a last one among any
number of mounts.

### The scripts

One invariant for each theorem; the scripts that have no part in it are dealt with by one
lemma (`Elsewhere`, `NotSudo`, `NotResolv`).

`NoLineLost`: `LinesKept` alone does not survive the move of fstab, which may overwrite a
copy.  `FreshCopy` says that no copy has the name of a second to come, so that where each move
has a second of its own, also for an action that is twice in a list, the place is free; and
`Journal` that the lines are all in fstab until there is a first copy, and all in copies from
then on.

`SudoIsReset`: `SudoInv` says for each command which of the repairs before it are done if
no command failed, and that no command changes what `which` finds or where a link leads; nothing
before `sudoDup` is assumed, which covers kills.

`ResolvIsRestored`: `ResolvInv` says where the system's own file is, at each command of the
scripts that move it; `ResolvSafe` keeps the commands that would lose it out of reach, and a kill
between them is in `torn` from then on.

`EffectsStay`: `ConfigInv` is needed because what `done` promises of one `grub.cfg` rests on
the other and on the defaults.  `PreviousKept` and `SerialKept` say that the defaults keep
what was chosen, so that whoever makes a `grub.cfg` anew, or only some of them, makes it with
that, or, while efifix on SUSE has none or the package's, that the file put aside does
(`Aside`).  `Reached` says that without a fault the EFI partition is mounted when a script looks
for it, also after efifix, a kill in efifix, or on a disk without one; `OneFull` that elsewhere
than on Red Hat nobody makes a full one there.  `ImageKept` follows the initrd from its removal to
the end of the script.  That the defaults say nothing of a kernel where the file is missing
is an assumption on the systems (`SystemAssumption`).

The table of fstab.  What awk prints is the lines at a set of positions (`LinesAt`): they are
lines of the old table, each once (`LinesFrom`, from the ranks of the positions in the set).
So a part of a proper table is one (`Filtered`), so is one whose names are put right
(`Retold`), and parts with different places can be joined (`Joined`).  What makes a table
proper (`Table`) is more than the property says: the script reads what it wrote in an
earlier run, so the line of the root must also stay one it can name again (`Proper`).

- `FstabStaysGood`: `TabInv` says which places have been written at each step, and that the
  copy is proper and has the root unless a kill has hit an earlier rebuilding, where awk
  finds it: it always does, or gawk has been installed because nothing has failed (`Firm`).  The
  copy read is the one just made, whether or not it has taken another's place.
- `EfiEntryKept`: `EfiInv` follows the partition through unmounting, formatting and mounting:
  without a fault each is possible where it is tried, so the line is only wrong between
  formatting and the edit, and no other script runs in between.  The edit needs that there is
  one line for /boot/efi (`TabInv`); that the partition of a run is mounted is `Reached`.
- `AuditHolds`: `AuditInv` says of / and /var (`Measured`), where what `df` measures is the volume
  of the line, that a place that could grow is still to be looked at, or is the directory being
  looked for, and of every volume that it grew only where its `Holder` was full.  grep also finds /var/log where /var is
  meant; that the line found is that of the directory (`LineFound`) needs /var first, and that
  fstab, which may have been rebuilt, still has it so (`TabInv`).  A directory that is given up
  for its parent has no line, so nothing is lost with it.

### Model-checked only

Liveness (`HostNameReturns`, `DiskReturns`, `RunEnds`), which is beyond TLAPS.  Every
invariant and every action property of a passing run is proved.

## Not modelled

- The distro's name and version as they are found (the scripts take them as given).
- The scripts `corrupt`, `test` and `safe-exit`, which print or guard a shell; `grub.awk`.
- What package managers install; of `grub.cfg` and the EFI file system all but what
  `RepairState` keeps; the drivers put into an initrd, `kernel.sysrq`, SUSE's link
  `/boot/initrd`.
- Comments of fstab, and lines an awk or grep pattern finds by accident.
- The files of `sudoers.d` one by one; the copies `backup` makes; the mount auditd makes of a
  volume that is not mounted, at a place its later commands do not use.
- Telemetry but for its effect on control, command line parsing, wording.

## Plan

Done: the run (`AlarRun`), unlocking (`AdeUnlock`), roles (`PartitionRoles`), the disk
(`RecoveryDisk`) and the eight scripts that change a system (`RepairScripts`).  Next:

1. The status of a script, which action.rs does not look at, handed up to `AlarRun`.
