------------------------------- MODULE EndProofs -------------------------------
(***************************************************************************)
(* How a run leaves the recovery VM, for every layout of the disk, every     *)
(* list of actions and any number of runs.                                  *)
(*                                                                         *)
(* EndsClean: a run that nothing disturbs passes through the VM's volume     *)
(* groups, devices and mounts in a fixed order.  Flow says for each step     *)
(* which disks come to it, which name each volume group has then, which      *)
(* groups are active, whether the disk is attached and unlocked, and how     *)
(* deep the mounts are.  At "idle" that is the state before the first run.   *)
(*                                                                         *)
(* SuccessIsClean: after a run that was killed the next one may find any of   *)
(* these states.  Kept says how much of the order is left: what a run that    *)
(* has not given up knows at each step about the names, and that the mounts   *)
(* it finds are of its own disk and stop it where they would mislead it.      *)
(***************************************************************************)
EXTENDS StepProofs, FiniteSetTheorems

HostLvm == vm.hostLvm
OnLvm(d) == HasKind(d, "lvm")

\* Which disks come to which step.
Routes(d) ==
    /\ pc = "unlock" => Encrypted(d)
    /\ pc = "import" => OnLvm(d) /\ ~Encrypted(d)
    /\ pc = "adeImport" => OnLvm(d) /\ Encrypted(d)
    /\ pc = "adeScan" => OnLvm(d) /\ Encrypted(d) /\ ~HostLvm
    /\ pc \in {"clone", "scan", "lend", "borrow"} => OnLvm(d) /\ HostLvm
    /\ pc = "wake" => OnLvm(d) /\ HostLvm /\ Encrypted(d)
    /\ pc \in {"activate", "remount"} => OnLvm(d) /\ HostLvm /\ ~Encrypted(d)
    /\ pc \in {"list", "fsckLv", "assertLv", "assertUsr", "readLv", "unassertLv", "mountLvs"}
           => OnLvm(d)
    /\ pc \in {"disable", "delete", "renameBack", "rescan", "rescanMounts"}
           => OnLvm(d) /\ ~Encrypted(d)
    /\ pc = "delete" => ~vm.nvme
    /\ pc \in {"adeDeactivate", "adeClose"} => OnLvm(d) /\ Encrypted(d)
    /\ pc = "adeRenameBack" => OnLvm(d) /\ Encrypted(d) /\ HostLvm
    /\ pc = "closeCrypt" => Encrypted(d) /\ ~OnLvm(d)

\* The steps that work on the volumes, from the first fsck to their deactivation.
OnVolumes ==
    {"fsckLv", "assertLv", "assertUsr", "readLv", "unassertLv", "scripts", "available",
     "mountRoot", "mountLvs", "mountBoot", "mountEfi", "bind", "run", "report", "umount",
     "disable", "adeDeactivate"}
Memory(d) ==
    /\ pc # "idle" => job.disk = d
    /\ ~OnLvm(d) => job.lvs = "none"
    /\ OnLvm(d) /\ pc \in OnVolumes => job.lvs = "rootvg"
    /\ OnLvm(d) /\ pc \in InLoop =>
           job.lvs = "rootvg" \/ (job.lvs = "empty" /\ ~HostLvm /\ ~Encrypted(d))
    /\ ~OnLvm(d) /\ pc \in {"scripts", "available", "mountRoot"} => job.os \in DOMAIN PartsOf(d)
    /\ job.saved \in {Nobody, Host}
    /\ job.todo \in DOMAIN vm.actions

\* The VM's volume group is renamed at "lend", after the one of the disk at "clone".
Cloned == {"wake", "scan", "lend", "borrow"}
OwnName == {"idle", "probe", "unlock", "import", "adeImport", "clone", "wake", "scan", "lend",
            "rescan", "rescanMounts", "finish"}
HostName(d) == CASE ~HostLvm -> "none"
                 [] HostLvm /\ (pc \in OwnName \/ ~OnLvm(d)) -> "rootvg"
                 [] HostLvm /\ pc \notin OwnName /\ OnLvm(d) -> "oldvg"
DiskName(d) == CASE ~OnLvm(d) -> "none"
                 [] OnLvm(d) /\ HostLvm /\ pc \in Cloned -> "rescuevg"
                 [] OnLvm(d) /\ ~(HostLvm /\ pc \in Cloned) -> "rootvg"
Groups(d) == vg[Host] = HostName(d) /\ vg[d] = DiskName(d)

Asleep == {"idle", "probe", "unlock", "import", "adeImport", "clone", "wake", "activate",
           "adeClose", "adeRenameBack", "delete", "renameBack", "rescan", "rescanMounts",
           "finish"}
Volumes(d) ==
    /\ Host \in active <=> HostLvm
    /\ ~OnLvm(d) => d \notin active
    /\ OnLvm(d) /\ (HostLvm \/ Encrypted(d)) /\ pc \in Asleep => d \notin active
    /\ OnLvm(d) /\ ~Encrypted(d) /\ pc \in {"scan", "lend", "borrow"} => d \notin active
    /\ OnLvm(d) /\ Encrypted(d) /\ pc \in {"scan", "lend", "borrow", "adeScan"} => d \in active
    /\ OnLvm(d) /\ pc \in OnVolumes \cup {"remount"} => d \in active
    /\ OnLvm(d) /\ pc = "list" /\ (HostLvm \/ Encrypted(d)) => d \in active
    /\ OnLvm(d) /\ pc \in InLoop /\ job.lvs = "rootvg" => d \in active

Locked == {"idle", "probe", "unlock", "adeRenameBack", "finish"}
Devices(d) ==
    /\ pc \in {"renameBack", "rescan"} /\ ~vm.nvme => d \notin attached
    /\ ~(pc \in {"renameBack", "rescan"} /\ ~vm.nvme) => d \in attached
    /\ ~Encrypted(d) \/ pc \in Locked => luks = Nobody
    /\ Encrypted(d) /\ pc \notin Locked => luks = d
    /\ bootMnt = Host \/ (bootMnt = d /\ pc = "rescanMounts" /\ job.saved = Host)

Single(stk) == stk # <<>> /\ Tail(stk) = <<>>
Peeking == {"peek", "assertUsr", "readLv", "unassertLv"}
InRoot  == {"mountLvs", "mountBoot", "mountEfi", "bind", "run", "report", "umount"}
Mounts ==
    /\ pc \in Peeking => Single(assertStk)
    /\ pc \notin Peeking => assertStk = <<>>
    /\ pc \in InRoot => Single(rootStk)
    /\ pc \notin InRoot => rootStk = <<>>

Flow(d) == Routes(d) /\ Memory(d) /\ Groups(d) /\ Volumes(d) /\ Devices(d) /\ Mounts

Undisturbed == faults = 0 /\ crashes = 0 /\ Repairable
FlowInv == Undisturbed => \A d \in Disks : Flow(d)

\* What is known before an undisturbed step.
Ready(d) == IInv /\ LoopInv /\ Undisturbed /\ Flow(d)

------------------------------------------------------------------------------
(* One disk, and no failures. *)

LEMMA RepairableThen == Repairable => Detachable
BY DEF Repairable

LEMMA Fixed ==
    ASSUME NEW d \in Disks, vm' = vm
    PROVE  /\ HostLvm' = HostLvm /\ OnLvm(d)' = OnLvm(d) /\ Encrypted(d)' = Encrypted(d)
           /\ PartsOf(d)' = PartsOf(d)
BY DEF HostLvm, OnLvm, HasKind, Encrypted, PartsOf

LEMMA Bools ==
    ASSUME IInv, NEW d \in Disks
    PROVE  /\ HostLvm \in BOOLEAN /\ OnLvm(d) \in BOOLEAN /\ Encrypted(d) \in BOOLEAN
           /\ vm.nvme \in BOOLEAN /\ vm.auto \in BOOLEAN /\ vm.fs \in {"xfs", "ext4"}
BY ScenarioAssumption DEF IInv, BoundsOK, HostLvm, OnLvm, HasKind, Encrypted, Scenario

LEMMA Alone ==
    ASSUME NEW d \in Disks, Detachable
    PROVE  /\ Disks = {d} /\ Entities = {d, Host} /\ d # Host /\ d # Nobody /\ Host # Nobody
           /\ ~Encrypted(Host)
BY EntityAssumption DEF Detachable, Entities, Encrypted

\* With no failure a command ends well exactly when nothing stands in its way.
LEMMA Unfailing ==
    ASSUME faults = 0, faults' = 0
    PROVE  Works /\ ~Fails
BY DEF Works, Fails

LEMMA Certain ==
    ASSUME faults = 0, faults' = 0, NEW p \in BOOLEAN, NEW ok \in BOOLEAN, Outcome(p, ok)
    PROVE  ok <=> p
BY Unfailing DEF Outcome

\* What LVM can see: groups are there for the VM and the disk as their layouts say.
Plain(d) ==
    /\ IInv /\ Detachable
    /\ Host \in active <=> HostLvm
    /\ vg[Host] # "none" <=> HostLvm
    /\ vg[d] # "none" <=> OnLvm(d)
Seen(d) == OnLvm(d) /\ d \in attached /\ (Encrypted(d) => luks = d)

LEMMA Views ==
    ASSUME NEW d \in Disks, Plain(d)
    PROVE  /\ Visible(Host) <=> HostLvm
           /\ Visible(d) <=> Seen(d)
           /\ Host \in active <=> HostLvm
           /\ \A n : Listed(n) = {e \in {d, Host} : Visible(e) /\ vg[e] = n}
           /\ \A n : Taken(n) <=> \/ HostLvm /\ vg[Host] = n
                                  \/ (Seen(d) \/ d \in active) /\ vg[d] = n
           /\ Clash(d) <=> HostLvm /\ vg[Host] = vg[d]
           /\ Clash(Host) <=> (Seen(d) \/ d \in active) /\ vg[Host] = vg[d]
           /\ \A n : DevDir(n) <=> \/ HostLvm /\ vg[Host] = n
                                   \/ d \in active /\ vg[d] = n
<1>1. Disks = {d} /\ Entities = {d, Host} /\ d # Host /\ ~Encrypted(Host)
  BY Alone DEF Plain
<1>2. (Host \in active <=> HostLvm) /\ active \subseteq {d, Host}
  BY <1>1 DEF Plain, IInv, WorldOK
<1>3. (vg[Host] # "none" <=> HostLvm) /\ (vg[d] # "none" <=> OnLvm(d))
  BY DEF Plain
<1>4. (Visible(Host) <=> HostLvm) /\ (Visible(d) <=> Seen(d))
  BY <1>1, <1>3 DEF Visible, Seen
<1>5. \A n : Listed(n) = {e \in {d, Host} : Visible(e) /\ vg[e] = n}
  BY <1>1 DEF Listed
<1>6. \A n : Taken(n) <=> \/ HostLvm /\ vg[Host] = n
                          \/ (Seen(d) \/ d \in active) /\ vg[d] = n
  BY <1>1, <1>2, <1>4 DEF Taken
<1>7. /\ Clash(d) <=> HostLvm /\ vg[Host] = vg[d]
      /\ Clash(Host) <=> (Seen(d) \/ d \in active) /\ vg[Host] = vg[d]
  BY <1>1, <1>2, <1>4 DEF Clash
<1>8. \A n : DevDir(n) <=> (HostLvm /\ vg[Host] = n) \/ (d \in active /\ vg[d] = n)
  BY <1>2 DEF DevDir
<1> QED  BY <1>2, <1>4, <1>5, <1>6, <1>7, <1>8

LEMMA ReadyPlain ==
    ASSUME NEW d \in Disks, Ready(d)
    PROVE  Plain(d)
BY DEF Ready, Undisturbed, Repairable, Flow, Volumes, Groups, HostName, DiskName, Plain

------------------------------------------------------------------------------
(* Each step. *)

LEMMA ProbeFlow ==
    ASSUME NEW d \in Disks, Ready(d), vm' = vm, faults' = 0, Probe
    PROVE  Flow(d)'
<1> USE Fixed DEF Ready, Undisturbed, Flow
<1>1. pc = "probe" /\ job.disk = d /\ d \in attached
  BY DEF Probe, Memory, Devices
<1>2. UNCHANGED <<job, vg, active, attached, luks, assertStk, rootStk, bootMnt>>
      /\ pc' = CASE Encrypted(d) -> "unlock"
                 [] ~Encrypted(d) /\ OnLvm(d) -> "import"
                 [] ~Encrypted(d) /\ ~OnLvm(d) -> "detect"
  BY <1>1, Certain DEF Probe, Goto, Quit, OnLvm, lvm, disk, mnt
<1> QED  BY <1>1, <1>2
     DEF Routes, Memory, Groups, Volumes, Devices, Mounts,
         OnVolumes, InLoop, HostName, DiskName, Cloned, OwnName, Asleep, Locked, Peeking, InRoot

LEMMA UnlockFlow ==
    ASSUME NEW d \in Disks, Ready(d), vm' = vm, faults' = 0, Unlock
    PROVE  Flow(d)'
<1> USE Fixed DEF Ready, Undisturbed, Flow
<1>1. pc = "unlock" /\ job.disk = d /\ Encrypted(d) /\ luks = Nobody /\ ~vm.nvme
  BY DEF Unlock, Memory, Routes, Devices, Locked, Repairable
<1>2. AutoActivated(d) = active
  BY <1>1, Views, ReadyPlain, Bools
     DEF AutoActivated, Groups, HostName, DiskName, OwnName, Cloned, Repairable, OnLvm, HostLvm
<1>3. /\ luks' = d /\ UNCHANGED <<job, vg, active, attached, assertStk, rootStk, bootMnt>>
      /\ pc' = IF OnLvm(d) THEN "adeImport" ELSE "detect"
  BY <1>1, <1>2, Unfailing DEF Unlock, Goto, OnLvm, mnt
<1> QED  BY <1>1, <1>3
     DEF Routes, Memory, Groups, Volumes, Devices, Mounts,
         OnVolumes, InLoop, HostName, DiskName, Cloned, OwnName, Asleep, Locked, Peeking, InRoot

LEMMA AdeImportFlow ==
    ASSUME NEW d \in Disks, Ready(d), vm' = vm, faults' = 0, AdeImport
    PROVE  Flow(d)'
<1> USE Fixed DEF Ready, Undisturbed, Flow
<1>1. pc = "adeImport" /\ job.disk = d /\ Encrypted(d) /\ OnLvm(d)
  BY DEF AdeImport, Memory, Routes
<1>2. /\ d \in attached /\ luks = d /\ d \notin active /\ vg[d] = "rootvg"
      /\ HostLvm => vg[Host] = "rootvg"
  BY <1>1 DEF Devices, Locked, Volumes, Asleep, Groups, HostName, DiskName, OwnName, Cloned
<1>3. UNCHANGED <<job, vg, attached, luks, assertStk, rootStk, bootMnt>>
  BY DEF AdeImport, Goto, disk, mnt
<1>4. CASE HostLvm
  <2>1. pc' = "clone" /\ active' = active
    BY <1>2, <1>4, Views, ReadyPlain DEF AdeImport, Goto
  <2> QED  BY <1>1, <1>2, <1>3, <1>4, <2>1
     DEF Routes, Memory, Groups, Volumes, Devices, Mounts,
         OnVolumes, InLoop, HostName, DiskName, Cloned, OwnName, Asleep, Locked, Peeking, InRoot
<1>5. CASE ~HostLvm
  <2>1. Listed("rootvg") = {d} /\ ~Clash(d) /\ ~DevDir("rootvg")
    BY <1>1, <1>2, <1>5, Views, ReadyPlain DEF Seen
  <2>2. pc' = "adeScan" /\ active' = active \cup {d}
    BY <2>1, Unfailing, Alone, RepairableThen DEF AdeImport, VgActivate, Outcome, Goto
  <2> QED  BY <1>1, <1>2, <1>3, <1>5, <2>2, Alone, RepairableThen
     DEF Routes, Memory, Groups, Volumes, Devices, Mounts,
         OnVolumes, InLoop, HostName, DiskName, Cloned, OwnName, Asleep, Locked, Peeking, InRoot
<1> QED  BY <1>4, <1>5
     DEF Routes, Memory, Groups, Volumes, Devices, Mounts,
         OnVolumes, InLoop, HostName, DiskName, Cloned, OwnName, Asleep, Locked, Peeking, InRoot

LEMMA ScanFlow ==
    ASSUME NEW d \in Disks, Ready(d), vm' = vm, faults' = 0, AdeScan \/ Scan
    PROVE  Flow(d)'
<1> USE Fixed DEF Ready, Undisturbed, Flow
<1>1. /\ pc \in {"adeScan", "scan"} /\ job.disk = d
      /\ pc = "adeScan" => Encrypted(d) /\ OnLvm(d) /\ ~HostLvm
  BY DEF AdeScan, Scan, Memory, Routes
<1>2. /\ UNCHANGED <<job, vg, active, attached, luks, assertStk, rootStk, bootMnt>>
      /\ pc' = IF pc = "adeScan" THEN "list" ELSE "lend"
  BY Unfailing DEF AdeScan, Scan, Goto, lvm, disk, mnt
<1> QED  BY <1>1, <1>2
     DEF Routes, Memory, Groups, Volumes, Devices, Mounts,
         OnVolumes, InLoop, HostName, DiskName, Cloned, OwnName, Asleep, Locked, Peeking, InRoot

LEMMA CardTwo ==
    ASSUME NEW a, NEW b, a # b
    PROVE  Cardinality({a, b}) = 2
<1>1. IsFiniteSet({a}) /\ Cardinality({a}) = 1
  BY FS_Singleton
<1>2. Cardinality({a} \cup {b}) = 2
  BY <1>1, FS_AddElement
<1>3. {a} \cup {b} = {a, b}
  OBVIOUS
<1> QED  BY <1>2, <1>3

LEMMA ImportFlow ==
    ASSUME NEW d \in Disks, Ready(d), vm' = vm, faults' = 0, Import
    PROVE  Flow(d)'
<1> USE Fixed DEF Ready, Undisturbed, Flow
<1>1. /\ pc = "import" /\ job.disk = d /\ OnLvm(d) /\ ~Encrypted(d) /\ job \in Job
      /\ d \in attached /\ vg[d] = "rootvg" /\ (HostLvm => vg[Host] = "rootvg") /\ bootMnt = Host
  BY DEF Import, Routes, Devices, Groups, HostName, DiskName, OwnName, Cloned, Memory, IInv, MemoryOK
<1>2. /\ UNCHANGED <<vg, active, attached, luks, assertStk, rootStk, bootMnt>>
      /\ job' = [job EXCEPT !.saved = Host]
  BY <1>1, Unfailing DEF Import, lvm, disk, mnt
<1>3. Seen(d) /\ d # Host
  BY <1>1, Alone, RepairableThen DEF Seen
<1>4. CASE HostLvm
  <2>1. Listed("rootvg") = {d, Host} /\ Listed("rescuevg") = {} /\ Listed("rescuevg1") = {}
    BY <1>1, <1>3, <1>4, Views, ReadyPlain
  <2>2. Cardinality({d, Host}) = 2
    BY <1>3, CardTwo
  <2>3. DevDir("rootvg")
    BY <1>1, <1>4, Views, ReadyPlain
  <2>4. pc' = "clone"
    BY <2>1, <2>2, <2>3, <1>1, Unfailing DEF Import
  <2> QED  BY <1>1, <1>2, <1>4, <2>4
     DEF Routes, Memory, Groups, Volumes, Devices, Mounts,
         OnVolumes, InLoop, HostName, DiskName, Cloned, OwnName, Asleep, Locked, Peeking, InRoot, Job
<1>5. CASE ~HostLvm
  <2>1. Listed("rootvg") = {d}
    BY <1>1, <1>3, <1>5, Views, ReadyPlain
  <2>2. Cardinality({d}) = 1
    BY FS_Singleton
  <2>3. pc' = "list"
    BY <2>1, <2>2, Unfailing DEF Import
  <2> QED  BY <1>1, <1>2, <1>5, <2>3
     DEF Routes, Memory, Groups, Volumes, Devices, Mounts,
         OnVolumes, InLoop, HostName, DiskName, Cloned, OwnName, Asleep, Locked, Peeking, InRoot, Job
<1> QED  BY <1>4, <1>5
     DEF Routes, Memory, Groups, Volumes, Devices, Mounts,
         OnVolumes, InLoop, HostName, DiskName, Cloned, OwnName, Asleep, Locked, Peeking, InRoot

LEMMA CloneFlow ==
    ASSUME NEW d \in Disks, Ready(d), vm' = vm, faults' = 0, Clone
    PROVE  Flow(d)'
<1> USE Fixed DEF Ready, Undisturbed, Flow
<1>1. /\ pc = "clone" /\ job.disk = d /\ OnLvm(d) /\ HostLvm /\ d \notin active
      /\ Seen(d) /\ vg[d] = "rootvg" /\ vg[Host] = "rootvg"
  BY DEF Clone, Memory, Routes, Seen, Devices, Locked, Groups, HostName, DiskName, OwnName, Cloned,
     Volumes, Asleep
<1>2. ~Taken("rescuevg") /\ Visible(d)
  BY <1>1, Views, ReadyPlain
<1>3. vg' = [vg EXCEPT ![d] = "rescuevg"]
  <2>1. PICK ok \in BOOLEAN : VgImportClone(d, ok)
    BY <1>1 DEF Clone
  <2>2. ok
    BY <1>1, <1>2, <2>1, Unfailing DEF VgImportClone, Outcome
  <2> QED  BY <1>2, <2>1, <2>2 DEF VgImportClone
<1>4. /\ UNCHANGED <<job, active, attached, luks, assertStk, rootStk, bootMnt>>
      /\ pc' = IF Encrypted(d) THEN "wake" ELSE "scan"
  BY <1>1 DEF Clone, Goto, disk, mnt
<1>5. vg'[d] = "rescuevg" /\ vg'[Host] = "rootvg"
  BY <1>1, <1>3, Alone, RepairableThen DEF IInv, WorldOK
<1> QED  BY <1>1, <1>4, <1>5
     DEF Routes, Memory, Groups, Volumes, Devices, Mounts,
         OnVolumes, InLoop, HostName, DiskName, Cloned, OwnName, Asleep, Locked, Peeking, InRoot

LEMMA WakeFlow ==
    ASSUME NEW d \in Disks, Ready(d), vm' = vm, faults' = 0, Wake
    PROVE  Flow(d)'
<1> USE Fixed DEF Ready, Undisturbed, Flow
<1>1. /\ pc = "wake" /\ job.disk = d /\ OnLvm(d) /\ HostLvm /\ Encrypted(d) /\ d \notin active
      /\ Seen(d) /\ vg[d] = "rescuevg" /\ vg[Host] = "rootvg"
  BY DEF Wake, Memory, Routes, Seen, Devices, Locked, Groups, HostName, DiskName, OwnName, Cloned,
     Volumes, Asleep
<1>2. Listed("rescuevg") = {d} /\ ~Clash(d)
  BY <1>1, Views, ReadyPlain
<1>3. active' = active \cup {d}
  BY <1>2, Unfailing, Alone, RepairableThen DEF Wake, VgActivate, Outcome
<1>4. /\ UNCHANGED <<job, vg, attached, luks, assertStk, rootStk, bootMnt>> /\ pc' = "scan"
  BY DEF Wake, Goto, disk, mnt
<1> QED  BY <1>1, <1>3, <1>4, Alone, RepairableThen
     DEF Routes, Memory, Groups, Volumes, Devices, Mounts,
         OnVolumes, InLoop, HostName, DiskName, Cloned, OwnName, Asleep, Locked, Peeking, InRoot

LEMMA LendFlow ==
    ASSUME NEW d \in Disks, Ready(d), vm' = vm, faults' = 0, Lend
    PROVE  Flow(d)'
<1> USE Fixed DEF Ready, Undisturbed, Flow
<1>1. /\ pc = "lend" /\ job.disk = d /\ OnLvm(d) /\ HostLvm
      /\ vg[d] = "rescuevg" /\ vg[Host] = "rootvg"
  BY DEF Lend, Memory, Routes, Groups, HostName, DiskName, OwnName, Cloned
<1>2. Listed("rootvg") = {Host} /\ ~Taken("oldvg")
  BY <1>1, Views, ReadyPlain
<1>3. vg' = [e \in Entities |-> IF e = Host THEN "oldvg" ELSE vg[e]]
  BY <1>2, Unfailing, Alone, RepairableThen DEF Lend, VgRename, Outcome
<1>4. /\ UNCHANGED <<job, active, attached, luks, assertStk, rootStk, bootMnt>> /\ pc' = "borrow"
  BY DEF Lend, Goto, disk, mnt
<1>5. vg'[d] = "rescuevg" /\ vg'[Host] = "oldvg"
  BY <1>1, <1>3, Alone, RepairableThen
<1> QED  BY <1>1, <1>4, <1>5
     DEF Routes, Memory, Groups, Volumes, Devices, Mounts,
         OnVolumes, InLoop, HostName, DiskName, Cloned, OwnName, Asleep, Locked, Peeking, InRoot

LEMMA BorrowFlow ==
    ASSUME NEW d \in Disks, Ready(d), vm' = vm, faults' = 0, Borrow
    PROVE  Flow(d)'
<1> USE Fixed DEF Ready, Undisturbed, Flow
<1>1. /\ pc = "borrow" /\ job.disk = d /\ OnLvm(d) /\ HostLvm /\ Seen(d)
      /\ vg[d] = "rescuevg" /\ vg[Host] = "oldvg"
  BY DEF Borrow, Memory, Routes, Groups, HostName, DiskName, OwnName, Cloned, Seen, Devices, Locked
<1>2. Listed("rescuevg") = {d} /\ ~Taken("rootvg")
  BY <1>1, Views, ReadyPlain
<1>3. /\ vg' = [e \in Entities |-> IF e = d THEN "rootvg" ELSE vg[e]]
      /\ job' = job /\ pc' = IF Encrypted(d) THEN "list" ELSE "activate"
  BY <1>1, <1>2, Unfailing, Alone, RepairableThen DEF Borrow, VgRename, Outcome, Goto
<1>4. UNCHANGED <<active, attached, luks, assertStk, rootStk, bootMnt>>
  BY DEF Borrow, disk, mnt
<1>5. vg'[d] = "rootvg" /\ vg'[Host] = "oldvg"
  BY <1>1, <1>3, Alone, RepairableThen
<1> QED  BY <1>1, <1>3, <1>4, <1>5
     DEF Routes, Memory, Groups, Volumes, Devices, Mounts,
         OnVolumes, InLoop, HostName, DiskName, Cloned, OwnName, Asleep, Locked, Peeking, InRoot

LEMMA ActivateFlow ==
    ASSUME NEW d \in Disks, Ready(d), vm' = vm, faults' = 0, Activate
    PROVE  Flow(d)'
<1> USE Fixed DEF Ready, Undisturbed, Flow
<1>1. /\ pc = "activate" /\ job.disk = d /\ OnLvm(d) /\ HostLvm /\ ~Encrypted(d) /\ Seen(d)
      /\ vg[d] = "rootvg" /\ vg[Host] = "oldvg"
  BY DEF Activate, Memory, Routes, Groups, HostName, DiskName, OwnName, Cloned, Seen, Devices, Locked
<1>2. ~Clash(d) /\ ~Clash(Host) /\ Visible(d) /\ Visible(Host) /\ Entities = {d, Host}
  BY <1>1, Views, ReadyPlain, Alone, RepairableThen
<1>3. pc' = "remount" /\ job' = job /\ active' = active \cup {d, Host}
  BY <1>2, Unfailing DEF Activate, VgActivateAll, Goto
<1>4. UNCHANGED <<vg, attached, luks, assertStk, rootStk, bootMnt>>
  BY DEF Activate, disk, mnt
<1> QED  BY <1>1, <1>3, <1>4, Alone, RepairableThen
     DEF Routes, Memory, Groups, Volumes, Devices, Mounts,
         OnVolumes, InLoop, HostName, DiskName, Cloned, OwnName, Asleep, Locked, Peeking, InRoot

LEMMA RemountFlow ==
    ASSUME NEW d \in Disks, Ready(d), vm' = vm, faults' = 0, Remount
    PROVE  Flow(d)'
<1> USE Fixed DEF Ready, Undisturbed, Flow
<1>1. /\ pc = "remount" /\ job.disk = d /\ OnLvm(d) /\ HostLvm /\ ~Encrypted(d)
      /\ bootMnt = Host /\ job.saved \in {Nobody, Host}
  BY DEF Remount, Memory, Routes, Devices
<1>2. /\ UNCHANGED <<job, vg, active, attached, luks, assertStk, rootStk, bootMnt>> /\ pc' = "list"
  BY <1>1, Unfailing DEF Remount, Goto, lvm, disk
<1> QED  BY <1>1, <1>2
     DEF Routes, Memory, Groups, Volumes, Devices, Mounts,
         OnVolumes, InLoop, HostName, DiskName, Cloned, OwnName, Asleep, Locked, Peeking, InRoot

LEMMA ListFlow ==
    ASSUME NEW d \in Disks, Ready(d), vm' = vm, faults' = 0, List
    PROVE  Flow(d)'
<1> USE Fixed DEF Ready, Undisturbed, Flow
<1>1. /\ pc = "list" /\ job.disk = d /\ OnLvm(d) /\ vg[d] = "rootvg" /\ job \in Job
      /\ HostLvm \/ Encrypted(d) => d \in active
  BY DEF List, Memory, Routes, Groups, DiskName, Cloned, Volumes, IInv, MemoryOK
<1>2. /\ UNCHANGED <<vg, active, attached, luks, assertStk, rootStk, bootMnt>> /\ pc' = "detect"
      /\ job' = [job EXCEPT !.lvs = IF d \in active THEN "rootvg" ELSE "empty"]
  BY <1>1 DEF List, lvm, disk, mnt
<1> QED  BY <1>1, <1>2
     DEF Routes, Memory, Groups, Volumes, Devices, Mounts,
         OnVolumes, InLoop, HostName, DiskName, Cloned, OwnName, Asleep, Locked, Peeking, InRoot, Job

LEMMA ActionsThere == IInv => 1 \in DOMAIN vm.actions
<1> SUFFICES ASSUME IInv PROVE 1 \in DOMAIN vm.actions
  OBVIOUS
<1>1. vm.actions \in Seq(Actions) /\ vm.actions # <<>>
  BY ScenarioAssumption DEF IInv, BoundsOK, Scenario
<1> QED  BY <1>1

\* A partition with an OS and one with a volume group are never on the same disk.
LEMMA OneSystem ==
    ASSUME IInv, NEW d \in Disks, OnLvm(d), NEW p \in DOMAIN PartsOf(d)
    PROVE  PartsOf(d)[p].kind # "os"
BY LayoutAssumption DEF IInv, BoundsOK, OnLvm, HasKind, PartsOf

LEMMA NoOsFoundFlow ==
    ASSUME NEW d \in Disks, Ready(d), vm' = vm, faults' = 0, NoOsFound
    PROVE  Flow(d)'
<1> USE Fixed DEF Ready, Undisturbed, Flow
<1>1. pc = "detect" /\ job.disk = d /\ job.idx > Len(PartsOf(d)) /\ PartsOf(d) \in Seq(Part)
      /\ job.idx \in Nat \ {0}
  BY Parts DEF NoOsFound, Remaining, Memory, IInv, MemoryOK, Job
<1>2. \A p \in DOMAIN PartsOf(d) : PartsOf(d)[p].kind \in {"efi", "boot"}
  BY <1>1 DEF LoopInv, LoopOK, InLoop, Passed
<1>3. ~OnLvm(d) /\ ~Encrypted(d)
  BY <1>2 DEF OnLvm, HasKind, Repairable
<1>4. /\ UNCHANGED <<vg, active, attached, luks, assertStk, rootStk, bootMnt>> /\ pc' = "idle"
      /\ job' = NoJob
  BY DEF NoOsFound, Quit, lvm, disk
<1>5. 1 \in DOMAIN vm.actions
  BY ActionsThere
<1> QED  BY <1>1, <1>3, <1>4, <1>5
     DEF Routes, Memory, Groups, Volumes, Devices, Mounts,
         OnVolumes, InLoop, HostName, DiskName, Cloned, OwnName, Asleep, Locked, Peeking, InRoot, NoJob, NewJob

LEMMA SkipEfiFlow ==
    ASSUME NEW d \in Disks, Ready(d), vm' = vm, faults' = 0, SkipEfi
    PROVE  Flow(d)'
<1> USE Fixed DEF Ready, Undisturbed, Flow
<1>1. pc = "detect" /\ job.disk = d /\ job \in Job
  BY DEF SkipEfi, Memory, IInv, MemoryOK
<1>2. /\ UNCHANGED <<vg, active, attached, luks, assertStk, rootStk, bootMnt>> /\ pc' = "detect"
      /\ job' = [job EXCEPT !.idx = @ + 1]
  BY <1>1 DEF SkipEfi, NextPart, lvm, disk, mnt
<1> QED  BY <1>1, <1>2
     DEF Routes, Memory, Groups, Volumes, Devices, Mounts,
         OnVolumes, InLoop, HostName, DiskName, Cloned, OwnName, Asleep, Locked, Peeking, InRoot, Job

LEMMA Here ==
    ASSUME IInv, NEW d \in Disks, job.disk = d, Remaining
    PROVE  job.idx \in DOMAIN PartsOf(d) /\ This = PartsOf(d)[job.idx] /\ job.idx # 0
BY Parts DEF IInv, MemoryOK, Job, Remaining, This

LEMMA LvmGateFlow ==
    ASSUME NEW d \in Disks, Ready(d), vm' = vm, faults' = 0, LvmGate
    PROVE  Flow(d)'
<1> USE Fixed DEF Ready, Undisturbed, Flow
<1>1. pc = "detect" /\ job.disk = d /\ job \in Job /\ OnLvm(d)
  BY Here DEF LvmGate, Memory, OnLvm, HasKind, IInv, MemoryOK
<1>2. UNCHANGED <<vg, active, attached, luks, assertStk, rootStk, bootMnt>>
  BY DEF LvmGate, lvm, disk, mnt
<1>3. CASE job.lvs = "empty"
  <2>1. pc' = "idle" /\ job' = NoJob
    BY <1>3 DEF LvmGate, Quit
  <2>2. ~HostLvm /\ ~Encrypted(d)
    BY <1>1, <1>3 DEF Memory, InLoop
  <2> QED  BY <1>1, <1>2, <2>1, <2>2, ActionsThere
     DEF Routes, Memory, Groups, Volumes, Devices, Mounts,
         OnVolumes, InLoop, HostName, DiskName, Cloned, OwnName, Asleep, Locked, Peeking, InRoot, NoJob, NewJob
<1>4. CASE job.lvs = "rootvg"
  <2>1. ~(LvmInUse /\ ~vm.allowed)
    <3>1. vm.hostLvm => vm.allowed
      BY <1>1 DEF Repairable, Detachable, OnLvm
    <3>2. assertStk = <<>> /\ rootStk = <<>>
      BY <1>1 DEF Mounts, Peeking, InRoot
    <3> QED  BY <3>1, <3>2 DEF LvmInUse, UsrLeft
  <2>2. pc' = "fsckLv" /\ job' = job
    BY <1>4, <2>1 DEF LvmGate, Goto
  <2> QED  BY <1>1, <1>2, <1>4, <2>2
     DEF Routes, Memory, Groups, Volumes, Devices, Mounts,
         OnVolumes, InLoop, HostName, DiskName, Cloned, OwnName, Asleep, Locked, Peeking, InRoot
<1>5. job.lvs \in {"empty", "rootvg"}
  BY <1>1 DEF Memory, InLoop
<1> QED  BY <1>3, <1>4, <1>5
     DEF Routes, Memory, Groups, Volumes, Devices, Mounts,
         OnVolumes, InLoop, HostName, DiskName, Cloned, OwnName, Asleep, Locked, Peeking, InRoot

\* What can be mounted: what the disk has, while nothing else is mounted.
LEMMA Free ==
    ASSUME NEW d \in Disks, Ready(d), bootMnt = Host, assertStk = <<>>, rootStk = <<>>, NEW n \in Nat
    PROVE  ~MountedSomewhere(<<d, n>>)
BY Alone, RepairableThen DEF Ready, Undisturbed, MountedSomewhere, Layers

LEMMA PartThere ==
    ASSUME NEW d \in Disks, Ready(d), d \in attached, Encrypted(d) => luks = d,
           NEW p \in DOMAIN PartsOf(d), p # 0
    PROVE  CanMount(<<d, p>>, <<>>)
BY DEF CanMount, Readable, Encrypted

LEMMA VolumeThere ==
    ASSUME NEW d \in Disks, Ready(d), d \in active
    PROVE  CanMount(<<d, 0>>, <<>>)
BY DEF CanMount

LEMMA FsckGood ==
    ASSUME NEW d \in Disks, Ready(d), bootMnt = Host, assertStk = <<>>, rootStk = <<>>,
           NEW n \in Nat, CanMount(<<d, n>>, <<>>), NEW next, Fsck(<<d, n>>, next), faults' = 0
    PROVE  /\ pc' = next /\ job' = job
           /\ UNCHANGED <<vg, active, attached, luks, assertStk, rootStk, bootMnt>>
<1>1. ~Fails /\ Works /\ faults = 0
  BY Unfailing DEF Ready, Undisturbed
<1>2. ~MountedSomewhere(<<d, n>>) /\ CanMount(<<d, n>>, assertStk)
  BY Free
<1>3. ~Outcome(CanMount(<<d, n>>, assertStk), FALSE) /\ ~Outcome(~MountedSomewhere(<<d, n>>), FALSE)
  BY <1>1, <1>2 DEF Outcome
<1>4. Goto(next) /\ UNCHANGED assertStk
  BY <1>1, <1>3 DEF Fsck
<1> QED  BY <1>4 DEF Fsck, Goto, lvm, disk

LEMMA MountGood ==
    ASSUME NEW d \in Disks, Ready(d), assertStk = <<>>, NEW n \in Nat,
           CanMount(<<d, n>>, <<>>), NEW next, MountAssert(<<d, n>>, next), faults' = 0
    PROVE  /\ pc' = next /\ job' = job /\ Single(assertStk')
           /\ UNCHANGED <<vg, active, attached, luks, rootStk, bootMnt>>
<1>1. ~Outcome(CanMount(<<d, n>>, assertStk), FALSE)
  BY Unfailing DEF Outcome, Ready, Undisturbed
<1>2. Goto(next) /\ assertStk' = Push(<<d, n>>, <<>>)
  BY <1>1 DEF MountAssert
<1>3. Single(Push(<<d, n>>, <<>>))
  BY DEF Single, Push
<1> QED  BY <1>2, <1>3 DEF MountAssert, Goto, lvm, disk

LEMMA FsckPartFlow ==
    ASSUME NEW d \in Disks, Ready(d), vm' = vm, faults' = 0, FsckPart
    PROVE  Flow(d)'
<1> USE Fixed DEF Ready, Undisturbed, Flow
<1>1. /\ pc = "detect" /\ job.disk = d /\ d \in attached /\ (Encrypted(d) => luks = d)
      /\ job.idx \in DOMAIN PartsOf(d) /\ job.idx \in Nat \ {0}
      /\ assertStk = <<>> /\ rootStk = <<>> /\ bootMnt = Host
  BY Here DEF FsckPart, Memory, Devices, Locked, Mounts, Peeking, InRoot, IInv, MemoryOK, Job
<1>2. /\ UNCHANGED <<job, vg, active, attached, luks, assertStk, rootStk, bootMnt>>
      /\ pc' = "assertPart"
  BY <1>1, PartThere, FsckGood DEF FsckPart, PartDev
<1> QED  BY <1>1, <1>2
     DEF Routes, Memory, Groups, Volumes, Devices, Mounts,
         OnVolumes, InLoop, HostName, DiskName, Cloned, OwnName, Asleep, Locked, Peeking, InRoot

LEMMA AssertPartFlow ==
    ASSUME NEW d \in Disks, Ready(d), vm' = vm, faults' = 0, AssertPart
    PROVE  Flow(d)'
<1> USE Fixed DEF Ready, Undisturbed, Flow
<1>1. /\ pc = "assertPart" /\ job.disk = d /\ d \in attached /\ (Encrypted(d) => luks = d)
      /\ job.idx \in Nat \ {0} /\ assertStk = <<>>
  BY DEF AssertPart, Memory, Devices, Locked, Mounts, Peeking, IInv, MemoryOK, Job
<1>2. job.idx \in DOMAIN PartsOf(d)
  BY <1>1 DEF LoopInv, LoopOK, Tested
<1>3. /\ UNCHANGED <<job, vg, active, attached, luks, rootStk, bootMnt>>
      /\ pc' = "peek" /\ Single(assertStk')
  BY <1>1, <1>2, PartThere, MountGood DEF AssertPart, PartDev
<1> QED  BY <1>1, <1>3
     DEF Routes, Memory, Groups, Volumes, Devices, Mounts,
         OnVolumes, InLoop, HostName, DiskName, Cloned, OwnName, Asleep, Locked, Peeking, InRoot

LEMMA PeekFlow ==
    ASSUME NEW d \in Disks, Ready(d), vm' = vm, faults' = 0, Peek
    PROVE  Flow(d)'
<1> USE Fixed DEF Ready, Undisturbed, Flow
<1>1. /\ pc = "peek" /\ job.disk = d /\ job \in Job /\ Single(assertStk)
  BY DEF Peek, Memory, Mounts, Peeking, IInv, MemoryOK
<1>2. job.idx \in DOMAIN PartsOf(d) /\ This = PartsOf(d)[job.idx]
  BY <1>1 DEF LoopInv, LoopOK, Tested, This
<1>3. ~Outcome(assertStk # <<>>, FALSE)
  BY <1>1, Unfailing DEF Outcome, Single
<1>4. UNCHANGED <<vg, active, attached, luks, rootStk, bootMnt>> /\ assertStk' = <<>>
  BY <1>1, <1>3 DEF Peek, Single, lvm, disk
<1>5. CASE This.kind = "os"
  <2>1. pc' = "scripts" /\ job' = [job EXCEPT !.os = job.idx]
    BY <1>3, <1>5 DEF Peek
  <2>2. ~OnLvm(d)
    BY <1>2, <1>5, OneSystem
  <2> QED  BY <1>1, <1>2, <1>4, <2>1, <2>2
     DEF Routes, Memory, Groups, Volumes, Devices, Mounts,
         OnVolumes, InLoop, HostName, DiskName, Cloned, OwnName, Asleep, Locked, Peeking, InRoot, Job
<1>6. CASE This.kind # "os"
  <2>1. pc' = "detect" /\ job' = [job EXCEPT !.idx = @ + 1]
    BY <1>3, <1>6 DEF Peek, NextPart
  <2> QED  BY <1>1, <1>4, <2>1
     DEF Routes, Memory, Groups, Volumes, Devices, Mounts,
         OnVolumes, InLoop, HostName, DiskName, Cloned, OwnName, Asleep, Locked, Peeking, InRoot, Job
<1> QED  BY <1>5, <1>6
     DEF Routes, Memory, Groups, Volumes, Devices, Mounts,
         OnVolumes, InLoop, HostName, DiskName, Cloned, OwnName, Asleep, Locked, Peeking, InRoot

\* While the disk's group has the name, /dev/rootvg/rootlv is its root volume.
LEMMA RootIs ==
    ASSUME NEW d \in Disks, Ready(d), d \in active, vg[d] = "rootvg"
    PROVE  RootLv = <<d, 0>> /\ DevDir("rootvg")
<1>1. \A e \in active : vg[e] = "rootvg" => e = d
  BY DEF Ready, IInv, NamesApart
<1> QED  BY <1>1 DEF RootLv, DevDir

LEMMA KidStays ==
    ASSUME NEW stk \in Seq(Layer), Single(stk), NEW k \in Kids
    PROVE  Single(AddKid(k, stk))
<1> DEFINE l == [Head(stk) EXCEPT !.kids = @ \cup {k}]
<1>1. Head(stk) \in Layer
  BY HeadLayer DEF Single
<1>2. l \in Layer
  BY <1>1 DEF Layer
<1> HIDE DEF l
<1>3. Single(<<l>> \o <<>>)
  BY <1>2 DEF Single
<1> QED  BY <1>3 DEF Single, AddKid, l

LEMMA FsckLvFlow ==
    ASSUME NEW d \in Disks, Ready(d), vm' = vm, faults' = 0, FsckLv
    PROVE  Flow(d)'
<1> USE Fixed DEF Ready, Undisturbed, Flow
<1>1. /\ pc = "fsckLv" /\ job.disk = d /\ OnLvm(d) /\ d \in active /\ vg[d] = "rootvg"
      /\ assertStk = <<>> /\ rootStk = <<>> /\ bootMnt = Host
  BY DEF FsckLv, Memory, Routes, Volumes, OnVolumes, Groups, DiskName, Cloned, Devices, Mounts, Peeking,
     InRoot
<1>2. Fsck(<<d, 0>>, "assertLv")
  BY <1>1, RootIs DEF FsckLv
<1>3. /\ UNCHANGED <<job, vg, active, attached, luks, assertStk, rootStk, bootMnt>>
      /\ pc' = "assertLv"
  BY <1>1, <1>2, VolumeThere, FsckGood
<1> QED  BY <1>1, <1>3
     DEF Routes, Memory, Groups, Volumes, Devices, Mounts,
         OnVolumes, InLoop, HostName, DiskName, Cloned, OwnName, Asleep, Locked, Peeking, InRoot

LEMMA AssertLvFlow ==
    ASSUME NEW d \in Disks, Ready(d), vm' = vm, faults' = 0, AssertLv
    PROVE  Flow(d)'
<1> USE Fixed DEF Ready, Undisturbed, Flow
<1>1. /\ pc = "assertLv" /\ job.disk = d /\ OnLvm(d) /\ d \in active /\ vg[d] = "rootvg"
      /\ assertStk = <<>>
  BY DEF AssertLv, Memory, Routes, Volumes, OnVolumes, Groups, DiskName, Cloned, Mounts, Peeking
<1>2. MountAssert(<<d, 0>>, "assertUsr")
  BY <1>1, RootIs DEF AssertLv
<1>3. /\ UNCHANGED <<job, vg, active, attached, luks, rootStk, bootMnt>>
      /\ pc' = "assertUsr" /\ Single(assertStk')
  BY <1>1, <1>2, VolumeThere, MountGood
<1> QED  BY <1>1, <1>3
     DEF Routes, Memory, Groups, Volumes, Devices, Mounts,
         OnVolumes, InLoop, HostName, DiskName, Cloned, OwnName, Asleep, Locked, Peeking, InRoot

LEMMA AssertUsrFlow ==
    ASSUME NEW d \in Disks, Ready(d), vm' = vm, faults' = 0, AssertUsr
    PROVE  Flow(d)'
<1> USE Fixed DEF Ready, Undisturbed, Flow
<1>1. pc = "assertUsr" /\ job.disk = d /\ OnLvm(d) /\ Single(assertStk) /\ assertStk \in Seq(Layer)
  BY DEF AssertUsr, Memory, Routes, Mounts, Peeking, IInv, StacksOK
<1>2. /\ UNCHANGED <<job, vg, active, attached, luks, rootStk, bootMnt>>
      /\ pc' = "readLv" /\ assertStk' = AddKid("usr", assertStk)
  BY Unfailing DEF AssertUsr, Goto, lvm, disk
<1>3. Single(assertStk')
  BY <1>1, <1>2, KidStays DEF Kids
<1> QED  BY <1>1, <1>2, <1>3
     DEF Routes, Memory, Groups, Volumes, Devices, Mounts,
         OnVolumes, InLoop, HostName, DiskName, Cloned, OwnName, Asleep, Locked, Peeking, InRoot

LEMMA ReadLvFlow ==
    ASSUME NEW d \in Disks, Ready(d), vm' = vm, faults' = 0, ReadLv
    PROVE  Flow(d)'
<1> USE Fixed DEF Ready, Undisturbed, Flow
<1>1. pc = "readLv" /\ job.disk = d /\ OnLvm(d) /\ job \in Job
  BY DEF ReadLv, Memory, Routes, IInv, MemoryOK
<1>2. /\ UNCHANGED <<vg, active, attached, luks, assertStk, rootStk, bootMnt>>
      /\ pc' = "unassertLv" /\ job' = [job EXCEPT !.os = job.idx]
  BY Unfailing DEF ReadLv, lvm, disk, mnt
<1> QED  BY <1>1, <1>2
     DEF Routes, Memory, Groups, Volumes, Devices, Mounts,
         OnVolumes, InLoop, HostName, DiskName, Cloned, OwnName, Asleep, Locked, Peeking, InRoot, Job

LEMMA UmountGood ==
    ASSUME faults = 0, faults' = 0, NEW stk, Single(stk), NEW new, NEW ok \in BOOLEAN,
           UmountR(stk, new, ok)
    PROVE  new = <<>>
<1>1. ok
  BY Certain DEF UmountR, Single
<1> QED  BY <1>1 DEF UmountR, Single

LEMMA UnassertLvFlow ==
    ASSUME NEW d \in Disks, Ready(d), vm' = vm, faults' = 0, UnassertLv
    PROVE  Flow(d)'
<1> USE Fixed DEF Ready, Undisturbed, Flow
<1>1. pc = "unassertLv" /\ job.disk = d /\ OnLvm(d) /\ Single(assertStk)
  BY DEF UnassertLv, Memory, Routes, Mounts, Peeking
<1>2. /\ UNCHANGED <<job, vg, active, attached, luks, rootStk, bootMnt>> /\ pc' = "scripts"
  BY DEF UnassertLv, Goto, lvm, disk
<1>3. assertStk' = <<>>
  BY <1>1, UmountGood DEF UnassertLv
<1> QED  BY <1>1, <1>2, <1>3
     DEF Routes, Memory, Groups, Volumes, Devices, Mounts,
         OnVolumes, InLoop, HostName, DiskName, Cloned, OwnName, Asleep, Locked, Peeking, InRoot

LEMMA Cleanup ==
    ASSUME NEW d \in Disks, Ready(d), job.disk = d, OnLvm(d) => job.lvs = "rootvg"
    PROVE  CleanupEntry = IF Encrypted(d) THEN IF OnLvm(d) THEN "adeDeactivate" ELSE "closeCrypt"
                          ELSE IF OnLvm(d) THEN "disable" ELSE "finish"
<1>1. ~OnLvm(d) => job.lvs = "none"
  BY DEF Ready, Flow, Memory
<1>2. Encrypted(d) \in BOOLEAN /\ OnLvm(d) \in BOOLEAN
  BY Bools DEF Ready
<1> QED  BY <1>1, <1>2 DEF CleanupEntry

LEMMA ScriptsFlow ==
    ASSUME NEW d \in Disks, Ready(d), vm' = vm, faults' = 0, LoadScripts \/ CheckActions
    PROVE  Flow(d)'
<1> USE Fixed DEF Ready, Undisturbed, Flow
<1>1. /\ pc \in {"scripts", "available"} /\ job.disk = d /\ (OnLvm(d) => job.lvs = "rootvg")
  BY DEF LoadScripts, CheckActions, Memory, OnVolumes
<1>2. /\ UNCHANGED <<job, vg, active, attached, luks, assertStk, rootStk, bootMnt>>
      /\ \/ pc = "scripts" /\ pc' = "available"
         \/ pc = "available" /\ pc' = "mountRoot"
         \/ pc = "available" /\ pc' = CleanupEntry
  BY Unfailing DEF LoadScripts, CheckActions, Goto, CleanupThenFail, lvm, disk, mnt
<1> QED  BY <1>1, <1>2, Cleanup, Bools
     DEF Routes, Memory, Groups, Volumes, Devices, Mounts,
         OnVolumes, InLoop, HostName, DiskName, Cloned, OwnName, Asleep, Locked, Peeking, InRoot

LEMMA StrictGood ==
    ASSUME faults = 0, faults' = 0, NEW possible \in BOOLEAN, possible, NEW stk, NEW next,
           StrictMount(possible, stk, next)
    PROVE  /\ pc' = next /\ rootStk' = stk
           /\ UNCHANGED <<job, vg, active, attached, luks, assertStk, bootMnt>>
BY Certain DEF StrictMount, Goto, OnRoot, lvm, disk

LEMMA PushSingle == \A dev : Single(Push(dev, <<>>))
BY DEF Single, Push

LEMMA MountRootFlow ==
    ASSUME NEW d \in Disks, Ready(d), vm' = vm, faults' = 0, MountRoot
    PROVE  Flow(d)'
<1> USE Fixed DEF Ready, Undisturbed, Flow
<1>1. /\ pc = "mountRoot" /\ job.disk = d /\ rootStk = <<>> /\ d \in attached
      /\ Encrypted(d) => luks = d
      /\ OnLvm(d) => job.lvs = "rootvg" /\ d \in active /\ vg[d] = "rootvg"
      /\ ~OnLvm(d) => job.lvs = "none" /\ job.os \in DOMAIN PartsOf(d)
  BY DEF MountRoot, Memory, OnVolumes, Mounts, InRoot, Devices, Locked, Volumes, Groups, DiskName, Cloned
<1>2. ~Fails /\ faults = 0
  BY Unfailing
<1>3. CASE OnLvm(d)
  <2>1. PICK e \in Entities : /\ e \in active /\ vg[e] = "rootvg"
                              /\ StrictMount(CanMount(<<e, 0>>, rootStk), Push(<<e, 0>>, rootStk),
                                             "mountLvs")
    BY <1>1, <1>2, <1>3 DEF MountRoot, MountOsPartition, MountOsVolume
  <2>2. e = d
    BY <1>1, <1>3, <2>1 DEF IInv, NamesApart
  <2>3. CanMount(<<e, 0>>, rootStk) = TRUE
    BY <1>1, <1>3, <2>2, VolumeThere DEF CanMount
  <2>4. /\ pc' = "mountLvs" /\ rootStk' = Push(<<e, 0>>, rootStk)
        /\ UNCHANGED <<job, vg, active, attached, luks, assertStk, bootMnt>>
    BY <1>2, <2>1, <2>3, StrictGood
  <2>5. Single(rootStk')
    BY <1>1, <2>4, PushSingle
  <2> QED  BY <1>1, <1>3, <2>4, <2>5
     DEF Routes, Memory, Groups, Volumes, Devices, Mounts,
         OnVolumes, InLoop, HostName, DiskName, Cloned, OwnName, Asleep, Locked, Peeking, InRoot
<1>4. CASE ~OnLvm(d)
  <2>1. StrictMount(CanMount(<<d, job.os>>, rootStk), Push(<<d, job.os>>, rootStk), "mountBoot")
    BY <1>1, <1>2, <1>4 DEF MountRoot, MountOsPartition, MountOsVolume
  <2>2. job.os # 0
    BY <1>1, <1>4, Parts
  <2>3. CanMount(<<d, job.os>>, rootStk) = TRUE
    BY <1>1, <1>4, <2>2, PartThere DEF CanMount
  <2>4. /\ pc' = "mountBoot" /\ rootStk' = Push(<<d, job.os>>, rootStk)
        /\ UNCHANGED <<job, vg, active, attached, luks, assertStk, bootMnt>>
    BY <1>2, <2>1, <2>3, StrictGood
  <2>5. Single(rootStk')
    BY <1>1, <2>4, PushSingle
  <2> QED  BY <1>1, <1>4, <2>4, <2>5
     DEF Routes, Memory, Groups, Volumes, Devices, Mounts,
         OnVolumes, InLoop, HostName, DiskName, Cloned, OwnName, Asleep, Locked, Peeking, InRoot
<1> QED  BY <1>3, <1>4
     DEF Routes, Memory, Groups, Volumes, Devices, Mounts,
         OnVolumes, InLoop, HostName, DiskName, Cloned, OwnName, Asleep, Locked, Peeking, InRoot

\* Mounting one more part of the root, and nothing else.
KidStep(d, from, to) ==
    /\ pc = from /\ pc' = to /\ job.disk = d /\ Single(rootStk')
    /\ UNCHANGED <<job, vg, active, attached, luks, assertStk, bootMnt>>

LEMMA KidGood ==
    ASSUME NEW d \in Disks, Ready(d), faults' = 0, NEW from \in InRoot, pc = from, NEW k \in Kids,
           NEW next, StrictMount(TRUE, AddKid(k, rootStk), next)
    PROVE  KidStep(d, from, next)
<1>1. Single(rootStk) /\ rootStk \in Seq(Layer) /\ job.disk = d /\ faults = 0
  BY DEF Ready, Flow, Mounts, InRoot, IInv, StacksOK, Memory, Undisturbed
<1>2. Single(AddKid(k, rootStk))
  BY <1>1, KidStays
<1>3. /\ pc' = next /\ rootStk' = AddKid(k, rootStk)
      /\ UNCHANGED <<job, vg, active, attached, luks, assertStk, bootMnt>>
  BY <1>1, StrictGood
<1> QED  BY <1>1, <1>2, <1>3 DEF KidStep

LEMMA KidOrNone ==
    ASSUME NEW d \in Disks, Ready(d), faults' = 0, NEW from \in InRoot, pc = from,
           from \in {"mountBoot", "mountEfi"}, NEW k \in Kids, NEW next, MountKid(k, next)
    PROVE  KidStep(d, from, next)
<1>1. job.disk = d /\ d \in attached /\ Single(rootStk)
  BY DEF Ready, Flow, Memory, Devices, Mounts, InRoot
<1>2. CASE HasKind(job.disk, k)
  <2>1. StrictMount(TRUE, AddKid(k, rootStk), next)
    BY <1>1, <1>2 DEF MountKid
  <2> QED  BY <2>1, KidGood
<1>3. CASE ~HasKind(job.disk, k)
  BY <1>1, <1>3 DEF MountKid, Goto, OnRoot, lvm, disk, KidStep
<1> QED  BY <1>2, <1>3

LEMMA MountLvsFlow ==
    ASSUME NEW d \in Disks, Ready(d), vm' = vm, faults' = 0, MountLvs
    PROVE  Flow(d)'
<1> USE Fixed DEF Ready, Undisturbed, Flow
<1>1. pc = "mountLvs" /\ OnLvm(d) /\ job.disk = d /\ job.lvs = "rootvg" /\ ~OddNames(d)
  BY DEF MountLvs, Memory, Routes, OnVolumes, Repairable, OnLvm
<1>2. KidStep(d, "mountLvs", "mountBoot")
  BY <1>1, KidGood DEF MountLvs, Kids, InRoot
<1> QED  BY <1>1, <1>2
     DEF Routes, Memory, Groups, Volumes, Devices, Mounts,
         OnVolumes, InLoop, HostName, DiskName, Cloned, OwnName, Asleep, Locked, Peeking, InRoot, KidStep

LEMMA MountBootFlow ==
    ASSUME NEW d \in Disks, Ready(d), vm' = vm, faults' = 0, MountBoot
    PROVE  Flow(d)'
<1> USE Fixed DEF Ready, Undisturbed, Flow
<1>1. KidStep(d, "mountBoot", "mountEfi")
  BY KidOrNone DEF MountBoot, Kids, InRoot
<1> QED  BY <1>1
     DEF Routes, Memory, Groups, Volumes, Devices, Mounts,
         OnVolumes, InLoop, HostName, DiskName, Cloned, OwnName, Asleep, Locked, Peeking, InRoot, KidStep

LEMMA MountEfiFlow ==
    ASSUME NEW d \in Disks, Ready(d), vm' = vm, faults' = 0, MountEfi
    PROVE  Flow(d)'
<1> USE Fixed DEF Ready, Undisturbed, Flow
<1>1. KidStep(d, "mountEfi", "bind")
  BY KidOrNone DEF MountEfi, Kids, InRoot
<1> QED  BY <1>1
     DEF Routes, Memory, Groups, Volumes, Devices, Mounts,
         OnVolumes, InLoop, HostName, DiskName, Cloned, OwnName, Asleep, Locked, Peeking, InRoot, KidStep

LEMMA BindFlow ==
    ASSUME NEW d \in Disks, Ready(d), vm' = vm, faults' = 0, Bind
    PROVE  Flow(d)'
<1> USE Fixed DEF Ready, Undisturbed, Flow
<1>1. Goto("run") /\ OnRoot(AddKid("bind", rootStk)) /\ pc = "bind"
  BY Unfailing DEF Bind
<1>2. Single(rootStk) /\ rootStk \in Seq(Layer) /\ job.disk = d
  BY <1>1 DEF Mounts, InRoot, IInv, StacksOK, Memory
<1>3. KidStep(d, "bind", "run")
  BY <1>1, <1>2, KidStays DEF Kids, Goto, OnRoot, lvm, disk, KidStep
<1> QED  BY <1>3
     DEF Routes, Memory, Groups, Volumes, Devices, Mounts,
         OnVolumes, InLoop, HostName, DiskName, Cloned, OwnName, Asleep, Locked, Peeking, InRoot, KidStep

LEMMA RunFlow ==
    ASSUME NEW d \in Disks, Ready(d), vm' = vm, faults' = 0, RunChrootCli \/ RunRepairScript \/ Report
    PROVE  Flow(d)'
<1> USE Fixed DEF Ready, Undisturbed, Flow
<1>1. /\ pc \in {"run", "report"} /\ job.disk = d /\ job \in Job
      /\ job.todo \in DOMAIN vm.actions /\ vm.actions[job.todo] # "mixed" /\ vm.actions \in Seq(Actions)
  BY ScenarioAssumption DEF RunChrootCli, RunRepairScript, Report, Memory, Repairable, IInv, MemoryOK,
     BoundsOK, Scenario
<1>2. UNCHANGED <<vg, active, attached, luks, assertStk, rootStk, bootMnt>>
  BY DEF RunChrootCli, RunRepairScript, Report, lvm, disk, mnt
<1>3. \/ pc = "run" /\ pc' = "report" /\ job' = job
      \/ pc = "report" /\ pc' = "umount" /\ job' = job
      \/ /\ pc' = "run" /\ pc = "run" /\ job.todo < Len(vm.actions)
         /\ job' = [job EXCEPT !.todo = @ + 1]
  <2>1. CASE RunChrootCli
    BY <2>1, Unfailing DEF RunChrootCli, Goto
  <2>2. CASE Report
    BY <2>2, Unfailing DEF Report, Goto
  <2>3. CASE RunRepairScript
    <3>1. ~Outcome(vm.actions[job.todo] # "mixed", FALSE)
      BY <1>1, Unfailing DEF Outcome
    <3> QED  BY <2>3, <3>1 DEF RunRepairScript, Goto
  <2> QED  BY <2>1, <2>2, <2>3
<1>4. job'.todo \in DOMAIN vm.actions /\ job'.disk = d /\ job'.lvs = job.lvs /\ job'.saved = job.saved
  <2>1. job'.todo \in 1 .. Len(vm.actions) /\ job'.disk = d /\ job'.lvs = job.lvs
        /\ job'.saved = job.saved
    BY <1>1, <1>3 DEF Job
  <2> QED  BY <1>1, <2>1
<1> QED  BY <1>1, <1>2, <1>3, <1>4
     DEF Routes, Memory, Groups, Volumes, Devices, Mounts,
         OnVolumes, InLoop, HostName, DiskName, Cloned, OwnName, Asleep, Locked, Peeking, InRoot

LEMMA UmountFlow ==
    ASSUME NEW d \in Disks, Ready(d), vm' = vm, faults' = 0, Umount
    PROVE  Flow(d)'
<1> USE Fixed DEF Ready, Undisturbed, Flow
<1>1. /\ pc = "umount" /\ job.disk = d /\ Single(rootStk) /\ (OnLvm(d) => job.lvs = "rootvg")
  BY DEF Umount, Memory, OnVolumes, Mounts, InRoot
<1>2. rootStk' = <<>>
  BY <1>1, UmountGood DEF Umount
<1>3. /\ UNCHANGED <<job, vg, active, attached, luks, assertStk, bootMnt>>
      /\ pc' = CleanupEntry
  BY DEF Umount, Goto, lvm, disk
<1> QED  BY <1>1, <1>2, <1>3, Cleanup, Bools
     DEF Routes, Memory, Groups, Volumes, Devices, Mounts,
         OnVolumes, InLoop, HostName, DiskName, Cloned, OwnName, Asleep, Locked, Peeking, InRoot

------------------------------------------------------------------------------
(* Giving back. *)

\* Nothing of the disk is mounted when its volume group is deactivated.
LEMMA DeactivateGood ==
    ASSUME NEW d \in Disks, Ready(d), faults' = 0, OnLvm(d), Seen(d), pc \in {"disable", "adeDeactivate"},
           NEW ok \in BOOLEAN, VgDeactivate("rootvg", ok)
    PROVE  ok /\ active' = active \ {d}
<1>1. vg[d] = "rootvg" /\ vg[Host] # "rootvg" /\ assertStk = <<>> /\ rootStk = <<>> /\ d # Host
  BY Alone, RepairableThen DEF Ready, Undisturbed, Flow, Groups, HostName, DiskName, OwnName, Cloned, Mounts, Peeking,
     InRoot
<1>2. Listed("rootvg") = {d}
  BY <1>1, Views, ReadyPlain
<1>3. ~VgMounted(d)
  BY <1>1 DEF VgMounted
<1>4. ok
  BY <1>2, <1>3, Unfailing DEF VgDeactivate, Outcome, Entities, Ready, Undisturbed
<1> QED  BY <1>2, <1>4 DEF VgDeactivate

LEMMA DisableFlow ==
    ASSUME NEW d \in Disks, Ready(d), vm' = vm, faults' = 0, Disable
    PROVE  Flow(d)'
<1> USE Fixed DEF Ready, Undisturbed, Flow
<1>1. pc = "disable" /\ job.disk = d /\ OnLvm(d) /\ ~Encrypted(d) /\ Seen(d) /\ d # Host
  BY Alone, RepairableThen DEF Disable, Memory, Routes, Devices, Seen
<1>2. /\ active' = active \ {d} /\ pc' = IF ~vm.nvme THEN "delete" ELSE "renameBack"
      /\ UNCHANGED <<job, vg, attached, luks, assertStk, rootStk, bootMnt>>
  BY <1>1, DeactivateGood DEF Disable, Goto, disk, mnt
<1>3. vm.nvme => ~HostLvm
  BY <1>1 DEF Repairable, Detachable, OnLvm, HostLvm
<1> QED  BY <1>1, <1>2, <1>3, Bools
     DEF Routes, Memory, Groups, Volumes, Devices, Mounts,
         OnVolumes, InLoop, HostName, DiskName, Cloned, OwnName, Asleep, Locked, Peeking, InRoot

LEMMA DeleteFlow ==
    ASSUME NEW d \in Disks, Ready(d), vm' = vm, faults' = 0, Delete
    PROVE  Flow(d)'
<1> USE Fixed DEF Ready, Undisturbed, Flow
<1>1. pc = "delete" /\ job.disk = d /\ OnLvm(d) /\ ~Encrypted(d) /\ ~vm.nvme /\ d \in attached
  BY DEF Delete, Memory, Routes, Devices
<1>2. ~Outcome(job.disk \in attached, FALSE)
  BY <1>1, Unfailing DEF Outcome
<1>3. /\ attached' = attached \ {d} /\ pc' = "renameBack"
      /\ UNCHANGED <<job, vg, active, luks, assertStk, rootStk, bootMnt>>
  BY <1>1, <1>2 DEF Delete, Goto, lvm, mnt
<1> QED  BY <1>1, <1>3
     DEF Routes, Memory, Groups, Volumes, Devices, Mounts,
         OnVolumes, InLoop, HostName, DiskName, Cloned, OwnName, Asleep, Locked, Peeking, InRoot

LEMMA HostRenamed ==
    ASSUME NEW d \in Disks, Ready(d), faults' = 0, HostLvm, vg[Host] = "oldvg", vg[d] = "rootvg",
           ~Seen(d), d \notin active, NEW ok \in BOOLEAN, VgRename("oldvg", "rootvg", ok)
    PROVE  vg'[Host] = "rootvg" /\ vg'[d] = "rootvg"
<1>1. Listed("oldvg") = {Host} /\ ~Taken("rootvg")
  BY Views, ReadyPlain
<1>2. Entities = {d, Host} /\ d # Host
  BY Alone, RepairableThen DEF Ready, Undisturbed
<1>3. ok
  BY <1>1, <1>2, Unfailing DEF VgRename, Outcome, Ready, Undisturbed
<1> QED  BY <1>1, <1>2, <1>3 DEF VgRename

LEMMA RenameOldvgFlow ==
    ASSUME NEW d \in Disks, Ready(d), vm' = vm, faults' = 0, RenameOldvg
    PROVE  Flow(d)'
<1> USE Fixed DEF Ready, Undisturbed, Flow
<1>1. /\ pc = "renameBack" /\ job.disk = d /\ OnLvm(d) /\ ~Encrypted(d) /\ vg[d] = "rootvg"
      /\ IF HostLvm THEN vg[Host] = "oldvg" ELSE vg[Host] = "none"
  BY Bools DEF RenameOldvg, Memory, Routes, Groups, HostName, DiskName, OwnName, Cloned
<1>2. pc' = "rescan" /\ UNCHANGED <<job, active, attached, luks, assertStk, rootStk, bootMnt>>
  BY DEF RenameOldvg, Goto, disk, mnt
<1>3. PICK ok \in BOOLEAN : VgRename("oldvg", "rootvg", ok)
  BY DEF RenameOldvg
<1>4. CASE HostLvm
  <2>1. ~vm.nvme
    BY <1>1, <1>4 DEF Repairable, Detachable, OnLvm, HostLvm
  <2>2. ~Seen(d) /\ d \notin active
    BY <1>1, <1>4, <2>1 DEF Seen, Devices, Volumes, Asleep
  <2>3. vg'[Host] = "rootvg" /\ vg'[d] = "rootvg"
    BY <1>1, <1>3, <1>4, <2>2, HostRenamed
  <2> QED  BY <1>1, <1>2, <1>4, <2>3
     DEF Routes, Memory, Groups, Volumes, Devices, Mounts,
         OnVolumes, InLoop, HostName, DiskName, Cloned, OwnName, Asleep, Locked, Peeking, InRoot
<1>5. CASE ~HostLvm
  <2>1. Listed("oldvg") = {}
    BY <1>1, <1>5, Views, ReadyPlain
  <2>2. vg'[d] = vg[d] /\ vg'[Host] = vg[Host]
    BY <1>3, <2>1 DEF VgRename, Entities
  <2> QED  BY <1>1, <1>2, <1>5, <2>2
     DEF Routes, Memory, Groups, Volumes, Devices, Mounts,
         OnVolumes, InLoop, HostName, DiskName, Cloned, OwnName, Asleep, Locked, Peeking, InRoot
<1> QED  BY <1>4, <1>5
     DEF Routes, Memory, Groups, Volumes, Devices, Mounts,
         OnVolumes, InLoop, HostName, DiskName, Cloned, OwnName, Asleep, Locked, Peeking, InRoot

LEMMA RescanFlow ==
    ASSUME NEW d \in Disks, Ready(d), vm' = vm, faults' = 0, Rescan
    PROVE  Flow(d)'
<1> USE Fixed DEF Ready, Undisturbed, Flow
<1>1. /\ pc = "rescan" /\ job.disk = d /\ OnLvm(d) /\ ~Encrypted(d) /\ vg[d] = "rootvg" /\ job \in Job
      /\ HostLvm => vg[Host] = "rootvg"
      /\ bootMnt = Host
  BY DEF Rescan, Memory, Routes, Groups, HostName, DiskName, OwnName, Cloned, Devices, IInv, MemoryOK
<1>2. /\ pc' = "rescanMounts" /\ job' = [job EXCEPT !.saved = Host]
      /\ UNCHANGED <<vg, luks, assertStk, rootStk>>
      /\ attached' = attached \cup {d} /\ bootMnt' \in {Host, d}
      /\ active' \in {active, active \cup {d}}
      /\ HostLvm => active' = active
  <2>1. HostLvm => Clash(d)
    BY <1>1, Views, ReadyPlain
  <2>2. AutoActivated(d) \in {active, active \cup {d}} /\ (HostLvm => AutoActivated(d) = active)
    BY <2>1 DEF AutoActivated
  <2> QED  BY <1>1, <2>2, Unfailing DEF Rescan
<1> QED  BY <1>1, <1>2, Alone, RepairableThen
     DEF Routes, Memory, Groups, Volumes, Devices, Mounts,
         OnVolumes, InLoop, HostName, DiskName, Cloned, OwnName, Asleep, Locked, Peeking, InRoot, Job

LEMMA RescanMountsFlow ==
    ASSUME NEW d \in Disks, Ready(d), vm' = vm, faults' = 0, RescanMounts
    PROVE  Flow(d)'
<1> USE Fixed DEF Ready, Undisturbed, Flow
<1>1. /\ pc = "rescanMounts" /\ job.disk = d /\ OnLvm(d) /\ ~Encrypted(d)
      /\ bootMnt = Host \/ job.saved = Host
      /\ job.saved \in {Nobody, Host}
  BY DEF RescanMounts, Memory, Routes, Devices
<1>2. /\ pc' = "finish" /\ bootMnt' = Host
      /\ UNCHANGED <<job, vg, active, attached, luks, assertStk, rootStk>>
  BY <1>1, Alone, RepairableThen, Unfailing DEF RescanMounts, Goto, lvm, disk
<1> QED  BY <1>1, <1>2
     DEF Routes, Memory, Groups, Volumes, Devices, Mounts,
         OnVolumes, InLoop, HostName, DiskName, Cloned, OwnName, Asleep, Locked, Peeking, InRoot

LEMMA AdeDeactivateFlow ==
    ASSUME NEW d \in Disks, Ready(d), vm' = vm, faults' = 0, AdeDeactivate
    PROVE  Flow(d)'
<1> USE Fixed DEF Ready, Undisturbed, Flow
<1>1. pc = "adeDeactivate" /\ job.disk = d /\ OnLvm(d) /\ Encrypted(d) /\ Seen(d) /\ d # Host
  BY Alone, RepairableThen DEF AdeDeactivate, Memory, Routes, Devices, Seen, Locked
<1>2. /\ active' = active \ {d} /\ pc' = "adeClose"
      /\ UNCHANGED <<job, vg, attached, luks, assertStk, rootStk, bootMnt>>
  BY <1>1, DeactivateGood DEF AdeDeactivate, Goto, disk, mnt
<1> QED  BY <1>1, <1>2
     DEF Routes, Memory, Groups, Volumes, Devices, Mounts,
         OnVolumes, InLoop, HostName, DiskName, Cloned, OwnName, Asleep, Locked, Peeking, InRoot

LEMMA CloseGood ==
    ASSUME NEW d \in Disks, Ready(d), faults' = 0, luks = d, d \notin active, assertStk = <<>>,
           rootStk = <<>>, NEW ok \in BOOLEAN, CryptClose(ok)
    PROVE  ok /\ luks' = Nobody
<1>1. ~LuksInUse
  BY DEF LuksInUse
<1>2. ok
  BY <1>1, Alone, RepairableThen, Unfailing DEF CryptClose, Outcome, Ready, Undisturbed
<1> QED  BY <1>2 DEF CryptClose

LEMMA AdeCloseFlow ==
    ASSUME NEW d \in Disks, Ready(d), vm' = vm, faults' = 0, AdeClose
    PROVE  Flow(d)'
<1> USE Fixed DEF Ready, Undisturbed, Flow
<1>1. /\ pc = "adeClose" /\ job.disk = d /\ OnLvm(d) /\ Encrypted(d) /\ luks = d /\ d \notin active
      /\ assertStk = <<>> /\ rootStk = <<>> /\ (HostLvm => vg[Host] = "oldvg") /\ vg[d] = "rootvg"
  BY DEF AdeClose, Memory, Routes, Devices, Locked, Volumes, Asleep, Mounts, Peeking, InRoot, Groups,
     HostName, DiskName, OwnName, Cloned
<1>2. DevDir("oldvg") <=> HostLvm
  BY <1>1, Views, ReadyPlain
<1>3. /\ luks' = Nobody /\ pc' = IF HostLvm THEN "adeRenameBack" ELSE "finish"
      /\ UNCHANGED <<job, vg, active, attached, assertStk, rootStk, bootMnt>>
  BY <1>1, <1>2, CloseGood DEF AdeClose, Goto, lvm, mnt
<1> QED  BY <1>1, <1>3, Bools
     DEF Routes, Memory, Groups, Volumes, Devices, Mounts,
         OnVolumes, InLoop, HostName, DiskName, Cloned, OwnName, Asleep, Locked, Peeking, InRoot

LEMMA AdeRenameBackFlow ==
    ASSUME NEW d \in Disks, Ready(d), vm' = vm, faults' = 0, AdeRenameBack
    PROVE  Flow(d)'
<1> USE Fixed DEF Ready, Undisturbed, Flow
<1>1. /\ pc = "adeRenameBack" /\ job.disk = d /\ OnLvm(d) /\ HostLvm /\ Encrypted(d)
      /\ luks = Nobody /\ d \notin active /\ vg[Host] = "oldvg" /\ vg[d] = "rootvg" /\ d # Nobody
  BY Alone, RepairableThen DEF AdeRenameBack, Memory, Routes, Devices, Locked, Volumes, Asleep, Groups, HostName,
     DiskName, OwnName, Cloned
<1>2. vg'[Host] = "rootvg" /\ vg'[d] = "rootvg"
  BY <1>1, HostRenamed DEF AdeRenameBack, Seen
<1>3. pc' = "finish" /\ UNCHANGED <<job, active, attached, luks, assertStk, rootStk, bootMnt>>
  BY DEF AdeRenameBack, Goto, disk, mnt
<1> QED  BY <1>1, <1>2, <1>3
     DEF Routes, Memory, Groups, Volumes, Devices, Mounts,
         OnVolumes, InLoop, HostName, DiskName, Cloned, OwnName, Asleep, Locked, Peeking, InRoot

LEMMA CloseCryptFlow ==
    ASSUME NEW d \in Disks, Ready(d), vm' = vm, faults' = 0, CloseCrypt
    PROVE  Flow(d)'
<1> USE Fixed DEF Ready, Undisturbed, Flow
<1>1. /\ pc = "closeCrypt" /\ job.disk = d /\ ~OnLvm(d) /\ Encrypted(d) /\ luks = d
      /\ d \notin active /\ assertStk = <<>> /\ rootStk = <<>>
  BY DEF CloseCrypt, Memory, Routes, Devices, Locked, Volumes, Mounts, Peeking, InRoot
<1>2. /\ luks' = Nobody /\ pc' = "finish"
      /\ UNCHANGED <<job, vg, active, attached, assertStk, rootStk, bootMnt>>
  BY <1>1, CloseGood DEF CloseCrypt, Goto, lvm, mnt
<1> QED  BY <1>1, <1>2
     DEF Routes, Memory, Groups, Volumes, Devices, Mounts,
         OnVolumes, InLoop, HostName, DiskName, Cloned, OwnName, Asleep, Locked, Peeking, InRoot

LEMMA FinishFlow ==
    ASSUME NEW d \in Disks, Ready(d), vm' = vm, faults' = 0, Finish
    PROVE  Flow(d)'
<1> USE Fixed DEF Ready, Undisturbed, Flow
<1>1. pc = "finish" /\ job.disk = d
  BY DEF Finish, Memory
<1>2. /\ pc' = "idle" /\ job' = NoJob
      /\ UNCHANGED <<vg, active, attached, luks, assertStk, rootStk, bootMnt>>
  BY DEF Finish, Quit, lvm, disk, mnt
<1> QED  BY <1>1, <1>2, ActionsThere, Bools
     DEF Routes, Memory, Groups, Volumes, Devices, Mounts,
         OnVolumes, InLoop, HostName, DiskName, Cloned, OwnName, Asleep, Locked, Peeking, InRoot, NoJob, NewJob

LEMMA StartFlow ==
    ASSUME NEW d \in Disks, Ready(d), vm' = vm, faults' = 0, Start
    PROVE  Flow(d)'
<1> USE Fixed DEF Ready, Undisturbed, Flow
<1>1. pc = "idle" /\ pc' = "probe" /\ job' = NewJob(d)
  BY Alone, RepairableThen DEF Start
<1>2. UNCHANGED <<vg, active, attached, luks, assertStk, rootStk, bootMnt>>
  BY DEF Start, lvm, disk, mnt
<1> QED  BY <1>1, <1>2, ActionsThere
     DEF Routes, Memory, Groups, Volumes, Devices, Mounts,
         OnVolumes, InLoop, HostName, DiskName, Cloned, OwnName, Asleep, Locked, Peeking, InRoot, NewJob

------------------------------------------------------------------------------
(* The whole program. *)

LEMMA InitFlow == Init => FlowInv
<1> SUFFICES ASSUME Init, Repairable, NEW d \in Disks PROVE Flow(d)
  BY DEF FlowInv, Undisturbed
<1>1. IInv /\ Disks = {d} /\ d # Host /\ d # Nobody /\ Host # Nobody /\ d \in Entities
  BY InitInv, Alone, RepairableThen DEF Entities
<1>2. vg[Host] = IF vm.hostLvm THEN "rootvg" ELSE "none"
  BY DEF Init, InitialVg, Entities
<1>3. vg[d] = IF OnLvm(d) THEN "rootvg" ELSE "none"
  BY <1>1 DEF Init, InitialVg, Untouched, OnLvm
<1>4. /\ Host \in active <=> HostLvm
      /\ d \in active => OnLvm(d) /\ ~Encrypted(d) /\ ~HostLvm
  BY <1>1 DEF Init, CanWakeUp, OnLvm, HostLvm
<1> QED  BY <1>1, <1>2, <1>3, <1>4, ActionsThere, Bools
     DEF Init, NoJob, NewJob, HostLvm, Flow, Routes, Memory, Groups, Volumes, Devices, Mounts,
         OnVolumes, InLoop, HostName, DiskName, Cloned, OwnName, Asleep, Locked, Peeking, InRoot

LEMMA DiscoveryFlow ==
    ASSUME NEW d \in Disks, Ready(d), vm' = vm, faults' = 0, DiscoveryNext
    PROVE  Flow(d)'
BY ProbeFlow, UnlockFlow, AdeImportFlow, ScanFlow, ImportFlow, CloneFlow, WakeFlow, LendFlow,
   BorrowFlow, ActivateFlow, RemountFlow, ListFlow, NoOsFoundFlow, SkipEfiFlow, LvmGateFlow,
   FsckPartFlow, AssertPartFlow, PeekFlow, FsckLvFlow, AssertLvFlow, AssertUsrFlow, ReadLvFlow,
   UnassertLvFlow
   DEF DiscoveryNext

LEMMA RecoveryFlow ==
    ASSUME NEW d \in Disks, Ready(d), vm' = vm, faults' = 0, RecoveryNext
    PROVE  Flow(d)'
BY ScriptsFlow, MountRootFlow, MountLvsFlow, MountBootFlow, MountEfiFlow, BindFlow, RunFlow, UmountFlow,
   DisableFlow, DeleteFlow, RenameOldvgFlow, RescanFlow, RescanMountsFlow, AdeDeactivateFlow,
   AdeCloseFlow, AdeRenameBackFlow, CloseCryptFlow, FinishFlow
   DEF RecoveryNext

\* The budgets only grow: a run that is undisturbed after a step was so before.
LEMMA BudgetsGrow ==
    ASSUME IInv, [Next]_vars, faults' = 0, crashes' = 0
    PROVE  faults = 0 /\ crashes = 0 /\ ~Crash
<1>1. faults \in Nat /\ crashes \in Nat
  BY FaultAssumption, BoundAssumption DEF IInv, BoundsOK
<1>2. ~Crash
  BY <1>1 DEF Crash
<1>3. Works \/ Fails \/ UNCHANGED faults
  BY <1>2, DiscoveryBudget, RecoveryBudget DEF Next, Start, Step, Rest, vars
<1> QED  BY <1>1, <1>2, <1>3 DEF Works, Fails, Next, Start, Step, Rest, vars

LEMMA NextFlow ==
    ASSUME IInv, LoopInv, FlowInv, [Next]_vars
    PROVE  FlowInv'
<1>1. vm' = vm
  BY DEF Next, Start, Step, Crash, Rest, vars
<1>2. SUFFICES ASSUME faults' = 0, crashes' = 0, Repairable', NEW d \in Disks
               PROVE  Flow(d)'
  BY DEF FlowInv, Undisturbed
<1>3. Repairable
  BY <1>1, <1>2 DEF Repairable, Detachable, HasKind, OddNames, Encrypted, PartsOf
<1>4. Ready(d) /\ ~Crash
  BY <1>2, <1>3, BudgetsGrow DEF FlowInv, Undisturbed, Ready
<1>5. CASE UNCHANGED vars
  BY <1>1, <1>4, <1>5, Fixed DEF vars, lvm, disk, mnt, Ready, Flow, Routes, Memory, Groups, Volumes, Devices, Mounts,
         OnVolumes, InLoop, HostName, DiskName, Cloned, OwnName, Asleep, Locked, Peeking, InRoot
<1> QED  BY <1>1, <1>2, <1>4, <1>5, DiscoveryFlow, RecoveryFlow, StartFlow DEF Next, Step, Rest

LEMMA FlowClean == IInv /\ FlowInv => EndsClean
<1> SUFFICES ASSUME IInv, pc = "idle", Undisturbed, \A d \in Disks : Flow(d)
             PROVE  VmRestored /\ HostActive /\ bootMnt = Host /\ attached = Disks
  BY DEF FlowInv, Undisturbed, EndsClean
<1>1. PICK d \in Disks : Disks = {d}
  BY DEF Undisturbed, Repairable, Detachable
<1>2. Flow(d) /\ Entities = {d, Host} /\ d # Host
  BY <1>1, Alone, RepairableThen DEF Undisturbed
<1>3. /\ vg[Host] = IF HostLvm THEN "rootvg" ELSE "none"
      /\ vg[d] = IF OnLvm(d) THEN "rootvg" ELSE "none"
  BY <1>1, <1>2, Bools DEF Flow, Groups, HostName, DiskName, OwnName, Cloned
<1>4. vg = InitialVg
  BY <1>2, <1>3 DEF IInv, WorldOK, InitialVg, Untouched, OnLvm, HostLvm
<1>5. luks = Nobody /\ assertStk = <<>> /\ rootStk = <<>>
  BY <1>2 DEF Flow, Devices, Locked, Mounts, Peeking, InRoot
<1>6. (HostLvm => Host \in active) /\ bootMnt = Host /\ d \in attached
  BY <1>2 DEF Flow, Volumes, Devices
<1> QED  BY <1>1, <1>4, <1>5, <1>6 DEF VmRestored, HostActive, HostLvm, IInv, WorldOK

\* A run that no failure and no kill disturbs, in any situation the code is made for and
\* however it ends, gives back what it took: the names of the volume groups, the mapping
\* of an encrypted disk, the mounts, /boot and the disk itself.
THEOREM EndsAsItBegan == Spec => []EndsClean
<1>1. Init => IInv /\ LoopInv /\ FlowInv
  BY InitInv, InitLoop, InitFlow
<1>2. IInv /\ LoopInv /\ FlowInv /\ [Next]_vars => IInv' /\ LoopInv' /\ FlowInv'
  BY NextInv, LoopStep, NextFlow
<1> QED  BY <1>1, <1>2, FlowClean, PTL DEF Spec

------------------------------------------------------------------------------
(* Success: runs that may be killed at any step, and what later ones make of  *)
(* what is left.                                                            *)

\* What holds at every step, and after every kill.
Lasting(d) ==
    /\ Host \in active <=> HostLvm
    /\ HostLvm => vg[Host] = "rootvg" \/ (vg[Host] = "oldvg" /\ OnLvm(d))
    /\ ~HostLvm => vg[Host] = "none"
    /\ vg[d] # "none" <=> OnLvm(d)
    /\ d \in active => OnLvm(d)
    /\ ~Encrypted(d) => luks = Nobody /\ (d \in active => vg[d] = "rootvg")
    /\ luks = Nobody \/ luks = d
    /\ Encrypted(d) /\ luks = Nobody => d \notin active
    /\ pc # "idle" => job.disk = d /\ rc \in {"none", "err"}

\* Which disks come to which step, and whether they are attached and unlocked then.
Gone == {"idle", "probe", "renameBack", "rescan", "rescanMounts", "finish"}
Paths(d) ==
    /\ pc = "unlock" => Encrypted(d)
    /\ pc = "import" => OnLvm(d) /\ ~Encrypted(d)
    /\ pc \in {"adeImport", "adeScan", "wake"} => OnLvm(d) /\ Encrypted(d)
    /\ pc \in {"activate", "remount"} => OnLvm(d) /\ ~Encrypted(d)
    /\ pc \in {"clone", "scan", "lend", "borrow", "list", "fsckLv", "assertLv", "assertUsr",
               "readLv", "unassertLv", "mountLvs"}
           => OnLvm(d)
    /\ pc \in {"disable", "delete", "renameBack", "rescan", "rescanMounts"}
           => OnLvm(d) /\ ~Encrypted(d)
    /\ pc = "delete" => ~vm.nvme
    /\ pc \in {"adeDeactivate", "adeClose", "adeRenameBack"} => OnLvm(d) /\ Encrypted(d)
    /\ pc = "closeCrypt" => Encrypted(d) /\ ~OnLvm(d)
    /\ pc \notin Gone => d \in attached
    /\ Encrypted(d) /\ pc \notin Locked => luks = d

\* An import that is not skipped finds both groups with the one name.
Importing == {"clone", "scan", "lend", "borrow", "activate"}
Names(d) ==
    /\ ~Encrypted(d) /\ pc \in Importing => HostLvm /\ d \notin active
    /\ ~Encrypted(d) /\ pc \in {"clone", "scan", "lend"} => vg[Host] = "rootvg"
    /\ ~Encrypted(d) /\ pc \in {"borrow", "activate"} => vg[Host] = "oldvg"
    /\ ~Encrypted(d) /\ pc \in {"clone", "activate"} => vg[d] = "rootvg"
    /\ ~Encrypted(d) /\ pc \in {"scan", "lend", "borrow"} => vg[d] = "rescuevg"
    /\ Encrypted(d) /\ HostLvm /\ pc \in {"adeScan", "list"} => vg[Host] = "oldvg"

\* The name noted at "list" is the name of the disk's group, and the VM's has another.
GivingBack == {"delete", "renameBack", "rescan", "rescanMounts", "adeClose", "adeRenameBack",
               "closeCrypt", "finish"}
Noted(d)      == d \in active /\ vg[d] = job.lvs /\ (HostLvm => vg[Host] = "oldvg")
FirstOs(d, p) == p \in DOMAIN PartsOf(d) /\ PartsOf(d)[p].kind = "os" /\ Passed(d, p)
Notes(d) ==
    /\ ~OnLvm(d) => job.lvs = "none"
    /\ OnLvm(d) /\ pc \in InLoop => job.lvs = "empty" \/ (job.lvs # "none" /\ Noted(d))
    /\ OnLvm(d) /\ pc \in OnVolumes => Noted(d)
    /\ OnLvm(d) /\ pc \in OnVolumes \ {"fsckLv", "assertLv"} => job.lvs = "rootvg"
    /\ pc \in {"delete", "renameBack", "rescan"} => vg[d] = "rootvg"
    /\ OnLvm(d) /\ HostLvm /\ pc \in OnVolumes \cup GivingBack => ~vm.nvme
    /\ ~OnLvm(d) /\ pc \in {"scripts", "available", "mountRoot"} => FirstOs(d, job.os)

\* Layers of earlier runs are of the disk; the one on the root is the one to be mounted.
AllOf(d, stk) == \A l \in Layers(stk) : l.src[1] = d
RootOf(d, src) ==
    src[1] = d /\ (OnLvm(d) => src[2] = 0) /\ (~OnLvm(d) => FirstOs(d, src[2]))
Checking == {"assertUsr", "readLv", "unassertLv"}
Stacks(d) ==
    /\ AllOf(d, assertStk)
    /\ pc \in {"fsckLv", "assertLv"} /\ assertStk # <<>> => Head(assertStk).src = <<d, 0>>
    /\ pc \in Checking => Single(assertStk)
    /\ pc \in (OnVolumes \ (Checking \cup {"fsckLv", "assertLv"})) \cup GivingBack => assertStk = <<>>
    /\ rootStk # <<>> => Single(rootStk) /\ RootOf(d, Head(rootStk).src)
    /\ pc \in InRoot => rootStk # <<>>

\* What a run that will report success has given back.
Restored(d) ==
    vg[d] = (IF OnLvm(d) THEN "rootvg" ELSE "none") /\ vg[Host] = (IF HostLvm THEN "rootvg" ELSE "none")
Returned(d) ==
    /\ pc \in {"disable", "adeDeactivate"} \cup GivingBack /\ rc # "err" => rootStk = <<>>
    /\ pc \in {"delete", "renameBack", "adeClose", "adeRenameBack"} /\ rc # "err" =>
           d \notin active /\ vg[d] = "rootvg" /\ (HostLvm => vg[Host] = "oldvg")
    /\ pc = "renameBack" /\ rc # "err" /\ HostLvm => d \notin attached
    /\ pc = "adeRenameBack" /\ rc # "err" => luks = Nobody
    /\ pc \in {"rescan", "rescanMounts", "finish"} /\ rc # "err" => Restored(d) /\ luks = Nobody
    /\ pc = "idle" /\ rc = "ok" =>
           Restored(d) /\ luks = Nobody /\ rootStk = <<>> /\ assertStk = <<>>

Kept(d) == Lasting(d) /\ Paths(d) /\ Names(d) /\ Notes(d) /\ Stacks(d) /\ Returned(d)

KeptInv == faults = 0 /\ Detachable => \A d \in Disks : Kept(d)

Known(d) == IInv /\ LoopInv /\ faults = 0 /\ Detachable /\ Kept(d)

LEMMA KnownPlain ==
    ASSUME NEW d \in Disks, Known(d)
    PROVE  Plain(d)
BY DEF Known, Kept, Lasting, Plain

LEMMA FixedOs ==
    ASSUME NEW d \in Disks, vm' = vm
    PROVE  /\ \A p : FirstOs(d, p)' = FirstOs(d, p)
           /\ \A src : RootOf(d, src)' = RootOf(d, src)
BY Fixed DEF FirstOs, RootOf, Passed, PartsOf

LEMMA Same ==
    ASSUME NEW d \in Disks, vm' = vm
    PROVE  /\ rootStk' = rootStk =>
                  RootOf(d, Head(rootStk).src)' = RootOf(d, Head(rootStk).src)
           /\ assertStk' = assertStk => AllOf(d, assertStk)' = AllOf(d, assertStk)
           /\ job'.os = job.os => FirstOs(d, job.os)' = FirstOs(d, job.os)
BY Fixed DEF RootOf, FirstOs, Passed, PartsOf, AllOf, Layers

\* A process that ends with an error or is killed leaves only the state of the VM.
LEMMA QuitKept ==
    ASSUME NEW d \in Disks, Known(d), vm' = vm, pc' = "idle", rc' # "ok", job' = NoJob,
           Lasting(d)', AllOf(d, assertStk)', UNCHANGED rootStk
    PROVE  Kept(d)'
<1> USE Fixed, Same DEF Known, Kept
<1> QED  BY DEF Paths, Names, Notes, Stacks, Returned, Gone, Locked, Importing, GivingBack,
     OnVolumes, InLoop, InRoot, Checking, NoJob, NewJob, Single

LEMMA QuitHere ==
    ASSUME NEW d \in Disks, Known(d), vm' = vm, pc' = "idle", rc' # "ok", job' = NoJob,
           UNCHANGED <<vg, active, attached, luks, assertStk, rootStk>>
    PROVE  Kept(d)'
<1> USE Fixed, Same DEF Known, Kept
<1>1. Lasting(d)'
  BY DEF Lasting
<1>2. AllOf(d, assertStk)'
  BY DEF Stacks
<1> QED  BY <1>1, <1>2, QuitKept

LEMMA ProbeKept ==
    ASSUME NEW d \in Disks, Known(d), vm' = vm, faults' = 0, Probe
    PROVE  Kept(d)'
<1> USE Fixed, Same DEF Known, Kept
<1>1. pc = "probe" /\ job.disk = d
  BY DEF Probe, Lasting
<1>2. UNCHANGED <<vg, active, attached, luks, assertStk, rootStk>>
  BY DEF Probe, lvm, disk, mnt
<1>3. CASE Quit("err")
  BY <1>2, <1>3, QuitHere DEF Quit
<1>4. CASE d \in attached /\ \/ Encrypted(d) /\ Goto("unlock")
                             \/ ~Encrypted(d) /\ OnLvm(d) /\ Goto("import")
                             \/ ~Encrypted(d) /\ ~OnLvm(d) /\ Goto("detect")
  BY <1>1, <1>2, <1>4
     DEF Goto, Lasting, Paths, Names, Notes, Stacks, Returned, Gone, Locked, Importing, GivingBack,
         Noted, OnVolumes, InLoop, InRoot, Checking, Restored, Single
<1>5. PICK ok \in BOOLEAN :
         /\ Outcome(d \in attached, ok)
         /\ CASE ~ok -> Quit("err")
              [] ok /\ Encrypted(d) -> Goto("unlock")
              [] ok /\ ~Encrypted(d) /\ OnLvm(d) -> Goto("import")
              [] OTHER -> Goto("detect")
  <2> HIDE DEF Known, Kept
  <2> QED  BY <1>1 DEF Probe, OnLvm
<1>6. ok => d \in attached
  BY <1>5, Unfailing DEF Outcome
<1> QED  BY <1>3, <1>4, <1>5, <1>6
LEMMA WakingFits ==
    ASSUME NEW d \in Disks
    PROVE  AutoActivated(d) = active
           \/ (AutoActivated(d) = active \cup {d} /\ vg[d] # "none" /\ ~Clash(d))
BY DEF AutoActivated

LEMMA UnlockKept ==
    ASSUME NEW d \in Disks, Known(d), vm' = vm, faults' = 0, Unlock
    PROVE  Kept(d)'
<1> USE Fixed, Same DEF Known, Kept
<1>1. pc = "unlock" /\ job.disk = d /\ Encrypted(d) /\ (luks = Nobody \/ luks = d)
  BY DEF Unlock, Lasting, Paths
<1>2. d # Host /\ d # Nobody /\ Host # Nobody
  BY Alone
<1>3. UNCHANGED <<vg, attached, assertStk, rootStk>>
  BY DEF Unlock, mnt
<1>4. CASE luks' = luks /\ active' = active /\ Quit("err")
  BY <1>3, <1>4, QuitHere DEF Quit
<1>5. CASE luks' = (IF LuksInUse THEN luks ELSE Nobody) /\ active' = active /\ Quit("err")
  <2>1. luks' = Nobody => d \notin active
    BY <1>1, <1>2, <1>5 DEF LuksInUse, Lasting
  <2>2. luks' = Nobody \/ luks' = d
    BY <1>1, <1>5
  <2>3. Lasting(d)'
    BY <1>1, <1>3, <1>5, <2>1, <2>2 DEF Lasting, Quit
  <2>4. AllOf(d, assertStk)'
    BY <1>3 DEF Stacks
  <2> QED  BY <1>3, <1>5, <2>3, <2>4, QuitKept DEF Quit
<1>6. CASE luks' = d /\ active' = AutoActivated(d)
           /\ Goto(IF OnLvm(d) THEN "adeImport" ELSE "detect")
  <2>1. active' = active \/ (active' = active \cup {d} /\ vg[d] # "none")
    BY <1>6, WakingFits
  <2> QED  BY <1>1, <1>2, <1>3, <1>6, <2>1, KnownPlain
     DEF Goto, Lasting, Paths, Names, Notes, Stacks, Returned, Gone, Locked, Importing, GivingBack,
         Noted, OnVolumes, InLoop, InRoot, Checking, Restored, Single
<1> QED  BY <1>1, <1>4, <1>5, <1>6, Unfailing DEF Unlock, OnLvm

\* Only a listed group is activated.
LEMMA ActivateAdds ==
    ASSUME NEW n, NEW ok \in BOOLEAN, VgActivate(n, ok)
    PROVE  active' = active \/ active' = active \cup Listed(n)
BY DEF VgActivate

LEMMA AdeImportKept ==
    ASSUME NEW d \in Disks, Known(d), vm' = vm, faults' = 0, AdeImport
    PROVE  Kept(d)'
<1> USE Fixed, Same DEF Known, Kept
<1>1. pc = "adeImport" /\ job.disk = d /\ Encrypted(d) /\ OnLvm(d) /\ luks = d /\ d # Nobody
  BY Alone DEF AdeImport, Lasting, Paths, Locked
<1>2. UNCHANGED <<rc, job, vg, attached, luks, assertStk, rootStk>>
  BY DEF AdeImport, Goto, disk, mnt
<1>3. CASE DevDir("rootvg")
  <2>1. pc' = "clone" /\ active' = active
    BY <1>3 DEF AdeImport, Goto
  <2> QED  BY <1>1, <1>2, <2>1
     DEF Lasting, Paths, Names, Notes, Stacks, Returned, Gone, Locked, Importing, GivingBack,
         Noted, OnVolumes, InLoop, InRoot, Checking, Restored, Single
<1>4. CASE ~DevDir("rootvg")
  <2>1. pc' = "adeScan" /\ (active' = active \/ active' = active \cup Listed("rootvg"))
    BY <1>4, ActivateAdds DEF AdeImport, Goto
  <2>2. HostLvm => vg[Host] = "oldvg"
    BY <1>4, Views, KnownPlain DEF Lasting
  <2>3. (Host \in active' <=> Host \in active)
    BY <2>1, Views, KnownPlain DEF Lasting
  <2> QED  BY <1>1, <1>2, <2>1, <2>2, <2>3
     DEF Lasting, Paths, Names, Notes, Stacks, Returned, Gone, Locked, Importing, GivingBack,
         Noted, OnVolumes, InLoop, InRoot, Checking, Restored, Single
<1> QED  BY <1>3, <1>4
     DEF Lasting, Paths, Names, Notes, Stacks, Returned, Gone, Locked, Importing, GivingBack,
         Noted, OnVolumes, InLoop, InRoot, Checking, Restored, Single

LEMMA ScanKept ==
    ASSUME NEW d \in Disks, Known(d), vm' = vm, faults' = 0, AdeScan \/ Scan
    PROVE  Kept(d)'
<1> USE Fixed, Same DEF Known, Kept
<1>1. /\ pc \in {"adeScan", "scan"} /\ job.disk = d
      /\ OnLvm(d) /\ (pc = "adeScan" => Encrypted(d))
  BY DEF AdeScan, Scan, Lasting, Paths
<1>2. /\ UNCHANGED <<rc, job, vg, active, attached, luks, assertStk, rootStk>>
      /\ pc' = IF pc = "adeScan" THEN "list" ELSE "lend"
  BY Unfailing DEF AdeScan, Scan, Goto, lvm, disk, mnt
<1> QED  BY <1>1, <1>2
     DEF Lasting, Paths, Names, Notes, Stacks, Returned, Gone, Locked, Importing, GivingBack,
         Noted, OnVolumes, InLoop, InRoot, Checking, Restored, Single

LEMMA ImportKept ==
    ASSUME NEW d \in Disks, Known(d), vm' = vm, faults' = 0, Import
    PROVE  Kept(d)'
<1> USE Fixed, Same DEF Known, Kept
<1>1. /\ pc = "import" /\ job.disk = d /\ OnLvm(d) /\ ~Encrypted(d) /\ d \in attached
      /\ job \in Job
  BY DEF Import, Lasting, Paths, Gone, IInv, MemoryOK
<1>2. /\ UNCHANGED <<rc, vg, active, attached, luks, assertStk, rootStk>>
      /\ job'.disk = job.disk /\ job'.lvs = job.lvs /\ job'.os = job.os /\ pc' \in {"list", "clone"}
  BY <1>1, Unfailing DEF Import, Job, lvm, disk, mnt
<1>3. CASE pc' = "list"
  BY <1>1, <1>2, <1>3
     DEF Lasting, Paths, Names, Notes, Stacks, Returned, Gone, Locked, Importing, GivingBack,
         Noted, OnVolumes, InLoop, InRoot, Checking, Restored, Single
<1>4. CASE pc' = "clone"
  <2>1. DevDir("rootvg") /\ Cardinality(Listed("rootvg")) # 1
    BY <1>4, Unfailing DEF Import
  <2>2. Seen(d) /\ d # Host
    BY <1>1, Alone DEF Seen
  <2>3. d \notin active
    <3>1. SUFFICES ASSUME d \in active PROVE FALSE
      OBVIOUS
    <3>2. vg[d] = "rootvg"
      BY <1>1, <3>1 DEF Lasting
    <3>3. HostLvm => vg[Host] # "rootvg"
      BY <2>2, <3>1, <3>2 DEF Lasting, IInv, NamesApart
    <3>4. Listed("rootvg") = {d}
      BY <1>1, <2>2, <3>2, <3>3, Views, KnownPlain
    <3> QED  BY <2>1, <3>4, FS_Singleton
  <2>4. HostLvm /\ vg[Host] = "rootvg"
    BY <2>1, <2>3, Views, KnownPlain
  <2>5. vg[d] = "rootvg"
    <3>1. SUFFICES ASSUME vg[d] # "rootvg" PROVE FALSE
      OBVIOUS
    <3>2. Listed("rootvg") = {Host}
      BY <2>4, <3>1, Views, KnownPlain
    <3> QED  BY <2>1, <3>2, FS_Singleton
  <2> QED  BY <1>1, <1>2, <1>4, <2>3, <2>4, <2>5
     DEF Lasting, Paths, Names, Notes, Stacks, Returned, Gone, Locked, Importing, GivingBack,
         Noted, OnVolumes, InLoop, InRoot, Checking, Restored, Single
<1> QED  BY <1>2, <1>3, <1>4
     DEF Lasting, Paths, Names, Notes, Stacks, Returned, Gone, Locked, Importing, GivingBack,
         Noted, OnVolumes, InLoop, InRoot, Checking, Restored, Single

\* A rename reaches the group that has the name.
LEMMA Renames ==
    ASSUME NEW d \in Disks, Known(d), NEW s, NEW t, NEW ok \in BOOLEAN, VgRename(s, t, ok)
    PROVE  /\ ok => ~Taken(t)
           /\ vg'[Host] = IF ok /\ HostLvm /\ vg[Host] = s THEN t ELSE vg[Host]
           /\ vg'[d] = IF ok /\ Seen(d) /\ vg[d] = s THEN t ELSE vg[d]
           /\ faults' = 0 => (ok <=> ~Taken(t) /\ \E e \in Entities : Listed(s) = {e})
<1>1. Entities = {d, Host} /\ d # Host
  BY Alone DEF Known
<1>2. (Host \in Listed(s) <=> HostLvm /\ vg[Host] = s) /\ (d \in Listed(s) <=> Seen(d) /\ vg[d] = s)
  BY <1>1, Views, KnownPlain
<1>3. ok => ~Taken(t)
  BY DEF VgRename, Outcome
<1>4. faults' = 0 => (ok <=> ~Taken(t) /\ \E e \in Entities : Listed(s) = {e})
  BY Unfailing DEF VgRename, Outcome, Known
<1> QED  BY <1>1, <1>2, <1>3, <1>4 DEF VgRename

LEMMA CloneKept ==
    ASSUME NEW d \in Disks, Known(d), vm' = vm, faults' = 0, Clone
    PROVE  Kept(d)'
<1> USE Fixed, Same DEF Known, Kept
<1>1. pc = "clone" /\ job.disk = d /\ OnLvm(d) /\ d \in attached /\ (Encrypted(d) => luks = d)
  BY DEF Clone, Lasting, Paths, Gone, Locked
<1>2. /\ UNCHANGED <<rc, job, active, attached, luks, assertStk, rootStk>>
      /\ pc' = IF Encrypted(d) THEN "wake" ELSE "scan"
  BY <1>1 DEF Clone, Goto, disk, mnt
<1>3. d # Host /\ Seen(d) /\ vg \in [Entities -> VgNames] /\ d \in Entities
  BY <1>1, Alone DEF Seen, IInv, WorldOK, Entities
<1>4. PICK ok \in BOOLEAN : VgImportClone(d, ok)
  BY <1>1 DEF Clone
<1>5. vg'[Host] = vg[Host] /\ vg'[d] # "none"
  BY <1>1, <1>3, <1>4 DEF VgImportClone, Lasting
<1>6. CASE Encrypted(d)
  BY <1>1, <1>2, <1>5, <1>6
     DEF Lasting, Paths, Names, Notes, Stacks, Returned, Gone, Locked, Importing, GivingBack,
         Noted, OnVolumes, InLoop, InRoot, Checking, Restored, Single
<1>7. CASE ~Encrypted(d)
  <2>1. HostLvm /\ d \notin active /\ vg[Host] = "rootvg" /\ vg[d] = "rootvg"
    BY <1>1, <1>7 DEF Names, Importing
  <2>2. ~Taken("rescuevg") /\ Visible(d)
    BY <1>3, <2>1, Views, KnownPlain
  <2>3. vg' = [vg EXCEPT ![d] = "rescuevg"]
    BY <1>4, <2>1, <2>2, Unfailing DEF VgImportClone, Outcome
  <2> QED  BY <1>1, <1>2, <1>3, <1>5, <1>7, <2>1, <2>3
     DEF Lasting, Paths, Names, Notes, Stacks, Returned, Gone, Locked, Importing, GivingBack,
         Noted, OnVolumes, InLoop, InRoot, Checking, Restored, Single
<1> QED  BY <1>6, <1>7
     DEF Lasting, Paths, Names, Notes, Stacks, Returned, Gone, Locked, Importing, GivingBack,
         Noted, OnVolumes, InLoop, InRoot, Checking, Restored, Single

LEMMA WakeKept ==
    ASSUME NEW d \in Disks, Known(d), vm' = vm, faults' = 0, Wake
    PROVE  Kept(d)'
<1> USE Fixed, Same DEF Known, Kept
<1>1. pc = "wake" /\ job.disk = d /\ OnLvm(d) /\ d \in attached /\ Encrypted(d) /\ luks = d /\ d # Nobody
  BY Alone DEF Wake, Lasting, Paths, Gone, Locked
<1>2. /\ UNCHANGED <<rc, job, vg, attached, luks, assertStk, rootStk>> /\ pc' = "scan"
  BY DEF Wake, Goto, disk, mnt
<1>3. active' = active \/ active' = active \cup Listed("rescuevg")
  BY ActivateAdds DEF Wake
<1>4. Host \in active' <=> Host \in active
  BY <1>3, Views, KnownPlain
<1> QED  BY <1>1, <1>2, <1>4
     DEF Lasting, Paths, Names, Notes, Stacks, Returned, Gone, Locked, Importing, GivingBack,
         Noted, OnVolumes, InLoop, InRoot, Checking, Restored, Single

LEMMA LendKept ==
    ASSUME NEW d \in Disks, Known(d), vm' = vm, faults' = 0, Lend
    PROVE  Kept(d)'
<1> USE Fixed, Same DEF Known, Kept
<1>1. pc = "lend" /\ job.disk = d /\ OnLvm(d) /\ d \in attached /\ (Encrypted(d) => luks = d)
  BY DEF Lend, Lasting, Paths, Gone, Locked
<1>2. /\ UNCHANGED <<rc, job, active, attached, luks, assertStk, rootStk>> /\ pc' = "borrow"
  BY DEF Lend, Goto, disk, mnt
<1>3. PICK ok \in BOOLEAN : VgRename("rootvg", "oldvg", ok)
  BY DEF Lend
<1>4. /\ vg'[Host] = IF ok /\ HostLvm /\ vg[Host] = "rootvg" THEN "oldvg" ELSE vg[Host]
      /\ vg'[d] = IF ok /\ Seen(d) /\ vg[d] = "rootvg" THEN "oldvg" ELSE vg[d]
      /\ ok <=> ~Taken("oldvg") /\ \E e \in Entities : Listed("rootvg") = {e}
  BY <1>3, Renames
<1>5. Host \in active <=> HostLvm
  BY DEF Lasting
<1>6. CASE Encrypted(d)
  BY <1>1, <1>2, <1>4, <1>5, <1>6
     DEF Lasting, Paths, Names, Notes, Stacks, Returned, Gone, Locked, Importing, GivingBack,
         Noted, OnVolumes, InLoop, InRoot, Checking, Restored, Single
<1>7. CASE ~Encrypted(d)
  <2>1. HostLvm /\ d \notin active /\ vg[Host] = "rootvg" /\ vg[d] = "rescuevg"
    BY <1>1, <1>7 DEF Names, Importing
  <2>2. ~Taken("oldvg") /\ Listed("rootvg") = {Host}
    BY <2>1, Views, KnownPlain
  <2> QED  BY <1>1, <1>2, <1>4, <1>5, <1>7, <2>1, <2>2
     DEF Entities, Lasting, Paths, Names, Notes, Stacks, Returned, Gone, Locked, Importing, GivingBack,
         Noted, OnVolumes, InLoop, InRoot, Checking, Restored, Single
<1> QED  BY <1>6, <1>7
     DEF Lasting, Paths, Names, Notes, Stacks, Returned, Gone, Locked, Importing, GivingBack,
         Noted, OnVolumes, InLoop, InRoot, Checking, Restored, Single

LEMMA BorrowKept ==
    ASSUME NEW d \in Disks, Known(d), vm' = vm, faults' = 0, Borrow
    PROVE  Kept(d)'
<1> USE Fixed, Same DEF Known, Kept
<1>1. pc = "borrow" /\ job.disk = d /\ OnLvm(d) /\ d \in attached /\ (Encrypted(d) => luks = d)
  BY DEF Borrow, Lasting, Paths, Gone, Locked
<1>2. UNCHANGED <<active, attached, luks, assertStk, rootStk>>
  BY DEF Borrow, disk, mnt
<1>3. PICK ok \in BOOLEAN : /\ VgRename("rescuevg", "rootvg", ok)
                            /\ Encrypted(d) /\ ok => Goto("list")
                            /\ Encrypted(d) /\ ~ok => Quit("err")
                            /\ ~Encrypted(d) => Goto("activate")
  <2> HIDE DEF Known, Kept
  <2> QED  BY <1>1 DEF Borrow
<1>4. /\ vg'[Host] = IF ok /\ HostLvm /\ vg[Host] = "rescuevg" THEN "rootvg" ELSE vg[Host]
      /\ vg'[d] = IF ok /\ Seen(d) /\ vg[d] = "rescuevg" THEN "rootvg" ELSE vg[d]
      /\ ok => ~Taken("rootvg")
      /\ ok <=> ~Taken("rootvg") /\ \E e \in Entities : Listed("rescuevg") = {e}
  BY <1>3, Renames
<1>5. CASE Encrypted(d) /\ ~ok
  <2>1. vg' = vg
    BY <1>3, <1>5 DEF VgRename, IInv, WorldOK
  <2> QED  BY <1>2, <1>3, <1>5, <2>1, QuitHere DEF Quit
<1>6. CASE Encrypted(d) /\ ok
  <2>1. HostLvm => vg[Host] = "oldvg"
    BY <1>4, <1>6, Views, KnownPlain DEF Lasting
  <2>2. vg'[Host] = vg[Host] /\ vg'[d] # "none"
    BY <1>1, <1>4, <2>1 DEF Lasting
  <2>3. Goto("list")
    BY <1>3, <1>6
  <2> QED  BY <1>1, <1>2, <1>6, <2>1, <2>2, <2>3
     DEF Goto, Lasting, Paths, Names, Notes, Stacks, Returned, Gone, Locked, Importing, GivingBack,
         Noted, OnVolumes, InLoop, InRoot, Checking, Restored, Single
<1>7. CASE ~Encrypted(d)
  <2>1. HostLvm /\ d \notin active /\ vg[Host] = "oldvg" /\ vg[d] = "rescuevg" /\ Seen(d)
    BY <1>1, <1>7 DEF Names, Importing, Seen
  <2>2. ~Taken("rootvg") /\ Listed("rescuevg") = {d}
    BY <2>1, Views, KnownPlain
  <2>3. vg'[Host] = "oldvg" /\ vg'[d] = "rootvg"
    BY <1>4, <2>1, <2>2 DEF Entities
  <2>4. Goto("activate")
    BY <1>3, <1>7
  <2> QED  BY <1>1, <1>2, <1>7, <2>1, <2>3, <2>4
     DEF Goto, Lasting, Paths, Names, Notes, Stacks, Returned, Gone, Locked, Importing, GivingBack,
         Noted, OnVolumes, InLoop, InRoot, Checking, Restored, Single
<1> QED  BY <1>5, <1>6, <1>7
     DEF Lasting, Paths, Names, Notes, Stacks, Returned, Gone, Locked, Importing, GivingBack,
         Noted, OnVolumes, InLoop, InRoot, Checking, Restored, Single

LEMMA ActivateKept ==
    ASSUME NEW d \in Disks, Known(d), vm' = vm, faults' = 0, Activate
    PROVE  Kept(d)'
<1> USE Fixed, Same DEF Known, Kept
<1>1. /\ pc = "activate" /\ job.disk = d /\ OnLvm(d) /\ d \in attached /\ ~Encrypted(d)
      /\ HostLvm /\ vg[d] = "rootvg" /\ luks = Nobody /\ Host \in active
  BY DEF Activate, Lasting, Paths, Gone, Names, Importing
<1>2. UNCHANGED <<vg, attached, luks, assertStk, rootStk>>
  BY DEF Activate, disk, mnt
<1>3. PICK ok \in BOOLEAN : VgActivateAll(ok) /\ IF ok THEN Goto("remount") ELSE Quit("err")
  BY DEF Activate
<1>4. active \subseteq active'
  BY <1>3 DEF VgActivateAll
<1>5. Lasting(d)'
  BY <1>1, <1>2, <1>3, <1>4 DEF Lasting, Goto, Quit
<1>6. CASE ok
  BY <1>1, <1>2, <1>3, <1>5, <1>6
     DEF Goto, Paths, Names, Notes, Stacks, Returned, Gone, Locked, Importing, GivingBack,
         Noted, OnVolumes, InLoop, InRoot, Checking, Restored, Single
<1>7. CASE ~ok
  <2>1. AllOf(d, assertStk)'
    BY <1>2 DEF Stacks
  <2> QED  BY <1>2, <1>3, <1>5, <1>7, <2>1, QuitKept DEF Quit
<1> QED  BY <1>6, <1>7
     DEF Lasting, Paths, Names, Notes, Stacks, Returned, Gone, Locked, Importing, GivingBack,
         Noted, OnVolumes, InLoop, InRoot, Checking, Restored, Single

LEMMA RemountKept ==
    ASSUME NEW d \in Disks, Known(d), vm' = vm, faults' = 0, Remount
    PROVE  Kept(d)'
<1> USE Fixed, Same DEF Known, Kept
<1>1. /\ pc = "remount" /\ job.disk = d /\ OnLvm(d) /\ ~Encrypted(d)
      /\ UNCHANGED <<rc, job, vg, active, attached, luks, assertStk, rootStk>> /\ pc' = "list"
  BY Unfailing DEF Remount, Goto, lvm, disk, Lasting, Paths
<1> QED  BY <1>1
     DEF Lasting, Paths, Names, Notes, Stacks, Returned, Gone, Locked, Importing, GivingBack,
         Noted, OnVolumes, InLoop, InRoot, Checking, Restored, Single

LEMMA ListKept ==
    ASSUME NEW d \in Disks, Known(d), vm' = vm, faults' = 0, List
    PROVE  Kept(d)'
<1> USE Fixed, Same DEF Known, Kept
<1>1. /\ pc = "list" /\ job.disk = d /\ OnLvm(d) /\ d \in attached /\ (Encrypted(d) => luks = d)
      /\ job \in Job
  BY DEF List, Lasting, Paths, Gone, Locked, IInv, MemoryOK
<1>2. /\ UNCHANGED <<rc, vg, active, attached, luks, assertStk, rootStk>> /\ pc' = "detect"
      /\ job'.disk = d /\ job'.os = job.os
      /\ job'.lvs = IF d \in active THEN vg[d] ELSE "empty"
  BY <1>1 DEF List, Job, lvm, disk, mnt
<1>3. d \in active /\ HostLvm => vg[Host] = "oldvg"
  <2>1. CASE Encrypted(d)
    BY <1>1, <2>1 DEF Names
  <2>2. CASE ~Encrypted(d)
    BY <2>2, Alone DEF Lasting, IInv, NamesApart
  <2> QED  BY <2>1, <2>2
<1> QED  BY <1>1, <1>2, <1>3
     DEF Lasting, Paths, Names, Notes, Stacks, Returned, Gone, Locked, Importing, GivingBack,
         Noted, OnVolumes, InLoop, InRoot, Checking, Restored, Single

LEMMA NoOsFoundKept ==
    ASSUME NEW d \in Disks, Known(d), vm' = vm, faults' = 0, NoOsFound
    PROVE  Kept(d)'
<1> USE Fixed, Same DEF Known, Kept
<1>1. UNCHANGED <<vg, active, attached, luks, assertStk, rootStk>> /\ Quit("err")
  BY DEF NoOsFound, lvm, disk
<1> QED  BY <1>1, QuitHere
     DEF Quit

LEMMA SkipEfiKept ==
    ASSUME NEW d \in Disks, Known(d), vm' = vm, faults' = 0, SkipEfi
    PROVE  Kept(d)'
<1> USE Fixed, Same DEF Known, Kept
<1>1. pc = "detect" /\ job.disk = d /\ job \in Job
  BY DEF SkipEfi, Lasting, IInv, MemoryOK
<1>2. /\ UNCHANGED <<rc, vg, active, attached, luks, assertStk, rootStk>> /\ pc' = "detect"
      /\ job'.disk = d /\ job'.os = job.os /\ job'.lvs = job.lvs
  BY <1>1 DEF SkipEfi, NextPart, lvm, disk, mnt, Job
<1> QED  BY <1>1, <1>2
     DEF Lasting, Paths, Names, Notes, Stacks, Returned, Gone, Locked, Importing, GivingBack,
         Noted, OnVolumes, InLoop, InRoot, Checking, Restored, Single

\* What is left on /tmp/assert does not hide the partitions to come.
LEMMA LeftOnVolumes ==
    ASSUME NEW d \in Disks, Known(d), pc = "detect", Remaining, This.kind = "lvm", assertStk # <<>>
    PROVE  Head(assertStk).src = <<d, 0>>
<1> DEFINE src == Head(assertStk).src
<1> USE DEF Known, Kept
<1>1. job.disk = d /\ assertStk \in Seq(Layer) /\ job \in Job
  BY DEF Lasting, IInv, StacksOK, MemoryOK
<1>2. Head(assertStk) \in Layers(assertStk) /\ src \in Entities \X Nat
  BY <1>1, HeadLayer DEF Layers
<1>3. src[1] = d /\ Sound(src)
  BY <1>2 DEF Stacks, AllOf, LoopInv, SoundStk
<1>4. src[2] = 0 \/ src[2] >= job.idx
  BY <1>1, <1>3 DEF LoopInv, LoopOK, Ahead
<1>5. job.idx \in DOMAIN PartsOf(d) /\ PartsOf(d)[job.idx].kind = "lvm" /\ job.idx \in Nat
  BY <1>1, Here DEF Job
<1>6. src[2] = 0
  <2>1. SUFFICES ASSUME src[2] # 0 PROVE FALSE
    OBVIOUS
  <2>2. Tested(d, src[2])
    BY <1>3, <2>1 DEF Sound
  <2> QED  BY <1>2, <1>4, <1>5, <2>1, <2>2 DEF Tested, Passed
<1> QED  BY <1>2, <1>3, <1>6

LEMMA LvmGateKept ==
    ASSUME NEW d \in Disks, Known(d), vm' = vm, faults' = 0, LvmGate
    PROVE  Kept(d)'
<1> USE Fixed, Same DEF Known, Kept
<1>1. pc = "detect" /\ job.disk = d /\ job \in Job /\ OnLvm(d)
  BY Here DEF LvmGate, Lasting, OnLvm, HasKind, IInv, MemoryOK
<1>2. UNCHANGED <<vg, active, attached, luks, assertStk, rootStk>>
  BY DEF LvmGate, lvm, disk, mnt
<1>3. CASE Quit("err")
  BY <1>2, <1>3, QuitHere DEF Quit
<1>4. CASE Goto("fsckLv") /\ job.lvs # "empty" /\ (HostLvm => vm.allowed)
  <2>1. HostLvm => ~vm.nvme
    BY <1>1, <1>4 DEF Detachable, OnLvm, HostLvm
  <2>2. assertStk # <<>> => Head(assertStk).src = <<d, 0>>
    BY LeftOnVolumes DEF LvmGate
  <2>3. Noted(d)
    BY <1>1, <1>4 DEF Notes, InLoop
  <2> QED  BY <1>1, <1>2, <1>4, <2>1, <2>2, <2>3
     DEF Goto, Lasting, Paths, Names, Notes, Stacks, Returned, Gone, Locked, Importing, GivingBack,
         Noted, OnVolumes, InLoop, InRoot, Checking, Restored, Single
<1>5. Quit("err") \/ (Goto("fsckLv") /\ job.lvs # "empty" /\ (HostLvm => vm.allowed))
  <2> HIDE DEF Known, Kept
  <2> QED  BY DEF LvmGate, LvmInUse, HostLvm
<1> QED  BY <1>3, <1>4, <1>5

------------------------------------------------------------------------------
(* Looking into the partitions and the volumes. *)

LEMMA AllOfTail ==
    ASSUME NEW d \in Disks, NEW stk \in Seq(Layer), stk # <<>>, AllOf(d, stk)
    PROVE  AllOf(d, Tail(stk)) /\ Head(stk).src[1] = d
<1>1. stk = <<Head(stk)>> \o Tail(stk) /\ Head(stk) \in Layer /\ Tail(stk) \in Seq(Layer)
  BY HeadTailProperties
<1>2. Layers(stk) = {Head(stk)} \cup Layers(Tail(stk))
  BY <1>1, LayersOfCons
<1> QED  BY <1>2 DEF AllOf

LEMMA AllOfCons ==
    ASSUME NEW d \in Disks, NEW stk \in Seq(Layer), NEW l \in Layer, AllOf(d, stk), l.src[1] = d
    PROVE  AllOf(d, <<l>> \o stk)
BY LayersOfCons DEF AllOf

LEMMA AllOfPush ==
    ASSUME NEW d \in Disks, NEW stk \in Seq(Layer), NEW n \in Nat, AllOf(d, stk)
    PROVE  AllOf(d, Push(<<d, n>>, stk))
<1> DEFINE l == [src |-> <<d, n>>, kids |-> {}]
<1>1. l \in Layer /\ l.src[1] = d
  BY DEF Layer, Entities
<1> HIDE DEF l
<1>2. AllOf(d, <<l>> \o stk)
  BY <1>1, AllOfCons
<1> QED  BY <1>2 DEF Push, l

LEMMA AllOfKid ==
    ASSUME NEW d \in Disks, NEW stk \in Seq(Layer), stk # <<>>, NEW k \in Kids, AllOf(d, stk)
    PROVE  AllOf(d, AddKid(k, stk))
<1> DEFINE l == [Head(stk) EXCEPT !.kids = @ \cup {k}]
<1>1. Head(stk) \in Layer /\ Tail(stk) \in Seq(Layer)
  BY HeadLayer
<1>2. l \in Layer /\ l.src = Head(stk).src
  BY <1>1 DEF Layer
<1> HIDE DEF l
<1>3. AllOf(d, <<l>> \o Tail(stk))
  BY <1>1, <1>2, AllOfTail, AllOfCons
<1> QED  BY <1>3 DEF AddKid, l

\* A check and a mount end the run, or leave everything but the stack as it was.
LEMMA FsckKept ==
    ASSUME NEW d \in Disks, Known(d), pc # "idle", vm' = vm, NEW dev, NEW next, Fsck(dev, next)
    PROVE  \/ Kept(d)'
           \/ Goto(next) /\ UNCHANGED <<vg, active, attached, luks, assertStk, rootStk>>
<1> USE Fixed, Same DEF Known, Kept
<1>1. UNCHANGED <<vg, active, attached, luks, rootStk>>
  BY DEF Fsck, lvm, disk
<1>2. CASE Quit("err") /\ UNCHANGED assertStk
  BY <1>1, <1>2, QuitHere DEF Quit
<1>3. CASE Quit("err") /\ assertStk' = Pop(assertStk)
  <2>1. assertStk \in Seq(Layer) /\ AllOf(d, assertStk)
    BY DEF IInv, StacksOK, Stacks
  <2>2. AllOf(d, Pop(assertStk))
    BY <2>1, AllOfTail DEF Pop
  <2>3. AllOf(d, assertStk)'
    BY <1>3, <2>2 DEF AllOf, Layers
  <2>4. Lasting(d)'
    BY <1>1, <1>3 DEF Lasting, Quit
  <2> QED  BY <1>1, <1>3, <2>3, <2>4, QuitKept DEF Quit
<1>4. CASE Goto(next) /\ UNCHANGED assertStk
  BY <1>1, <1>4
<1> QED  BY <1>2, <1>3, <1>4 DEF Fsck

LEMMA MountAssertKept ==
    ASSUME NEW d \in Disks, Known(d), pc # "idle", vm' = vm, NEW dev, NEW next,
           MountAssert(dev, next)
    PROVE  \/ Kept(d)'
           \/ /\ CanMount(dev, assertStk) /\ Goto(next) /\ assertStk' = Push(dev, assertStk)
              /\ UNCHANGED <<vg, active, attached, luks, rootStk>>
<1>1. UNCHANGED <<vg, active, attached, luks, rootStk>>
  BY DEF MountAssert, lvm, disk
<1>2. PICK ok \in BOOLEAN :
         /\ Outcome(CanMount(dev, assertStk), ok)
         /\ assertStk' = IF ok THEN Push(dev, assertStk) ELSE assertStk
         /\ IF ok THEN Goto(next) ELSE Quit("err")
  BY DEF MountAssert
<1>3. CASE ok
  BY <1>1, <1>2, <1>3 DEF Outcome
<1>4. CASE ~ok
  BY <1>1, <1>2, <1>4, QuitHere DEF Quit
<1> QED  BY <1>3, <1>4

LEMMA StrictKept ==
    ASSUME NEW d \in Disks, Known(d), pc # "idle", vm' = vm, NEW possible, NEW stk, NEW next,
           StrictMount(possible, stk, next)
    PROVE  \/ Kept(d)'
           \/ /\ possible /\ Goto(next) /\ rootStk' = stk
              /\ UNCHANGED <<vg, active, attached, luks, assertStk>>
<1>1. PICK ok \in BOOLEAN :
         /\ Outcome(possible, ok)
         /\ IF ok THEN OnRoot(stk) /\ Goto(next) ELSE OnRoot(rootStk) /\ Quit("err")
  BY DEF StrictMount
<1>2. CASE ok
  BY <1>1, <1>2 DEF Outcome, OnRoot, lvm, disk
<1>3. CASE ~ok
  BY <1>1, <1>3, QuitHere DEF Quit, OnRoot, lvm, disk
<1> QED  BY <1>2, <1>3

LEMMA FsckPartKept ==
    ASSUME NEW d \in Disks, Known(d), vm' = vm, faults' = 0, FsckPart
    PROVE  Kept(d)'
<1> USE Fixed, Same DEF Known, Kept
<1>1. pc = "detect" /\ job.disk = d /\ Fsck(PartDev, "assertPart")
  BY DEF FsckPart, Lasting
<1>2. CASE Kept(d)'
  BY <1>2
<1>3. CASE Goto("assertPart") /\ UNCHANGED <<vg, active, attached, luks, assertStk, rootStk>>
  BY <1>1, <1>3
     DEF Goto, Lasting, Paths, Names, Notes, Stacks, Returned, Gone, Locked, Importing, GivingBack,
         Noted, OnVolumes, InLoop, InRoot, Checking, Restored, Single
<1> QED  BY <1>1, <1>2, <1>3, FsckKept

LEMMA AssertPartKept ==
    ASSUME NEW d \in Disks, Known(d), vm' = vm, faults' = 0, AssertPart
    PROVE  Kept(d)'
<1> USE Fixed, Same DEF Known, Kept
<1>1. /\ pc = "assertPart" /\ job.disk = d /\ MountAssert(<<d, job.idx>>, "peek")
      /\ job.idx \in Nat /\ assertStk \in Seq(Layer) /\ AllOf(d, assertStk)
  BY DEF AssertPart, PartDev, Lasting, IInv, MemoryOK, Job, StacksOK, Stacks
<1>2. CASE Kept(d)'
  BY <1>2
<1>3. CASE /\ Goto("peek") /\ assertStk' = Push(<<d, job.idx>>, assertStk)
           /\ UNCHANGED <<vg, active, attached, luks, rootStk>>
  <2>1. AllOf(d, Push(<<d, job.idx>>, assertStk))
    BY <1>1, AllOfPush
  <2>2. AllOf(d, assertStk)'
    BY <1>3, <2>1 DEF AllOf, Layers
  <2> QED  BY <1>1, <1>3, <2>2
     DEF Goto, Lasting, Paths, Names, Notes, Stacks, Returned, Gone, Locked, Importing, GivingBack,
         Noted, OnVolumes, InLoop, InRoot, Checking, Restored, Single
<1> QED  BY <1>1, <1>2, <1>3, MountAssertKept

\* Under the layer of the partition with the system lies no other.
LEMMA NothingBelow ==
    ASSUME NEW d \in Disks, Known(d), pc = "peek", This.kind = "os"
    PROVE  ~OnLvm(d) /\ FirstOs(d, job.idx) /\ Tail(assertStk) = <<>>
<1> DEFINE stk == Tail(assertStk)
           src == Head(stk).src
<1> USE DEF Known, Kept
<1>1. /\ job.disk = d /\ assertStk \in Seq(Layer) /\ job.idx \in Nat
      /\ assertStk # <<>> /\ Ahead(stk, job.idx + 1) /\ Tested(d, job.idx)
  BY DEF Lasting, IInv, StacksOK, MemoryOK, Job, LoopInv, LoopOK
<1>2. job.idx \in DOMAIN PartsOf(d) /\ PartsOf(d)[job.idx].kind = "os" /\ Passed(d, job.idx)
  BY <1>1 DEF Tested, This
<1>3. ~OnLvm(d)
  BY <1>2, OneSystem
<1>4. stk = <<>>
  <2>1. SUFFICES ASSUME stk # <<>> PROVE FALSE
    OBVIOUS
  <2>2. stk \in Seq(Layer) /\ AllOf(d, stk) /\ SoundStk(stk)
    BY <1>1, HeadLayer, AllOfTail, SoundTail DEF Stacks, LoopInv
  <2>3. src \in Entities \X Nat /\ src[1] = d /\ Sound(src)
    BY <2>1, <2>2, HeadLayer, AllOfTail, SoundTail
  <2>4. src[2] # 0 /\ Tested(d, src[2])
    BY <1>3, <2>3 DEF Sound, OnLvm
  <2>5. src[2] >= job.idx + 1
    BY <1>1, <2>1, <2>3, <2>4 DEF Ahead
  <2>6. job.idx < src[2]
    <3>1. src[2] \in Nat
      BY <2>3
    <3> HIDE DEF src, Known, Kept
    <3> QED  BY <1>1, <2>5, <3>1
  <2> QED  BY <1>2, <2>4, <2>6 DEF Tested, Passed
<1> QED  BY <1>2, <1>3, <1>4 DEF FirstOs

LEMMA PeekKept ==
    ASSUME NEW d \in Disks, Known(d), vm' = vm, faults' = 0, Peek
    PROVE  Kept(d)'
<1> USE Fixed, Same DEF Known, Kept
<1>1. /\ pc = "peek" /\ job.disk = d /\ job \in Job /\ assertStk # <<>>
      /\ assertStk \in Seq(Layer) /\ AllOf(d, assertStk)
  BY DEF Peek, Lasting, IInv, MemoryOK, StacksOK, Stacks, LoopInv, LoopOK
<1>2. ~Outcome(assertStk # <<>>, FALSE)
  BY <1>1, Unfailing DEF Outcome
<1>3. UNCHANGED <<rc, vg, active, attached, luks, rootStk>> /\ assertStk' = Tail(assertStk)
  BY <1>2 DEF Peek, NextPart, lvm, disk
<1>4. AllOf(d, assertStk)'
  <2>1. AllOf(d, Tail(assertStk))
    BY <1>1, AllOfTail
  <2> QED  BY <1>3, <2>1 DEF AllOf, Layers
<1>5. CASE This.kind = "os"
  <2>1. pc' = "scripts" /\ job'.disk = d /\ job'.lvs = job.lvs /\ job'.os = job.idx
    BY <1>1, <1>2, <1>5 DEF Peek, Job
  <2>2. ~OnLvm(d) /\ FirstOs(d, job.idx) /\ Tail(assertStk) = <<>>
    BY <1>1, <1>5, NothingBelow
  <2>3. FirstOs(d, job.os)'
    BY <2>1, <2>2 DEF FirstOs, Passed, PartsOf
  <2> QED  BY <1>1, <1>3, <1>4, <2>1, <2>2, <2>3
     DEF Lasting, Paths, Names, Notes, Stacks, Returned, Gone, Locked, Importing, GivingBack,
         Noted, OnVolumes, InLoop, InRoot, Checking, Restored, Single
<1>6. CASE This.kind # "os"
  <2>1. pc' = "detect" /\ job'.disk = d /\ job'.lvs = job.lvs /\ job'.os = job.os
    BY <1>1, <1>2, <1>6 DEF Peek, NextPart, Job
  <2> QED  BY <1>1, <1>3, <1>4, <2>1
     DEF Lasting, Paths, Names, Notes, Stacks, Returned, Gone, Locked, Importing, GivingBack,
         Noted, OnVolumes, InLoop, InRoot, Checking, Restored, Single
<1> QED  BY <1>5, <1>6
     DEF Lasting, Paths, Names, Notes, Stacks, Returned, Gone, Locked, Importing, GivingBack,
         Noted, OnVolumes, InLoop, InRoot, Checking, Restored, Single

\* When /dev/rootvg is there, it is the disk's.
LEMMA RootKnown ==
    ASSUME NEW d \in Disks, Known(d), Noted(d), DevDir("rootvg")
    PROVE  RootLv = <<d, 0>> /\ vg[d] = "rootvg" /\ job.lvs = "rootvg"
<1> USE DEF Known, Kept
<1>1. active \subseteq {d, Host} /\ (Host \in active <=> HostLvm)
  BY Alone DEF IInv, WorldOK, Lasting
<1>2. \A e \in active : vg[e] = "rootvg" => e = d
  BY <1>1 DEF Noted
<1> QED  BY <1>2 DEF RootLv, DevDir, Noted

LEMMA FsckLvKept ==
    ASSUME NEW d \in Disks, Known(d), vm' = vm, faults' = 0, FsckLv
    PROVE  Kept(d)'
<1> USE Fixed, Same DEF Known, Kept
<1>1. pc = "fsckLv" /\ job.disk = d
  BY DEF FsckLv, Lasting
<1>2. CASE Kept(d)'
  BY <1>2
<1>3. CASE Goto("assertLv") /\ UNCHANGED <<vg, active, attached, luks, assertStk, rootStk>>
  BY <1>1, <1>3
     DEF Goto, Lasting, Paths, Names, Notes, Stacks, Returned, Gone, Locked, Importing, GivingBack,
         Noted, OnVolumes, InLoop, InRoot, Checking, Restored, Single
<1>4. CASE DevDir("rootvg")
  BY <1>1, <1>2, <1>3, <1>4, FsckKept DEF FsckLv
<1>5. CASE ~DevDir("rootvg")
  BY <1>3, <1>5 DEF FsckLv, lvm, disk, mnt
<1> QED  BY <1>4, <1>5

LEMMA AssertLvKept ==
    ASSUME NEW d \in Disks, Known(d), vm' = vm, faults' = 0, AssertLv
    PROVE  Kept(d)'
<1> USE Fixed, Same DEF Known, Kept
<1>1. /\ pc = "assertLv" /\ job.disk = d /\ OnLvm(d) /\ Noted(d)
      /\ assertStk \in Seq(Layer) /\ AllOf(d, assertStk)
      /\ assertStk # <<>> => Head(assertStk).src = <<d, 0>>
  BY DEF AssertLv, Lasting, Paths, Notes, OnVolumes, IInv, StacksOK, Stacks
<1>2. CASE ~DevDir("rootvg")
  BY <1>2, QuitHere DEF AssertLv, Quit, lvm, disk, mnt
<1>3. CASE DevDir("rootvg")
  <2>1. RootLv = <<d, 0>> /\ vg[d] = "rootvg" /\ job.lvs = "rootvg"
    BY <1>1, <1>3, RootKnown
  <2>2. MountAssert(<<d, 0>>, "assertUsr")
    BY <1>3, <2>1 DEF AssertLv
  <2>3. CASE Kept(d)'
    BY <2>3
  <2>4. CASE /\ CanMount(<<d, 0>>, assertStk) /\ Goto("assertUsr") /\ assertStk' = Push(<<d, 0>>, assertStk)
             /\ UNCHANGED <<vg, active, attached, luks, rootStk>>
    <3>1. assertStk = <<>>
      BY <1>1, <2>4 DEF CanMount
    <3>2. Single(assertStk')
      BY <2>4, <3>1, PushSingle
    <3>3. AllOf(d, Push(<<d, 0>>, assertStk))
      BY <1>1, AllOfPush
    <3>4. AllOf(d, assertStk)'
      BY <2>4, <3>3 DEF AllOf, Layers
    <3> QED  BY <1>1, <2>1, <2>4, <3>2, <3>4
     DEF Goto, Lasting, Paths, Names, Notes, Stacks, Returned, Gone, Locked, Importing, GivingBack,
         Noted, OnVolumes, InLoop, InRoot, Checking, Restored, Single
  <2> QED  BY <1>1, <2>2, <2>3, <2>4, MountAssertKept
<1> QED  BY <1>2, <1>3

LEMMA AssertUsrKept ==
    ASSUME NEW d \in Disks, Known(d), vm' = vm, faults' = 0, AssertUsr
    PROVE  Kept(d)'
<1> USE Fixed, Same DEF Known, Kept
<1>1. /\ pc = "assertUsr" /\ job.disk = d /\ OnLvm(d) /\ Single(assertStk)
      /\ assertStk \in Seq(Layer) /\ AllOf(d, assertStk)
  BY DEF AssertUsr, Lasting, Paths, Stacks, Checking, IInv, StacksOK
<1>2. /\ UNCHANGED <<rc, job, vg, active, attached, luks, rootStk>>
      /\ pc' = "readLv" /\ assertStk' = AddKid("usr", assertStk)
  BY Unfailing DEF AssertUsr, Goto, lvm, disk
<1>3. Single(assertStk')
  BY <1>1, <1>2, KidStays DEF Kids
<1>4. AllOf(d, AddKid("usr", assertStk))
  BY <1>1, AllOfKid DEF Kids, Single
<1>5. AllOf(d, assertStk)'
  BY <1>2, <1>4 DEF AllOf, Layers
<1> QED  BY <1>1, <1>2, <1>3, <1>5
     DEF Lasting, Paths, Names, Notes, Stacks, Returned, Gone, Locked, Importing, GivingBack,
         Noted, OnVolumes, InLoop, InRoot, Checking, Restored, Single

LEMMA ReadLvKept ==
    ASSUME NEW d \in Disks, Known(d), vm' = vm, faults' = 0, ReadLv
    PROVE  Kept(d)'
<1> USE Fixed, Same DEF Known, Kept
<1>1. pc = "readLv" /\ job.disk = d /\ OnLvm(d) /\ job \in Job
  BY DEF ReadLv, Lasting, Paths, IInv, MemoryOK
<1>2. /\ UNCHANGED <<rc, vg, active, attached, luks, assertStk, rootStk>>
      /\ pc' = "unassertLv" /\ job'.disk = d /\ job'.lvs = job.lvs
  BY <1>1, Unfailing DEF ReadLv, Job, lvm, disk, mnt
<1> QED  BY <1>1, <1>2
     DEF Lasting, Paths, Names, Notes, Stacks, Returned, Gone, Locked, Importing, GivingBack,
         Noted, OnVolumes, InLoop, InRoot, Checking, Restored, Single

LEMMA UnassertLvKept ==
    ASSUME NEW d \in Disks, Known(d), vm' = vm, faults' = 0, UnassertLv
    PROVE  Kept(d)'
<1> USE Fixed, Same DEF Known, Kept
<1>1. pc = "unassertLv" /\ job.disk = d /\ OnLvm(d) /\ Single(assertStk)
  BY DEF UnassertLv, Lasting, Paths, Stacks, Checking
<1>2. /\ UNCHANGED <<rc, job, vg, active, attached, luks, rootStk>> /\ pc' = "scripts"
  BY DEF UnassertLv, Goto, lvm, disk
<1>3. assertStk' = <<>>
  BY <1>1, UmountGood DEF UnassertLv
<1>4. AllOf(d, assertStk)'
  BY <1>3 DEF AllOf, Layers
<1> QED  BY <1>1, <1>2, <1>3, <1>4
     DEF Lasting, Paths, Names, Notes, Stacks, Returned, Gone, Locked, Importing, GivingBack,
         Noted, OnVolumes, InLoop, InRoot, Checking, Restored, Single

------------------------------------------------------------------------------
(* The chroot, the actions, and giving back. *)

LEMMA CleanupIs ==
    ASSUME NEW d \in Disks, Known(d), job.disk = d, OnLvm(d) => job.lvs = "rootvg"
    PROVE  CleanupEntry = IF Encrypted(d) THEN IF OnLvm(d) THEN "adeDeactivate" ELSE "closeCrypt"
                          ELSE IF OnLvm(d) THEN "disable" ELSE "finish"
<1>1. ~OnLvm(d) => job.lvs = "none"
  BY DEF Known, Kept, Notes
<1>2. Encrypted(d) \in BOOLEAN /\ OnLvm(d) \in BOOLEAN
  BY Bools DEF Known
<1> QED  BY <1>1, <1>2 DEF CleanupEntry

LEMMA ScriptsKept ==
    ASSUME NEW d \in Disks, Known(d), vm' = vm, faults' = 0, LoadScripts \/ CheckActions
    PROVE  Kept(d)'
<1> USE Fixed, Same DEF Known, Kept
<1>1. /\ pc \in {"scripts", "available"} /\ job.disk = d /\ (OnLvm(d) => job.lvs = "rootvg")
  BY DEF LoadScripts, CheckActions, Lasting, Notes, OnVolumes
<1>2. /\ UNCHANGED <<job, vg, active, attached, luks, assertStk, rootStk>>
      /\ \/ pc = "scripts" /\ pc' = "available" /\ rc' = rc
         \/ pc = "available" /\ pc' = "mountRoot" /\ rc' = rc
         \/ pc = "available" /\ pc' = CleanupEntry /\ rc' = "err"
  BY Unfailing DEF LoadScripts, CheckActions, Goto, CleanupThenFail, lvm, disk, mnt
<1>3. /\ Encrypted(d) /\ OnLvm(d) => CleanupEntry = "adeDeactivate"
      /\ Encrypted(d) /\ ~OnLvm(d) => CleanupEntry = "closeCrypt"
      /\ ~Encrypted(d) /\ OnLvm(d) => CleanupEntry = "disable"
      /\ ~Encrypted(d) /\ ~OnLvm(d) => CleanupEntry = "finish"
  BY <1>1, CleanupIs
<1> QED  BY <1>1, <1>2, <1>3, Bools
     DEF Lasting, Paths, Names, Notes, Stacks, Returned, Gone, Locked, Importing, GivingBack,
         Noted, OnVolumes, InLoop, InRoot, Checking, Restored, Single

\* What a killed run left mounted is the root to be mounted, and mount refuses it.
LEMMA RootFree ==
    ASSUME NEW d \in Disks, Known(d), rootStk # <<>>, NEW n \in Nat, CanMount(<<d, n>>, rootStk),
           RootOf(d, <<d, n>>)
    PROVE  FALSE
<1> DEFINE src == Head(rootStk).src
<1>1. RootOf(d, src) /\ src # <<d, n>> /\ src \in Entities \X Nat
  BY HeadLayer DEF Known, Kept, Stacks, CanMount, IInv, StacksOK
<1>2. src[1] = d /\ src[2] \in Nat /\ src[2] # n
  BY <1>1 DEF RootOf
<1>3. CASE OnLvm(d)
  BY <1>1, <1>2, <1>3 DEF RootOf
<1>4. CASE ~OnLvm(d)
  <2>1. FirstOs(d, n) /\ FirstOs(d, src[2])
    BY <1>1, <1>4 DEF RootOf
  <2> HIDE DEF src
  <2> QED  BY <1>2, <2>1 DEF FirstOs, Passed
<1> QED  BY <1>3, <1>4

LEMMA PushedRoot ==
    ASSUME NEW d \in Disks, NEW n \in Nat, RootOf(d, <<d, n>>)
    PROVE  Single(Push(<<d, n>>, <<>>)) /\ RootOf(d, Head(Push(<<d, n>>, <<>>)).src)
           /\ Push(<<d, n>>, <<>>) # <<>>
BY DEF Single, Push

LEMMA MountRootKept ==
    ASSUME NEW d \in Disks, Known(d), vm' = vm, faults' = 0, MountRoot
    PROVE  Kept(d)'
<1> USE Fixed, Same DEF Known, Kept
<1>1. /\ pc = "mountRoot" /\ job.disk = d /\ d \in attached /\ job.os \in Nat
      /\ OnLvm(d) => job.lvs = "rootvg" /\ d \in active /\ vg[d] = "rootvg"
      /\ ~OnLvm(d) => job.lvs = "none" /\ FirstOs(d, job.os)
  BY DEF MountRoot, Lasting, Paths, Gone, Notes, OnVolumes, Noted, IInv, MemoryOK, Job
<1>2. ~Fails
  BY Unfailing
<1>3. ASSUME NEW n \in Nat, RootOf(d, <<d, n>>), NEW next \in {"mountLvs", "mountBoot"},
             next = "mountLvs" => OnLvm(d),
             StrictMount(CanMount(<<d, n>>, rootStk), Push(<<d, n>>, rootStk), next)
      PROVE  Kept(d)'
  <2>1. CASE Kept(d)'
    BY <2>1
  <2>2. CASE /\ CanMount(<<d, n>>, rootStk) /\ Goto(next) /\ rootStk' = Push(<<d, n>>, rootStk)
             /\ UNCHANGED <<vg, active, attached, luks, assertStk>>
    <3>1. rootStk = <<>>
      BY <1>3, <2>2, RootFree
    <3>2. rootStk' # <<>> /\ Single(rootStk') /\ RootOf(d, Head(rootStk').src)
      BY <1>3, <2>2, <3>1, PushedRoot
    <3>3. RootOf(d, Head(rootStk).src)'
      BY <3>2, FixedOs
    <3> QED  BY <1>1, <1>3, <2>2, <3>2, <3>3
     DEF Goto, Lasting, Paths, Names, Notes, Stacks, Returned, Gone, Locked, Importing, GivingBack,
         Noted, OnVolumes, InLoop, InRoot, Checking, Restored, Single
  <2> QED  BY <1>1, <1>3, <2>1, <2>2, StrictKept
<1>4. CASE OnLvm(d)
  <2>1. PICK e \in Entities : /\ e \in active /\ vg[e] = "rootvg"
                              /\ StrictMount(CanMount(<<e, 0>>, rootStk), Push(<<e, 0>>, rootStk),
                                             "mountLvs")
    BY <1>1, <1>2, <1>4 DEF MountRoot, MountOsPartition, MountOsVolume
  <2>2. e = d
    BY <1>1, <1>4, <2>1 DEF IInv, NamesApart
  <2>3. RootOf(d, <<d, 0>>)
    BY <1>4 DEF RootOf
  <2> QED  BY <1>3, <1>4, <2>1, <2>2, <2>3
<1>5. CASE ~OnLvm(d)
  <2>1. StrictMount(CanMount(<<d, job.os>>, rootStk), Push(<<d, job.os>>, rootStk), "mountBoot")
    BY <1>1, <1>2, <1>5 DEF MountRoot, MountOsPartition, MountOsVolume
  <2>2. RootOf(d, <<d, job.os>>)
    BY <1>1, <1>5 DEF RootOf
  <2> QED  BY <1>1, <1>3, <2>1, <2>2
<1> QED  BY <1>4, <1>5

\* One more part of the root is mounted, or the disk has no such part.
LEMMA PartKept ==
    ASSUME NEW d \in Disks, Known(d), vm' = vm, pc \in {"mountLvs", "mountBoot", "mountEfi", "bind"},
           pc' \in {"mountBoot", "mountEfi", "bind", "run"}, NEW k \in Kids,
           rootStk' = rootStk \/ rootStk' = AddKid(k, rootStk),
           UNCHANGED <<rc, job, vg, active, attached, luks, assertStk>>
    PROVE  Kept(d)'
<1> USE Fixed, Same DEF Known, Kept
<1>1. rootStk # <<>> /\ Single(rootStk) /\ rootStk \in Seq(Layer) /\ RootOf(d, Head(rootStk).src)
  BY DEF Stacks, InRoot, IInv, StacksOK
<1>2. Single(AddKid(k, rootStk)) /\ Head(AddKid(k, rootStk)).src = Head(rootStk).src
      /\ AddKid(k, rootStk) # <<>>
  <2>1. Single(AddKid(k, rootStk))
    BY <1>1, KidStays
  <2>2. AddKid(k, rootStk) # <<>> /\ Head(AddKid(k, rootStk)).src = Head(rootStk).src
    BY <1>1, AddKidLayer
  <2> QED  BY <2>1, <2>2
<1>3. rootStk' # <<>> /\ Single(rootStk') /\ RootOf(d, Head(rootStk').src)
  BY <1>1, <1>2
<1>4. RootOf(d, Head(rootStk).src)'
  BY <1>3, FixedOs
<1>5. job.disk = d
  BY DEF Lasting
<1> QED  BY <1>3, <1>4, <1>5
     DEF Lasting, Paths, Names, Notes, Stacks, Returned, Gone, Locked, Importing, GivingBack,
         Noted, OnVolumes, InLoop, InRoot, Checking, Restored, Single

LEMMA KidKept ==
    ASSUME NEW d \in Disks, Known(d), vm' = vm, faults' = 0, pc \in {"mountLvs", "mountBoot", "mountEfi"},
           NEW k \in Kids, NEW next \in {"mountBoot", "mountEfi", "bind"}, NEW possible,
           StrictMount(possible, AddKid(k, rootStk), next)
    PROVE  Kept(d)'
BY StrictKept, PartKept DEF Goto

LEMMA MountLvsKept ==
    ASSUME NEW d \in Disks, Known(d), vm' = vm, faults' = 0, MountLvs
    PROVE  Kept(d)'
<1> USE Fixed, Same DEF Known, Kept
<1>1. CASE Quit("err") /\ OnRoot(rootStk)
  BY <1>1, QuitHere DEF Quit, OnRoot, lvm, disk
<1>2. CASE pc = "mountLvs" /\ StrictMount(TRUE, AddKid("lvs", rootStk), "mountBoot")
  BY <1>2, KidKept DEF Kids
<1> QED  BY <1>1, <1>2 DEF MountLvs

LEMMA MountPartsKept ==
    ASSUME NEW d \in Disks, Known(d), vm' = vm, faults' = 0, MountBoot \/ MountEfi
    PROVE  Kept(d)'
<1> USE Fixed, Same DEF Known, Kept
<1>1. ASSUME NEW k \in Kids, pc \in {"mountBoot", "mountEfi"}, NEW next \in {"mountEfi", "bind"},
             MountKid(k, next)
      PROVE  Kept(d)'
  <2>1. CASE HasKind(job.disk, k)
    BY <1>1, <2>1, KidKept DEF MountKid
  <2>2. CASE ~HasKind(job.disk, k)
    BY <1>1, <2>2, PartKept DEF MountKid, Goto, OnRoot, lvm, disk
  <2> QED  BY <2>1, <2>2
<1> QED  BY <1>1 DEF MountBoot, MountEfi, Kids

LEMMA BindKept ==
    ASSUME NEW d \in Disks, Known(d), vm' = vm, faults' = 0, Bind
    PROVE  Kept(d)'
<1> USE Fixed, Same DEF Known, Kept
<1>1. Goto("run") /\ OnRoot(AddKid("bind", rootStk)) /\ pc = "bind"
  BY Unfailing DEF Bind
<1> QED  BY <1>1, PartKept DEF Goto, OnRoot, lvm, disk, Kids

LEMMA RunKept ==
    ASSUME NEW d \in Disks, Known(d), vm' = vm, faults' = 0, RunChrootCli \/ RunRepairScript \/ Report
    PROVE  Kept(d)'
<1> USE Fixed, Same DEF Known, Kept
<1>1. pc \in {"run", "report"} /\ job.disk = d /\ job \in Job
  BY DEF RunChrootCli, RunRepairScript, Report, Lasting, IInv, MemoryOK
<1>2. UNCHANGED <<vg, active, attached, luks, assertStk, rootStk>>
  BY DEF RunChrootCli, RunRepairScript, Report, lvm, disk, mnt
<1>3. CASE Quit("err")
  BY <1>2, <1>3, QuitHere DEF Quit
<1>4. CASE /\ pc' \in {"run", "report", "umount"} /\ rc' = rc
           /\ job'.disk = d /\ job'.lvs = job.lvs /\ job'.os = job.os
  BY <1>1, <1>2, <1>4
     DEF Lasting, Paths, Names, Notes, Stacks, Returned, Gone, Locked, Importing, GivingBack,
         Noted, OnVolumes, InLoop, InRoot, Checking, Restored, Single
<1>5. CASE RunChrootCli
  BY <1>1, <1>4, <1>5, Unfailing DEF RunChrootCli, Goto
<1>6. CASE Report
  BY <1>1, <1>4, <1>6, Unfailing DEF Report, Goto
<1>7. CASE RunRepairScript
  <2>1. \/ Quit("err")
        \/ job' = [job EXCEPT !.todo = @ + 1] /\ UNCHANGED <<pc, rc>>
        \/ Goto("report")
    <3> HIDE DEF Known, Kept
    <3> QED  BY <1>7 DEF RunRepairScript
  <2> QED  BY <1>1, <1>3, <1>4, <2>1 DEF Goto, Job
<1> QED  BY <1>5, <1>6, <1>7

LEMMA UmountKept ==
    ASSUME NEW d \in Disks, Known(d), vm' = vm, faults' = 0, Umount
    PROVE  Kept(d)'
<1> USE Fixed, Same DEF Known, Kept
<1>1. /\ pc = "umount" /\ job.disk = d /\ Single(rootStk) /\ (OnLvm(d) => job.lvs = "rootvg")
  BY DEF Umount, Lasting, Notes, OnVolumes, Stacks, InRoot
<1>2. rootStk' = <<>>
  BY <1>1, UmountGood DEF Umount
<1>3. /\ UNCHANGED <<rc, job, vg, active, attached, luks, assertStk>>
      /\ pc' = CleanupEntry
  BY DEF Umount, Goto, lvm, disk
<1>4. /\ Encrypted(d) /\ OnLvm(d) => CleanupEntry = "adeDeactivate"
      /\ Encrypted(d) /\ ~OnLvm(d) => CleanupEntry = "closeCrypt"
      /\ ~Encrypted(d) /\ OnLvm(d) => CleanupEntry = "disable"
      /\ ~Encrypted(d) /\ ~OnLvm(d) => CleanupEntry = "finish"
  BY <1>1, CleanupIs
<1> QED  BY <1>1, <1>2, <1>3, <1>4, Bools
     DEF Lasting, Paths, Names, Notes, Stacks, Returned, Gone, Locked, Importing, GivingBack,
         Noted, OnVolumes, InLoop, InRoot, Checking, Restored, Single

\* The group with the name is the disk's; nothing of it is mounted when the run is to succeed.
LEMMA DeactivateKept ==
    ASSUME NEW d \in Disks, Known(d), faults' = 0, OnLvm(d), pc \in {"disable", "adeDeactivate"},
           NEW ok \in BOOLEAN, VgDeactivate("rootvg", ok)
    PROVE  /\ active' = IF ok THEN active \ {d} ELSE active
           /\ rc # "err" => ok
           /\ vg[d] = "rootvg" /\ (HostLvm => vg[Host] = "oldvg") /\ assertStk = <<>>
<1> USE DEF Known, Kept
<1>1. d # Host /\ d \in Entities /\ Seen(d)
  BY Alone DEF Paths, Gone, Locked, Seen, Entities
<1>2. /\ vg[d] = "rootvg" /\ (HostLvm => vg[Host] = "oldvg") /\ assertStk = <<>>
      /\ rc # "err" => rootStk = <<>>
  BY DEF Notes, OnVolumes, Noted, Stacks, Checking, Returned
<1>3. Listed("rootvg") = {d}
  BY <1>1, <1>2, Views, KnownPlain
<1>4. rc # "err" => ~VgMounted(d)
  BY <1>1, <1>2 DEF VgMounted
<1>5. rc # "err" => ok
  BY <1>1, <1>3, <1>4, Unfailing DEF VgDeactivate, Outcome
<1> QED  BY <1>2, <1>3, <1>5 DEF VgDeactivate

LEMMA DisableKept ==
    ASSUME NEW d \in Disks, Known(d), vm' = vm, faults' = 0, Disable
    PROVE  Kept(d)'
<1> USE Fixed, Same DEF Known, Kept
<1>1. pc = "disable" /\ job.disk = d /\ OnLvm(d) /\ ~Encrypted(d) /\ d # Host /\ d \in attached
  BY Alone DEF Disable, Lasting, Paths, Gone
<1>2. PICK ok \in BOOLEAN : /\ VgDeactivate("rootvg", ok)
                            /\ Goto(IF ok /\ ~vm.nvme THEN "delete" ELSE "renameBack")
  BY DEF Disable
<1>3. /\ active' = IF ok THEN active \ {d} ELSE active
      /\ rc # "err" => ok
      /\ vg[d] = "rootvg" /\ (HostLvm => vg[Host] = "oldvg") /\ assertStk = <<>>
  BY <1>1, <1>2, DeactivateKept
<1>4. UNCHANGED <<rc, job, vg, attached, luks, assertStk, rootStk>>
      /\ pc' = IF ok /\ ~vm.nvme THEN "delete" ELSE "renameBack"
  BY <1>2 DEF Disable, Goto, disk, mnt
<1>5. HostLvm => ~vm.nvme
  BY <1>1 DEF Notes, OnVolumes
<1> QED  BY <1>1, <1>3, <1>4, <1>5
     DEF Lasting, Paths, Names, Notes, Stacks, Returned, Gone, Locked, Importing, GivingBack,
         Noted, OnVolumes, InLoop, InRoot, Checking, Restored, Single

LEMMA DeleteKept ==
    ASSUME NEW d \in Disks, Known(d), vm' = vm, faults' = 0, Delete
    PROVE  Kept(d)'
<1> USE Fixed, Same DEF Known, Kept
<1>1. pc = "delete" /\ job.disk = d /\ OnLvm(d) /\ ~Encrypted(d) /\ d \in attached
  BY DEF Delete, Lasting, Paths, Gone
<1>2. ~Outcome(job.disk \in attached, FALSE)
  BY <1>1, Unfailing DEF Outcome
<1>3. /\ attached' = attached \ {d} /\ pc' = "renameBack"
      /\ UNCHANGED <<rc, job, vg, active, luks, assertStk, rootStk>>
  BY <1>1, <1>2 DEF Delete, Goto, lvm, mnt
<1> QED  BY <1>1, <1>3
     DEF Lasting, Paths, Names, Notes, Stacks, Returned, Gone, Locked, Importing, GivingBack,
         Noted, OnVolumes, InLoop, InRoot, Checking, Restored, Single

\* Nobody else has the name any more, and the VM's group gets it.
LEMMA NameReturns ==
    ASSUME NEW d \in Disks, Known(d), faults' = 0, vg[d] = "rootvg", ~Seen(d), d \notin active,
           HostLvm => vg[Host] = "oldvg", ~HostLvm => vg[Host] = "none",
           NEW ok \in BOOLEAN, VgRename("oldvg", "rootvg", ok)
    PROVE  vg'[Host] = IF HostLvm THEN "rootvg" ELSE "none"
<1>1. HostLvm => ~Taken("rootvg") /\ Listed("oldvg") = {Host}
  BY Views, KnownPlain
<1>2. Host \in Entities
  BY DEF Entities
<1> QED  BY <1>1, <1>2, Renames

LEMMA RenameOldvgKept ==
    ASSUME NEW d \in Disks, Known(d), vm' = vm, faults' = 0, RenameOldvg
    PROVE  Kept(d)'
<1> USE Fixed, Same DEF Known, Kept
<1>1. /\ pc = "renameBack" /\ job.disk = d /\ OnLvm(d) /\ ~Encrypted(d) /\ vg[d] = "rootvg"
      /\ Host \in active <=> HostLvm
  BY DEF RenameOldvg, Lasting, Paths, Notes
<1>2. pc' = "rescan" /\ UNCHANGED <<rc, job, active, attached, luks, assertStk, rootStk>>
  BY DEF RenameOldvg, Goto, disk, mnt
<1>3. PICK ok \in BOOLEAN : VgRename("oldvg", "rootvg", ok)
  BY DEF RenameOldvg
<1>4. /\ vg'[Host] = IF ok /\ HostLvm /\ vg[Host] = "oldvg" THEN "rootvg" ELSE vg[Host]
      /\ vg'[d] = "rootvg"
  BY <1>1, <1>3, Renames
<1>5. rc # "err" => vg'[Host] = IF HostLvm THEN "rootvg" ELSE "none"
  <2>1. CASE rc # "err" /\ HostLvm
    BY <1>1, <1>3, <2>1, NameReturns DEF Returned, Seen
  <2>2. CASE ~HostLvm
    BY <1>4, <2>2 DEF Lasting
  <2> QED  BY <2>1, <2>2
<1> QED  BY <1>1, <1>2, <1>4, <1>5
     DEF Lasting, Paths, Names, Notes, Stacks, Returned, Gone, Locked, Importing, GivingBack,
         Noted, OnVolumes, InLoop, InRoot, Checking, Restored, Single

LEMMA RescanKept ==
    ASSUME NEW d \in Disks, Known(d), vm' = vm, faults' = 0, Rescan
    PROVE  Kept(d)'
<1> USE Fixed, Same DEF Known, Kept
<1>1. /\ pc = "rescan" /\ job.disk = d /\ OnLvm(d) /\ ~Encrypted(d) /\ vg[d] = "rootvg" /\ job \in Job
      /\ d # Host
  BY Alone DEF Rescan, Lasting, Paths, Notes, IInv, MemoryOK
<1>2. /\ pc' = "rescanMounts" /\ job'.disk = d /\ job'.lvs = job.lvs /\ job'.os = job.os
      /\ UNCHANGED <<rc, vg, luks, assertStk, rootStk>>
      /\ attached' = attached \cup {d}
      /\ active' \in {active, active \cup {d}}
  BY <1>1, WakingFits, Unfailing DEF Rescan, Job
<1> QED  BY <1>1, <1>2
     DEF Lasting, Paths, Names, Notes, Stacks, Returned, Gone, Locked, Importing, GivingBack,
         Noted, OnVolumes, InLoop, InRoot, Checking, Restored, Single

LEMMA RescanMountsKept ==
    ASSUME NEW d \in Disks, Known(d), vm' = vm, faults' = 0, RescanMounts
    PROVE  Kept(d)'
<1> USE Fixed, Same DEF Known, Kept
<1>1. pc = "rescanMounts" /\ job.disk = d /\ OnLvm(d) /\ ~Encrypted(d)
  BY DEF RescanMounts, Lasting, Paths
<1>2. /\ pc' = "finish" /\ UNCHANGED <<rc, job, vg, active, attached, luks, assertStk, rootStk>>
  BY Unfailing DEF RescanMounts, Goto, lvm, disk
<1> QED  BY <1>1, <1>2
     DEF Lasting, Paths, Names, Notes, Stacks, Returned, Gone, Locked, Importing, GivingBack,
         Noted, OnVolumes, InLoop, InRoot, Checking, Restored, Single

LEMMA AdeDeactivateKept ==
    ASSUME NEW d \in Disks, Known(d), vm' = vm, faults' = 0, AdeDeactivate
    PROVE  Kept(d)'
<1> USE Fixed, Same DEF Known, Kept
<1>1. pc = "adeDeactivate" /\ job.disk = d /\ OnLvm(d) /\ Encrypted(d) /\ d # Host /\ d \in attached
      /\ luks = d
  BY Alone DEF AdeDeactivate, Lasting, Paths, Gone, Locked
<1>2. PICK ok \in BOOLEAN : VgDeactivate("rootvg", ok)
  BY DEF AdeDeactivate
<1>3. /\ active' = IF ok THEN active \ {d} ELSE active
      /\ rc # "err" => ok
      /\ vg[d] = "rootvg" /\ (HostLvm => vg[Host] = "oldvg") /\ assertStk = <<>>
  BY <1>1, <1>2, DeactivateKept
<1>4. UNCHANGED <<rc, job, vg, attached, luks, assertStk, rootStk>> /\ pc' = "adeClose"
  BY DEF AdeDeactivate, Goto, disk, mnt
<1> QED  BY <1>1, <1>3, <1>4
     DEF Lasting, Paths, Names, Notes, Stacks, Returned, Gone, Locked, Importing, GivingBack,
         Noted, OnVolumes, InLoop, InRoot, Checking, Restored, Single

\* The mapping is closed when nothing uses it, and never while the volumes are active.
LEMMA CloseKept ==
    ASSUME NEW d \in Disks, Known(d), faults' = 0, luks = d, NEW ok \in BOOLEAN, CryptClose(ok)
    PROVE  /\ luks' = IF ok THEN Nobody ELSE d
           /\ ok => d \notin active
           /\ d \notin active /\ assertStk = <<>> /\ rootStk = <<>> => ok
<1>1. d # Nobody
  BY Alone DEF Known
<1>2. ok <=> ~LuksInUse
  BY <1>1, Unfailing DEF CryptClose, Outcome, Known
<1> QED  BY <1>2 DEF LuksInUse, CryptClose

LEMMA AdeCloseKept ==
    ASSUME NEW d \in Disks, Known(d), vm' = vm, faults' = 0, AdeClose
    PROVE  Kept(d)'
<1> USE Fixed, Same DEF Known, Kept
<1>1. /\ pc = "adeClose" /\ job.disk = d /\ OnLvm(d) /\ Encrypted(d) /\ luks = d /\ d \in attached
      /\ assertStk = <<>> /\ d # Nobody
  BY Alone DEF AdeClose, Lasting, Paths, Gone, Locked, Stacks, GivingBack
<1>2. PICK ok \in BOOLEAN : CryptClose(ok)
  BY DEF AdeClose
<1>3. /\ luks' = IF ok THEN Nobody ELSE d
      /\ ok => d \notin active
      /\ d \notin active /\ rootStk = <<>> => ok
  BY <1>1, <1>2, CloseKept
<1>4. /\ pc' = IF DevDir("oldvg") THEN "adeRenameBack" ELSE "finish"
      /\ UNCHANGED <<rc, job, vg, active, attached, assertStk, rootStk>>
  BY DEF AdeClose, Goto, lvm, mnt
<1>5. rc # "err" => /\ rootStk = <<>> /\ d \notin active /\ vg[d] = "rootvg"
                    /\ HostLvm => vg[Host] = "oldvg"
  BY <1>1 DEF Returned, GivingBack
<1>6. ~HostLvm => vg[Host] = "none"
  BY DEF Lasting
<1>7. rc # "err" => (DevDir("oldvg") <=> HostLvm)
  BY <1>5, <1>6, Views, KnownPlain
<1> QED  BY <1>1, <1>3, <1>4, <1>5, <1>6, <1>7, Bools
     DEF Lasting, Paths, Names, Notes, Stacks, Returned, Gone, Locked, Importing, GivingBack,
         Noted, OnVolumes, InLoop, InRoot, Checking, Restored, Single

LEMMA AdeRenameBackKept ==
    ASSUME NEW d \in Disks, Known(d), vm' = vm, faults' = 0, AdeRenameBack
    PROVE  Kept(d)'
<1> USE Fixed, Same DEF Known, Kept
<1>1. /\ pc = "adeRenameBack" /\ job.disk = d /\ OnLvm(d) /\ Encrypted(d) /\ d # Nobody
      /\ (Host \in active <=> HostLvm) /\ (~HostLvm => vg[Host] = "none")
  BY Alone DEF AdeRenameBack, Lasting, Paths
<1>2. pc' = "finish" /\ UNCHANGED <<rc, job, active, attached, luks, assertStk, rootStk>>
  BY DEF AdeRenameBack, Goto, disk, mnt
<1>3. PICK ok \in BOOLEAN : VgRename("oldvg", "rootvg", ok)
  BY DEF AdeRenameBack
<1>4. /\ vg'[Host] = IF ok /\ HostLvm /\ vg[Host] = "oldvg" THEN "rootvg" ELSE vg[Host]
      /\ vg'[d] = IF ok /\ Seen(d) /\ vg[d] = "oldvg" THEN "rootvg" ELSE vg[d]
  BY <1>3, Renames
<1>5. rc # "err" => /\ luks = Nobody /\ rootStk = <<>> /\ d \notin active /\ vg[d] = "rootvg"
                    /\ HostLvm => vg[Host] = "oldvg"
  BY <1>1 DEF Returned, GivingBack
<1>6. rc # "err" => vg'[d] = "rootvg" /\ vg'[Host] = IF HostLvm THEN "rootvg" ELSE "none"
  BY <1>1, <1>3, <1>4, <1>5, NameReturns DEF Seen
<1> QED  BY <1>1, <1>2, <1>4, <1>5, <1>6
     DEF Lasting, Paths, Names, Notes, Stacks, Returned, Gone, Locked, Importing, GivingBack,
         Noted, OnVolumes, InLoop, InRoot, Checking, Restored, Single

LEMMA CloseCryptKept ==
    ASSUME NEW d \in Disks, Known(d), vm' = vm, faults' = 0, CloseCrypt
    PROVE  Kept(d)'
<1> USE Fixed, Same DEF Known, Kept
<1>1. pc = "closeCrypt" /\ job.disk = d /\ ~OnLvm(d) /\ Encrypted(d) /\ luks = d /\ d # Nobody
      /\ d \notin active
  BY Alone DEF CloseCrypt, Lasting, Paths, Locked
<1>2. UNCHANGED <<vg, active, attached, assertStk, rootStk>>
  BY DEF CloseCrypt, lvm, mnt
<1>3. PICK ok \in BOOLEAN : CryptClose(ok) /\ IF ok THEN Goto("finish") ELSE Quit("err")
  BY DEF CloseCrypt
<1>4. luks' = IF ok THEN Nobody ELSE d
  BY <1>1, <1>3, CloseKept
<1>5. CASE ~ok
  BY <1>1, <1>2, <1>3, <1>4, <1>5, QuitHere DEF Quit
<1>6. CASE ok
  BY <1>1, <1>2, <1>3, <1>4, <1>6
     DEF Goto, Lasting, Paths, Names, Notes, Stacks, Returned, Gone, Locked, Importing, GivingBack,
         Noted, OnVolumes, InLoop, InRoot, Checking, Restored, Single
<1> QED  BY <1>5, <1>6
     DEF Lasting, Paths, Names, Notes, Stacks, Returned, Gone, Locked, Importing, GivingBack,
         Noted, OnVolumes, InLoop, InRoot, Checking, Restored, Single

LEMMA FinishKept ==
    ASSUME NEW d \in Disks, Known(d), vm' = vm, faults' = 0, Finish
    PROVE  Kept(d)'
<1> USE Fixed, Same DEF Known, Kept
<1>1. pc = "finish" /\ job.disk = d /\ rc \in {"none", "err"}
  BY DEF Finish, Lasting
<1>2. /\ pc' = "idle" /\ job' = NoJob /\ rc' = IF rc = "err" THEN "err" ELSE "ok"
      /\ UNCHANGED <<vg, active, attached, luks, assertStk, rootStk>>
  BY DEF Finish, Quit, lvm, disk, mnt
<1>3. CASE rc = "err"
  BY <1>2, <1>3, QuitHere
<1>4. CASE rc # "err"
  BY <1>1, <1>2, <1>4
     DEF NoJob, NewJob, Lasting, Paths, Names, Notes, Stacks, Returned, Gone, Locked, Importing, GivingBack,
         Noted, OnVolumes, InLoop, InRoot, Checking, Restored, Single
<1> QED  BY <1>3, <1>4
     DEF Lasting, Paths, Names, Notes, Stacks, Returned, Gone, Locked, Importing, GivingBack,
         Noted, OnVolumes, InLoop, InRoot, Checking, Restored, Single

LEMMA StartKept ==
    ASSUME NEW d \in Disks, Known(d), vm' = vm, faults' = 0, Start
    PROVE  Kept(d)'
<1> USE Fixed, Same DEF Known, Kept
<1>1. pc = "idle" /\ pc' = "probe" /\ job' = NewJob(d) /\ rc' = "none"
  BY Alone DEF Start
<1>2. UNCHANGED <<vg, active, attached, luks, assertStk, rootStk>>
  BY DEF Start, lvm, disk, mnt
<1> QED  BY <1>1, <1>2
     DEF NewJob, Lasting, Paths, Names, Notes, Stacks, Returned, Gone, Locked, Importing, GivingBack,
         Noted, OnVolumes, InLoop, InRoot, Checking, Restored, Single

------------------------------------------------------------------------------
(* The whole program. *)

LEMMA CrashKept ==
    ASSUME NEW d \in Disks, Known(d), vm' = vm, Crash
    PROVE  Kept(d)'
BY QuitHere DEF Crash, Quit, lvm, disk, mnt

LEMMA DiscoveryKept ==
    ASSUME NEW d \in Disks, Known(d), vm' = vm, faults' = 0, DiscoveryNext
    PROVE  Kept(d)'
BY ProbeKept, UnlockKept, AdeImportKept, ScanKept, ImportKept, CloneKept, WakeKept, LendKept,
   BorrowKept, ActivateKept, RemountKept, ListKept, NoOsFoundKept, SkipEfiKept, LvmGateKept,
   FsckPartKept, AssertPartKept, PeekKept, FsckLvKept, AssertLvKept, AssertUsrKept, ReadLvKept,
   UnassertLvKept
   DEF DiscoveryNext

LEMMA RecoveryKept ==
    ASSUME NEW d \in Disks, Known(d), vm' = vm, faults' = 0, RecoveryNext
    PROVE  Kept(d)'
BY ScriptsKept, MountRootKept, MountLvsKept, MountPartsKept, BindKept, RunKept, UmountKept,
   DisableKept, DeleteKept, RenameOldvgKept, RescanKept, RescanMountsKept, AdeDeactivateKept,
   AdeCloseKept, AdeRenameBackKept, CloseCryptKept, FinishKept
   DEF RecoveryNext

LEMMA InitKept == Init => KeptInv
<1> SUFFICES ASSUME Init, Detachable, NEW d \in Disks PROVE Kept(d)
  BY DEF KeptInv
<1>1. IInv /\ Disks = {d} /\ d # Host /\ d # Nobody /\ Host # Nobody /\ d \in Entities
  BY InitInv, Alone DEF Entities
<1>2. vg[Host] = IF vm.hostLvm THEN "rootvg" ELSE "none"
  BY DEF Init, InitialVg, Entities
<1>3. vg[d] = IF OnLvm(d) THEN "rootvg" ELSE "none"
  BY <1>1 DEF Init, InitialVg, Untouched, OnLvm
<1>4. /\ Host \in active <=> HostLvm
      /\ d \in active => OnLvm(d) /\ ~Encrypted(d) /\ ~HostLvm
  BY <1>1 DEF Init, CanWakeUp, OnLvm, HostLvm
<1> QED  BY <1>1, <1>2, <1>3, <1>4, Bools
     DEF Init, NoJob, NewJob, HostLvm, Kept, Lasting, Paths, Names, Notes, Stacks, Returned, Gone,
         Locked, Importing, GivingBack, Noted, OnVolumes, InLoop, InRoot, Checking, Restored, Single,
         AllOf, Layers

LEMMA NextKept ==
    ASSUME IInv, LoopInv, KeptInv, [Next]_vars
    PROVE  KeptInv'
<1>1. vm' = vm
  BY DEF Next, Start, Step, Crash, Rest, vars
<1>2. SUFFICES ASSUME faults' = 0, Detachable', NEW d \in Disks PROVE Kept(d)'
  BY DEF KeptInv
<1>3. Detachable
  BY <1>1, <1>2 DEF Detachable, HasKind, PartsOf
<1>4. faults = 0
  <2>1. faults \in Nat
    BY FaultAssumption DEF IInv, BoundsOK
  <2>2. Works \/ Fails \/ UNCHANGED faults
    BY DiscoveryBudget, RecoveryBudget DEF Next, Start, Step, Crash, Rest, vars
  <2> QED  BY <1>2, <2>1, <2>2 DEF Works, Fails
<1>5. Known(d)
  BY <1>3, <1>4 DEF KeptInv, Known
<1>6. CASE UNCHANGED vars
  BY <1>1, <1>5, <1>6, Fixed, Same DEF vars, lvm, disk, mnt, Known, Kept, Lasting, Paths, Names, Notes,
         Stacks, Returned, Gone, Locked, Importing, GivingBack, Noted, OnVolumes, InLoop, InRoot,
         Checking, Restored, Single
<1> QED  BY <1>1, <1>2, <1>5, <1>6, DiscoveryKept, RecoveryKept, StartKept, CrashKept DEF Next, Step, Rest

LEMMA KeptClean == IInv /\ KeptInv => SuccessIsClean
<1> SUFFICES ASSUME IInv, KeptInv, rc = "ok", faults = 0, Detachable
             PROVE  VmRestored /\ HostActive
  BY DEF SuccessIsClean
<1>1. PICK d \in Disks : Disks = {d}
  BY DEF Detachable
<1>2. Kept(d) /\ Entities = {d, Host} /\ d # Host
  BY <1>1, Alone DEF KeptInv
<1>3. Lasting(d) /\ pc = "idle"
  BY <1>2 DEF Kept, Lasting
<1>4. Restored(d) /\ luks = Nobody /\ rootStk = <<>> /\ assertStk = <<>>
  BY <1>2, <1>3 DEF Kept, Returned
<1>5. vg = InitialVg
  BY <1>2, <1>4 DEF Restored, IInv, WorldOK, InitialVg, Untouched, OnLvm, HostLvm
<1> QED  BY <1>3, <1>4, <1>5 DEF Lasting, VmRestored, HostActive, HostLvm

\* Where no command fails, a run that reports success leaves the VM's volume groups, the
\* mapping and the mounts as they were before the first run, however many runs were killed
\* before it and at whichever step.
THEOREM SuccessRestores == Spec => []SuccessIsClean
<1>1. Init => IInv /\ LoopInv /\ KeptInv
  BY InitInv, InitLoop, InitKept
<1>2. IInv /\ LoopInv /\ KeptInv /\ [Next]_vars => IInv' /\ LoopInv' /\ KeptInv'
  BY NextInv, LoopStep, NextKept
<1> QED  BY <1>1, <1>2, KeptClean, PTL DEF Spec
==============================================================================
