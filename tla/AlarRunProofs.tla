---------------------------- MODULE AlarRunProofs ----------------------------
(***************************************************************************)
(* TypeOK and ScriptOnSelectedDisk hold of AlarRun for every set of disks,  *)
(* every scenario and every bound on runs, failures and crashes.            *)
(*                                                                         *)
(* What a script sees is decided long before it runs: at List, where the    *)
(* volumes of the disk are noted under the name their group has.  IInv says *)
(* that nothing between List and the script undoes it (ListHolds), that no  *)
(* two active groups share a name (NamesApart), so that /dev/mapper/rootvg- *)
(* is one disk, and what is mounted at each step of prepare_chroot          *)
(* (RootReady).                                                            *)
(***************************************************************************)
EXTENDS AlarRun, SequenceTheorems, TLAPS

WorldOK ==
    /\ vg \in [Entities -> VgNames] /\ active \subseteq Entities
    /\ attached \subseteq Disks /\ luks \in Disks \cup {Nobody}
    /\ bootMnt \in Owners /\ wiped \subseteq Entities \X Nat
StacksOK  == assertStk \in Seq(Layer) /\ rootStk \in Seq(Layer)
BoundsOK  ==
    /\ vm \in Scenarios
    /\ runs \in 0 .. MaxRuns /\ faults \in 0 .. MaxFaults /\ crashes \in 0 .. MaxCrashes
MemoryOK  ==
    /\ pc \in Labels /\ rc \in {"none", "ok", "err", "killed"} /\ job \in Job
    /\ pc # "idle" => job.disk \in Disks

NamesApart == \A e, f \in active : vg[e] = vg[f] => e = f

FromListToRun ==
    {"detect", "assertPart", "peek", "fsckLv", "assertLv", "assertUsr", "readLv",
     "unassertLv", "scripts", "available", "mountRoot"}
ListHolds ==
    /\ pc \in {"probe", "unlock"} => job.lvs = "none"
    /\ pc \in FromListToRun /\ job.lvs \notin {"none", "empty"} =>
           job.disk \in active /\ vg[job.disk] = job.lvs

\* The first k steps of prepare_chroot are done.
Mounted(kids) ==
    /\ rootStk # <<>> /\ Head(rootStk).src = Selected
    /\ kids \subseteq Head(rootStk).kids
KidsFor(S) == {k \in S : IF k = "lvs" THEN job.lvs # "none"
                         ELSE k = "bind" \/ HasKind(job.disk, k)}
RootReady ==
    /\ pc = "mountLvs" /\ job.lvs = "rootvg" => Mounted({})
    /\ pc = "mountBoot" => Mounted(KidsFor({"lvs"}))
    /\ pc = "mountEfi"  => Mounted(KidsFor({"lvs", "boot"}))
    /\ pc = "bind"      => Mounted(KidsFor({"lvs", "boot", "efi"}))
    /\ pc = "run"       => Mounted(KidsFor({"lvs", "boot", "efi", "bind"}))

AssertReady == pc = "assertUsr" => assertStk # <<>>

IInv == /\ WorldOK /\ StacksOK /\ BoundsOK /\ MemoryOK
        /\ NamesApart /\ ListHolds /\ RootReady /\ AssertReady

------------------------------------------------------------------------------
(* Sequences of mount layers. *)

LEMMA PushLayer ==
    ASSUME NEW stk \in Seq(Layer), NEW dev \in Entities \X Nat
    PROVE  /\ Push(dev, stk) \in Seq(Layer) /\ Push(dev, stk) # <<>>
           /\ Head(Push(dev, stk)).src = dev
BY DEF Push, Layer

LEMMA HeadLayer ==
    ASSUME NEW stk \in Seq(Layer), stk # <<>>
    PROVE  /\ Head(stk) \in Layer /\ Tail(stk) \in Seq(Layer)
           /\ Head(stk).src \in Entities \X Nat
<1>1. Head(stk) \in Layer /\ Tail(stk) \in Seq(Layer)
  BY HeadTailProperties
<1> QED  BY <1>1 DEF Layer

LEMMA ReplaceHead ==
    ASSUME NEW stk \in Seq(Layer), stk # <<>>, NEW K \in SUBSET Kids
    PROVE  LET new == <<[Head(stk) EXCEPT !.kids = K]>> \o Tail(stk)
           IN  /\ new \in Seq(Layer) /\ new # <<>>
               /\ Head(new).src = Head(stk).src /\ Head(new).kids = K
<1> DEFINE l == [Head(stk) EXCEPT !.kids = K]
<1>1. Head(stk) \in Layer /\ Tail(stk) \in Seq(Layer)
  BY HeadLayer
<1>2. l \in Layer /\ l.src = Head(stk).src /\ l.kids = K
  BY <1>1 DEF Layer
<1> HIDE DEF l
<1>3. <<l>> \o Tail(stk) \in Seq(Layer) /\ <<l>> \o Tail(stk) # <<>> /\ Head(<<l>> \o
Tail(stk)) = l
  BY <1>1, <1>2
<1> QED  BY <1>2, <1>3 DEF l

LEMMA AddKidLayer ==
    ASSUME NEW stk \in Seq(Layer), stk # <<>>, NEW k \in Kids
    PROVE  /\ AddKid(k, stk) \in Seq(Layer) /\ AddKid(k, stk) # <<>>
           /\ Head(AddKid(k, stk)).src = Head(stk).src
           /\ Head(AddKid(k, stk)).kids = Head(stk).kids \cup {k}
<1>1. Head(stk).kids \cup {k} \in SUBSET Kids
  BY HeadLayer DEF Layer
<1> QED  BY <1>1, ReplaceHead DEF AddKid

LEMMA PopLayer ==
    ASSUME NEW stk \in Seq(Layer)
    PROVE  Pop(stk) \in Seq(Layer)
BY HeadLayer DEF Pop

LEMMA UmountLayer ==
    ASSUME NEW stk \in Seq(Layer), NEW new, NEW ok \in BOOLEAN, UmountR(stk, new, ok)
    PROVE  new \in Seq(Layer)
<1>1. CASE ok
  BY <1>1, HeadLayer DEF UmountR, Outcome
<1>2. CASE ~ok /\ stk = <<>>
  BY <1>2 DEF UmountR
<1>3. CASE ~ok /\ stk # <<>>
  <2>1. PICK left \in SUBSET Head(stk).kids :
            new = <<[Head(stk) EXCEPT !.kids = left]>> \o Tail(stk)
    BY <1>3 DEF UmountR
  <2>2. left \in SUBSET Kids
    BY <1>3, <2>1, HeadLayer DEF Layer
  <2> QED  BY <1>3, <2>1, <2>2, ReplaceHead
<1> QED  BY <1>1, <1>2, <1>3

------------------------------------------------------------------------------
(* Volume groups. *)

LEMMA RenameKeepsApart ==
    ASSUME WorldOK, NamesApart, NEW s \in VgNames, NEW t \in VgNames, NEW ok \in BOOLEAN,
           VgRename(s, t, ok), active' = active
    PROVE  NamesApart' /\ vg' \in [Entities -> VgNames]
BY DEF WorldOK, NamesApart, VgRename, Outcome, Listed, Taken

LEMMA ImportKeepsApart ==
    ASSUME WorldOK, NamesApart, NEW d \in Disks, NEW ok \in BOOLEAN,
           VgImportClone(d, ok), active' = active
    PROVE  NamesApart' /\ vg' \in [Entities -> VgNames]
BY DEF WorldOK, NamesApart, VgImportClone, Outcome, Entities, VgNames

LEMMA ActivateKeepsApart ==
    ASSUME WorldOK, NamesApart, NEW n \in VgNames, NEW ok \in BOOLEAN,
           VgActivate(n, ok), vg' = vg
    PROVE  NamesApart' /\ active' \subseteq Entities
BY DEF WorldOK, NamesApart, VgActivate, Outcome, Listed, Clash

LEMMA ActivateAllKeepsApart ==
    ASSUME WorldOK, NamesApart, NEW ok \in BOOLEAN, VgActivateAll(ok), vg' = vg
    PROVE  NamesApart' /\ active' \subseteq Entities
BY DEF WorldOK, NamesApart, VgActivateAll, Clash

LEMMA DeactivateKeepsApart ==
    ASSUME WorldOK, NamesApart, NEW n \in VgNames, NEW ok \in BOOLEAN,
           VgDeactivate(n, ok), vg' = vg
    PROVE  NamesApart' /\ active' \subseteq Entities
BY DEF WorldOK, NamesApart, VgDeactivate

LEMMA WakingKeepsApart ==
    ASSUME WorldOK, NamesApart, NEW d \in Disks, active' = AutoActivated(d), vg' = vg
    PROVE  NamesApart' /\ active' \subseteq Entities
BY DEF WorldOK, NamesApart, AutoActivated, Clash, Entities
------------------------------------------------------------------------------
(* The memory of the process, and the budgets. *)

LEMMA NewJobType == \A d \in Disks \cup {Nobody} : NewJob(d) \in Job
BY DEF NewJob, Job, VgNames, Owners

LEMMA DiscoveryMemory ==
    ASSUME WorldOK, MemoryOK, DiscoveryNext
    PROVE  MemoryOK'
<1> USE NewJobType DEF MemoryOK, Labels, Quit, Goto, NoJob, Job
<1>1. CASE Probe
  BY <1>1 DEF Probe
<1>2. CASE Unlock
  BY <1>2 DEF Unlock
<1>3. CASE AdeImport
  BY <1>3 DEF AdeImport
<1>4. CASE Import
  BY <1>4 DEF Import, WorldOK, VgNames, Owners
<1>5. CASE Clone
  BY <1>5 DEF Clone
<1>6. CASE Wake
  BY <1>6 DEF Wake
<1>7. CASE Scan \/ AdeScan
  BY <1>7 DEF Scan, AdeScan
<1>8. CASE Lend
  BY <1>8 DEF Lend
<1>9. CASE Borrow
  BY <1>9 DEF Borrow
<1>10. CASE Activate
  BY <1>10 DEF Activate
<1>11. CASE Remount
  BY <1>11 DEF Remount, WorldOK, VgNames, Owners
<1>12. CASE List
  BY <1>12 DEF List, WorldOK, VgNames, Owners
<1>13. CASE NoOsFound
  BY <1>13 DEF NoOsFound
<1>14. CASE SkipEfi
  BY <1>14 DEF SkipEfi, NextPart
<1>15. CASE LvmGate
  BY <1>15 DEF LvmGate
<1>16. CASE FsckPart
  BY <1>16 DEF FsckPart, Fsck
<1>17. CASE AssertPart
  BY <1>17 DEF AssertPart, MountAssert
<1>18. CASE Peek
  BY <1>18 DEF Peek, NextPart
<1>19. CASE FsckLv
  BY <1>19 DEF FsckLv, Fsck
<1>20. CASE AssertLv
  BY <1>20 DEF AssertLv, MountAssert
<1>21. CASE AssertUsr
  BY <1>21 DEF AssertUsr
<1>22. CASE ReadLv
  BY <1>22 DEF ReadLv
<1>23. CASE UnassertLv
  BY <1>23 DEF UnassertLv
<1> QED  BY <1>1, <1>2, <1>3, <1>4, <1>5, <1>6, <1>7, <1>8, <1>9, <1>10, <1>11, <1>12,
            <1>13, <1>14, <1>15, <1>16, <1>17, <1>18, <1>19, <1>20, <1>21, <1>22, <1>23
            DEF DiscoveryNext

LEMMA DiscoveryBudget ==
    ASSUME DiscoveryNext
    PROVE  Works \/ Fails
<1> USE DEF Outcome
<1>2. CASE Probe
  BY <1>2 DEF Probe
<1>3. CASE Unlock
  BY <1>3 DEF Unlock
<1>4. CASE AdeImport
  BY <1>4 DEF AdeImport, VgActivate
<1>5. CASE Import
  BY <1>5 DEF Import
<1>6. CASE Clone
  BY <1>6 DEF Clone, VgImportClone
<1>7. CASE Wake
  BY <1>7 DEF Wake, VgActivate
<1>8. CASE Scan \/ AdeScan
  BY <1>8 DEF Scan, AdeScan
<1>9. CASE Lend
  BY <1>9 DEF Lend, VgRename
<1>10. CASE Borrow
  BY <1>10 DEF Borrow, VgRename
<1>11. CASE Activate
  BY <1>11 DEF Activate, VgActivateAll
<1>12. CASE Remount
  BY <1>12 DEF Remount
<1>13. CASE List
  BY <1>13 DEF List
<1>14. CASE NoOsFound
  BY <1>14 DEF NoOsFound
<1>15. CASE SkipEfi
  BY <1>15 DEF SkipEfi
<1>16. CASE LvmGate
  BY <1>16 DEF LvmGate
<1>17. CASE FsckPart
  BY <1>17 DEF FsckPart, Fsck
<1>18. CASE AssertPart
  BY <1>18 DEF AssertPart, MountAssert
<1>19. CASE Peek
  BY <1>19 DEF Peek
<1>20. CASE FsckLv
  BY <1>20 DEF FsckLv, Fsck
<1>21. CASE AssertLv
  BY <1>21 DEF AssertLv, MountAssert
<1>22. CASE AssertUsr
  BY <1>22 DEF AssertUsr
<1>23. CASE ReadLv
  BY <1>23 DEF ReadLv
<1>24. CASE UnassertLv
  BY <1>24 DEF UnassertLv, UmountR
<1> QED  BY <1>2, <1>3, <1>4, <1>5, <1>6, <1>7, <1>8, <1>9, <1>10, <1>11, <1>12, <1>13,
            <1>14, <1>15, <1>16, <1>17, <1>18, <1>19, <1>20, <1>21, <1>22, <1>23, <1>24
            DEF DiscoveryNext

LEMMA DiscoveryBounds ==
    ASSUME BoundsOK, DiscoveryNext, UNCHANGED <<vm, runs, crashes>>
    PROVE  BoundsOK'
BY DiscoveryBudget, BoundAssumption, FaultAssumption DEF BoundsOK, Works, Fails

LEMMA RecoveryMemory ==
    ASSUME WorldOK, MemoryOK, RecoveryNext
    PROVE  MemoryOK'
<1> USE NewJobType DEF MemoryOK, Labels, Quit, Goto, NoJob, Job
<1>1. CASE LoadScripts
  BY <1>1 DEF LoadScripts, CleanupThenFail, CleanupEntry
<1>2. CASE CheckActions
  BY <1>2 DEF CheckActions, CleanupThenFail, CleanupEntry
<1>3. CASE MountRoot
  BY <1>3 DEF MountRoot, MountOsPartition, MountOsVolume, StrictMount, UmountThenFail
<1>4. CASE MountLvs
  BY <1>4 DEF MountLvs, StrictMount
<1>5. CASE MountBoot
  BY <1>5 DEF MountBoot, MountKid, StrictMount
<1>6. CASE MountEfi
  BY <1>6 DEF MountEfi, MountKid, StrictMount
<1>7. CASE Bind
  BY <1>7 DEF Bind, UmountThenFail
<1>8. CASE RunChrootCli
  BY <1>8 DEF RunChrootCli, UmountThenFail
<1>9. CASE RunRepairScript
  BY <1>9 DEF RunRepairScript
<1>10. CASE Report
  BY <1>10 DEF Report
<1>11. CASE Umount
  BY <1>11 DEF Umount, CleanupEntry
<1>12. CASE Disable
  BY <1>12 DEF Disable
<1>13. CASE Delete
  BY <1>13 DEF Delete
<1>14. CASE RenameOldvg
  BY <1>14 DEF RenameOldvg
<1>15. CASE Rescan
  BY <1>15 DEF Rescan, WorldOK, VgNames, Owners
<1>16. CASE RescanMounts
  BY <1>16 DEF RescanMounts, WorldOK, VgNames, Owners
<1>17. CASE AdeDeactivate
  BY <1>17 DEF AdeDeactivate
<1>18. CASE AdeClose
  BY <1>18 DEF AdeClose
<1>19. CASE AdeRenameBack
  BY <1>19 DEF AdeRenameBack
<1>20. CASE CloseCrypt
  BY <1>20 DEF CloseCrypt
<1>21. CASE Finish
  BY <1>21 DEF Finish
<1> QED  BY <1>1, <1>2, <1>3, <1>4, <1>5, <1>6, <1>7, <1>8, <1>9, <1>10, <1>11, <1>12,
            <1>13, <1>14, <1>15, <1>16, <1>17, <1>18, <1>19, <1>20, <1>21 DEF
            RecoveryNext

LEMMA RecoveryBudget ==
    ASSUME RecoveryNext
    PROVE  Works \/ Fails
<1> USE DEF Outcome
<1>2. CASE LoadScripts
  BY <1>2 DEF LoadScripts
<1>3. CASE CheckActions
  BY <1>3 DEF CheckActions
<1>4. CASE MountRoot
  BY <1>4 DEF MountRoot, MountOsPartition, MountOsVolume, StrictMount
<1>5. CASE MountLvs
  BY <1>5 DEF MountLvs, StrictMount
<1>6. CASE MountBoot
  BY <1>6 DEF MountBoot, MountKid, StrictMount
<1>7. CASE MountEfi
  BY <1>7 DEF MountEfi, MountKid, StrictMount
<1>8. CASE Bind
  BY <1>8 DEF Bind
<1>9. CASE RunChrootCli
  BY <1>9 DEF RunChrootCli
<1>10. CASE RunRepairScript
  BY <1>10 DEF RunRepairScript
<1>11. CASE Report
  BY <1>11 DEF Report
<1>12. CASE Umount
  BY <1>12 DEF Umount, UmountR
<1>13. CASE Disable
  BY <1>13 DEF Disable, VgDeactivate
<1>14. CASE Delete
  BY <1>14 DEF Delete
<1>15. CASE RenameOldvg
  BY <1>15 DEF RenameOldvg, VgRename
<1>16. CASE Rescan
  BY <1>16 DEF Rescan
<1>17. CASE RescanMounts
  BY <1>17 DEF RescanMounts
<1>18. CASE AdeDeactivate
  BY <1>18 DEF AdeDeactivate, VgDeactivate
<1>19. CASE AdeClose
  BY <1>19 DEF AdeClose, CryptClose
<1>20. CASE AdeRenameBack
  BY <1>20 DEF AdeRenameBack, VgRename
<1>21. CASE CloseCrypt
  BY <1>21 DEF CloseCrypt, CryptClose
<1>22. CASE Finish
  BY <1>22 DEF Finish
<1> QED  BY <1>2, <1>3, <1>4, <1>5, <1>6, <1>7, <1>8, <1>9, <1>10, <1>11, <1>12, <1>13,
            <1>14, <1>15, <1>16, <1>17, <1>18, <1>19, <1>20, <1>21, <1>22 DEF
            RecoveryNext

LEMMA RecoveryBounds ==
    ASSUME BoundsOK, RecoveryNext, UNCHANGED <<vm, runs, crashes>>
    PROVE  BoundsOK'
BY RecoveryBudget, BoundAssumption, FaultAssumption DEF BoundsOK, Works, Fails

------------------------------------------------------------------------------
(* The recovery VM: what each command leaves of the volume groups. *)

LEMMA DiscoveryWorld ==
    ASSUME WorldOK, StacksOK, MemoryOK, NamesApart, DiscoveryNext
    PROVE  WorldOK' /\ NamesApart'
<1> USE DEF WorldOK
<1>1. CASE Unlock
  BY <1>1, WakingKeepsApart DEF Unlock, MemoryOK, NamesApart, mnt
<1>2. CASE AdeImport
  BY <1>2, ActivateKeepsApart DEF AdeImport, NamesApart, VgNames, lvm, disk, mnt
<1>3. CASE Clone
  BY <1>3, ImportKeepsApart DEF Clone, MemoryOK, disk, mnt
<1>4. CASE Wake
  BY <1>4, ActivateKeepsApart DEF Wake, VgNames, disk, mnt
<1>5. CASE Lend
  BY <1>5, RenameKeepsApart DEF Lend, VgNames, disk, mnt
<1>6. CASE Borrow
  BY <1>6, RenameKeepsApart DEF Borrow, VgNames, disk, mnt
<1>7. CASE Activate
  BY <1>7, ActivateAllKeepsApart DEF Activate, disk, mnt
<1>8. CASE Remount
  BY <1>8 DEF Remount, MemoryOK, Job, Owners, NamesApart, lvm, disk
<1>9. CASE NoOsFound
  BY <1>9, HeadLayer DEF NoOsFound, RmdirAssert, StacksOK, NamesApart, lvm, disk
<1>10. CASE Peek
  BY <1>10, HeadLayer DEF Peek, RmdirAssert, StacksOK, NamesApart, lvm, disk, Outcome
<1>11. CASE Probe \/ Import \/ Scan \/ AdeScan \/ List \/ SkipEfi \/ LvmGate \/ FsckPart
            \/ AssertPart \/ FsckLv \/ AssertLv \/ AssertUsr \/ ReadLv \/ UnassertLv
  BY <1>11 DEF Probe, Import, Scan, AdeScan, List, SkipEfi, LvmGate, FsckPart, AssertPart,
       FsckLv, AssertLv, AssertUsr, ReadLv, UnassertLv,
     Fsck, MountAssert, NamesApart, lvm, disk, mnt
<1> QED  BY <1>1, <1>2, <1>3, <1>4, <1>5, <1>6, <1>7, <1>8, <1>9, <1>10, <1>11 DEF
            DiscoveryNext

LEMMA RecoveryWorld ==
    ASSUME WorldOK, StacksOK, MemoryOK, NamesApart, RecoveryNext
    PROVE  WorldOK' /\ NamesApart'
<1> USE DEF WorldOK
<1>1. CASE Disable
  BY <1>1, DeactivateKeepsApart DEF Disable, VgNames, disk, mnt
<1>2. CASE Delete
  BY <1>2 DEF Delete, NamesApart, lvm, mnt
<1>3. CASE RenameOldvg
  BY <1>3, RenameKeepsApart DEF RenameOldvg, VgNames, disk, mnt
<1>4. CASE Rescan
  BY <1>4, WakingKeepsApart DEF Rescan, MemoryOK, NamesApart, Owners, Entities
<1>5. CASE RescanMounts
  BY <1>5 DEF RescanMounts, MemoryOK, Job, Owners, NamesApart, lvm, disk
<1>6. CASE AdeDeactivate
  BY <1>6, DeactivateKeepsApart DEF AdeDeactivate, VgNames, disk, mnt
<1>7. CASE AdeClose
  BY <1>7 DEF AdeClose, CryptClose, NamesApart, lvm, mnt
<1>8. CASE AdeRenameBack
  BY <1>8, RenameKeepsApart DEF AdeRenameBack, VgNames, disk, mnt
<1>9. CASE CloseCrypt
  BY <1>9 DEF CloseCrypt, CryptClose, NamesApart, lvm, mnt
<1>10. CASE LoadScripts \/ CheckActions \/ MountRoot \/ MountLvs \/ MountBoot
            \/ MountEfi \/ Bind \/ RunChrootCli \/ RunRepairScript \/ Report \/ Umount
            \/ Finish
  BY <1>10 DEF LoadScripts, CheckActions, MountRoot, MountOsPartition, MountOsVolume,
         MountLvs, MountBoot, MountEfi,
       Bind, RunChrootCli, RunRepairScript, Report, Umount, Finish,
     StrictMount, MountKid, OnRoot, NamesApart, lvm, disk, mnt
<1> QED  BY <1>1, <1>2, <1>3, <1>4, <1>5, <1>6, <1>7, <1>8, <1>9, <1>10 DEF RecoveryNext

------------------------------------------------------------------------------
(* The mount stacks. *)

LEMMA RootLvType ==
    ASSUME WorldOK, DevDir("rootvg")
    PROVE  RootLv \in Entities \X Nat /\ RootLv[1] \in active /\ vg[RootLv[1]] = "rootvg"
BY DEF WorldOK, DevDir, RootLv

LEMMA FsckStack ==
    ASSUME StacksOK, NEW dev, NEW next, Fsck(dev, next)
    PROVE  StacksOK'
BY PopLayer DEF StacksOK, Fsck

LEMMA MountAssertStack ==
    ASSUME StacksOK, NEW dev \in Entities \X Nat, NEW next, MountAssert(dev, next)
    PROVE  StacksOK' /\ (pc' = "idle" \/ assertStk' # <<>>)
BY PushLayer DEF StacksOK, MountAssert, Goto, Quit

LEMMA DiscoveryStacks ==
    ASSUME WorldOK, StacksOK, MemoryOK, AssertReady, DiscoveryNext
    PROVE  StacksOK' /\ AssertReady'
<1>1. CASE FsckPart
  BY <1>1, FsckStack DEF FsckPart, Fsck, Quit, Goto, AssertReady
<1>2. CASE AssertPart
  BY <1>2, MountAssertStack DEF AssertPart, MountAssert, Quit, Goto, AssertReady,
       PartDev, MemoryOK, Job, Entities
<1>3. CASE Peek
  BY <1>3, HeadLayer DEF Peek, StacksOK, NextPart, Quit, AssertReady, Outcome
<1>4. CASE FsckLv
  BY <1>4, FsckStack DEF FsckLv, Fsck, Quit, Goto, AssertReady, StacksOK, mnt
<1>5. CASE AssertLv
  BY <1>5, MountAssertStack, RootLvType DEF AssertLv, AssertReady, StacksOK, mnt, Quit
<1>6. CASE AssertUsr
  BY <1>6, AddKidLayer, PopLayer DEF AssertUsr, AssertReady, StacksOK, Kids, Goto, Quit
<1>7. CASE UnassertLv
  BY <1>7, UmountLayer DEF UnassertLv, AssertReady, StacksOK, Goto
<1>8. CASE Probe \/ Unlock \/ AdeImport \/ AdeScan \/ Import \/ Clone \/ Wake \/ Scan \/ Lend
           \/ Borrow \/ Activate \/ Remount \/ List \/ NoOsFound \/ SkipEfi \/ LvmGate
           \/ ReadLv
  BY <1>8 DEF Probe, Unlock, AdeImport, AdeScan, Import, Clone, Wake, Scan, Lend, Borrow,
       Activate, Remount, List, NoOsFound, SkipEfi, LvmGate, ReadLv,
     StacksOK, AssertReady, Goto, Quit, NextPart, mnt
<1> QED  BY <1>1, <1>2, <1>3, <1>4, <1>5, <1>6, <1>7, <1>8 DEF DiscoveryNext

LEMMA PushReady ==
    ASSUME NEW e \in Entities, NEW p \in Nat, StacksOK,
           rootStk' = Push(<<e, p>>, rootStk), UNCHANGED <<job, assertStk>>,
           Selected = <<e, p>>
    PROVE  StacksOK' /\ Mounted({})'
BY PushLayer DEF StacksOK, Mounted, Selected

LEMMA KidReady ==
    ASSUME StacksOK, NEW K, Mounted(K), NEW k \in Kids,
           rootStk' = AddKid(k, rootStk), UNCHANGED <<job, assertStk>>
    PROVE  StacksOK' /\ Mounted(K \cup {k})'
BY AddKidLayer DEF StacksOK, Mounted, Selected

\* Which kids a step's label promises does not depend on the step.
LEMMA KidsStay ==
    ASSUME UNCHANGED <<job, vm>>, NEW S
    PROVE  KidsFor(S)' = KidsFor(S)
BY DEF KidsFor, HasKind, PartsOf

LEMMA RecoveryStacks ==
    ASSUME IInv, RecoveryNext, UNCHANGED vm
    PROVE  StacksOK' /\ RootReady' /\ AssertReady'
<1> USE DEF IInv
<1>1. CASE MountRoot
  <2>1. ASSUME job.lvs = "none", pc' = "mountBoot",
               rootStk' = Push(<<job.disk, job.os>>, rootStk), UNCHANGED <<job,
               assertStk>>
        PROVE  StacksOK' /\ RootReady' /\ AssertReady'
    BY <1>1, <2>1, PushReady, KidsStay
       DEF MountRoot, MountOsPartition, MountOsVolume,
              MemoryOK, Job, Entities, Selected, KidsFor, Mounted, RootReady,
       AssertReady
  <2>2. ASSUME job.lvs = "rootvg", pc' = "mountLvs", UNCHANGED <<job, assertStk>>,
               NEW e \in Entities, e \in active, vg[e] = "rootvg",
               rootStk' = Push(<<e, 0>>, rootStk)
        PROVE  StacksOK' /\ RootReady' /\ AssertReady'
    <3>1. e = job.disk
      BY <1>1, <2>2 DEF MountRoot, MountOsPartition, MountOsVolume,
             ListHolds, FromListToRun, NamesApart
    <3> QED  BY <2>2, <3>1, PushReady DEF Selected, Mounted, RootReady, AssertReady
  <2>3. ASSUME rootStk' = rootStk, assertStk' = assertStk,
               pc' \in {"idle", "umount"} \/ (pc' = "mountLvs" /\ job'.lvs # "rootvg")
        PROVE  StacksOK' /\ RootReady' /\ AssertReady'
    BY <2>3 DEF StacksOK, RootReady, AssertReady
  <2> QED  BY <1>1, <2>1, <2>2, <2>3
           DEF MountRoot, MountOsPartition, MountOsVolume,
                  StrictMount, OnRoot, Goto, Quit, UmountThenFail
<1>2. CASE MountLvs
  BY <1>2, KidReady, KidsStay
     DEF MountLvs, StrictMount, OnRoot, Goto, Quit, StacksOK, RootReady, AssertReady,
         Mounted, KidsFor, Kids
<1>3. CASE MountBoot
  BY <1>3, KidReady, KidsStay
     DEF MountBoot, MountKid, StrictMount, OnRoot, Goto, Quit, StacksOK, RootReady,
         AssertReady, Mounted, Selected, KidsFor, Kids
<1>4. CASE MountEfi
  BY <1>4, KidReady, KidsStay
     DEF MountEfi, MountKid, StrictMount, OnRoot, Goto, Quit, StacksOK, RootReady,
         AssertReady, Mounted, Selected, KidsFor, Kids
<1>5. CASE Bind
  BY <1>5, KidReady, KidsStay
     DEF Bind, OnRoot, Goto, UmountThenFail, StacksOK, RootReady, AssertReady, Mounted,
         Selected, KidsFor, Kids
<1>6. CASE RunRepairScript
  BY <1>6 DEF RunRepairScript, mnt, Goto, Quit, StacksOK, RootReady, AssertReady, Mounted,
         Selected, KidsFor, HasKind, PartsOf, MemoryOK, Job
<1>7. CASE Umount
  BY <1>7, UmountLayer DEF Umount, CleanupEntry, Goto, StacksOK, RootReady, AssertReady
<1>8. CASE LoadScripts \/ CheckActions \/ RunChrootCli \/ Report \/ Disable \/ Delete
           \/ RenameOldvg \/ Rescan \/ RescanMounts \/ AdeDeactivate \/ AdeClose
           \/ AdeRenameBack \/ CloseCrypt \/ Finish
  BY <1>8 DEF LoadScripts, CheckActions, RunChrootCli, Report, Disable, Delete,
       RenameOldvg, Rescan, RescanMounts, AdeDeactivate, AdeClose, AdeRenameBack,
       CloseCrypt, Finish,
     mnt, Goto, Quit, CleanupThenFail, CleanupEntry, UmountThenFail, StacksOK,
     RootReady, AssertReady
<1> QED  BY <1>1, <1>2, <1>3, <1>4, <1>5, <1>6, <1>7, <1>8 DEF RecoveryNext

LEMMA DiscoveryList ==
    ASSUME WorldOK, MemoryOK, ListHolds, DiscoveryNext
    PROVE  ListHolds' /\ RootReady'
<1> USE DEF ListHolds, FromListToRun, RootReady, Goto, Quit, lvm
<1>1. CASE List
  BY <1>1 DEF List, MemoryOK, Job
<1>2. CASE SkipEfi
  BY <1>2 DEF SkipEfi, NextPart, MemoryOK, Job
<1>3. CASE Peek
  BY <1>3 DEF Peek, NextPart, MemoryOK, Job
<1>4. CASE ReadLv
  BY <1>4 DEF ReadLv, MemoryOK, Job
<1>5. CASE FsckPart
  BY <1>5 DEF FsckPart, Fsck
<1>6. CASE FsckLv
  <2>1. UNCHANGED lvm /\ (Goto("assertLv") \/ Quit("err"))
    BY <1>6 DEF FsckLv, Fsck
  <2> QED  BY <1>6, <2>1 DEF FsckLv, NoJob, NewJob
<1>7. CASE AssertPart
  BY <1>7 DEF AssertPart, MountAssert
<1>8. CASE AssertLv
  BY <1>8 DEF AssertLv, MountAssert
<1>9. CASE Probe \/ Unlock \/ AdeImport \/ AdeScan \/ Import \/ Clone \/ Wake \/ Scan \/ Lend
           \/ Borrow \/ Activate \/ Remount \/ NoOsFound \/ LvmGate \/ AssertUsr
           \/ UnassertLv
  BY <1>9 DEF Probe, Unlock, AdeImport, AdeScan, Import, Clone, Wake, Scan, Lend, Borrow,
       Activate, Remount, NoOsFound, LvmGate, AssertUsr, UnassertLv, NoJob, NewJob
<1> QED  BY <1>1, <1>2, <1>3, <1>4, <1>5, <1>6, <1>7, <1>8, <1>9 DEF DiscoveryNext

LEMMA RecoveryList ==
    ASSUME MemoryOK, ListHolds, RecoveryNext
    PROVE  ListHolds'
<1> USE DEF ListHolds, FromListToRun, Goto, Quit, lvm
<1>1. CASE LoadScripts
  BY <1>1 DEF LoadScripts, CleanupThenFail, CleanupEntry
<1>2. CASE CheckActions
  BY <1>2 DEF CheckActions, CleanupThenFail, CleanupEntry
<1>3. CASE MountRoot
  BY <1>3 DEF MountRoot, MountOsPartition, MountOsVolume, StrictMount, UmountThenFail
<1>4. CASE RunRepairScript
  BY <1>4 DEF RunRepairScript, MemoryOK, Job
<1>5. CASE Umount
  BY <1>5 DEF Umount, CleanupEntry
<1>6. CASE MountLvs \/ MountBoot \/ MountEfi \/ Bind \/ RunChrootCli \/ Report
           \/ Disable \/ Delete \/ RenameOldvg \/ Rescan \/ RescanMounts
           \/ AdeDeactivate \/ AdeClose \/ AdeRenameBack \/ CloseCrypt \/ Finish
  BY <1>6 DEF MountLvs, MountBoot, MountEfi, Bind, RunChrootCli, Report, Disable,
       Delete, RenameOldvg, Rescan, RescanMounts, AdeDeactivate, AdeClose,
       AdeRenameBack, CloseCrypt, Finish, StrictMount, MountKid, UmountThenFail
<1> QED  BY <1>1, <1>2, <1>3, <1>4, <1>5, <1>6 DEF RecoveryNext

------------------------------------------------------------------------------
(* The inductive invariant. *)

LEMMA InitInv == Init => IInv
<1> SUFFICES ASSUME Init PROVE IInv
  OBVIOUS
<1>1. WorldOK
  BY EntityAssumption DEF Init, WorldOK, InitialVg, Untouched, CanWakeUp, Entities,
       VgNames, Owners
<1>2. BoundsOK /\ StacksOK
  BY BoundAssumption, FaultAssumption DEF Init, BoundsOK, StacksOK
<1>3. MemoryOK
  BY NewJobType DEF Init, MemoryOK, Labels, NoJob
<1>4. NamesApart
  BY DEF Init, NamesApart
<1>5. ListHolds /\ RootReady /\ AssertReady
  BY DEF Init, ListHolds, FromListToRun, RootReady, AssertReady
<1> QED  BY <1>1, <1>2, <1>3, <1>4, <1>5 DEF IInv

LEMMA NextInv == IInv /\ [Next]_vars => IInv'
<1> SUFFICES ASSUME IInv, [Next]_vars PROVE IInv'
  OBVIOUS
<1> USE DEF IInv
<1>1. CASE Start
  BY <1>1, NewJobType, BoundAssumption, FaultAssumption
     DEF Start, NewJob, lvm, disk, mnt, WorldOK, StacksOK, BoundsOK, MemoryOK, Labels,
     NamesApart,
         ListHolds, FromListToRun, RootReady, AssertReady
<1>2. CASE DiscoveryNext /\ UNCHANGED <<vm, runs, crashes>>
  BY <1>2, DiscoveryMemory, DiscoveryBounds, DiscoveryWorld, DiscoveryStacks,
       DiscoveryList
<1>3. CASE RecoveryNext /\ UNCHANGED <<vm, runs, crashes>>
  BY <1>3, RecoveryMemory, RecoveryBounds, RecoveryWorld, RecoveryStacks, RecoveryList
<1>4. CASE Crash
  BY <1>4, NewJobType, BoundAssumption, FaultAssumption
     DEF Crash, Quit, NoJob, lvm, disk, mnt, WorldOK, StacksOK, BoundsOK, MemoryOK,
     Labels,
         NamesApart, ListHolds, FromListToRun, RootReady, AssertReady
<1>5. CASE UNCHANGED vars
  BY <1>5 DEF vars, lvm, disk, mnt, WorldOK, StacksOK, BoundsOK, MemoryOK, NamesApart,
       ListHolds,
         RootReady, AssertReady, Mounted, Selected, KidsFor, HasKind, PartsOf
<1> QED  BY <1>1, <1>2, <1>3, <1>4, <1>5 DEF Next, Step, Rest

LEMMA InvImplies == IInv => TypeOK /\ ScriptOnSelectedDisk
BY DEF IInv, WorldOK, StacksOK, BoundsOK, MemoryOK, TypeOK, RootReady, Mounted, KidsFor,
       ScriptOnSelectedDisk

\* The inductive invariant holds of every reachable state.
THEOREM Inductive == Spec => []IInv
BY InitInv, NextInv, PTL DEF Spec

\* Every variable keeps its type, for every set of disks, scenario and bound.
THEOREM TypeCorrect == Spec => []TypeOK
BY Inductive, InvImplies, PTL

\* Whatever earlier runs left behind, however many disks are attached and
\* whichever commands fail: a script runs only in the complete root file system
\* of the disk that was chosen.
THEOREM ScriptsRunOnSelectedDisk == Spec => []ScriptOnSelectedDisk
BY Inductive, InvImplies, PTL
==============================================================================
