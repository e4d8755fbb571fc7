------------------------------ MODULE StepProofs ------------------------------
(***************************************************************************)
(* What no step of AlarRun does, for every set of disks, every scenario and  *)
(* every bound.                                                             *)
(*                                                                         *)
(* AlarRun implements RootvgLease: a command works on the volume groups or   *)
(* on the mounts, never on both; the former may give up the name "rootvg"    *)
(* or take it when nobody has it (Handover), the latter add the root of its  *)
(* holder to the roots in use or give one back (RootMove).                  *)
(*                                                                         *)
(* No disk is detached under its mounts: the group that was deactivated just *)
(* before is that of the disk (DetachReady).                                *)
(*                                                                         *)
(* The selected disk is not wiped: a partition of it that is still mounted   *)
(* stops the loop when the loop comes to it (LoopInv).                      *)
(***************************************************************************)
EXTENDS AlarRunProofs

\* A root partition is mounted only when one was found; partition 0 is the root volume.
OsFound == pc \in {"unassertLv", "scripts", "available", "mountRoot"} => job.os # 0

LInv == IInv /\ OsFound

LEMMA OsFoundStep ==
    ASSUME IInv, OsFound, [Next]_vars
    PROVE  OsFound'
<1> USE DEF OsFound, Goto, Quit, IInv, MemoryOK
<1>1. CASE Peek
  BY <1>1 DEF Peek, NextPart, Job
<1>2. CASE ReadLv
  BY <1>2 DEF ReadLv, Job
<1>3. CASE FsckPart \/ AssertPart
  BY <1>3 DEF FsckPart, Fsck, AssertPart, MountAssert
<1>4. CASE FsckLv
  <2>1. Goto("assertLv") \/ Quit("err")
    BY <1>4 DEF FsckLv, Fsck
  <2> QED  BY <2>1
<1>5. CASE AssertLv
  BY <1>5 DEF AssertLv, MountAssert
<1>6. CASE LoadScripts
  BY <1>6 DEF LoadScripts, CleanupThenFail, CleanupEntry
<1>7. CASE CheckActions
  BY <1>7 DEF CheckActions, CleanupThenFail, CleanupEntry
<1>8. CASE Import
  BY <1>8 DEF Import
<1>9. CASE Probe
  BY <1>9 DEF Probe
<1>10. CASE Unlock
  BY <1>10 DEF Unlock
<1>11. CASE AdeImport \/ AdeScan \/ Clone \/ Wake \/ Scan \/ Lend \/ Borrow \/ Activate
            \/ Remount \/ List \/ NoOsFound \/ SkipEfi \/ LvmGate \/ AssertUsr \/ UnassertLv
  BY <1>11 DEF AdeImport, AdeScan, Clone, Wake, Scan, Lend, Borrow, Activate, Remount, List,
       NoOsFound, SkipEfi, LvmGate, AssertUsr, UnassertLv, NextPart
<1>12. CASE MountRoot
  BY <1>12 DEF MountRoot, MountOsPartition, MountOsVolume, StrictMount, UmountThenFail
<1>13. CASE MountLvs \/ MountBoot \/ MountEfi \/ Bind
  BY <1>13 DEF MountLvs, MountBoot, MountEfi, Bind, MountKid, StrictMount, UmountThenFail
<1>14. CASE RunChrootCli \/ RunRepairScript \/ Report
  BY <1>14 DEF RunChrootCli, RunRepairScript, Report, UmountThenFail
<1>15. CASE Umount
  BY <1>15 DEF Umount, CleanupEntry
<1>16. CASE Disable \/ Delete \/ RenameOldvg \/ Rescan \/ RescanMounts
            \/ AdeDeactivate \/ AdeClose \/ AdeRenameBack \/ CloseCrypt \/ Finish
  BY <1>16 DEF Disable, Delete, RenameOldvg, Rescan, RescanMounts,
       AdeDeactivate, AdeClose, AdeRenameBack, CloseCrypt, Finish
<1>17. CASE Start \/ Crash \/ UNCHANGED vars
  BY <1>17 DEF Start, Crash, vars
<1> QED  BY <1>1, <1>2, <1>3, <1>4, <1>5, <1>6, <1>7, <1>8, <1>9, <1>10, <1>11, <1>12,
            <1>13, <1>14, <1>15, <1>16, <1>17
         DEF Next, Step, Rest, DiscoveryNext, RecoveryNext

------------------------------------------------------------------------------
(* The holder of the name. *)

Handover ==
    \A e \in active, f \in active' : vg[e] = "rootvg" /\ vg'[f] = "rootvg" => e = f

LEMMA OwnerIs ==
    ASSUME WorldOK, NamesApart
    PROVE  /\ RootvgOwner \in Entities \cup {Nobody}
           /\ RootvgOwner # Nobody => RootvgOwner \in active /\ vg[RootvgOwner] = "rootvg"
           /\ \A e \in active : vg[e] = "rootvg" => RootvgOwner = e
BY EntityAssumption DEF WorldOK, NamesApart, RootvgOwner, DevDir

LEMMA RenameHands ==
    ASSUME IInv, NEW s \in VgNames, NEW t \in VgNames, NEW ok \in BOOLEAN,
           VgRename(s, t, ok), active' = active
    PROVE  Handover
BY DEF IInv, WorldOK, NamesApart, VgRename, Outcome, Listed, Taken, Handover

LEMMA ImportHands ==
    ASSUME IInv, NEW d \in Disks, NEW ok \in BOOLEAN, VgImportClone(d, ok), active' = active
    PROVE  Handover
BY DEF IInv, WorldOK, NamesApart, VgImportClone, Outcome, Entities, VgNames, Handover

LEMMA ActivateHands ==
    ASSUME IInv, NEW n \in VgNames, NEW ok \in BOOLEAN, VgActivate(n, ok), vg' = vg
    PROVE  Handover
BY DEF IInv, WorldOK, NamesApart, VgActivate, Outcome, Listed, Clash, Handover

LEMMA ActivateAllHands ==
    ASSUME IInv, NEW ok \in BOOLEAN, VgActivateAll(ok), vg' = vg
    PROVE  Handover
BY DEF IInv, WorldOK, NamesApart, VgActivateAll, Clash, Handover

LEMMA DeactivateHands ==
    ASSUME IInv, NEW n \in VgNames, NEW ok \in BOOLEAN, VgDeactivate(n, ok), vg' = vg
    PROVE  Handover
BY DEF IInv, WorldOK, NamesApart, VgDeactivate, Handover

LEMMA WakingHands ==
    ASSUME IInv, NEW d \in Disks, active' = AutoActivated(d), vg' = vg
    PROVE  Handover
BY DEF IInv, WorldOK, NamesApart, AutoActivated, Clash, Entities, Handover

LEMMA SameHands ==
    ASSUME IInv, UNCHANGED lvm
    PROVE  Handover
BY DEF IInv, NamesApart, lvm, Handover

\* Then the lease is released, taken, or stays.
LEMMA HandsLease ==
    ASSUME IInv, IInv', Handover, UNCHANGED <<assertStk, rootStk>>
    PROVE  [Lease!Next]_(Lease!lease)
<1>1. RootsInUse' = RootsInUse
  BY DEF RootsInUse, Layers
<1>0. (/\ RootvgOwner \in Entities \cup {Nobody}
       /\ RootvgOwner # Nobody => RootvgOwner \in active /\ vg[RootvgOwner] = "rootvg")'
  BY EntityAssumption DEF IInv, WorldOK, NamesApart, RootvgOwner, DevDir
<1>2. RootvgOwner # Nobody /\ RootvgOwner' # Nobody => RootvgOwner' = RootvgOwner
  <2> HIDE DEF RootvgOwner
  <2> QED  BY <1>0, OwnerIs DEF Handover, IInv
<1>3. (RootvgOwner \in Entities \cup {Nobody})'
  BY <1>0
<1> HIDE DEF RootvgOwner, RootsInUse
<1> QED  BY <1>1, <1>2, <1>3 DEF Lease!Next, Lease!Release, Lease!Take, Lease!lease

------------------------------------------------------------------------------
(* The roots in use. *)

Roots(stk) == {e \in Entities : \E l \in Layers(stk) : l.src = <<e, 0>>}

RootMove(old, new) ==
    \/ Roots(new) = Roots(old)
    \/ \E e \in Roots(old) : Roots(new) = Roots(old) \ {e}
    \/ RootvgOwner # Nobody /\ Roots(new) = Roots(old) \cup {RootvgOwner}

LEMMA LayersOfCons ==
    ASSUME NEW stk \in Seq(Layer), NEW l \in Layer
    PROVE  Layers(<<l>> \o stk) = {l} \cup Layers(stk)
<1> DEFINE s == <<l>> \o stk
<1>1. Len(s) = Len(stk) + 1 /\ DOMAIN s = 1 .. Len(stk) + 1
  OBVIOUS
<1>2. s[1] = l /\ \A i \in 1 .. Len(stk) : s[i + 1] = stk[i]
  OBVIOUS
<1>3. \A i \in DOMAIN s : i = 1 \/ (i - 1 \in DOMAIN stk /\ s[i] = stk[i - 1])
  BY <1>1, <1>2
<1>4. \A i \in DOMAIN stk : i + 1 \in DOMAIN s /\ s[i + 1] = stk[i]
  BY <1>1, <1>2
<1>5. 1 \in DOMAIN s
  BY <1>1
<1> HIDE DEF s
<1>6. Layers(s) = {l} \cup Layers(stk)
  BY <1>2, <1>3, <1>4, <1>5 DEF Layers
<1> QED  BY <1>6 DEF s

LEMMA RootsOfCons ==
    ASSUME NEW stk \in Seq(Layer), NEW l \in Layer
    PROVE  Roots(<<l>> \o stk) = {e \in Entities : l.src = <<e, 0>>} \cup Roots(stk)
BY LayersOfCons DEF Roots

LEMMA HeadAndTail ==
    ASSUME NEW stk \in Seq(Layer), stk # <<>>
    PROVE  Roots(stk) = {e \in Entities : Head(stk).src = <<e, 0>>} \cup Roots(Tail(stk))
<1>1. stk = <<Head(stk)>> \o Tail(stk) /\ Head(stk) \in Layer /\ Tail(stk) \in Seq(Layer)
  BY HeadTailProperties
<1> QED  BY <1>1, RootsOfCons

LEMMA TailMoves ==
    ASSUME NEW stk \in Seq(Layer), stk # <<>>
    PROVE  RootMove(stk, Tail(stk))
<1>1. CASE \E e \in Entities : Head(stk).src = <<e, 0>>
  <2>1. PICK e \in Entities : Head(stk).src = <<e, 0>>
    BY <1>1
  <2>2. Roots(stk) = {e} \cup Roots(Tail(stk))
    BY <2>1, HeadAndTail
  <2> QED  BY <2>2 DEF RootMove
<1>2. CASE ~\E e \in Entities : Head(stk).src = <<e, 0>>
  BY <1>2, HeadAndTail DEF RootMove
<1> QED  BY <1>1, <1>2

LEMMA PopMoves ==
    ASSUME NEW stk \in Seq(Layer)
    PROVE  RootMove(stk, Pop(stk))
BY TailMoves DEF Pop, RootMove

LEMMA KidMoves ==
    ASSUME NEW stk \in Seq(Layer), stk # <<>>, NEW K \in SUBSET Kids
    PROVE  RootMove(stk, <<[Head(stk) EXCEPT !.kids = K]>> \o Tail(stk))
<1> DEFINE l == [Head(stk) EXCEPT !.kids = K]
<1>1. Head(stk) \in Layer /\ Tail(stk) \in Seq(Layer)
  BY HeadLayer
<1>2. l \in Layer /\ l.src = Head(stk).src
  BY <1>1 DEF Layer
<1> HIDE DEF l
<1>3. Roots(<<l>> \o Tail(stk)) = Roots(stk)
  <2>1. Roots(<<l>> \o Tail(stk)) = {e \in Entities : l.src = <<e, 0>>} \cup Roots(Tail(stk))
    BY <1>1, <1>2, RootsOfCons
  <2> QED  BY <2>1, <1>2, HeadAndTail
<1> QED  BY <1>3 DEF RootMove, l

LEMMA AddKidMoves ==
    ASSUME NEW stk \in Seq(Layer), stk # <<>>, NEW k \in Kids
    PROVE  RootMove(stk, AddKid(k, stk))
<1>1. Head(stk).kids \cup {k} \in SUBSET Kids
  BY HeadLayer DEF Layer
<1>2. AddKid(k, stk) = <<[Head(stk) EXCEPT !.kids = Head(stk).kids \cup {k}]>> \o Tail(stk)
  BY DEF AddKid
<1> QED  BY <1>1, <1>2, KidMoves

LEMMA UmountMoves ==
    ASSUME NEW stk \in Seq(Layer), NEW new, NEW ok \in BOOLEAN, UmountR(stk, new, ok)
    PROVE  RootMove(stk, new)
<1>1. CASE ok
  BY <1>1, TailMoves DEF UmountR, Outcome
<1>2. CASE ~ok /\ stk = <<>>
  BY <1>2 DEF UmountR, RootMove
<1>3. CASE ~ok /\ stk # <<>>
  <2>1. PICK left \in SUBSET Head(stk).kids :
            new = <<[Head(stk) EXCEPT !.kids = left]>> \o Tail(stk)
    BY <1>3 DEF UmountR
  <2>2. left \in SUBSET Kids
    BY <1>3, <2>1, HeadLayer DEF Layer
  <2> QED  BY <1>3, <2>1, <2>2, KidMoves
<1> QED  BY <1>1, <1>2, <1>3

\* What may be mounted: a partition, or the root volume of the one with the name.
Mountable(dev) ==
    /\ dev \in Entities \X Nat
    /\ dev[2] = 0 => dev[1] \in active /\ vg[dev[1]] = "rootvg"

LEMMA PushMoves ==
    ASSUME WorldOK, NamesApart, NEW stk \in Seq(Layer), NEW dev, Mountable(dev)
    PROVE  RootMove(stk, Push(dev, stk))
<1> DEFINE l == [src |-> dev, kids |-> {}]
<1>1. l \in Layer /\ l.src = dev
  BY DEF Layer, Mountable
<1> HIDE DEF l
<1>2. Roots(<<l>> \o stk) = {e \in Entities : dev = <<e, 0>>} \cup Roots(stk)
  BY <1>1, RootsOfCons
<1>3. CASE dev[2] = 0
  <2>1. RootvgOwner = dev[1] /\ dev[1] \in Entities
    BY <1>3, OwnerIs DEF Mountable
  <2>2. {e \in Entities : dev = <<e, 0>>} = {dev[1]}
    BY <1>3 DEF Mountable
  <2>3. RootvgOwner # Nobody
    BY <2>1, EntityAssumption
  <2> QED  BY <1>2, <2>1, <2>2, <2>3 DEF RootMove, Push, l
<1>4. CASE dev[2] # 0
  <2>1. {e \in Entities : dev = <<e, 0>>} = {}
    BY <1>4
  <2> QED  BY <1>2, <2>1 DEF RootMove, Push, l
<1> QED  BY <1>3, <1>4

\* Then a root is used, returned, or nothing happens to the lease.
LEMMA MoveLease ==
    ASSUME IInv, UNCHANGED lvm,
           \/ rootStk' = rootStk /\ RootMove(assertStk, assertStk')
           \/ assertStk' = assertStk /\ RootMove(rootStk, rootStk')
    PROVE  [Lease!Next]_(Lease!lease)
<1>1. RootvgOwner' = RootvgOwner
  BY DEF RootvgOwner, DevDir, lvm
<1>2. RootsInUse = Roots(assertStk) \cup Roots(rootStk)
  BY DEF RootsInUse, Roots
<1>3. RootsInUse' = Roots(assertStk') \cup Roots(rootStk')
  BY DEF RootsInUse, Roots
<1>4. \/ RootsInUse' = RootsInUse
      \/ \E e \in RootsInUse : RootsInUse' = RootsInUse \ {e}
      \/ RootvgOwner # Nobody /\ RootsInUse' = RootsInUse \cup {RootvgOwner}
  <2> HIDE DEF RootvgOwner, RootsInUse, Roots
  <2>1. CASE rootStk' = rootStk /\ RootMove(assertStk, assertStk')
    BY <2>1, <1>2, <1>3 DEF RootMove
  <2>2. CASE assertStk' = assertStk /\ RootMove(rootStk, rootStk')
    BY <2>2, <1>2, <1>3 DEF RootMove
  <2> QED  BY <2>1, <2>2
<1> HIDE DEF RootvgOwner, RootsInUse
<1> QED  BY <1>1, <1>4 DEF Lease!Next, Lease!Use, Lease!Return, Lease!lease
------------------------------------------------------------------------------
(* Each step. *)

LEMMA FsckMoves ==
    ASSUME IInv, NEW dev, NEW next, Fsck(dev, next)
    PROVE  RootMove(assertStk, assertStk')
BY PopMoves DEF Fsck, IInv, StacksOK, RootMove

LEMMA MountAssertMoves ==
    ASSUME IInv, NEW dev, Mountable(dev), NEW next, MountAssert(dev, next)
    PROVE  RootMove(assertStk, assertStk')
BY PushMoves DEF MountAssert, IInv, StacksOK, RootMove

LEMMA PartMountable == IInv /\ pc # "idle" => Mountable(PartDev)
BY DEF IInv, MemoryOK, Job, Mountable, PartDev, Entities

LEMMA DiscoveryLease ==
    ASSUME IInv, IInv', DiscoveryNext
    PROVE  [Lease!Next]_(Lease!lease)
<1>1. ASSUME Handover, UNCHANGED <<assertStk, rootStk>>
      PROVE  [Lease!Next]_(Lease!lease)
  BY <1>1, HandsLease
<1>2. ASSUME UNCHANGED <<vg, active, rootStk>>, RootMove(assertStk, assertStk')
      PROVE  [Lease!Next]_(Lease!lease)
  BY <1>2, MoveLease DEF lvm
<1>3. job.disk \in Disks \cup {Nobody} /\ (pc # "idle" => job.disk \in Disks)
  BY DEF IInv, MemoryOK, Job
<1>4. {"rootvg", "rescuevg", "oldvg"} \subseteq VgNames
  BY DEF VgNames
<1> HIDE DEF Lease!Next, Lease!lease
<1>5. CASE Unlock
  <2>1. Handover /\ UNCHANGED mnt
    BY <1>5, <1>3, WakingHands, SameHands DEF Unlock, lvm
  <2> QED  BY <2>1, <1>1 DEF mnt
<1>6. CASE AdeImport
  BY <1>6, <1>1, <1>4, ActivateHands, SameHands DEF AdeImport, lvm, mnt
<1>7. CASE Clone
  BY <1>7, <1>1, <1>3, ImportHands DEF Clone, mnt
<1>8. CASE Wake
  BY <1>8, <1>1, <1>4, ActivateHands DEF Wake, mnt
<1>9. CASE Lend
  BY <1>9, <1>1, <1>4, RenameHands DEF Lend, mnt
<1>10. CASE Borrow
  BY <1>10, <1>1, <1>4, RenameHands DEF Borrow, mnt
<1>11. CASE Activate
  BY <1>11, <1>1, ActivateAllHands DEF Activate, mnt
<1>12. CASE Probe \/ Import \/ Scan \/ AdeScan \/ List \/ SkipEfi \/ LvmGate \/ ReadLv
            \/ Remount \/ NoOsFound
  <2>1. UNCHANGED <<vg, active, assertStk, rootStk>>
    BY <1>12 DEF Probe, Import, Scan, AdeScan, List, SkipEfi, LvmGate, ReadLv, Remount,
         NoOsFound, lvm, mnt
  <2> QED  BY <2>1, <1>1, SameHands DEF lvm
<1>13. CASE FsckPart
  <2>1. UNCHANGED <<vg, active, rootStk>>
    BY <1>13 DEF FsckPart, Fsck, lvm
  <2>2. RootMove(assertStk, assertStk')
    BY <1>13, FsckMoves DEF FsckPart
  <2> QED  BY <2>1, <2>2, <1>2
<1>14. CASE FsckLv
  <2>1. UNCHANGED <<vg, active, rootStk>>
    BY <1>14 DEF FsckLv, Fsck, lvm, mnt
  <2>2. RootMove(assertStk, assertStk')
    BY <1>14, FsckMoves DEF FsckLv, mnt, RootMove
  <2> QED  BY <2>1, <2>2, <1>2
<1>15. CASE AssertPart
  <2>1. UNCHANGED <<vg, active, rootStk>>
    BY <1>15 DEF AssertPart, MountAssert, lvm
  <2>2. RootMove(assertStk, assertStk')
    BY <1>15, PartMountable, MountAssertMoves DEF AssertPart
  <2> QED  BY <2>1, <2>2, <1>2
<1>16. CASE AssertLv
  <2>1. UNCHANGED <<vg, active, rootStk>>
    BY <1>16 DEF AssertLv, MountAssert, lvm, mnt
  <2>2. ASSUME DevDir("rootvg")
        PROVE  Mountable(RootLv)
    BY <2>2, RootLvType DEF Mountable, RootLv, IInv
  <2>3. RootMove(assertStk, assertStk')
    BY <1>16, <2>2, MountAssertMoves DEF AssertLv, mnt, RootMove
  <2> QED  BY <2>1, <2>3, <1>2
<1>17. CASE AssertUsr
  <2>1. RootMove(assertStk, assertStk')
    BY <1>17, AddKidMoves, PopMoves
       DEF AssertUsr, RootMove, IInv, StacksOK, AssertReady, Kids
  <2> QED  BY <1>17, <2>1, <1>2 DEF AssertUsr, lvm
<1>18. CASE Peek
  <2>1. RootMove(assertStk, assertStk')
    BY <1>18, TailMoves DEF Peek, Outcome, RootMove, IInv, StacksOK
  <2> QED  BY <1>18, <2>1, <1>2 DEF Peek, lvm
<1>19. CASE UnassertLv
  <2>1. RootMove(assertStk, assertStk')
    BY <1>19, UmountMoves DEF UnassertLv, IInv, StacksOK
  <2> QED  BY <1>19, <2>1, <1>2 DEF UnassertLv, lvm
<1> QED  BY <1>5, <1>6, <1>7, <1>8, <1>9, <1>10, <1>11, <1>12, <1>13, <1>14, <1>15, <1>16,
            <1>17, <1>18, <1>19
         DEF DiscoveryNext

LEMMA RecoveryLease ==
    ASSUME IInv, IInv', OsFound, RecoveryNext
    PROVE  [Lease!Next]_(Lease!lease)
<1>1. ASSUME Handover, UNCHANGED <<assertStk, rootStk>>
      PROVE  [Lease!Next]_(Lease!lease)
  BY <1>1, HandsLease
<1>2. ASSUME UNCHANGED <<vg, active, assertStk>>, RootMove(rootStk, rootStk')
      PROVE  [Lease!Next]_(Lease!lease)
  BY <1>2, MoveLease DEF lvm
<1>3. job \in Job /\ (pc # "idle" => job.disk \in Disks) /\ rootStk \in Seq(Layer)
  BY DEF IInv, MemoryOK, StacksOK
<1>4. {"rootvg", "rescuevg", "oldvg"} \subseteq VgNames
  BY DEF VgNames
<1> HIDE DEF Lease!Next, Lease!lease
<1>5. CASE Disable
  BY <1>5, <1>1, <1>4, DeactivateHands DEF Disable, mnt
<1>6. CASE AdeDeactivate
  BY <1>6, <1>1, <1>4, DeactivateHands DEF AdeDeactivate, mnt
<1>7. CASE RenameOldvg
  BY <1>7, <1>1, <1>4, RenameHands DEF RenameOldvg, mnt
<1>8. CASE AdeRenameBack
  BY <1>8, <1>1, <1>4, RenameHands DEF AdeRenameBack, mnt
<1>9. CASE Rescan
  <2>1. Handover
    BY <1>9, <1>3, WakingHands, SameHands DEF Rescan, lvm
  <2> QED  BY <1>9, <2>1, <1>1 DEF Rescan
<1>10. CASE LoadScripts \/ CheckActions \/ RunChrootCli \/ RunRepairScript \/ Report
            \/ Delete \/ RescanMounts \/ AdeClose \/ CloseCrypt \/ Finish
  <2>1. UNCHANGED <<vg, active, assertStk, rootStk>>
    BY <1>10 DEF LoadScripts, CheckActions, RunChrootCli, RunRepairScript, Report, Delete,
         RescanMounts, AdeClose, CloseCrypt, Finish, lvm, mnt
  <2> QED  BY <2>1, <1>1, SameHands DEF lvm
<1>11. CASE MountRoot
  <2>1. UNCHANGED <<vg, active, assertStk>>
    BY <1>11 DEF MountRoot, MountOsPartition, MountOsVolume, StrictMount, OnRoot, lvm
  <2>2. Mountable(<<job.disk, job.os>>)
    BY <1>11, <1>3 DEF MountRoot, OsFound, Mountable, Job, Entities
  <2>3. \A e \in active : vg[e] = "rootvg" => Mountable(<<e, 0>>)
    BY DEF Mountable, IInv, WorldOK
  <2>4. \/ rootStk' = rootStk
        \/ rootStk' = Push(<<job.disk, job.os>>, rootStk)
        \/ \E e \in active : vg[e] = "rootvg" /\ rootStk' = Push(<<e, 0>>, rootStk)
    BY <1>11 DEF MountRoot, MountOsPartition, MountOsVolume, StrictMount, OnRoot
  <2>5. RootMove(rootStk, rootStk')
    BY <2>2, <2>3, <2>4, <1>3, PushMoves DEF RootMove, IInv
  <2> QED  BY <2>1, <2>5, <1>2
<1>12. CASE MountLvs \/ MountBoot \/ MountEfi \/ Bind
  <2>1. UNCHANGED <<vg, active, assertStk>>
    BY <1>12 DEF MountLvs, MountBoot, MountEfi, Bind, MountKid, StrictMount, OnRoot, lvm
  <2>2. \/ rootStk' = rootStk
        \/ \E k \in Kids : rootStk' = AddKid(k, rootStk)
    BY <1>12 DEF MountLvs, MountBoot, MountEfi, Bind, MountKid, StrictMount, OnRoot, Kids
  <2>3. rootStk # <<>> \/ rootStk' = rootStk
    BY <1>12 DEF MountLvs, MountBoot, MountEfi, Bind, MountKid, StrictMount, OnRoot,
         IInv, RootReady, Mounted
  <2>4. RootMove(rootStk, rootStk')
    BY <2>2, <2>3, <1>3, AddKidMoves DEF RootMove
  <2> QED  BY <2>1, <2>4, <1>2
<1>13. CASE Umount
  <2>1. RootMove(rootStk, rootStk')
    BY <1>13, <1>3, UmountMoves DEF Umount
  <2> QED  BY <1>13, <2>1, <1>2 DEF Umount, lvm
<1> QED  BY <1>5, <1>6, <1>7, <1>8, <1>9, <1>10, <1>11, <1>12, <1>13 DEF RecoveryNext

LEMMA NextLease ==
    ASSUME LInv, IInv', [Next]_vars
    PROVE  [Lease!Next]_(Lease!lease)
<1>1. CASE UNCHANGED <<vg, active, assertStk, rootStk>>
  BY <1>1, SameHands, HandsLease DEF LInv, lvm
<1>2. CASE DiscoveryNext \/ RecoveryNext
  BY <1>2, DiscoveryLease, RecoveryLease DEF LInv
<1> QED  BY <1>1, <1>2 DEF Next, Start, Step, Crash, Rest, vars, lvm, mnt

LEMMA InitLease == Init => Lease!Init
<1> SUFFICES ASSUME Init PROVE Lease!Init
  OBVIOUS
<1>1. RootsInUse = {}
  BY DEF Init, RootsInUse, Layers
<1>2. RootvgOwner \in Entities \cup {Nobody}
  BY InitInv, OwnerIs DEF IInv
<1> QED  BY <1>1, <1>2 DEF Lease!Init

\* The name "rootvg" is a lease: it never passes from one disk to another in one step, and
\* a root volume is mounted only while its disk holds the name, for any number of disks,
\* runs, failures and kills.
THEOREM LeaseKept == Spec => LeaseRespected
<1>1. Init => LInv
  BY InitInv DEF Init, LInv, OsFound
<1>2. LInv /\ [Next]_vars => LInv'
  BY NextInv, OsFoundStep DEF LInv
<1>3. LInv /\ LInv' /\ [Next]_vars => [Lease!Next]_(Lease!lease)
  BY NextLease DEF LInv
<1> QED  BY <1>1, <1>2, <1>3, InitLease, PTL DEF Spec, LeaseRespected, Lease!Spec

------------------------------------------------------------------------------
(* The deletion of a disk. *)

\* At "delete" the one volume group that answers to the name has no mount.
DetachReady ==
    /\ pc \in {"disable", "delete"} => ~Encrypted(job.disk)
    /\ pc = "delete" => \E e \in Entities : Listed("rootvg") = {e} /\ ~VgMounted(e)

LEMMA DetachStep ==
    ASSUME IInv, DetachReady, [Next]_vars
    PROVE  DetachReady'
<1> USE DEF DetachReady, Goto, Quit
<1>1. vm' = vm
  BY DEF Next, Start, Step, Crash, Rest, vars
<1>2. CASE LoadScripts \/ CheckActions \/ Umount
  <2>1. pc' \notin {"disable", "delete"} \/ (pc' = CleanupEntry /\ job' = job)
    BY <1>2 DEF LoadScripts, CheckActions, Umount, CleanupThenFail
  <2>2. pc' \in {"disable", "delete"} => ~Encrypted(job.disk)
    BY <2>1 DEF CleanupEntry
  <2>3. pc' # "delete"
    BY <2>1 DEF CleanupEntry, LoadScripts, CheckActions, Umount
  <2> QED  BY <1>1, <2>1, <2>2, <2>3 DEF Encrypted, PartsOf
<1>3. CASE Disable
  <2>1. ~Encrypted(job.disk) /\ job' = job /\ UNCHANGED <<vg, attached, luks, assertStk, rootStk>>
    BY <1>3 DEF Disable, disk, mnt
  <2>2. pc' = "delete" => \E e \in Entities : Listed("rootvg") = {e} /\ ~VgMounted(e)
    BY <1>3 DEF Disable, VgDeactivate, Outcome
  <2>3. \A e \in Entities : VgMounted(e)' = VgMounted(e) /\ Visible(e)' = Visible(e)
    BY <1>1, <2>1 DEF VgMounted, Visible, Encrypted, PartsOf
  <2>4. Listed("rootvg")' = Listed("rootvg")
    BY <2>1, <2>3 DEF Listed
  <2> QED  BY <1>1, <1>3, <2>1, <2>2, <2>3, <2>4 DEF Disable, Encrypted, PartsOf
<1>4. CASE pc' = pc /\ UNCHANGED vars
  <2>1. UNCHANGED <<pc, job, vg, attached, luks, assertStk, rootStk>>
    BY <1>4 DEF vars, lvm, disk, mnt
  <2>2. \A e \in Entities : VgMounted(e)' = VgMounted(e) /\ Visible(e)' = Visible(e)
    BY <1>1, <2>1 DEF VgMounted, Visible, Encrypted, PartsOf
  <2>3. Listed("rootvg")' = Listed("rootvg") /\ Encrypted(job.disk)' = Encrypted(job.disk)
    BY <1>1, <2>1, <2>2 DEF Listed, Encrypted, PartsOf
  <2> QED  BY <2>1, <2>2, <2>3
<1>5. CASE DiscoveryNext
  <2>1. pc' \notin {"disable", "delete"}
    <3>1. CASE Probe
      BY <3>1 DEF Probe
    <3>2. CASE Unlock
      BY <3>2 DEF Unlock
    <3>3. CASE FsckPart \/ AssertPart
      BY <3>3 DEF FsckPart, Fsck, AssertPart, MountAssert
    <3>4. CASE FsckLv
      <4>1. Goto("assertLv") \/ Quit("err")
        BY <3>4 DEF FsckLv, Fsck
      <4> QED  BY <4>1
    <3>5. CASE AssertLv
      BY <3>5 DEF AssertLv, MountAssert
    <3>6. CASE Peek
      BY <3>6 DEF Peek, NextPart
    <3>7. CASE AdeImport \/ AdeScan \/ Import \/ Clone \/ Wake \/ Scan \/ Lend \/ Borrow
               \/ Activate \/ Remount \/ List \/ NoOsFound \/ SkipEfi \/ LvmGate
               \/ AssertUsr \/ ReadLv \/ UnassertLv
      BY <3>7 DEF AdeImport, AdeScan, Import, Clone, Wake, Scan, Lend, Borrow, Activate,
           Remount, List, NoOsFound, SkipEfi, LvmGate, NextPart, AssertUsr, ReadLv,
           UnassertLv
    <3> QED  BY <1>5, <3>1, <3>2, <3>3, <3>4, <3>5, <3>6, <3>7 DEF DiscoveryNext
  <2> QED  BY <2>1
<1>6. CASE RecoveryNext /\ ~(LoadScripts \/ CheckActions \/ Umount \/ Disable)
  <2>1. pc' \notin {"disable", "delete"}
    <3>1. CASE MountRoot
      BY <3>1 DEF MountRoot, MountOsPartition, MountOsVolume, StrictMount, UmountThenFail
    <3>2. CASE MountLvs \/ MountBoot \/ MountEfi \/ Bind
      BY <3>2 DEF MountLvs, MountBoot, MountEfi, Bind, MountKid, StrictMount, UmountThenFail
    <3>3. CASE RunChrootCli \/ RunRepairScript \/ Report
      BY <3>3 DEF RunChrootCli, RunRepairScript, Report, UmountThenFail
    <3>4. CASE Delete \/ RenameOldvg \/ Rescan \/ RescanMounts
            \/ AdeDeactivate \/ AdeClose \/ AdeRenameBack \/ CloseCrypt \/ Finish
      BY <3>4 DEF Delete, RenameOldvg, Rescan, RescanMounts,
           AdeDeactivate, AdeClose, AdeRenameBack, CloseCrypt, Finish
    <3> QED  BY <1>6, <3>1, <3>2, <3>3, <3>4 DEF RecoveryNext
  <2> QED  BY <2>1
<1>7. CASE Start \/ Crash
  BY <1>7 DEF Start, Crash
<1> QED  BY <1>2, <1>3, <1>4, <1>5, <1>6, <1>7 DEF Next, Step, Rest, vars

\* Only Delete takes a disk away.
LEMMA DetachedBy ==
    ASSUME IInv, DetachReady, [Next]_vars, NEW d \in attached \ attached'
    PROVE  /\ d = job.disk /\ d \in Disks /\ ~Encrypted(d)
           /\ \E e \in Entities : Listed("rootvg") = {e} /\ ~VgMounted(e)
<1>1. Delete
  <2>1. ~(UNCHANGED attached)
    OBVIOUS
  <2>2. CASE Step
    <3>1. ~Rescan
      BY DEF Rescan
    <3>2. CASE DiscoveryNext
      BY <3>2, <2>1 DEF DiscoveryNext, Probe, Unlock, AdeImport, AdeScan, Import, Clone, Wake,
           Scan, Lend, Borrow, Activate, Remount, List, NoOsFound, SkipEfi, LvmGate, FsckPart,
           AssertPart, Peek, FsckLv, AssertLv, AssertUsr, ReadLv, UnassertLv, Fsck,
           MountAssert, disk
    <3>3. CASE RecoveryNext
      BY <3>1, <3>3, <2>1 DEF RecoveryNext, LoadScripts, CheckActions, MountRoot,
           MountOsPartition, MountOsVolume, MountLvs, MountBoot, MountEfi, Bind, StrictMount,
           MountKid, OnRoot, RunChrootCli, RunRepairScript, Report, Umount, Disable,
           RenameOldvg, RescanMounts, AdeDeactivate, AdeClose, AdeRenameBack, CloseCrypt,
           Finish, disk
    <3> QED  BY <2>2, <3>2, <3>3 DEF Step
  <2> QED  BY <2>1, <2>2 DEF Next, Start, Crash, Rest, vars, disk
<1>2. pc = "delete" /\ d = job.disk
  BY <1>1 DEF Delete
<1> QED  BY <1>2 DEF DetachReady, IInv, MemoryOK

\* Whatever failed before: the disk whose volume group has the name "rootvg" is detached
\* only when its root volume is not mounted any more, however many disks there are.
THEOREM HolderDetachedUnmounted ==
    Spec => [][\A d \in attached \ attached' : vg[d] = "rootvg" => ~VgMounted(d)]_vars
<1>1. Init => IInv /\ DetachReady
  BY InitInv DEF Init, DetachReady
<1>2. IInv /\ DetachReady /\ [Next]_vars => IInv' /\ DetachReady'
  BY NextInv, DetachStep
<1>3. IInv /\ DetachReady /\ [Next]_vars =>
          [\A d \in attached \ attached' : vg[d] = "rootvg" => ~VgMounted(d)]_vars
  <2> SUFFICES ASSUME IInv, DetachReady, [Next]_vars, NEW d \in attached \ attached',
                      vg[d] = "rootvg"
               PROVE  ~VgMounted(d)
    OBVIOUS
  <2>1. d \in Listed("rootvg")
    BY DetachedBy, EntityAssumption DEF Listed, Visible, Entities
  <2> QED  BY <2>1, DetachedBy
<1> QED  BY <1>1, <1>2, <1>3, PTL DEF Spec

\* With one disk attached for repair it is the one whose group was deactivated: its
\* device is deleted only when its root volume is not mounted any more.
THEOREM DetachedUnmounted ==
    ASSUME \A d, e \in Disks : d = e
    PROVE  Spec => DetachOnlyUnmounted
<1>1. Init => IInv /\ DetachReady
  BY InitInv DEF Init, DetachReady
<1>2. IInv /\ DetachReady /\ [Next]_vars => IInv' /\ DetachReady'
  BY NextInv, DetachStep
<1>3. IInv /\ DetachReady /\ [Next]_vars =>
          [\A d \in attached \ attached' : ~VgMounted(d)]_vars
  <2> SUFFICES ASSUME IInv, DetachReady, [Next]_vars, NEW d \in attached \ attached'
               PROVE  ~VgMounted(d)
    OBVIOUS
  <2>1. PICK e \in Entities : Listed("rootvg") = {e} /\ ~VgMounted(e)
    BY DetachedBy
  <2>2. e \in Disks
    BY <2>1 DEF VgMounted, Entities
  <2> QED  BY <2>1, <2>2, DetachedBy
<1> QED  BY <1>1, <1>2, <1>3, PTL DEF Spec, DetachOnlyUnmounted

------------------------------------------------------------------------------
(* The loop over the partitions and what is mounted on /tmp/assert.          *)

Before == {"probe", "unlock", "adeImport", "adeScan", "import", "clone", "wake", "scan",
           "lend", "borrow", "activate", "remount", "list"}
InLoop == {"detect", "assertPart", "peek"}

\* Only a disk with a physical volume has a volume group.
GroupsOK == \A d \in Disks : vg[d] # "none" => HasKind(d, "lvm")

\* The loop goes past the first n - 1 partitions; it looks into p.
Passed(d, n) == \A j \in DOMAIN PartsOf(d) : j < n => PartsOf(d)[j].kind \in {"efi", "boot"}
Tested(d, p) == p \in DOMAIN PartsOf(d) /\ PartsOf(d)[p].kind \in {"boot", "os"} /\ Passed(d, p)

\* What is on /tmp/assert was mounted there by a loop, or is a root volume.
Sound(src) == src[1] \in Disks => IF src[2] = 0 THEN HasKind(src[1], "lvm")
                                  ELSE Tested(src[1], src[2])
SoundStk(stk) == \A l \in Layers(stk) : Sound(l.src)

\* Of the selected disk the loop is still to meet what is on top.
Ahead(stk, n) ==
    stk # <<>> /\ Head(stk).src[1] = job.disk => Head(stk).src[2] = 0 \/ Head(stk).src[2] >= n

LoopOK ==
    /\ pc \in Before => job.idx = 1
    /\ pc \in InLoop => Passed(job.disk, job.idx)
    /\ pc \in {"assertPart", "peek"} => Tested(job.disk, job.idx)
    /\ pc \in {"detect", "assertPart"} => Ahead(assertStk, job.idx)
    /\ pc = "peek" => assertStk # <<>> /\ Ahead(Tail(assertStk), job.idx + 1)

LoopInv == GroupsOK /\ SoundStk(assertStk) /\ LoopOK

LEMMA Parts ==
    ASSUME IInv, NEW d \in Disks
    PROVE  PartsOf(d) \in Seq(Part)
BY ScenarioAssumption DEF IInv, BoundsOK, PartsOf, Scenario

LEMMA SameLayout ==
    ASSUME vm' = vm
    PROVE  /\ \A d, k : HasKind(d, k)' = HasKind(d, k)
           /\ \A d, n : Passed(d, n)' = Passed(d, n) /\ Tested(d, n)' = Tested(d, n)
           /\ \A s : Sound(s)' = Sound(s)
BY DEF HasKind, Passed, Tested, Sound, PartsOf

\* A rename needs a group that is there, and so does the import.
LEMMA GroupsStep ==
    ASSUME IInv, GroupsOK, [Next]_vars, vm' = vm
    PROVE  GroupsOK'
<1>1. SUFFICES ASSUME NEW d \in Disks PROVE vg'[d] # "none" => vg[d] # "none"
  BY SameLayout DEF GroupsOK
<1>2. ASSUME NEW s \in VgNames, NEW t \in VgNames, NEW ok \in BOOLEAN, VgRename(s, t, ok)
      PROVE  vg'[d] # "none" => vg[d] # "none"
  BY <1>2 DEF VgRename, Listed, Visible, Entities
<1>3. ASSUME NEW c \in Disks, NEW ok \in BOOLEAN, VgImportClone(c, ok)
      PROVE  vg'[d] # "none" => vg[d] # "none"
  BY <1>3 DEF VgImportClone, Outcome, Visible, IInv, WorldOK
<1>4. CASE Clone
  BY <1>4, <1>3 DEF Clone, IInv, MemoryOK
<1>5. CASE Lend \/ Borrow \/ RenameOldvg \/ AdeRenameBack
  BY <1>5, <1>2 DEF Lend, Borrow, RenameOldvg, AdeRenameBack, VgNames
<1>6. CASE UNCHANGED vg
  BY <1>6
<1>7. CASE DiscoveryNext
  BY <1>4, <1>5, <1>6, <1>7 DEF DiscoveryNext, Probe, Unlock, AdeImport, AdeScan, Import, Wake,
     Scan, Activate, Remount, List, NoOsFound, SkipEfi, LvmGate, FsckPart, AssertPart, Peek,
     FsckLv, AssertLv, AssertUsr, ReadLv, UnassertLv, Fsck, MountAssert, lvm
<1>8. CASE RecoveryNext
  BY <1>5, <1>6, <1>8 DEF RecoveryNext, LoadScripts, CheckActions, MountRoot,
     MountOsPartition, MountOsVolume, MountLvs, MountBoot, MountEfi, Bind, StrictMount,
     MountKid, OnRoot, RunChrootCli, RunRepairScript, Report, Umount, Disable, Delete,
     Rescan, RescanMounts, AdeDeactivate, AdeClose, CloseCrypt, Finish, lvm
<1> QED  BY <1>6, <1>7, <1>8 DEF Next, Start, Step, Crash, Rest, vars, lvm

LEMMA SoundCons ==
    ASSUME NEW stk \in Seq(Layer), NEW l \in Layer, SoundStk(stk), Sound(l.src)
    PROVE  SoundStk(<<l>> \o stk)
BY LayersOfCons DEF SoundStk

LEMMA SoundTail ==
    ASSUME NEW stk \in Seq(Layer), stk # <<>>, SoundStk(stk)
    PROVE  SoundStk(Tail(stk)) /\ Sound(Head(stk).src)
<1>1. stk = <<Head(stk)>> \o Tail(stk) /\ Head(stk) \in Layer /\ Tail(stk) \in Seq(Layer)
  BY HeadTailProperties
<1>2. Layers(stk) = {Head(stk)} \cup Layers(Tail(stk))
  BY <1>1, LayersOfCons
<1> QED  BY <1>2 DEF SoundStk

LEMMA SoundPop ==
    ASSUME NEW stk \in Seq(Layer), SoundStk(stk)
    PROVE  SoundStk(Pop(stk))
BY SoundTail DEF Pop

LEMMA SoundKid ==
    ASSUME NEW stk \in Seq(Layer), stk # <<>>, NEW K \in SUBSET Kids, SoundStk(stk)
    PROVE  SoundStk(<<[Head(stk) EXCEPT !.kids = K]>> \o Tail(stk))
<1> DEFINE l == [Head(stk) EXCEPT !.kids = K]
<1>1. Head(stk) \in Layer /\ Tail(stk) \in Seq(Layer)
  BY HeadLayer
<1>2. l \in Layer /\ l.src = Head(stk).src
  BY <1>1 DEF Layer
<1> HIDE DEF l
<1>3. SoundStk(<<l>> \o Tail(stk))
  BY <1>1, <1>2, SoundCons, SoundTail
<1> QED  BY <1>3 DEF l

LEMMA SoundAddKid ==
    ASSUME NEW stk \in Seq(Layer), stk # <<>>, NEW k \in Kids, SoundStk(stk)
    PROVE  SoundStk(AddKid(k, stk))
<1>1. Head(stk).kids \cup {k} \in SUBSET Kids
  BY HeadLayer DEF Layer
<1>2. AddKid(k, stk) = <<[Head(stk) EXCEPT !.kids = Head(stk).kids \cup {k}]>> \o Tail(stk)
  BY DEF AddKid
<1> QED  BY <1>1, <1>2, SoundKid

LEMMA SoundUmount ==
    ASSUME NEW stk \in Seq(Layer), NEW new, NEW ok \in BOOLEAN, UmountR(stk, new, ok),
           SoundStk(stk)
    PROVE  SoundStk(new)
<1>1. CASE ok
  BY <1>1, SoundTail DEF UmountR, Outcome
<1>2. CASE ~ok /\ stk = <<>>
  BY <1>2 DEF UmountR
<1>3. CASE ~ok /\ stk # <<>>
  <2>1. PICK left \in SUBSET Head(stk).kids :
            new = <<[Head(stk) EXCEPT !.kids = left]>> \o Tail(stk)
    BY <1>3 DEF UmountR
  <2>2. left \in SUBSET Kids
    BY <1>3, <2>1, HeadLayer DEF Layer
  <2> QED  BY <1>3, <2>1, <2>2, SoundKid
<1> QED  BY <1>1, <1>2, <1>3

LEMMA SoundPush ==
    ASSUME NEW stk \in Seq(Layer), NEW dev \in Entities \X Nat, SoundStk(stk), Sound(dev)
    PROVE  SoundStk(Push(dev, stk))
<1> DEFINE l == [src |-> dev, kids |-> {}]
<1>1. l \in Layer /\ l.src = dev
  BY DEF Layer
<1> HIDE DEF l
<1>2. SoundStk(<<l>> \o stk)
  BY <1>1, SoundCons
<1> QED  BY <1>2 DEF Push, l

LEMMA SoundStep ==
    ASSUME IInv, LoopInv, [Next]_vars, vm' = vm
    PROVE  SoundStk(assertStk')
<1>1. assertStk \in Seq(Layer) /\ SoundStk(assertStk) /\ job \in Job
  BY DEF IInv, StacksOK, LoopInv, MemoryOK
<1>2. CASE UNCHANGED assertStk
  BY <1>1, <1>2
<1>3. CASE FsckPart \/ FsckLv
  BY <1>1, <1>3, SoundPop DEF FsckPart, FsckLv, Fsck, mnt
<1>4. CASE AssertPart
  <2>1. PartDev \in Entities \X Nat /\ Sound(PartDev)
    BY <1>1, <1>4 DEF AssertPart, PartDev, IInv, MemoryOK, Job, Entities, Sound, LoopInv, LoopOK
  <2> QED  BY <1>1, <1>4, <2>1, SoundPush DEF AssertPart, MountAssert
<1>5. CASE AssertLv
  <2>1. ASSUME DevDir("rootvg")
        PROVE  RootLv \in Entities \X Nat /\ Sound(RootLv)
    <3>1. RootLv \in Entities \X Nat /\ vg[RootLv[1]] = "rootvg" /\ RootLv[2] = 0
      BY <2>1, RootLvType DEF IInv, RootLv
    <3> QED  BY <3>1 DEF Sound, LoopInv, GroupsOK
  <2> QED  BY <1>1, <1>5, <2>1, SoundPush DEF AssertLv, MountAssert, mnt
<1>6. CASE AssertUsr
  BY <1>1, <1>6, SoundAddKid, SoundPop DEF AssertUsr, IInv, AssertReady, Kids
<1>7. CASE Peek
  BY <1>1, <1>7, SoundTail DEF Peek, Outcome
<1>8. CASE UnassertLv
  BY <1>1, <1>8, SoundUmount DEF UnassertLv
<1>9. CASE DiscoveryNext
  BY <1>2, <1>3, <1>4, <1>5, <1>6, <1>7, <1>8, <1>9
     DEF DiscoveryNext, Probe, Unlock, AdeImport, AdeScan, Import, Clone, Wake, Scan, Lend,
         Borrow, Activate, Remount, List, NoOsFound, SkipEfi, LvmGate, ReadLv, mnt
<1>10. CASE RecoveryNext
  BY <1>2, <1>10 DEF RecoveryNext, LoadScripts, CheckActions, MountRoot, MountOsPartition,
     MountOsVolume, MountLvs, MountBoot, MountEfi, Bind, StrictMount, MountKid, OnRoot,
     RunChrootCli, RunRepairScript, Report, Umount, Disable, Delete, RenameOldvg, Rescan,
     RescanMounts, AdeDeactivate, AdeClose, AdeRenameBack, CloseCrypt, Finish, mnt
<1> QED  BY <1>2, <1>9, <1>10 DEF Next, Start, Step, Crash, Rest, vars, mnt

\* Out of the loop, or on the way to it, there is little to show.
LEMMA LoopElsewhere ==
    ASSUME IInv, LoopOK,
           \/ pc' \notin Before \cup InLoop
           \/ pc' \in Before /\ job'.idx = 1
           \/ /\ pc' = "detect" /\ job'.idx = 1 /\ job'.disk = job.disk /\ job.disk \in Disks
              /\ UNCHANGED <<vm, assertStk>>
    PROVE  LoopOK'
<1>1. CASE pc' \notin Before \cup InLoop
  BY <1>1 DEF LoopOK, Before, InLoop
<1>2. CASE pc' \in Before /\ job'.idx = 1
  BY <1>2 DEF LoopOK, Before, InLoop
<1>3. CASE /\ pc' = "detect" /\ job'.idx = 1 /\ job'.disk = job.disk /\ job.disk \in Disks
           /\ UNCHANGED <<vm, assertStk>>
  <2>1. DOMAIN PartsOf(job.disk) \subseteq Nat \ {0}
    BY <1>3, Parts
  <2>2. Passed(job.disk, 1)
    BY <2>1 DEF Passed
  <2>3. Passed(job.disk, job.idx)'
    BY <1>3, <2>2 DEF Passed, PartsOf
  <2>4. assertStk # <<>> => Head(assertStk).src[2] \in Nat
    BY HeadLayer DEF IInv, StacksOK
  <2>5. Ahead(assertStk, job.idx)'
    BY <1>3, <2>4 DEF Ahead
  <2> QED  BY <1>3, <2>3, <2>5 DEF LoopOK, Before, InLoop
<1> QED  BY <1>1, <1>2, <1>3

\* The next partition.
LEMMA LoopNext ==
    ASSUME IInv, LoopOK, pc \in InLoop, NextPart, vm' = vm,
           Remaining, This.kind \in {"efi", "boot"},
           Ahead(assertStk', job.idx + 1)
    PROVE  LoopOK'
<1>1. job.disk \in Disks /\ job \in Job /\ job.idx \in Nat
  BY DEF IInv, MemoryOK, Job, InLoop
<1>2. job'.idx = job.idx + 1 /\ job'.disk = job.disk /\ pc' = "detect"
  BY <1>1 DEF NextPart, Job
<1>3. DOMAIN PartsOf(job.disk) \subseteq Nat
  BY <1>1, Parts
<1>4. Passed(job.disk, job.idx + 1)
  <2> SUFFICES ASSUME NEW j \in DOMAIN PartsOf(job.disk), j < job.idx + 1
               PROVE  PartsOf(job.disk)[j].kind \in {"efi", "boot"}
    BY DEF Passed
  <2>1. j < job.idx \/ j = job.idx
    BY <1>1, <1>3
  <2> QED  BY <2>1 DEF LoopOK, Passed, This
<1>5. Passed(job.disk, job.idx)'
  BY <1>2, <1>4, SameLayout DEF Passed, PartsOf
<1>6. Ahead(assertStk, job.idx)'
  BY <1>2 DEF Ahead
<1> QED  BY <1>2, <1>5, <1>6 DEF LoopOK, Before, InLoop

LEMMA DiscoveryLoop ==
    ASSUME IInv, LoopInv, DiscoveryNext, vm' = vm
    PROVE  LoopOK'
<1>1. /\ job \in Job /\ job.idx \in Nat \ {0} /\ (pc # "idle" => job.disk \in Disks)
      /\ assertStk \in Seq(Layer) /\ LoopOK /\ SoundStk(assertStk)
  BY DEF IInv, MemoryOK, Job, StacksOK, LoopInv
<1>2. ASSUME pc \in Before, pc' \in Before \cup {"detect", "idle"}, job' = job \/ pc' = "idle",
             UNCHANGED assertStk
      PROVE  LoopOK'
  BY <1>1, <1>2, LoopElsewhere DEF LoopOK, Before, InLoop
<1>3. ASSUME pc' \notin Before \cup InLoop
      PROVE  LoopOK'
  BY <1>1, <1>3, LoopElsewhere
<1> USE DEF Goto, Quit
<1>4. CASE Probe
  BY <1>4, <1>2, <1>3 DEF Probe, Before, InLoop, mnt
<1>5. CASE Unlock
  BY <1>5, <1>2, <1>3 DEF Unlock, Before, InLoop, mnt
<1>6. CASE AdeImport \/ AdeScan \/ Clone \/ Wake \/ Scan \/ Lend
  BY <1>6, <1>2, <1>3 DEF AdeImport, AdeScan, Clone, Wake, Scan, Lend, Before, InLoop, mnt
<1>7. CASE Borrow \/ Activate \/ Remount
  BY <1>7, <1>2, <1>3 DEF Borrow, Activate, Remount, Before, InLoop, mnt
<1>8. CASE Import \/ List
  <2>1. /\ pc' \in Before \cup {"detect", "idle"} /\ assertStk' = assertStk
        /\ pc' = "idle" \/ (job'.idx = job.idx /\ job'.disk = job.disk)
    BY <1>1, <1>8 DEF Import, List, Before, Job, mnt
  <2>2. job.idx = 1 /\ job.disk \in Disks
    BY <1>1, <1>8 DEF Import, List, LoopOK, Before
  <2> QED  BY <1>1, <2>1, <2>2, LoopElsewhere DEF Before, InLoop
<1>9. CASE NoOsFound \/ LvmGate \/ AssertUsr \/ ReadLv \/ UnassertLv
  BY <1>9, <1>3 DEF NoOsFound, LvmGate, AssertUsr, ReadLv, UnassertLv, Before, InLoop
<1>10. CASE FsckLv
  <2>1. pc' \in {"assertLv", "idle"}
    BY <1>10 DEF FsckLv, Fsck
  <2> QED  BY <2>1, <1>3 DEF Before, InLoop
<1>11. CASE AssertLv
  BY <1>11, <1>3 DEF AssertLv, MountAssert, Before, InLoop
<1>12. CASE SkipEfi
  <2>1. This.kind = "efi" /\ Remaining /\ assertStk' = assertStk /\ pc = "detect" /\ NextPart
    BY <1>12 DEF SkipEfi, mnt
  <2>2. Ahead(assertStk, job.idx + 1)
    <3> SUFFICES ASSUME assertStk # <<>>, Head(assertStk).src[1] = job.disk,
                        Head(assertStk).src[2] # 0
                 PROVE  Head(assertStk).src[2] >= job.idx + 1
      BY DEF Ahead
    <3> DEFINE p == Head(assertStk).src[2]
    <3>1. p \in Nat /\ p >= job.idx
      BY <1>1, <2>1, HeadLayer DEF LoopOK, Ahead
    <3>2. Tested(job.disk, p)
      BY <1>1, <2>1, SoundTail DEF Sound
    <3>3. p # job.idx
      BY <2>1, <3>2 DEF Tested, This
    <3> HIDE DEF p
    <3>4. p >= job.idx + 1
      BY <1>1, <3>1, <3>3
    <3> QED  BY <3>4 DEF p
  <2> QED  BY <1>1, <2>1, <2>2, LoopNext DEF InLoop
<1>13. CASE FsckPart
  <2>1. /\ pc = "detect" /\ Remaining /\ This.kind \in {"boot", "os"}
        /\ (pc' = "idle" \/ (pc' = "assertPart" /\ job' = job /\ assertStk' = assertStk))
    BY <1>13 DEF FsckPart, Fsck
  <2>2. CASE pc' = "assertPart" /\ job' = job /\ assertStk' = assertStk
    <3>1. Passed(job.disk, job.idx) /\ Ahead(assertStk, job.idx) /\ job.disk \in Disks
      BY <1>1, <2>1 DEF LoopOK, InLoop
    <3>2. job.idx \in DOMAIN PartsOf(job.disk)
      BY <1>1, <2>1, <3>1, Parts DEF Remaining
    <3>3. Tested(job.disk, job.idx)
      BY <2>1, <3>1, <3>2 DEF Tested, This
    <3>4. (Passed(job.disk, job.idx) /\ Tested(job.disk, job.idx))'
      BY <2>2, <3>1, <3>3 DEF Passed, Tested, PartsOf
    <3>5. Ahead(assertStk, job.idx)'
      BY <2>2, <3>1 DEF Ahead
    <3> QED  BY <2>2, <3>4, <3>5 DEF LoopOK, Before, InLoop
  <2> QED  BY <2>1, <2>2, <1>3 DEF Before, InLoop
<1>14. CASE AssertPart
  <2>1. \/ pc' = "idle"
        \/ /\ pc' = "peek" /\ job' = job /\ assertStk' = Push(PartDev, assertStk)
           /\ CanMount(PartDev, assertStk)
    BY <1>14 DEF AssertPart, MountAssert, Outcome
  <2>2. CASE /\ pc' = "peek" /\ job' = job /\ assertStk' = Push(PartDev, assertStk)
             /\ CanMount(PartDev, assertStk)
    <3>1. pc = "assertPart" /\ Passed(job.disk, job.idx) /\ Ahead(assertStk, job.idx)
          /\ Tested(job.disk, job.idx)
      BY <1>1, <1>14 DEF AssertPart, LoopOK, InLoop
    <3>2. (Passed(job.disk, job.idx) /\ Tested(job.disk, job.idx))'
      BY <2>2, <3>1 DEF Passed, Tested, PartsOf
    <3>3. assertStk' # <<>> /\ Tail(assertStk') = assertStk
      <4> DEFINE l == [src |-> PartDev, kids |-> {}]
      <4>1. l \in Layer
        BY <1>1, <3>1 DEF Layer, PartDev, Entities
      <4> HIDE DEF l
      <4>2. <<l>> \o assertStk # <<>> /\ Tail(<<l>> \o assertStk) = assertStk
        BY <1>1, <4>1
      <4> QED  BY <4>2, <2>2 DEF Push, l
    <3>4. Ahead(assertStk, job.idx + 1)
      <4> SUFFICES ASSUME assertStk # <<>>, Head(assertStk).src[1] = job.disk,
                          Head(assertStk).src[2] # 0
                   PROVE  Head(assertStk).src[2] >= job.idx + 1
        BY DEF Ahead
      <4> DEFINE h == Head(assertStk).src
      <4>1. h \in Entities \X Nat /\ h # <<job.disk, job.idx>>
        BY <1>1, <2>2, HeadLayer DEF CanMount, PartDev
      <4>2. h[2] \in Nat /\ h[2] >= job.idx
        BY <3>1, <4>1 DEF Ahead
      <4>3. h[2] # job.idx
        BY <4>1
      <4> HIDE DEF h
      <4>4. h[2] >= job.idx + 1
        BY <1>1, <4>2, <4>3
      <4> QED  BY <4>4 DEF h
    <3>5. Ahead(Tail(assertStk), job.idx + 1)'
      BY <2>2, <3>3, <3>4 DEF Ahead
    <3> QED  BY <2>2, <3>2, <3>3, <3>5 DEF LoopOK, Before, InLoop
  <2> QED  BY <2>1, <2>2, <1>3 DEF Before, InLoop
<1>15. CASE Peek
  <2>1. \/ pc' \in {"idle", "scripts"}
        \/ NextPart /\ This.kind # "os" /\ assertStk' = Tail(assertStk)
    BY <1>15 DEF Peek
  <2>2. CASE NextPart /\ This.kind # "os" /\ assertStk' = Tail(assertStk)
    <3>1. Tested(job.disk, job.idx) /\ Ahead(Tail(assertStk), job.idx + 1) /\ pc = "peek"
      BY <1>1, <1>15 DEF Peek, LoopOK
    <3>2. Remaining /\ This.kind \in {"efi", "boot"}
      BY <1>1, <2>2, <3>1, Parts DEF Tested, Remaining, This
    <3> QED  BY <1>1, <2>2, <3>1, <3>2, LoopNext DEF InLoop
  <2> QED  BY <2>1, <2>2, <1>3 DEF Before, InLoop
<1> QED  BY <1>4, <1>5, <1>6, <1>7, <1>8, <1>9, <1>10, <1>11, <1>12, <1>13, <1>14, <1>15
         DEF DiscoveryNext

LEMMA LoopStep ==
    ASSUME IInv, LoopInv, [Next]_vars
    PROVE  LoopInv'
<1>1. vm' = vm
  BY DEF Next, Start, Step, Crash, Rest, vars
<1>2. GroupsOK'
  BY <1>1, GroupsStep DEF LoopInv
<1>3. SoundStk(assertStk)'
  <2>1. SoundStk(assertStk')
    BY <1>1, SoundStep
  <2> QED  BY <1>1, <2>1, SameLayout DEF SoundStk
<1>4. LoopOK'
  <2>1. CASE DiscoveryNext
    BY <1>1, <2>1, DiscoveryLoop
  <2>2. CASE RecoveryNext
    <3>1. pc' \notin Before \cup InLoop
      BY <2>2 DEF RecoveryNext, LoadScripts, CheckActions, CleanupThenFail, CleanupEntry,
         UmountThenFail, MountRoot, MountOsPartition, MountOsVolume, MountLvs, MountBoot,
         MountEfi, Bind, StrictMount, MountKid, OnRoot, RunChrootCli, RunRepairScript, Report,
         Umount, Disable, Delete, RenameOldvg, Rescan, RescanMounts, AdeDeactivate, AdeClose,
         AdeRenameBack, CloseCrypt, Finish, Goto, Quit, Before, InLoop
    <3> QED  BY <3>1, LoopElsewhere DEF LoopInv
  <2>3. CASE Start
    BY <2>3, LoopElsewhere DEF Start, NewJob, LoopInv, Before
  <2>4. CASE Crash
    BY <2>4, LoopElsewhere DEF Crash, Quit, LoopInv, Before, InLoop
  <2>5. CASE UNCHANGED vars
    BY <2>5 DEF vars, mnt, LoopInv, LoopOK, Passed, Tested, PartsOf, Ahead
  <2> QED  BY <2>1, <2>2, <2>3, <2>4, <2>5 DEF Next, Step, Rest
<1> QED  BY <1>2, <1>3, <1>4 DEF LoopInv

\* What is emptied when no system is found, and when one is.
LEMMA WipedBy ==
    ASSUME IInv, LoopInv, [Next]_vars, NEW s \in wiped' \ wiped
    PROVE  \/ NoOsFound /\ assertStk # <<>> /\ s = Head(assertStk).src
           \/ /\ Peek /\ This.kind = "os" /\ assertStk # <<>> /\ Tail(assertStk) # <<>>
              /\ s = Head(Tail(assertStk)).src
<1>1. ~(UNCHANGED wiped)
  OBVIOUS
<1>2. CASE NoOsFound
  BY <1>2 DEF NoOsFound, RmdirAssert
<1>3. CASE Peek
  BY <1>3 DEF Peek, RmdirAssert, LoopInv, LoopOK
<1>4. CASE DiscoveryNext
  BY <1>1, <1>2, <1>3, <1>4
     DEF DiscoveryNext, Probe, Unlock, AdeImport, AdeScan, Import, Clone, Wake, Scan, Lend,
         Borrow, Activate, Remount, List, SkipEfi, LvmGate, FsckPart, AssertPart, FsckLv,
         AssertLv, AssertUsr, ReadLv, UnassertLv, Fsck, MountAssert, mnt
<1>5. CASE RecoveryNext
  BY <1>1, <1>5 DEF RecoveryNext, LoadScripts, CheckActions, MountRoot, MountOsPartition,
     MountOsVolume, MountLvs, MountBoot, MountEfi, Bind, StrictMount, MountKid, OnRoot,
     RunChrootCli, RunRepairScript, Report, Umount, Disable, Delete, RenameOldvg, Rescan,
     RescanMounts, AdeDeactivate, AdeClose, AdeRenameBack, CloseCrypt, Finish, mnt
<1> QED  BY <1>1, <1>4, <1>5 DEF Next, Start, Step, Crash, Rest, vars, mnt

LEMMA NotSelected ==
    ASSUME IInv, LoopInv, [Next]_vars, NEW s \in wiped' \ wiped
    PROVE  s[1] # job.disk
<1> SUFFICES ASSUME s[1] = job.disk PROVE FALSE
  OBVIOUS
<1>1. /\ pc \in InLoop /\ job.disk \in Disks /\ job.idx \in Nat /\ assertStk \in Seq(Layer)
      /\ LoopOK /\ SoundStk(assertStk) /\ Passed(job.disk, job.idx)
  BY WipedBy DEF NoOsFound, Peek, IInv, MemoryOK, Job, StacksOK, LoopInv, LoopOK, InLoop
<1>2. /\ PartsOf(job.disk) \in Seq(Part)
      /\ DOMAIN PartsOf(job.disk) = 1 .. Len(PartsOf(job.disk)) /\ Len(PartsOf(job.disk)) \in Nat
  BY <1>1, Parts
<1>3. CASE NoOsFound /\ assertStk # <<>> /\ s = Head(assertStk).src
  <2>1. /\ Sound(s) /\ s[2] \in Nat /\ (s[2] = 0 \/ s[2] >= job.idx)
        /\ ~(job.idx <= Len(PartsOf(job.disk)))
    BY <1>1, <1>3, SoundTail, HeadLayer DEF NoOsFound, Remaining, LoopOK, Ahead
  <2>2. s[2] # 0
    <3>1. ~HasKind(job.disk, "lvm")
      BY <1>1, <1>2, <2>1 DEF HasKind, Passed
    <3> QED  BY <1>1, <2>1, <3>1 DEF Sound
  <2>3. s[2] \in DOMAIN PartsOf(job.disk)
    BY <1>1, <2>1, <2>2 DEF Sound, Tested
  <2> QED  BY <1>1, <1>2, <2>1, <2>2, <2>3
<1>4. CASE /\ Peek /\ This.kind = "os" /\ assertStk # <<>> /\ Tail(assertStk) # <<>>
           /\ s = Head(Tail(assertStk)).src
  <2>1. /\ Tail(assertStk) \in Seq(Layer) /\ SoundStk(Tail(assertStk))
        /\ Ahead(Tail(assertStk), job.idx + 1) /\ Tested(job.disk, job.idx)
    BY <1>1, <1>4, SoundTail, HeadLayer DEF Peek, LoopOK
  <2>2. Sound(s) /\ s[2] \in Nat /\ (s[2] = 0 \/ s[2] >= job.idx + 1)
    BY <1>4, <2>1, SoundTail, HeadLayer DEF Ahead
  <2>3. job.idx \in DOMAIN PartsOf(job.disk) /\ PartsOf(job.disk)[job.idx].kind = "os"
    BY <1>4, <2>1 DEF Tested, This
  <2>4. s[2] # 0
    <3>1. ~HasKind(job.disk, "lvm")
      BY <1>1, <2>3, LayoutAssumption DEF HasKind, PartsOf, IInv, BoundsOK
    <3> QED  BY <1>1, <2>2, <3>1 DEF Sound
  <2>5. Passed(job.disk, s[2])
    BY <1>1, <2>2, <2>4 DEF Sound, Tested
  <2>6. job.idx < s[2]
    BY <1>1, <2>2, <2>4
  <2> QED  BY <2>3, <2>5, <2>6 DEF Passed
<1> QED  BY <1>3, <1>4, WipedBy

LEMMA InitLoop == Init => LoopInv
<1> SUFFICES ASSUME Init PROVE LoopInv
  OBVIOUS
<1>1. GroupsOK
  BY EntityAssumption DEF Init, GroupsOK, InitialVg, Untouched, Entities
<1> QED  BY <1>1 DEF Init, LoopInv, SoundStk, Layers, LoopOK, Before, InLoop

\* remove_dir_all never empties a file system of the disk under repair, whatever earlier
\* runs left mounted on /tmp/assert and however many disks there are.
THEOREM SelectedSpared == Spec => SelectedNotWiped
<1>1. Init => IInv /\ LoopInv
  BY InitInv, InitLoop
<1>2. IInv /\ LoopInv /\ [Next]_vars => IInv' /\ LoopInv'
  BY NextInv, LoopStep
<1>3. IInv /\ LoopInv /\ [Next]_vars => [\A s \in wiped' \ wiped : s[1] # job.disk]_vars
  BY NotSelected
<1> QED  BY <1>1, <1>2, <1>3, PTL DEF Spec, SelectedNotWiped
==============================================================================
