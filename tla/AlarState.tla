------------------------------ MODULE AlarState ------------------------------
(***************************************************************************)
(* The state one ALAR run works on, and the commands it gives to the       *)
(* recovery VM.  Two parts are kept apart because a run may be killed:      *)
(*                                                                         *)
(*   - the memory of the process (job, pc, rc): lost when it ends;          *)
(*   - the recovery VM (volume groups, dm-crypt mapping, mounts, SCSI       *)
(*     devices): what a run leaves there the next run finds.                *)
(*                                                                         *)
(* The commands (vgrename, vgimportclone, vgchange, mount, umount,          *)
(* cryptsetup, the sysfs writes) are external programs.  Their effect is    *)
(* the one the code relies on; every one of them may also fail.             *)
(***************************************************************************)
EXTENDS Faults, Sequences, FiniteSets

CONSTANTS
    Disks,        \* disks attached to the recovery VM for repair
    Host,         \* the recovery VM's own OS disk
    Nobody,       \* no disk
    Scenarios,    \* the situations a run may be started in, see Scenario
    MaxRuns,      \* bound: runs of the program on this VM
    MaxCrashes    \* bound: runs killed half way

Entities == Disks \cup {Host}

\* One partition: "boot" stands for any partition without an os-release file,
\* "lvm" for a physical volume; crypt: its file system reads as "crypt?";
\* odd: the VG has an LV whose name does not end in "lv".
Part == [kind : {"efi", "boot", "os", "lvm"}, crypt : BOOLEAN, odd : BOOLEAN]

\* "mixed" is the name of an existing action in another letter case.
Actions == {"plain", "mixed", "unknown", "chroot-cli"}

\* auto: udev activates a volume group as soon as its disk shows up.
Scenario == [layout  : [Disks -> Seq(Part)],
             fs      : {"xfs", "ext4"},
             hostLvm : BOOLEAN,
             allowed : BOOLEAN,
             nvme    : BOOLEAN,
             auto    : BOOLEAN,
             actions : Seq(Actions) \ {<<>>}]

ASSUME EntityAssumption   == Host \notin Disks /\ Nobody \notin Entities
ASSUME ScenarioAssumption == Scenarios \subseteq Scenario
\* The system of a disk is on a partition or on volumes, as the images of the
\* distributions have it.
ASSUME LayoutAssumption   ==
    \A s \in Scenarios, d \in Disks : \A p, q \in DOMAIN s.layout[d] :
        ~(s.layout[d][p].kind = "os" /\ s.layout[d][q].kind = "lvm")
ASSUME BoundAssumption    == MaxRuns \in Nat /\ MaxCrashes \in Nat

VARIABLES
    vm,          \* the scenario
    pc, rc,      \* next step of the run; how the last run ended
    job,         \* what the process knows, see Job
    vg,          \* name written on each entity's volume group
    active,      \* entities whose logical volumes are active
    attached,    \* disks the kernel has a block device for
    luks,        \* the disk behind /dev/mapper/rescueencrypt
    assertStk,   \* mounts stacked on /tmp/assert, the newest first
    rootStk,     \* mounts stacked on /srv/rescue-root, the newest first
    bootMnt,     \* whose boot partition is mounted on the VM's /boot
    wiped,       \* sources whose content was removed through a mount point
    runs, crashes

lvm  == <<vg, active>>
disk == <<attached, luks>>
mnt  == <<assertStk, rootStk, bootMnt, wiped>>
vars == <<vm, pc, rc, job, lvm, disk, mnt, runs, faults, crashes>>

VgNames == {"none", "rootvg", "oldvg", "rescuevg", "rescuevg1"}
Kids    == {"usr", "lvs", "boot", "efi", "bind"}
Layer   == [src : Entities \X Nat, kids : SUBSET Kids]
Owners  == Entities \cup {Nobody}

\* disk: the disk chosen; idx: partition looked at; os: the OS partition found;
\* lvs: VG prefix of the LV names collected; todo: next action; saved: the
\* device the run noted down for /boot.
Job == [disk : Disks \cup {Nobody}, idx : Nat \ {0}, os : Nat, todo : Nat,
        lvs : VgNames \cup {"empty"}, saved : Owners]

\* Mutant: the partitions are numbered from 0.
NewJobFromZero(d) == [disk |-> d, idx |-> 0, os |-> 0, todo |-> 1,
                      lvs |-> "none", saved |-> Nobody]

NewJob(d) == [disk |-> d, idx |-> 1, os |-> 0, todo |-> 1,
              lvs |-> "none", saved |-> Nobody]
NoJob == NewJob(Nobody)

------------------------------------------------------------------------------
(* The layout of a disk. *)

PartsOf(d)    == vm.layout[d]
HasKind(d, k) == \E p \in DOMAIN PartsOf(d) : PartsOf(d)[p].kind = k
Encrypted(d)  == d \in Disks /\ \E p \in DOMAIN PartsOf(d) : PartsOf(d)[p].crypt
OddNames(d)   == \E p \in DOMAIN PartsOf(d) : PartsOf(d)[p].odd
This          == PartsOf(job.disk)[job.idx]

------------------------------------------------------------------------------
\* process::exit, a panic or the end of main: the memory is gone.
Quit(how)   == pc' = "idle" /\ rc' = how /\ job' = NoJob
Goto(label) == pc' = label /\ UNCHANGED <<rc, job>>

------------------------------------------------------------------------------
(* Volume groups.  LVM finds them by name among the disks it can read.      *)

Visible(e) == /\ vg[e] # "none"
              /\ e # Host => e \in attached /\ (Encrypted(e) => luks = e)

Listed(n)  == {e \in Entities : Visible(e) /\ vg[e] = n}
Taken(n)   == \E e \in Entities : vg[e] = n /\ (Visible(e) \/ e \in active)
DevDir(n)  == \E e \in active : vg[e] = n          \* /dev/<n> is a directory
Clash(e)   == \E f \in Entities \ {e} :
                  vg[f] = vg[e] /\ (Visible(f) \/ f \in active)

VgMounted(e) == \/ e = Host
                \/ \E i \in DOMAIN assertStk : assertStk[i].src = <<e, 0>>
                \/ \E i \in DOMAIN rootStk : rootStk[i].src = <<e, 0>>

\* vgrename s t: refused when s is missing or ambiguous, or when t exists.
VgRename(s, t, ok) ==
    /\ Outcome(~Taken(t) /\ \E e \in Entities : Listed(s) = {e}, ok)
    /\ vg' = [e \in Entities |-> IF ok /\ e \in Listed(s) THEN t ELSE vg[e]]

\* vgimportclone -n rescuevg: refused on an active VG; a name that is in use
\* gets a number.
VgImportClone(d, ok) ==
    LET name == IF Taken("rescuevg") THEN "rescuevg1" ELSE "rescuevg"
    IN  /\ Outcome(Visible(d) /\ d \notin active /\ ~Taken(name), ok)
        /\ vg' = IF ok THEN [vg EXCEPT ![d] = name] ELSE vg

\* vgchange -ay n
VgActivate(n, ok) ==
    /\ Outcome(\E e \in Entities : Listed(n) = {e} /\ ~Clash(e), ok)
    /\ active' = IF ok THEN active \cup Listed(n) ELSE active

\* vgchange -ay: what can be activated is, and a name that is there twice is
\* an error.
VgActivateAll(ok) ==
    LET can == {e \in Entities : Visible(e) /\ ~Clash(e)}
        all == \A e \in Entities : Visible(e) => ~Clash(e)
    IN  \/ Works /\ (ok <=> all) /\ active' = active \cup can
        \/ Fails /\ ~ok /\ all /\ UNCHANGED active

\* vgchange -an n: refused while a logical volume is mounted.
VgDeactivate(n, ok) ==
    /\ Outcome(\E e \in Entities : Listed(n) = {e} /\ ~VgMounted(e), ok)
    /\ active' = IF ok THEN active \ Listed(n) ELSE active

\* What udev makes of a disk that becomes readable.
AutoActivated(d) ==
    IF vm.auto /\ vg[d] # "none" /\ ~Clash(d) THEN active \cup {d} ELSE active

\* cryptsetup close rescueencrypt: refused while the mapping is in use.
LuksInUse == \/ luks \in active
             \/ \E i \in DOMAIN assertStk : assertStk[i].src[1] = luks
             \/ \E i \in DOMAIN rootStk : rootStk[i].src[1] = luks
CryptClose(ok) ==
    /\ Outcome(luks # Nobody /\ ~LuksInUse, ok)
    /\ luks' = IF ok THEN Nobody ELSE luks

------------------------------------------------------------------------------
(* Mounts.  A source is <<entity, partition>>, or <<entity, 0>> for the     *)
(* root logical volume.  Mounting again what is on top is refused (EBUSY).  *)

Layers(s) == {s[i] : i \in DOMAIN s}
Readable(dev) ==
    /\ dev[1] \in attached
    /\ PartsOf(dev[1])[dev[2]].crypt => luks = dev[1]

CanMount(dev, stk) ==
    /\ IF dev[2] = 0 THEN dev[1] \in active ELSE Readable(dev)
    /\ stk # <<>> => Head(stk).src # dev

MountedSomewhere(dev) ==
    \/ dev = <<Host, 0>>
    \/ \E l \in Layers(assertStk) \cup Layers(rootStk) :
          \/ l.src = dev
          \/ /\ l.src[1] = dev[1] /\ "boot" \in l.kids
             /\ dev[2] # 0 /\ PartsOf(dev[1])[dev[2]].kind = "boot"
    \/ /\ dev[1] = bootMnt /\ dev[2] # 0
       /\ PartsOf(dev[1])[dev[2]].kind = "boot"

Push(dev, stk)  == <<[src |-> dev, kids |-> {}]>> \o stk
AddKid(k, stk)  == <<[Head(stk) EXCEPT !.kids = @ \cup {k}]>> \o Tail(stk)
Pop(stk)        == IF stk = <<>> THEN stk ELSE Tail(stk)

\* umount -R: from the leaves up, and a busy one ends it half way.
UmountR(stk, new, ok) ==
    /\ Outcome(stk # <<>>, ok)
    /\ CASE ok -> new = Tail(stk)
         [] ~ok /\ stk = <<>> -> new = stk
         [] OTHER -> \E left \in SUBSET Head(stk).kids :
                        new = <<[Head(stk) EXCEPT !.kids = left]>> \o Tail(stk)
==============================================================================
