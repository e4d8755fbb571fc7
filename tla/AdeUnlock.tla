------------------------------ MODULE AdeUnlock ------------------------------
(***************************************************************************)
(* prepare_ade_environment: the way from an encrypted disk to               *)
(* /dev/mapper/rescueencrypt.  The passphrase comes from the command line,   *)
(* and is then written to a file in /tmp, or from the BEK volume, which is   *)
(* mounted for it; the LUKS header is in the disk's boot partition, mounted  *)
(* as well.  A repair VM may have opened the disk on its own before.         *)
(***************************************************************************)
EXTENDS Faults, Sequences

CONSTANTS
    Situations,   \* the VMs a run may be started on, see Situation
    Passwords,    \* what may be given with --ade-password; "" is nothing
    MaxRuns,      \* bound: runs of the program on this VM
    MaxCrashes    \* bound: runs killed half way

\* bek: whether there is a BEK volume with a passphrase file in it; opened: the
\* repair VM has opened the disk itself and mounted it on /investigateroot.
Situation == [repair : BOOLEAN, opened : BOOLEAN, lvm : BOOLEAN, nvme : BOOLEAN,
              bek : {"none", "nokey", "key"}]

ASSUME SituationAssumption == Situations \subseteq Situation
ASSUME PasswordAssumption  == Passwords \subseteq {"", "good", "bad"}

VARIABLES
    vm,              \* the situation
    pc, rc,          \* next step of the run; how the last run ended
    job,             \* what the process knows, see Job
    own,             \* the VM's own use of the disk: "mounted", "open" or "closed"
    ownVg,           \* the volume group behind its mapping is active
    bek, header,     \* mounted: the BEK volume, the partition with the LUKS header
    file,            \* the passphrase is in /tmp/LinuxPassPhraseFileName
    luks,            \* /dev/mapper/rescueencrypt is there
    runs, crashes
mnt  == <<bek, header>>
vars == <<vm, pc, rc, job, own, ownVg, bek, header, file, luks, runs, faults, crashes>>

\* pw: ade_password; using: the key is to be used, not just looked at; todo: what
\* is still to be given back; won: luksOpen succeeded.
Give == {"bek", "header", "mapping", "file"}
Job  == [pw : {"", "good", "bad"}, using : BOOLEAN, todo : Seq(Give), won : BOOLEAN]
NoJob == [pw |-> "", using |-> FALSE, todo |-> <<>>, won |-> FALSE]

Quit(how)   == pc' = "idle" /\ rc' = how /\ job' = NoJob
Goto(label) == pc' = label /\ UNCHANGED <<rc, job>>
Use(label)  == pc' = label /\ UNCHANGED rc /\ job' = [job EXCEPT !.using = TRUE]
GiveBack(won, todo) ==
    pc' = "giveBack" /\ UNCHANGED rc /\ job' = [job EXCEPT !.won = won, !.todo = todo]

------------------------------------------------------------------------------
Init ==
    /\ vm \in Situations
    /\ pc = "idle" /\ rc = "none" /\ job = NoJob
    /\ own = (IF vm.opened THEN "mounted" ELSE "closed") /\ ownVg = (vm.opened /\ vm.lvm)
    /\ bek = FALSE /\ header = FALSE /\ file = FALSE /\ luks = FALSE
    /\ runs = 0 /\ faults = 0 /\ crashes = 0

Start ==
    /\ pc = "idle" /\ runs < MaxRuns
    /\ \E p \in Passwords : job' = [NoJob EXCEPT !.pw = p]
    /\ pc' = "query" /\ rc' = "none" /\ runs' = runs + 1
    /\ UNCHANGED <<vm, own, ownVg, mnt, file, luks, faults, crashes>>

\* enable_encrypted_partition takes the key from one of two places.
KeyStep == IF job.pw = "" THEN "mountBek" ELSE "writeKey"

\* is_repair_vm_imds, and what follows in prepare_ade_environment.
Query ==
    /\ pc = "query"
    /\ \/ Fails /\ Quit("err")
       \/ /\ Works
          /\ CASE vm.repair              -> Goto("look")
               [] ~vm.repair /\ job.pw = "" -> Goto("mountBek")
               [] OTHER                  -> Use(KeyStep)
    /\ UNCHANGED <<own, ownVg, mnt, file, luks>>

\* is_mountpoint(/investigateroot).
Look ==
    /\ pc = "look"
    /\ \/ Fails /\ Quit("err")
       \/ Works /\ IF own = "mounted" THEN Goto("umountOwn") ELSE Use(KeyStep)
    /\ UNCHANGED <<own, ownVg, mnt, file, luks>>

\* modify_existing_ade_setup: three commands whose status is not looked at.
UmountOwn ==
    /\ pc = "umountOwn"
    /\ \/ Works /\ own' = "open"
       \/ Fails /\ UNCHANGED own
    /\ Goto(IF vm.lvm THEN "deactivateOwn" ELSE "closeOwn")
    /\ UNCHANGED <<ownVg, mnt, file, luks>>

DeactivateOwn ==
    /\ pc = "deactivateOwn"
    /\ \E ok \in BOOLEAN : Outcome(ownVg /\ own = "open", ok) /\ ownVg' = (ownVg /\ ~ok)
    /\ Goto("closeOwn")
    /\ UNCHANGED <<own, mnt, file, luks>>

CloseOwn ==
    /\ pc = "closeOwn"
    /\ \E ok \in BOOLEAN :
         /\ Outcome(own = "open" /\ ~ownVg, ok)
         /\ own' = IF ok THEN "closed" ELSE own
    /\ Use(KeyStep)
    /\ UNCHANGED <<ownVg, mnt, file, luks>>

------------------------------------------------------------------------------
\* mount_bek_volume: a strict mount of what has the label.
MountBek ==
    /\ pc = "mountBek"
    /\ \E ok \in BOOLEAN :
         /\ Outcome(vm.bek # "none" /\ ~bek, ok)
         /\ bek' = (bek \/ ok)
         /\ IF ok THEN Goto("lookForKey") ELSE Quit("err")
    /\ UNCHANGED <<own, ownVg, header, file, luks>>

LookForKey ==
    /\ pc = "lookForKey"
    /\ \/ /\ vm.bek = "key" /\ Works /\ UNCHANGED bek
          /\ Goto(IF job.using THEN "mountHeader" ELSE "readKey")
       \/ vm.bek = "nokey" /\ Works /\ bek' = FALSE /\ Quit("err")
       \/ vm.bek = "nokey" /\ Fails /\ UNCHANGED bek /\ Quit("err")
    /\ UNCHANGED <<own, ownVg, header, file, luks>>

\* read_pass_phrase_file: read the file, then unmount.
ReadKey ==
    /\ pc = "readKey"
    /\ \/ Works /\ bek' = FALSE /\ Use(KeyStep)
       \/ Fails /\ UNCHANGED bek /\ Quit("err")
    /\ UNCHANGED <<own, ownVg, header, file, luks>>

\* create_pass_phrase_file.
WriteKey ==
    /\ pc = "writeKey"
    /\ \E ok \in BOOLEAN :
         /\ Outcome(TRUE, ok)
         /\ file' = (file \/ ok)
         /\ IF ok THEN Goto("mountHeader") ELSE Quit("err")
    /\ UNCHANGED <<own, ownVg, mnt, luks>>

\* The device names of a partition: with NVMe there is a "p" before its number.
BootDevice   == IF vm.nvme THEN "disk p number" ELSE "disk number"
HeaderDevice == "disk number"

\* mount_boot_partition: a strict mount.
MountHeader ==
    /\ pc = "mountHeader"
    /\ \E ok \in BOOLEAN :
         /\ Outcome(HeaderDevice = BootDevice /\ ~header, ok)
         /\ header' = (header \/ ok)
         /\ IF ok THEN Goto("open") ELSE Quit("err")
    /\ UNCHANGED <<own, ownVg, bek, file, luks>>

\* What is given back, in this order: on success, when luksOpen fails, and when
\* the shell for it cannot be started.
KeyPlace == IF job.pw = "" THEN "bek" ELSE "file"
OnSuccess == <<"header", KeyPlace>>
OnRefusal == IF job.pw = "" THEN <<"bek", "header", "mapping">> ELSE <<"header", "mapping">>
OnNoShell == <<"bek", "header", "file">>

\* Mutant: the status of luksOpen is not looked at.
LuksOpenUnchecked ==
    /\ pc = "open"
    /\ Works
    /\ luks' = (luks \/ (job.pw # "bad" /\ own = "closed"))
    /\ GiveBack(TRUE, OnSuccess)
    /\ UNCHANGED <<own, ownVg, mnt, file>>

\* Mutant: of what was mounted only the header's partition is given back.
LuksOpenForgetful ==
    /\ pc = "open"
    /\ \/ /\ job.pw # "bad" /\ ~luks /\ own = "closed" /\ Works
          /\ luks' = TRUE
          /\ GiveBack(TRUE, <<"header">>)
       \/ /\ IF job.pw # "bad" /\ ~luks /\ own = "closed" THEN Fails ELSE Works
          /\ UNCHANGED luks
          /\ GiveBack(FALSE, <<"header", "mapping">>)
    /\ UNCHANGED <<own, ownVg, mnt, file>>

\* luksOpen needs the right key, a free name and a device that is not in use.
LuksOpen ==
    /\ pc = "open"
    /\ LET possible == job.pw # "bad" /\ ~luks /\ own = "closed"
       IN  \/ /\ possible /\ Works
              /\ luks' = TRUE
              /\ GiveBack(TRUE, OnSuccess)
           \/ /\ IF possible THEN Fails ELSE Works
              /\ UNCHANGED luks
              /\ GiveBack(FALSE, OnRefusal)
           \/ /\ Fails /\ UNCHANGED luks
              /\ GiveBack(FALSE, OnNoShell)
    /\ UNCHANGED <<own, ownVg, mnt, file>>

------------------------------------------------------------------------------
\* What is there to be given back, and its return.
There(g) == CASE g = "bek" -> bek [] g = "header" -> header
              [] g = "mapping" -> luks [] g = "file" -> file
TakeAway(g) ==
    /\ bek'    = (bek    /\ g # "bek")
    /\ header' = (header /\ g # "header")
    /\ luks'   = (luks   /\ g # "mapping")
    /\ file'   = (file   /\ g # "file")

\* Mutant: an error on the way is only logged.
GiveBackOn ==
    /\ pc = "giveBack"
    /\ \E ok \in BOOLEAN :
         /\ Outcome(There(Head(job.todo)), ok)
         /\ IF ok THEN TakeAway(Head(job.todo)) ELSE UNCHANGED <<mnt, file, luks>>
    /\ CASE Len(job.todo) > 1 -> /\ job' = [job EXCEPT !.todo = Tail(@)]
                                 /\ UNCHANGED <<pc, rc>>
         [] OTHER -> IF job.won THEN Goto("unlocked") ELSE Quit("err")
    /\ UNCHANGED <<own, ownVg>>

\* One after the other, each with ?: the first that fails is the last.
GiveNext ==
    /\ pc = "giveBack"
    /\ \/ /\ There(Head(job.todo)) /\ Works
          /\ TakeAway(Head(job.todo))
          /\ CASE Len(job.todo) > 1 -> /\ job' = [job EXCEPT !.todo = Tail(@)]
                                       /\ UNCHANGED <<pc, rc>>
               [] Len(job.todo) = 1 /\ job.won -> Goto("unlocked")
               [] OTHER -> Quit("err")
       \/ /\ IF There(Head(job.todo)) THEN Fails ELSE Works
          /\ UNCHANGED <<mnt, file, luks>>
          /\ Quit("err")
    /\ UNCHANGED <<own, ownVg>>

\* The rest of the run; in its end cleanup closes the mapping, or fails to.
RestOfRun ==
    /\ pc = "unlocked"
    /\ \/ Works /\ luks' = FALSE /\ Quit("ok")
       \/ Fails /\ UNCHANGED luks /\ Quit("err")
    /\ UNCHANGED <<own, ownVg, mnt, file>>

Step ==
    /\ \/ Query \/ Look \/ UmountOwn \/ DeactivateOwn \/ CloseOwn \/ MountBek \/ LookForKey
       \/ ReadKey \/ WriteKey \/ MountHeader \/ LuksOpen \/ GiveNext \/ RestOfRun
    /\ UNCHANGED <<vm, runs, crashes>>

Crash ==
    /\ pc # "idle" /\ crashes < MaxCrashes
    /\ Quit("killed") /\ crashes' = crashes + 1
    /\ UNCHANGED <<vm, own, ownVg, mnt, file, luks, runs, faults>>

Rest == pc = "idle" /\ runs = MaxRuns /\ UNCHANGED vars

Next == Start \/ Step \/ Crash \/ Rest
Spec == Init /\ [][Next]_vars

------------------------------------------------------------------------------
(* Properties *)

\* Whatever was left behind by earlier runs: on success the mapping is this run's,
\* the VM's own one is closed, the header's partition is off, and so is the
\* place this run took the key from.
UnlockedIsBare ==
    pc = "unlocked" => /\ luks /\ own = "closed" /\ ~header
                       /\ IF job.pw = "" THEN ~bek ELSE ~file

\* When no command fails and no run is killed both volumes are off after each
\* run, also one that was given a wrong key or found none; but not with NVMe.
VolumesGivenBack ==
    pc = "idle" /\ faults = 0 /\ crashes = 0 /\ ~vm.nvme => ~bek /\ ~header

\* The mapping does what Discovery's step Unlock relies on.
Stage == CASE pc = "idle" -> "idle"
           [] pc = "unlocked" -> "granted"
           [] pc = "giveBack" /\ job.won -> "opened"
           [] OTHER -> "asked"
Contract == INSTANCE UnlockContract WITH mapping <- luks, stage <- Stage
ContractKept == Contract!Spec
==============================================================================
