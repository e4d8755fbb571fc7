--------------------------- MODULE AdeUnlockProofs ---------------------------
(***************************************************************************)
(* For all situations, passwords and bounds: AdeUnlock implements           *)
(* UnlockContract, and a granted mapping comes with nothing left mounted.   *)
(***************************************************************************)
EXTENDS AdeUnlock, SequenceTheorems, TLAPS

\* What the run holds at each step, and what it still has to give back.
HasKey == IF job.pw = "" THEN bek ELSE file

Refusals == {OnRefusal, <<"header", "mapping">>, <<"mapping">>,
             OnNoShell, <<"header", "file">>, <<"file">>}

JobOK ==
    /\ job \in Job
    /\ bek \in BOOLEAN /\ header \in BOOLEAN /\ file \in BOOLEAN /\ luks \in BOOLEAN
    /\ pc \in {"mountBek", "lookForKey", "readKey"} => job.pw = ""
    /\ pc = "writeKey" => job.pw # ""

HoldsOK ==
    /\ pc \in {"lookForKey", "readKey"} => bek
    /\ pc \in {"mountHeader", "open"} => HasKey
    /\ pc = "open" => header

GivingOK ==
    pc = "giveBack" =>
        IF job.won
        THEN /\ luks /\ own = "closed"
             /\ job.todo = OnSuccess \/ (job.todo = <<KeyPlace>> /\ ~header)
        ELSE job.todo \in Refusals

IInv == JobOK /\ HoldsOK /\ GivingOK /\ UnlockedIsBare

LEMMA JobType ==
    /\ NoJob \in Job /\ NoJob.pw = ""
    /\ \A j \in Job : /\ [j EXCEPT !.using = TRUE] \in Job
                      /\ [j EXCEPT !.using = TRUE].pw = j.pw
<1>1. NoJob \in Job /\ NoJob.pw = ""
  BY DEF Job, NoJob
<1> QED  BY <1>1 DEF Job

LEMMA StartType ==
    ASSUME NEW p \in {"", "good", "bad"}
    PROVE  [NoJob EXCEPT !.pw = p] \in Job
BY JobType DEF Job

LEMMA WonType ==
    ASSUME NEW j \in Job, NEW t \in Seq(Give)
    PROVE  LET k == [j EXCEPT !.won = TRUE, !.todo = t]
           IN  k \in Job /\ k.pw = j.pw /\ k.won /\ k.todo = t
BY DEF Job

LEMMA LostType ==
    ASSUME NEW j \in Job, NEW t \in Seq(Give)
    PROVE  LET k == [j EXCEPT !.won = FALSE, !.todo = t]
           IN  k \in Job /\ k.pw = j.pw /\ ~k.won /\ k.todo = t
BY DEF Job

LEMMA TodoType ==
    ASSUME NEW j \in Job, NEW t \in Seq(Give)
    PROVE  LET k == [j EXCEPT !.todo = t]
           IN  k \in Job /\ k.pw = j.pw /\ (k.won <=> j.won) /\ k.todo = t
BY DEF Job

LEMMA InitInv == Init => IInv
<1> SUFFICES ASSUME Init PROVE IInv
  OBVIOUS
<1>1. JobOK
  BY JobType DEF Init, JobOK
<1> QED  BY <1>1 DEF Init, IInv, HoldsOK, GivingOK, UnlockedIsBare

USE DEF Quit, Goto, Use, GiveBack, mnt

\* No step before luksOpen touches the mapping.
EarlyStep == Query \/ Look \/ UmountOwn \/ DeactivateOwn \/ CloseOwn \/ MountBek \/ LookForKey
             \/ ReadKey \/ WriteKey \/ MountHeader

LEMMA UseKeyInv ==
    ASSUME IInv, Use(KeyStep), bek' \in BOOLEAN, UNCHANGED <<own, header, file, luks>>
    PROVE  IInv'
<1>1. job' \in Job /\ job'.pw = job.pw
  BY JobType DEF IInv, JobOK
<1>2. pc' = IF job.pw = "" THEN "mountBek" ELSE "writeKey"
  BY DEF KeyStep
<1>3. JobOK'
  BY <1>1, <1>2 DEF IInv, JobOK
<1> QED  BY <1>2, <1>3 DEF IInv, HoldsOK, GivingOK, UnlockedIsBare

LEMMA QuitInv ==
    ASSUME IInv, NEW how, Quit(how), bek' \in BOOLEAN, header' \in BOOLEAN,
           file' \in BOOLEAN, luks' \in BOOLEAN
    PROVE  IInv'
BY JobType DEF IInv, JobOK, HoldsOK, GivingOK, UnlockedIsBare

LEMMA EarlyInv ==
    ASSUME IInv, EarlyStep
    PROVE  IInv'
<1> USE DEF IInv, JobOK, HoldsOK, GivingOK, UnlockedIsBare, HasKey, KeyStep
<1>1. CASE Query
  <2>1. UNCHANGED <<own, bek, header, file, luks>>
    BY <1>1 DEF Query
  <2>2. CASE Quit("err")
    BY <2>1, <2>2, QuitInv
  <2>3. CASE Goto("look")
    BY <2>1, <2>3
  <2>4. CASE Goto("mountBek") /\ job.pw = ""
    BY <2>1, <2>4
  <2>5. CASE Use(KeyStep)
    BY <2>1, <2>5, UseKeyInv
  <2> HIDE DEF Quit, Goto, Use
  <2>6. Quit("err") \/ Goto("look") \/ (Goto("mountBek") /\ job.pw = "") \/ Use(KeyStep)
    BY <1>1 DEF Query
  <2> QED  BY <2>2, <2>3, <2>4, <2>5, <2>6
<1>2. CASE Look
  <2>1. UNCHANGED <<own, bek, header, file, luks>>
    BY <1>2 DEF Look
  <2>2. CASE Quit("err")
    BY <2>1, <2>2, QuitInv
  <2>3. CASE Goto("umountOwn")
    BY <2>1, <2>3
  <2>4. CASE Use(KeyStep)
    BY <2>1, <2>4, UseKeyInv
  <2> QED  BY <2>2, <2>3, <2>4, <1>2 DEF Look
<1>3. CASE UmountOwn
  BY <1>3, JobType DEF UmountOwn
<1>4. CASE DeactivateOwn
  BY <1>4, JobType DEF DeactivateOwn
<1>5. CASE CloseOwn
  BY <1>5, JobType DEF CloseOwn
<1>6. CASE MountBek
  BY <1>6, JobType DEF MountBek
<1>7. CASE LookForKey
  BY <1>7, JobType DEF LookForKey
<1>8. CASE ReadKey
  <2>1. bek' \in BOOLEAN /\ UNCHANGED <<own, header, file, luks>>
    BY <1>8 DEF ReadKey
  <2>2. CASE Quit("err")
    BY <2>1, <2>2, QuitInv
  <2>3. CASE Use(KeyStep)
    BY <2>1, <2>3, UseKeyInv
  <2> QED  BY <2>2, <2>3, <1>8 DEF ReadKey
<1>9. CASE WriteKey
  BY <1>9, JobType DEF WriteKey
<1>10. CASE MountHeader
  BY <1>10, JobType DEF MountHeader
<1> QED  BY <1>1, <1>2, <1>3, <1>4, <1>5, <1>6, <1>7, <1>8, <1>9, <1>10 DEF EarlyStep

LEMMA Todos ==
    /\ OnSuccess \in Seq(Give) /\ <<KeyPlace>> \in Seq(Give)
    /\ Head(OnSuccess) = "header" /\ Tail(OnSuccess) = <<KeyPlace>> /\ Len(OnSuccess) = 2
    /\ Head(<<KeyPlace>>) = KeyPlace /\ Len(<<KeyPlace>>) = 1
<1>1. KeyPlace \in Give
  BY DEF KeyPlace, Give
<1>2. ASSUME NEW g \in Give
      PROVE  /\ <<"header", g>> \in Seq(Give) /\ <<g>> \in Seq(Give)
             /\ Head(<<"header", g>>) = "header" /\ Tail(<<"header", g>>) = <<g>>
             /\ Len(<<"header", g>>) = 2 /\ Head(<<g>>) = g /\ Len(<<g>>) = 1
  BY DEF Give
<1> QED  BY <1>1, <1>2 DEF OnSuccess

LEMMA TodoLength ==
    ASSUME NEW t
    PROVE  /\ t = OnSuccess => Len(t) = 2
           /\ t = <<KeyPlace>> => Len(t) = 1
BY DEF OnSuccess

LEMMA TodoHead ==
    ASSUME NEW t \in {OnSuccess, <<KeyPlace>>}
    PROVE  Head(t) # "mapping"
<1>1. CASE t = OnSuccess
  BY <1>1, Todos
<1>2. CASE t = <<KeyPlace>>
  BY <1>2, Todos DEF KeyPlace
<1> QED  BY <1>1, <1>2

LEMMA TailGive ==
    ASSUME NEW t \in Seq(Give), Len(t) > 1
    PROVE  Tail(t) \in Seq(Give)
BY HeadTailProperties

LEMMA RefusalTodos ==
    ASSUME NEW t \in Refusals
    PROVE  /\ t \in Seq(Give) /\ Head(t) \in Give
           /\ Len(t) > 1 => Tail(t) \in Refusals /\ Head(t) # "mapping"
<1>1. CASE t = <<"bek", "header", "mapping">>
  BY <1>1 DEF Refusals, Give
<1>2. CASE t = <<"header", "mapping">>
  BY <1>2 DEF Refusals, Give
<1>3. CASE t = <<"mapping">>
  BY <1>3 DEF Refusals, Give
<1>4. CASE t = <<"bek", "header", "file">>
  BY <1>4 DEF Refusals, Give
<1>5. CASE t = <<"header", "file">>
  BY <1>5 DEF Refusals, Give
<1>6. CASE t = <<"file">>
  BY <1>6 DEF Refusals, Give
<1> QED  BY <1>1, <1>2, <1>3, <1>4, <1>5, <1>6 DEF Refusals, OnRefusal, OnNoShell

LEMMA OpenInv ==
    ASSUME IInv, LuksOpen
    PROVE  IInv'
<1>1. pc = "open" /\ HasKey /\ header /\ UNCHANGED <<own, bek, header, file>>
  BY DEF LuksOpen, IInv, HoldsOK
<1>2. CASE own = "closed" /\ luks' = TRUE /\ GiveBack(TRUE, OnSuccess)
  <2>1. job' \in Job /\ job'.pw = job.pw /\ job'.won /\ job'.todo = OnSuccess
    BY <1>2, Todos, WonType DEF IInv, JobOK
  <2>2. OnSuccess' = OnSuccess
    BY <2>1 DEF OnSuccess, KeyPlace
  <2> QED  BY <1>1, <1>2, <2>1, <2>2 DEF IInv, JobOK, HoldsOK, GivingOK, UnlockedIsBare
<1>3. ASSUME NEW t \in {OnRefusal, OnNoShell}, GiveBack(FALSE, t), UNCHANGED luks
      PROVE  IInv'
  <2>1. t \in Refusals
    BY <1>3 DEF Refusals
  <2>2. job' \in Job /\ job'.pw = job.pw /\ ~job'.won /\ job'.todo = t
    BY <1>3, <2>1, RefusalTodos, LostType DEF IInv, JobOK
  <2>3. Refusals' = Refusals
    BY <2>2 DEF Refusals, OnRefusal, OnNoShell
  <2> QED  BY <1>1, <1>3, <2>1, <2>2, <2>3 DEF IInv, JobOK, HoldsOK, GivingOK, UnlockedIsBare
<1> QED  BY <1>2, <1>3 DEF LuksOpen

LEMMA GiveInv ==
    ASSUME IInv, GiveNext
    PROVE  IInv'
<1>1. /\ bek' \in BOOLEAN /\ header' \in BOOLEAN /\ file' \in BOOLEAN /\ luks' \in BOOLEAN
      /\ pc = "giveBack" /\ own' = own
  BY DEF GiveNext, TakeAway, IInv, JobOK
<1>2. CASE Quit("err")
  BY <1>1, <1>2, QuitInv
<1>3. CASE /\ Len(job.todo) > 1 /\ job' = [job EXCEPT !.todo = Tail(@)]
           /\ UNCHANGED <<pc, rc>> /\ TakeAway(Head(job.todo))
  <2>1. CASE job.won
    <3>0. Len(job.todo) > 1
      BY <1>3
    <3>a. job.todo # <<KeyPlace>>
      <4> SUFFICES ASSUME job.todo = <<KeyPlace>> PROVE FALSE
        OBVIOUS
      <4>1. Len(job.todo) = 1
        BY TodoLength
      <4> QED  BY <4>1, <3>0
    <3>1. job.todo = OnSuccess /\ luks /\ own = "closed"
      BY <1>1, <2>1, <3>a DEF IInv, GivingOK
    <3>2. job' = [job EXCEPT !.todo = <<KeyPlace>>]
      BY <1>3, <3>1, Todos DEF IInv, JobOK
    <3>3. job' \in Job /\ job'.pw = job.pw /\ job'.won /\ job'.todo = <<KeyPlace>>
      BY <3>2, <2>1, TodoType, Todos DEF IInv, JobOK
    <3>4. ~header' /\ luks' /\ KeyPlace' = KeyPlace
      BY <3>1, <3>3, <1>3, Todos DEF TakeAway, KeyPlace
    <3> QED  BY <1>1, <1>3, <3>1, <3>3, <3>4 DEF IInv, JobOK, HoldsOK, GivingOK, UnlockedIsBare
  <2>2. CASE ~job.won
    <3>1. job.todo \in Refusals /\ Tail(job.todo) \in Refusals
      BY <1>1, <1>3, <2>2, RefusalTodos DEF IInv, GivingOK
    <3>2. job' \in Job /\ job'.pw = job.pw /\ ~job'.won /\ job'.todo = Tail(job.todo)
      BY <1>3, <3>1, <2>2, TodoType, RefusalTodos DEF IInv, JobOK
    <3>3. Refusals' = Refusals
      BY <3>2 DEF Refusals, OnRefusal, OnNoShell
    <3> QED  BY <1>1, <1>3, <3>1, <3>2, <3>3 DEF IInv, JobOK, HoldsOK, GivingOK, UnlockedIsBare
  <2> QED  BY <2>1, <2>2
<1>4. CASE job.won /\ Len(job.todo) = 1 /\ Goto("unlocked") /\ TakeAway(Head(job.todo))
  <2> job.todo # OnSuccess
    BY <1>4, TodoLength
  <2>1. job.todo = <<KeyPlace>> /\ ~header /\ luks /\ own = "closed"
    BY <1>1, <1>4 DEF IInv, GivingOK
  <2>2. ~header' /\ luks' /\ IF job.pw = "" THEN ~bek' ELSE ~file'
    BY <2>1, <1>4, Todos DEF TakeAway, KeyPlace
  <2> QED  BY <1>1, <1>4, <2>1, <2>2 DEF IInv, JobOK, HoldsOK, GivingOK, UnlockedIsBare
<1> QED  BY <1>2, <1>3, <1>4 DEF GiveNext

LEMMA StepInv == IInv /\ [Next]_vars => IInv'
<1> SUFFICES ASSUME IInv, [Next]_vars PROVE IInv'
  OBVIOUS
<1>1. CASE EarlyStep
  BY <1>1, EarlyInv
<1>2. CASE LuksOpen
  BY <1>2, OpenInv
<1>3. CASE GiveNext
  BY <1>3, GiveInv
<1>4. CASE Start
  BY <1>4, StartType, PasswordAssumption DEF Start, IInv, JobOK, HoldsOK, GivingOK, UnlockedIsBare
<1>5. CASE RestOfRun
  <2>1. /\ bek' \in BOOLEAN /\ header' \in BOOLEAN /\ file' \in BOOLEAN /\ luks' \in BOOLEAN
        /\ \E how : Quit(how)
    BY <1>5 DEF RestOfRun, IInv, JobOK
  <2> QED  BY <2>1, QuitInv
<1>6. CASE Crash
  <2>1. /\ bek' \in BOOLEAN /\ header' \in BOOLEAN /\ file' \in BOOLEAN /\ luks' \in BOOLEAN
        /\ Quit("killed")
    BY <1>6 DEF Crash, IInv, JobOK
  <2> QED  BY <2>1, QuitInv
<1>7. CASE UNCHANGED vars
  BY <1>7 DEF vars, IInv, JobOK, HoldsOK, GivingOK, UnlockedIsBare, HasKey, OnSuccess, OnRefusal,
              OnNoShell, KeyPlace, Refusals
<1> QED  BY <1>1, <1>2, <1>3, <1>4, <1>5, <1>6, <1>7 DEF Next, Step, EarlyStep, Rest

\* A mapping is granted only with nothing left mounted for it.
THEOREM GrantedBare == Spec => []UnlockedIsBare
<1>1. IInv => UnlockedIsBare
  BY DEF IInv
<1> QED  BY InitInv, StepInv, <1>1, PTL DEF Spec

------------------------------------------------------------------------------
(* Without a failing command, a kill or NVMe: what is mounted at each step, so *)
(* that the run cannot end with any of it left.                             *)

Quiet   == faults = 0 /\ crashes = 0 /\ ~vm.nvme
Bare    == ~bek /\ ~header
KeyHeld == bek <=> job.pw = ""

BareLabels == {"idle", "query", "look", "umountOwn", "deactivateOwn", "closeOwn", "mountBek",
               "writeKey", "unlocked"}

HeldOK ==
    /\ pc \in BareLabels => Bare
    /\ pc \in {"lookForKey", "readKey", "mountHeader"} => ~header
    /\ pc \in {"mountHeader", "open"} => KeyHeld
    /\ pc = "giveBack" =>
          IF job.won
          THEN KeyHeld /\ (job.todo = OnSuccess => header)
          ELSE \/ job.todo = <<"bek", "header", "mapping">> /\ bek /\ header
               \/ job.todo = <<"header", "mapping">> /\ ~bek /\ header
               \/ job.todo = <<"mapping">> /\ Bare

HeldInv == faults \in Nat /\ crashes \in Nat /\ (Quiet => HeldOK)

\* Failures and kills are only added.
LEMMA QuietBefore ==
    ASSUME HeldInv, [Next]_vars
    PROVE  /\ faults' \in Nat /\ crashes' \in Nat
           /\ Quiet' => Quiet /\ HeldOK /\ UNCHANGED <<faults, crashes>>
<1>1. vm' = vm
  BY DEF Next, Start, Step, Crash, Rest, vars
<1>2. crashes' \in Nat /\ (crashes' = crashes \/ crashes' # 0)
  BY DEF Next, Start, Step, Crash, Rest, vars, HeldInv
<1>3. faults' = faults \/ (faults' = faults + 1 /\ faults' # 0)
  <2> USE DEF Works, Fails, Outcome, HeldInv
  <2>1. CASE EarlyStep
    <3> HIDE DEF Quit, Goto, Use
    <3>1. CASE Query
      <4>1. Works \/ Fails
        <5> HIDE DEF Works, Fails
        <5> QED  BY <3>1 DEF Query
      <4> QED  BY <4>1
    <3>b. CASE Look
      BY <3>b DEF Look
    <3>a. CASE UmountOwn \/ DeactivateOwn \/ CloseOwn
      BY <3>a DEF UmountOwn, DeactivateOwn, CloseOwn
    <3>2. CASE MountBek \/ LookForKey \/ ReadKey \/ WriteKey \/ MountHeader
      BY <3>2 DEF MountBek, LookForKey, ReadKey, WriteKey, MountHeader
    <3> QED  BY <2>1, <3>1, <3>b, <3>a, <3>2 DEF EarlyStep
  <2>2. CASE LuksOpen \/ GiveNext \/ RestOfRun
    BY <2>2 DEF LuksOpen, GiveNext, RestOfRun
  <2> QED  BY <2>1, <2>2 DEF Next, Step, EarlyStep, Start, Crash, Rest, vars
<1> QED  BY <1>1, <1>2, <1>3 DEF HeldInv, Quiet

LEMMA EarlyHeld ==
    ASSUME IInv, HeldOK, ~vm.nvme, EarlyStep, faults' = faults, faults \in Nat
    PROVE  HeldOK'
<1>0. job \in Job /\ bek \in BOOLEAN /\ header \in BOOLEAN /\ HoldsOK /\ JobOK
  BY DEF IInv, JobOK
<1>a. ASSUME pc' \in BareLabels, ~bek', ~header'
      PROVE  HeldOK'
  BY <1>a DEF HeldOK, BareLabels, Bare
<1> USE DEF BareLabels, Works, Fails, Outcome
<1>1. CASE Query \/ Look \/ UmountOwn \/ DeactivateOwn \/ CloseOwn
  <2>1. ~bek /\ ~header
    BY <1>1 DEF Query, Look, UmountOwn, DeactivateOwn, CloseOwn, HeldOK, Bare
  <2>2. bek' = bek /\ header' = header
    <3>1. CASE Query \/ Look \/ UmountOwn
      BY <3>1 DEF Query, Look, UmountOwn
    <3>2. CASE DeactivateOwn \/ CloseOwn
      BY <3>2 DEF DeactivateOwn, CloseOwn
    <3> QED  BY <1>1, <3>1, <3>2
  <2>3. KeyStep \in BareLabels
    BY DEF KeyStep
  <2>4. pc' \in BareLabels
    <3> USE <2>3
    <3> HIDE DEF Works, Fails, Outcome
    <3>1. CASE Query
      <4>1. Quit("err") \/ Goto("look") \/ Goto("mountBek") \/ Use(KeyStep)
        <5> HIDE DEF Quit, Goto, Use
        <5> QED  BY <3>1 DEF Query
      <4> QED  BY <4>1
    <3>2. CASE Look
      <4>1. Quit("err") \/ Goto("umountOwn") \/ Use(KeyStep)
        <5> HIDE DEF Quit, Goto, Use
        <5> QED  BY <3>2 DEF Look
      <4> QED  BY <4>1
    <3>3. CASE UmountOwn
      BY <3>3 DEF UmountOwn
    <3>4. CASE DeactivateOwn
      BY <3>4 DEF DeactivateOwn
    <3>5. CASE CloseOwn
      BY <3>5 DEF CloseOwn
    <3> QED  BY <1>1, <3>1, <3>2, <3>3, <3>4, <3>5
  <2> QED  BY <2>1, <2>2, <2>4, <1>a
<1>2. CASE MountBek
  <2>1. ~bek /\ ~header /\ header' = header /\ pc = "mountBek"
    BY <1>2 DEF MountBek, HeldOK, Bare
  <2>2. CASE pc' = "lookForKey"
    BY <2>1, <2>2, <1>0 DEF HeldOK, JobOK
  <2>3. CASE Quit("err") /\ ~bek'
    BY <2>1, <2>3, <1>a
  <2> QED  BY <2>1, <2>2, <2>3, <1>2 DEF MountBek
<1>3. CASE LookForKey
  <2>1. bek /\ ~header /\ header' = header /\ job.pw = ""
    BY <1>0, <1>3 DEF LookForKey, HoldsOK, JobOK, HeldOK
  <2>2. CASE bek' = bek /\ job' = job /\ pc' \in {"mountHeader", "readKey"}
    BY <2>1, <2>2 DEF HeldOK, KeyHeld
  <2>3. CASE bek' = FALSE /\ Quit("err")
    BY <2>1, <2>3, <1>a
  <2>4. \/ bek' = bek /\ Goto(IF job.using THEN "mountHeader" ELSE "readKey")
        \/ bek' = FALSE /\ Quit("err")
    <3> HIDE DEF Quit, Goto
    <3> QED  BY <1>3 DEF LookForKey
  <2> QED  BY <2>2, <2>3, <2>4
<1>4. CASE ReadKey
  <2>1. ~bek' /\ ~header'
    BY <1>4 DEF ReadKey, HeldOK
  <2>2. pc' \in BareLabels
    BY <1>4 DEF ReadKey, KeyStep
  <2> QED  BY <2>1, <2>2, <1>a
<1>5. CASE WriteKey
  <2>1. ~bek /\ ~header /\ bek' = bek /\ header' = header /\ job.pw # ""
    BY <1>0, <1>5 DEF WriteKey, HeldOK, Bare, JobOK
  <2>2. CASE pc' = "mountHeader" /\ job' = job
    BY <2>1, <2>2 DEF HeldOK, KeyHeld
  <2>3. CASE Quit("err")
    BY <2>1, <2>3, <1>a
  <2> QED  BY <2>2, <2>3, <1>5 DEF WriteKey
<1>6. CASE MountHeader
  <2>1. ~header /\ KeyHeld /\ bek' = bek
    BY <1>6 DEF MountHeader, HeldOK
  <2>2. pc' = "open" /\ job' = job
    BY <2>1, <1>6 DEF MountHeader, HeaderDevice, BootDevice
  <2> QED  BY <2>1, <2>2 DEF HeldOK, KeyHeld
<1> QED  BY <1>1, <1>2, <1>3, <1>4, <1>5, <1>6 DEF EarlyStep

LEMMA OpenHeld ==
    ASSUME IInv, HeldOK, LuksOpen, faults' = faults, faults \in Nat
    PROVE  HeldOK'
<1>1. pc = "open" /\ header /\ KeyHeld /\ UNCHANGED <<bek, header>> /\ job \in Job
  BY DEF LuksOpen, IInv, HoldsOK, JobOK, HeldOK
<1>2. CASE GiveBack(TRUE, OnSuccess)
  <2>1. job'.pw = job.pw /\ job'.won
    BY <1>1, <1>2, Todos, WonType
  <2> QED  BY <1>1, <1>2, <2>1 DEF HeldOK, BareLabels, KeyHeld
<1>3. CASE GiveBack(FALSE, OnRefusal)
  <2>1. OnRefusal \in Refusals
    BY DEF Refusals
  <2>2. job'.pw = job.pw /\ ~job'.won /\ job'.todo = OnRefusal
    BY <1>1, <1>3, <2>1, RefusalTodos, LostType
  <2> QED  BY <1>1, <1>3, <2>2 DEF HeldOK, BareLabels, KeyHeld, OnRefusal
<1> QED  BY <1>2, <1>3 DEF LuksOpen, Works, Fails

LEMMA GiveHeld ==
    ASSUME IInv, HeldOK, GiveNext, faults' = faults, faults \in Nat
    PROVE  HeldOK'
<1>1. pc = "giveBack" /\ job \in Job /\ bek \in BOOLEAN /\ header \in BOOLEAN
  BY DEF GiveNext, IInv, JobOK
<1>2. CASE ~There(Head(job.todo)) /\ Quit("err") /\ UNCHANGED <<bek, header>>
  <2>1. CASE job.won
    <3>1. job.todo = OnSuccess \/ job.todo = <<KeyPlace>>
      BY <1>1, <2>1 DEF IInv, GivingOK
    <3>2. CASE job.todo = OnSuccess
      BY <3>2, <1>1, <1>2, <2>1, Todos DEF HeldOK, There
    <3>3. CASE job.todo = <<KeyPlace>>
      <4>1. ~header
        BY <3>3, <1>1, <2>1, TodoLength DEF IInv, GivingOK
      <4>2. Head(job.todo) = KeyPlace
        BY <3>3, Todos
      <4> QED  BY <4>1, <4>2, <1>1, <1>2, <2>1 DEF HeldOK, KeyHeld, KeyPlace, There, BareLabels, Bare
    <3> QED  BY <3>1, <3>2, <3>3
  <2>2. CASE ~job.won /\ job.todo = <<"bek", "header", "mapping">> /\ bek
    BY <2>2, <1>2 DEF There
  <2>3. CASE ~job.won /\ job.todo = <<"header", "mapping">> /\ header
    BY <2>3, <1>2 DEF There
  <2>4. CASE ~job.won /\ job.todo = <<"mapping">> /\ Bare
    BY <2>4, <1>2 DEF HeldOK, BareLabels, Bare
  <2> QED  BY <2>1, <2>2, <2>3, <2>4, <1>1 DEF HeldOK
<1>3. CASE /\ Len(job.todo) > 1 /\ job' = [job EXCEPT !.todo = Tail(@)]
           /\ pc' = pc /\ TakeAway(Head(job.todo))
  <2>0. Len(job.todo) > 1
    BY <1>3
  <2>a. ASSUME NEW t \in Seq(Give), Tail(job.todo) = t
        PROVE  job'.pw = job.pw /\ (job'.won <=> job.won) /\ job'.todo = t
    <3>1. job' = [job EXCEPT !.todo = t]
      BY <2>a, <1>1, <1>3 DEF Job
    <3> QED  BY <3>1, <1>1, TodoType
  <2>1. CASE job.won
    <3>a. job.todo # <<KeyPlace>>
      <4> SUFFICES ASSUME job.todo = <<KeyPlace>> PROVE FALSE
        OBVIOUS
      <4>1. Len(job.todo) = 1
        BY TodoLength
      <4> QED  BY <4>1, <2>0
    <3>1. job.todo = OnSuccess
      BY <1>1, <2>1, <3>a DEF IInv, GivingOK
    <3>2. Head(job.todo) = "header" /\ Tail(job.todo) = <<KeyPlace>> /\ <<KeyPlace>> \in Seq(Give)
      BY <3>1, Todos
    <3>3. job'.pw = job.pw /\ job'.won /\ job'.todo = <<KeyPlace>>
      BY <2>a, <2>1, <3>2
    <3>4. OnSuccess' = OnSuccess
      BY <3>3 DEF OnSuccess, KeyPlace
    <3>5. job'.todo # OnSuccess'
      BY <3>3, <3>4, TodoLength
    <3>6. bek' = bek /\ KeyHeld
      BY <1>1, <1>3, <2>1, <3>2 DEF TakeAway, HeldOK
    <3> QED  BY <1>1, <1>3, <3>3, <3>5, <3>6 DEF HeldOK, BareLabels, KeyHeld
  <2>2. CASE ~job.won /\ job.todo = <<"bek", "header", "mapping">> /\ bek /\ header
    <3>1. Head(job.todo) = "bek" /\ Tail(job.todo) = <<"header", "mapping">>
      BY <2>2
    <3>2. <<"header", "mapping">> \in Seq(Give)
      BY DEF Give
    <3>3. ~job'.won /\ job'.todo = <<"header", "mapping">>
      BY <2>a, <2>2, <3>1, <3>2
    <3>4. ~bek' /\ header'
      BY <1>1, <1>3, <2>2, <3>1 DEF TakeAway
    <3> QED  BY <1>1, <1>3, <3>3, <3>4 DEF HeldOK, BareLabels
  <2>3. CASE ~job.won /\ job.todo = <<"header", "mapping">> /\ ~bek /\ header
    <3>1. Head(job.todo) = "header" /\ Tail(job.todo) = <<"mapping">>
      BY <2>3
    <3>2. <<"mapping">> \in Seq(Give)
      BY DEF Give
    <3>3. ~job'.won /\ job'.todo = <<"mapping">>
      BY <2>a, <2>3, <3>1, <3>2
    <3>4. ~bek' /\ ~header'
      BY <1>1, <1>3, <2>3, <3>1 DEF TakeAway
    <3> QED  BY <1>1, <1>3, <3>3, <3>4 DEF HeldOK, BareLabels, Bare
  <2>4. job.todo # <<"mapping">>
    <3> SUFFICES ASSUME job.todo = <<"mapping">> PROVE FALSE
      OBVIOUS
    <3>1. Len(job.todo) = 1
      OBVIOUS
    <3> QED  BY <2>0, <3>1
  <2> QED  BY <2>1, <2>2, <2>3, <2>4, <1>1 DEF HeldOK
<1>4. CASE /\ job.won /\ Len(job.todo) = 1 /\ pc' = "unlocked" /\ job' = job
           /\ TakeAway(Head(job.todo))
  <2>0. Len(job.todo) = 1
    BY <1>4
  <2>1. job.todo = <<KeyPlace>>
    BY <1>1, <1>4, <2>0, TodoLength DEF IInv, GivingOK
  <2>2. Head(job.todo) = KeyPlace /\ KeyHeld
    BY <2>1, <1>1, <1>4, Todos DEF HeldOK
  <2>3. ~header
    BY <1>1, <1>4, <2>0, TodoLength DEF IInv, GivingOK
  <2>4. Bare'
    BY <2>2, <2>3, <1>1, <1>4 DEF TakeAway, KeyPlace, KeyHeld, Bare
  <2> QED  BY <2>4, <1>4 DEF HeldOK, BareLabels
<1>5. CASE Len(job.todo) <= 1 /\ ~job.won /\ Quit("err") /\ TakeAway(Head(job.todo))
  <2>0. Len(job.todo) <= 1
    BY <1>5
  <2>1. job.todo = <<"mapping">> /\ Bare
    BY <1>1, <1>5, <2>0 DEF HeldOK
  <2>2. Bare'
    BY <2>1, <1>1, <1>5 DEF TakeAway, Bare
  <2> QED  BY <2>2, <1>5 DEF HeldOK, BareLabels
<1>6. Len(job.todo) \in Nat
  BY <1>1, LenProperties DEF Job
<1>7. job.won => Len(job.todo) = 2 \/ Len(job.todo) = 1
  BY <1>1, TodoLength DEF IInv, GivingOK
<1>8. faults' = faults /\ faults' # faults + 1
  OBVIOUS
<1>9. CASE There(Head(job.todo)) /\ Works /\ TakeAway(Head(job.todo))
  <2> HIDE DEF Quit
  <2>1. CASE Len(job.todo) > 1
    <3>1. UNCHANGED <<pc, rc>> /\ job' = [job EXCEPT !.todo = Tail(@)]
      <4>1. There(Head(job.todo)) /\ ~Fails
        BY <1>8, <1>9 DEF Fails
      <4>2. Len(job.todo) > 1 /\ Len(job.todo) # 1
        <5>1. ASSUME NEW n \in Nat, n > 1 PROVE n # 1
          BY <5>1
        <5> QED  BY <2>1, <1>6, <5>1
      <4> HIDE DEF Goto
      <4> QED  BY <4>1, <4>2 DEF GiveNext
    <3> QED  BY <2>1, <3>1, <1>3, <1>9
  <2>2. CASE Len(job.todo) = 1 /\ job.won
    BY <2>2, <1>4, <1>8, <1>9 DEF GiveNext, Works, Fails
  <2>3. CASE Len(job.todo) <= 1 /\ ~job.won
    BY <2>3, <1>5, <1>8, <1>9 DEF GiveNext, Works, Fails
  <2>4. Len(job.todo) > 1 \/ (Len(job.todo) = 1 /\ job.won) \/ (Len(job.todo) <= 1 /\ ~job.won)
    BY <1>6, <1>7
  <2> QED  BY <2>1, <2>2, <2>3, <2>4
<1> QED  BY <1>2, <1>8, <1>9 DEF GiveNext, Works, Fails

LEMMA StepHeld ==
    ASSUME IInv, HeldInv, [Next]_vars
    PROVE  HeldInv'
<1> SUFFICES ASSUME Quiet' PROVE HeldOK'
  BY QuietBefore DEF HeldInv
<1>1. HeldOK /\ ~vm.nvme /\ faults' = faults /\ crashes' = crashes /\ faults \in Nat /\ crashes \in Nat
  BY QuietBefore DEF Quiet, HeldInv
<1>2. CASE EarlyStep
  BY <1>1, <1>2, EarlyHeld
<1>3. CASE LuksOpen
  BY <1>1, <1>3, OpenHeld
<1>4. CASE GiveNext
  BY <1>1, <1>4, GiveHeld
<1>5. CASE Start \/ RestOfRun
  BY <1>1, <1>5 DEF Start, RestOfRun, HeldOK, BareLabels, Bare
<1>6. CASE Crash
  BY <1>1, <1>6 DEF Crash
<1>7. CASE UNCHANGED vars
  BY <1>1, <1>7 DEF vars, HeldOK, BareLabels, Bare, KeyHeld, OnSuccess, KeyPlace
<1> QED  BY <1>2, <1>3, <1>4, <1>5, <1>6, <1>7 DEF Next, Step, EarlyStep, Rest

\* Where no command fails, no run is killed and no name lacks the "p" of NVMe, a run
\* gives back both volumes it has mounted, whatever the password and the disk.
THEOREM VolumesReturned == Spec => []VolumesGivenBack
<1>1. Init => HeldInv
  BY DEF Init, HeldInv, HeldOK, Bare, BareLabels
<1>2. IInv /\ HeldInv /\ [Next]_vars => HeldInv'
  BY StepHeld
<1>3. HeldInv => VolumesGivenBack
  BY DEF HeldInv, HeldOK, VolumesGivenBack, Quiet, Bare, BareLabels
<1> QED  BY InitInv, StepInv, <1>1, <1>2, <1>3, PTL DEF Spec

------------------------------------------------------------------------------
(* The refinement: what each step is for the contract. *)

EarlyLabels == {"query", "look", "umountOwn", "deactivateOwn", "closeOwn", "mountBek",
                "lookForKey", "readKey", "writeKey", "mountHeader", "open"}

LEMMA Stages ==
    /\ pc = "idle" => Stage = "idle"
    /\ pc = "unlocked" => Stage = "granted"
    /\ pc \in EarlyLabels => Stage = "asked"
    /\ pc = "giveBack" /\ job.won => Stage = "opened"
    /\ pc = "giveBack" /\ ~job.won => Stage = "asked"
BY DEF Stage, EarlyLabels

LEMMA StagesNext ==
    /\ pc' = "idle" => Stage' = "idle"
    /\ pc' = "unlocked" => Stage' = "granted"
    /\ pc' \in EarlyLabels => Stage' = "asked"
    /\ pc' = "giveBack" /\ job'.won => Stage' = "opened"
    /\ pc' = "giveBack" /\ ~job'.won => Stage' = "asked"
BY DEF Stage, EarlyLabels

LEMMA EarlyLabel ==
    ASSUME EarlyStep
    PROVE  pc \in EarlyLabels /\ pc' \in EarlyLabels \cup {"idle"} /\ luks' = luks
BY DEF EarlyStep, EarlyLabels, Query, Look, UmountOwn, DeactivateOwn, CloseOwn, MountBek,
       LookForKey, ReadKey, WriteKey, MountHeader, KeyStep

LEMMA ContractStep ==
    ASSUME IInv, [Next]_vars
    PROVE  [Contract!Next]_(Contract!contract)
<1> USE DEF Contract!Next, Contract!contract
<1>1. CASE EarlyStep
  <2>1. Stage = "asked" /\ Stage' \in {"asked", "idle"} /\ luks' = luks
    BY <1>1, EarlyLabel, Stages, StagesNext
  <2> QED  BY <2>1 DEF Contract!Stop
<1>2. CASE LuksOpen
  <2>1. Stage = "asked"
    BY <1>2, Stages DEF LuksOpen, EarlyLabels
  <2>2. CASE luks' = TRUE /\ ~luks /\ GiveBack(TRUE, OnSuccess)
    <3>1. Stage' = "opened"
      BY <2>2, WonType, Todos, StagesNext DEF IInv, JobOK
    <3> QED  BY <2>1, <2>2, <3>1 DEF Contract!Open
  <2>3. ASSUME NEW t \in {OnRefusal, OnNoShell}, GiveBack(FALSE, t), UNCHANGED luks
        PROVE  [Contract!Next]_(Contract!contract)
    <3>1. t \in Seq(Give)
      BY <2>3, RefusalTodos DEF Refusals
    <3>2. Stage' = "asked"
      BY <2>3, <3>1, LostType, StagesNext DEF IInv, JobOK
    <3> QED  BY <2>1, <2>3, <3>2
  <2> QED  BY <1>2, <2>2, <2>3 DEF LuksOpen
<1>3. CASE GiveNext
  <2>1. pc = "giveBack"
    BY <1>3 DEF GiveNext
  <2>2. CASE Quit("err") /\ luks' = luks
    BY <2>2, StagesNext DEF Contract!Stop
  <2>3. CASE job.won /\ There(Head(job.todo)) /\ TakeAway(Head(job.todo))
    <3>1. Stage = "opened" /\ Head(job.todo) # "mapping"
      BY <2>1, <2>3, Stages, Todos, TodoHead DEF IInv, GivingOK
    <3>2. luks' = luks
      BY <2>3, <3>1 DEF TakeAway, IInv, JobOK
    <3>3. Stage' \in {"opened", "granted", "idle"}
      <4>1. CASE Len(job.todo) > 1 /\ job' = [job EXCEPT !.todo = Tail(@)] /\ pc' = pc
        <5>1. Tail(job.todo) \in Seq(Give) /\ job' = [job EXCEPT !.todo = Tail(job.todo)]
          BY <4>1, TailGive DEF IInv, JobOK, Job
        <5> QED  BY <2>1, <2>3, <4>1, <5>1, TodoType, StagesNext DEF IInv, JobOK
      <4>2. CASE Goto("unlocked")
        BY <4>2, StagesNext
      <4>3. CASE Quit("err")
        BY <4>3, StagesNext
      <4> QED  BY <1>3, <4>1, <4>2, <4>3 DEF GiveNext
    <3> QED  BY <3>1, <3>2, <3>3 DEF Contract!Grant, Contract!Stop
  <2>4. CASE ~job.won /\ There(Head(job.todo)) /\ TakeAway(Head(job.todo))
    <3>1. Stage = "asked" /\ job.todo \in Refusals
      BY <2>1, <2>4, Stages DEF IInv, GivingOK
    <3>2. CASE Len(job.todo) > 1 /\ job' = [job EXCEPT !.todo = Tail(@)] /\ pc' = pc
      <4>1. Tail(job.todo) \in Seq(Give) /\ Head(job.todo) # "mapping"
        BY <3>1, <3>2, RefusalTodos
      <4>2. job' = [job EXCEPT !.todo = Tail(job.todo)]
        BY <3>2 DEF IInv, JobOK, Job
      <4>3. Stage' = "asked"
        BY <2>1, <2>4, <3>2, <4>1, <4>2, TodoType, StagesNext DEF IInv, JobOK
      <4>4. luks' = luks
        BY <2>4, <4>1 DEF TakeAway, IInv, JobOK
      <4> QED  BY <3>1, <4>3, <4>4
    <3>3. CASE Quit("err")
      <4>1. Stage' = "idle" /\ luks' \in {luks, FALSE}
        BY <2>4, <3>3, StagesNext DEF TakeAway, IInv, JobOK
      <4> QED  BY <3>1, <4>1 DEF Contract!Refuse
    <3> QED  BY <1>3, <2>4, <3>2, <3>3 DEF GiveNext
  <2> QED  BY <1>3, <2>2, <2>3, <2>4 DEF GiveNext
<1>4. CASE Start
  <2>1. Stage = "idle" /\ Stage' = "asked" /\ luks' = luks
    BY <1>4, Stages, StagesNext DEF Start, EarlyLabels
  <2> QED  BY <2>1 DEF Contract!Ask
<1>5. CASE RestOfRun
  <2>1. Stage = "granted" /\ Stage' = "idle" /\ luks' \in BOOLEAN
    BY <1>5, Stages, StagesNext DEF RestOfRun, IInv, JobOK
  <2> QED  BY <2>1 DEF Contract!Return
<1>6. CASE Crash
  <2>1. Stage' = "idle" /\ luks' = luks
    BY <1>6, StagesNext DEF Crash
  <2> QED  BY <2>1 DEF Contract!Stop
<1>7. CASE UNCHANGED vars
  BY <1>7 DEF vars, Stage
<1> QED  BY <1>1, <1>2, <1>3, <1>4, <1>5, <1>6, <1>7 DEF Next, Step, EarlyStep, Rest

\* Every behaviour of AdeUnlock is, for the mapping, one of the contract.
THEOREM KeepsContract == Spec => ContractKept
<1>1. Init => Contract!Init
  BY Stages DEF Init, Contract!Init
<1>2. IInv /\ [Next]_vars => [Contract!Next]_(Contract!contract)
  BY ContractStep
<1> QED  BY InitInv, StepInv, <1>1, <1>2, PTL DEF Spec, ContractKept, Contract!Spec
==============================================================================
