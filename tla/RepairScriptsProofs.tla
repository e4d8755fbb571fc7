-------------------------- MODULE RepairScriptsProofs --------------------------
(***************************************************************************)
(* For every system, every list of actions and every number of runs, kills   *)
(* and faults: no line of fstab is lost, sudo and resolv.conf are left as     *)
(* the scripts promise, and what kernel, serialconsole and initrd did lasts. *)
(***************************************************************************)
EXTENDS RepairScripts, TLAPS

------------------------------------------------------------------------------
(* What the steps of each script leave alone, and where they go *)

GrubSteps   == {"grubPre", "grubWrite", "grubInstall", "grubConfig", "grubAfter"}
EfiSteps    == {"efiPre", "efiWrite", "efiCheck", "efiUmount", "efiMkfs", "efiMount", "efiRemove",
                "efiInstall", "efiCopy", "efiOwn", "efiMain", "efiImage", "efiSed", "efiAfter"}
ConfigSteps == {"kerLine", "kerPick", "kerEfi", "kerMain", "serLine", "serEfi", "serMain",
                "iniPre", "iniMake", "iniMain", "iniEfi"}

FaultsGrow == faults \in Nat => faults' \in Nat /\ (faults' = 0 => faults = 0)

LEMMA OutcomeGrows ==
    ASSUME NEW possible, NEW ok, Outcome(possible, ok) \/ Fails \/ UNCHANGED faults
    PROVE  FaultsGrow
BY FaultAssumption DEF FaultsGrow, Outcome, Works, Fails

LEMMA MkconfigMoves ==
    ASSUME NEW here, NEW there, NEW which, NEW possible, Mkconfig(here, there, which, possible)
    PROVE  pc = here /\ pc' = there /\ UNCHANGED <<run, todo, net, tab, aud, sudo>> /\ FaultsGrow
<1>1. PICK ok \in BOOLEAN : Outcome(possible, ok)
  BY DEF Mkconfig
<1>2. FaultsGrow
  BY <1>1, OutcomeGrows
<1> QED  BY <1>2 DEF Mkconfig, Goto

LEMMA GrubMoves ==
    ASSUME GrubNext
    PROVE  /\ pc \in GrubSteps /\ pc' \in GrubSteps \cup {"next"}
           /\ UNCHANGED <<run, todo, tab, aud, sudo>> /\ FaultsGrow
<1>1. CASE GrubInstall
  <2>1. PICK ok \in BOOLEAN :
           /\ Outcome(GrubFits, ok)
           /\ Goto("grubInstall", IF ok \/ ~GrubChecked THEN "grubConfig" ELSE "next")
    BY <1>1 DEF GrubInstall
  <2>2. FaultsGrow
    BY <2>1, OutcomeGrows
  <2> QED  BY <1>1, <2>1, <2>2 DEF GrubInstall, Goto, GrubSteps
<1>2. CASE GrubConfig
  BY <1>2, MkconfigMoves DEF GrubConfig, GrubSteps
<1>3. CASE ~GrubInstall /\ ~GrubConfig
  BY <1>3 DEF GrubNext, GrubRefuse, GrubNoPre, GrubMove, MoveResolv, WriteResolv, RestoreResolv,
              Same, Goto, GrubSteps, FaultsGrow
<1> QED  BY <1>1, <1>2, <1>3

LEMMA EfiMoves ==
    ASSUME EfiNext
    PROVE  /\ pc \in EfiSteps /\ pc' \in EfiSteps \cup {"next"}
           /\ UNCHANGED <<run, todo, copies, stamp, gawk, aud, sudo>> /\ FaultsGrow
           /\ ~EfiSed => UNCHANGED fstab
<1>1. CASE EfiMain
  BY <1>1, MkconfigMoves DEF EfiMain, EfiSteps, tab
<1>2. CASE EfiUmount \/ EfiMkfs \/ EfiMount \/ EfiInstall \/ EfiOwn \/ EfiImage
  <2>1. \E possible, ok : Outcome(possible, ok)
    BY <1>2 DEF EfiUmount, EfiMkfs, EfiMount, EfiInstall, EfiOwn, EfiImage
  <2>2. FaultsGrow
    BY <2>1, OutcomeGrows
  <2> QED  BY <1>2, <2>2 DEF EfiUmount, EfiMkfs, EfiMount, EfiInstall, EfiOwn, EfiImage, Goto,
                             EfiSteps, tab
<1>3. CASE EfiRemove
  <2>1. Fails \/ UNCHANGED faults
    BY <1>3 DEF EfiRemove, Works
  <2>2. FaultsGrow
    BY <2>1, OutcomeGrows
  <2> QED  BY <1>3, <2>2 DEF EfiRemove, Goto, EfiSteps, tab
<1>4. CASE EfiNoPre \/ EfiMove \/ WriteResolv("efiWrite", "efiCheck") \/ EfiCheck \/ EfiCopy
           \/ EfiSed \/ MisplaceResolv("efiAfter", "next")
  BY <1>4 DEF EfiNoPre, EfiMove, EfiCheck, EfiCopy, EfiSed, SedThen, MoveResolv, WriteResolv,
              MisplaceResolv, Same, Goto, EfiSteps, FaultsGrow, tab
<1> QED  BY <1>1, <1>2, <1>3, <1>4 DEF EfiNext

LEMMA ConfigMoves ==
    ASSUME ConfigNext
    PROVE  /\ pc \in ConfigSteps /\ pc' \in ConfigSteps \cup {"next"}
           /\ UNCHANGED <<run, todo, net, tab, aud, sudo>> /\ FaultsGrow
<1>1. CASE KernelEfi \/ KernelMain
  BY <1>1, MkconfigMoves DEF KernelEfi, KernelMain, ConfigSteps
<1>2. CASE SerialEfi \/ SerialMain
  BY <1>2, MkconfigMoves DEF SerialEfi, SerialMain, ConfigSteps
<1>3. CASE InitrdMain \/ InitrdEfi
  BY <1>3, MkconfigMoves DEF InitrdMain, InitrdEfi, ConfigSteps
<1>4. CASE InitrdMake
  <2>1. \E possible, ok : Outcome(possible, ok)
    BY <1>4 DEF InitrdMake
  <2>2. FaultsGrow
    BY <2>1, OutcomeGrows
  <2> QED  BY <1>4, <2>2 DEF InitrdMake, Goto, ConfigSteps
<1>5. CASE KernelLine \/ KernelPick \/ SerialNone \/ SerialLine \/ InitrdRemove
  BY <1>5 DEF KernelLine, KernelPick, SerialNone, SerialLine, InitrdRemove, Edit, Goto,
              ConfigSteps, FaultsGrow
<1> QED  BY <1>1, <1>2, <1>3, <1>4, <1>5 DEF ConfigNext

LEMMA AuditMoves ==
    ASSUME AuditNext
    PROVE  /\ pc \in {"audConf", "audWalk", "audLook", "audEnd"}
           /\ pc' \in {"audWalk", "audLook", "audEnd", "next"}
           /\ UNCHANGED <<run, todo, net, tab, sudo>> /\ FaultsGrow
<1>1. UNCHANGED <<run, todo, net, tab, sudo>>
      /\ pc \in {"audConf", "audWalk", "audLook", "audEnd"}
      /\ pc' \in {"audWalk", "audLook", "audEnd", "next"}
  BY DEF AuditNext, Configure, Walk, Look, Continue, AuditEnd, Goto
<1>2. UNCHANGED faults \/ Fails
  BY DEF AuditNext, Configure, Walk, Look, Grow, AuditEnd, Works
<1> QED  BY <1>1, <1>2, OutcomeGrows

------------------------------------------------------------------------------
(* The lines of fstab *)

Needed(l) == l.at # "/boot/efi" /\ \E i \in DOMAIN sys.fstab : sys.fstab[i] = l
InFstab(l) == \E i \in DOMAIN fstab : fstab[i] = l
InCopy(l)  == \E c \in DOMAIN copies : \E i \in DOMAIN copies[c] : copies[c][i] = l

Asked(name) == \E i \in DOMAIN todo : todo[i] = name

\* No copy is named by a second that is still to come.
FreshCopy ==
    /\ todo \in Seq(Names) /\ stamp \in Nat
    /\ \A c \in DOMAIN copies : c \in Nat /\ c <= stamp

\* The lines are all in fstab until the first copy is made, then all in copies.
Journal ==
    ~sys.fast =>
        /\ DOMAIN copies = {} => \A l : Needed(l) => InFstab(l)
        /\ DOMAIN copies # {} => \A l : Needed(l) => InCopy(l)
        /\ pc \in FstabSteps => DOMAIN copies # {}

LinesInv == sys \in Systems /\ FreshCopy /\ Journal

\* What has no part in fstab and its copies.
LEMMA Elsewhere ==
    ASSUME LinesInv, UNCHANGED <<sys, todo, fstab, copies, stamp>>,
           pc' \in FstabSteps => pc \in FstabSteps
    PROVE  LinesInv'
BY DEF LinesInv, FreshCopy, Journal, Needed, InFstab, InCopy

LEMMA LinesInit == Init => LinesInv
<1> SUFFICES ASSUME Init PROVE LinesInv
  OBVIOUS
<1>0. copies = <<>> => DOMAIN copies = {}
  OBVIOUS
<1>1. DOMAIN copies = {} /\ todo = <<>> /\ pc = "idle" /\ stamp = 0
      /\ sys \in Systems /\ fstab = sys.fstab
  BY <1>0, Zenon DEF Init
<1>2. FreshCopy
  BY <1>1 DEF FreshCopy
<1>3. Journal
  BY <1>1 DEF Journal, Needed, InFstab, FstabSteps
<1> QED  BY <1>1, <1>2, <1>3 DEF LinesInv

LEMMA LinesStart ==
    ASSUME LinesInv, Start
    PROVE  LinesInv'
<1>1. todo' \in Seq(Names)
  BY SystemAssumption DEF LinesInv, Start, System
<1>2. FreshCopy'
  BY <1>1 DEF LinesInv, FreshCopy, Start
<1>3. Journal'
  BY DEF LinesInv, Journal, Start, Needed, InFstab, InCopy, FstabSteps
<1> QED  BY <1>2, <1>3 DEF LinesInv, Start

LEMMA LinesNextAction ==
    ASSUME LinesInv, NextAction
    PROVE  LinesInv'
<1>1. CASE todo = <<>>
  BY <1>1, Elsewhere DEF NextAction, run, tab, FstabSteps
<1>2. CASE todo # <<>>
  <2>1. todo \in Seq(Names)
    BY DEF LinesInv, FreshCopy
  <2>2. todo' = Tail(todo) /\ Head(todo) \in Names /\ pc' = First[Head(todo)]
    BY <1>2, <2>1 DEF NextAction
  <2>3. Tail(todo) \in Seq(Names)
    BY <1>2, <2>1
  <2>4. pc' \notin FstabSteps
    BY <2>2 DEF First, Names, FstabSteps
  <2>5. UNCHANGED <<sys, fstab, copies, stamp>>
    BY DEF NextAction, run, tab
  <2>6. FreshCopy'
    BY <2>2, <2>3, <2>5 DEF LinesInv, FreshCopy
  <2>7. Journal'
    BY <2>4, <2>5 DEF LinesInv, Journal, Needed, InFstab, InCopy
  <2> QED  BY <2>5, <2>6, <2>7 DEF LinesInv
<1> QED  BY <1>1, <1>2

LEMMA LinesSave ==
    ASSUME LinesInv, Save
    PROVE  LinesInv'
<1>1. pc' = "fstabPre" /\ UNCHANGED <<todo, sys>>
  BY DEF Save, Goto, run
<1>2. stamp \in Nat /\ \A c \in DOMAIN copies : c \in Nat /\ c <= stamp
  BY DEF LinesInv, FreshCopy
<1>3. stamp' \in {stamp, stamp + 1} /\ (~sys.fast => stamp' \notin DOMAIN copies)
  BY <1>2 DEF Save, Seconds
<1>4. /\ DOMAIN copies' = DOMAIN copies \cup {stamp'}
      /\ copies'[stamp'] = fstab
      /\ \A c \in DOMAIN copies : c # stamp' => copies'[c] = copies[c]
  BY DEF Save
<1>5. FreshCopy'
  BY <1>1, <1>2, <1>3, <1>4 DEF LinesInv, FreshCopy
<1>6. ASSUME NEW l, Needed(l), ~sys.fast
      PROVE  InCopy(l)'
  <2>1. CASE DOMAIN copies = {}
    BY <2>1, <1>4, <1>6 DEF LinesInv, Journal, InFstab, InCopy
  <2>2. CASE DOMAIN copies # {}
    <3>1. PICK c \in DOMAIN copies : \E i \in DOMAIN copies[c] : copies[c][i] = l
      BY <2>2, <1>6 DEF LinesInv, Journal, InCopy
    <3>2. c # stamp'
      BY <1>3, <1>6
    <3> QED  BY <3>1, <3>2, <1>4 DEF InCopy
  <2> QED  BY <2>1, <2>2
<1>7. \A l : Needed(l)' => Needed(l)
  BY <1>1 DEF Needed
<1>8. Journal'
  BY <1>1, <1>4, <1>6, <1>7 DEF Journal
<1> QED  BY <1>1, <1>5, <1>8 DEF LinesInv

\* The lines written do not matter.
LEMMA LinesWrite ==
    ASSUME LinesInv, NEW here \in FstabSteps, NEW there, NEW lines, Write(here, there, lines)
    PROVE  LinesInv'
<1>1. pc = here /\ UNCHANGED <<todo, sys, copies, stamp>>
  BY DEF Write, Goto, run
<1>2. FreshCopy'
  BY <1>1 DEF LinesInv, FreshCopy
<1>3. Journal'
  BY <1>1 DEF LinesInv, Journal, Needed, InCopy
<1> QED  BY <1>1, <1>2, <1>3 DEF LinesInv

LEMMA LinesSed ==
    ASSUME LinesInv, EfiSed
    PROVE  LinesInv'
<1>1. pc' \in {"efiImage", "efiAfter"} /\ UNCHANGED <<todo, sys, copies, stamp>>
  BY DEF EfiSed, SedThen, Goto, run
<1>2. \A l : Needed(l) /\ InFstab(l) => InFstab(l)'
  BY DEF EfiSed, Needed, InFstab, Renamed
<1>3. FreshCopy'
  BY <1>1 DEF LinesInv, FreshCopy
<1>4. Journal'
  BY <1>1, <1>2 DEF LinesInv, Journal, Needed, InCopy, FstabSteps
<1> QED  BY <1>1, <1>3, <1>4 DEF LinesInv

\* The awks of the volumes.
LEMMA VolumeSteps ==
    /\ DOMAIN VolumeOf = {"fstabHome", "fstabOpt", "fstabTmp", "fstabUsr", "fstabVar"}
    /\ \A here \in DOMAIN VolumeOf :
          /\ here \in FstabSteps /\ AfterIt[here] \in FstabSteps \cup {"next"}
          /\ VolumeOf[here] \in {"/home", "/opt", "/tmp", "/usr", "/var"}
BY DEF VolumeOf, AfterIt, FstabSteps

LEMMA LinesFstab ==
    ASSUME LinesInv, FstabNext
    PROVE  LinesInv'
<1>1. CASE Save
  BY <1>1, LinesSave
<1>2. CASE MoveResolv("fstabPre", "fstabWrite")
  BY <1>2, Elsewhere DEF MoveResolv, Goto, run, tab, FstabSteps
<1>3. CASE WriteResolv("fstabWrite", "fstabGawk")
  BY <1>3, Elsewhere DEF WriteResolv, Goto, run, tab, FstabSteps
<1>4. CASE RestoreResolv("fstabAfter", "fstabRoot")
  BY <1>4, Elsewhere DEF RestoreResolv, Goto, run, tab, FstabSteps
<1>5. CASE InstallGawk
  BY <1>5, Elsewhere DEF InstallGawk, Goto, run, FstabSteps
<1>6. CASE WriteRoot
  BY <1>6, LinesWrite DEF WriteRoot, FstabSteps
<1>7. CASE WriteBoot
  BY <1>7, LinesWrite DEF WriteBoot, FstabSteps
<1>8. CASE WriteEfi
  BY <1>8, LinesWrite DEF WriteEfi, FstabSteps
<1>9. CASE WriteResource \/ WriteBek
  BY <1>9, LinesWrite DEF WriteResource, WriteBek, FstabSteps
<1>10. CASE WriteVolume
  BY <1>10, LinesWrite, VolumeSteps DEF WriteVolume
<1> QED  BY <1>1, <1>2, <1>3, <1>4, <1>5, <1>6, <1>7, <1>8, <1>9, <1>10 DEF FstabNext

LEMMA LinesGrub ==
    ASSUME LinesInv, GrubNext
    PROVE  LinesInv'
BY GrubMoves, Elsewhere DEF GrubSteps, FstabSteps, run, tab

LEMMA LinesEfi ==
    ASSUME LinesInv, EfiNext
    PROVE  LinesInv'
<1>1. CASE EfiSed
  BY <1>1, LinesSed
<1>2. CASE ~EfiSed
  BY <1>2, EfiMoves, Elsewhere DEF EfiSteps, FstabSteps, run
<1> QED  BY <1>1, <1>2

LEMMA LinesConfig ==
    ASSUME LinesInv, ConfigNext
    PROVE  LinesInv'
BY ConfigMoves, Elsewhere DEF ConfigSteps, FstabSteps, run, tab

LEMMA LinesAudit ==
    ASSUME LinesInv, AuditNext
    PROVE  LinesInv'
BY AuditMoves, Elsewhere DEF FstabSteps, run, tab

LEMMA LinesSudo ==
    ASSUME LinesInv, SudoNext
    PROVE  LinesInv'
<1>1. UNCHANGED <<sys, todo, tab>>
  BY DEF SudoNext, MoveWaagent, ConfMode, ConfOwner, Targetpw, BinMode, BinOwner, SudoEnd, Fix,
         Goto, run
<1>2. pc' \in {"sudoConfMode", "sudoConfOwner", "sudoTargetpw", "sudoMode",
               "sudoOwner", "sudoEnd", "next"}
  BY DEF SudoNext, MoveWaagent, ConfMode, ConfOwner, Targetpw, BinMode, BinOwner, SudoEnd, Fix,
         Goto
<1> QED  BY <1>1, <1>2, Elsewhere DEF FstabSteps, tab

LEMMA LinesCrash ==
    ASSUME LinesInv, Crash
    PROVE  LinesInv'
<1>1. pc' = "idle" /\ todo' = <<>> /\ UNCHANGED <<sys, fstab, copies, stamp>>
  BY DEF Crash, tab
<1>2. FreshCopy'
  BY <1>1 DEF LinesInv, FreshCopy
<1>3. Journal'
  BY <1>1 DEF LinesInv, Journal, Needed, InFstab, InCopy, FstabSteps
<1> QED  BY <1>1, <1>2, <1>3 DEF LinesInv

LEMMA LinesStep == LinesInv /\ [Next]_vars => LinesInv'
<1> SUFFICES ASSUME LinesInv, [Next]_vars PROVE LinesInv'
  OBVIOUS
<1>1. CASE UNCHANGED vars
  BY <1>1, Elsewhere DEF vars, run, tab
<1>2. CASE Rest
  BY <1>1, <1>2 DEF Rest
<1>3. CASE Step
  BY <1>3, LinesNextAction, LinesFstab, LinesGrub, LinesEfi, LinesAudit, LinesSudo,
     LinesConfig DEF Step
<1> QED  BY <1>1, <1>2, <1>3, LinesStart, LinesCrash DEF Next

\* Every line the system had, other than that of /boot/efi, is in fstab or in a copy of
\* it, however often and for however long the action ran, where no two copies of a run can
\* have the name of one second.
THEOREM NoLineLost == Spec => []LinesKept
<1>1. LinesInv => LinesKept
  BY DEF LinesInv, Journal, LinesKept, Kept, Needed, InFstab, InCopy
<1> QED  BY <1>1, LinesInit, LinesStep, PTL DEF Spec
------------------------------------------------------------------------------
(* sudo *)

\* Without a fault a command does what there is to do.
LEMMA NoFault ==
    ASSUME NEW wrong, NEW ok \in BOOLEAN, Outcome(wrong, ok), faults \in Nat, faults' = 0
    PROVE  faults = 0 /\ (ok <=> wrong)
BY DEF Outcome, Works, Fails

LEMMA Applied ==
    ASSUME NEW wrong, NEW new, Apply(wrong, new), faults \in Nat, faults' = 0
    PROVE  faults = 0 /\ (wrong => sudo' = new) /\ (~wrong => sudo' = sudo)
<1>1. PICK ok \in BOOLEAN : Outcome(wrong, ok) /\ sudo' = IF ok THEN new ELSE sudo
  BY DEF Apply
<1>2. faults = 0 /\ (ok <=> wrong)
  BY <1>1, NoFault
<1> QED  BY <1>1, <1>2

\* What holds of the faults whatever is applied.
LEMMA AppliedTyped ==
    ASSUME NEW wrong, NEW new, Apply(wrong, new), faults \in Nat
    PROVE  faults' \in Nat /\ sudo' \in {sudo, new}
BY FaultAssumption DEF Apply, Outcome, Works, Fails

SudoTyped ==
    /\ sys \in Systems /\ faults \in Nat /\ sudo \in SudoFiles
    /\ sys.sudo.owner = "root" => sudo.owner = "root"
    /\ sys.sudo.mode # "closed" => sudo.mode # "closed"

\* Whose mode is right at the end.
ModeStays == sudo.link = "root" \/ (sudo.link = "none" /\ sys.sudo.owner = "root")

\* What each command has set right stays so until the end of the script.
Late  == {"sudoMode", "sudoOwner", "sudoEnd"}
Later == {"sudoTargetpw"} \cup Late
SudoDone ==
    faults = 0 =>
        /\ pc \in {"sudoConfMode", "sudoConfOwner"} \cup Later => sudo.twice = FALSE
        /\ pc \in {"sudoConfOwner"} \cup Later => sudo.conf = "right"
        /\ pc \in Later => sudo.confOwner = "root"
        /\ pc \in Late => sudo.targetpw = FALSE
        /\ sys.sudo.mode # "closed" =>
              /\ pc \in {"sudoOwner", "sudoEnd"} /\ ModeStays => sudo.mode = "right"
              /\ pc = "sudoEnd" /\ sudo.link # "root" => sudo.owner = "root"

SudoInv == SudoTyped /\ SudoDone

SudoSteps == {"sudoDup", "sudoConfMode", "sudoConfOwner"} \cup Later

\* What has no part in sudo: it may begin the script, and no more.
LEMMA NotSudo ==
    ASSUME SudoInv, UNCHANGED <<sys, sudo>>, faults' \in Nat, faults' = 0 => faults = 0,
           pc' \notin SudoSteps \ {"sudoDup"}
    PROVE  SudoInv'
BY DEF SudoInv, SudoTyped, SudoDone, ModeStays, SudoSteps, Later, Late

LEMMA SudoInit == Init => SudoInv
<1> SUFFICES ASSUME Init PROVE SudoInv
  OBVIOUS
<1>1. sys \in Systems /\ sudo = sys.sudo /\ faults = 0 /\ pc = "idle"
  BY DEF Init
<1>2. sys.sudo \in SudoFiles
  BY <1>1, SystemAssumption DEF System
<1> QED  BY <1>1, <1>2 DEF SudoInv, SudoTyped, SudoDone, Later, Late, SudoFiles

LEMMA SudoScriptStep ==
    ASSUME SudoInv, SudoNext
    PROVE  SudoInv'
<1>1. sys' = sys /\ sys \in Systems /\ faults \in Nat /\ sudo \in SudoFiles
  BY DEF SudoNext, MoveWaagent, ConfMode, ConfOwner, Targetpw, BinMode, BinOwner, SudoEnd, Fix,
         Goto, run, SudoInv, SudoTyped
<1>2. CASE MoveWaagent
  <2> DEFINE new == [sudo EXCEPT !.twice = FALSE]
  <2>1. pc = "sudoDup" /\ pc' = "sudoConfMode" /\ Apply(sudo.twice, new)
    BY <1>2 DEF MoveWaagent, Fix, Goto
  <2>2. new \in SudoFiles /\ new.owner = sudo.owner /\ new.mode \in {sudo.mode, "right"}
    BY <1>1 DEF SudoFiles
  <2>3. SudoTyped'
    <3>1. faults' \in Nat /\ sudo' \in {sudo, new}
      BY <1>1, <2>1, AppliedTyped
    <3> QED  BY <1>1, <2>2, <3>1 DEF SudoInv, SudoTyped
  <2>4. ASSUME faults' = 0
        PROVE  SudoDone'
    <3>1. faults = 0 /\ (sudo.twice => sudo' = new) /\ (~(sudo.twice) => sudo' = sudo)
      BY <1>1, <2>1, <2>4, Applied
    <3> HIDE DEF new
    <3>2. new.twice = FALSE
      BY <1>1 DEF new, SudoFiles
    <3> QED  BY <1>1, <2>1, <3>1, <3>2 DEF SudoInv, SudoDone, SudoFiles, Later, Late
  <2> QED  BY <2>3, <2>4 DEF SudoInv, SudoDone
<1>3. CASE ConfMode
  <2> DEFINE new == [sudo EXCEPT !.conf = "right"]
  <2>1. pc = "sudoConfMode" /\ pc' = "sudoConfOwner" /\ Apply(sudo.conf = "wrong", new)
    BY <1>3 DEF ConfMode, Fix, Goto
  <2>2. new \in SudoFiles /\ new.owner = sudo.owner /\ new.mode \in {sudo.mode, "right"}
    BY <1>1 DEF SudoFiles
  <2>3. SudoTyped'
    <3>1. faults' \in Nat /\ sudo' \in {sudo, new}
      BY <1>1, <2>1, AppliedTyped
    <3> QED  BY <1>1, <2>2, <3>1 DEF SudoInv, SudoTyped
  <2>4. ASSUME faults' = 0
        PROVE  SudoDone'
    <3>1. faults = 0 /\ (sudo.conf = "wrong" => sudo' = new) /\ (~(sudo.conf = "wrong") => sudo' = sudo)
      BY <1>1, <2>1, <2>4, Applied
    <3> HIDE DEF new
    <3>2. new.conf = "right" /\ new.twice = sudo.twice
      BY <1>1 DEF new, SudoFiles
    <3> QED  BY <1>1, <2>1, <3>1, <3>2 DEF SudoInv, SudoDone, SudoFiles, Later, Late
  <2> QED  BY <2>3, <2>4 DEF SudoInv, SudoDone
<1>4. CASE ConfOwner
  <2> DEFINE new == [sudo EXCEPT !.confOwner = "root"]
  <2>1. pc = "sudoConfOwner" /\ pc' = "sudoTargetpw" /\ Apply(sudo.confOwner = "other", new)
    BY <1>4 DEF ConfOwner, Fix, Goto
  <2>2. new \in SudoFiles /\ new.owner = sudo.owner /\ new.mode \in {sudo.mode, "right"}
    BY <1>1 DEF SudoFiles
  <2>3. SudoTyped'
    <3>1. faults' \in Nat /\ sudo' \in {sudo, new}
      BY <1>1, <2>1, AppliedTyped
    <3> QED  BY <1>1, <2>2, <3>1 DEF SudoInv, SudoTyped
  <2>4. ASSUME faults' = 0
        PROVE  SudoDone'
    <3>1. faults = 0 /\ (sudo.confOwner = "other" => sudo' = new) /\ (~(sudo.confOwner = "other") => sudo' = sudo)
      BY <1>1, <2>1, <2>4, Applied
    <3> HIDE DEF new
    <3>2. new.confOwner = "root" /\ new.twice = sudo.twice /\ new.conf = sudo.conf
      BY <1>1 DEF new, SudoFiles
    <3> QED  BY <1>1, <2>1, <3>1, <3>2 DEF SudoInv, SudoDone, SudoFiles, Later, Late
  <2> QED  BY <2>3, <2>4 DEF SudoInv, SudoDone
<1>5. CASE Targetpw
  <2> DEFINE new == [sudo EXCEPT !.targetpw = FALSE]
  <2>1. pc = "sudoTargetpw" /\ pc' = "sudoMode" /\ Apply(sudo.targetpw, new)
    BY <1>5 DEF Targetpw, Fix, Goto
  <2>2. new \in SudoFiles /\ new.owner = sudo.owner /\ new.mode \in {sudo.mode, "right"}
    BY <1>1 DEF SudoFiles
  <2>3. SudoTyped'
    <3>1. faults' \in Nat /\ sudo' \in {sudo, new}
      BY <1>1, <2>1, AppliedTyped
    <3> QED  BY <1>1, <2>2, <3>1 DEF SudoInv, SudoTyped
  <2>4. ASSUME faults' = 0
        PROVE  SudoDone'
    <3>1. faults = 0 /\ (sudo.targetpw => sudo' = new) /\ (~(sudo.targetpw) => sudo' = sudo)
      BY <1>1, <2>1, <2>4, Applied
    <3> HIDE DEF new
    <3>2. new.targetpw = FALSE /\ new.twice = sudo.twice /\ new.conf = sudo.conf /\ new.confOwner = sudo.confOwner
      BY <1>1 DEF new, SudoFiles
    <3> QED  BY <1>1, <2>1, <3>1, <3>2 DEF SudoInv, SudoDone, SudoFiles, Later, Late
  <2> QED  BY <2>3, <2>4 DEF SudoInv, SudoDone
<1>6. CASE BinMode
  <2> DEFINE new == [sudo EXCEPT !.mode = "right"]
  <2> DEFINE wrong == Which /\ (Linked \/ sudo.mode # "right")
  <2>1. pc = "sudoMode" /\ pc' = "sudoOwner" /\ Apply(wrong, new)
    BY <1>6 DEF BinMode, Fix, Goto
  <2>2. new \in SudoFiles /\ new.owner = sudo.owner /\ new.mode \in {sudo.mode, "right"}
    BY <1>1 DEF SudoFiles
  <2>3. SudoTyped'
    <3> HIDE DEF wrong
    <3>1. faults' \in Nat /\ sudo' \in {sudo, new}
      BY <1>1, <2>1, AppliedTyped
    <3> QED  BY <1>1, <2>2, <3>1 DEF SudoInv, SudoTyped
  <2>4. ASSUME faults' = 0
        PROVE  SudoDone'
    <3> HIDE DEF wrong
    <3>1. faults = 0 /\ (wrong => sudo' = new) /\ (~wrong => sudo' = sudo)
      BY <1>1, <2>1, <2>4, Applied
    <3> HIDE DEF new
    <3>2. /\ new.mode = "right" /\ new.twice = sudo.twice /\ new.conf = sudo.conf
          /\ new.confOwner = sudo.confOwner /\ new.targetpw = sudo.targetpw
      BY <1>1 DEF new, SudoFiles
    <3>3. sys.sudo.mode # "closed" => sudo'.mode = "right"
      BY <3>1, <3>2 DEF wrong, Which, SudoInv, SudoTyped
    <3> QED  BY <1>1, <2>1, <3>1, <3>2, <3>3 DEF SudoInv, SudoDone, Later, Late
  <2> QED  BY <2>3, <2>4 DEF SudoInv, SudoDone
<1>7. CASE BinOwner
  <2> DEFINE new   == Chowned(sudo)
  <2> DEFINE wrong == Which /\ Shown = "other"
  <2>1. pc = "sudoOwner" /\ pc' = "sudoEnd" /\ Apply(wrong, new)
    BY <1>7 DEF BinOwner, Fix, Goto
  <2>2. /\ new \in SudoFiles /\ new.owner = "root" /\ new.mode \in {sudo.mode, "bare"}
        /\ new.link = sudo.link /\ new.twice = sudo.twice /\ new.targetpw = sudo.targetpw
        /\ new.conf = sudo.conf /\ new.confOwner = sudo.confOwner
    BY <1>1 DEF Chowned, SudoFiles
  <2> HIDE DEF new
  <2>3. SudoTyped'
    <3> HIDE DEF wrong
    <3>1. faults' \in Nat /\ sudo' \in {sudo, new}
      BY <1>1, <2>1, AppliedTyped
    <3> QED  BY <1>1, <2>2, <3>1 DEF SudoInv, SudoTyped
  <2>4. ASSUME faults' = 0
        PROVE  SudoDone'
    <3>1. faults = 0 /\ (wrong => sudo' = new) /\ (~wrong => sudo' = sudo)
      <4> HIDE DEF wrong
      <4> QED  BY <1>1, <2>1, <2>4, Applied
    <3>2. sudo.owner \in {"root", "other"} /\ sudo.link \in {"none", "root", "other"}
      BY <1>1 DEF SudoFiles
    <3>3. /\ ModeStays => ~wrong
          /\ sys.sudo.mode # "closed" /\ ~wrong /\ sudo.link # "root" => sudo.owner = "root"
      BY <3>2 DEF Shown, Which, Linked, ModeStays, SudoInv, SudoTyped
    <3>4. sudo'.link = sudo.link
      BY <3>1, <2>2
    <3> HIDE DEF wrong
    <3>5. ModeStays' => ModeStays /\ sudo' = sudo
      BY <1>1, <3>1, <3>3, <3>4 DEF ModeStays
    <3>6. sys.sudo.mode # "closed" /\ sudo.link # "root" => sudo'.owner = "root"
      BY <3>1, <3>3, <2>2
    <3> QED  BY <1>1, <2>1, <2>2, <3>1, <3>4, <3>5, <3>6 DEF SudoInv, SudoDone, Later, Late
  <2> QED  BY <2>3, <2>4 DEF SudoInv, SudoDone
<1>8. CASE SudoEnd
  BY <1>8, NotSudo DEF SudoEnd, Fix, Goto, run, SudoSteps, Later, Late, SudoInv, SudoTyped
<1> QED  BY <1>2, <1>3, <1>4, <1>5, <1>6, <1>7, <1>8 DEF SudoNext

LEMMA FstabMoves ==
    ASSUME FstabNext
    PROVE  UNCHANGED <<run, todo, boot, aud, sudo>> /\ pc \in FstabSteps \cup {"fstabSave"}
           /\ pc' \in FstabSteps \cup {"next"} /\ FaultsGrow /\ (~InstallGawk => UNCHANGED faults)
<1>1. CASE InstallGawk
  <2>1. PICK ok \in BOOLEAN : Outcome(sys.distro \in {"ubuntu", "debian"}, ok)
    BY <1>1 DEF InstallGawk
  <2>2. FaultsGrow
    BY <2>1, OutcomeGrows
  <2> QED  BY <1>1, <2>2 DEF InstallGawk, Goto, FstabSteps
<1>2. CASE WriteVolume
  BY <1>2, VolumeSteps DEF WriteVolume, Write, Goto, FaultsGrow
<1>3. CASE Save \/ WriteRoot \/ WriteBoot \/ WriteEfi \/ WriteResource \/ WriteBek
           \/ MoveResolv("fstabPre", "fstabWrite") \/ WriteResolv("fstabWrite", "fstabGawk")
           \/ RestoreResolv("fstabAfter", "fstabRoot")
  BY <1>3 DEF Save, WriteRoot, WriteBoot, WriteEfi, WriteResource, WriteBek, Write, MoveResolv,
              WriteResolv, RestoreResolv, Goto, FstabSteps, FaultsGrow
<1> QED  BY <1>1, <1>2, <1>3 DEF FstabNext

LEMMA ActionMoves ==
    ASSUME LinesInv, NextAction
    PROVE  /\ UNCHANGED <<run, net, tab, aud, sudo, faults>> /\ pc = "next"
           /\ \/ pc' = "idle" /\ todo' = todo
              \/ /\ todo # <<>> /\ todo' = Tail(todo) /\ Head(todo) \in Names
                 /\ pc' = First[Head(todo)]
BY DEF NextAction, LinesInv, FreshCopy

LEMMA FirstSteps == \A name \in Names :
    First[name] \in {"fstabSave", "grubPre", "efiPre", "audConf", "sudoDup", "kerLine",
                    "serLine", "iniPre"}
    /\ (First[name] = "grubPre" => name = "grubfix")
    /\ (First[name] = "efiPre" => name = "efifix")
BY DEF First, Names

LEMMA SudoStep == LinesInv /\ SudoInv /\ [Next]_vars => SudoInv'
<1> SUFFICES ASSUME LinesInv, SudoInv, [Next]_vars PROVE SudoInv'
  OBVIOUS
<1> USE DEF run, SudoSteps, Later, Late
<1>1. faults \in Nat
  BY DEF SudoInv, SudoTyped
<1>2. CASE UNCHANGED vars \/ Rest
  BY <1>2 DEF vars, Rest, SudoInv, SudoTyped, SudoDone, ModeStays
<1>3. CASE Start
  BY <1>1, <1>3, NotSudo DEF Start
<1>4. CASE Crash
  BY <1>1, <1>4, NotSudo DEF Crash
<1>5. CASE NextAction
  <2>1. pc' \notin SudoSteps \ {"sudoDup"}
    BY <1>5, ActionMoves, FirstSteps
  <2> QED  BY <1>1, <1>5, <2>1, ActionMoves, NotSudo
<1>6. CASE FstabNext
  BY <1>1, <1>6, FstabMoves, NotSudo DEF FstabSteps, FaultsGrow
<1>7. CASE GrubNext
  BY <1>1, <1>7, GrubMoves, NotSudo DEF FaultsGrow, GrubSteps
<1>8. CASE EfiNext
  BY <1>1, <1>8, EfiMoves, NotSudo DEF FaultsGrow, EfiSteps
<1>9. CASE AuditNext
  BY <1>1, <1>9, AuditMoves, NotSudo DEF FaultsGrow
<1>10. CASE ConfigNext
  BY <1>1, <1>10, ConfigMoves, NotSudo DEF FaultsGrow, ConfigSteps
<1> QED  BY <1>2, <1>3, <1>4, <1>5, <1>6, <1>7, <1>8, <1>9, <1>10, SudoScriptStep DEF Next, Step

\* The sudo action leaves what it promises at its end, whatever earlier runs were killed
\* at: the files of sudoers in any case, the owner of a binary that which finds and whose
\* link, if it is one, is not root's, its mode where chown need not be called.
THEOREM SudoIsReset == Spec => []SudoReset
<1>1. SudoInv => SudoReset
  BY DEF SudoInv, SudoDone, SudoReset, ModeStays, Later, Late
<1> QED  BY <1>1, LinesInit, LinesStep, SudoInit, SudoStep, PTL DEF Spec
------------------------------------------------------------------------------
(* resolv.conf *)

\* A run is asked for the action.
Promised(name) == \E l \in sys.lists : \E i \in DOMAIN l : l[i] = name
OnlyAsked ==
    /\ pc \in EfiSteps => Promised("efifix")
    /\ pc \in GrubSteps => Promised("grubfix")
    /\ pc # "idle" => \A n : Asked(n) => Promised(n)

\* Where the system's own configuration is; grubfix may come without moving it.
OwnKept ==
    CASE pc \in {"fstabWrite", "grubWrite", "fstabGawk", "fstabAfter"} -> org = "own"
      [] pc \in {"grubInstall", "grubConfig", "grubAfter"} -> org = "own" \/ (org = "none" /\ resolv = "own")
      [] OTHER                              -> org = "none" /\ resolv = "own"

ResolvInv ==
    /\ faults \in Nat /\ OnlyAsked
    /\ ResolvSafe /\ "resolv" \notin torn => OwnKept

LEMMA SafeMeans ==
    ASSUME ResolvSafe
    PROVE  ~Promised("efifix") /\ (Promised("grubfix") => ~GrubChecked \/ (sys.bios /\ faults = 0))
BY DEF ResolvSafe, Promised

\* Fewer lists are safe after a fault.
LEMMA SafeBefore ==
    ASSUME UNCHANGED sys, faults' = 0 => faults = 0, ResolvSafe'
    PROVE  ResolvSafe
BY DEF ResolvSafe, GrubChecked

\* What has no part in resolv.conf.
LEMMA NotResolv ==
    ASSUME ResolvInv, UNCHANGED <<run, todo, net>>, pc # "idle",
           faults' \in Nat, faults' = 0 => faults = 0,
           pc' \notin GrubSteps \cup EfiSteps \cup {"fstabWrite", "fstabGawk", "fstabAfter"},
           pc \notin {"fstabWrite", "fstabGawk", "fstabAfter"} \cup GrubSteps
    PROVE  ResolvInv'
<1>1. UNCHANGED <<sys, torn, todo, org, resolv>>
  BY DEF run, net
<1>2. OnlyAsked'
  BY <1>1 DEF ResolvInv, OnlyAsked, Promised, Asked
<1>3. ASSUME ResolvSafe', "resolv" \notin torn' PROVE OwnKept'
  BY <1>1, <1>3, SafeBefore DEF ResolvInv, OwnKept, GrubSteps
<1> QED  BY <1>2, <1>3 DEF ResolvInv

LEMMA ResolvInit == Init => ResolvInv
<1> SUFFICES ASSUME Init PROVE ResolvInv
  OBVIOUS
<1>1. pc = "idle" /\ org = "none" /\ resolv = "own" /\ faults = 0
  BY DEF Init
<1> QED  BY <1>1 DEF ResolvInv, OwnKept, OnlyAsked, GrubSteps, EfiSteps

LEMMA ResolvStart ==
    ASSUME ResolvInv, Start
    PROVE  ResolvInv'
<1>1. pc = "idle" /\ pc' = "next" /\ todo' \in sys.lists
      /\ UNCHANGED <<sys, torn, org, resolv, faults>>
  BY DEF Start, net
<1>2. OnlyAsked'
  BY <1>1 DEF OnlyAsked, Promised, Asked, GrubSteps, EfiSteps
<1>3. ASSUME ResolvSafe', "resolv" \notin torn' PROVE OwnKept'
  BY <1>1, <1>3, SafeBefore DEF ResolvInv, OwnKept
<1> QED  BY <1>1, <1>2, <1>3 DEF ResolvInv

LEMMA AskedTail ==
    ASSUME LinesInv, todo # <<>>, todo' = Tail(todo)
    PROVE  Asked(Head(todo)) /\ \A n : Asked(n)' => Asked(n)
<1>1. todo \in Seq(Names)
  BY DEF LinesInv, FreshCopy
<1>2. 1 \in DOMAIN todo /\ todo[1] = Head(todo)
  BY <1>1
<1>3. \A i \in DOMAIN Tail(todo) : i + 1 \in DOMAIN todo /\ Tail(todo)[i] = todo[i + 1]
  BY <1>1
<1> QED  BY <1>2, <1>3 DEF Asked

LEMMA ResolvAction ==
    ASSUME LinesInv, ResolvInv, NextAction
    PROVE  ResolvInv'
<1>1. UNCHANGED <<sys, torn, org, resolv, faults>> /\ pc = "next"
  BY ActionMoves DEF run, net
<1>2. OnlyAsked' /\ pc' \notin {"fstabWrite", "fstabGawk", "fstabAfter", "grubWrite", "grubInstall",
                                "grubConfig", "grubAfter"}
  <2>1. CASE pc' = "idle" /\ todo' = todo
    BY <2>1 DEF OnlyAsked, GrubSteps, EfiSteps
  <2>2. CASE todo # <<>> /\ todo' = Tail(todo) /\ Head(todo) \in Names /\ pc' = First[Head(todo)]
    <3>1. Asked(Head(todo)) /\ \A n : Asked(n)' => Asked(n)
      BY <2>2, AskedTail
    <3>2. pc' \in {"fstabSave", "grubPre", "efiPre", "audConf", "sudoDup", "kerLine",
                   "serLine", "iniPre"}
          /\ (pc' = "grubPre" => Asked("grubfix")) /\ (pc' = "efiPre" => Asked("efifix"))
      BY <2>2, <3>1, FirstSteps
    <3>3. \A n : Asked(n) => Promised(n)
      BY <1>1 DEF ResolvInv, OnlyAsked
    <3>4. \A n : Promised(n) => Promised(n)'
      BY <1>1 DEF Promised
    <3> QED  BY <3>1, <3>2, <3>3, <3>4 DEF OnlyAsked, GrubSteps, EfiSteps
  <2> QED  BY <2>1, <2>2, ActionMoves
<1>3. ASSUME ResolvSafe', "resolv" \notin torn' PROVE OwnKept'
  BY <1>1, <1>2, <1>3, SafeBefore DEF ResolvInv, OwnKept
<1> QED  BY <1>1, <1>2, <1>3 DEF ResolvInv

LEMMA ResolvFstab ==
    ASSUME ResolvInv, FstabNext
    PROVE  ResolvInv'
<1>1. /\ UNCHANGED <<sys, torn, todo>> /\ faults' \in Nat /\ (faults' = 0 => faults = 0)
      /\ pc \in FstabSteps \cup {"fstabSave"} /\ pc' \in FstabSteps \cup {"next"}
  BY FstabMoves DEF run, FaultsGrow, ResolvInv
<1>2. OnlyAsked'
  BY <1>1 DEF ResolvInv, OnlyAsked, Promised, Asked, FstabSteps, GrubSteps, EfiSteps
<1>3. ASSUME ResolvSafe', "resolv" \notin torn', OwnKept PROVE OwnKept'
  <2>1. CASE Save
    BY <1>3, <2>1 DEF Save, Goto, OwnKept, net
  <2>2. CASE MoveResolv("fstabPre", "fstabWrite")
    BY <1>3, <2>2 DEF MoveResolv, Goto, OwnKept
  <2>3. CASE WriteResolv("fstabWrite", "fstabGawk")
    BY <1>3, <2>3 DEF WriteResolv, Goto, OwnKept
  <2>4. CASE InstallGawk
    BY <1>3, <2>4 DEF InstallGawk, Goto, OwnKept, net
  <2>5. CASE RestoreResolv("fstabAfter", "fstabRoot")
    BY <1>3, <2>5 DEF RestoreResolv, Goto, OwnKept
  <2>6. CASE WriteRoot \/ WriteBoot \/ WriteEfi \/ WriteResource \/ WriteBek
    BY <1>3, <2>6 DEF WriteRoot, WriteBoot, WriteEfi, WriteResource, WriteBek, Write, Goto, OwnKept,
                      net
  <2>7. CASE WriteVolume
    BY <1>3, <2>7 DEF WriteVolume, VolumeOf, AfterIt, Write, Goto, OwnKept, net
  <2> QED  BY <2>1, <2>2, <2>3, <2>4, <2>5, <2>6, <2>7 DEF FstabNext
<1> QED  BY <1>1, <1>2, <1>3, SafeBefore DEF ResolvInv

LEMMA ResolvGrub ==
    ASSUME ResolvInv, GrubNext
    PROVE  ResolvInv'
<1>1. /\ UNCHANGED <<sys, torn, todo>> /\ faults' \in Nat /\ (faults' = 0 => faults = 0)
      /\ pc \in GrubSteps /\ pc' \in GrubSteps \cup {"next"} /\ faults \in Nat
  BY GrubMoves DEF run, FaultsGrow, ResolvInv
<1>2. Promised("grubfix") /\ OnlyAsked'
  BY <1>1 DEF ResolvInv, OnlyAsked, Promised, Asked, GrubSteps, EfiSteps
<1>3. ASSUME ResolvSafe', "resolv" \notin torn', OwnKept PROVE OwnKept'
  <2>1. CASE GrubRefuse \/ GrubNoPre
    BY <1>3, <2>1 DEF GrubRefuse, GrubNoPre, Same, Goto, OwnKept, net
  <2>2. CASE GrubMove
    BY <1>3, <2>2 DEF GrubMove, MoveResolv, Goto, OwnKept
  <2>3. CASE WriteResolv("grubWrite", "grubInstall")
    BY <1>3, <2>3 DEF WriteResolv, Goto, OwnKept
  <2>4. CASE GrubInstall
    <3>1. PICK ok \in BOOLEAN :
             /\ Outcome(GrubFits, ok)
             /\ Goto("grubInstall", IF ok \/ ~GrubChecked THEN "grubConfig" ELSE "next")
      BY <2>4 DEF GrubInstall
    <3>2. GrubChecked => sys.bios /\ faults' = 0
      <4>1. Promised("grubfix")'
        BY <1>1, <1>2 DEF Promised
      <4>2. ~GrubChecked' \/ (sys'.bios /\ faults' = 0)
        BY <1>3, <4>1, SafeMeans DEF ResolvSafe, Promised
      <4> QED  BY <4>2, <1>1 DEF GrubChecked
    <3>3. ok \/ ~GrubChecked
      BY <1>1, <3>1, <3>2, NoFault DEF GrubFits, GrubChecked
    <3>4. UNCHANGED net
      BY <2>4 DEF GrubInstall
    <3> QED  BY <1>3, <3>1, <3>3, <3>4 DEF Goto, OwnKept, net
  <2>5. CASE RestoreResolv("grubAfter", "next")
    <3>1. org = "own" \/ (org = "none" /\ resolv = "own")
      BY <1>3, <2>5 DEF RestoreResolv, Goto, OwnKept
    <3>2. /\ pc' = "next"
          /\ IF org = "none" THEN UNCHANGED <<resolv, org>> ELSE resolv' = org /\ org' = "none"
      BY <2>5 DEF RestoreResolv, Goto, net
    <3>3. org' = "none" /\ resolv' = "own"
      BY <3>1, <3>2
    <3> QED  BY <3>2, <3>3 DEF OwnKept
  <2>6. CASE GrubConfig
    BY <1>3, <2>6 DEF GrubConfig, Mkconfig, Goto, OwnKept, net
  <2> QED  BY <2>1, <2>2, <2>3, <2>4, <2>5, <2>6 DEF GrubNext
<1> QED  BY <1>1, <1>2, <1>3, SafeBefore DEF ResolvInv

\* efifix is not reached, or there is nothing to show.
LEMMA ResolvEfi ==
    ASSUME ResolvInv, EfiNext
    PROVE  ResolvInv'
<1>1. /\ UNCHANGED <<sys, torn, todo>> /\ faults' \in Nat /\ (faults' = 0 => faults = 0)
      /\ pc \in EfiSteps /\ pc' \in EfiSteps \cup {"next"}
  BY EfiMoves DEF run, FaultsGrow, ResolvInv
<1>2. Promised("efifix") /\ OnlyAsked'
  BY <1>1 DEF ResolvInv, OnlyAsked, Promised, Asked, GrubSteps, EfiSteps
<1>3. ~ResolvSafe'
  BY <1>1, <1>2, SafeBefore, SafeMeans
<1> QED  BY <1>1, <1>2, <1>3 DEF ResolvInv

LEMMA ResolvConfig ==
    ASSUME ResolvInv, ConfigNext
    PROVE  ResolvInv'
<1>1. faults \in Nat
  BY DEF ResolvInv
<1> QED  BY <1>1, ConfigMoves, NotResolv DEF ConfigSteps, GrubSteps, EfiSteps, FaultsGrow

LEMMA ResolvAudit ==
    ASSUME ResolvInv, AuditNext
    PROVE  ResolvInv'
<1>1. faults \in Nat
  BY DEF ResolvInv
<1> QED  BY <1>1, AuditMoves, NotResolv DEF GrubSteps, EfiSteps, FaultsGrow

LEMMA SudoMoves ==
    ASSUME SudoNext
    PROVE  /\ pc \in SudoSteps /\ pc' \in SudoSteps \cup {"next"}
           /\ UNCHANGED <<run, todo, net, tab, boot, aud>> /\ FaultsGrow
<1>1. /\ UNCHANGED <<run, todo, net, tab, boot, aud>> /\ pc \in SudoSteps
      /\ pc' \in SudoSteps \cup {"next"}
  BY DEF SudoNext, MoveWaagent, ConfMode, ConfOwner, Targetpw, BinMode, BinOwner, SudoEnd, Fix,
         Goto, SudoSteps, Later, Late
<1>2. UNCHANGED faults \/ \E wrong, new : Apply(wrong, new)
  BY DEF SudoNext, MoveWaagent, ConfMode, ConfOwner, Targetpw, BinMode, BinOwner, SudoEnd
<1>3. FaultsGrow
  BY <1>2, AppliedTyped, Applied DEF FaultsGrow
<1> QED  BY <1>1, <1>3

LEMMA ResolvSudo ==
    ASSUME ResolvInv, SudoNext
    PROVE  ResolvInv'
<1>1. faults \in Nat
  BY DEF ResolvInv
<1> QED  BY <1>1, SudoMoves, NotResolv DEF GrubSteps, EfiSteps, SudoSteps, Later, Late, FaultsGrow

\* What a kill has hit.
LEMMA CrashTears ==
    ASSUME Crash
    PROVE  /\ "fstab" \in torn' <=> "fstab" \in torn \/ pc \in FstabSteps
           /\ "initrd" \in torn' <=> "initrd" \in torn \/ pc = "iniMake"
           /\ "efifix" \in torn' <=> "efifix" \in torn \/ pc \in {"efiInstall", "efiCopy"}
           /\ "resolv" \in torn' <=> "resolv" \in torn \/ pc \in WeakSteps.resolv
<1>1. /\ DOMAIN WeakSteps = {"fstab", "initrd", "efifix", "resolv"}
      /\ WeakSteps["fstab"] = FstabSteps /\ WeakSteps["initrd"] = {"iniMake"}
      /\ WeakSteps["efifix"] = {"efiInstall", "efiCopy"}
      /\ WeakSteps["resolv"] = WeakSteps.resolv
  BY DEF WeakSteps
<1>2. torn' = torn \cup {s \in DOMAIN WeakSteps : pc \in WeakSteps[s]}
  BY DEF Crash
<1> QED  BY <1>1, <1>2

LEMMA ResolvCrash ==
    ASSUME ResolvInv, Crash
    PROVE  ResolvInv'
<1>1. pc' = "idle" /\ UNCHANGED <<sys, org, resolv, faults>>
  BY DEF Crash, net
<1>2. OnlyAsked'
  BY <1>1 DEF OnlyAsked, GrubSteps, EfiSteps
<1>3. ASSUME ResolvSafe', "resolv" \notin torn' PROVE OwnKept'
  <2>1. ResolvSafe /\ "resolv" \notin torn /\ pc \notin WeakSteps.resolv
    BY <1>1, <1>3, SafeBefore, CrashTears
  <2> QED  BY <1>1, <2>1 DEF ResolvInv, OwnKept, WeakSteps
<1> QED  BY <1>1, <1>2, <1>3 DEF ResolvInv

LEMMA ResolvStep == LinesInv /\ ResolvInv /\ [Next]_vars => ResolvInv'
<1> SUFFICES ASSUME LinesInv, ResolvInv, [Next]_vars PROVE ResolvInv'
  OBVIOUS
<1>1. CASE UNCHANGED vars \/ Rest
  BY <1>1 DEF vars, Rest, run, net, ResolvInv, ResolvSafe, GrubChecked, OwnKept, OnlyAsked, Promised,
              Asked
<1> QED  BY <1>1, ResolvCrash, ResolvStart, ResolvAction, ResolvFstab, ResolvGrub, ResolvEfi,
            ResolvAudit, ResolvConfig, ResolvSudo DEF Next, Step

\* Between scripts that put it back, the system's own resolv.conf is in its place, whatever
\* fails and whatever is killed anywhere but between the two mv of such a script.
THEOREM ResolvIsRestored == Spec => []ResolvRestored
<1>1. ResolvInv => ResolvRestored
  BY DEF ResolvInv, OwnKept, ResolvRestored
<1> QED  BY <1>1, LinesInit, LinesStep, ResolvInit, ResolvStep, PTL DEF Spec

------------------------------------------------------------------------------
(* The files of kernel, serialconsole and initrd                            *)

Picks     == {"none", "comment", "saved", "previous"}
Default   == [pick : Picks, serial : BOOLEAN, file : BOOLEAN]
GrubCfg   == [pick : Picks \cup {"redirect", "absent"}, serial : BOOLEAN]
GrubTyped ==
    /\ sys \in System /\ (sys.grub.file \/ sys.grub.pick = "none")
    /\ faults \in Nat
    /\ efi \in [uuid : Nat, mounted : BOOLEAN]
    /\ defaults \in Default /\ rpmsave \in Default
    /\ cfgs \in [main : GrubCfg, efi : GrubCfg]
    /\ initrd \in BOOLEAN
    /\ defaults.file \/ (defaults.pick = "none" /\ (sys.distro = "ubuntu" \/ ~defaults.serial))
    /\ rpmsave.file \/ (rpmsave.pick = "none" /\ ~rpmsave.serial)

\* There is an initrd since the action has made one; what takes it away makes it again.
ImageWanted == DebianLike => sys.image.known
ImageSafe   == DebianLike => sys.image.known /\ faults = 0 /\ "initrd" \notin torn
ImageKept ==
    ImageSafe =>
        /\ (DebianLike => pc # "iniMake") /\ "initrd" \in done => initrd
        /\ pc \in {"iniMain", "iniEfi"} /\ faults = 0 => initrd

\* Outside efifix the EFI partition of a run is mounted, so that the scripts reach it.
Reached ==
    /\ ~sys.efi => cfgs.efi = NoCfg /\ ~efi.mounted
    /\ faults = 0 /\ sys.efi /\ pc \notin {"idle", "efiMkfs", "efiMount"} => efi.mounted
    /\ pc \in {"efiRemove", "efiInstall", "efiCopy"} => sys.distro = "suse"

\* The defaults that count: while the package is made anew, those put aside.
Away  == {"efiInstall", "efiCopy"}
Aside == IF pc \in Away THEN rpmsave ELSE defaults

\* The full grub.cfg of an EFI partition is one that kernel and serialconsole make.
InitrdSteps == {"iniPre", "iniMake", "iniMain", "iniEfi"}
InitrdDue   == pc \in InitrdSteps \/ (pc # "idle" /\ Asked("initrd"))
Short       == cfgs.efi \in {Redirect, NoCfg}
OneFull ==
    /\ sys.distro # "redhat" => Short
    /\ sys.distro = "ubuntu" => ~InitrdDue
    /\ pc \in {"kerEfi", "serEfi"} => sys.distro = "redhat"

EfiPrevious == Short \/ cfgs.efi.pick = "previous"
PreviousKept ==
    /\ defaults.pick # "comment" /\ rpmsave.pick # "comment"
    /\ pc = "kerPick" => defaults.pick # "none"
    /\ pc \in {"kerEfi", "kerMain"} => defaults.pick = "previous"
    /\ pc = "kerMain" /\ faults = 0 => EfiPrevious
    /\ "kernel" \in done => Aside.pick = "previous" /\ cfgs.main.pick = "previous" /\ EfiPrevious

EfiSerial == Short \/ cfgs.efi.serial
SerialKept ==
    /\ pc \in {"serEfi", "serMain"} => defaults.serial
    /\ pc = "serMain" /\ faults = 0 => EfiSerial
    /\ "serialconsole" \in done => Aside.serial /\ cfgs.main.serial /\ EfiSerial

ConfigInv ==
    /\ GrubTyped /\ ImageKept /\ Reached
    /\ Lasting => OneFull /\ PreviousKept /\ SerialKept

\* What once is not to last is not later.
LEMMA LastingBefore ==
    ASSUME UNCHANGED sys, FaultsGrow, torn \subseteq torn', faults \in Nat
    PROVE  (Lasting' => Lasting) /\ (ImageSafe' => ImageSafe)
<1>1. OneConfig' => OneConfig
  BY DEF OneConfig
<1> QED  BY <1>1 DEF Lasting, ImageSafe, FaultsGrow, DebianLike

LEMMA LastingMeans ==
    ASSUME ConfigInv, UNCHANGED sys, FaultsGrow, torn \subseteq torn'
    PROVE  /\ Lasting' => Lasting /\ OneFull /\ PreviousKept /\ SerialKept
           /\ ImageSafe' => ImageSafe
BY LastingBefore DEF ConfigInv, GrubTyped

LEMMA ConfigInit == Init => ConfigInv
<1> SUFFICES ASSUME Init PROVE ConfigInv
  OBVIOUS
<1>1. /\ sys \in System /\ (sys.grub.file \/ sys.grub.pick = "none")
      /\ pc = "idle" /\ faults = 0 /\ done = {}
  BY SystemAssumption DEF Init
<1>2. sys.grub \in GrubFiles /\ sys.image.there \in BOOLEAN /\ sys.efi \in BOOLEAN
  BY <1>1 DEF System
<1>3. defaults = [pick |-> sys.grub.pick, serial |-> FALSE, file |-> sys.grub.file]
  BY DEF Init
<1>4. Settings = [pick |-> sys.grub.pick, serial |-> FALSE]
  BY <1>3 DEF Settings
<1>5. /\ cfgs = [main |-> Settings,
                 efi  |-> IF ~sys.efi THEN NoCfg ELSE IF sys.grub.stub THEN Redirect ELSE Settings]
      /\ efi = [uuid |-> EfiUuid, mounted |-> FALSE] /\ initrd = sys.image.there
      /\ rpmsave = NoFile
  BY DEF Init
<1>6. GrubTyped
  BY <1>1, <1>2, <1>3, <1>4, <1>5 DEF GrubTyped, GrubFiles, GrubCfg, Default, Picks, Redirect, NoCfg, NoFile,
                                          EfiUuid
<1>7. ImageKept /\ Reached
  BY <1>1, <1>2, <1>5 DEF ImageKept, Reached
<1>8. ASSUME Lasting PROVE OneFull /\ PreviousKept /\ SerialKept
  BY <1>1, <1>2, <1>3, <1>4, <1>5, <1>8
     DEF Lasting, OneConfig, OneFull, NoFile, InitrdDue, InitrdSteps, Short, PreviousKept, SerialKept, GrubFiles
<1> QED  BY <1>6, <1>7, <1>8 DEF ConfigInv

\* The steps of kernel, serialconsole and initrd at which something has just been done, and
\* of efifix at which the defaults are put aside.
Midway == Away \cup {"efiRemove", "iniMake",
           "kerPick", "kerEfi", "kerMain", "serEfi", "serMain", "iniMain", "iniEfi"}

\* What has no part in this: it may begin one of the three scripts, and no more.
LEMMA NotConfig ==
    ASSUME ConfigInv, UNCHANGED <<sys, boot>>, FaultsGrow, torn \subseteq torn',
           pc' \notin Midway, pc \notin Away, InitrdDue' => InitrdDue,
           pc = "iniMake" => ~ImageSafe' \/ ~DebianLike,
           pc' # "idle" => pc \notin {"idle", "efiMkfs", "efiMount"}
    PROVE  ConfigInv'
<1>1. UNCHANGED <<sys, efi, defaults, rpmsave, cfgs, initrd, done>>
  BY DEF boot, grub
<1>2. /\ Lasting' => OneFull /\ PreviousKept /\ SerialKept
      /\ ImageSafe' => ImageSafe
  BY LastingMeans
<1>3. GrubTyped'
  BY <1>1 DEF ConfigInv, GrubTyped, FaultsGrow
<1>4. ImageKept'
  BY <1>1, <1>2 DEF ConfigInv, ImageKept, DebianLike, Midway
<1>5. Reached'
  BY <1>1 DEF ConfigInv, Reached, GrubTyped, FaultsGrow, Midway, Away
<1>6. Aside' = Aside
  BY <1>1 DEF Aside, Midway
<1>7. ASSUME Lasting' PROVE OneFull' /\ PreviousKept' /\ SerialKept'
  BY <1>1, <1>2, <1>6, <1>7 DEF OneFull, Short, PreviousKept, EfiPrevious, SerialKept,
                    EfiSerial, Midway, Redirect, NoCfg
<1> QED  BY <1>3, <1>4, <1>5, <1>7 DEF ConfigInv

\* What grub.cfg becomes; without a fault it is made if that is possible.
LEMMA Made ==
    ASSUME GrubTyped, NEW here, NEW there, NEW which \in {"main", "efi"}, NEW possible,
           Mkconfig(here, there, which, possible)
    PROVE  /\ cfgs' \in {cfgs, [cfgs EXCEPT ![which] = Settings]}
           /\ faults' = 0 /\ possible => cfgs' = [cfgs EXCEPT ![which] = Settings]
           /\ cfgs' # cfgs => possible
           /\ UNCHANGED <<sys, todo, torn, efi, defaults, rpmsave, initrd>> /\ pc = here /\ pc' = there
           /\ FaultsGrow /\ GrubTyped'
<1>1. PICK ok \in BOOLEAN : /\ Outcome(possible, ok)
                            /\ cfgs' = IF ok THEN [cfgs EXCEPT ![which] = Settings] ELSE cfgs
  BY DEF Mkconfig
<1>2. UNCHANGED <<sys, todo, torn, efi, defaults, rpmsave, initrd>> /\ pc = here /\ pc' = there
  BY DEF Mkconfig, Goto, run
<1>3. FaultsGrow
  BY <1>1, OutcomeGrows
<1>4. (ok => possible) /\ (faults' = 0 /\ possible => ok)
  BY <1>1 DEF Outcome, Works, Fails, GrubTyped
<1>5. Settings \in GrubCfg
  BY DEF Settings, GrubTyped, GrubCfg, Default
<1>6. GrubTyped'
  BY <1>1, <1>2, <1>3, <1>5 DEF GrubTyped, FaultsGrow
<1> QED  BY <1>1, <1>2, <1>3, <1>4, <1>6

\* The main grub.cfg made anew by a script that is not one of the three.
LEMMA MainMade ==
    ASSUME ConfigInv, NEW here, NEW there, Mkconfig(here, there, "main", TRUE), UNCHANGED done,
           here \notin Away \cup InitrdSteps \cup {"idle", "efiMkfs", "efiMount"},
           there \notin Midway \cup InitrdSteps, there # "idle"
    PROVE  ConfigInv'
<1>1. /\ cfgs' \in {cfgs, [cfgs EXCEPT !.main = Settings]}
      /\ UNCHANGED <<sys, todo, torn, efi, defaults, rpmsave, initrd, done>> /\ pc = here /\ pc' = there
      /\ FaultsGrow /\ GrubTyped'
  BY Made DEF ConfigInv
<1>2. cfgs'.efi = cfgs.efi /\ cfgs'.main \in {cfgs.main, Settings}
  BY <1>1 DEF ConfigInv, GrubTyped
<1>3. /\ Lasting' => OneFull /\ PreviousKept /\ SerialKept
      /\ ImageSafe' => ImageSafe
  BY <1>1, LastingMeans
<1>4. ImageKept' /\ Reached'
  BY <1>1, <1>2, <1>3 DEF ConfigInv, ImageKept, DebianLike, Reached, Midway, Away, InitrdSteps,
                          GrubTyped, FaultsGrow, NoCfg
<1>5. Aside' = Aside
  BY <1>1 DEF Aside, Midway
<1>6. ASSUME Lasting' PROVE OneFull' /\ PreviousKept' /\ SerialKept'
  <2>1. (Aside.pick = "previous" => Settings.pick = "previous") /\ (Aside.serial => Settings.serial)
    BY <1>1 DEF Aside, Settings
  <2> QED  BY <1>1, <1>2, <1>3, <1>5, <1>6, <2>1 DEF OneFull, InitrdDue, Asked, Short, PreviousKept,
              EfiPrevious, SerialKept, EfiSerial, Midway, Redirect, NoCfg
<1> QED  BY <1>1, <1>4, <1>6 DEF ConfigInv

LEMMA ConfigStart ==
    ASSUME ConfigInv, Start
    PROVE  ConfigInv'
<1>1. /\ pc = "idle" /\ pc' = "next" /\ todo' \in sys.lists
      /\ UNCHANGED <<sys, torn, defaults, rpmsave, cfgs, initrd, done, faults>>
      /\ efi' = [efi EXCEPT !.mounted = sys.efi]
  BY DEF Start, grub
<1>2. sys.efi \in BOOLEAN
  BY DEF ConfigInv, GrubTyped, System
<1>3. efi'.mounted = sys.efi /\ efi' \in [uuid : Nat, mounted : BOOLEAN]
  BY <1>1, <1>2 DEF ConfigInv, GrubTyped
<1>4. /\ Lasting' => OneConfig /\ OneFull /\ PreviousKept /\ SerialKept
      /\ ImageSafe' => ImageSafe
  BY <1>1, LastingMeans DEF FaultsGrow, Lasting
<1>5. GrubTyped' /\ ImageKept' /\ Reached'
  BY <1>1, <1>3, <1>4 DEF ConfigInv, GrubTyped, ImageKept, DebianLike, Reached
<1>6. ASSUME Lasting' PROVE ~(sys.distro = "ubuntu" /\ Asked("initrd")')
  BY <1>1, <1>4, <1>6 DEF OneConfig, Asked
<1>7. Aside' = Aside
  BY <1>1 DEF Aside, Away
<1>8. ASSUME Lasting' PROVE OneFull' /\ PreviousKept' /\ SerialKept'
  BY <1>1, <1>4, <1>6, <1>7, <1>8 DEF OneFull, InitrdDue, InitrdSteps, Short, PreviousKept,
     EfiPrevious, SerialKept, EfiSerial, Redirect, NoCfg
<1> QED  BY <1>5, <1>8 DEF ConfigInv

LEMMA ConfigAction ==
    ASSUME LinesInv, ConfigInv, NextAction
    PROVE  ConfigInv'
<1>1. UNCHANGED <<sys, torn, boot, faults>> /\ pc = "next"
  BY DEF NextAction, run
<1>2. CASE pc' = "idle" /\ todo' = todo
  BY <1>1, <1>2, NotConfig DEF Midway, Away, InitrdDue, InitrdSteps, FaultsGrow
<1>3. CASE todo # <<>> /\ todo' = Tail(todo) /\ Head(todo) \in Names /\ pc' = First[Head(todo)]
  <2>1. Asked(Head(todo)) /\ \A n : Asked(n)' => Asked(n)
    BY <1>3, AskedTail
  <2>2. pc' \notin Midway /\ (pc' \in InitrdSteps => Head(todo) = "initrd")
    BY <1>3 DEF First, Names, Midway, Away, InitrdSteps
  <2>3. InitrdDue' => InitrdDue
    BY <1>1, <2>1, <2>2 DEF InitrdDue
  <2> QED  BY <1>1, <2>2, <2>3, NotConfig DEF FaultsGrow, Away
<1> QED  BY <1>2, <1>3, ActionMoves

\* The scripts that have to do with other files.
LEMMA ConfigOthers ==
    ASSUME LinesInv, ConfigInv, FstabNext \/ AuditNext \/ SudoNext
    PROVE  ConfigInv'
<1>1. CASE FstabNext
  BY <1>1, FstabMoves, NotConfig DEF FstabSteps, Midway, Away, InitrdDue, InitrdSteps, Asked, run
<1>2. CASE AuditNext
  <2>1. UNCHANGED boot
    BY <1>2 DEF AuditNext, Configure, Walk, Look, Continue, AuditEnd
  <2> QED  BY <1>2, <2>1, AuditMoves, NotConfig DEF Midway, Away, InitrdDue, InitrdSteps, Asked, run
<1>3. CASE SudoNext
  <2>1. UNCHANGED boot
    BY <1>3 DEF SudoNext, MoveWaagent, ConfMode, ConfOwner, Targetpw, BinMode, BinOwner, SudoEnd, Fix
  <2> QED  BY <1>3, <2>1, SudoMoves, NotConfig
              DEF SudoSteps, Later, Late, Midway, Away, InitrdDue, InitrdSteps, Asked, run
<1> QED  BY <1>1, <1>2, <1>3

LEMMA ConfigGrub ==
    ASSUME ConfigInv, GrubNext
    PROVE  ConfigInv'
<1>1. CASE GrubConfig
  BY <1>1, MainMade DEF GrubConfig, Midway, Away, InitrdSteps
<1>2. CASE ~GrubConfig
  <2>1. UNCHANGED boot
    BY <1>2 DEF GrubNext, GrubRefuse, GrubNoPre, GrubMove, GrubInstall, MoveResolv, WriteResolv,
                RestoreResolv, Same
  <2> QED  BY <2>1, GrubMoves, NotConfig DEF GrubSteps, Midway, Away, InitrdDue, InitrdSteps, Asked, run
<1> QED  BY <1>1, <1>2

\* The EFI partition is made anew and mounted; with it goes its grub.cfg.
LEMMA ConfigEfi ==
    ASSUME ConfigInv, EfiNext
    PROVE  ConfigInv'
<1>1. /\ UNCHANGED <<sys, todo, torn>> /\ FaultsGrow /\ pc \in EfiSteps
      /\ pc' \in EfiSteps \cup {"next"} /\ torn \subseteq torn'
  BY EfiMoves DEF run
<1>2. InitrdDue' => InitrdDue
  BY <1>1 DEF EfiSteps, InitrdDue, InitrdSteps, Asked
<1>0. /\ Lasting' => Lasting /\ OneFull /\ PreviousKept /\ SerialKept
      /\ ImageSafe' => ImageSafe
  BY <1>1, LastingMeans
<1>3. CASE EfiUmount \/ EfiMkfs \/ EfiMount
  <2>1. PICK ok \in BOOLEAN :
           \/ /\ EfiUmount /\ Outcome(efi.mounted, ok)
              /\ efi' = [efi EXCEPT !.mounted = @ /\ ~ok] /\ cfgs' = cfgs
           \/ /\ EfiMkfs /\ Outcome(sys.efi /\ ~efi.mounted, ok)
              /\ efi' = [efi EXCEPT !.uuid = IF ok THEN @ + 1 ELSE @]
              /\ cfgs' = IF ok THEN [cfgs EXCEPT !.efi = NoCfg] ELSE cfgs
           \/ /\ EfiMount /\ Outcome(sys.efi /\ ~efi.mounted, ok)
              /\ efi' = [efi EXCEPT !.mounted = @ \/ ok] /\ cfgs' = cfgs
    BY <1>3 DEF EfiUmount, EfiMkfs, EfiMount, grub
  <2>2. UNCHANGED <<defaults, rpmsave, initrd, done>>
    BY <1>3 DEF EfiUmount, EfiMkfs, EfiMount, grub
  <2>3. /\ EfiUmount => pc = "efiUmount" /\ pc' = "efiMkfs"
        /\ EfiMkfs => pc = "efiMkfs" /\ pc' = "efiMount"
        /\ EfiMount => pc = "efiMount" /\ pc' \in {"efiMain", "efiOwn", "efiRemove"}
                       /\ (pc' = "efiRemove" => sys.distro = "suse")
    BY DEF EfiUmount, EfiMkfs, EfiMount, Goto
  <2>4. sys.efi \in BOOLEAN /\ efi.mounted \in BOOLEAN
    BY DEF ConfigInv, GrubTyped, System
  <2>5. efi' \in [uuid : Nat, mounted : BOOLEAN]
    <3>1. efi \in [uuid : Nat, mounted : BOOLEAN]
      BY DEF ConfigInv, GrubTyped
    <3>2. (efi.mounted /\ ~ok) \in BOOLEAN /\ (efi.mounted \/ ok) \in BOOLEAN
      OBVIOUS
    <3>3. \/ \E m \in BOOLEAN : efi' = [efi EXCEPT !.mounted = m]
          \/ efi' = [efi EXCEPT !.uuid = IF ok THEN @ + 1 ELSE @]
      BY <2>1, <3>2, Zenon
    <3> QED  BY <3>1, <3>3
  <2>6. /\ cfgs' \in [main : GrubCfg, efi : GrubCfg]
        /\ cfgs'.main = cfgs.main /\ cfgs'.efi \in {cfgs.efi, NoCfg}
    <3>1. cfgs' = cfgs \/ cfgs' = [cfgs EXCEPT !.efi = NoCfg]
      BY <2>1, Zenon
    <3>2. cfgs \in [main : GrubCfg, efi : GrubCfg] /\ NoCfg \in GrubCfg
      BY DEF ConfigInv, GrubTyped, GrubCfg, NoCfg
    <3> QED  BY <3>1, <3>2
  <2>7. GrubTyped'
    BY <1>1, <2>2, <2>5, <2>6 DEF ConfigInv, GrubTyped, FaultsGrow
  <2>8. (efi'.mounted => sys.efi)
    BY <2>1, <2>4 DEF ConfigInv, GrubTyped, Reached, Outcome
  <2>9. pc = "efiMount" /\ faults' = 0 /\ sys.efi => efi'.mounted
    BY <2>1, <2>3, <2>4 DEF ConfigInv, GrubTyped, Outcome, Fails
  <2>10. Reached'
    BY <1>1, <1>3, <2>3, <2>6, <2>8, <2>9 DEF ConfigInv, Reached, NoCfg
  <2>11. ImageKept'
    BY <1>0, <1>1, <2>2 DEF ConfigInv, ImageKept, DebianLike, EfiSteps
  <2>13. Aside' = Aside
    BY <1>3, <2>2, <2>3 DEF Aside, Away
  <2>12. ASSUME Lasting' PROVE OneFull' /\ PreviousKept' /\ SerialKept'
    BY <1>0, <1>1, <1>2, <2>2, <2>6, <2>12, <2>13
       DEF OneFull, Short, PreviousKept, EfiPrevious, SerialKept, EfiSerial,
           EfiSteps, Redirect, NoCfg
  <2> QED  BY <2>7, <2>10, <2>11, <2>12 DEF ConfigInv
<1>4. CASE EfiOwn
  <2>1. PICK ok \in BOOLEAN :
           /\ Outcome(efi.mounted /\ (sys.distro = "redhat" => sys.grub.vendor # "alma"), ok)
           /\ cfgs' = IF ok THEN [cfgs EXCEPT !.efi = IF sys.distro = "redhat" THEN Settings
                                                      ELSE Redirect]
                      ELSE cfgs
    BY <1>4 DEF EfiOwn
  <2>2. /\ UNCHANGED <<efi, defaults, rpmsave, initrd, done>> /\ pc = "efiOwn"
        /\ pc' \in {"efiMain", "efiSed"}
    BY <1>4 DEF EfiOwn, Goto
  <2>3. ok => efi.mounted
    BY <2>1 DEF Outcome
  <2>4. cfgs'.main = cfgs.main /\ cfgs'.efi \in {cfgs.efi, IF sys.distro = "redhat" THEN Settings
                                                          ELSE Redirect}
    BY <2>1 DEF ConfigInv, GrubTyped
  <2>5. GrubTyped'
    BY <1>1, <2>1, <2>2 DEF ConfigInv, GrubTyped, FaultsGrow, GrubCfg, Default, Settings, Redirect
  <2>6. Reached' /\ ImageKept'
    BY <1>0, <1>1, <2>1, <2>2, <2>3
       DEF ConfigInv, Reached, GrubTyped, FaultsGrow, ImageKept, DebianLike
  <2>7. ASSUME Lasting' PROVE OneFull' /\ PreviousKept' /\ SerialKept'
    BY <1>0, <1>1, <1>2, <2>2, <2>4, <2>7
       DEF OneFull, Short, PreviousKept, EfiPrevious, SerialKept, EfiSerial, Aside, Away,
           Redirect, NoCfg, Settings
  <2> QED  BY <2>5, <2>6, <2>7 DEF ConfigInv
<1>5. CASE EfiMain
  BY <1>5, MainMade DEF EfiMain, Midway, Away, InitrdSteps
<1>6. CASE EfiImage
  <2>1. PICK ok \in BOOLEAN : initrd' = (initrd \/ ok)
    BY <1>6 DEF EfiImage
  <2>2. UNCHANGED <<efi, defaults, rpmsave, cfgs, done>> /\ pc = "efiImage" /\ pc' = "efiMain"
    BY <1>6 DEF EfiImage, Goto
  <2>3. GrubTyped' /\ Reached' /\ ImageKept'
    BY <1>0, <1>1, <2>1, <2>2
       DEF ConfigInv, Reached, GrubTyped, FaultsGrow, ImageKept, DebianLike
  <2>4. ASSUME Lasting' PROVE OneFull' /\ PreviousKept' /\ SerialKept'
    BY <1>0, <1>1, <1>2, <2>2, <2>4
       DEF OneFull, Short, PreviousKept, EfiPrevious, SerialKept, EfiSerial, Aside, Away,
           Redirect, NoCfg
  <2> QED  BY <2>3, <2>4 DEF ConfigInv
<1>7. CASE EfiNoPre \/ EfiMove \/ WriteResolv("efiWrite", "efiCheck") \/ EfiCheck \/ EfiSed
           \/ MisplaceResolv("efiAfter", "next")
  <2>1. UNCHANGED boot /\ pc \notin Away \cup {"idle", "iniMake", "efiMkfs", "efiMount"}
        /\ pc' \notin Midway
    BY <1>7 DEF EfiNoPre, EfiMove, EfiCheck, EfiSed, MoveResolv, WriteResolv, MisplaceResolv, Same,
                SedThen, Goto, Away, Midway
  <2> QED  BY <1>1, <1>2, <2>1, NotConfig
<1>8. CASE EfiRemove \/ EfiInstall \/ EfiCopy
  <2>1. /\ UNCHANGED <<efi, cfgs, initrd, done>>
        /\ \/ EfiRemove /\ pc = "efiRemove" /\ pc' = "efiInstall"
           \/ EfiInstall /\ pc = "efiInstall" /\ pc' = "efiCopy"
           \/ EfiCopy /\ pc = "efiCopy" /\ pc' = "efiOwn"
    BY <1>8 DEF EfiRemove, EfiInstall, EfiCopy, Goto
  <2>2. sys.distro = "suse"
    BY <2>1 DEF ConfigInv, Reached
  <2>3. /\ defaults' \in Default /\ rpmsave' \in Default
        /\ defaults'.file \/ (defaults'.pick = "none" /\ ~defaults'.serial)
        /\ rpmsave'.file \/ (rpmsave'.pick = "none" /\ ~rpmsave'.serial)
        /\ defaults.pick # "comment" /\ rpmsave.pick # "comment" =>
              defaults'.pick # "comment" /\ rpmsave'.pick # "comment"
        /\ faults' = 0 /\ Aside.pick = "previous" => Aside'.pick = "previous"
        /\ faults' = 0 /\ Aside.serial => Aside'.serial
    <3>1. /\ defaults \in Default /\ rpmsave \in Default /\ faults \in Nat
          /\ defaults.file \/ (defaults.pick = "none" /\ ~defaults.serial)
          /\ rpmsave.file \/ (rpmsave.pick = "none" /\ ~rpmsave.serial)
          /\ Packaged \in Default /\ NoFile \in Default
      BY <2>2 DEF ConfigInv, GrubTyped, Default, Picks, Packaged, NoFile
    <3>0. /\ Packaged.file = TRUE /\ Packaged.pick = "saved" /\ Packaged.serial = FALSE
          /\ NoFile.file = FALSE /\ NoFile.pick = "none" /\ NoFile.serial = FALSE
      BY DEF Packaged, NoFile
    <3>2. CASE EfiRemove
      <4>1. \/ /\ faults' = faults + 1 /\ UNCHANGED <<defaults, rpmsave>>
            \/ /\ defaults' = NoFile
               /\ \/ rpmsave' = defaults /\ defaults.file
                  \/ rpmsave' = rpmsave /\ (defaults = Packaged \/ ~defaults.file)
        BY <3>2 DEF EfiRemove, Fails
      <4>2. Aside = defaults /\ Aside' = rpmsave'
        BY <2>1, <3>2 DEF Aside, Away, EfiRemove, Goto
      <4> QED  BY <3>0, <3>1, <4>1, <4>2
    <3>3. CASE EfiInstall
      <4>1. defaults' \in {defaults, Packaged} /\ rpmsave' = rpmsave
        BY <3>3 DEF EfiInstall
      <4>2. Aside = rpmsave /\ Aside' = rpmsave'
        BY <2>1, <3>3 DEF Aside, Away, EfiInstall, Goto
      <4> QED  BY <3>0, <3>1, <4>1, <4>2
    <3>4. CASE EfiCopy
      <4>1. defaults' = (IF rpmsave.file THEN rpmsave ELSE defaults) /\ rpmsave' = rpmsave
        BY <3>4 DEF EfiCopy
      <4>2. Aside = rpmsave /\ Aside' = defaults'
        BY <2>1, <3>4 DEF Aside, Away, EfiCopy, Goto
      <4> QED  BY <3>1, <4>1, <4>2
    <3> QED  BY <1>8, <3>2, <3>3, <3>4
  <2>4. GrubTyped' /\ Reached' /\ ImageKept'
    BY <1>0, <1>1, <2>1, <2>2, <2>3
       DEF ConfigInv, GrubTyped, Reached, FaultsGrow, ImageKept, DebianLike
  <2>5. ASSUME Lasting' PROVE OneFull' /\ PreviousKept' /\ SerialKept'
    <3>1. faults' = 0
      BY <1>1, <2>2, <2>5 DEF Lasting
    <3> QED  BY <1>0, <1>1, <1>2, <2>1, <2>3, <2>5, <3>1
                DEF OneFull, Short, PreviousKept, EfiPrevious, SerialKept, EfiSerial, Redirect, NoCfg
  <2> QED  BY <2>4, <2>5 DEF ConfigInv
<1> QED  BY <1>3, <1>4, <1>5, <1>6, <1>7, <1>8 DEF EfiNext

\* The defaults edited, on the way to grub.cfg.
LEMMA Edited ==
    ASSUME ConfigInv, NEW here, NEW there, NEW new, Edit(here, there, new),
           new \in Default,
           new.file \/ (new.pick = "none" /\ (sys.distro = "ubuntu" \/ ~new.serial)),
           defaults.serial => new.serial, defaults.pick = "previous" => new.pick = "previous",
           defaults.pick # "comment" => new.pick # "comment",
           there = "kerPick" => new.pick # "none",
           defaults.pick \notin {"none", "comment"} /\ there \in {"kerEfi", "kerMain"} => new.pick = "previous",
           there \in {"serEfi", "serMain"} => new.serial,
           here = "kerPick" \/ there \notin {"kerEfi", "kerMain"},
           there \in {"kerEfi", "serEfi"} <=> sys.distro = "redhat" /\ there # "kerPick",
           here \in {"kerLine", "kerPick", "serLine"},
           there \in {"kerPick", "kerEfi", "kerMain", "serEfi", "serMain"}
    PROVE  ConfigInv'
<1>1. /\ UNCHANGED <<sys, todo, torn, efi, cfgs, rpmsave, initrd, done, faults>>
      /\ pc = here /\ pc' = there /\ defaults' = new
  BY DEF Edit, Goto, run
<1>2. GrubTyped' /\ ImageKept' /\ Reached'
  BY <1>1 DEF ConfigInv, GrubTyped, ImageKept, ImageSafe, DebianLike, Reached
<1>4. Aside = defaults /\ Aside' = new
  BY <1>1 DEF Aside, Away
<1>3. ASSUME Lasting' PROVE OneFull' /\ PreviousKept' /\ SerialKept'
  <2>1. OneFull /\ PreviousKept /\ SerialKept
    BY <1>1, <1>3, LastingMeans DEF FaultsGrow
  <2>2. OneFull'
    BY <1>1, <2>1 DEF OneFull, InitrdDue, InitrdSteps, Asked, Short, Redirect, NoCfg
  <2>3. PreviousKept'
    BY <1>1, <1>4, <2>1 DEF PreviousKept, OneFull, EfiPrevious, Short, Redirect, NoCfg
  <2>4. SerialKept'
    BY <1>1, <1>4, <2>1 DEF SerialKept, OneFull, EfiSerial, Short, Redirect, NoCfg
  <2> QED  BY <2>2, <2>3, <2>4
<1> QED  BY <1>2, <1>3 DEF ConfigInv

\* The grub.cfg of the EFI partition made anew, where there is one.
LEMMA EfiMade ==
    ASSUME ConfigInv, NEW here \in {"kerEfi", "serEfi"}, NEW vendors,
           NEW there \in {"kerMain", "serMain"},
           Mkconfig(here, there, "efi", Reaches(vendors)), "redhat" \in vendors
    PROVE  /\ UNCHANGED <<sys, todo, torn, efi, defaults, rpmsave, initrd>> /\ pc = here /\ pc' = there
           /\ FaultsGrow /\ GrubTyped' /\ Reached'
           /\ cfgs'.main = cfgs.main /\ cfgs'.efi \in {cfgs.efi, Settings}
           /\ Lasting /\ faults' = 0 => cfgs'.efi \in {NoCfg, Settings}
<1>1. /\ cfgs' \in {cfgs, [cfgs EXCEPT !["efi"] = Settings]}
      /\ faults' = 0 /\ Reaches(vendors) => cfgs' = [cfgs EXCEPT !["efi"] = Settings]
      /\ cfgs' # cfgs => Reaches(vendors)
      /\ UNCHANGED <<sys, todo, torn, efi, defaults, rpmsave, initrd>> /\ pc = here /\ pc' = there
      /\ FaultsGrow /\ GrubTyped'
  BY Made DEF ConfigInv
<1>2. cfgs'.main = cfgs.main /\ cfgs'.efi \in {cfgs.efi, Settings}
      /\ (cfgs' = [cfgs EXCEPT !["efi"] = Settings] => cfgs'.efi = Settings)
  BY <1>1 DEF ConfigInv, GrubTyped
<1>3. Reached'
  BY <1>1, <1>2 DEF ConfigInv, Reached, Reaches, GrubTyped, FaultsGrow, NoCfg
<1>4. ASSUME Lasting, faults' = 0 PROVE cfgs'.efi \in {NoCfg, Settings}
  BY <1>1, <1>2, <1>4 DEF ConfigInv, Lasting, OneConfig, OneFull, Reached, Reaches, GrubTyped, FaultsGrow
<1> QED  BY <1>1, <1>2, <1>3, <1>4

LEMMA EfiStepKept ==
    ASSUME ConfigInv, UNCHANGED <<sys, todo, torn, efi, defaults, rpmsave, initrd, done>>,
           \/ pc = "kerEfi" /\ pc' = "kerMain"
           \/ pc = "serEfi" /\ pc' = "serMain",
           FaultsGrow, GrubTyped', Reached',
           cfgs'.main = cfgs.main, cfgs'.efi \in {cfgs.efi, Settings},
           Lasting /\ faults' = 0 => cfgs'.efi \in {NoCfg, Settings}
    PROVE  ConfigInv'
<1>0. /\ Lasting' => Lasting /\ OneFull /\ PreviousKept /\ SerialKept
      /\ ImageSafe' => ImageSafe
  BY LastingMeans
<1>1. ImageKept'
  BY <1>0 DEF ConfigInv, ImageKept, DebianLike
<1>2. ASSUME Lasting' PROVE OneFull' /\ PreviousKept' /\ SerialKept'
  <2>1. Lasting /\ OneFull /\ PreviousKept /\ SerialKept
    BY <1>0, <1>2
  <2>0. Aside = defaults /\ Aside' = defaults
    BY DEF Aside, Away
  <2>2. Settings.pick = defaults.pick /\ Settings.serial = defaults.serial
    BY DEF Settings
  <2>3. OneFull'
    BY <2>1 DEF OneFull, InitrdDue, InitrdSteps, Asked
  <2>4. PreviousKept'
    BY <2>0, <2>1, <2>2 DEF PreviousKept, EfiPrevious, Short, Redirect, NoCfg
  <2>5. SerialKept'
    BY <2>0, <2>1, <2>2 DEF SerialKept, EfiSerial, Short, Redirect, NoCfg
  <2> QED  BY <2>3, <2>4, <2>5
<1> QED  BY <1>1, <1>2 DEF ConfigInv

\* The last step of kernel and serialconsole.
LEMMA MainStepKept ==
    ASSUME ConfigInv, NEW here, NEW name,
           Mkconfig(here, "next", "main", TRUE), Finish(name),
           \/ here = "kerMain" /\ name = "kernel"
           \/ here = "serMain" /\ name = "serialconsole"
    PROVE  ConfigInv'
<1>1. /\ cfgs' \in {cfgs, [cfgs EXCEPT !["main"] = Settings]}
      /\ faults' = 0 => cfgs' = [cfgs EXCEPT !["main"] = Settings]
      /\ UNCHANGED <<sys, todo, torn, efi, defaults, rpmsave, initrd>> /\ pc = here /\ pc' = "next"
      /\ FaultsGrow /\ GrubTyped'
  BY Made DEF ConfigInv
<1>2. /\ cfgs'.efi = cfgs.efi /\ cfgs'.main \in {cfgs.main, Settings}
      /\ faults' = 0 => cfgs'.main = Settings
  BY <1>1 DEF ConfigInv, GrubTyped
<1>3. (done' = done) \/ (faults' = 0 /\ faults = 0 /\ done' = done \cup {name})
  BY <1>1 DEF Finish, FaultsGrow, ConfigInv, GrubTyped
<1>0. /\ Lasting' => Lasting /\ OneFull /\ PreviousKept /\ SerialKept
      /\ ImageSafe' => ImageSafe
  BY <1>1, LastingMeans
<1>4. ImageKept' /\ Reached'
  BY <1>0, <1>1, <1>2, <1>3 DEF ConfigInv, ImageKept, DebianLike, Reached, GrubTyped, FaultsGrow, NoCfg
<1>5. ASSUME Lasting' PROVE OneFull' /\ PreviousKept' /\ SerialKept'
  <2>1. OneFull /\ PreviousKept /\ SerialKept
    BY <1>0, <1>5
  <2>0. Aside = defaults /\ Aside' = defaults
    BY <1>1 DEF Aside, Away
  <2>2. Settings.pick = defaults.pick /\ Settings.serial = defaults.serial
    BY DEF Settings
  <2>3. OneFull'
    BY <1>1, <1>2, <2>1 DEF OneFull, InitrdDue, InitrdSteps, Asked, Short, Redirect, NoCfg
  <2>4. PreviousKept'
    BY <1>1, <1>2, <1>3, <2>0, <2>1, <2>2 DEF PreviousKept, EfiPrevious, Short, Redirect, NoCfg
  <2>5. SerialKept'
    BY <1>1, <1>2, <1>3, <2>0, <2>1, <2>2 DEF SerialKept, EfiSerial, Short, Redirect, NoCfg
  <2> QED  BY <2>3, <2>4, <2>5
<1> QED  BY <1>1, <1>4, <1>5 DEF ConfigInv

LEMMA ConfigKernel ==
    ASSUME ConfigInv, KernelLine \/ KernelPick \/ KernelEfi \/ KernelMain
    PROVE  ConfigInv'
<1>1. CASE KernelLine
  <2> DEFINE new == IF defaults.pick = "none" THEN [defaults EXCEPT !.pick = "saved", !.file = TRUE]
                    ELSE defaults
  <2>1. /\ new \in Default
        /\ new.file \/ (new.pick = "none" /\ (sys.distro = "ubuntu" \/ ~new.serial))
        /\ new.serial = defaults.serial /\ new.pick # "none"
        /\ new.pick = IF defaults.pick = "none" THEN "saved" ELSE defaults.pick
    BY DEF ConfigInv, GrubTyped, Default, Picks
  <2>2. Edit("kerLine", "kerPick", new)
    BY <1>1 DEF KernelLine
  <2> HIDE DEF new
  <2> QED  BY <2>1, <2>2, Edited
<1>2. CASE KernelPick
  <2>1. /\ Picked \in Default
        /\ Picked.file \/ (Picked.pick = "none" /\ (sys.distro = "ubuntu" \/ ~Picked.serial))
        /\ Picked.serial = defaults.serial
        /\ Picked.pick = IF defaults.pick = "saved" THEN "previous" ELSE defaults.pick
    BY DEF ConfigInv, GrubTyped, Default, Picks, Picked
  <2>2. Edit("kerPick", IF sys.distro = "redhat" THEN "kerEfi" ELSE "kerMain", Picked)
    BY <1>2 DEF KernelPick
  <2>3. defaults.pick \in Picks
    BY DEF ConfigInv, GrubTyped, Default
  <2> QED  BY <2>1, <2>2, <2>3, Edited DEF Picks
<1>3. CASE KernelEfi
  <2>1. Mkconfig("kerEfi", "kerMain", "efi", Reaches({"redhat", "oracle"})) /\ UNCHANGED done
    BY <1>3 DEF KernelEfi
  <2>2. /\ UNCHANGED <<sys, todo, torn, efi, defaults, rpmsave, initrd, done>> /\ pc = "kerEfi" /\ pc' = "kerMain"
        /\ FaultsGrow /\ GrubTyped' /\ Reached'
        /\ cfgs'.main = cfgs.main /\ cfgs'.efi \in {cfgs.efi, Settings}
        /\ Lasting /\ faults' = 0 => cfgs'.efi \in {NoCfg, Settings}
    BY <2>1, EfiMade
  <2> QED  BY <2>2, EfiStepKept
<1>4. CASE KernelMain
  <2>1. Mkconfig("kerMain", "next", "main", TRUE) /\ Finish("kernel")
    BY <1>4 DEF KernelMain
  <2> QED  BY <2>1, MainStepKept
<1> QED  BY <1>1, <1>2, <1>3, <1>4

LEMMA ConfigSerial ==
    ASSUME ConfigInv, SerialNone \/ SerialLine \/ SerialEfi \/ SerialMain
    PROVE  ConfigInv'
<1>1. CASE SerialNone
  <2>1. UNCHANGED <<sys, todo, torn, boot, faults>> /\ pc = "serLine" /\ pc' = "next"
    BY <1>1 DEF SerialNone, Goto, run
  <2> QED  BY <2>1, NotConfig DEF Midway, Away, InitrdDue, InitrdSteps, Asked, FaultsGrow
<1>2. CASE SerialLine
  <2> DEFINE new == IF defaults.file \/ sys.distro = "ubuntu" THEN [defaults EXCEPT !.serial = TRUE]
                    ELSE [pick |-> "saved", serial |-> TRUE, file |-> TRUE]
  <2>1. /\ new \in Default
        /\ new.file \/ (new.pick = "none" /\ (sys.distro = "ubuntu" \/ ~new.serial))
        /\ new.serial /\ new.pick \in {defaults.pick, "saved"}
        /\ defaults.file => new.pick = defaults.pick
    BY DEF ConfigInv, GrubTyped, Default, Picks
  <2>2. Edit("serLine", IF sys.distro = "redhat" THEN "serEfi" ELSE "serMain", new)
    BY <1>2 DEF SerialLine
  <2>3. defaults.pick = "previous" => defaults.file
    BY DEF ConfigInv, GrubTyped
  <2> HIDE DEF new
  <2> QED  BY <2>1, <2>2, <2>3, Edited
<1>3. CASE SerialEfi
  <2>1. Mkconfig("serEfi", "serMain", "efi", Reaches({"redhat", "alma"})) /\ UNCHANGED done
    BY <1>3 DEF SerialEfi
  <2>2. /\ UNCHANGED <<sys, todo, torn, efi, defaults, rpmsave, initrd, done>> /\ pc = "serEfi" /\ pc' = "serMain"
        /\ FaultsGrow /\ GrubTyped' /\ Reached'
        /\ cfgs'.main = cfgs.main /\ cfgs'.efi \in {cfgs.efi, Settings}
        /\ Lasting /\ faults' = 0 => cfgs'.efi \in {NoCfg, Settings}
    BY <2>1, EfiMade
  <2> QED  BY <2>2, EfiStepKept
<1>4. CASE SerialMain
  <2>1. Mkconfig("serMain", "next", "main", TRUE) /\ Finish("serialconsole")
    BY <1>4 DEF SerialMain
  <2> QED  BY <2>1, MainStepKept
<1> QED  BY <1>1, <1>2, <1>3, <1>4

\* What initrd does but for the initrd itself: grub.cfg made anew, or nothing.
LEMMA InitrdStepKept ==
    ASSUME ConfigInv, UNCHANGED <<sys, todo, torn, efi, defaults, rpmsave>>, FaultsGrow, GrubTyped', ImageKept',
           pc \in InitrdSteps, pc' \in {"next", "iniMake", "iniMain", "iniEfi"},
           done' \ {"initrd"} = done \ {"initrd"},
           cfgs'.main \in {cfgs.main, Settings}, cfgs'.efi \in {cfgs.efi, Settings},
           cfgs'.efi # cfgs.efi => sys.distro = "ubuntu" /\ efi.mounted
    PROVE  ConfigInv'
<1>1. Reached'
  BY DEF ConfigInv, Reached, GrubTyped, FaultsGrow, InitrdSteps
<1>2. ASSUME Lasting' PROVE OneFull' /\ PreviousKept' /\ SerialKept'
  <2>1. Lasting /\ OneFull /\ PreviousKept /\ SerialKept
    BY <1>2, LastingMeans
  <2>0. Aside = defaults /\ Aside' = defaults
    BY DEF Aside, Away, InitrdSteps
  <2>2. cfgs'.efi = cfgs.efi
    BY <2>1 DEF OneFull, InitrdDue
  <2>3. Settings.pick = defaults.pick /\ Settings.serial = defaults.serial
    BY DEF Settings
  <2>4. OneFull'
    BY <2>1, <2>2 DEF OneFull, InitrdDue, InitrdSteps, Asked, Short, Redirect, NoCfg
  <2>5. ("kernel" \in done' => "kernel" \in done)
        /\ ("serialconsole" \in done' => "serialconsole" \in done)
    OBVIOUS
  <2>6. PreviousKept'
    BY <2>0, <2>1, <2>2, <2>3, <2>5 DEF PreviousKept, EfiPrevious, Short, Redirect, NoCfg
  <2>7. SerialKept'
    BY <2>0, <2>1, <2>2, <2>3, <2>5 DEF SerialKept, EfiSerial, Short, Redirect, NoCfg
  <2> QED  BY <2>4, <2>6, <2>7
<1> QED  BY <1>1, <1>2 DEF ConfigInv

LEMMA ConfigInitrd ==
    ASSUME ConfigInv, InitrdRemove \/ InitrdMake \/ InitrdMain \/ InitrdEfi
    PROVE  ConfigInv'
<1>1. CASE InitrdRemove
  <2>1. /\ UNCHANGED <<sys, todo, torn, efi, defaults, rpmsave, cfgs, done, faults>>
        /\ pc = "iniPre" /\ pc' = "iniMake" /\ DebianLike
        /\ initrd' = (initrd /\ ~sys.image.known)
    BY <1>1 DEF InitrdRemove, Goto, run
  <2>2. initrd' \in BOOLEAN
    BY <2>1 DEF ConfigInv, GrubTyped
  <2>3. GrubTyped' /\ ImageKept'
    BY <2>1, <2>2 DEF ConfigInv, GrubTyped, ImageKept, DebianLike
  <2> QED  BY <2>1, <2>3, InitrdStepKept DEF InitrdSteps, FaultsGrow
<1>2. CASE InitrdMake
  <2>1. PICK ok \in BOOLEAN : Outcome(ImageWanted, ok) /\ initrd' = (initrd \/ ok)
    BY <1>2 DEF InitrdMake, ImageWanted
  <2>2. /\ UNCHANGED <<sys, todo, torn, efi, defaults, rpmsave, cfgs, done>>
        /\ pc = IF DebianLike THEN "iniMake" ELSE "iniPre"
        /\ pc' = "iniMain"
    BY <1>2 DEF InitrdMake, Goto, run
  <2>3. FaultsGrow
    BY <2>1, OutcomeGrows
  <2>4. GrubTyped'
    BY <2>1, <2>2, <2>3 DEF ConfigInv, GrubTyped, FaultsGrow
  <2>5. ImageWanted /\ faults' = 0 => ok
    BY <2>1 DEF Outcome, Fails, ConfigInv, GrubTyped
  <2>6. ImageKept'
    <3>1. ImageSafe' => ImageSafe /\ ImageWanted /\ (DebianLike => faults' = 0)
      BY <2>2, <2>3, LastingMeans DEF ImageSafe, ImageWanted, DebianLike
    <3> QED  BY <2>1, <2>2, <2>5, <3>1 DEF ConfigInv, ImageKept, DebianLike
  <2> QED  BY <2>2, <2>3, <2>4, <2>6, InitrdStepKept DEF InitrdSteps
<1>3. CASE InitrdMain \/ InitrdEfi
  <2> DEFINE EfiThere == sys.distro = "ubuntu" /\ efi.mounted /\ cfgs.efi # NoCfg
  <2>1. \/ Mkconfig("iniMain", "iniEfi", "main", TRUE)
        \/ Mkconfig("iniMain", "next", "main", TRUE)
        \/ Mkconfig("iniEfi", "next", "efi", EfiThere)
    BY <1>3 DEF InitrdMain, InitrdEfi
  <2>2. /\ UNCHANGED <<sys, todo, torn, efi, defaults, rpmsave, initrd>> /\ pc \in {"iniMain", "iniEfi"}
        /\ pc' \in {"iniEfi", "next"} /\ FaultsGrow /\ GrubTyped'
        /\ \/ cfgs' \in {cfgs, [cfgs EXCEPT !["main"] = Settings]}
           \/ cfgs' \in {cfgs, [cfgs EXCEPT !["efi"] = Settings]} /\ (cfgs' # cfgs => EfiThere)
    <3>1. CASE Mkconfig("iniMain", "iniEfi", "main", TRUE)
      BY <3>1, Made DEF ConfigInv
    <3>2. CASE Mkconfig("iniEfi", "next", "efi", EfiThere)
      BY <3>2, Made DEF ConfigInv
    <3>3. CASE Mkconfig("iniMain", "next", "main", TRUE)
      BY <3>3, Made DEF ConfigInv
    <3> QED  BY <2>1, <3>1, <3>2, <3>3
  <2>3. /\ done' \in {done, done \cup {"initrd"}}
        /\ done' # done => faults' = 0
    BY <1>3 DEF InitrdMain, InitrdEfi, Finish
  <2>4. ImageKept'
    BY <2>2, <2>3, LastingMeans DEF ConfigInv, ImageKept, DebianLike, FaultsGrow, GrubTyped
  <2>5. /\ cfgs'.main \in {cfgs.main, Settings} /\ cfgs'.efi \in {cfgs.efi, Settings}
        /\ cfgs'.efi # cfgs.efi => sys.distro = "ubuntu" /\ efi.mounted
    BY <2>2 DEF ConfigInv, GrubTyped
  <2> QED  BY <2>2, <2>3, <2>4, <2>5, InitrdStepKept DEF InitrdSteps
<1> QED  BY <1>1, <1>2, <1>3

LEMMA ConfigStep == LinesInv /\ ConfigInv /\ [Next]_vars => ConfigInv'
<1> SUFFICES ASSUME LinesInv, ConfigInv, [Next]_vars PROVE ConfigInv'
  OBVIOUS
<1>1. CASE UNCHANGED vars \/ Rest
  <2>1. UNCHANGED <<sys, pc, todo, torn, efi, defaults, rpmsave, cfgs, initrd, done, faults>>
    BY <1>1 DEF vars, Rest, boot, grub, run
  <2>2. GrubTyped' /\ ImageKept' /\ Reached'
    BY <2>1 DEF ConfigInv, GrubTyped, ImageKept, ImageSafe, DebianLike, Reached
  <2>3. ASSUME Lasting' PROVE OneFull' /\ PreviousKept' /\ SerialKept'
    BY <2>1, <2>3 DEF ConfigInv, Lasting, OneConfig, OneFull, InitrdDue, Asked, Short, PreviousKept,
                      EfiPrevious, SerialKept, EfiSerial, Aside, Redirect, NoCfg
  <2> QED  BY <2>2, <2>3 DEF ConfigInv
<1>2. CASE Crash
  <2>1. UNCHANGED <<sys, boot, faults>> /\ pc' = "idle" /\ torn \subseteq torn'
    BY <1>2 DEF Crash
  <2>2. CASE pc \notin Away
    <3>1. pc = "iniMake" => ~ImageSafe' \/ ~DebianLike
      BY <1>2, <2>1, CrashTears DEF ImageSafe, DebianLike
    <3> QED  BY <2>1, <2>2, <3>1, NotConfig DEF Midway, Away, InitrdDue, InitrdSteps, FaultsGrow
  <2>3. CASE pc \in Away
    <3>1. UNCHANGED <<efi, defaults, rpmsave, cfgs, initrd, done>>
      BY <2>1 DEF boot, grub
    <3>2. sys.distro = "suse"
      BY <2>3 DEF ConfigInv, Reached, Away
    <3>3. ~Lasting'
      BY <1>2, <2>1, <2>3, <3>2, CrashTears DEF Lasting, Away
    <3>4. GrubTyped' /\ ImageKept' /\ Reached'
      BY <2>1, <2>3, <3>1, <3>2
         DEF ConfigInv, GrubTyped, ImageKept, ImageSafe, DebianLike, Reached, Away
    <3> QED  BY <3>3, <3>4 DEF ConfigInv
  <2> QED  BY <2>2, <2>3
<1>3. CASE ConfigNext
  BY <1>3, ConfigKernel, ConfigSerial, ConfigInitrd DEF ConfigNext
<1> QED  BY <1>1, <1>2, <1>3, ConfigStart, ConfigAction, ConfigOthers, ConfigGrub, ConfigEfi
         DEF Next, Step

\* Once kernel, serialconsole or initrd has come to its end without a fault, what it did is
\* in the grub.cfg that boots, or the initrd is there, whatever comes after, but for the
\* exceptions EffectsLast names.
THEOREM EffectsStay == Spec => []EffectsLast
<1>1. ConfigInv => EffectsLast
  <2> SUFFICES ASSUME ConfigInv PROVE EffectsLast
    OBVIOUS
  <2>1. (DebianLike => Remade) /\ "initrd" \in done => initrd
    BY DEF ConfigInv, ImageKept, ImageSafe, Remade
  <2>2. ASSUME Lasting, Booted # NoCfg, "kernel" \in done PROVE Booted.pick = "previous"
    BY <2>2 DEF ConfigInv, PreviousKept, EfiPrevious, Short, Booted, Lasting, OneConfig
  <2>3. ASSUME Lasting, Booted # NoCfg, "serialconsole" \in done PROVE Booted.serial
    BY <2>3 DEF ConfigInv, SerialKept, EfiSerial, Short, Booted, Lasting, OneConfig
  <2> QED  BY <2>1, <2>2, <2>3 DEF EffectsLast
<1> QED  BY <1>1, LinesInit, LinesStep, ConfigInit, ConfigStep, PTL DEF Spec
================================================================================
