------------------------------- MODULE SudoScript -------------------------------
(* sudo-impl.sh with fixPerm, fixOwner and backup of helpers.sh: who may use    *)
(* sudo, and whether it can.                                                *)
EXTENDS RepairState

\* mode: of the binary, "bare" is the right one without the setuid bit, "closed" one nobody
\* may execute; owner: of the binary.  link: the owner of the link sudo is, "none" if it is
\* none.  conf, confOwner: of /etc/sudoers and what is in /etc/sudoers.d.  twice: a user
\* of sudoers.d/waagent is in another file too.  targetpw: Defaults targetpw.
Fix(here, there) == Goto(here, there) /\ UNCHANGED <<net, tab, boot, aud>>

\* chmod or chown, when the check finds a difference; its failure is only reported.
Apply(wrong, new) ==
    \E ok \in BOOLEAN : Outcome(wrong, ok) /\ sudo' = IF ok THEN new ELSE sudo

MoveWaagent == Fix("sudoDup", "sudoConfMode")   /\ Apply(sudo.twice, [sudo EXCEPT !.twice = FALSE])
ConfMode    == Fix("sudoConfMode", "sudoConfOwner")
               /\ Apply(sudo.conf = "wrong", [sudo EXCEPT !.conf = "right"])
ConfOwner   == Fix("sudoConfOwner", "sudoTargetpw")
               /\ Apply(sudo.confOwner = "other", [sudo EXCEPT !.confOwner = "root"])
Targetpw    == Fix("sudoTargetpw", "sudoMode")
               /\ Apply(sudo.targetpw, [sudo EXCEPT !.targetpw = FALSE])

\* which finds what may be executed; without its path the fix is aborted.  stat shows the
\* mode and the owner of a link, chmod and chown change what it leads to.
Which  == sudo.mode # "closed"
Linked == sudo.link # "none"
Shown  == IF Linked THEN sudo.link ELSE sudo.owner

\* Mutant: three digits of the mode are compared.
BinModeOfThree == Fix("sudoMode", "sudoOwner")
                  /\ Apply(Which /\ (Linked \/ sudo.mode = "wrong"), [sudo EXCEPT !.mode = "right"])

\* fixPerm $(which sudo): the mode of a link is always another.
BinMode     == Fix("sudoMode", "sudoOwner")
               /\ Apply(Which /\ (Linked \/ sudo.mode # "right"), [sudo EXCEPT !.mode = "right"])

\* chown takes the setuid bit away.
Chowned(s)  == [s EXCEPT !.owner = "root", !.mode = IF @ = "right" THEN "bare" ELSE @]

\* fixOwner $(which sudo) root:root.
BinOwner    == Fix("sudoOwner", "sudoEnd") /\ Apply(Which /\ Shown = "other", Chowned(sudo))

\* /etc itself is only looked at.
SudoEnd     == Fix("sudoEnd", "next") /\ UNCHANGED <<sudo, faults>>

SudoNext == MoveWaagent \/ ConfMode \/ ConfOwner \/ Targetpw \/ BinMode \/ BinOwner \/ SudoEnd
==============================================================================
