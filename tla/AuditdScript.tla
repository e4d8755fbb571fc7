------------------------------ MODULE AuditdScript ------------------------------
(* auditd-impl.sh: no HALT in auditd.conf, and a full logical volume below the  *)
(* log directory, /, /var or /var/log grows by a tenth.                      *)
EXTENDS RepairState

\* grep -w: /var is also found in /var/log.
Matches(l) == \/ l.at = dir
              \/ dir = "/var"     /\ l.at \in {"/var/log", "/var/log/audit"}
              \/ dir = "/var/log" /\ l.at = "/var/log/audit"
Found      == \E i \in DOMAIN fstab : Matches(fstab[i])
FirstLine  == fstab[CHOOSE i \in DOMAIN fstab :
                       Matches(fstab[i]) /\ \A j \in 1..(i - 1) : ~Matches(fstab[j])]

\* dirname; without an argument it prints nothing.
Parent(d) == CASE d = "/var/log/audit" -> "/var/log"
               [] d = "/var/log"       -> "/var"
               [] d \in {"/var", "/"}  -> "/"
               [] d = ""               -> ""

\* df: what is mounted there, which of these is only /var, if it is a volume; the volume
\* the line names is mounted at another place, and only LOGDIR says where.
Holder(d) == IF d \in {"/var", "/var/log", "/var/log/audit"} /\ "/var" \in sys.lvs THEN "/var" ELSE "/"

\* CheckForAzureLinux, and the part before the first check_space_for_mount.
Configure ==
    /\ Goto("audConf", IF sys.distro = "azurelinux" THEN "next" ELSE "audWalk")
    /\ IF sys.distro = "azurelinux" THEN UNCHANGED aud
       ELSE /\ audit' = FALSE
            /\ dir' = sys.log
            /\ later' = {"/", "/var", "/var/log"}
            /\ need' = {"/", "/var", "/var/log"}
            /\ UNCHANGED volumes
    /\ UNCHANGED <<net, tab, boot, sudo, faults>>

\* Mutant: one flag for the three locations.
WalkOn ==
    /\ Goto("audWalk", IF Found THEN "audLook" ELSE "audWalk")
    /\ IF Found THEN UNCHANGED <<dir, need>>
       ELSE dir' = Parent(dir) /\ need' = {}
    /\ UNCHANGED <<later, audit, volumes, net, tab, boot, sudo, faults>>

\* Mutant: dirname is taken of the directory the function was called with.
WalkFromFirst ==
    /\ Goto("audWalk", IF Found THEN "audLook" ELSE "audWalk")
    /\ IF Found THEN UNCHANGED <<dir, need>>
       ELSE dir' = Parent(sys.log) /\ need' = need \ {dir'}
    /\ UNCHANGED <<later, audit, volumes, net, tab, boot, sudo, faults>>

\* until grep -q -w $DIRTEST /etc/fstab; each directory passed to is noted as done.
Walk ==
    /\ Goto("audWalk", IF Found THEN "audLook" ELSE "audWalk")
    /\ IF Found THEN UNCHANGED <<dir, need>>
       ELSE dir' = Parent(dir) /\ need' = need \ {dir'}
    /\ UNCHANGED <<later, audit, volumes, net, tab, boot, sudo, faults>>

\* The next of the important locations, if one is left.
Left == later \cap need
Foremost(S) == CASE "/" \in S                     -> "/"
                 [] "/" \notin S /\ "/var" \in S -> "/var"
                 [] S = {"/var/log"}             -> "/var/log"
Continue ==
    /\ Goto("audLook", IF Left = {} THEN "audEnd" ELSE "audWalk")
    /\ dir' = IF Left = {} THEN dir ELSE Foremost(Left)
    /\ later' = IF Left = {} THEN {} ELSE Left \ {Foremost(Left)}
    /\ UNCHANGED <<need, audit, net, tab, boot, sudo>>

\* blkid prints UUID="...", and no line of it has the UUID as fstab has it: only a line
\* that names the volume is known to be of one.
Growable ==
    LET p == FirstLine.at
    IN  /\ FirstLine.by = "volume" /\ p \in sys.lvs
        /\ Holder(dir) \in volumes.full
        /\ volumes.free > sys.tenth[p]

\* lvextend --resizefs: done; nothing done; or the volume grown and the file system not.
Grow ==
    LET p == FirstLine.at
        more(v) == [v EXCEPT !.grown[p] = @ + 1, !.free = @ - sys.tenth[p]]
    IN  \/ Works /\ volumes' = [more(volumes) EXCEPT !.full = @ \ {p}]
        \/ Fails /\ UNCHANGED volumes
        \/ Fails /\ volumes' = more(volumes)

Look == Continue /\ IF Growable THEN Grow ELSE UNCHANGED <<volumes, faults>>

AuditEnd == Goto("audEnd", "next") /\ UNCHANGED <<aud, net, tab, boot, sudo, faults>>

AuditNext == Configure \/ Walk \/ Look \/ AuditEnd
==============================================================================
