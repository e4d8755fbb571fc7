----------------------------- MODULE RepairScripts -----------------------------
(***************************************************************************)
(* The actions of a run, one script after the other, on one system.  They     *)
(* meet in /etc/fstab, which three of them read or write, in /etc/resolv.conf, *)
(* in grub.cfg, and in what a run that was killed, or a script that gave up,   *)
(* has left.                                                                *)
(***************************************************************************)
EXTENDS FstabScript, BootScripts, AuditdScript, SudoScript, ConfigScripts

Init ==
    /\ sys \in Systems
    /\ pc = "idle" /\ todo = <<>>
    /\ fstab = sys.fstab /\ copies = <<>> /\ stamp = 0 /\ gawk = sys.gawk
    /\ resolv = "own" /\ org = "none" /\ typo = "none"
    /\ efi = [uuid |-> EfiUuid, mounted |-> FALSE]
    /\ defaults = [pick |-> sys.grub.pick, serial |-> FALSE, file |-> sys.grub.file]
    /\ rpmsave = NoFile
    /\ cfgs = [main |-> Settings,
               efi  |-> IF ~sys.efi THEN NoCfg ELSE IF sys.grub.stub THEN Redirect ELSE Settings]
    /\ initrd = sys.image.there /\ done = {}
    /\ dir = "" /\ later = {} /\ need = {} /\ audit = sys.halt
    /\ volumes = [full |-> sys.full, grown |-> [p \in Places |-> 0], free |-> sys.free]
    /\ sudo = sys.sudo
    /\ torn = {} /\ runs = 0 /\ crashes = 0 /\ faults = 0

\* A run mounts the EFI partition, if there is one, and copies the scripts; it takes longer
\* than a second.
Start ==
    /\ pc = "idle" /\ runs < MaxRuns
    /\ pc' = "next" /\ todo' \in sys.lists
    /\ runs' = runs + 1 /\ stamp' = stamp + 1
    /\ efi' = [efi EXCEPT !.mounted = sys.efi]
    /\ UNCHANGED <<sys, crashes, torn, net, fstab, copies, gawk, grub, aud, sudo, faults>>

First == [fstab |-> "fstabSave", grubfix |-> "grubPre", efifix |-> "efiPre",
          auditd |-> "audConf", sudo |-> "sudoDup",
          kernel |-> "kerLine", serialconsole |-> "serLine", initrd |-> "iniPre"]

\* The loop over the actions; nobody looks at the status of the last one.
NextAction ==
    /\ pc = "next"
    /\ IF todo = <<>> THEN pc' = "idle" /\ todo' = todo
       ELSE pc' = First[Head(todo)] /\ todo' = Tail(todo)
    /\ UNCHANGED <<run, net, tab, boot, aud, sudo, faults>>

\* Moments at which a kill leaves what later runs do not put right: fstab is half built, the
\* old initrd is gone, the defaults of GRUB are put aside, resolv.conf is the script's own.
WeakSteps == [fstab  |-> FstabSteps,
              initrd |-> {"iniMake"},
              efifix |-> {"efiInstall", "efiCopy"},
              resolv |-> {"fstabWrite", "fstabGawk", "fstabAfter",
                          "grubWrite", "grubInstall", "grubConfig", "grubAfter"}]

\* The program is killed, and the script with it.
Crash ==
    /\ pc # "idle" /\ crashes < MaxCrashes
    /\ pc' = "idle" /\ todo' = <<>>
    /\ crashes' = crashes + 1
    /\ torn' = torn \cup {s \in DOMAIN WeakSteps : pc \in WeakSteps[s]}
    /\ UNCHANGED <<sys, runs, net, tab, boot, aud, sudo, faults>>

Rest == pc = "idle" /\ runs = MaxRuns /\ UNCHANGED vars

Step == NextAction \/ FstabNext \/ GrubNext \/ EfiNext \/ AuditNext \/ SudoNext \/ ConfigNext
Next == Start \/ Step \/ Crash \/ Rest
Spec == Init /\ [][Next]_vars

\* A script that can go on does; the program waits for it.
FairSpec == Spec /\ WF_vars(Step)

------------------------------------------------------------------------------
(* Properties *)

\* "the administrator needs to reapply the previous mount lines" (fstab-impl.sh): each
\* line the system had, other than the one efifix changes, is in fstab or in a copy,
\* however often the action runs and wherever it is killed.  Not where two of them in a run
\* can name their copies by the same second: the second copy takes the place of the first.
Kept(l)   == (\E i \in DOMAIN fstab : fstab[i] = l)
             \/ \E c \in DOMAIN copies : \E i \in DOMAIN copies[c] : copies[c][i] = l
LinesKept == ~sys.fast =>
    \A i \in DOMAIN sys.fstab : sys.fstab[i].at # "/boot/efi" => Kept(sys.fstab[i])

\* A table as one expects it: no place twice, each UUID that of what is there, and the
\* lines of the resource disk and the BEK volume where these go.
Orderly(lines) ==
    /\ \A i, j \in DOMAIN lines : lines[i].at = lines[j].at => i = j
    /\ \A i \in DOMAIN lines :
          LET l == lines[i]
          IN  /\ l.by = "uuid" => CASE l.at = "/"         -> l.ref = RootUuid
                                    [] l.at = "/boot"     -> l.ref = BootUuid
                                    [] l.at = "/boot/efi" -> l.ref = EfiUuid
                                    [] OTHER              -> TRUE
              /\ l.by = "resource" => l.at = "/mnt"
              /\ l.by = "bek" => l.at = "bek"

\* The systems whose root fstab-impl.sh can name again: by a UUID or by a name the
\* recovery VM knows for the same device, and by a volume with LVM.
RootNameable ==
    \E i \in DOMAIN sys.fstab :
        /\ sys.fstab[i].at = "/"
        /\ IF sys.lvm THEN sys.fstab[i].by = "volume"
           ELSE sys.fstab[i].by = "uuid" \/ sys.seen = RootUuid

\* "to allow a successfully boot": outside the script there is one line for the root,
\* and it and that for /boot name what they named.  Where awk cannot find the lines before
\* gawk is there, this is said as long as no command has failed, the installation of gawk
\* above all; a kill inside the script (torn) leaves half a table.
RightName(l) == l.by = "uuid" => CASE l.at = "/"     -> l.ref = RootUuid
                                   [] l.at = "/boot" -> l.ref = BootUuid
                                   [] OTHER          -> TRUE
FstabBoots ==
    /\ Orderly(sys.fstab) /\ RootNameable
    /\ sys.gawk \/ faults = 0
    /\ "fstab" \notin torn /\ pc \notin FstabSteps
    =>
        /\ Len(At(fstab, "/")) = 1
        /\ \A i \in DOMAIN fstab : RightName(fstab[i])

\* A line for /boot/efi that names a UUID names the file system that is there: when
\* efifix has mounted the new one, and at the end of runs that met no fault and no kill.
\* Not on Ubuntu, where it is given "UUID=".
EfiEntryFits ==
    /\ sys.distro # "ubuntu" /\ Orderly(sys.fstab)
    /\ \/ pc = "efiAfter" /\ efi.mounted
       \/ pc = "idle" /\ faults = 0 /\ crashes = 0
    => \A i \in DOMAIN fstab :
          fstab[i].at = "/boot/efi" /\ fstab[i].by = "uuid" => fstab[i].ref = efi.uuid

\* "if the volume containing the audit logs is full, and free space is available ...
\* extended by 10%" (README), for the volumes df measures, / and /var, where fstab names
\* /var before what is below it: neither is full if there was space, neither grew twice, and
\* no volume, /var/log or that of the logs either, grew unless that was full in which df
\* finds it.
VarFirst(lines) == \A i \in DOMAIN lines : lines[i].at \in {"/var/log", "/var/log/audit"} =>
                       \E j \in 1..(i - 1) : lines[j].at = "/var"
Measured == {"/", "/var"}
AuditDone ==
    pc = "audEnd" /\ Orderly(sys.fstab) /\ VarFirst(sys.fstab) /\ faults = 0 =>
        /\ ~audit
        /\ \A i \in DOMAIN fstab :
              LET p == fstab[i].at
              IN  p \in Measured /\ fstab[i].by = "volume" =>
                      p \notin volumes.full \/ volumes.free <= sys.tenth[p]
        /\ \A p \in Measured : volumes.grown[p] <= 1
        /\ \A p \in Places : volumes.grown[p] > 0 => Holder(p) \in sys.full

\* "restore the originail resolv.conf": between the scripts it is the system's own, a link or
\* a file, whatever lists of fstab and grubfix are run, and whatever fails; not after efifix,
\* nor where grub2-install can fail and its failure ends the script, nor once a kill has
\* come between the two mv.
ResolvSafe == \A l \in sys.lists : \A i \in DOMAIN l :
                 /\ l[i] # "efifix"
                 /\ l[i] = "grubfix" => ~GrubChecked \/ (sys.bios /\ faults = 0)
ResolvRestored ==
    pc \in {"idle", "next"} /\ ResolvSafe /\ "resolv" \notin torn => resolv = "own"

\* "reset the permissions on the /etc/sudoers file ..." (README): the files of sudoers are
\* right at the end.  So is the owner of a binary that which finds, but behind a link that
\* is root's it is never looked at, and its mode, unless chown had to be called.
SudoReset ==
    pc = "sudoEnd" /\ faults = 0 =>
        /\ sudo.conf = "right" /\ sudo.confOwner = "root"
        /\ ~sudo.twice /\ ~sudo.targetpw
        /\ sys.sudo.mode # "closed" =>
              /\ sudo.link # "root" => sudo.owner = "root"
              /\ \/ sudo.link = "root"
                 \/ sudo.link = "none" /\ sys.sudo.owner = "root"
                 => sudo.mode = "right"

\* Every run ends.  auditd does not where auditd.conf names no file, nor once a kill or
\* the fstab action, perhaps for want of gawk, has left no line for the root.
AuditEnds == sys.log # "" /\ RootNameable /\ sys.gawk
RunEnds   == pc # "idle" /\ AuditEnds /\ "fstab" \notin torn ~> pc = "idle"

\* "fix the following conditions ... the sudo binary does not have the correct setuid
\* bits" (sudo-impl.sh).
SudoBinaryWorks == pc = "sudoEnd" /\ faults = 0 => sudo.mode = "right"

\* The grub.cfg the firmware leads to; with files in /boot/loader/entries, what these say.
Entries == [pick |-> "saved", serial |-> FALSE]
Booted  ==
    IF sys.grub.bls THEN Entries
    ELSE IF sys.efi /\ cfgs.efi # Redirect THEN cfgs.efi ELSE cfgs.main

\* What an action did lasts: once kernel, serialconsole or initrd has come to its end
\* without a fault, the kernel to boot, the console and the initrd are what it made them,
\* whatever actions, faults and kills follow, with these exceptions.  Kernel and console:
\* where GRUB_DEFAULT is in a comment, the entries of /boot/loader decide, or a grub.cfg on
\* the EFI partition is out of some script's reach (OneConfig); on SUSE, once a command has
\* failed or efifix was killed while the defaults were put aside.  The initrd: on Ubuntu and
\* Debian, which remove it to make it again, between the two and once a command has failed
\* or a kill has come there.
OneConfig ==
    /\ ~sys.grub.bls /\ sys.grub.pick # "comment"
    /\ sys.grub.stub \/ sys.distro = "redhat"
    /\ sys.distro = "redhat" => sys.grub.vendor = "redhat"
    /\ sys.distro = "ubuntu" => \A l \in sys.lists : \A i \in DOMAIN l : l[i] # "initrd"
Lasting == OneConfig /\ (sys.distro = "suse" => faults = 0 /\ "efifix" \notin torn)
Remade  == sys.image.known /\ faults = 0 /\ "initrd" \notin torn /\ pc # "iniMake"
EffectsLast ==
    /\ Lasting /\ Booted # NoCfg /\ "kernel" \in done => Booted.pick = "previous"
    /\ Lasting /\ Booted # NoCfg /\ "serialconsole" \in done => Booted.serial
    /\ (DebianLike => Remade) /\ "initrd" \in done => initrd

\* "It modifies the configuration so that the previous kernel version gets booted" (README).
PreviousBoots == "kernel" \in done /\ Booted # NoCfg => Booted.pick = "previous"
==============================================================================
