------------------------------ MODULE RepairState ------------------------------
(***************************************************************************)
(* What the repair scripts find and change on the system below              *)
(* /srv/rescue-root: /etc/fstab and its copies, /etc/resolv.conf, the EFI     *)
(* file system, GRUB's configuration, logical volumes, the files of sudo.     *)
(* Each script runs in the chroot, one command at a time, and can be killed   *)
(* with the program.                                                        *)
(***************************************************************************)
EXTENDS Faults, Sequences, FiniteSets

CONSTANTS
    Systems,      \* the systems to repair, see System
    MaxRuns,      \* bound: runs of the program for the system
    MaxCrashes    \* bound: runs killed half way

\* A line of fstab: where, by which kind of name, and for "uuid" which one.  A number
\* stands for a UUID; 0 is the empty one.
Places == {"/", "/boot", "/boot/efi", "/home", "/opt", "/tmp", "/usr", "/var",
           "/var/log", "/var/log/audit", "/data", "/mnt", "bek"}
Kinds  == {"uuid", "device", "label", "volume", "resource", "bek"}
Line   == [at : Places, by : Kinds, ref : Nat]

RootUuid == 1
BootUuid == 2
EfiUuid  == 10   \* of the EFI file system; each mkfs.vfat gives it the next number

\* six: there is a 6 in VERSION_ID.  bios: GRUB for BIOS fits on the disk.  seen: the UUID
\* blkid shows for what fstab names as "/", on the recovery VM.  log: the directory of log_file
\* in auditd.conf, "" if there is none, halt: HALT is in it.  lvs: the file systems on logical
\* volumes, full: used beyond 95%; tenth, free: space 10% of one takes, and space in the group.
\* gawk: awk knows [[:space:]], as an old mawk does not.  fast: of two fstab actions in one
\* list, the second can begin within the second of the first.
\* sudo: see SudoScript; grub, image: see ConfigScripts.  lists: the actions a run may
\* be asked for, some of them perhaps twice.
Dirs   == {"/var/log/audit", "/var/log", "/var", "/", ""}
Names  == {"fstab", "grubfix", "efifix", "auditd", "sudo", "kernel", "serialconsole", "initrd"}
SudoFiles == [mode : {"right", "wrong", "bare", "closed"}, owner : {"root", "other"},
              link : {"none", "root", "other"}, conf : {"right", "wrong"}, confOwner : {"root", "other"},
              twice : BOOLEAN, targetpw : BOOLEAN]
GrubFiles == [vendor : {"redhat", "alma", "oracle"}, stub : BOOLEAN,
              pick : {"none", "comment", "saved"}, file : BOOLEAN, bls : BOOLEAN]
System == [distro : {"redhat", "suse", "ubuntu", "debian", "azurelinux"},
           six : BOOLEAN, lvm : BOOLEAN, bios : BOOLEAN, boot : BOOLEAN, efi : BOOLEAN,
           fstab : Seq(Line), seen : Nat,
           log : Dirs, halt : BOOLEAN, lvs : SUBSET Places, full : SUBSET Places,
           tenth : [Places -> Nat], free : Nat, gawk : BOOLEAN, fast : BOOLEAN,
           sudo : SudoFiles, grub : GrubFiles, image : [there : BOOLEAN, known : BOOLEAN],
           lists : SUBSET Seq(Names)]

ASSUME SystemAssumption ==
    /\ Systems \subseteq System
    /\ \A s \in Systems : s.grub.file \/ s.grub.pick = "none"
    /\ \A s \in Systems : s.full \subseteq s.lvs
    /\ \A s \in Systems : s.distro \notin {"ubuntu", "debian"} => s.gawk
ASSUME BoundAssumption == MaxRuns \in Nat /\ MaxCrashes \in Nat

VARIABLES
    sys,           \* the system
    pc,            \* next command of the script; "next" between scripts
    todo,          \* actions still to run
    fstab,         \* /etc/fstab; <<>> if there is none
    copies,        \* /etc/fstab.copy-<seconds>; one of no lines stands for none, too
    stamp,         \* a number for the second of the last mv to such a copy
    gawk,          \* whether awk knows [[:space:]]
    resolv,        \* what is in /etc/resolv.conf, in resolv.conf.org and in the file
    org, typo,     \*   resolve.conf: the system's own ("own"), "azure" or "none"
    efi,           \* the EFI file system: its UUID, and whether it is mounted
    defaults,      \* GRUB's defaults: which kernel, whether with the serial console
    rpmsave,       \*   those zypper has put aside
    cfgs,          \*   what grub.cfg, "main", and that of the EFI partition were made from
    initrd,        \* whether the kernel's initrd is there
    done,          \* actions on these four that came to their end without a fault
    dir,           \* auditd: the directory looked for in fstab
    later, need,   \*   which of / /var /var/log come later; which still have to be checked
    audit,         \*   whether HALT is in auditd.conf
    volumes,       \*   the logical volumes: full ones, times grown, space left
    sudo,          \* the files of sudo
    torn,          \* what a kill has hit at a weak moment, see WeakSteps
    runs, crashes
net    == <<resolv, org, typo>>
tab    == <<fstab, copies, stamp, gawk>>
grub   == <<defaults, rpmsave, cfgs, initrd, done>>
boot   == <<efi, grub>>
aud    == <<dir, later, need, audit, volumes>>
run    == <<sys, runs, crashes, torn>>
vars   == <<pc, todo, net, tab, boot, aud, sudo, run, faults>>

Goto(here, there) == pc = here /\ pc' = there /\ UNCHANGED <<todo, run>>

\* The lines at these positions, in their order.
Position(S, n)    == CHOOSE i \in S : Cardinality({j \in S : j < i}) = n - 1
LinesAt(lines, S) == [n \in 1..Cardinality(S) |-> lines[Position(S, n)]]

At(lines, p) == LinesAt(lines, {i \in DOMAIN lines : lines[i].at = p})

\* Of an EFI partition: a grub.cfg that leads to the main one, and none at all.
Redirect == [pick |-> "redirect", serial |-> FALSE]
NoCfg    == [pick |-> "absent", serial |-> FALSE]
Settings == [pick |-> defaults.pick, serial |-> defaults.serial]

\* grub2-mkconfig -o, update-grub; no status is looked at.
Mkconfig(here, there, which, possible) ==
    /\ Goto(here, there)
    /\ \E ok \in BOOLEAN :
          /\ Outcome(possible, ok)
          /\ cfgs' = IF ok THEN [cfgs EXCEPT ![which] = Settings] ELSE cfgs
    /\ UNCHANGED <<efi, defaults, rpmsave, initrd, net, tab, aud, sudo>>

------------------------------------------------------------------------------
(* resolv-pre and resolv-after, which three scripts define alike but for one *)
(* letter.                                                                  *)

\* mv /etc/resolv.conf /etc/resolv.conf.org
MoveResolv(here, there) ==
    /\ Goto(here, there)
    /\ IF resolv = "none" THEN UNCHANGED net
       ELSE org' = resolv /\ resolv' = "none" /\ UNCHANGED typo
    /\ UNCHANGED <<tab, boot, aud, sudo, faults>>

\* echo "nameserver ..." >/etc/resolv.conf
WriteResolv(here, there) ==
    /\ Goto(here, there)
    /\ resolv' = "azure"
    /\ UNCHANGED <<org, typo, tab, boot, aud, sudo, faults>>

\* mv /etc/resolv.conf.org /etc/resolve.conf
MisplaceResolv(here, there) ==
    /\ Goto(here, there)
    /\ IF org = "none" THEN UNCHANGED net
       ELSE typo' = org /\ org' = "none" /\ UNCHANGED resolv
    /\ UNCHANGED <<tab, boot, aud, sudo, faults>>

\* mv /etc/resolv.conf.org /etc/resolv.conf
RestoreResolv(here, there) ==
    /\ Goto(here, there)
    /\ IF org = "none" THEN UNCHANGED net
       ELSE resolv' = org /\ org' = "none" /\ UNCHANGED typo
    /\ UNCHANGED <<tab, boot, aud, sudo, faults>>
==============================================================================
