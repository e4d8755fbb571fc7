------------------------------ MODULE FstabScript ------------------------------
(* fstab-impl.sh: /etc/fstab is moved away and built anew from the lines a    *)
(* boot needs.                                                              *)
EXTENDS RepairState

FstabSteps == {"fstabPre", "fstabWrite", "fstabGawk", "fstabAfter", "fstabRoot", "fstabBoot",
               "fstabEfi", "fstabResource", "fstabBek",
               "fstabHome", "fstabOpt", "fstabTmp", "fstabUsr", "fstabVar"}

\* The seconds the next mv to a copy can fall in.
Seconds == IF stamp \in DOMAIN copies
           THEN {stamp + 1} \cup (IF sys.fast THEN {stamp} ELSE {})
           ELSE {stamp}

\* Mutant: one copy, without a time stamp.
SaveOnce ==
    /\ Goto("fstabSave", "fstabPre")
    /\ stamp' \in Seconds
    /\ copies' = [c \in {1, stamp'} |-> fstab]
    /\ fstab' = <<>>
    /\ UNCHANGED <<gawk, net, boot, aud, sudo, faults>>

\* mv -f /etc/fstab{,.copy-${timestamp}}
Save ==
    /\ Goto("fstabSave", "fstabPre")
    /\ stamp' \in Seconds
    /\ copies' = [c \in DOMAIN copies \cup {stamp'} |-> IF c = stamp' THEN fstab ELSE copies[c]]
    /\ fstab' = <<>>
    /\ UNCHANGED <<gawk, net, boot, aud, sudo, faults>>

Saved == IF stamp \in DOMAIN copies THEN copies[stamp] ELSE <<>>

\* apt-get install -qq -y gawk: nobody looks at its status.
InstallGawk ==
    /\ Goto("fstabGawk", "fstabAfter")
    /\ \E ok \in BOOLEAN :
          /\ Outcome(sys.distro \in {"ubuntu", "debian"}, ok)
          /\ gawk' = (gawk \/ ok)
    /\ UNCHANGED <<fstab, copies, stamp, net, boot, aud, sudo>>

\* awk '/[[:space:]]+\/boot[[:space:]]+/ {print}'; the other lines are found without classes.
Printed(place) == IF gawk THEN At(Saved, place) ELSE <<>>
PrintedBy(kind) == LinesAt(Saved, {i \in DOMAIN Saved : Saved[i].by = kind})
Volume(place)   == LinesAt(Saved, {i \in DOMAIN Saved : Saved[i].by = "volume" /\ Saved[i].at = place})

Write(here, there, lines) ==
    /\ Goto(here, there)
    /\ fstab' = fstab \o lines
    /\ UNCHANGED <<copies, stamp, gawk, net, boot, aud, sudo, faults>>

\* sed puts a UUID in place of a name; without one name and one UUID it fails.
Translated(lines, uuid) == [i \in DOMAIN lines |-> [lines[i] EXCEPT !.by = "uuid", !.ref = uuid]]

ByUuid(lines) == lines # <<>> /\ lines[1].by = "uuid"

\* Mutant: a line that is based on a UUID is translated too.
WriteRootAgain ==
    Write("fstabRoot", "fstabBoot",
          IF sys.lvm THEN Volume("/") ELSE Translated(Printed("/"), sys.seen))

\* fstab_root, or rootvg-rootlv: the UUID is that of the device so named on the
\* recovery VM.
WriteRoot ==
    Write("fstabRoot", "fstabBoot",
          IF sys.lvm THEN Volume("/")
          ELSE IF ByUuid(Printed("/")) THEN Printed("/")
          ELSE Translated(Printed("/"), sys.seen))

\* A line of the old file, as it is or with the UUID of what is mounted; or a new one.
Entry(place, mounted, uuid) ==
    LET old == Printed(place)
    IN  CASE ByUuid(old)                       -> old
          [] ~ByUuid(old) /\ ~mounted          -> <<>>
          [] mounted /\ old = <<>>             -> <<[at |-> place, by |-> "uuid", ref |-> uuid]>>
          [] mounted /\ old # <<>> /\ ~ByUuid(old) -> Translated(old, uuid)

\* boot_efi_mnt.
WriteBoot == Write("fstabBoot", "fstabEfi", Entry("/boot", sys.boot, BootUuid))
WriteEfi  == Write("fstabEfi", "fstabResource", Entry("/boot/efi", efi.mounted, efi.uuid))

WriteResource == Write("fstabResource", "fstabBek", PrintedBy("resource"))
WriteBek      == Write("fstabBek", IF sys.lvm THEN "fstabHome" ELSE "next", PrintedBy("bek"))

\* With LVM, one awk for each volume but that of the root.
VolumeOf == [fstabHome |-> "/home", fstabOpt |-> "/opt", fstabTmp |-> "/tmp",
             fstabUsr |-> "/usr", fstabVar |-> "/var"]
AfterIt  == [fstabHome |-> "fstabOpt", fstabOpt |-> "fstabTmp", fstabTmp |-> "fstabUsr",
             fstabUsr |-> "fstabVar", fstabVar |-> "next"]
WriteVolume == pc \in DOMAIN VolumeOf /\ Write(pc, AfterIt[pc], Volume(VolumeOf[pc]))

FstabNext ==
    \/ Save
    \/ MoveResolv("fstabPre", "fstabWrite")
    \/ WriteResolv("fstabWrite", "fstabGawk")
    \/ InstallGawk
    \/ RestoreResolv("fstabAfter", "fstabRoot")
    \/ WriteRoot \/ WriteBoot \/ WriteEfi \/ WriteResource \/ WriteBek \/ WriteVolume
==============================================================================
