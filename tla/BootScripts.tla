------------------------------ MODULE BootScripts ------------------------------
(* grubfix-impl.sh and efifix-impl.sh: the boot loader of a BIOS disk and the  *)
(* EFI partition are made anew.                                             *)
EXTENDS RepairState

\* On Ubuntu and Debian the scripts call resolve-pre, which nobody defines.
HasPre == sys.distro \in {"redhat", "suse", "azurelinux"}

Same == UNCHANGED <<net, tab, boot, aud, sudo, faults>>

\* The version is asked for a 6 anywhere.
GrubRefused == sys.distro = "redhat" /\ sys.six

GrubRefuse == GrubRefused /\ Goto("grubPre", "next") /\ Same
GrubNoPre  == ~HasPre /\ Goto("grubPre", "grubInstall") /\ Same
GrubMove   == HasPre /\ ~GrubRefused /\ MoveResolv("grubPre", "grubWrite")

\* grub2-install, with its packages; on SUSE it is given "{/dev/...}", which is no disk.
GrubFits   == sys.bios /\ sys.distro # "suse"
\* Only two of the four look at its status, and exit.
GrubChecked == sys.distro \in {"redhat", "azurelinux"}
GrubInstall ==
    /\ \E ok \in BOOLEAN :
          /\ Outcome(GrubFits, ok)
          /\ Goto("grubInstall", IF ok \/ ~GrubChecked THEN "grubConfig" ELSE "next")
    /\ UNCHANGED <<net, tab, boot, aud, sudo>>

GrubConfig == Mkconfig("grubConfig", "grubAfter", "main", TRUE) /\ UNCHANGED done

GrubNext ==
    \/ GrubRefuse \/ GrubNoPre \/ GrubMove
    \/ WriteResolv("grubWrite", "grubInstall")
    \/ GrubInstall \/ GrubConfig
    \/ RestoreResolv("grubAfter", "next")

------------------------------------------------------------------------------
\* Nothing is done on Debian.
EfiNoPre == ~HasPre /\ Same /\ Goto("efiPre", IF sys.distro = "ubuntu" THEN "efiUmount" ELSE "next")
EfiMove  == HasPre /\ MoveResolv("efiPre", "efiWrite")

\* findmnt /boot/efi.
EfiCheck == Goto("efiCheck", IF efi.mounted THEN "efiUmount" ELSE "next") /\ Same

\* umount, mkfs.vfat, mount: no status is looked at.
EfiUmount ==
    /\ Goto("efiUmount", "efiMkfs")
    /\ \E ok \in BOOLEAN :
          Outcome(efi.mounted, ok) /\ efi' = [efi EXCEPT !.mounted = @ /\ ~ok]
    /\ UNCHANGED <<net, tab, grub, aud, sudo>>

\* What is mounted mkfs.vfat refuses to format.
EfiMkfs ==
    /\ Goto("efiMkfs", "efiMount")
    /\ \E ok \in BOOLEAN :
          /\ Outcome(sys.efi /\ ~efi.mounted, ok)
          /\ efi' = [efi EXCEPT !.uuid = IF ok THEN @ + 1 ELSE @]
          /\ cfgs' = IF ok THEN [cfgs EXCEPT !.efi = NoCfg] ELSE cfgs
    /\ UNCHANGED <<net, tab, defaults, rpmsave, initrd, done, aud, sudo>>

EfiMount ==
    /\ Goto("efiMount", CASE sys.distro = "redhat" -> "efiMain"
                          [] sys.distro = "suse"   -> "efiRemove"
                          [] OTHER                 -> "efiOwn")
    /\ \E ok \in BOOLEAN :
          /\ Outcome(sys.efi /\ ~efi.mounted, ok)
          /\ efi' = [efi EXCEPT !.mounted = @ \/ ok]
    /\ UNCHANGED <<net, tab, grub, aud, sudo>>

\* /etc/default/grub as the package brings it, and none.
Packaged == [pick |-> "saved", serial |-> FALSE, file |-> TRUE]
NoFile   == [pick |-> "none", serial |-> FALSE, file |-> FALSE]

\* SUSE: zypper remove -y grub2-x86_64-efi; the file is put aside, but perhaps not if it is
\* that of the package.
EfiRemove ==
    /\ Goto("efiRemove", "efiInstall")
    /\ \/ Works /\ defaults' = NoFile
          /\ rpmsave' \in IF ~defaults.file THEN {rpmsave}
                         ELSE {defaults} \cup (IF defaults = Packaged THEN {rpmsave} ELSE {})
       \/ Fails /\ UNCHANGED <<defaults, rpmsave>>
    /\ UNCHANGED <<efi, cfgs, initrd, done, net, tab, aud, sudo>>

\* zypper install -y grub2-x86_64-efi
EfiInstall ==
    /\ Goto("efiInstall", "efiCopy")
    /\ \E ok \in BOOLEAN :
          Outcome(~defaults.file, ok) /\ defaults' = IF ok THEN Packaged ELSE defaults
    /\ UNCHANGED <<efi, rpmsave, cfgs, initrd, done, net, tab, aud, sudo>>

\* cp /etc/default/grub.rpmsave /etc/default/grub
EfiCopy ==
    /\ Goto("efiCopy", "efiOwn")
    /\ defaults' = IF rpmsave.file THEN rpmsave ELSE defaults
    /\ UNCHANGED <<efi, rpmsave, cfgs, initrd, done, net, tab, aud, sudo, faults>>

\* The packages, and a grub.cfg on the EFI partition: a full one on Red Hat, where the
\* directory is looked for as redhat or centos, and else one that leads to the main one.
EfiOwn ==
    /\ Goto("efiOwn", IF sys.distro \in {"suse", "ubuntu"} THEN "efiMain" ELSE "efiSed")
    /\ \E ok \in BOOLEAN :
          /\ Outcome(efi.mounted /\ (sys.distro = "redhat" => sys.grub.vendor # "alma"), ok)
          /\ cfgs' = IF ok THEN [cfgs EXCEPT !.efi = IF sys.distro = "redhat" THEN Settings
                                                    ELSE Redirect]
                     ELSE cfgs
    /\ UNCHANGED <<efi, defaults, rpmsave, initrd, done, net, tab, aud, sudo>>

EfiMain ==
    /\ Mkconfig("efiMain", CASE sys.distro = "redhat"              -> "efiOwn"
                             [] sys.distro \in {"suse", "ubuntu"} -> "efiSed"
                             [] OTHER                             -> "efiAfter", "main", TRUE)
    /\ UNCHANGED done

\* On Azure Linux initrd-impl.sh is called; its grub.cfg is the one made next.
EfiImage ==
    /\ Goto("efiImage", "efiMain")
    /\ \E ok \in BOOLEAN : Outcome(TRUE, ok) /\ initrd' = (initrd \/ ok)
    /\ UNCHANGED <<efi, defaults, rpmsave, cfgs, done, net, tab, aud, sudo>>

\* The new name: the UUID of what is mounted; on Ubuntu that of a variable never set.
NewEfiName == IF sys.distro = "ubuntu" THEN 0 ELSE efi.uuid

\* One name without a slash can be put in another's place.
Replaceable ==
    /\ \E i \in DOMAIN fstab : fstab[i].at = "/boot/efi" /\ fstab[i].by # "device"
    /\ \A i, j \in DOMAIN fstab :
          fstab[i].at = "/boot/efi" /\ fstab[j].at = "/boot/efi" => i = j
    /\ efi.mounted \/ sys.distro = "ubuntu"

Renamed(l) == IF l.at = "/boot/efi" THEN [l EXCEPT !.by = "uuid", !.ref = NewEfiName] ELSE l

SedThen == IF sys.distro = "azurelinux" THEN "efiImage" ELSE "efiAfter"

\* Mutant: the UUID is asked for before the partition is made.
EfiSedEarly ==
    /\ Goto("efiSed", SedThen)
    /\ fstab' = IF Replaceable
                THEN [i \in DOMAIN fstab |-> IF fstab[i].at = "/boot/efi"
                                             THEN [fstab[i] EXCEPT !.by = "uuid", !.ref = EfiUuid]
                                             ELSE fstab[i]]
                ELSE fstab
    /\ UNCHANGED <<copies, stamp, gawk, net, boot, aud, sudo, faults>>

\* sed -i "s/$uuid_to_be_replaced/UUID=$new_efi_uuid/" /etc/fstab
EfiSed ==
    /\ Goto("efiSed", SedThen)
    /\ fstab' = IF Replaceable THEN [i \in DOMAIN fstab |-> Renamed(fstab[i])] ELSE fstab
    /\ UNCHANGED <<copies, stamp, gawk, net, boot, aud, sudo, faults>>

EfiNext ==
    \/ EfiNoPre \/ EfiMove
    \/ WriteResolv("efiWrite", "efiCheck")
    \/ EfiCheck \/ EfiUmount \/ EfiMkfs \/ EfiMount
    \/ EfiRemove \/ EfiInstall \/ EfiCopy
    \/ EfiOwn \/ EfiMain \/ EfiImage \/ EfiSed
    \/ MisplaceResolv("efiAfter", "next")
==============================================================================
