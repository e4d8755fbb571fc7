----------------------------- MODULE ConfigScripts -----------------------------
(***************************************************************************)
(* kernel-impl.sh, serialconsole-impl.sh and initrd-impl.sh: they edit the    *)
(* defaults of GRUB, or make the initrd, and then grub.cfg anew.  There can   *)
(* be two of these, of which the firmware reads that of the EFI partition;    *)
(* it may lead to the main one, until a script has put a full one there.      *)
(***************************************************************************)
EXTENDS RepairState

\* sys.grub.vendor: the directory on the EFI partition is named redhat or centos, or as
\* ID in os-release, or (oracle) redhat but not as ID.  stub: the grub.cfg there leads to the
\* main one.  pick: GRUB_DEFAULT in /etc/default/grub, "comment" if only in a comment; file:
\* there is this file.  bls: GRUB takes the kernels and their arguments from the files in
\* /boot/loader/entries, which no script edits.  sys.image: whether the initrd is there, and
\* whether the version in dpkg.log is that of the kernel.
DebianLike == sys.distro \in {"ubuntu", "debian"}

\* The directory is there, and the script knows its name.
Reaches(vendors) == efi.mounted /\ cfgs.efi # NoCfg /\ sys.grub.vendor \in vendors

\* The script has come to its end.
Finish(name) == done' = IF faults' = 0 THEN done \cup {name} ELSE done

Edit(here, there, new) ==
    /\ Goto(here, there)
    /\ defaults' = new
    /\ UNCHANGED <<efi, rpmsave, cfgs, initrd, done, net, tab, aud, sudo, faults>>

------------------------------------------------------------------------------
(* kernel-impl.sh *)

\* grep -q 'GRUB_DEFAULT=.*' || echo 'GRUB_DEFAULT=saved' >>
KernelLine ==
    Edit("kerLine", "kerPick",
         IF defaults.pick = "none" THEN [defaults EXCEPT !.pick = "saved", !.file = TRUE] ELSE defaults)

\* sed -i -e 's/GRUB_DEFAULT=.*/GRUB_DEFAULT=1/', in a comment too.
Picked == [defaults EXCEPT !.pick = IF @ = "saved" THEN "previous" ELSE @]

\* Mutant: "check if we need to generate both".
KernelPickMain == Edit("kerPick", "kerMain", Picked)

KernelPick == Edit("kerPick", IF sys.distro = "redhat" THEN "kerEfi" ELSE "kerMain", Picked)

KernelEfi  == Mkconfig("kerEfi", "kerMain", "efi", Reaches({"redhat", "oracle"})) /\ UNCHANGED done
KernelMain == Mkconfig("kerMain", "next", "main", TRUE) /\ Finish("kernel")

------------------------------------------------------------------------------
(* serialconsole-impl.sh *)

SerialRefused == sys.six /\ ~DebianLike
SerialNone == /\ SerialRefused \/ sys.distro = "debian"
              /\ Goto("serLine", "next")
              /\ UNCHANGED <<net, tab, boot, aud, sudo, faults>>

\* The settings are appended, or the file is written if there is none; on Ubuntu it is
\* another file, which says nothing of the kernel.
SerialLine ==
    /\ ~SerialRefused /\ sys.distro # "debian"
    /\ Edit("serLine", IF sys.distro = "redhat" THEN "serEfi" ELSE "serMain",
            IF defaults.file \/ sys.distro = "ubuntu" THEN [defaults EXCEPT !.serial = TRUE]
            ELSE [pick |-> "saved", serial |-> TRUE, file |-> TRUE])

SerialEfi  == Mkconfig("serEfi", "serMain", "efi", Reaches({"redhat", "alma"})) /\ UNCHANGED done
SerialMain == Mkconfig("serMain", "next", "main", TRUE) /\ Finish("serialconsole")

------------------------------------------------------------------------------
(* initrd-impl.sh *)

\* rm /boot/initrd.img-${kernel_version}
InitrdRemove ==
    /\ DebianLike /\ Goto("iniPre", "iniMake")
    /\ initrd' = (initrd /\ ~sys.image.known)
    /\ UNCHANGED <<efi, defaults, rpmsave, cfgs, done, net, tab, aud, sudo, faults>>

\* update-initramfs -c, for a version that may be none; dracut -f.
InitrdMake ==
    /\ Goto(IF DebianLike THEN "iniMake" ELSE "iniPre", "iniMain")
    /\ \E ok \in BOOLEAN :
          /\ Outcome(DebianLike => sys.image.known, ok)
          /\ initrd' = (initrd \/ ok)
    /\ UNCHANGED <<efi, defaults, rpmsave, cfgs, done, net, tab, aud, sudo>>

InitrdMain ==
    \/ DebianLike /\ Mkconfig("iniMain", "iniEfi", "main", TRUE) /\ UNCHANGED done
    \/ ~DebianLike /\ Mkconfig("iniMain", "next", "main", TRUE) /\ Finish("initrd")

\* grub-mkconfig -o /boot/efi/EFI/ubuntu/grub.cfg
InitrdEfi ==
    /\ Mkconfig("iniEfi", "next", "efi", sys.distro = "ubuntu" /\ efi.mounted /\ cfgs.efi # NoCfg)
    /\ Finish("initrd")

ConfigNext ==
    \/ KernelLine \/ KernelPick \/ KernelEfi \/ KernelMain
    \/ SerialNone \/ SerialLine \/ SerialEfi \/ SerialMain
    \/ InitrdRemove \/ InitrdMake \/ InitrdMain \/ InitrdEfi
==============================================================================
