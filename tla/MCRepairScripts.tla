---------------------------- MODULE MCRepairScripts ----------------------------
(* Instances of RepairScripts for TLC: the systems to repair.               *)
EXTENDS RepairScripts

By(p, kind, u) == [at |-> p, by |-> kind, ref |-> u]
Named(p)       == By(p, "volume", 0)

RightSudo == [mode |-> "right", owner |-> "root", link |-> "none", conf |-> "right",
              confOwner |-> "root", twice |-> FALSE, targetpw |-> FALSE]
UsualGrub == [vendor |-> "redhat", stub |-> TRUE, pick |-> "saved", file |-> TRUE, bls |-> FALSE]

Raw(distro, g, lines, seen, lists) ==
    [distro |-> distro, six |-> FALSE, lvm |-> FALSE, bios |-> g = 1, boot |-> TRUE, efi |-> g = 2,
     fstab |-> lines, seen |-> seen, log |-> "/var/log/audit", halt |-> TRUE,
     lvs |-> {}, full |-> {}, tenth |-> [p \in Places |-> 1], free |-> 0,
     gawk |-> TRUE, fast |-> FALSE,
     sudo |-> RightSudo, grub |-> UsualGrub, image |-> [there |-> TRUE, known |-> TRUE],
     lists |-> lists]

\* The lines of an image, and one for data; by UUID, by device or by label.
UuidLines   == <<By("/", "uuid", RootUuid), By("/boot", "uuid", BootUuid),
                 By("/boot/efi", "uuid", EfiUuid), By("/data", "device", 0), By("/mnt", "resource", 0)>>
DeviceLines == <<By("/", "device", 0), By("/boot", "device", 0), By("/boot/efi", "device", 0),
                 By("/data", "uuid", 7)>>
LabelLines  == <<By("/", "label", 0), By("/boot/efi", "label", 0), By("bek", "bek", 0)>>

BootLists == {<<"fstab">>, <<"efifix">>, <<"grubfix">>, <<"fstab", "efifix">>, <<"efifix", "fstab">>,
              <<"grubfix", "efifix">>, <<"efifix", "grubfix">>}
SafeLists == {<<"fstab">>, <<"grubfix", "fstab">>, <<"auditd", "fstab">>, <<"fstab", "fstab">>}

RawSystems ==
    {Raw(d, g, UuidLines, 3, ls) :
        d \in {"redhat", "suse", "ubuntu", "azurelinux"}, g \in {1, 2}, ls \in {BootLists, SafeLists}}
    \cup {Raw("suse", g, DeviceLines, u, BootLists) : g \in {1, 2}, u \in {1, 3}}
    \cup {Raw("ubuntu", g, LabelLines, 0, BootLists \cup SafeLists) : g \in {1, 2}}
    \cup {[Raw("redhat", 1, UuidLines, 3, SafeLists) EXCEPT !.six = TRUE],
          [Raw("azurelinux", 2, DeviceLines, 1, BootLists) EXCEPT !.boot = FALSE],
          [Raw("debian", 2, <<>>, 0, {<<"efifix", "fstab">>}) EXCEPT !.boot = FALSE]}
    \cup {[Raw(d, 2, lines, 1, SafeLists) EXCEPT !.gawk = FALSE, !.fast = f] :
             d \in {"ubuntu", "debian"}, lines \in {UuidLines, DeviceLines}, f \in BOOLEAN}

\* With logical volumes, each of which may be full, and room for some of them to grow.
Lvm(lines, lvs, full, free, log, lists) ==
    [Raw("redhat", 2, lines, 0, lists) EXCEPT
        !.lvm = TRUE, !.lvs = lvs, !.full = full, !.free = free, !.log = log]

Ends(lines) == lines \o <<By("/boot", "uuid", BootUuid), By("/boot/efi", "uuid", EfiUuid)>>
Usual  == <<Named("/"), Named("/var"), Named("/tmp"), Named("/usr"), Named("/home")>>
Cis    == <<Named("/"), Named("/var"), Named("/var/log")>>
Mixed  == <<Named("/"), Named("/var/log"), Named("/var")>>
ByUuids == <<By("/", "uuid", RootUuid), By("/var", "uuid", 4)>>
Logs   == <<Named("/"), Named("/var"), Named("/var/log/audit")>>
LvmLists == {<<"auditd">>, <<"fstab", "auditd">>}

LvmSystems ==
    {Lvm(Ends(Usual), {"/", "/var", "/usr"}, full, free, log, LvmLists) :
        full \in SUBSET {"/", "/var", "/usr"}, free \in 1..3, log \in Dirs \ {"/"}}
    \cup {Lvm(Ends(lines), {"/", "/var", "/var/log"}, full, 3, "/var/log/audit", LvmLists) :
             full \in SUBSET {"/", "/var", "/var/log"}, lines \in {Cis, Mixed}}
    \cup {Lvm(Ends(Logs), {"/", "/var", "/var/log/audit"}, full, 3, "/var/log/audit",
              LvmLists \cup {<<"auditd", "auditd">>}) :
             full \in SUBSET {"/", "/var", "/var/log/audit"}}
    \cup {Lvm(Ends(ByUuids), {"/", "/var"}, {"/var"}, 2, "/var/log/audit", LvmLists)}

\* Whatever can be wrong with the binary of sudo, and with its files.
Binaries == {s \in SudoFiles : s.conf = "wrong" /\ s.confOwner = "other" /\ s.twice /\ s.targetpw}
Sudoers  == {s \in SudoFiles : s.mode = "right" /\ s.owner = "root" /\ s.link = "none"}
SudoSystems ==
    {[Raw("redhat", 2, <<By("/", "uuid", RootUuid)>>, 3, {<<"sudo">>}) EXCEPT !.sudo = s] :
        s \in Binaries \cup Sudoers}

\* Whatever grub.cfg may be on the EFI partition, and what the defaults may say; a kernel
\* dpkg.log knows, or not, with its initrd or without.
ConfigLists(d) ==
    {<<"kernel">>, <<"serialconsole">>, <<"kernel", "serialconsole">>, <<"serialconsole", "kernel">>,
     <<"kernel", "efifix">>, <<"grubfix", "kernel">>, <<"kernel", "kernel">>}
    \cup IF d = "ubuntu" THEN {} ELSE {<<"initrd">>}
Configs(d, g, files, image, lists) ==
    [Raw(d, g, <<By("/", "uuid", RootUuid)>>, 3, lists) EXCEPT !.grub = files, !.image = image]
Grubs == {[UsualGrub EXCEPT !.stub = s, !.pick = p] : s \in BOOLEAN, p \in {"none", "saved", "comment"}}
         \cup {[UsualGrub EXCEPT !.pick = "none", !.file = FALSE]}
Images == [there : BOOLEAN, known : BOOLEAN]
Image  == [there |-> FALSE, known |-> TRUE]

ConfigSystems ==
    {Configs("redhat", 2, [g EXCEPT !.vendor = v], Image, ConfigLists("redhat")) :
        g \in Grubs, v \in {"redhat", "alma", "oracle"}}
    \cup {Configs(d, g, UsualGrub, Image, ConfigLists(d)) :
             d \in {"redhat", "suse", "azurelinux", "ubuntu"}, g \in {1, 2}}
    \cup {Configs(d, 2, UsualGrub, i, {<<"initrd">>, <<"initrd", "kernel">>}) :
             d \in {"ubuntu", "debian"}, i \in Images}
    \cup {[Configs("suse", 2, UsualGrub, Image, ConfigLists("suse")) EXCEPT !.six = TRUE],
          [Configs("suse", 2, UsualGrub, Image, ConfigLists("suse")) EXCEPT !.grub.stub = FALSE],
          [Configs("redhat", 2, UsualGrub, Image, ConfigLists("redhat")) EXCEPT !.grub.bls = TRUE]}

AllSystems == RawSystems \cup LvmSystems \cup SudoSystems \cup ConfigSystems

ASSUME SystemsOrderly == \A s \in AllSystems : Orderly(s.fstab)

OneSudo == {[Raw("suse", 2, UuidLines, 3, {<<"sudo">>}) EXCEPT !.sudo = s] :
               s \in {t \in SudoFiles : t.mode = "wrong" /\ t.link = "none"}}
OneUbuntu == {Raw("ubuntu", 2, UuidLines, 3, {<<"initrd">>, <<"kernel">>, <<"initrd", "kernel">>})}
==============================================================================
