------------------------------ MODULE MCAlarRun ------------------------------
(* Instances of AlarRun for TLC: the layouts of disks and the situations.    *)
EXTENDS AlarRun

CONSTANTS d1, d2

P(k)      == [kind |-> k, crypt |-> FALSE, odd |-> FALSE]
Crypt(k)  == [kind |-> k, crypt |-> TRUE, odd |-> FALSE]

\* Ubuntu, SLES; RHEL; RHEL with a volume of another name; encrypted ones; a
\* disk without an operating system.
Raw      == <<P("boot"), P("efi"), P("os")>>
Lvm      == <<P("efi"), P("boot"), P("lvm")>>
LvmOdd   == <<P("efi"), P("boot"), [P("lvm") EXCEPT !.odd = TRUE]>>
RawAde   == <<P("boot"), Crypt("os")>>
LvmAde   == <<P("efi"), P("boot"), Crypt("lvm")>>
DataDisk == <<P("boot")>>

Case(layout, hostLvm) ==
    [layout |-> layout, fs |-> "xfs", hostLvm |-> hostLvm, allowed |-> TRUE,
     nvme |-> FALSE, auto |-> TRUE, actions |-> <<"plain">>]

One(l)     == [d \in {d1} |-> l]
Two(l, k)  == [d \in {d1, d2} |-> IF d = d1 THEN l ELSE k]

OneDisk == {d1}
TwoDisks == {d1, d2}

WithActions(S) ==
    {[s EXCEPT !.actions = a] : s \in S,
        a \in {<<"plain", "plain">>, <<"plain", "unknown">>, <<"plain", "chroot-cli">>}}
WithFs(S) == {[s EXCEPT !.fs = f] : s \in S, f \in {"xfs", "ext4"}}

\* Situations in which the code gives everything back.
Supported ==
    WithFs(WithActions(
        {Case(One(l), h) : l \in {Raw, Lvm, RawAde, DataDisk}, h \in BOOLEAN}
        \cup {[Case(One(LvmAde), h) EXCEPT !.auto = FALSE] : h \in BOOLEAN}
        \cup {[Case(One(l), FALSE) EXCEPT !.nvme = TRUE] : l \in {Raw, Lvm}}
        \cup {[Case(One(l), FALSE) EXCEPT !.allowed = FALSE] : l \in {Raw, Lvm}}))

\* All of them, for the runs with failures and crashes.
AnyCase ==
    WithFs({[Case(One(l), h) EXCEPT !.nvme = n, !.auto = u, !.allowed = w, !.actions = a] :
               l \in {Raw, Lvm, LvmOdd, RawAde, LvmAde}, h, n, u, w \in BOOLEAN,
               a \in {<<"plain">>, <<"mixed">>, <<"unknown">>, <<"chroot-cli">>}})

TwoDiskCases ==
    WithFs({Case(Two(l, k), h) : l, k \in {Raw, Lvm, LvmAde}, h \in BOOLEAN})

\* A situation in which the code does not do what a comment says.
RefusedVm == {[Case(One(Lvm), TRUE) EXCEPT !.allowed = FALSE]}
==============================================================================
