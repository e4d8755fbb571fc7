--------------------------- MODULE MCPartitionRoles ---------------------------
(* Instances of PartitionRoles for TLC: the partition tables.                *)
EXTENDS PartitionRoles, FiniteSets

R(code, fs, use) == [code |-> code, fs |-> fs, use |-> use]

Bios == R("EF02", "none", "bios")
Efi  == R("EF00", "vfat", "efi")
Boot == R("8300", "xfs", "boot")
Data == R("0700", "ext4", "data")
Swap == R("8200", "none", "swap")

PlainOs == {R("8300", "ext4", "os"), R("8304", "xfs", "os"), R("8E00", "LVM2_member", "os")}
CryptOs == {R("8300", "none", "os"), R("8E00", "none", "os")}

\* All orders of the rows of S.
Orders(S) == {f \in [1..Cardinality(S) -> S] : {f[i] : i \in DOMAIN f} = S}
\* Numbers in the order of the rows, from 1 or, as on Ubuntu, the later from 13.
Numbered(f, gap) ==
    [i \in DOMAIN f |-> [num |-> IF gap /\ i > 1 THEN 11 + i ELSE i,
                         code |-> f[i].code, fs |-> f[i].fs, use |-> f[i].use]]
NumberAll(F) == {Numbered(f, gap) : f \in F, gap \in BOOLEAN}

\* A data partition, if there is one, comes behind /boot.
DataLast(f) == \A i \in DOMAIN f : f[i] = Data => \E j \in 1..(i - 1) : f[j] = Boot

AzureTables ==
    NumberAll(
        UNION {Orders({os} \cup extra) : os \in PlainOs, extra \in SUBSET {Bios, Efi, Boot}}
        \cup UNION {Orders({os, Boot} \cup extra) : os \in CryptOs, extra \in SUBSET {Bios, Efi}}
        \cup {f \in UNION {Orders({os, Boot, Efi, Data}) : os \in PlainOs \cup CryptOs} : DataLast(f)})

ASSUME AzureTablesPlain == \A t \in AzureTables : OneSystem(t) /\ OneHidden(t)

\* Also those on which the run gives up or errs.
OddTables ==
    NumberAll(
        UNION {Orders({os} \cup extra) : os \in PlainOs \cup CryptOs,
                                         extra \in SUBSET {Efi, Boot, Swap, Data}}
        \cup {<<R("8300", "none", "blank")>>, <<Data>>, <<>>, <<R("8300", "LVM2_member", "os")>>})

AllTables    == AzureTables \cup OddTables
RhelTables   == NumberAll({<<Efi, Boot, R("8E00", "LVM2_member", "os")>>})
BothTools    == {"sgdisk", "partx"}
OnlyPartx    == {"partx"}
==============================================================================
