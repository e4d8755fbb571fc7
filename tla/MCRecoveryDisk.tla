---------------------------- MODULE MCRecoveryDisk ----------------------------
(* Instances of RecoveryDisk for TLC: the recovery VMs.                      *)
EXTENDS RecoveryDisk

Nvme(c, n) == [bus |-> "nvme", ctl |-> c, ns |-> n]
Scsi(n)    == [bus |-> "scsi", ctl |-> 0, ns |-> n]

Remote(ds) == [local |-> FALSE, disks |-> ds]
Local(ds)  == [local |-> TRUE, disks |-> ds]

\* The disks of an NVMe VM: its own and those attached, of which there may be none, one
\* with a number of one or two digits, or two.
Attached == {{}, {Nvme(0, 2)}, {Nvme(0, 12)}, {Nvme(0, 21)}, {Nvme(0, 2), Nvme(0, 3)}}

\* With a local controller before or behind the remote one, or without.
Controllers(remote) ==
    LET local == Local({Nvme(1, 1)})
    IN  {<<remote>>, <<local, remote>>, <<remote, local>>}

NvmeVms ==
    {[own |-> Nvme(0, 1), ownEfi |-> e, ctrls |-> cs, lun0 |-> NoDisk, efi |-> f, lvm |-> v] :
        e \in BOOLEAN,
        cs \in UNION {Controllers(Remote({Nvme(0, 1)} \cup a)) : a \in Attached},
        f \in {{Nvme(0, 1)}, {Nvme(0, 1), Nvme(0, 2), Nvme(0, 12), Nvme(0, 21)}},
        v \in {{}, {Nvme(0, 2), Nvme(0, 12)}}}

\* SCSI, some with a local NVMe disk.
ScsiVms ==
    {[own |-> Scsi(1), ownEfi |-> e, ctrls |-> cs, lun0 |-> l, efi |-> f, lvm |-> v] :
        e \in BOOLEAN, cs \in {<<>>, <<Local({Nvme(0, 1)})>>},
        l \in {NoDisk, Scsi(2)}, f \in {{Scsi(1)}, {Scsi(1), Scsi(2), Scsi(3)}},
        v \in {{}, {Scsi(1), Scsi(2)}}}

AllVms    == NvmeVms \cup ScsiVms
AnyCustom == {NoDisk, Nvme(0, 2), Scsi(3)}
NoCustom  == {NoDisk}

OneNvmeVm ==
    {[own |-> Nvme(0, 1), ownEfi |-> TRUE, ctrls |-> <<Remote({Nvme(0, 1), Nvme(0, 2)})>>,
      lun0 |-> NoDisk, efi |-> {Nvme(0, 1), Nvme(0, 2)}, lvm |-> {}]}
==============================================================================
