---------------------------- MODULE UnlockContract ----------------------------
(***************************************************************************)
(* What unlocking the disk may do to the mapping rescueencrypt, which is    *)
(* what the step Unlock of Discovery takes for granted.  It is opened once,  *)
(* only when it was not there, and only then may it be granted to the rest   *)
(* of the run; a refusal leaves it or closes it, but never leaves open what  *)
(* this run has opened, unless that fails after the opening.                *)
(***************************************************************************)
VARIABLES
    mapping,  \* TRUE while /dev/mapper/rescueencrypt is there
    stage     \* "idle", "asked", "opened" or "granted"
contract == <<mapping, stage>>

Init == mapping = FALSE /\ stage = "idle"

Ask    == stage = "idle"    /\ stage' = "asked"   /\ UNCHANGED mapping
Open   == stage = "asked"   /\ ~mapping /\ mapping' = TRUE /\ stage' = "opened"
Refuse == stage = "asked"   /\ stage' = "idle"    /\ mapping' \in {mapping, FALSE}
Grant  == stage = "opened"  /\ stage' = "granted" /\ UNCHANGED mapping
Return == stage = "granted" /\ stage' = "idle"    /\ mapping' \in BOOLEAN
Stop   == stage' = "idle" /\ UNCHANGED mapping      \* an error after it, a kill

Next == Ask \/ Open \/ Refuse \/ Grant \/ Return \/ Stop

Spec == Init /\ [][Next]_contract
==============================================================================
