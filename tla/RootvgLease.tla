----------------------------- MODULE RootvgLease -----------------------------
(***************************************************************************)
(* What the renaming of volume groups is for, without the commands that do  *)
(* it.  The name "rootvg" is a lease that at most one disk holds: the        *)
(* recovery VM lends it, the disk under repair takes it, and it goes back    *)
(* the same way.  It never passes from one holder to another in one step,    *)
(* and a root volume is mounted only from the holder of the moment.          *)
(***************************************************************************)
CONSTANTS Entities, Nobody

VARIABLES
    owner,   \* who answers to /dev/rootvg
    used     \* whose root volume is mounted for inspection or repair

lease == <<owner, used>>

Init == owner \in Entities \cup {Nobody} /\ used = {}

Release == owner # Nobody /\ owner' = Nobody /\ UNCHANGED used
Take    == owner = Nobody /\ owner' \in Entities /\ UNCHANGED used
Use     == owner # Nobody /\ used' = used \cup {owner} /\ UNCHANGED owner
Return  == (\E e \in used : used' = used \ {e}) /\ UNCHANGED owner

Next == Release \/ Take \/ Use \/ Return

Spec == Init /\ [][Next]_lease
==============================================================================
