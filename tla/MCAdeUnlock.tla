----------------------------- MODULE MCAdeUnlock -----------------------------
(* Instances of AdeUnlock for TLC.                                           *)
EXTENDS AdeUnlock

\* Only a repair VM opens the disk itself.
AllVms  == {s \in Situation : s.opened => s.repair}

AnyPassword == {"", "good", "bad"}
==============================================================================
