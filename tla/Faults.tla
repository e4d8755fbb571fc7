-------------------------------- MODULE Faults --------------------------------
(* A command ends well or not.  One that nothing prevents fails only at the  *)
(* expense of the fault budget.                                              *)
EXTENDS Naturals

CONSTANT MaxFaults   \* bound: commands that fail though nothing stands in their way
VARIABLE faults      \* how many did

ASSUME FaultAssumption == MaxFaults \in Nat

Works == UNCHANGED faults
Fails == faults < MaxFaults /\ faults' = faults + 1
Outcome(possible, ok) ==
    IF ok THEN possible /\ Works ELSE IF possible THEN Fails ELSE Works
==============================================================================
