------------------------------ MODULE MCVarStore ------------------------------
(***************************************************************************)
(* Small variable stores: two names, two values, and a store that holds    *)
(* three or four records.                                                  *)
(***************************************************************************)
EXTENDS VarStore

CONSTANTS v1, v2

UnitSize    == [v \in Values |-> 1]
UnequalSize == [v \in Values |-> IF v = v1 THEN 1 ELSE 3]

Scenario(n, kinds, runtime) == [faults |-> n, kinds |-> kinds, runtime |-> runtime]

\* One fault of any kind, or an operating system and no fault.
OneFault == { Scenario(1, Kinds, FALSE), Scenario(0, {}, TRUE) }

NoFault == { Scenario(0, {}, FALSE) }

\* A power failure and then the operating system.
FaultThenOs == { Scenario(1, {"power"}, TRUE) }
=============================================================================
