---------------------------- MODULE PIDContract ----------------------------
(***************************************************************************)
(* The abstract PID object: the operations of PIDOps as a state machine.   *)
(* Module PID, which does the arithmetic, implements it; module            *)
(* CryoControlSM uses the same operators.                                  *)
(***************************************************************************)
EXTENDS PIDOps

CONSTANTS Limits,       \* the <<Min, Max>> pairs SetOutputLimits is given
          Garbage,      \* what an uninitialised output may hold
          DefaultMax    \* the upper limit the constructor sets

VARIABLE p

Init == \E g \in Garbage : p = NewPID(DefaultMax, g)

Next == \/ \E auto \in BOOLEAN : p' = SetMode(p, auto)
        \/ \E l \in Limits : p' = SetOutputLimits(p, l[1], l[2])
        \/ p' \in Computes(p)

Spec == Init /\ [][Next]_p
=============================================================================
