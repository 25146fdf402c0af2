------------------------------- MODULE PIDOps -------------------------------
(***************************************************************************)
(* What the rest of the program may rely on of a PID object (PID_v1.cpp):  *)
(* the mode, the output limits and the output.  The arithmetic behind the  *)
(* output is in module PID; here an output that is computed anew is any    *)
(* value within the limits.                                                *)
(*                                                                         *)
(* A value is an integer or NaN: the output variable the object is given   *)
(* (TOutput, ROutput of CryoControlSM.hpp:66-67) is never initialised, so  *)
(* its first value is whatever the memory held.                            *)
(***************************************************************************)
EXTENDS Integers

CONSTANT NaN            \* the one value every comparison answers false for

ASSUME NaNAssumption == NaN \notin Int

Number == Int \cup {NaN}

(* A comparison with NaN is false, so neither branch of a clamp is taken. *)
Clamp(v, lo, hi) ==
  IF v = NaN THEN NaN ELSE IF v > hi THEN hi ELSE IF v < lo THEN lo ELSE v

Contract == [inAuto : BOOLEAN, outMin : Int, outMax : Int, output : Number]

(* The constructor: manual mode, limits 0..hi, the output left as it is. *)
NewPID(hi, garbage) ==
  [inAuto |-> FALSE, outMin |-> 0, outMax |-> hi, output |-> garbage]

SetMode(p, auto) == [p EXCEPT !.inAuto = auto]

SetOutputLimits(p, lo, hi) ==
  IF lo >= hi
  THEN p
  ELSE [inAuto |-> p.inAuto, outMin |-> lo, outMax |-> hi,
        output |-> IF p.inAuto THEN Clamp(p.output, lo, hi) ELSE p.output]

(* Compute() does nothing in manual mode, or within the second of the last *)
(* computation; a NaN, once in the sum, stays in every later output.       *)
Computes(p) ==
  LET outputs == IF p.output = NaN THEN {NaN} ELSE p.outMin .. p.outMax
  IN  IF p.inAuto THEN {p} \cup {[p EXCEPT !.output = v] : v \in outputs}
                  ELSE {p}
=============================================================================
