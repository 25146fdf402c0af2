--------------------------- MODULE PIDOpsTheorems ---------------------------
(***************************************************************************)
(* What the operations of PIDOps return, for every controller and limit.   *)
(***************************************************************************)
EXTENDS PIDOps, TLAPS

(* A clamped number is within the limits; a clamped NaN is NaN.            *)
(* (the clamps of SetOutputLimits, Initialize and Compute)                 *)
LEMMA ClampBounds ==
  ASSUME NEW v \in Number, NEW lo \in Int, NEW hi \in Int, lo <= hi
  PROVE  /\ Clamp(v, lo, hi) \in Number
         /\ Clamp(v, lo, hi) = NaN <=> v = NaN
         /\ v # NaN => Clamp(v, lo, hi) \in lo .. hi
BY NaNAssumption DEF Clamp, Number

(* A fresh controller is manual, with limits 0..hi (the constructor).      *)
LEMMA NewPIDFields ==
  ASSUME NEW hi \in Int, NEW g \in Number
  PROVE  /\ NewPID(hi, g) \in Contract
         /\ ~NewPID(hi, g).inAuto
         /\ NewPID(hi, g).outMin = 0 /\ NewPID(hi, g).outMax = hi
         /\ NewPID(hi, g).output = g
BY DEF NewPID, Contract

(* SetMode changes the mode and nothing else the owner sees.               *)
LEMMA SetModeFields ==
  ASSUME NEW p \in Contract, NEW auto \in BOOLEAN
  PROVE  /\ SetMode(p, auto) \in Contract
         /\ SetMode(p, auto).inAuto = auto
         /\ SetMode(p, auto).outMin = p.outMin
         /\ SetMode(p, auto).outMax = p.outMax
         /\ SetMode(p, auto).output = p.output
BY DEF SetMode, Contract

(* Valid limits take effect, and at once on an automatic output.           *)
LEMMA SetOutputLimitsFields ==
  ASSUME NEW p \in Contract, NEW lo \in Int, NEW hi \in Int, lo < hi
  PROVE  LET q == SetOutputLimits(p, lo, hi)
         IN  /\ q \in Contract
             /\ q.inAuto = p.inAuto
             /\ q.outMin = lo /\ q.outMax = hi
             /\ q.output = NaN <=> p.output = NaN
             /\ p.inAuto /\ p.output # NaN => q.output \in lo .. hi
<1> DEFINE c == IF p.inAuto THEN Clamp(p.output, lo, hi) ELSE p.output
           q == SetOutputLimits(p, lo, hi)
<1>1. p.output \in Number
  BY DEF Contract
<1>2. /\ Clamp(p.output, lo, hi) \in Number
      /\ Clamp(p.output, lo, hi) = NaN <=> p.output = NaN
      /\ p.output # NaN => Clamp(p.output, lo, hi) \in lo .. hi
  BY <1>1, ClampBounds
<1>3. q = [inAuto |-> p.inAuto, outMin |-> lo, outMax |-> hi, output |-> c]
  BY DEF SetOutputLimits
<1>4. /\ q.inAuto = p.inAuto /\ q.outMin = lo /\ q.outMax = hi /\ q.output = c
      /\ c \in Number => q \in Contract
  <2> HIDE DEF c
  <2> QED BY <1>3 DEF Contract
<1> QED BY <1>1, <1>2, <1>4

(* A computation keeps mode and limits, and leaves an automatic output     *)
(* that is a number as it was or within the limits.                        *)
LEMMA ComputesFields ==
  ASSUME NEW p \in Contract, NEW q \in Computes(p)
  PROVE  /\ q \in Contract
         /\ q.inAuto = p.inAuto
         /\ q.outMin = p.outMin /\ q.outMax = p.outMax
         /\ q.output = NaN <=> p.output = NaN
         /\ q.output = p.output \/ q.output \in p.outMin .. p.outMax
<1>1. CASE q = p
  BY <1>1
<1>2. CASE q # p
  <2>1. PICK v \in IF p.output = NaN THEN {NaN} ELSE p.outMin .. p.outMax :
                q = [p EXCEPT !.output = v]
    BY <1>2 DEF Computes
  <2>2. CASE p.output = NaN
    BY <2>1, <2>2 DEF Contract, Number
  <2>3. CASE p.output # NaN
    <3>1. v \in p.outMin .. p.outMax
      BY <2>1, <2>3
    <3>2. p.outMin \in Int /\ p.outMax \in Int
      BY DEF Contract
    <3>3. v \in Int /\ v # NaN
      BY <3>1, <3>2, NaNAssumption
    <3> QED BY <2>1, <2>3, <3>1, <3>3 DEF Contract, Number
  <2> QED BY <2>2, <2>3
<1> QED BY <1>1, <1>2
=============================================================================
