----------------------------- MODULE PIDProofs -----------------------------
(***************************************************************************)
(* What the PID object guarantees for every tuning, limit, input, set      *)
(* point and clock.  The inductive invariant is the type invariant with    *)
(* SumWithinLimits: the sum is within the limits, so that a computation    *)
(* starts from within them, and a number exactly when the output is one.   *)
(***************************************************************************)
EXTENDS PID, PIDOpsTheorems

Inv == TypeOK /\ SumWithinLimits

LEMMA PlusType ==
  ASSUME NEW v \in Number, NEW n \in Int
  PROVE  /\ Plus(v, n) \in Number
         /\ Plus(v, n) = NaN <=> v = NaN
         /\ v # NaN => Plus(v, n) = v + n
BY NaNAssumption DEF Plus, Number

(* What a computation adds to the sum, and then to the output. *)
SumStep(input) == ki * (setpoint - input)
                  - (IF POnE THEN 0 ELSE kp * (input - lastInput))
OutStep(input) == (IF POnE THEN kp * (setpoint - input) ELSE 0)
                  - kd * (input - lastInput)

LEMMA StepTypes ==
  ASSUME TypeOK, NEW input \in Int
  PROVE  SumStep(input) \in Int /\ OutStep(input) \in Int
<1>1. /\ ki * (setpoint - input) \in Int /\ kp * (setpoint - input) \in Int
      /\ kp * (input - lastInput) \in Int /\ kd * (input - lastInput) \in Int
  BY DEF TypeOK
<1> QED BY <1>1 DEF SumStep, OutStep

(* The sum and the output a computation leaves.                            *)
LEMMA Computed ==
  ASSUME TypeOK, NEW input \in Int
  PROVE  /\ NewSum(input) \in Number /\ NewOutput(input) \in Number
         /\ NewSum(input) = NaN <=> outputSum = NaN
         /\ NewOutput(input) = NaN <=> outputSum = NaN
         /\ outputSum # NaN => /\ NewSum(input) \in outMin .. outMax
                               /\ NewOutput(input) \in outMin .. outMax
<1>1. /\ outputSum \in Number /\ outMin \in Int /\ outMax \in Int
      /\ outMin <= outMax
  BY DEF TypeOK
<1>2. SumStep(input) \in Int /\ OutStep(input) \in Int
  BY StepTypes
<1>3. /\ Plus(outputSum, SumStep(input)) \in Number
      /\ Plus(outputSum, SumStep(input)) = NaN <=> outputSum = NaN
  BY <1>1, <1>2, PlusType
<1>4. NewSum(input) = Clamp(Plus(outputSum, SumStep(input)), outMin, outMax)
  BY DEF NewSum, SumStep
<1>5. /\ NewSum(input) \in Number
      /\ NewSum(input) = NaN <=> outputSum = NaN
      /\ outputSum # NaN => NewSum(input) \in outMin .. outMax
  BY <1>1, <1>3, <1>4, ClampBounds
<1>6. /\ Plus(NewSum(input), OutStep(input)) \in Number
      /\ Plus(NewSum(input), OutStep(input)) = NaN <=> NewSum(input) = NaN
  BY <1>2, <1>5, PlusType
<1>7. NewOutput(input)
        = Clamp(Plus(NewSum(input), OutStep(input)), outMin, outMax)
  BY DEF NewOutput, OutStep
<1>8. /\ NewOutput(input) \in Number
      /\ NewOutput(input) = NaN <=> NewSum(input) = NaN
      /\ NewSum(input) # NaN => NewOutput(input) \in outMin .. outMax
  BY <1>1, <1>6, <1>7, ClampBounds
<1> QED BY <1>5, <1>8

LEMMA InitInv == Init => Inv
<1> SUFFICES ASSUME Init PROVE Inv
  OBVIOUS
<1>1. TypeOK
  <2>1. lastTime \in Clock /\ now \in Clock
    BY PIDAssumption DEF Init, Clock
  <2>2. output \in Number /\ setpoint \in Int /\ outputSum \in Number
    BY PIDAssumption DEF Init, Number
  <2>3. kp \in Nat /\ ki \in Nat /\ kd \in Nat /\ lastInput \in Int
    BY DEF Init
  <2>4. outMin = 0 /\ outMax = DefaultMax /\ inAuto \in BOOLEAN
    BY DEF Init
  <2>5. DefaultMax \in Int /\ 0 < DefaultMax
    BY PIDAssumption
  <2> QED BY <2>1, <2>2, <2>3, <2>4, <2>5 DEF TypeOK
<1>2. SumWithinLimits
  BY DEF Init, SumWithinLimits
<1> QED BY <1>1, <1>2 DEF Inv

LEMMA SetAutomaticInv ==
  ASSUME Inv, NEW input \in Inputs, SetAutomatic(input) PROVE Inv'
<1>1. input \in Int
  BY PIDAssumption
<1>2. /\ Clamp(output, outMin, outMax) \in Number
      /\ Clamp(output, outMin, outMax) = NaN <=> output = NaN
      /\ output # NaN => Clamp(output, outMin, outMax) \in outMin .. outMax
  BY ClampBounds DEF Inv, TypeOK
<1>3. CASE inAuto
  BY <1>3 DEF Inv, TypeOK, SumWithinLimits, SetAutomatic, tunings, limits
<1>4. CASE ~inAuto
  BY <1>1, <1>2, <1>4 DEF Inv, TypeOK, SumWithinLimits, SetAutomatic, Initialize,
                          tunings, limits
<1> QED BY <1>3, <1>4

LEMMA SetLimitsInv ==
  ASSUME Inv, NEW l \in Limits, SetLimits(l[1], l[2]) PROVE Inv'
<1> DEFINE lo == l[1]
           hi == l[2]
<1>1. lo \in Int /\ hi \in Int /\ lo <= hi /\ lo < hi
  BY PIDAssumption DEF SetLimits
<1>2. output \in Number /\ outputSum \in Number
  BY DEF Inv, TypeOK
<1> HIDE DEF lo, hi
<1>3. /\ Clamp(output, lo, hi) \in Number
      /\ Clamp(output, lo, hi) = NaN <=> output = NaN
  BY <1>1, <1>2, ClampBounds
<1>4. /\ Clamp(outputSum, lo, hi) \in Number
      /\ Clamp(outputSum, lo, hi) = NaN <=> outputSum = NaN
      /\ outputSum # NaN => Clamp(outputSum, lo, hi) \in lo .. hi
  BY <1>1, <1>2, ClampBounds
<1>5. SetLimits(lo, hi)
  BY DEF lo, hi
<1> QED BY <1>1, <1>3, <1>4, <1>5
        DEF Inv, TypeOK, SumWithinLimits, SetLimits, tunings

LEMMA ComputeInv ==
  ASSUME Inv, NEW input \in Inputs, Compute(input) PROVE Inv'
<1>1. input \in Int
  BY PIDAssumption
<1>2. /\ NewSum(input) \in Number /\ NewOutput(input) \in Number
      /\ NewSum(input) = NaN <=> outputSum = NaN
      /\ NewOutput(input) = NaN <=> outputSum = NaN
      /\ outputSum # NaN => NewSum(input) \in outMin .. outMax
  BY <1>1, Computed DEF Inv
<1> QED BY <1>1, <1>2 DEF Inv, TypeOK, SumWithinLimits, Compute, tunings, limits

LEMMA StepInv == Inv /\ [Next]_vars => Inv'
<1> SUFFICES ASSUME Inv, [Next]_vars PROVE Inv'
  OBVIOUS
<1> USE DEF Inv, TypeOK, SumWithinLimits, tunings, limits
<1>1. ASSUME NEW p \in Tunings, NEW i \in Tunings, NEW d \in Tunings,
             SetTunings(p, i, d)
      PROVE  Inv'
  BY <1>1, PIDAssumption DEF SetTunings
<1>2. ASSUME NEW input \in Inputs, SetAutomatic(input) PROVE Inv'
  BY <1>2, SetAutomaticInv
<1>3. ASSUME NEW input \in Inputs, Compute(input) PROVE Inv'
  BY <1>3, ComputeInv
<1>4. ASSUME NEW l \in Limits, SetLimits(l[1], l[2]) PROVE Inv'
  BY <1>4, SetLimitsInv
<1>5. CASE SetManual
  BY <1>5 DEF SetManual
<1>6. CASE ChangeSetpoint
  BY <1>6, PIDAssumption DEF ChangeSetpoint
<1>7. CASE ClockMoves
  BY <1>7 DEF ClockMoves
<1>8. CASE UNCHANGED vars
  BY <1>8 DEF vars
<1> QED BY <1>1, <1>2, <1>3, <1>4, <1>5, <1>6, <1>7, <1>8 DEF Next

THEOREM Invariance == Spec => []Inv
<1> QED BY InitInv, StepInv, PTL DEF Spec

(* The tunings in force are never negative, and every field has its type   *)
(* (SetTunings, PID_v1.cpp:99-119, and the rest).                          *)
THEOREM TypeCorrect == Spec => []TypeOK
<1>1. Inv => TypeOK
  BY DEF Inv
<1> QED BY <1>1, Invariance, PTL

(* The integral term of an automatic controller is within the limits in    *)
(* force, whatever the order of calls (PID_v1.cpp:66-72, 151-192).         *)
THEOREM SumCorrect == Spec => []SumWithinLimits
<1>1. Inv => SumWithinLimits
  BY DEF Inv
<1> QED BY <1>1, Invariance, PTL
-----------------------------------------------------------------------------
(* The sign of the step a computation makes once the input is past the set *)
(* point and not on its way back.                                          *)
LEMMA StepSigns ==
  ASSUME TypeOK, ki > 0, NEW input \in Int
  PROVE  /\ input > setpoint /\ input >= lastInput =>
              SumStep(input) < 0 /\ OutStep(input) <= 0
         /\ input < setpoint /\ input <= lastInput =>
              SumStep(input) > 0 /\ OutStep(input) >= 0
<1> DEFINE e == setpoint - input
           d == input - lastInput
<1>1. kp \in Nat /\ ki \in Nat /\ kd \in Nat /\ e \in Int /\ d \in Int
  BY DEF TypeOK
<1> HIDE DEF e, d
<1>2. /\ e < 0 => ki * e < 0 /\ kp * e <= 0
      /\ e > 0 => ki * e > 0 /\ kp * e >= 0
  BY <1>1
<1>3. /\ d >= 0 => kp * d >= 0 /\ kd * d >= 0
      /\ d <= 0 => kp * d <= 0 /\ kd * d <= 0
  BY <1>1
<1>4. ki * e \in Int /\ kp * e \in Int /\ kp * d \in Int /\ kd * d \in Int
  BY <1>1
<1>5. /\ SumStep(input) = ki * e - (IF POnE THEN 0 ELSE kp * d)
      /\ OutStep(input) = (IF POnE THEN kp * e ELSE 0) - kd * d
  BY DEF SumStep, OutStep, e, d
<1>6. /\ e < 0 /\ d >= 0 => SumStep(input) < 0 /\ OutStep(input) <= 0
      /\ e > 0 /\ d <= 0 => SumStep(input) > 0 /\ OutStep(input) >= 0
  BY <1>2, <1>3, <1>4, <1>5
<1>7. /\ input > setpoint /\ input >= lastInput => e < 0 /\ d >= 0
      /\ input < setpoint /\ input <= lastInput => e > 0 /\ d <= 0
  BY DEF TypeOK, e, d
<1> QED BY <1>6, <1>7

(* Clamping what is below the upper limit keeps it below, and likewise     *)
(* above the lower one.                                                    *)
LEMMA ClampStrict ==
  ASSUME NEW n \in Int, NEW lo \in Int, NEW hi \in Int, lo < hi
  PROVE  /\ n < hi => Clamp(n, lo, hi) < hi
         /\ n > lo => Clamp(n, lo, hi) > lo
BY NaNAssumption DEF Clamp

(* No windup: clamping outputSum in Compute (PID_v1.cpp:71-72) makes the   *)
(* output leave its limit in the first computation that should take it     *)
(* off, however long it had been there.                                    *)
THEOREM NoWindup == Spec => LeavesLimitAtOnce
<1> DEFINE Leaves ==
      lastTime' # lastTime /\ ki > 0 /\ output # NaN =>
        /\ lastInput' > setpoint /\ lastInput' >= lastInput => output' < outMax
        /\ lastInput' < setpoint /\ lastInput' <= lastInput => output' > outMin
<1>1. Inv /\ [Next]_vars => [Leaves]_vars
  <2> SUFFICES ASSUME Inv, [Next]_vars, lastTime' # lastTime,
                      ki > 0, output # NaN
               PROVE  Leaves
    OBVIOUS
  <2>1. PICK input \in Inputs : Compute(input)
    BY DEF Next, vars, SetTunings, SetAutomatic, SetManual, SetLimits,
           ChangeSetpoint, ClockMoves
  <2>2. input \in Int /\ lastInput' = input /\ output' = NewOutput(input) /\ inAuto
    BY <2>1, PIDAssumption DEF Compute
  <2>3. /\ TypeOK /\ outputSum # NaN /\ outputSum \in outMin .. outMax
        /\ outMin \in Int /\ outMax \in Int /\ outMin < outMax
        /\ outputSum \in Int
    BY <2>2 DEF Inv, SumWithinLimits, TypeOK
  <2> DEFINE a == SumStep(input)
             b == OutStep(input)
             n == outputSum + a
             m == NewSum(input) + b
  <2>4. a \in Int /\ b \in Int
    BY <2>2, <2>3, StepTypes
  <2>5. NewSum(input) = Clamp(n, outMin, outMax)
    BY <2>3, <2>4, PlusType DEF NewSum, SumStep, Number
  <2>6. NewSum(input) \in outMin .. outMax /\ NewSum(input) # NaN
    BY <2>2, <2>3, Computed
  <2>7. NewSum(input) \in Int /\ NewSum(input) \in Number
    BY <2>3, <2>6 DEF Number
  <2>8. NewOutput(input) = Clamp(m, outMin, outMax)
    BY <2>4, <2>6, <2>7, PlusType DEF NewOutput, OutStep
  <2>9. CASE input > setpoint /\ input >= lastInput
    <3>1. a < 0 /\ b <= 0
      BY <2>2, <2>3, <2>9, StepSigns
    <3>2. n \in Int /\ n < outMax
      BY <2>3, <2>4, <3>1
    <3>3. NewSum(input) < outMax
      BY <2>3, <2>5, <3>2, ClampStrict
    <3>4. m \in Int /\ m < outMax
      BY <2>3, <2>4, <2>7, <3>1, <3>3
    <3>5. output' < outMax
      BY <2>2, <2>3, <2>8, <3>4, ClampStrict
    <3> QED BY <2>2, <2>3, <2>9, <3>5 DEF TypeOK
  <2>10. CASE input < setpoint /\ input <= lastInput
    <3>1. a > 0 /\ b >= 0
      BY <2>2, <2>3, <2>10, StepSigns
    <3>2. n \in Int /\ n > outMin
      BY <2>3, <2>4, <3>1
    <3>3. NewSum(input) > outMin
      BY <2>3, <2>5, <3>2, ClampStrict
    <3>4. m \in Int /\ m > outMin
      BY <2>3, <2>4, <2>7, <3>1, <3>3
    <3>5. output' > outMin
      BY <2>2, <2>3, <2>8, <3>4, ClampStrict
    <3> QED BY <2>2, <2>3, <2>10, <3>5 DEF TypeOK
  <2> QED BY <2>2, <2>9, <2>10
<1>2. Spec => [][Leaves]_vars
  BY <1>1, Invariance, PTL DEF Spec
<1> QED BY <1>2 DEF LeavesLimitAtOnce
-----------------------------------------------------------------------------
(* The refinement mapping of module PID. *)
Seen == [inAuto |-> inAuto, outMin |-> outMin,
         outMax |-> outMax, output |-> output]

LEMMA SeenType == TypeOK => Seen \in Contract
BY DEF TypeOK, Seen, Contract

LEMMA InitContract == Init => Abstract!Init
BY DEF Init, Abstract!Init, Abstract!NewPID

(* The abstract operations on the mapped state, field by field. *)
LEMMA SeenMode ==
  ASSUME NEW a
  PROVE  Abstract!SetMode(Seen, a)
           = [inAuto |-> a, outMin |-> outMin, outMax |-> outMax, output |-> output]
BY DEF Abstract!SetMode, Seen

LEMMA SeenLimits ==
  ASSUME NEW lo \in Int, NEW hi \in Int, lo < hi
  PROVE  Abstract!SetOutputLimits(Seen, lo, hi)
           = [inAuto |-> inAuto, outMin |-> lo, outMax |-> hi,
              output |-> IF inAuto THEN Clamp(output, lo, hi) ELSE output]
BY DEF Abstract!SetOutputLimits, Abstract!Clamp, Clamp, Seen

LEMMA SeenOutput ==
  ASSUME NEW v
  PROVE  [Seen EXCEPT !.output = v]
           = [inAuto |-> inAuto, outMin |-> outMin, outMax |-> outMax, output |-> v]
BY DEF Seen

LEMMA StepContract == Inv /\ [Next]_vars => [Abstract!Next]_Seen
<1> SUFFICES ASSUME Inv, [Next]_vars
             PROVE  Abstract!Next \/ Seen' = Seen
  OBVIOUS
<1>1. ASSUME NEW p \in Tunings, NEW i \in Tunings, NEW d \in Tunings,
             SetTunings(p, i, d)
      PROVE  Seen' = Seen
  BY <1>1 DEF SetTunings, Seen, limits
<1>2. ASSUME (\E input \in Inputs : SetAutomatic(input)) \/ SetManual
      PROVE  Abstract!Next
  <2>1. inAuto' \in BOOLEAN /\ UNCHANGED <<outMin, outMax, output>>
    BY <1>2 DEF SetAutomatic, SetManual, limits
  <2>2. Seen' = Abstract!SetMode(Seen, inAuto')
    BY <2>1, SeenMode DEF Seen
  <2> QED BY <2>1, <2>2 DEF Abstract!Next, Seen
<1>3. ASSUME NEW l \in Limits, SetLimits(l[1], l[2]) PROVE Abstract!Next
  <2>1. l[1] \in Int /\ l[2] \in Int /\ l[1] < l[2]
    BY <1>3, PIDAssumption DEF SetLimits
  <2>2. Seen' = Abstract!SetOutputLimits(Seen, l[1], l[2])
    <3>1. /\ outMin' = l[1] /\ outMax' = l[2] /\ UNCHANGED inAuto
          /\ output' = IF inAuto THEN Clamp(output, l[1], l[2]) ELSE output
      BY <1>3 DEF SetLimits
    <3> QED BY <2>1, <3>1, SeenLimits DEF Seen
  <2> QED BY <2>2 DEF Abstract!Next, Seen
<1>4. ASSUME NEW input \in Inputs, Compute(input) PROVE Abstract!Next
  <2>1. input \in Int
    BY PIDAssumption
  <2>2. /\ inAuto /\ output' = NewOutput(input)
        /\ UNCHANGED <<inAuto, outMin, outMax>>
    BY <1>4 DEF Compute, limits
  <2>3. Seen' = [Seen EXCEPT !.output = NewOutput(input)]
    BY <2>2, SeenOutput DEF Seen
  <2>4. NewOutput(input) \in IF output = NaN THEN {NaN} ELSE outMin .. outMax
    BY <2>1, <2>2, Computed DEF Inv, SumWithinLimits
  <2>5. Seen' \in Abstract!Computes(Seen)
    <3>1. /\ Seen.inAuto /\ Seen.output = output
          /\ Seen.outMin = outMin /\ Seen.outMax = outMax
      BY <2>2 DEF Seen
    <3> QED BY <2>3, <2>4, <3>1 DEF Abstract!Computes
  <2> QED BY <2>5 DEF Abstract!Next, Seen
<1>5. ASSUME ChangeSetpoint \/ ClockMoves \/ UNCHANGED vars PROVE Seen' = Seen
  BY <1>5 DEF ChangeSetpoint, ClockMoves, vars, limits, Seen
<1> QED BY <1>1, <1>2, <1>3, <1>4, <1>5 DEF Next

(* The object implements PIDContract: CryoControlSM, which uses only the   *)
(* contract, may rely on every PID object of PID_v1.cpp.                   *)
THEOREM ContractKept == Spec => KeepsContract
<1>1. Init => Abstract!Init
  BY InitContract
<1>2. Inv /\ [Next]_vars => [Abstract!Next]_Seen
  BY StepContract
<1>3. Spec => Abstract!Init /\ [][Abstract!Next]_Seen
  BY <1>1, <1>2, Invariance, PTL DEF Spec
<1> QED BY <1>3 DEF KeepsContract, Abstract!Spec, Seen
=============================================================================
