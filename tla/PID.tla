-------------------------------- MODULE PID --------------------------------
(***************************************************************************)
(* The PID object of PID_v1.cpp with its arithmetic, driven by any         *)
(* sequence of the calls its owner may make.  Doubles are integers (the    *)
(* properties depend on order and sign, not on rounding) or NaN, which     *)
(* only an uninitialised output can bring in.  The clock is an unsigned    *)
(* counter that wraps at ClockMod and that may be set to any value.        *)
(* The owner never calls SetControllerDirection or SetSampleTime: the      *)
(* direction is DIRECT and the sample time one second throughout.          *)
(***************************************************************************)
EXTENDS PIDOps

CONSTANTS Tunings,      \* values offered to SetTunings, negative ones too
          Inputs, Setpoints,
          Limits,       \* pairs offered to SetOutputLimits, inverted ones too
          Garbage,      \* what the uninitialised output may hold
          DefaultMax,   \* upper limit set by the constructor (75)
          ClockMod,     \* 2^64 in the program
          POnE          \* proportional on error, or on measurement

ASSUME PIDAssumption ==
  /\ Tunings \subseteq Int /\ Inputs \subseteq Int /\ Setpoints \subseteq Int
  /\ Limits \subseteq Int \X Int
  /\ Garbage \subseteq Number
  /\ DefaultMax \in Nat \ {0} /\ ClockMod \in Nat \ {0} /\ POnE \in BOOLEAN

VARIABLES kp, ki, kd,             \* tunings in force
          inAuto, outMin, outMax,
          outputSum,              \* the integral term
          lastInput, lastTime,    \* of the last computation
          output,                 \* *myOutput
          setpoint,               \* *mySetpoint, which the owner changes
          now                     \* std::time(0)

tunings == <<kp, ki, kd>>
limits  == <<outMin, outMax>>
vars    == <<tunings, inAuto, limits, outputSum, lastInput, lastTime, output,
             setpoint, now>>

Clock == 0 .. ClockMod - 1

ElapsedSigned == now - lastTime        \* variant: the difference as an int

(* Seconds since the last computation, in unsigned arithmetic. *)
Elapsed == (now - lastTime) % ClockMod

Plus(v, n) == IF v = NaN THEN NaN ELSE v + n

Init == /\ kp \in Tunings \cap Nat /\ ki \in Tunings \cap Nat
        /\ kd \in Tunings \cap Nat
        /\ inAuto = FALSE /\ outMin = 0 /\ outMax = DefaultMax
        /\ output \in Garbage
        /\ outputSum = 0 /\ lastInput = 0     \* both set by Initialize
        /\ now \in Clock /\ lastTime = (now - 1) % ClockMod
        /\ setpoint \in Setpoints
-----------------------------------------------------------------------------
SetTuningsUnchecked(p, i, d) ==        \* variant: negative values accepted
  /\ kp' = p /\ ki' = i /\ kd' = d
  /\ UNCHANGED <<inAuto, limits, outputSum, lastInput, lastTime, output,
                 setpoint, now>>

SetTunings(p, i, d) ==
  /\ p >= 0 /\ i >= 0 /\ d >= 0
  /\ kp' = p /\ ki' = i /\ kd' = d
  /\ UNCHANGED <<inAuto, limits, outputSum, lastInput, lastTime, output,
                 setpoint, now>>

(* Initialize(): bumpless transfer from manual to automatic. *)
Initialize(input) ==
  /\ outputSum' = Clamp(output, outMin, outMax)
  /\ lastInput' = input

SetAutomatic(input) ==
  /\ inAuto' = TRUE
  /\ IF inAuto THEN UNCHANGED <<outputSum, lastInput>> ELSE Initialize(input)
  /\ UNCHANGED <<tunings, limits, lastTime, output, setpoint, now>>

SetManual ==
  /\ inAuto' = FALSE
  /\ UNCHANGED <<tunings, limits, outputSum, lastInput, lastTime, output,
                 setpoint, now>>

SetLimitsOnOutputOnly(lo, hi) ==       \* variant: the sum is not clamped
  /\ lo < hi
  /\ outMin' = lo /\ outMax' = hi
  /\ output' = IF inAuto THEN Clamp(output, lo, hi) ELSE output
  /\ UNCHANGED <<tunings, inAuto, outputSum, lastInput, lastTime, setpoint, now>>

SetLimits(lo, hi) ==
  /\ lo < hi
  /\ outMin' = lo /\ outMax' = hi
  /\ output'    = IF inAuto THEN Clamp(output, lo, hi) ELSE output
  /\ outputSum' = IF inAuto THEN Clamp(outputSum, lo, hi) ELSE outputSum
  /\ UNCHANGED <<tunings, inAuto, lastInput, lastTime, setpoint, now>>

NewSumUnbounded(input) ==              \* variant: the sum winds up
  Plus(outputSum, ki * (setpoint - input)
                  - (IF POnE THEN 0 ELSE kp * (input - lastInput)))

(* The integral term a computation leaves, and the output it leaves. *)
NewSum(input) ==
  Clamp(Plus(outputSum, ki * (setpoint - input)
                        - (IF POnE THEN 0 ELSE kp * (input - lastInput))),
        outMin, outMax)

NewOutputUnbounded(input) ==           \* variant: only the sum is clamped
  Plus(NewSum(input), (IF POnE THEN kp * (setpoint - input) ELSE 0)
                      - kd * (input - lastInput))

NewOutput(input) ==
  Clamp(Plus(NewSum(input), (IF POnE THEN kp * (setpoint - input) ELSE 0)
                            - kd * (input - lastInput)),
        outMin, outMax)

Compute(input) ==
  /\ inAuto
  /\ Elapsed >= 1
  /\ outputSum' = NewSum(input)
  /\ output' = NewOutput(input)
  /\ lastInput' = input
  /\ lastTime' = now
  /\ UNCHANGED <<tunings, inAuto, limits, setpoint, now>>

(* The owner's part: a new set point, and the clock, which may be set back. *)
ChangeSetpoint == /\ setpoint' \in Setpoints
                  /\ UNCHANGED <<tunings, inAuto, limits, outputSum, lastInput,
                                 lastTime, output, now>>

ClockMoves == /\ now' \in Clock
              /\ UNCHANGED <<tunings, inAuto, limits, outputSum, lastInput,
                             lastTime, output, setpoint>>

Next == \/ \E p, i, d \in Tunings : SetTunings(p, i, d)
        \/ \E input \in Inputs : SetAutomatic(input) \/ Compute(input)
        \/ \E l \in Limits : SetLimits(l[1], l[2])
        \/ SetManual \/ ChangeSetpoint \/ ClockMoves

(* Every sweep of the owner's loop calls Compute() of the active object. *)
Spec == /\ Init /\ [][Next]_vars
        /\ WF_vars(\E input \in Inputs : Compute(input))
-----------------------------------------------------------------------------
(* Types; the tunings in force are never negative (SetTunings refuses). *)
TypeOK == /\ kp \in Nat /\ ki \in Nat /\ kd \in Nat
          /\ inAuto \in BOOLEAN
          /\ outMin \in Int /\ outMax \in Int /\ outMin < outMax
          /\ outputSum \in Number /\ output \in Number
          /\ lastInput \in Int /\ setpoint \in Int
          /\ now \in Clock /\ lastTime \in Clock

(* In automatic mode the integral term lies within the limits in force,    *)
(* however mode and limits were changed, and it is NaN exactly if the      *)
(* output is (Initialize, SetOutputLimits and Compute each see to it).     *)
SumWithinLimits ==
  inAuto => /\ outputSum = NaN <=> output = NaN
            /\ outputSum # NaN => outputSum \in outMin .. outMax

(* No windup: the first computation that finds the input past the set      *)
(* point, and not on its way back, takes the output off the limit it sat   *)
(* on, however long it sat there (the clamping of outputSum in Compute).   *)
LeavesLimitAtOnce ==
  [][lastTime' # lastTime /\ ki > 0 /\ output # NaN =>
       /\ lastInput' > setpoint /\ lastInput' >= lastInput => output' < outMax
       /\ lastInput' < setpoint /\ lastInput' <= lastInput => output' > outMin
    ]_vars

(* A clock that is set back does not freeze the controller: the unsigned   *)
(* difference wraps, so the next computation goes ahead.                   *)
NeverFrozen == inAuto /\ now # lastTime ~> ~inAuto \/ now = lastTime

(* The object keeps the contract the state machine relies on. *)
Abstract == INSTANCE PIDContract
              WITH p <- [inAuto |-> inAuto, outMin |-> outMin,
                         outMax |-> outMax, output |-> output]
KeepsContract == Abstract!Spec
=============================================================================
