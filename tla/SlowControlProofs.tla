-------------------------- MODULE SlowControlProofs --------------------------
(***************************************************************************)
(* The safety of SlowControl, whatever the drones do and however often the *)
(* state machine process dies: from the first decision after a row has     *)
(* become too old, everything written to the row is off.                   *)
(***************************************************************************)
EXTENDS SlowControl, TLAPS

(* A sweep that has read the last rows knows of every one that is too old. *)
Knows == /\ selected => old \subseteq seen
         /\ ~selected => seen = {}

(* The columns of the last setting that are already written are off. *)
WrittenOff ==
  /\ "HeaterPW" \in pending \/ row.HeaterPW = 0
  /\ "CCPower" \in pending \/ row.CCPower \in PMins
  /\ "CCPowerState" \in pending \/ ~row.CCPowerState
  /\ "SRSPowerState" \in pending \/ ~row.SRSPowerState

Silenced == decided => old # {} /\ target = SM!Off /\ WrittenOff

IInv == TypeOK /\ Knows /\ Silenced
-----------------------------------------------------------------------------
LEMMA OffIsSetting == SM!Off \in SM!Settings
BY SlowControlAssumption DEF SM!Off, SM!Settings, SM!Heats

(* The effect of writing one column on the row. *)
LEMMA WriteColumn ==
  ASSUME row \in Rows, target \in SM!Settings, pending \subseteq SM!Columns,
         NEW c \in SM!Columns, SM!Write(c)
  PROVE  /\ row' \in Rows
         /\ pending' = pending \ {c} /\ target' = target
         /\ target = SM!Off /\ WrittenOff => WrittenOff'
<1>1. pending' = pending \ {c} /\ target' = target
  BY DEF SM!Write
<1>2. CASE c = "CCPower"
  <2>1. PICK pmin \in PMins : row' = [row EXCEPT !.CCPower = target.CCPower + pmin]
    BY <1>2 DEF SM!Write
  <2>2. target.CCPower \in Int /\ pmin \in Int
    BY SlowControlAssumption DEF SM!Settings
  <2>3. row' \in Rows
    BY <2>1, <2>2 DEF Rows
  <2>4. ASSUME target = SM!Off PROVE row'.CCPower \in PMins
    BY <2>1, <2>2, <2>4 DEF SM!Off, Rows
  <2> QED BY <1>1, <1>2, <2>1, <2>3, <2>4 DEF WrittenOff, Rows
<1>3. CASE c = "HeaterPW"
  <2>1. row' = [row EXCEPT !.HeaterPW = target.HeaterPW]
    BY <1>3 DEF SM!Write
  <2>2. target.HeaterPW \in SM!Heats
    BY DEF SM!Settings
  <2> QED BY <1>1, <1>3, <2>1, <2>2 DEF WrittenOff, Rows, SM!Off
<1>4. CASE c = "CCPowerState"
  <2>1. row' = [row EXCEPT !.CCPowerState = target.CCPowerState]
    BY <1>4 DEF SM!Write
  <2>2. target.CCPowerState \in BOOLEAN
    BY DEF SM!Settings
  <2> QED BY <1>1, <1>4, <2>1, <2>2 DEF WrittenOff, Rows, SM!Off
<1>5. CASE c = "SRSPowerState"
  <2>1. row' = [row EXCEPT !.SRSPowerState = target.SRSPowerState]
    BY <1>5 DEF SM!Write
  <2>2. target.SRSPowerState \in BOOLEAN
    BY DEF SM!Settings
  <2> QED BY <1>1, <1>5, <2>1, <2>2 DEF WrittenOff, Rows, SM!Off
<1> QED BY <1>2, <1>3, <1>4, <1>5 DEF SM!Columns

(* What a drone reads is a setting of its device, and so is what the device *)
(* takes from it.                                                           *)
LEMMA ReadColumn ==
  ASSUME row \in Rows, asked \in Devices, NEW d \in Drones
  PROVE  [asked EXCEPT ![d] = row[Column[d]]] \in Devices
BY DEF Rows, Devices, Drones, Column

LEMMA TakeOver ==
  ASSUME NEW f \in Devices, NEW g \in Devices, NEW d \in Drones
  PROVE  [f EXCEPT ![d] = g[d]] \in Devices
BY DEF Devices, Drones
-----------------------------------------------------------------------------
THEOREM Initial == Init => IInv
<1> SUFFICES ASSUME Init PROVE IInv
  OBVIOUS
<1>1. row \in Rows /\ target \in SM!Settings /\ pending \subseteq SM!Columns
  BY OffIsSetting, SlowControlAssumption DEF Init, SM!Init
<1>2. device \in Devices /\ asked \in Devices
  <2>1. PICK r \in InitRows : device = [CC |-> r.CCPowerState, LSH |-> r.HeaterPW]
    BY DEF Init
  <2>2. r \in Rows
    BY SlowControlAssumption
  <2> QED BY <2>1, <2>2 DEF Init, Devices, Rows
<1>3. drone \in [Drones -> {"live", "stuck", "dead"}]
  BY DEF Init
<1> QED BY <1>1, <1>2, <1>3 DEF Init, IInv, TypeOK, Knows, Silenced

(* The steps of a sweep and of the process that makes it. *)
LEMMA SweepKeeps ==
  ASSUME IInv, Sweep \/ CrashSM \/ StartSM
  PROVE  IInv'
<1> USE DEF IInv
<1>1. CASE Select
  <2>1. TypeOK'
    BY <1>1 DEF Select, TypeOK, sm, drones
  <2>2. Knows' /\ Silenced'
    BY <1>1 DEF Select, TypeOK, Knows, Silenced, WrittenOff, sm, drones
  <2> QED BY <2>1, <2>2
<1>2. CASE Publish
  <2>1. PICK c \in pending : SM!Write(c)
    BY <1>2 DEF Publish
  <2>2. c \in SM!Columns
    BY DEF TypeOK
  <2>3. /\ row' \in Rows
        /\ pending' = pending \ {c} /\ target' = target
        /\ target = SM!Off /\ WrittenOff => WrittenOff'
    BY <2>1, <2>2, WriteColumn DEF TypeOK
  <2>4. UNCHANGED <<smUp, selected, seen, decided, old, drone, asked, device>>
    BY <1>2 DEF Publish, sweep, drones
  <2>5. TypeOK'
    BY <2>3, <2>4 DEF TypeOK
  <2>6. Knows' /\ Silenced'
    BY <2>3, <2>4 DEF Knows, Silenced
  <2> QED BY <2>5, <2>6
<1>3. CASE Decide
  <2>1. /\ target' \in SM!Settings /\ pending' = SM!Columns /\ row' = row
        /\ seen # {} => target' = SM!Off
        /\ selected /\ selected' = FALSE /\ seen' = {} /\ decided' = (old # {})
        /\ UNCHANGED <<smUp, old, drone, asked, device>>
    BY <1>3 DEF Decide, SM!Decide, Silence, drones
  <2>2. TypeOK'
    BY <2>1 DEF TypeOK
  <2>3. WrittenOff'
    BY <2>1 DEF WrittenOff, SM!Columns
  <2>4. Knows' /\ Silenced'
    BY <2>1, <2>3 DEF Knows, Silenced
  <2> QED BY <2>2, <2>4
<1>4. CASE CrashSM
  <2>1. /\ target' = SM!Off /\ pending' = SM!Columns /\ row' = row
        /\ smUp' = FALSE /\ selected' = FALSE /\ seen' = {}
        /\ UNCHANGED <<decided, old, drone, asked, device>>
    BY <1>4 DEF CrashSM, SM!Restart, drones
  <2>2. TypeOK'
    BY <2>1, OffIsSetting DEF TypeOK
  <2>3. WrittenOff'
    BY <2>1 DEF WrittenOff, SM!Columns
  <2>4. Knows' /\ Silenced'
    BY <2>1, <2>3 DEF Knows, Silenced
  <2> QED BY <2>2, <2>4
<1>5. CASE StartSM
  <2>1. TypeOK'
    BY <1>5 DEF StartSM, TypeOK, sm, drones
  <2>2. Knows' /\ Silenced'
    BY <1>5 DEF StartSM, Knows, Silenced, WrittenOff, sm, drones
  <2> QED BY <2>1, <2>2
<1> QED BY <1>1, <1>2, <1>3, <1>4, <1>5 DEF Sweep

(* The steps of a drone and of the clock: a fresh row of the last drone    *)
(* that was silent ends what has been decided.                             *)
LEMMA DroneKeeps ==
  ASSUME IInv, NEW d \in Drones,
         \/ Pass(d) \/ Obey(d) \/ Stick(d) \/ Resume(d)
         \/ Die(d) \/ StartDrone(d) \/ GrowOld(d) \/ SeenGrowsOld(d)
  PROVE  IInv'
<1> USE DEF IInv
<1>1. CASE Pass(d)
  <2>1. /\ asked' = [asked EXCEPT ![d] = row[Column[d]]]
        /\ old' = old \ {d} /\ decided' = (decided /\ old' # {})
        /\ UNCHANGED <<row, target, pending, smUp, selected, seen, drone, device>>
    BY <1>1 DEF Pass, sm
  <2>2. asked' \in Devices
    BY <2>1, ReadColumn DEF TypeOK
  <2>3. TypeOK'
    BY <2>1, <2>2 DEF TypeOK
  <2>4. Knows' /\ Silenced'
    BY <2>1 DEF Knows, Silenced, WrittenOff
  <2> QED BY <2>3, <2>4
<1>2. CASE Obey(d) \/ StartDrone(d)
  <2>1. /\ \/ device' = [device EXCEPT ![d] = asked[d]] /\ asked' = asked
           \/ device' = device /\ asked' = [asked EXCEPT ![d] = device[d]]
        /\ drone' = drone \/ drone' = [drone EXCEPT ![d] = "live"]
        /\ UNCHANGED <<row, target, pending, smUp, selected, seen, decided, old>>
    BY <1>2 DEF Obey, StartDrone, sm, sweep
  <2>2. asked' \in Devices /\ device' \in Devices
    BY <2>1, TakeOver DEF TypeOK
  <2>3. TypeOK'
    BY <2>1, <2>2 DEF TypeOK
  <2>4. Knows' /\ Silenced'
    BY <2>1 DEF Knows, Silenced, WrittenOff
  <2> QED BY <2>3, <2>4
<1>3. CASE Stick(d) \/ Resume(d) \/ Die(d)
  <2>1. /\ drone' \in [Drones -> {"live", "stuck", "dead"}]
        /\ UNCHANGED <<row, target, pending, smUp, selected, seen, decided, old,
                       asked, device>>
    BY <1>3 DEF Stick, Resume, Die, sm, sweep, TypeOK
  <2>2. TypeOK'
    BY <2>1 DEF TypeOK
  <2>3. Knows' /\ Silenced'
    BY <2>1 DEF Knows, Silenced, WrittenOff
  <2> QED BY <2>2, <2>3
<1>4. CASE GrowOld(d) \/ SeenGrowsOld(d)
  <2>1. /\ \/ old' = old \cup {d} /\ seen' = IF selected THEN seen \cup {d} ELSE seen
           \/ selected /\ old' = old /\ seen' = seen \cup {d}
        /\ UNCHANGED <<row, target, pending, smUp, selected, decided, drone,
                       asked, device>>
    BY <1>4 DEF GrowOld, SeenGrowsOld, sm, drones
  <2>2. TypeOK'
    BY <2>1 DEF TypeOK
  <2>3. Knows' /\ Silenced'
    BY <2>1 DEF Knows, Silenced, WrittenOff
  <2> QED BY <2>2, <2>3
<1> QED BY <1>1, <1>2, <1>3, <1>4

LEMMA Inductive == IInv /\ [Next]_vars => IInv'
<1> SUFFICES ASSUME IInv, [Next]_vars PROVE IInv'
  OBVIOUS
<1>1. CASE Sweep \/ CrashSM \/ StartSM
  BY <1>1, SweepKeeps
<1>2. CASE \E d \in Drones : \/ Pass(d) \/ Obey(d) \/ Stick(d) \/ Resume(d)
                            \/ Die(d) \/ StartDrone(d)
                            \/ GrowOld(d) \/ SeenGrowsOld(d)
  BY <1>2, DroneKeeps
<1>3. CASE UNCHANGED vars
  BY <1>3 DEF vars, sm, sweep, drones, IInv, TypeOK, Knows, Silenced, WrittenOff
<1> QED BY <1>1, <1>2, <1>3 DEF Next

THEOREM Invariant == Spec => []IInv
BY Initial, Inductive, PTL DEF Spec

(* The values of the row, of the decisions and of the devices: UpdateMysql *)
(* and UpdateVars hand on only what the controllers can produce.           *)
THEOREM TypeCorrect == Spec => []TypeOK
<1>1. IInv => TypeOK
  BY DEF IInv
<1> QED BY <1>1, Invariant, PTL

(* Once a decision has been made on a row older than 60 s, the row of      *)
(* ControlParameters is off in full as soon as UpdateVars has written it.  *)
THEOREM SilenceReaches == Spec => []SilenceReachesRow
<1>1. IInv => SilenceReachesRow
  BY DEF IInv, Silenced, WrittenOff, SilenceReachesRow
<1> QED BY <1>1, Invariant, PTL
=============================================================================
