--------------------------- MODULE LSHDroneProofs ---------------------------
(***************************************************************************)
(* What the heater's drone guarantees for every row, every memory content  *)
(* and every failure of the line.  The inductive invariant says what       *)
(* TurnONOFF has done so far: a range other than off is only on its way if *)
(* the fuse is whole, and by the time it is sent the heater has the power  *)
(* of the row, unless it did not hear it.                                  *)
(***************************************************************************)
EXTENDS LSHDrone, TLAPS

(* The power the heater was last sent is that of the row. *)
PowerSent == unheard \/ mout = InBounds(setPW)

TurnIsPrepared ==
  /\ pc \in {"power", "mode"} => fuse
  /\ pc \in {"MOUT", "RANGE"} /\ turn # 0 => fuse
  /\ pc = "RANGE" /\ turn # 0 => PowerSent

IInv == TypeOK /\ TurnIsPrepared
-----------------------------------------------------------------------------
LEMMA InBoundsFits ==
  ASSUME NEW p \in Int
  PROVE  InBounds(p) \in 0 .. 100 /\ InBounds(InBounds(p)) = InBounds(p)
BY DEF InBounds

(* MOUT, wherever it is sent from, leaves the heater with the row's power. *)
LEMMA PowerIsSent ==
  ASSUME TypeOK, SetPowerLevel
  PROVE  /\ setPW' \in Int /\ mout' \in 0 .. 100 /\ unheard' \in BOOLEAN
         /\ PowerSent'
         /\ UNCHANGED <<reading, setMode, fuse, WatchdogFuse, turn, range>>
<1>1. InBounds(setPW) \in 0 .. 100 /\ InBounds(InBounds(setPW)) = InBounds(setPW)
  BY InBoundsFits DEF TypeOK
<1>2. setPW' = InBounds(setPW)
  BY DEF SetPowerLevel
<1>3. UNCHANGED <<reading, setMode, fuse, WatchdogFuse, turn, range>>
  BY DEF SetPowerLevel
<1>4. /\ mout' \in {mout, setPW'} /\ unheard' \in BOOLEAN
      /\ PowerSent'
  <2>1. CASE mout' = setPW' /\ unheard' = FALSE
    <3>1. mout' = InBounds(setPW')
      BY <1>1, <1>2, <2>1
    <3> QED BY <2>1, <3>1 DEF PowerSent
  <2>2. CASE mout' = mout /\ unheard' = TRUE
    BY <2>2 DEF PowerSent
  <2> QED BY <2>1, <2>2 DEF SetPowerLevel
<1>5. setPW' \in Int /\ mout' \in 0 .. 100
  BY <1>1, <1>2, <1>4 DEF TypeOK
<1> QED BY <1>3, <1>4, <1>5

LEMMA Initial == Init => IInv
<1> SUFFICES ASSUME Init PROVE IInv
  OBVIOUS
<1>1. currentPW \in Int /\ currentMode \in Int
  BY LSHAssumption DEF Init
<1>2. mout \in 0 .. 100
  BY LSHAssumption, InBoundsFits DEF Init
<1>3. fuse \in BOOLEAN /\ WatchdogFuse \in BOOLEAN /\ unheard \in BOOLEAN
  BY DEF Init
<1>4. setPW \in Int /\ setMode \in Int /\ turn \in Ranges /\ range \in Ranges
  BY DEF Init, Ranges
<1>5. pc = "ReadPower"
  BY DEF Init
<1> QED BY <1>1, <1>2, <1>3, <1>4, <1>5 DEF IInv, TypeOK, TurnIsPrepared

(* Polls touch nothing but the readings. *)
LEMMA PollsKeep ==
  ASSUME IInv, ReadPower \/ ReadMode \/ ReadTemperatureK
  PROVE  IInv'
<1>1. /\ pc' \in {"ReadMode", "ReadTemperatureK", "UpdateMysql", "hangs"}
      /\ UNCHANGED <<wanted, WatchdogFuse, turn, heater>>
  BY DEF ReadPower, ReadMode, ReadTemperatureK, Hangs
<1>2. /\ currentPW' \in {currentPW, Output}
      /\ currentMode' \in {currentMode, range}
  BY DEF ReadPower, ReadMode, ReadTemperatureK, Hangs, Garbled,
         PowerAnswered, ModeAnswered, reading
<1>3. Output \in Int /\ range \in Int
  BY DEF IInv, TypeOK, Ranges, Output
<1>4. TypeOK'
  BY <1>1, <1>2, <1>3 DEF IInv, TypeOK, wanted, heater
<1>5. TurnIsPrepared'
  BY <1>1 DEF TurnIsPrepared
<1> QED BY <1>4, <1>5 DEF IInv

LEMMA UpdateKeeps == ASSUME IInv, UpdateMysql PROVE IInv'
<1>1. setPW' \in Int /\ setMode' \in Int /\ fuse' \in BOOLEAN
  BY LSHAssumption DEF UpdateMysql
<1>2. pc' = "fuse" /\ UNCHANGED <<reading, WatchdogFuse, turn, heater>>
  BY DEF UpdateMysql
<1>3. TypeOK'
  BY <1>1, <1>2 DEF IInv, TypeOK, reading, heater
<1> QED BY <1>2, <1>3 DEF IInv, TurnIsPrepared

LEMMA FuseKeeps == ASSUME IInv, Fuse PROVE IInv'
<1>1. UNCHANGED <<reading, wanted, heater>>
  BY DEF Fuse
<1>2. CASE ~fuse
  <2>1. pc' = "MOUT" /\ turn' = 0 /\ WatchdogFuse' = FALSE
    BY <1>2 DEF Fuse
  <2>2. TypeOK'
    <3>1. WatchdogFuse' \in BOOLEAN
      BY <2>1
    <3>2. turn' \in Ranges /\ pc' = "MOUT"
      BY <2>1 DEF Ranges
    <3> QED BY <1>1, <3>1, <3>2 DEF IInv, TypeOK, reading, wanted, heater
  <2>3. TurnIsPrepared'
    <3>1. pc' \notin {"power", "mode", "RANGE"} /\ turn' = 0
      BY <2>1
    <3> QED BY <3>1 DEF TurnIsPrepared
  <2> QED BY <2>2, <2>3 DEF IInv
<1>3. CASE fuse
  <2>1. pc' = "power" /\ UNCHANGED <<turn, WatchdogFuse>>
    BY <1>3 DEF Fuse
  <2>2. TypeOK'
    BY <1>1, <2>1 DEF IInv, TypeOK, reading, wanted, heater
  <2> QED BY <1>1, <1>3, <2>1, <2>2 DEF IInv, TurnIsPrepared, wanted
<1> QED BY <1>2, <1>3 DEF IInv, TypeOK

LEMMA CorrectPowerKeeps == ASSUME IInv, CorrectPower PROVE IInv'
<1>1. pc' = "mode" /\ fuse
  BY DEF CorrectPower, IInv, TurnIsPrepared
<1>2. CASE currentPW # setPW
  <2>1. SetPowerLevel
    BY <1>2 DEF CorrectPower
  <2>2. TypeOK' /\ fuse' = fuse
    BY <1>1, <2>1, PowerIsSent DEF IInv, TypeOK, reading
  <2> QED BY <1>1, <2>2 DEF IInv, TurnIsPrepared
<1>3. CASE currentPW = setPW
  <2>1. UNCHANGED <<reading, wanted, WatchdogFuse, turn, heater>>
    BY <1>3 DEF CorrectPower
  <2>2. TypeOK' /\ fuse' = fuse
    BY <1>1, <2>1 DEF IInv, TypeOK, reading, wanted, heater
  <2> QED BY <1>1, <2>2 DEF IInv, TurnIsPrepared
<1> QED BY <1>2, <1>3

LEMMA CorrectModeKeeps == ASSUME IInv, CorrectMode PROVE IInv'
<1>1. /\ pc' \in {"ReadPower", "MOUT", "RANGE"} /\ turn' \in Ranges
      /\ pc' = "RANGE" => turn' = 0
      /\ UNCHANGED <<reading, wanted, WatchdogFuse, heater>>
  BY DEF CorrectMode, Ranges, IInv, TypeOK
<1>2. fuse
  BY DEF CorrectMode, IInv, TurnIsPrepared
<1>3. TypeOK'
  BY <1>1 DEF IInv, TypeOK, reading, wanted, heater
<1> QED BY <1>1, <1>2, <1>3 DEF IInv, TurnIsPrepared, wanted

LEMMA SetPowerAgainKeeps == ASSUME IInv, SetPowerAgain PROVE IInv'
<1>1. SetPowerLevel /\ pc = "MOUT" /\ pc' = "RANGE"
  BY DEF SetPowerAgain
<1>2. TypeOK' /\ PowerSent' /\ fuse' = fuse /\ turn' = turn
  BY <1>1, PowerIsSent DEF IInv, TypeOK, reading
<1> QED BY <1>1, <1>2 DEF IInv, TurnIsPrepared

LEMMA SetRangeKeeps == ASSUME IInv, SetRange PROVE IInv'
<1>1. pc' = "ReadPower" /\ range' \in {range, turn}
  BY DEF SetRange
<1>2. TypeOK'
  BY <1>1 DEF SetRange, IInv, TypeOK, reading, wanted
<1> QED BY <1>1, <1>2 DEF IInv, TurnIsPrepared

LEMMA RestartKeeps == ASSUME IInv, Die \/ Start PROVE IInv'
<1>1. CASE Die
  <2>1. TypeOK' /\ pc' = "dead"
    BY <1>1 DEF Die, IInv, TypeOK, reading, wanted, heater
  <2> QED BY <2>1 DEF IInv, TurnIsPrepared
<1>2. CASE Start
  <2>1. currentPW' \in Int /\ currentMode' \in Int
    BY <1>2, LSHAssumption DEF Start
  <2>2. /\ setPW' = 0 /\ setMode' = 0 /\ turn' = 0 /\ pc' = "ReadPower"
        /\ UNCHANGED heater
    BY <1>2 DEF Start
  <2>3. fuse' \in BOOLEAN /\ WatchdogFuse' \in BOOLEAN
    BY <1>2 DEF Start
  <2>4. TypeOK'
    BY <2>1, <2>2, <2>3 DEF IInv, TypeOK, Ranges, heater
  <2> QED BY <2>2, <2>4 DEF IInv, TurnIsPrepared
<1> QED BY <1>1, <1>2

LEMMA Inductive == IInv /\ [Next]_vars => IInv'
<1> SUFFICES ASSUME IInv, [Next]_vars PROVE IInv'
  OBVIOUS
<1>1. CASE Loop
  BY <1>1, PollsKeep, UpdateKeeps, FuseKeeps, CorrectPowerKeeps,
     CorrectModeKeeps, SetPowerAgainKeeps, SetRangeKeeps DEF Loop
<1>2. CASE Die \/ Start
  BY <1>2, RestartKeeps
<1>3. CASE UNCHANGED vars
  BY <1>3 DEF vars, reading, wanted, heater, IInv, TypeOK, TurnIsPrepared,
              PowerSent
<1> QED BY <1>1, <1>2, <1>3 DEF Next

(* What TurnONOFF has done so far is as the invariant says, always. *)
THEOREM Invariance == Spec => []IInv
<1> QED BY Initial, Inductive, PTL DEF Spec

(* The types of the drone and of the heater; the heater is never set to a  *)
(* power out of its bounds, whatever the row holds (SetPowerLevel).        *)
THEOREM TypeCorrect == Spec => []TypeOK
<1>1. IInv => TypeOK
  BY DEF IInv
<1> QED BY <1>1, Invariance, PTL

LEMMA OnlySetRangeTurns ==
  ASSUME IInv, [Next]_vars, range' # range
  PROVE  SetRange
<1>1. ~SetPowerLevel
  BY DEF SetPowerLevel
<1>2. heater' # heater
  BY DEF heater
<1> QED BY <1>1, <1>2 DEF Next, Loop, vars, ReadPower, ReadMode,
     ReadTemperatureK, UpdateMysql, Fuse, CorrectPower, CorrectMode,
     SetPowerAgain, Die, Start

(* A heater is switched on, or over, with the fuse whole and the power of  *)
(* the row, unless the MOUT before it went unheard (TurnONOFF).            *)
THEOREM SwitchedOnCorrect == Spec => SwitchedOnAtRowPower
<1>1. IInv /\ [Next]_vars =>
        [range' \notin {range, 0} =>
           fuse /\ (mout = InBounds(setPW) \/ unheard)]_vars
  <2> SUFFICES ASSUME IInv, [Next]_vars, range' \notin {range, 0}
               PROVE  fuse /\ (mout = InBounds(setPW) \/ unheard)
    OBVIOUS
  <2>1. SetRange
    BY OnlySetRangeTurns
  <2>2. pc = "RANGE" /\ turn # 0
    BY <2>1 DEF SetRange
  <2> QED BY <2>2 DEF IInv, TurnIsPrepared, PowerSent
<1> QED BY <1>1, Invariance, PTL DEF Spec, SwitchedOnAtRowPower
=============================================================================
