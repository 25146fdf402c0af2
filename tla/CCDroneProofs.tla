--------------------------- MODULE CCDroneProofs ---------------------------
(***************************************************************************)
(* The safety of CCDrone, for every report of the cooler, every content of *)
(* the row and every fault of an exchange: how often the cooler is         *)
(* switched, and the power asked of it.                                    *)
(***************************************************************************)
EXTENDS CCDrone, TLAPS

(* Places after the poll of the limits, and after the count was advanced. *)
Polled  == {"checkIfON", "UpdateMysql", "adjust", "GetPIDState", "mode",
            "power"}
Counting == {"adjust", "GetPIDState", "mode", "power"}

(* The limits at hand are one report, once the poll has read them. *)
LimitsFromOneReport ==
  pc \in Polled => \E r \in Reports : PMin = r[1] /\ PMax = r[2]

(* The count of the loop started no later than the last switch command, or *)
(* 30 refreshes have passed since.                                         *)
CountBehindSwitch ==
  /\ sinceSwitch >= numRefreshes
  /\ pc \in Counting /\ numRefreshes = 0 => sinceSwitch = 30

IInv == TypeOK /\ LimitsFromOneReport /\ CountBehindSwitch
-----------------------------------------------------------------------------
(* AdjustCryoPower asks for a power within the limits at hand, to the watt *)
(* its minimum is truncated to.                                            *)
LEMMA SentWithin ==
  ASSUME NEW lo \in Nat, NEW hi \in Nat, lo <= hi, newPower \in Int,
         PMin = lo, PMax = hi
  PROVE  /\ Sent \in Nat
         /\ 10 * Sent \in lo - 9 .. hi
<1> DEFINE minP == lo \div 10
           maxP == hi \div 10
           raised == IF newPower > minP THEN newPower ELSE minP
<1>1. /\ minP \in Nat /\ maxP \in Nat
      /\ 10 * minP <= lo /\ lo - 9 <= 10 * minP
      /\ 10 * maxP <= hi /\ hi - 9 <= 10 * maxP
  OBVIOUS
<1>2. Sent = IF raised > maxP THEN maxP ELSE raised
  BY DEF Sent
<1>3. minP <= maxP
  BY <1>1
<1> HIDE DEF minP, maxP
<1> QED BY <1>1, <1>2, <1>3

LEMMA SentFromReport ==
  ASSUME IInv, pc \in Polled
  PROVE  /\ Sent \in Nat
         /\ \E r \in Reports : 10 * Sent \in r[1] - 9 .. r[2]
<1>1. PICK r \in Reports : PMin = r[1] /\ PMax = r[2]
  BY DEF IInv, LimitsFromOneReport
<1>2. r[1] \in Nat /\ r[2] \in Nat /\ r[1] <= r[2] /\ newPower \in Int
  BY CCDroneAssumption DEF IInv, TypeOK
<1>3. Sent \in Nat /\ 10 * Sent \in r[1] - 9 .. r[2]
  BY <1>1, <1>2, SentWithin
<1> QED BY <1>3

THEOREM Initial == Init => IInv
<1> SUFFICES ASSUME Init PROVE IInv
  OBVIOUS
<1>1. TypeOK
  <2>1. /\ isON \in BOOLEAN /\ newPowerState \in BOOLEAN /\ running \in BOOLEAN
    BY DEF Init
  <2>2. /\ Status \in UninitStatus \cup {0, -1, -2}
        /\ numRefreshes \in 0 .. 29 /\ sinceSwitch \in 0 .. 30
        /\ PMin \in Nat /\ PMax \in Nat /\ pwout \in Nat
        /\ newPower \in Powers \cup {0}
    BY DEF Init
  <2>3. ControllerMode \in Modes /\ pid \in Modes
    BY DEF Init, Modes
  <2>4. pc = "loop"
    BY DEF Init
  <2> QED BY <2>1, <2>2, <2>3, <2>4 DEF TypeOK
<1>2. LimitsFromOneReport /\ CountBehindSwitch
  BY DEF Init, LimitsFromOneReport, CountBehindSwitch, Polled, Counting
<1> QED BY <1>1, <1>2 DEF IInv

(* A poll, successful or not, whatever it answers. *)
LEMMA PollKeeps ==
  ASSUME IInv, GetTC \/ GetP \/ GetE \/ checkIfON
  PROVE  IInv'
<1>1. \A r \in Reports : r[1] \in Nat /\ r[2] \in Nat
  BY CCDroneAssumption
<1>2. PMin' \in Nat /\ PMax' \in Nat
  BY <1>1 DEF IInv, TypeOK, GetTC, GetP, GetE, checkIfON
<1>3. /\ UNCHANGED <<numRefreshes, ControllerMode, wanted, cooler, sinceSwitch>>
      /\ Status' \in UninitStatus \cup {0, -1, -2} /\ isON' \in BOOLEAN
      /\ pc' \in {"loop", "GetP", "GetE", "checkIfON", "UpdateMysql", "hangs"}
  BY DEF IInv, TypeOK, GetTC, GetP, GetE, checkIfON, Succeeds, Fails, Hangs
<1>4. TypeOK'
  BY <1>2, <1>3 DEF IInv, TypeOK, wanted, cooler
<1>5. LimitsFromOneReport'
  <2>1. CASE GetE
    BY <2>1 DEF GetE, Succeeds, Fails, Hangs, LimitsFromOneReport, Polled
  <2>2. CASE GetTC \/ GetP \/ checkIfON
    BY <2>2 DEF GetTC, GetP, checkIfON, Succeeds, Fails, Hangs, IInv,
                LimitsFromOneReport, Polled
  <2> QED BY <2>1, <2>2
<1>6. CountBehindSwitch'
  BY <1>3 DEF IInv, CountBehindSwitch, Counting
<1> QED BY <1>4, <1>5, <1>6 DEF IInv

LEMMA UpdateMysqlKeeps == ASSUME IInv, UpdateMysql PROVE IInv'
<1>1. TypeOK'
  BY DEF IInv, TypeOK, UpdateMysql, Counted, cooler
<1>2. LimitsFromOneReport'
  BY DEF IInv, LimitsFromOneReport, UpdateMysql, Polled
<1>3. CountBehindSwitch'
  BY DEF IInv, TypeOK, CountBehindSwitch, UpdateMysql, Counted, Counting
<1> QED BY <1>1, <1>2, <1>3 DEF IInv

(* The statements between the row and the end of the loop. *)
LEMMA RestKeeps ==
  ASSUME IInv, AdjustCryoPower \/ GetPIDState \/ SetCryoMode \/ Reset
  PROVE  IInv'
<1>1. /\ UNCHANGED <<numRefreshes, isON, PMin, PMax, wanted, running,
                     sinceSwitch, Status>>
      /\ \/ pc' \in {"loop", "hangs"}
         \/ pc \in Counting /\ pc' \in {"GetPIDState", "mode", "power"}
  <2>1. CASE AdjustCryoPower
    BY <2>1 DEF AdjustCryoPower, Hangs, Counting
  <2>2. CASE GetPIDState
    BY <2>2 DEF GetPIDState, Counting, cooler
  <2>3. CASE SetCryoMode
    BY <2>3 DEF SetCryoMode, Counting
  <2>4. CASE Reset
    BY <2>4 DEF Reset, cooler
  <2> QED BY <2>1, <2>2, <2>3, <2>4
<1>2. ControllerMode' \in Modes /\ pid' \in Modes
  BY DEF AdjustCryoPower, GetPIDState, SetCryoMode, Reset, Modes, IInv,
         TypeOK, cooler
<1>3. pwout' \in Nat
  BY SentFromReport DEF AdjustCryoPower, GetPIDState, SetCryoMode, Reset,
     Polled, IInv, TypeOK, cooler
<1>4. TypeOK'
  BY <1>1, <1>2, <1>3 DEF IInv, TypeOK, wanted, Counting
<1>5. LimitsFromOneReport'
  BY <1>1 DEF IInv, LimitsFromOneReport, Polled, Counting
<1>6. CountBehindSwitch'
  BY <1>1 DEF IInv, CountBehindSwitch, Counting
<1> QED BY <1>4, <1>5, <1>6 DEF IInv

LEMMA PowerOnOffKeeps == ASSUME IInv, PowerOnOff PROVE IInv'
<1>1. pc' \in {"loop", "hangs"} /\ UNCHANGED <<Status, numRefreshes,
        ControllerMode, PMin, PMax, wanted, pid>>
  BY DEF PowerOnOff
<1>2. /\ running' \in BOOLEAN /\ isON' \in BOOLEAN
      /\ sinceSwitch' = sinceSwitch \/ (sinceSwitch' = 0 /\ numRefreshes = 0)
  BY DEF PowerOnOff, Due, IInv, TypeOK
<1>3. pwout' \in Nat
  BY SentFromReport DEF PowerOnOff, Polled, IInv, TypeOK
<1>4. TypeOK'
  BY <1>1, <1>2, <1>3 DEF IInv, TypeOK, wanted
<1>5. LimitsFromOneReport' /\ CountBehindSwitch'
  BY <1>1, <1>2 DEF IInv, TypeOK, LimitsFromOneReport, CountBehindSwitch,
                    Polled, Counting
<1> QED BY <1>4, <1>5 DEF IInv

LEMMA RestartKeeps ==
  ASSUME IInv, ModeLost \/ Die \/ Start \/ UNCHANGED vars
  PROVE  IInv'
<1>1. CASE ModeLost
  BY <1>1 DEF ModeLost, IInv, TypeOK, LimitsFromOneReport, CountBehindSwitch,
              program, wanted, Modes
<1>2. CASE Die
  BY <1>2 DEF Die, IInv, TypeOK, LimitsFromOneReport, CountBehindSwitch,
              program, wanted, cooler, Polled, Counting
<1>3. CASE Start
  <2>1. TypeOK'
    <3>1. isON' \in BOOLEAN /\ newPowerState' \in BOOLEAN
      BY <1>3 DEF Start
    <3>2. /\ Status' \in UninitStatus \cup {0, -1, -2}
          /\ numRefreshes' \in 0 .. 29
          /\ PMin' \in Nat /\ PMax' \in Nat /\ newPower' \in Powers \cup {0}
      BY <1>3 DEF Start
    <3>3. ControllerMode' \in Modes /\ pc' = "loop"
      BY <1>3 DEF Start, Modes
    <3>4. UNCHANGED <<running, pwout, pid, sinceSwitch>>
      BY <1>3 DEF Start, cooler
    <3> QED BY <3>1, <3>2, <3>3, <3>4 DEF IInv, TypeOK
  <2>2. LimitsFromOneReport' /\ CountBehindSwitch'
    BY <1>3 DEF Start, IInv, TypeOK, LimitsFromOneReport, CountBehindSwitch,
                Polled, Counting
  <2> QED BY <2>1, <2>2 DEF IInv
<1>4. CASE UNCHANGED vars
  BY <1>4 DEF vars, IInv, TypeOK, LimitsFromOneReport, CountBehindSwitch,
              program, wanted, cooler
<1> QED BY <1>1, <1>2, <1>3, <1>4

THEOREM Inductive == IInv /\ [Next]_vars => IInv'
BY PollKeeps, UpdateMysqlKeeps, RestKeeps, PowerOnOffKeeps, RestartKeeps
DEF Next, Loop
-----------------------------------------------------------------------------
(* The inductive invariant: limits from one report, and a count that began *)
(* at or after the last switch command.                                    *)
THEOREM Invariance == Spec => []IInv
BY Initial, Inductive, PTL DEF Spec

(* Types of the drone; the power asked is never negative. *)
THEOREM TypeCorrect == Spec => []TypeOK
BY Invariance, PTL DEF IInv

(* Two switch commands are 30 refreshes apart, over restarts of the drone  *)
(* (numRefreshes of main() starts at 0 and is incremented before the test). *)
THEOREM SwitchesSpaced == Spec => SwitchesAreSpaced
<1>1. IInv /\ [Next]_vars => [running' # running => sinceSwitch >= 30]_vars
  <2> SUFFICES ASSUME IInv, Next, running' # running PROVE sinceSwitch >= 30
    BY DEF vars, cooler
  <2>1. CASE PowerOnOff
    BY <2>1 DEF PowerOnOff, Due, IInv, TypeOK, CountBehindSwitch, Counting
  <2>2. CASE ~PowerOnOff
    BY <2>2 DEF Next, Loop, GetTC, GetP, GetE, checkIfON, UpdateMysql,
       AdjustCryoPower, GetPIDState, SetCryoMode, Reset, ModeLost, Die, Start,
       cooler
  <2> QED BY <2>1, <2>2
<1> QED BY <1>1, Invariance, PTL DEF Spec, SwitchesAreSpaced

(* The power asked of the cooler lies within one report of the cooler.     *)
THEOREM PowerCorrect == Spec => PowerWithinReport
<1>1. IInv /\ [Next]_vars =>
        [pwout' # pwout => \E r \in Reports : 10 * pwout' \in r[1] - 9 .. r[2]]_vars
  <2> SUFFICES ASSUME IInv, Next, pwout' # pwout
               PROVE  \E r \in Reports : 10 * pwout' \in r[1] - 9 .. r[2]
    BY DEF vars, cooler
  <2>1. pc \in Polled /\ pwout' = Sent
    BY DEF Next, Loop, GetTC, GetP, GetE, checkIfON, UpdateMysql,
       AdjustCryoPower, GetPIDState, SetCryoMode, PowerOnOff, Reset, ModeLost,
       Die, Start, cooler, Polled
  <2> QED BY <2>1, SentFromReport
<1> QED BY <1>1, Invariance, PTL DEF Spec, PowerWithinReport
=============================================================================
