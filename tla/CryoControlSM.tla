--------------------------- MODULE CryoControlSM ---------------------------
(***************************************************************************)
(* The state machine process (StartSM.cpp, CryoControlSM.cpp,              *)
(* CCMySQLInteraction.cpp).  Every second it runs one sweep, SMEngine():   *)
(* UpdateVars() reads the set point, the last temperatures and the last    *)
(* outputs from the database and writes the outputs that the PREVIOUS      *)
(* sweep computed, one SQL statement at a time; then the sweep decides on  *)
(* a state, switches to it, runs it, and computes the outputs of the next  *)
(* sweep.  Any statement may throw, which ends the process; somebody may   *)
(* start it again, with a fresh memory.                                    *)
(*                                                                         *)
(* Temperatures and powers are integers.  The moving averages of the two   *)
(* sensors are kept as one bit each: above 320 K or not.                   *)
(***************************************************************************)
EXTENDS PIDOps

CONSTANTS HeatMax, BoostMax,    \* output limits: 0..75 or -120..75
          SetTemps,             \* set points the operator may enter
          Temps, LSHTemps,      \* readings of cooler and heater controller
          PMins,                \* minimum cooler powers reported
          Ages,                 \* seconds since a drone's last row
          Uninit,               \* what TOutput and ROutput may hold at start
          InitRows              \* control rows the first process may find

ASSUME SMAssumption ==
  /\ HeatMax \in Nat \ {0} /\ BoostMax \in Nat \ {0}
  /\ SetTemps \subseteq Int /\ Temps \subseteq Int /\ LSHTemps \subseteq Int
  /\ PMins \subseteq Int /\ Ages \subseteq Int /\ Uninit \subseteq Number
  /\ InitRows \subseteq [HeaterPW : Int, CCPower : Int,
                         CCPowerState : BOOLEAN, SRSPowerState : BOOLEAN]

VARIABLES pc,                   \* the statement the process is about to run
          row,                  \* outputs in ControlParameters, IDX = 1
          pkt,                  \* the sweep's DataPacket
          CurrentFSMState, ShouldBeFSMState,
          AbsPID, RatePID,      \* controllers of temperature and of its rate
          RSetpoint,            \* sign of the rate asked for; 0 is unset
          CCoolerPower, ComputedSRSPowerState,
          ThisRunHeaterPower, ThisRunCCPower,
          overCC, overLSH       \* MovingAvgCCRTD > 320, MovingAvgLSHRTD > 320

outputs == <<CCoolerPower, ComputedSRSPowerState,
             ThisRunHeaterPower, ThisRunCCPower>>
machine == <<CurrentFSMState, ShouldBeFSMState, AbsPID, RatePID, RSetpoint>>
memory  == <<machine, outputs, overCC, overLSH>>
vars    == <<pc, row, pkt, memory>>

FSMStates == {"Idle", "CoolDownHot", "CoolDownCold", "Warmup",
              "MaintainWarm", "MaintainCold", "Fault"}

(* No field is read before the statement that sets it.  The age of a row  *)
(* is its age at the decision, where the clock is read.                    *)
NoPacket == [TTemp |-> 0, CCPowerStateLast |-> FALSE, SRSPowerState |-> FALSE,
             curTemp |-> 0, PMin |-> 0, ageCC |-> 0,
             curTempLSH |-> 0, ageLSH |-> 0]
-----------------------------------------------------------------------------
(* The constructor.  No entry guard has run: the machine is in Idle as     *)
(* constructed, its controllers manual, their outputs uninitialised.       *)
Init == /\ pc = "down" /\ row \in InitRows /\ pkt = NoPacket
        /\ CurrentFSMState = "Idle" /\ ShouldBeFSMState = "Idle"
        /\ \E g \in Uninit : AbsPID = NewPID(HeatMax, g)
        /\ \E g \in Uninit : RatePID = NewPID(HeatMax, g)
        /\ RSetpoint = 0
        /\ CCoolerPower = FALSE /\ ComputedSRSPowerState = FALSE
        /\ ThisRunHeaterPower = 0 /\ ThisRunCCPower = 0
        /\ overCC = FALSE /\ overLSH = FALSE

Start == /\ pc = "down" /\ pc' = "control"
         /\ CurrentFSMState' = "Idle" /\ ShouldBeFSMState' = "Idle"
         /\ \E g \in Uninit : AbsPID' = NewPID(HeatMax, g)
         /\ \E g \in Uninit : RatePID' = NewPID(HeatMax, g)
         /\ RSetpoint' = 0
         /\ CCoolerPower' = FALSE /\ ComputedSRSPowerState' = FALSE
         /\ ThisRunHeaterPower' = 0 /\ ThisRunCCPower' = 0
         /\ overCC' = FALSE /\ overLSH' = FALSE
         /\ UNCHANGED <<row, pkt>>

(* An exception of the database connector, which nothing catches. *)
Crash == /\ pc # "down"
         /\ pc' = "down"
         /\ pkt' = NoPacket
         /\ UNCHANGED <<row, memory>>
-----------------------------------------------------------------------------
(* UpdateVars, one action per statement that touches the database. *)
SelectControlWithoutSwitches ==        \* variant: the switches are not read
  /\ pc = "control"
  /\ \E t \in SetTemps : pkt' = [pkt EXCEPT !.TTemp = t]
  /\ pc' = "cc"
  /\ UNCHANGED <<row, memory>>

SelectControl ==
  /\ pc = "control"
  /\ \E t \in SetTemps :
       pkt' = [pkt EXCEPT !.TTemp = t,
                          !.CCPowerStateLast = row.CCPowerState,
                          !.SRSPowerState = row.SRSPowerState]
  /\ pc' = "cc"
  /\ UNCHANGED <<row, memory>>

SelectCC ==
  /\ pc = "cc"
  /\ \E t \in Temps, m \in PMins, a \in Ages :
       pkt' = [pkt EXCEPT !.curTemp = t, !.PMin = m, !.ageCC = a]
  /\ pc' = "lsh"
  /\ UNCHANGED <<row, memory>>

SelectLSH ==
  /\ pc = "lsh"
  /\ \E t \in LSHTemps, a \in Ages :
       pkt' = [pkt EXCEPT !.curTempLSH = t, !.ageLSH = a]
  /\ pc' = "heater"
  /\ UNCHANGED <<row, memory>>

UpdateHeaterPWIfOn ==                  \* variant: a zero is not written
  /\ pc = "heater"
  /\ row' = IF ThisRunHeaterPower = 0
            THEN row ELSE [row EXCEPT !.HeaterPW = ThisRunHeaterPower]
  /\ pc' = "ccpower"
  /\ UNCHANGED <<pkt, memory>>

UpdateHeaterPW ==
  /\ pc = "heater"
  /\ row' = [row EXCEPT !.HeaterPW = ThisRunHeaterPower]
  /\ pc' = "ccpower"
  /\ UNCHANGED <<pkt, memory>>

UpdateCCPower ==
  /\ pc = "ccpower"
  /\ row' = [row EXCEPT !.CCPower = ThisRunCCPower + pkt.PMin]
  /\ pc' = "ccstate"
  /\ UNCHANGED <<pkt, memory>>

(* Written only if the row, as read at the start of the sweep, differs. *)
UpdateCCPowerState ==
  /\ pc = "ccstate"
  /\ row' = IF pkt.CCPowerStateLast # CCoolerPower
            THEN [row EXCEPT !.CCPowerState = CCoolerPower] ELSE row
  /\ pc' = "srsstate"
  /\ UNCHANGED <<pkt, memory>>

UpdateSRSIfCoolerDiffers ==            \* variant: the other switch compared
  /\ pc = "srsstate"
  /\ row' = IF pkt.CCPowerStateLast # CCoolerPower
            THEN [row EXCEPT !.SRSPowerState = ComputedSRSPowerState] ELSE row
  /\ pc' = "compute"
  /\ UNCHANGED <<pkt, memory>>

UpdateSRSPowerState ==
  /\ pc = "srsstate"
  /\ row' = IF pkt.SRSPowerState # ComputedSRSPowerState
            THEN [row EXCEPT !.SRSPowerState = ComputedSRSPowerState] ELSE row
  /\ pc' = "compute"
  /\ UNCHANGED <<pkt, memory>>
-----------------------------------------------------------------------------
(* The rules of StateDecision.  The code tries them in this order and lets *)
(* a later one override an earlier one; if none applies the state stays.   *)
Within(d, a, b) == a - b <= d /\ b - a <= d

TooHot(set, cur)         == cur > 300 /\ set < 300
MustWarm(set, cur)       == set > cur + 10 /\ cur < 290
MustCoolHot(set, cur)    == set < 220 /\ set < cur - 10 /\ cur > 220
MustCoolCold(set, cur)   == set < 220 /\ set < cur - 10 /\ cur <= 220
ColdReached(set, cur)    == set < 220 /\ Within(10, set, cur) /\ cur <= 220
WarmReached(set, cur)    == set > 220 /\ Within(2, set, cur) /\ cur > 220
Silent(ageLSH, ageCC)    == ageLSH > 60 \/ ageCC > 60

FirstRuleWins(set, cur, ageLSH, ageCC) ==      \* variant: order reversed
  IF TooHot(set, cur)            THEN "Idle"
  ELSE IF MustWarm(set, cur)     THEN "Warmup"
  ELSE IF MustCoolHot(set, cur)  THEN "CoolDownHot"
  ELSE IF MustCoolCold(set, cur) THEN "CoolDownCold"
  ELSE IF ColdReached(set, cur)  THEN "MaintainCold"
  ELSE IF WarmReached(set, cur)  THEN "MaintainWarm"
  ELSE IF Silent(ageLSH, ageCC)  THEN "Fault"
  ELSE ShouldBeFSMState

StateDecision(set, cur, ageLSH, ageCC) ==
  IF Silent(ageLSH, ageCC)       THEN "Fault"
  ELSE IF WarmReached(set, cur)  THEN "MaintainWarm"
  ELSE IF ColdReached(set, cur)  THEN "MaintainCold"
  ELSE IF MustCoolCold(set, cur) THEN "CoolDownCold"
  ELSE IF MustCoolHot(set, cur)  THEN "CoolDownHot"
  ELSE IF MustWarm(set, cur)     THEN "Warmup"
  ELSE IF TooHot(set, cur)       THEN "Idle"
  ELSE ShouldBeFSMState

(* What each state function does.  Its entry guard sets the mode of both   *)
(* controllers (abs, rate), then their lower limit (min), the sign of the  *)
(* rate set point (0: left alone), the cooler and the power supply; its    *)
(* body computes the controller named by "runs".                           *)
Manual == FALSE
Automatic == TRUE

Idle ==
  [abs |-> Manual, rate |-> Manual, min |-> 0, RSetpoint |-> 0,
   cooler |-> FALSE, srs |-> FALSE, runs |-> "none"]
Fault == Idle
Warmup ==
  [abs |-> Manual, rate |-> Automatic, min |-> 0, RSetpoint |-> 1,
   cooler |-> FALSE, srs |-> FALSE, runs |-> "RatePID"]
CoolDownHot ==
  [abs |-> Manual, rate |-> Automatic, min |-> 0, RSetpoint |-> -1,
   cooler |-> TRUE, srs |-> FALSE, runs |-> "RatePID"]
CoolDownCold ==
  [abs |-> Manual, rate |-> Automatic, min |-> -BoostMax, RSetpoint |-> -1,
   cooler |-> TRUE, srs |-> TRUE, runs |-> "RatePID"]
MaintainWarm ==
  [abs |-> Automatic, rate |-> Manual, min |-> 0, RSetpoint |-> 0,
   cooler |-> FALSE, srs |-> FALSE, runs |-> "AbsPID"]
MaintainCold ==
  [abs |-> Automatic, rate |-> Manual, min |-> -BoostMax, RSetpoint |-> 0,
   cooler |-> TRUE, srs |-> TRUE, runs |-> "AbsPID"]

STFnTable ==
  [Idle |-> Idle, CoolDownHot |-> CoolDownHot, CoolDownCold |-> CoolDownCold,
   Warmup |-> Warmup, MaintainWarm |-> MaintainWarm,
   MaintainCold |-> MaintainCold, Fault |-> Fault]

EnteredLimitsFirst(p, auto, fn, entering) ==   \* variant: order swapped
  IF entering THEN SetMode(SetOutputLimits(p, fn.min, HeatMax), auto) ELSE p

(* A controller after the entry guard, if the guard runs. *)
Entered(p, auto, fn, entering) ==
  IF entering THEN SetOutputLimits(SetMode(p, auto), fn.min, HeatMax) ELSE p

RunState(fn, entering) ==
  LET abs  == Entered(AbsPID, fn.abs, fn, entering)
      rate == Entered(RatePID, fn.rate, fn, entering)
  IN  /\ AbsPID'  \in IF fn.runs = "AbsPID"  THEN Computes(abs)  ELSE {abs}
      /\ RatePID' \in IF fn.runs = "RatePID" THEN Computes(rate) ELSE {rate}
      /\ RSetpoint' = IF entering /\ fn.RSetpoint # 0
                      THEN fn.RSetpoint ELSE RSetpoint
      /\ CCoolerPower' = IF entering THEN fn.cooler ELSE CCoolerPower
      /\ ComputedSRSPowerState' =
           IF entering THEN fn.srs ELSE ComputedSRSPowerState

(* ThisRunPIDValue, from the controllers as the state function left them. *)
PIDValue(fn, abs, rate) ==
  IF fn.runs = "AbsPID" THEN abs.output
  ELSE IF fn.runs = "RatePID" THEN rate.output ELSE 0

SanityCheckSigned(pid, hot) ==         \* variant: fabs is missing
  LET negative == pid # NaN /\ pid < 0
  IN  /\ ThisRunHeaterPower' = IF hot \/ negative THEN 0 ELSE pid
      /\ ThisRunCCPower' = IF ~hot /\ negative THEN pid ELSE 0

SanityCheckHeaterOnly(pid, hot) ==     \* variant: the cooler is not cut off
  LET negative == pid # NaN /\ pid < 0
  IN  /\ ThisRunHeaterPower' = IF hot \/ negative THEN 0 ELSE pid
      /\ ThisRunCCPower' = IF negative THEN -pid ELSE 0

(* A negative value drives the cooler, any other (a NaN too) the heater;   *)
(* neither is driven while a moving average is above 320 K.                *)
PostRunSanityCheck(pid, hot) ==
  LET negative == pid # NaN /\ pid < 0
  IN  /\ ThisRunHeaterPower' = IF hot \/ negative THEN 0 ELSE pid
      /\ ThisRunCCPower' = IF ~hot /\ negative THEN -pid ELSE 0

(* The average of 20 samples is the rational avg.n / avg.d; a sample of    *)
(* 10 K or less is an unplugged sensor and is not counted.                 *)
Average(avg, sample) ==
  IF sample <= 10 THEN avg
  ELSE [n |-> 19 * avg.n + sample * avg.d, d |-> 20 * avg.d]

Above(avg) == avg.n > 320 * avg.d

(* Where its one bit, above 320 or not, may go: AverageCovered in          *)
(* CryoControlSMProofs.                                                    *)
MovingAvg(over, sample) ==
  IF sample <= 10 THEN {over}
  ELSE IF sample > 320 THEN {over, TRUE} ELSE {over, FALSE}

(* The rest of the sweep, between two database sessions. *)
Compute ==
  /\ pc = "compute"
  /\ ShouldBeFSMState' =
       StateDecision(pkt.TTemp, pkt.curTemp, pkt.ageLSH, pkt.ageCC)
  /\ CurrentFSMState' = ShouldBeFSMState'
  /\ LET fn == STFnTable[CurrentFSMState']
     IN  /\ RunState(fn, CurrentFSMState' # CurrentFSMState)
         /\ overCC' \in MovingAvg(overCC, pkt.curTemp)
         /\ overLSH' \in MovingAvg(overLSH, pkt.curTempLSH)
         /\ PostRunSanityCheck(PIDValue(fn, AbsPID', RatePID'),
                               overCC' \/ overLSH')
  /\ pkt' = NoPacket
  /\ pc' = "control"
  /\ UNCHANGED row
-----------------------------------------------------------------------------
Sweep == \/ SelectControl \/ SelectCC \/ SelectLSH
         \/ UpdateHeaterPW \/ UpdateCCPower
         \/ UpdateCCPowerState \/ UpdateSRSPowerState
         \/ Compute

Next == Start \/ Crash \/ Sweep

(* The loop of main() goes on as long as the process lives.  Nothing in    *)
(* the program starts it again.                                            *)
Spec == Init /\ [][Next]_vars /\ WF_vars(Sweep)
-----------------------------------------------------------------------------
Packet == [TTemp : Int, CCPowerStateLast : BOOLEAN, SRSPowerState : BOOLEAN,
           curTemp : Int, PMin : Int, ageCC : Int,
           curTempLSH : Int, ageLSH : Int]

(* Types of the process and of the row it writes. *)
TypeOK ==
  /\ pc \in {"down", "control", "cc", "lsh", "heater", "ccpower", "ccstate",
             "srsstate", "compute"}
  /\ row \in [HeaterPW : Number, CCPower : Int,
              CCPowerState : BOOLEAN, SRSPowerState : BOOLEAN]
  /\ pkt \in Packet
  /\ CurrentFSMState \in FSMStates /\ ShouldBeFSMState \in FSMStates
  /\ AbsPID \in Contract /\ RatePID \in Contract
  /\ RSetpoint \in {-1, 0, 1}
  /\ CCoolerPower \in BOOLEAN /\ ComputedSRSPowerState \in BOOLEAN
  /\ ThisRunHeaterPower \in Number /\ ThisRunCCPower \in Nat
  /\ overCC \in BOOLEAN /\ overLSH \in BOOLEAN

Cooling == {"CoolDownHot", "CoolDownCold", "MaintainCold"}
Cold    == {"CoolDownCold", "MaintainCold"}
Ramping == {"Warmup", "CoolDownHot", "CoolDownCold"}
Holding == {"MaintainWarm", "MaintainCold"}

(* A value a controller that has run its limits can hold: a NaN, which no  *)
(* limit stops, can only be one the memory held at start.                  *)
Limited(v, lo) == v \in lo .. HeatMax \/ (v = NaN /\ NaN \in Uninit)

(* Whatever sequence of states led here, at most the one controller the    *)
(* state needs is automatic, its limits let it drive the cooler only below *)
(* 220 K, its output lies within them, the rate it is asked for has the    *)
(* right sign, and cooler and power supply are on in the right states      *)
(* (the entry guards of the seven state functions; Idle's never runs       *)
(* before the first change of state).                                      *)
ControllerMatchesState ==
  LET lo == IF CurrentFSMState \in Cold THEN -BoostMax ELSE 0
  IN  /\ RatePID.inAuto <=> CurrentFSMState \in Ramping
      /\ AbsPID.inAuto <=> CurrentFSMState \in Holding
      /\ \A p \in {AbsPID, RatePID} :
           /\ p.outMin = lo /\ p.outMax = HeatMax
           /\ p.inAuto => Limited(p.output, lo)
      /\ CurrentFSMState \in Ramping =>
           RSetpoint = IF CurrentFSMState = "Warmup" THEN 1 ELSE -1
      /\ CCoolerPower <=> CurrentFSMState \in Cooling
      /\ ComputedSRSPowerState <=> CurrentFSMState \in Cold

(* What the drones obey once a sweep has written its row: the heater within *)
(* its range; the cooler driven above its minimum only when it is on, the  *)
(* power supply is on and the heater is off; nothing on in Idle or Fault.  *)
PublishedRowIsSafe ==
  pc = "compute" =>
    LET boost == row.CCPower - pkt.PMin
    IN  /\ Limited(row.HeaterPW, 0)
        /\ boost \in 0 .. BoostMax
        /\ boost > 0 => /\ row.HeaterPW = 0
                        /\ row.CCPowerState /\ row.SRSPowerState
        /\ row.SRSPowerState => row.CCPowerState
        /\ CurrentFSMState \in {"Idle", "Fault"} =>
             row.HeaterPW = 0 /\ ~row.CCPowerState

(* "Catastrophe prevention": the sweep after the one that found a moving   *)
(* average above 320 K has taken heater and cooler drive off the row.      *)
CutOffReachesRow ==
  pc = "compute" /\ (overCC \/ overLSH) =>
    row.HeaterPW = 0 /\ row.CCPower = pkt.PMin

(* The direction of the drive follows set point and temperature, from any  *)
(* earlier state (a Fault that is over too) and across every override of   *)
(* one rule by another: cool a target below 220 K from far above, hold it  *)
(* when near, never cool what must be warmed, and fail when a drone is     *)
(* silent.  And no warm-up goes on above 300 K towards a lower set point,  *)
(* by whatever jump of the temperature or the set point it missed the warm *)
(* window that should have ended it.                                       *)
DirectionFollowsDemand ==
  [][pc = "compute" /\ pc' = "control" =>
       LET gap == pkt.curTemp - pkt.TTemp
           fail == pkt.ageCC > 60 \/ pkt.ageLSH > 60
           off == ~CCoolerPower' /\ ThisRunCCPower' = 0
       IN  /\ fail => off /\ ThisRunHeaterPower' = 0
           /\ ~fail /\ pkt.TTemp < 220 /\ gap > 10 =>
                CCoolerPower' /\ RatePID'.inAuto /\ RSetpoint' = -1
           /\ ~fail /\ pkt.TTemp < 210 /\ gap \in -10 .. 10 =>
                CCoolerPower' /\ AbsPID'.inAuto
           /\ ~fail /\ pkt.TTemp > 222 /\ gap \in -2 .. 2 =>
                off /\ AbsPID'.inAuto
           /\ ~fail /\ gap < -10 /\ pkt.curTemp < 290 =>
                off /\ RatePID'.inAuto /\ RSetpoint' = 1
           /\ ~fail /\ pkt.TTemp < 300 /\ pkt.curTemp > 300 =>
                ~(RatePID'.inAuto /\ RSetpoint' = 1)
    ]_vars

(* A Fault takes heater, cooler and power supply off the row, unless the   *)
(* process ends first: nothing else clears what it wrote.                  *)
FaultReachesRow ==
  CurrentFSMState = "Fault" ~>
    \/ pc = "down"
    \/ row.HeaterPW = 0 /\ ~row.CCPowerState /\ ~row.SRSPowerState

(* The row is written as ControlRow promises. *)
Unwritten ==
  {c \in {"HeaterPW", "CCPower", "CCPowerState", "SRSPowerState"} :
     \/ c = "HeaterPW"      /\ pc \notin {"ccpower", "ccstate", "srsstate", "compute"}
     \/ c = "CCPower"       /\ pc \notin {"ccstate", "srsstate", "compute"}
     \/ c = "CCPowerState"  /\ pc \notin {"srsstate", "compute"}
     \/ c = "SRSPowerState" /\ pc # "compute"}

Decided ==
  [HeaterPW |-> IF pc = "down" THEN 0 ELSE ThisRunHeaterPower,
   CCPower |-> IF pc = "down" THEN 0 ELSE ThisRunCCPower,
   CCPowerState |-> IF pc = "down" THEN FALSE ELSE CCoolerPower,
   SRSPowerState |-> IF pc = "down" THEN FALSE ELSE ComputedSRSPowerState]

Row == INSTANCE ControlRow WITH Junk <- Uninit \cap {NaN},
                                target <- Decided, pending <- Unwritten,
                                silent <- Silent(pkt.ageLSH, pkt.ageCC)
RowFollowsDecisions == Row!Spec
-----------------------------------------------------------------------------
(* A claim of a comment that the code does not keep. *)

(* CryoControlSM.cpp:163, above 300 K with a lower set point: "this should *)
(* never happen in practice. If it does, then idle."                       *)
IdleWhenHot ==
  [][pc = "compute" /\ pc' = "control" /\ TooHot(pkt.TTemp, pkt.curTemp) =>
       CurrentFSMState' \in {"Idle", "Fault"}]_vars
=============================================================================
