------------------------ MODULE CryoControlSMProofs ------------------------
(***************************************************************************)
(* What the state machine process guarantees for every choice of readings, *)
(* set points, limits and memory contents, and across crashes at any       *)
(* statement.  The argument is one inductive invariant, IInv: the          *)
(* controllers match the state (ControllerMatchesState), so that the       *)
(* outputs of a sweep fit the state (OutputsFit); and while the next sweep *)
(* writes them, the packet still holds the switches of the row as they are *)
(* (PacketFresh), so that skipping an UPDATE is sound, and every column    *)
(* already passed holds what was decided (RowTracks).                      *)
(***************************************************************************)
EXTENDS CryoControlSM, PIDOpsTheorems

(* StateSwitch has always caught up with StateDecision between sweeps. *)
StatesAgree == ShouldBeFSMState = CurrentFSMState

(* A NaN output can only be one the memory held at start. *)
JunkFromStart ==
  \A p \in {AbsPID, RatePID} : p.output = NaN => NaN \in Uninit

(* The outputs a sweep leaves fit the state it leaves. *)
OutputsFit ==
  /\ Limited(ThisRunHeaterPower, 0)
  /\ ThisRunCCPower \in 0 .. BoostMax
  /\ ThisRunCCPower > 0 => ThisRunHeaterPower = 0 /\ CurrentFSMState \in Cold
  /\ CurrentFSMState \in {"Idle", "Fault"} => ThisRunHeaterPower = 0
  /\ overCC \/ overLSH => ThisRunHeaterPower = 0 /\ ThisRunCCPower = 0

(* The switches read at the start of the sweep are those of the row until  *)
(* the sweep itself writes them; the minimum power is one a drone reported. *)
PacketFresh ==
  /\ pc \in {"cc", "lsh", "heater", "ccpower", "ccstate"} =>
       pkt.CCPowerStateLast = row.CCPowerState
  /\ pc \in {"cc", "lsh", "heater", "ccpower", "ccstate", "srsstate"} =>
       pkt.SRSPowerState = row.SRSPowerState
  /\ pc \in {"lsh", "heater", "ccpower"} => pkt.PMin \in PMins

(* The columns the sweep has passed hold what the last sweep decided. *)
RowTracks ==
  /\ pc \in {"ccpower", "ccstate", "srsstate", "compute"} =>
       row.HeaterPW = ThisRunHeaterPower
  /\ pc \in {"ccstate", "srsstate", "compute"} =>
       row.CCPower = ThisRunCCPower + pkt.PMin
  /\ pc \in {"srsstate", "compute"} => row.CCPowerState = CCoolerPower
  /\ pc = "compute" => row.SRSPowerState = ComputedSRSPowerState

IInv == /\ TypeOK
        /\ StatesAgree
        /\ JunkFromStart
        /\ ControllerMatchesState
        /\ OutputsFit
        /\ PacketFresh
        /\ RowTracks
-----------------------------------------------------------------------------
(* The lower limit a state sets. *)
Lowest(s) == IF s \in Cold THEN -BoostMax ELSE 0

(* Controller p is as state s needs it. *)
Controls(p, s, auto) ==
  /\ p \in Contract
  /\ p.inAuto <=> auto
  /\ p.outMin = Lowest(s) /\ p.outMax = HeatMax
  /\ p.inAuto => Limited(p.output, Lowest(s))
  /\ p.output = NaN => NaN \in Uninit

(* The seven entry guards of CryoControlSM.cpp:231-472, side by side: the   *)
(* modes, limits, switches and the rate each of them sets, and the         *)
(* controller each body computes.                                          *)
LEMMA StateFunctions ==
  ASSUME NEW s \in FSMStates
  PROVE  LET fn == STFnTable[s]
         IN  /\ fn.abs \in BOOLEAN
             /\ fn.abs <=> s \in Holding
             /\ fn.rate \in BOOLEAN
             /\ fn.rate <=> s \in Ramping
             /\ fn.min = Lowest(s)
             /\ fn.cooler \in BOOLEAN
             /\ fn.cooler <=> s \in Cooling
             /\ fn.srs \in BOOLEAN
             /\ fn.srs <=> s \in Cold
             /\ fn.RSetpoint \in {-1, 0, 1}
             /\ s \in Ramping => fn.RSetpoint = IF s = "Warmup" THEN 1 ELSE -1
             /\ fn.runs = IF s \in Holding THEN "AbsPID"
                          ELSE IF s \in Ramping THEN "RatePID" ELSE "none"
<1> USE DEF Holding, Ramping, Cooling, Cold, Lowest, Manual, Automatic
<1>1. CASE s = "Idle"
  <2>1. STFnTable[s] = Idle
    BY <1>1 DEF STFnTable
  <2> QED BY <1>1, <2>1, SMAssumption DEF Idle
<1>2. CASE s = "Fault"
  <2>1. STFnTable[s] = Fault
    BY <1>2 DEF STFnTable
  <2> QED BY <1>2, <2>1, SMAssumption DEF Idle, Fault
<1>3. CASE s = "Warmup"
  <2>1. STFnTable[s] = Warmup
    BY <1>3 DEF STFnTable
  <2> QED BY <1>3, <2>1, SMAssumption DEF Warmup
<1>4. CASE s = "CoolDownHot"
  <2>1. STFnTable[s] = CoolDownHot
    BY <1>4 DEF STFnTable
  <2> QED BY <1>4, <2>1, SMAssumption DEF CoolDownHot
<1>5. CASE s = "CoolDownCold"
  <2>1. STFnTable[s] = CoolDownCold
    BY <1>5 DEF STFnTable
  <2> QED BY <1>5, <2>1, SMAssumption DEF CoolDownCold
<1>6. CASE s = "MaintainWarm"
  <2>1. STFnTable[s] = MaintainWarm
    BY <1>6 DEF STFnTable
  <2> QED BY <1>6, <2>1, SMAssumption DEF MaintainWarm
<1>7. CASE s = "MaintainCold"
  <2>1. STFnTable[s] = MaintainCold
    BY <1>7 DEF STFnTable
  <2> QED BY <1>7, <2>1, SMAssumption DEF MaintainCold
<1> QED BY <1>1, <1>2, <1>3, <1>4, <1>5, <1>6, <1>7 DEF FSMStates

(* The limits of every state are valid ones, so SetOutputLimits takes them. *)
LEMMA LowestBounds ==
  ASSUME NEW s
  PROVE  Lowest(s) \in Int /\ Lowest(s) <= 0 /\ Lowest(s) < HeatMax
BY SMAssumption DEF Lowest

(* An entry guard leaves a controller as its state needs it, whatever the  *)
(* controller was before.                                                  *)
LEMMA EntryGuard ==
  ASSUME NEW s \in FSMStates, NEW p \in Contract, NEW auto \in BOOLEAN,
         p.output = NaN => NaN \in Uninit
  PROVE  Controls(Entered(p, auto, STFnTable[s], TRUE), s, auto)
<1> DEFINE q == SetMode(p, auto)
           r == SetOutputLimits(q, Lowest(s), HeatMax)
<1>1. q \in Contract /\ q.inAuto = auto /\ q.output = p.output
  BY SetModeFields
<1>2. Lowest(s) \in Int /\ HeatMax \in Int /\ Lowest(s) < HeatMax
  BY LowestBounds, SMAssumption
<1>3. /\ r \in Contract /\ r.inAuto = q.inAuto
      /\ r.outMin = Lowest(s) /\ r.outMax = HeatMax
      /\ r.output = NaN <=> q.output = NaN
      /\ q.inAuto /\ q.output # NaN => r.output \in Lowest(s) .. HeatMax
  <2> HIDE DEF q
  <2> QED BY <1>1, <1>2, SetOutputLimitsFields
<1>4. Entered(p, auto, STFnTable[s], TRUE) = r
  BY StateFunctions DEF Entered
<1> HIDE DEF q, r
<1> QED BY <1>1, <1>3, <1>4 DEF Controls, Limited

(* A computation keeps a controller as its state needs it. *)
LEMMA ComputeControls ==
  ASSUME NEW s, NEW p, NEW auto, Controls(p, s, auto), NEW q \in Computes(p)
  PROVE  Controls(q, s, auto)
<1>1. p \in Contract
  BY DEF Controls
<1>2. /\ q \in Contract /\ q.inAuto = p.inAuto
      /\ q.outMin = p.outMin /\ q.outMax = p.outMax
      /\ q.output = NaN <=> p.output = NaN
      /\ q.output = p.output \/ q.output \in p.outMin .. p.outMax
  BY <1>1, ComputesFields
<1> QED BY <1>2 DEF Controls, Limited
-----------------------------------------------------------------------------
(* What a step that leaves the machine's memory alone need not look at.    *)
LEMMA MemoryKept ==
  ASSUME IInv, UNCHANGED memory
  PROVE  (StatesAgree /\ JunkFromStart /\ ControllerMatchesState /\ OutputsFit)'
BY DEF IInv, memory, machine, outputs, StatesAgree, JunkFromStart,
       ControllerMatchesState, OutputsFit, Limited

(* The constructed machine satisfies the parts about its memory: two       *)
(* manual controllers with limits 0..75, everything off.                   *)
LEMMA ConstructedFits ==
  ASSUME NEW g \in Uninit, NEW h \in Uninit, NEW abs, NEW rate,
         abs = NewPID(HeatMax, g), rate = NewPID(HeatMax, h)
  PROVE  /\ abs \in Contract /\ rate \in Contract
         /\ \A p \in {abs, rate} :
              /\ ~p.inAuto /\ p.outMin = 0 /\ p.outMax = HeatMax
              /\ p.output = NaN => NaN \in Uninit
<1>1. g \in Number /\ h \in Number /\ HeatMax \in Int
  BY SMAssumption
<1> QED BY <1>1, NewPIDFields

LEMMA InitIInv == Init => IInv
<1> SUFFICES ASSUME Init PROVE IInv
  OBVIOUS
<1>1. PICK g \in Uninit, h \in Uninit :
        AbsPID = NewPID(HeatMax, g) /\ RatePID = NewPID(HeatMax, h)
  BY DEF Init
<1>2. /\ AbsPID \in Contract /\ RatePID \in Contract
      /\ \A p \in {AbsPID, RatePID} :
           /\ ~p.inAuto /\ p.outMin = 0 /\ p.outMax = HeatMax
           /\ p.output = NaN => NaN \in Uninit
  BY <1>1, ConstructedFits
<1>3. row \in [HeaterPW : Number, CCPower : Int,
               CCPowerState : BOOLEAN, SRSPowerState : BOOLEAN]
  BY SMAssumption DEF Init, Number
<1>4. TypeOK
  <2>1. pkt \in Packet
    BY DEF Init, NoPacket, Packet
  <2>2. CurrentFSMState \in FSMStates /\ ShouldBeFSMState \in FSMStates
    BY DEF Init, FSMStates
  <2>3. /\ CCoolerPower \in BOOLEAN /\ ComputedSRSPowerState \in BOOLEAN
        /\ overCC \in BOOLEAN /\ overLSH \in BOOLEAN
    BY DEF Init
  <2>4. /\ ThisRunHeaterPower \in Number /\ ThisRunCCPower \in Nat
        /\ RSetpoint \in {-1, 0, 1}
    BY DEF Init, Number
  <2>5. pc = "down"
    BY DEF Init
  <2> QED BY <1>2, <1>3, <2>1, <2>2, <2>3, <2>4, <2>5 DEF TypeOK
<1>5. StatesAgree /\ JunkFromStart /\ PacketFresh /\ RowTracks
  BY <1>2 DEF Init, StatesAgree, JunkFromStart, PacketFresh, RowTracks
<1>6. ControllerMatchesState
  BY <1>2 DEF Init, ControllerMatchesState, Cold, Cooling, Ramping, Holding
<1>7. OutputsFit
  BY SMAssumption DEF Init, OutputsFit, Limited
<1> QED BY <1>4, <1>5, <1>6, <1>7 DEF IInv

LEMMA StartIInv == IInv /\ Start => IInv'
<1> SUFFICES ASSUME IInv, Start PROVE IInv'
  OBVIOUS
<1>1. PICK g \in Uninit, h \in Uninit :
        AbsPID' = NewPID(HeatMax, g) /\ RatePID' = NewPID(HeatMax, h)
  BY DEF Start
<1>2. /\ AbsPID' \in Contract /\ RatePID' \in Contract
      /\ \A p \in {AbsPID', RatePID'} :
           /\ ~p.inAuto /\ p.outMin = 0 /\ p.outMax = HeatMax
           /\ p.output = NaN => NaN \in Uninit
  BY <1>1, ConstructedFits
<1>3. TypeOK'
  <2>1. CurrentFSMState' \in FSMStates /\ ShouldBeFSMState' \in FSMStates
    BY DEF Start, FSMStates
  <2>2. /\ CCoolerPower' \in BOOLEAN /\ ComputedSRSPowerState' \in BOOLEAN
        /\ overCC' \in BOOLEAN /\ overLSH' \in BOOLEAN
    BY DEF Start
  <2>3. /\ ThisRunHeaterPower' \in Number /\ ThisRunCCPower' \in Nat
        /\ RSetpoint' \in {-1, 0, 1}
    BY DEF Start, Number
  <2>4. pc' = "control" /\ UNCHANGED <<row, pkt>>
    BY DEF Start
  <2> QED BY <1>2, <2>1, <2>2, <2>3, <2>4 DEF IInv, TypeOK
<1>4. (StatesAgree /\ JunkFromStart /\ PacketFresh /\ RowTracks)'
  BY <1>2 DEF Start, StatesAgree, JunkFromStart, PacketFresh, RowTracks
<1>5. ControllerMatchesState'
  BY <1>2 DEF Start, ControllerMatchesState, Cold, Cooling, Ramping, Holding
<1>6. OutputsFit'
  BY SMAssumption DEF Start, OutputsFit, Limited
<1> QED BY <1>3, <1>4, <1>5, <1>6 DEF IInv

LEMMA CrashIInv == IInv /\ Crash => IInv'
<1> SUFFICES ASSUME IInv, Crash PROVE IInv'
  OBVIOUS
<1>1. UNCHANGED memory
  BY DEF Crash
<1>2. TypeOK'
  BY DEF IInv, Crash, TypeOK, NoPacket, Packet, memory, machine, outputs
<1>3. (PacketFresh /\ RowTracks)'
  BY DEF Crash, PacketFresh, RowTracks
<1> QED BY <1>1, <1>2, <1>3, MemoryKept DEF IInv

LEMMA SelectControlIInv == IInv /\ SelectControl => IInv'
<1> SUFFICES ASSUME IInv, SelectControl PROVE IInv'
  OBVIOUS
<1>1. UNCHANGED memory
  BY DEF SelectControl
<1>2. PICK t \in SetTemps :
        pkt' = [pkt EXCEPT !.TTemp = t,
                           !.CCPowerStateLast = row.CCPowerState,
                           !.SRSPowerState = row.SRSPowerState]
  BY DEF SelectControl
<1>3. t \in Int
  BY SMAssumption
<1>4. TypeOK'
  BY <1>2, <1>3 DEF IInv, SelectControl, TypeOK, Packet, memory, machine, outputs
<1>5. (PacketFresh /\ RowTracks)'
  BY <1>2 DEF IInv, TypeOK, Packet, SelectControl, PacketFresh, RowTracks
<1> QED BY <1>1, <1>4, <1>5, MemoryKept DEF IInv

LEMMA SelectCCIInv == IInv /\ SelectCC => IInv'
<1> SUFFICES ASSUME IInv, SelectCC PROVE IInv'
  OBVIOUS
<1>1. UNCHANGED memory
  BY DEF SelectCC
<1>2. PICK t \in Temps, m \in PMins, a \in Ages :
        pkt' = [pkt EXCEPT !.curTemp = t, !.PMin = m, !.ageCC = a]
  BY DEF SelectCC
<1>3. t \in Int /\ m \in Int /\ a \in Int
  BY SMAssumption
<1>4. TypeOK'
  BY <1>2, <1>3 DEF IInv, SelectCC, TypeOK, Packet, memory, machine, outputs
<1>5. (PacketFresh /\ RowTracks)'
  BY <1>2 DEF IInv, TypeOK, Packet, SelectCC, PacketFresh, RowTracks
<1> QED BY <1>1, <1>4, <1>5, MemoryKept DEF IInv

LEMMA SelectLSHIInv == IInv /\ SelectLSH => IInv'
<1> SUFFICES ASSUME IInv, SelectLSH PROVE IInv'
  OBVIOUS
<1>1. UNCHANGED memory
  BY DEF SelectLSH
<1>2. PICK t \in LSHTemps, a \in Ages :
        pkt' = [pkt EXCEPT !.curTempLSH = t, !.ageLSH = a]
  BY DEF SelectLSH
<1>3. t \in Int /\ a \in Int
  BY SMAssumption
<1>4. TypeOK'
  BY <1>2, <1>3 DEF IInv, SelectLSH, TypeOK, Packet, memory, machine, outputs
<1>5. (PacketFresh /\ RowTracks)'
  BY <1>2 DEF IInv, TypeOK, Packet, SelectLSH, PacketFresh, RowTracks
<1> QED BY <1>1, <1>4, <1>5, MemoryKept DEF IInv
-----------------------------------------------------------------------------
(* The four UPDATEs: each makes one more column hold what was decided.  The *)
(* two that may be skipped are skipped only when the column holds it.       *)
LEMMA UpdateHeaterPWIInv == IInv /\ UpdateHeaterPW => IInv'
<1> SUFFICES ASSUME IInv, UpdateHeaterPW PROVE IInv'
  OBVIOUS
<1>1. UNCHANGED memory
  BY DEF UpdateHeaterPW
<1>2. /\ row' \in [HeaterPW : Number, CCPower : Int,
                  CCPowerState : BOOLEAN, SRSPowerState : BOOLEAN]
      /\ pc' \in {"ccpower", "ccstate", "srsstate", "compute"}
  BY DEF IInv, TypeOK, Packet, UpdateHeaterPW
<1>3. TypeOK'
  BY <1>1, <1>2 DEF IInv, TypeOK, UpdateHeaterPW, memory, machine, outputs
<1>4. PacketFresh'
  BY DEF IInv, TypeOK, UpdateHeaterPW, PacketFresh
<1>5. RowTracks'
  BY <1>1 DEF IInv, TypeOK, UpdateHeaterPW, PacketFresh, RowTracks, memory, outputs
<1> QED BY <1>1, <1>3, <1>4, <1>5, MemoryKept DEF IInv

LEMMA UpdateCCPowerIInv == IInv /\ UpdateCCPower => IInv'
<1> SUFFICES ASSUME IInv, UpdateCCPower PROVE IInv'
  OBVIOUS
<1>1. UNCHANGED memory
  BY DEF UpdateCCPower
<1>2. /\ row' \in [HeaterPW : Number, CCPower : Int,
                  CCPowerState : BOOLEAN, SRSPowerState : BOOLEAN]
      /\ pc' \in {"ccpower", "ccstate", "srsstate", "compute"}
  BY DEF IInv, TypeOK, Packet, UpdateCCPower
<1>3. TypeOK'
  BY <1>1, <1>2 DEF IInv, TypeOK, UpdateCCPower, memory, machine, outputs
<1>4. PacketFresh'
  BY DEF IInv, TypeOK, UpdateCCPower, PacketFresh
<1>5. RowTracks'
  BY <1>1 DEF IInv, TypeOK, UpdateCCPower, PacketFresh, RowTracks, memory, outputs
<1> QED BY <1>1, <1>3, <1>4, <1>5, MemoryKept DEF IInv

LEMMA UpdateCCPowerStateIInv == IInv /\ UpdateCCPowerState => IInv'
<1> SUFFICES ASSUME IInv, UpdateCCPowerState PROVE IInv'
  OBVIOUS
<1>1. UNCHANGED memory
  BY DEF UpdateCCPowerState
<1>2. /\ row' \in [HeaterPW : Number, CCPower : Int,
                  CCPowerState : BOOLEAN, SRSPowerState : BOOLEAN]
      /\ pc' \in {"ccpower", "ccstate", "srsstate", "compute"}
  BY DEF IInv, TypeOK, Packet, UpdateCCPowerState
<1>3. TypeOK'
  BY <1>1, <1>2 DEF IInv, TypeOK, UpdateCCPowerState, memory, machine, outputs
<1>4. PacketFresh'
  BY DEF IInv, TypeOK, UpdateCCPowerState, PacketFresh
<1>5. RowTracks'
  BY <1>1 DEF IInv, TypeOK, UpdateCCPowerState, PacketFresh, RowTracks, memory, outputs
<1> QED BY <1>1, <1>3, <1>4, <1>5, MemoryKept DEF IInv

LEMMA UpdateSRSPowerStateIInv == IInv /\ UpdateSRSPowerState => IInv'
<1> SUFFICES ASSUME IInv, UpdateSRSPowerState PROVE IInv'
  OBVIOUS
<1>1. UNCHANGED memory
  BY DEF UpdateSRSPowerState
<1>2. /\ row' \in [HeaterPW : Number, CCPower : Int,
                  CCPowerState : BOOLEAN, SRSPowerState : BOOLEAN]
      /\ pc' \in {"ccpower", "ccstate", "srsstate", "compute"}
  BY DEF IInv, TypeOK, Packet, UpdateSRSPowerState
<1>3. TypeOK'
  BY <1>1, <1>2 DEF IInv, TypeOK, UpdateSRSPowerState, memory, machine, outputs
<1>4. PacketFresh'
  BY DEF IInv, TypeOK, UpdateSRSPowerState, PacketFresh
<1>5. RowTracks'
  BY <1>1 DEF IInv, TypeOK, UpdateSRSPowerState, PacketFresh, RowTracks, memory, outputs
<1> QED BY <1>1, <1>3, <1>4, <1>5, MemoryKept DEF IInv

-----------------------------------------------------------------------------
(* StateDecision answers one of the seven states. *)
LEMMA DecisionType ==
  ASSUME IInv, NEW set, NEW cur, NEW a, NEW b
  PROVE  StateDecision(set, cur, a, b) \in FSMStates
BY DEF StateDecision, FSMStates, IInv, TypeOK

(* IInv in terms of Controls. *)
LEMMA ControllersBefore ==
  ASSUME IInv
  PROVE  /\ Controls(AbsPID, CurrentFSMState, CurrentFSMState \in Holding)
         /\ Controls(RatePID, CurrentFSMState, CurrentFSMState \in Ramping)
BY DEF IInv, TypeOK, JunkFromStart, ControllerMatchesState, Controls, Lowest,
       Contract

(* Entered or not, the controllers fit the state whose function runs.      *)
LEMMA ControllersEntered ==
  ASSUME IInv, NEW s \in FSMStates, NEW entering \in BOOLEAN,
         ~entering => s = CurrentFSMState
  PROVE  /\ Controls(Entered(AbsPID, STFnTable[s].abs, STFnTable[s], entering),
                     s, s \in Holding)
         /\ Controls(Entered(RatePID, STFnTable[s].rate, STFnTable[s], entering),
                     s, s \in Ramping)
<1>1. CASE entering
  <2>1. /\ AbsPID \in Contract /\ RatePID \in Contract
        /\ AbsPID.output = NaN => NaN \in Uninit
        /\ RatePID.output = NaN => NaN \in Uninit
    BY DEF IInv, TypeOK, JunkFromStart
  <2> DEFINE a == STFnTable[s].abs
             r == STFnTable[s].rate
             abs  == Entered(AbsPID, a, STFnTable[s], TRUE)
             rate == Entered(RatePID, r, STFnTable[s], TRUE)
  <2>2. /\ a \in BOOLEAN
        /\ a <=> s \in Holding
        /\ r \in BOOLEAN
        /\ r <=> s \in Ramping
    BY StateFunctions
  <2> HIDE DEF a, r
  <2>3. Controls(abs, s, a)
    BY <2>1, <2>2, EntryGuard
  <2>4. Controls(rate, s, r)
    BY <2>1, <2>2, EntryGuard
  <2>5. Controls(abs, s, s \in Holding) /\ Controls(rate, s, s \in Ramping)
    <3> HIDE DEF abs, rate
    <3> QED BY <2>2, <2>3, <2>4 DEF Controls
  <2>6. entering = TRUE
    BY <1>1
  <2> QED BY <2>5, <2>6 DEF a, r
<1>2. CASE ~entering
  BY <1>2, ControllersBefore DEF Entered
<1> QED BY <1>1, <1>2

(* The controllers, switches and outputs that Compute leaves.              *)
LEMMA ComputeEffect ==
  ASSUME IInv, Compute
  PROVE  LET s  == CurrentFSMState'
             v  == PIDValue(STFnTable[s], AbsPID', RatePID')
             hot == overCC' \/ overLSH'
         IN  /\ s \in FSMStates /\ ShouldBeFSMState' = s
             /\ Controls(AbsPID', s, s \in Holding)
             /\ Controls(RatePID', s, s \in Ramping)
             /\ RSetpoint' \in {-1, 0, 1}
             /\ s \in Ramping => RSetpoint' = IF s = "Warmup" THEN 1 ELSE -1
             /\ CCoolerPower' \in BOOLEAN
             /\ CCoolerPower' <=> s \in Cooling
             /\ ComputedSRSPowerState' \in BOOLEAN
             /\ ComputedSRSPowerState' <=> s \in Cold
             /\ overCC' \in BOOLEAN /\ overLSH' \in BOOLEAN
             /\ PostRunSanityCheck(v, hot)
<1> DEFINE s == CurrentFSMState'
           fn == STFnTable[s]
           entering == s # CurrentFSMState
           abs  == Entered(AbsPID, fn.abs, fn, entering)
           rate == Entered(RatePID, fn.rate, fn, entering)
<1>1. s \in FSMStates /\ ShouldBeFSMState' = s
  BY DecisionType DEF Compute
<1>2. RunState(fn, entering)
  BY DEF Compute
<1>3. Controls(abs, s, s \in Holding) /\ Controls(rate, s, s \in Ramping)
  BY <1>1, ControllersEntered
<1>4. Controls(AbsPID', s, s \in Holding) /\ Controls(RatePID', s, s \in Ramping)
  <2>1. /\ AbsPID' = abs \/ AbsPID' \in Computes(abs)
        /\ RatePID' = rate \/ RatePID' \in Computes(rate)
    BY <1>2 DEF RunState
  <2> HIDE DEF s, abs, rate
  <2> QED BY <1>3, <2>1, ComputeControls
<1>5. /\ fn.cooler \in BOOLEAN
      /\ fn.cooler <=> s \in Cooling
      /\ fn.srs \in BOOLEAN
      /\ fn.srs <=> s \in Cold
      /\ fn.RSetpoint \in {-1, 0, 1}
      /\ s \in Ramping => fn.RSetpoint = IF s = "Warmup" THEN 1 ELSE -1
  BY <1>1, StateFunctions
<1>6. /\ CCoolerPower' = IF entering THEN fn.cooler ELSE CCoolerPower
      /\ ComputedSRSPowerState' = IF entering THEN fn.srs ELSE ComputedSRSPowerState
      /\ RSetpoint' = IF entering /\ fn.RSetpoint # 0 THEN fn.RSetpoint
                                                      ELSE RSetpoint
  BY <1>2 DEF RunState
<1>7. /\ CCoolerPower \in BOOLEAN
      /\ CCoolerPower <=> CurrentFSMState \in Cooling
      /\ ComputedSRSPowerState \in BOOLEAN
      /\ ComputedSRSPowerState <=> CurrentFSMState \in Cold
      /\ RSetpoint \in {-1, 0, 1}
      /\ CurrentFSMState \in Ramping =>
           RSetpoint = IF CurrentFSMState = "Warmup" THEN 1 ELSE -1
  BY DEF IInv, TypeOK, ControllerMatchesState
<1>8. /\ RSetpoint' \in {-1, 0, 1}
      /\ s \in Ramping => RSetpoint' = IF s = "Warmup" THEN 1 ELSE -1
  <2> HIDE DEF fn
  <2> QED BY <1>5, <1>6, <1>7
<1>9. /\ CCoolerPower' \in BOOLEAN
      /\ CCoolerPower' <=> s \in Cooling
      /\ ComputedSRSPowerState' \in BOOLEAN
      /\ ComputedSRSPowerState' <=> s \in Cold
  <2> HIDE DEF fn
  <2> QED BY <1>5, <1>6, <1>7
<1>10. overCC' \in BOOLEAN /\ overLSH' \in BOOLEAN
  <2>1. /\ overCC' \in MovingAvg(overCC, pkt.curTemp)
        /\ overLSH' \in MovingAvg(overLSH, pkt.curTempLSH)
    BY DEF Compute
  <2>2. overCC \in BOOLEAN /\ overLSH \in BOOLEAN
    BY DEF IInv, TypeOK
  <2> QED BY <2>1, <2>2 DEF MovingAvg
<1>11. PostRunSanityCheck(PIDValue(fn, AbsPID', RatePID'), overCC' \/ overLSH')
  BY DEF Compute
<1> QED BY <1>1, <1>4, <1>8, <1>9, <1>10, <1>11

(* The value a state function leaves is within the limits of its state,    *)
(* and zero where no controller runs.                                      *)
LEMMA ValueLimited ==
  ASSUME NEW s \in FSMStates, NEW a, NEW r,
         Controls(a, s, s \in Holding), Controls(r, s, s \in Ramping)
  PROVE  LET v == PIDValue(STFnTable[s], a, r)
         IN  Limited(v, Lowest(s)) /\ (s \in {"Idle", "Fault"} => v = 0)
<1>1. STFnTable[s].runs = IF s \in Holding THEN "AbsPID"
                          ELSE IF s \in Ramping THEN "RatePID" ELSE "none"
  BY StateFunctions
<1>2. CASE s \in Holding
  BY <1>1, <1>2 DEF PIDValue, Controls, Holding
<1>3. CASE s \in Ramping
  BY <1>1, <1>3 DEF PIDValue, Controls, Holding, Ramping
<1>4. CASE s \notin Holding /\ s \notin Ramping
  <2>1. PIDValue(STFnTable[s], a, r) = 0
    BY <1>1, <1>4 DEF PIDValue
  <2> QED BY <2>1, LowestBounds, SMAssumption DEF Limited
<1> QED BY <1>2, <1>3, <1>4

(* The outputs derived from a value within limits fit the state.           *)
LEMMA SanityCheckFits ==
  ASSUME NEW s \in FSMStates, NEW v, NEW hot \in BOOLEAN,
         Limited(v, Lowest(s)), s \in {"Idle", "Fault"} => v = 0,
         PostRunSanityCheck(v, hot)
  PROVE  /\ Limited(ThisRunHeaterPower', 0)
         /\ ThisRunCCPower' \in 0 .. BoostMax
         /\ ThisRunCCPower' > 0 => ThisRunHeaterPower' = 0 /\ s \in Cold
         /\ s \in {"Idle", "Fault"} => ThisRunHeaterPower' = 0
         /\ hot => ThisRunHeaterPower' = 0 /\ ThisRunCCPower' = 0
<1>1. CASE hot \/ v = NaN
  BY <1>1, SMAssumption, NaNAssumption DEF PostRunSanityCheck, Limited
<1>2. CASE ~hot /\ v # NaN
  <2>1. v \in Lowest(s) .. HeatMax
    BY <1>2 DEF Limited
  <2>2. CASE s \in Cold
    BY <1>2, <2>1, <2>2, SMAssumption DEF PostRunSanityCheck, Limited, Lowest
  <2>3. CASE s \notin Cold
    BY <1>2, <2>1, <2>3, SMAssumption DEF PostRunSanityCheck, Limited, Lowest
  <2> QED BY <2>2, <2>3
<1> QED BY <1>1, <1>2

LEMMA ComputeIInv == IInv /\ Compute => IInv'
<1> SUFFICES ASSUME IInv, Compute PROVE IInv'
  OBVIOUS
<1> DEFINE s == CurrentFSMState'
           v == PIDValue(STFnTable[s], AbsPID', RatePID')
           hot == overCC' \/ overLSH'
<1>1. /\ s \in FSMStates /\ ShouldBeFSMState' = s
      /\ Controls(AbsPID', s, s \in Holding)
      /\ Controls(RatePID', s, s \in Ramping)
      /\ RSetpoint' \in {-1, 0, 1}
      /\ s \in Ramping => RSetpoint' = IF s = "Warmup" THEN 1 ELSE -1
      /\ CCoolerPower' \in BOOLEAN
      /\ CCoolerPower' <=> s \in Cooling
      /\ ComputedSRSPowerState' \in BOOLEAN
      /\ ComputedSRSPowerState' <=> s \in Cold
      /\ overCC' \in BOOLEAN /\ overLSH' \in BOOLEAN
      /\ PostRunSanityCheck(v, hot)
  BY ComputeEffect
<1>2. Limited(v, Lowest(s)) /\ (s \in {"Idle", "Fault"} => v = 0)
  <2> HIDE DEF s
  <2> QED BY <1>1, ValueLimited
<1>3. OutputsFit'
  <2> HIDE DEF v
  <2>1. hot \in BOOLEAN
    BY <1>1
  <2>2. /\ Limited(ThisRunHeaterPower', 0)
        /\ ThisRunCCPower' \in 0 .. BoostMax
        /\ ThisRunCCPower' > 0 => ThisRunHeaterPower' = 0 /\ s \in Cold
        /\ s \in {"Idle", "Fault"} => ThisRunHeaterPower' = 0
        /\ hot => ThisRunHeaterPower' = 0 /\ ThisRunCCPower' = 0
    BY <1>1, <1>2, <2>1, SanityCheckFits
  <2> QED BY <2>2 DEF OutputsFit, Limited
<1>4. (StatesAgree /\ JunkFromStart)'
  BY <1>1 DEF StatesAgree, JunkFromStart, Controls
<1>5. ControllerMatchesState'
  BY <1>1 DEF ControllerMatchesState, Controls, Lowest, Limited
<1>6. pc' = "control" /\ pkt' = NoPacket /\ row' = row
  BY DEF Compute
<1>7. TypeOK'
  <2>1. ThisRunHeaterPower' \in Number /\ ThisRunCCPower' \in Nat
    BY <1>3, SMAssumption DEF OutputsFit, Limited, Number
  <2>2. pkt' \in Packet
    BY <1>6 DEF NoPacket, Packet
  <2>3. AbsPID' \in Contract /\ RatePID' \in Contract
    BY <1>1 DEF Controls
  <2> QED BY <1>1, <1>6, <2>1, <2>2, <2>3 DEF IInv, TypeOK
<1>8. (PacketFresh /\ RowTracks)'
  BY <1>6 DEF PacketFresh, RowTracks
<1> QED BY <1>3, <1>4, <1>5, <1>7, <1>8 DEF IInv
-----------------------------------------------------------------------------
LEMMA StepIInv == IInv /\ [Next]_vars => IInv'
<1> SUFFICES ASSUME IInv, [Next]_vars PROVE IInv'
  OBVIOUS
<1>1. CASE UNCHANGED vars
  <2>1. UNCHANGED <<pc, row, pkt>> /\ UNCHANGED memory
    BY <1>1 DEF vars
  <2>2. (PacketFresh /\ RowTracks)'
    BY <2>1 DEF IInv, PacketFresh, RowTracks, memory, outputs
  <2>3. TypeOK'
    BY <2>1 DEF IInv, TypeOK, memory, machine, outputs
  <2> QED BY <2>1, <2>2, <2>3, MemoryKept DEF IInv
<1>2. CASE Start
  BY <1>2, StartIInv
<1>3. CASE Crash
  BY <1>3, CrashIInv
<1>4. CASE Sweep
  BY <1>4, SelectControlIInv, SelectCCIInv, SelectLSHIInv, UpdateHeaterPWIInv,
     UpdateCCPowerIInv, UpdateCCPowerStateIInv, UpdateSRSPowerStateIInv,
     ComputeIInv DEF Sweep
<1> QED BY <1>1, <1>2, <1>3, <1>4 DEF Next

(* The inductive invariant holds in every reachable state.                 *)
THEOREM Invariance == Spec => []IInv
<1>1. Init => IInv
  BY InitIInv
<1>2. IInv /\ [Next]_vars => IInv'
  BY StepIInv
<1> QED BY <1>1, <1>2, PTL DEF Spec

(* Types: the process's memory, the packet and the row it writes.          *)
THEOREM TypeCorrect == Spec => []TypeOK
<1>1. IInv => TypeOK
  BY DEF IInv
<1> QED BY <1>1, Invariance, PTL

(* The entry guards of CryoControlSM.cpp:231-472 leave the controllers,    *)
(* the cooler and the power supply as the state needs them, along every    *)
(* path through the states.                                                *)
THEOREM ControllersCorrect == Spec => []ControllerMatchesState
<1>1. IInv => ControllerMatchesState
  BY DEF IInv
<1> QED BY <1>1, Invariance, PTL

(* UpdateVars (CCMySQLInteraction.cpp:84-113) leaves a row that heats      *)
(* within limits, drives the cooler only with the heater off, and is off   *)
(* in Idle and Fault, whatever an earlier, interrupted sweep left there.   *)
THEOREM RowSafe == Spec => []PublishedRowIsSafe
<1>1. IInv => PublishedRowIsSafe
  <2> SUFFICES ASSUME IInv, pc = "compute" PROVE PublishedRowIsSafe
    BY DEF PublishedRowIsSafe
  <2>1. /\ row.HeaterPW = ThisRunHeaterPower
        /\ row.CCPower = ThisRunCCPower + pkt.PMin
        /\ row.CCPowerState = CCoolerPower
        /\ row.SRSPowerState = ComputedSRSPowerState
    BY DEF IInv, RowTracks
  <2>2. pkt.PMin \in Int /\ ThisRunCCPower \in Int
    BY DEF IInv, TypeOK, Packet
  <2>3. row.CCPower - pkt.PMin = ThisRunCCPower
    BY <2>1, <2>2
  <2>4. /\ CCoolerPower <=> CurrentFSMState \in Cooling
        /\ ComputedSRSPowerState <=> CurrentFSMState \in Cold
    BY DEF IInv, ControllerMatchesState
  <2> QED BY <2>1, <2>3, <2>4
          DEF PublishedRowIsSafe, IInv, OutputsFit, Cold, Cooling
<1> QED BY <1>1, Invariance, PTL

(* The cut-off of PostRunSanityCheck (CryoControlSM.cpp:142-145) is in the *)
(* row once the next sweep has written it.                                 *)
THEOREM CutOffCorrect == Spec => []CutOffReachesRow
<1>1. IInv => CutOffReachesRow
  <2> SUFFICES ASSUME IInv, pc = "compute", overCC \/ overLSH
               PROVE  row.HeaterPW = 0 /\ row.CCPower = pkt.PMin
    BY DEF CutOffReachesRow
  <2>1. ThisRunHeaterPower = 0 /\ ThisRunCCPower = 0
    BY DEF IInv, OutputsFit
  <2>2. pkt.PMin \in Int
    BY DEF IInv, TypeOK, Packet
  <2> QED BY <2>1, <2>2 DEF IInv, RowTracks
<1> QED BY <1>1, Invariance, PTL
-----------------------------------------------------------------------------
(* The one bit the model keeps of a moving average goes wherever the       *)
(* average itself goes, whatever it is and whatever the sample             *)
(* (CryoControlSM.cpp:104-105).                                            *)
THEOREM AverageCovered ==
  ASSUME NEW n \in Int, NEW d \in Nat \ {0}, NEW sample \in Int
  PROVE  LET avg == [n |-> n, d |-> d]
         IN  Above(Average(avg, sample)) \in MovingAvg(Above(avg), sample)
<1> DEFINE avg == [n |-> n, d |-> d]
           over == Above(avg)
           after == Above(Average(avg, sample))
<1>1. over \in BOOLEAN /\ after \in BOOLEAN
  BY DEF Above
<1>2. over <=> n > 320 * d
  BY DEF Above
<1>3. CASE sample <= 10
  BY <1>3 DEF Average, MovingAvg
<1>4. CASE sample > 10
  <2>1. after <=> 19 * n + sample * d > 320 * (20 * d)
    BY <1>4 DEF Above, Average
  <2>2. sample * d \in Int
    OBVIOUS
  <2>3. ~(sample <= 10)
    BY <1>4
  <2> HIDE DEF over, after
  <2>4. CASE sample > 320
    <3>1. sample * d > 320 * d
      BY <2>4
    <3>2. over => after
      BY <1>2, <2>1, <2>2, <3>1
    <3>3. MovingAvg(over, sample) = {over, TRUE}
      BY <2>3, <2>4 DEF MovingAvg
    <3>4. after \in {over, TRUE}
      BY <1>1, <3>2, Zenon
    <3> QED BY <3>3, <3>4 DEF over, after
  <2>5. CASE ~(sample > 320)
    <3>1. sample * d <= 320 * d
      BY <2>5
    <3>2. after => over
      BY <1>2, <2>1, <2>2, <3>1
    <3>3. MovingAvg(over, sample) = {over, FALSE}
      BY <2>3, <2>5 DEF MovingAvg
    <3>4. after \in {over, FALSE}
      BY <1>1, <3>2, Zenon
    <3> QED BY <3>3, <3>4 DEF over, after
  <2> QED BY <2>4, <2>5
<1> QED BY <1>3, <1>4
-----------------------------------------------------------------------------
(* The state StateDecision picks, for the readings the property speaks of. *)
LEMMA Decisions ==
  ASSUME NEW set \in Int, NEW cur \in Int, NEW a \in Int, NEW b \in Int
  PROVE  LET s == StateDecision(set, cur, a, b)
             gap == cur - set
             fail == b > 60 \/ a > 60
         IN  /\ fail => s = "Fault"
             /\ ~fail /\ set < 220 /\ gap > 10 =>
                  s \in {"CoolDownHot", "CoolDownCold"}
             /\ ~fail /\ set < 210 /\ gap \in -10 .. 10 => s = "MaintainCold"
             /\ ~fail /\ set > 222 /\ gap \in -2 .. 2 => s = "MaintainWarm"
             /\ ~fail /\ gap < -10 /\ cur < 290 => s = "Warmup"
             /\ ~fail /\ set < 300 /\ cur > 300 => s # "Warmup"
BY DEF StateDecision, Silent, WarmReached, ColdReached, MustCoolCold,
       MustCoolHot, MustWarm, TooHot, Within

(* The direction of the drive follows set point and temperature at every   *)
(* decision, from every earlier state (StateDecision with the entry        *)
(* guards, CryoControlSM.cpp:152-472).                                     *)
THEOREM DirectionCorrect == Spec => DirectionFollowsDemand
<1> DEFINE gap == pkt.curTemp - pkt.TTemp
           fail == pkt.ageCC > 60 \/ pkt.ageLSH > 60
           off == ~CCoolerPower' /\ ThisRunCCPower' = 0
           Direction ==
             pc = "compute" /\ pc' = "control" =>
               /\ fail => off /\ ThisRunHeaterPower' = 0
               /\ ~fail /\ pkt.TTemp < 220 /\ gap > 10 =>
                    CCoolerPower' /\ RatePID'.inAuto /\ RSetpoint' = -1
               /\ ~fail /\ pkt.TTemp < 210 /\ gap \in -10 .. 10 =>
                    CCoolerPower' /\ AbsPID'.inAuto
               /\ ~fail /\ pkt.TTemp > 222 /\ gap \in -2 .. 2 =>
                    off /\ AbsPID'.inAuto
               /\ ~fail /\ gap < -10 /\ pkt.curTemp < 290 =>
                    off /\ RatePID'.inAuto /\ RSetpoint' = 1
               /\ ~fail /\ pkt.TTemp < 300 /\ pkt.curTemp > 300 =>
                    ~(RatePID'.inAuto /\ RSetpoint' = 1)
<1>1. IInv /\ [Next]_vars => [Direction]_vars
  <2> SUFFICES ASSUME IInv, [Next]_vars, pc = "compute", pc' = "control"
               PROVE  Direction
    OBVIOUS
  <2>1. Compute
    BY DEF vars, Next, Start, Crash, Sweep, SelectControl, SelectCC, SelectLSH,
           UpdateHeaterPW, UpdateCCPower, UpdateCCPowerState, UpdateSRSPowerState
  <2> DEFINE s == CurrentFSMState'
  <2>2. s = StateDecision(pkt.TTemp, pkt.curTemp, pkt.ageLSH, pkt.ageCC)
    BY <2>1 DEF Compute
  <2>3. /\ pkt.TTemp \in Int /\ pkt.curTemp \in Int
        /\ pkt.ageCC \in Int /\ pkt.ageLSH \in Int
    BY DEF IInv, TypeOK, Packet
  <2>4. /\ fail => s = "Fault"
        /\ ~fail /\ pkt.TTemp < 220 /\ gap > 10 =>
             s \in {"CoolDownHot", "CoolDownCold"}
        /\ ~fail /\ pkt.TTemp < 210 /\ gap \in -10 .. 10 => s = "MaintainCold"
        /\ ~fail /\ pkt.TTemp > 222 /\ gap \in -2 .. 2 => s = "MaintainWarm"
        /\ ~fail /\ gap < -10 /\ pkt.curTemp < 290 => s = "Warmup"
        /\ ~fail /\ pkt.TTemp < 300 /\ pkt.curTemp > 300 => s # "Warmup"
    BY <2>2, <2>3, Decisions
  <2>5. IInv'
    BY StepIInv
  <2>6. /\ CCoolerPower' <=> s \in Cooling
        /\ RatePID'.inAuto <=> s \in Ramping
        /\ AbsPID'.inAuto <=> s \in Holding
        /\ s \in Ramping => RSetpoint' = IF s = "Warmup" THEN 1 ELSE -1
    BY <2>5 DEF IInv, ControllerMatchesState
  <2>7. /\ s \notin Cold => ThisRunCCPower' = 0
        /\ s = "Fault" => ThisRunHeaterPower' = 0
    BY <2>5, SMAssumption DEF IInv, OutputsFit
  <2> QED BY <2>4, <2>6, <2>7 DEF Cooling, Cold, Ramping, Holding
<1>2. Spec => [][Direction]_vars
  BY <1>1, Invariance, PTL DEF Spec
<1> QED BY <1>2 DEF DirectionFollowsDemand
-----------------------------------------------------------------------------
(* Every setting a sweep decides on is one ControlRow allows.              *)
LEMMA SettingAllowed == IInv /\ pc # "down" => Decided \in Row!Settings
<1> SUFFICES ASSUME IInv, pc # "down" PROVE Decided \in Row!Settings
  OBVIOUS
<1>1. /\ ThisRunHeaterPower \in Row!Heats
      /\ ThisRunCCPower \in 0 .. BoostMax
      /\ ThisRunCCPower > 0 => ThisRunHeaterPower = 0 /\ CurrentFSMState \in Cold
  BY DEF IInv, OutputsFit, Limited, Row!Heats
<1>2. /\ CCoolerPower \in BOOLEAN
      /\ ComputedSRSPowerState \in BOOLEAN
      /\ ComputedSRSPowerState <=> CurrentFSMState \in Cold
      /\ CurrentFSMState \in Cold => CCoolerPower
  BY DEF IInv, TypeOK, ControllerMatchesState, Cooling, Cold
<1> QED BY <1>1, <1>2 DEF Decided, Row!Settings

(* A drone whose last row is too old ends everything, from every state.    *)
LEMMA SilenceDecidesOff ==
  ASSUME IInv', Compute, Silent(pkt.ageLSH, pkt.ageCC)
  PROVE  Decided' = Row!Off
<1>1. pc' = "control" /\ CurrentFSMState' = "Fault"
  BY DEF Compute, StateDecision
<1>2. ~CCoolerPower' /\ ~ComputedSRSPowerState'
  BY <1>1 DEF IInv, ControllerMatchesState, Cooling, Cold
<1>3. CCoolerPower' = FALSE /\ ComputedSRSPowerState' = FALSE
  BY <1>2 DEF IInv, TypeOK
<1>4. ThisRunHeaterPower' = 0 /\ ThisRunCCPower' = 0
  BY <1>1, SMAssumption DEF IInv, OutputsFit, Cold
<1> QED BY <1>1, <1>3, <1>4 DEF Decided, Row!Off

(* A statement that changes neither the row nor the memory, and passes no  *)
(* column, is a stutter of ControlRow.                                     *)
LEMMA SelectStutters ==
  ASSUME SelectControl \/ SelectCC \/ SelectLSH
  PROVE  UNCHANGED <<row, Decided, Unwritten>>
<1>1. UNCHANGED row /\ UNCHANGED memory
  BY DEF SelectControl, SelectCC, SelectLSH
<1>2. UNCHANGED <<CCoolerPower, ComputedSRSPowerState,
                  ThisRunHeaterPower, ThisRunCCPower>>
  BY <1>1 DEF memory, outputs
<1>3. /\ pc \in {"control", "cc", "lsh"}
      /\ pc' \in {"cc", "lsh", "heater"}
  BY DEF SelectControl, SelectCC, SelectLSH
<1> QED BY <1>1, <1>2, <1>3 DEF Decided, Unwritten

(* The statements come in the order of the columns. *)
LEMMA InOrder ==
  LET First(c) == \A e \in Unwritten : Row!Rank[c] <= Row!Rank[e]
  IN  /\ pc = "heater" => First("HeaterPW")
      /\ pc = "ccpower" => First("CCPower")
      /\ pc = "ccstate" => First("CCPowerState")
      /\ pc = "srsstate" => First("SRSPowerState")
<1>1. /\ Row!Rank["HeaterPW"] = 1 /\ Row!Rank["CCPower"] = 2
      /\ Row!Rank["CCPowerState"] = 3 /\ Row!Rank["SRSPowerState"] = 4
  BY DEF Row!Rank
<1>2. /\ Unwritten \subseteq {"HeaterPW", "CCPower", "CCPowerState", "SRSPowerState"}
      /\ pc = "ccpower" => "HeaterPW" \notin Unwritten
      /\ pc = "ccstate" => "HeaterPW" \notin Unwritten /\ "CCPower" \notin Unwritten
      /\ pc = "srsstate" => Unwritten = {"SRSPowerState"}
  BY DEF Unwritten
<1> QED BY <1>1, <1>2

(* An UPDATE writes its column, or leaves alone a column that holds it.    *)
LEMMA UpdateWrites ==
  ASSUME IInv, UpdateHeaterPW \/ UpdateCCPower
               \/ UpdateCCPowerState \/ UpdateSRSPowerState
  PROVE  \E c \in Row!Columns : Row!Write(c)
<1> USE DEF Row!Columns, Row!Write
<1>1. UNCHANGED Decided
  <2>1. pc # "down" /\ pc' # "down" /\ UNCHANGED memory
    BY DEF UpdateHeaterPW, UpdateCCPower, UpdateCCPowerState, UpdateSRSPowerState
  <2> QED BY <2>1 DEF Decided, memory, outputs
<1>2. row \in [HeaterPW : Number, CCPower : Int,
               CCPowerState : BOOLEAN, SRSPowerState : BOOLEAN]
  BY DEF IInv, TypeOK
<1>3. CASE UpdateHeaterPW
  <2>1. Unwritten' = Unwritten \ {"HeaterPW"} /\ "HeaterPW" \in Unwritten
    BY <1>3 DEF UpdateHeaterPW, Unwritten
  <2>2. row' = [row EXCEPT !["HeaterPW"] = Decided["HeaterPW"]]
    BY <1>2, <1>3 DEF UpdateHeaterPW, Decided
  <2>4. \A e \in Unwritten : Row!Rank["HeaterPW"] <= Row!Rank[e]
    BY <1>3, InOrder DEF UpdateHeaterPW
  <2> QED BY <1>1, <2>1, <2>2, <2>4
<1>4. CASE UpdateCCPower
  <2>1. Unwritten' = Unwritten \ {"CCPower"} /\ "CCPower" \in Unwritten
    BY <1>4 DEF UpdateCCPower, Unwritten
  <2>2. row' = [row EXCEPT !.CCPower = Decided.CCPower + pkt.PMin]
    BY <1>4 DEF UpdateCCPower, Decided
  <2>3. pkt.PMin \in PMins
    BY <1>4 DEF IInv, PacketFresh, UpdateCCPower
  <2>4. \A e \in Unwritten : Row!Rank["CCPower"] <= Row!Rank[e]
    BY <1>4, InOrder DEF UpdateCCPower
  <2> QED BY <1>1, <2>1, <2>2, <2>3, <2>4
<1>5. CASE UpdateCCPowerState
  <2>1. Unwritten' = Unwritten \ {"CCPowerState"} /\ "CCPowerState" \in Unwritten
    BY <1>5 DEF UpdateCCPowerState, Unwritten
  <2>2. row' = [row EXCEPT !["CCPowerState"] = Decided["CCPowerState"]]
    BY <1>2, <1>5 DEF IInv, PacketFresh, UpdateCCPowerState, Decided
  <2>4. \A e \in Unwritten : Row!Rank["CCPowerState"] <= Row!Rank[e]
    BY <1>5, InOrder DEF UpdateCCPowerState
  <2> QED BY <1>1, <2>1, <2>2, <2>4
<1>6. CASE UpdateSRSPowerState
  <2>1. Unwritten' = Unwritten \ {"SRSPowerState"} /\ "SRSPowerState" \in Unwritten
    BY <1>6 DEF UpdateSRSPowerState, Unwritten
  <2>2. row' = [row EXCEPT !["SRSPowerState"] = Decided["SRSPowerState"]]
    BY <1>2, <1>6 DEF IInv, PacketFresh, UpdateSRSPowerState, Decided
  <2>4. \A e \in Unwritten : Row!Rank["SRSPowerState"] <= Row!Rank[e]
    BY <1>6, InOrder DEF UpdateSRSPowerState
  <2> QED BY <1>1, <2>1, <2>2, <2>4
<1> QED BY <1>3, <1>4, <1>5, <1>6

LEMMA InitRow == Init => Row!Init
BY DEF Init, Row!Init, Decided, Unwritten, Row!Off, Row!Columns

LEMMA StepRow ==
  IInv /\ IInv' /\ [Next]_vars => [Row!Next]_<<row, Decided, Unwritten>>
<1> SUFFICES ASSUME IInv, IInv', [Next]_vars
             PROVE  Row!Next \/ UNCHANGED <<row, Decided, Unwritten>>
  OBVIOUS
<1>1. CASE UNCHANGED vars
  BY <1>1 DEF vars, memory, outputs, Decided, Unwritten
<1>2. CASE Start
  BY <1>2 DEF Start, Decided, Unwritten
<1>3. CASE Crash
  BY <1>3 DEF Crash, Decided, Unwritten, Row!Next, Row!Restart, Row!Off,
              Row!Columns
<1>4. CASE SelectControl \/ SelectCC \/ SelectLSH
  BY <1>4, SelectStutters
<1>5. CASE \/ UpdateHeaterPW \/ UpdateCCPower
           \/ UpdateCCPowerState \/ UpdateSRSPowerState
  BY <1>5, UpdateWrites DEF Row!Next
<1>6. CASE Compute
  <2>1. pc = "compute" /\ pc' = "control" /\ UNCHANGED row
    BY <1>6 DEF Compute
  <2>2. (IInv /\ pc # "down" => Decided \in Row!Settings)'
    BY SettingAllowed, PTL
  <2>3. Unwritten = {} /\ Unwritten' = Row!Columns
    BY <2>1 DEF Unwritten, Row!Columns
  <2>4. ASSUME Silent(pkt.ageLSH, pkt.ageCC) PROVE Decided' = Row!Off
    BY <1>6, <2>4, SilenceDecidesOff
  <2> QED BY <2>1, <2>2, <2>3, <2>4 DEF Row!Next, Row!Decide
<1> QED BY <1>1, <1>2, <1>3, <1>4, <1>5, <1>6 DEF Next, Sweep

(* The process implements ControlRow: across crashes at any statement, the *)
(* row holds columns of two consecutive settings at most, each of them one *)
(* the drones may obey, and a fresh process writes "off" first             *)
(* (UpdateVars, CCMySQLInteraction.cpp:84-113, with SMEngine).             *)
THEOREM RowImplemented == Spec => RowFollowsDecisions
<1>1. Init => Row!Init
  BY InitRow
<1>2. IInv /\ IInv' /\ [Next]_vars => [Row!Next]_<<row, Decided, Unwritten>>
  BY StepRow
<1> QED BY <1>1, <1>2, Invariance, PTL DEF Spec, RowFollowsDecisions, Row!Spec
=============================================================================
