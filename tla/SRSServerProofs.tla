-------------------------- MODULE SRSServerProofs --------------------------
(***************************************************************************)
(* The safety of SRSServer for any number of threads: mutual exclusion of  *)
(* the exchanges, and what follows from it for the answers on the line     *)
(* and for the registers of the supply.                                    *)
(***************************************************************************)
EXTENDS SRSServer, TLAPS

Critical == {"askVOLT", "readVOLT", "askSOUT", "readSOUT", "askOVLD",
             "readOVLD", "sweepUnlock", "SCAB", "SCAE", "SCAT", "SOUT",
             "askOut", "readOut", "TRG", "rampUnlock"}

Places == {"idle", "react", "rampCheck", "sweepLock", "rampLock", "select",
           "insert"} \cup Critical

Reading == {"readVOLT", "readSOUT", "readOVLD", "readOut"}

(* The registers set so far by a ramp under way. *)
SetBegin == {"SCAE", "SCAT", "SOUT", "askOut", "readOut", "TRG"}
SetEnd   == {"SCAT", "SOUT", "askOut", "readOut", "TRG"}
SetTime  == {"SOUT", "askOut", "readOut", "TRG"}

Locked == \A t \in Threads : pc[t] \in Critical => mtx = t

(* At most the answer to the question a thread waits on is on the line. *)
LineInStep ==
  /\ (\A t \in Threads : pc[t] \notin Reading) => line = <<>>
  /\ \A t \in Threads : pc[t] \in Reading =>
       line = <<>> \/ line = <<Reads[pc[t]]>> \/ line = <<"junk">>

RegistersInStep ==
  \A t \in Threads : /\ pc[t] \in SetBegin => reg["SCAB"] = arg[t]
                     /\ pc[t] \in SetEnd   => reg["SCAE"] = arg[t]
                     /\ pc[t] \in SetTime  => reg["SCAT"] = arg[t]

IInv == TypeOK /\ Locked /\ LineInStep /\ RegistersInStep /\ ReadingsMatch
-----------------------------------------------------------------------------
(* The tables: every place, and the questions and answers of the line. *)
LEMMA Tables ==
  /\ DOMAIN After \cup {"idle", "react", "rampCheck"} = Places
  /\ DOMAIN Reads = Reading
  /\ DOMAIN Asks = {"askVOLT", "askSOUT", "askOVLD", "askOut"}
BY DEF After, Reads, Asks, Places, Reading, Critical

(* Where an asking thread reads next, and that it asks what it reads. *)
LEMMA AskThenRead ==
  ASSUME NEW p \in DOMAIN Asks
  PROVE  /\ After[p] \in Reading
         /\ Reads[After[p]] = Asks[p]
         /\ Asks[p] \in Kinds
BY DEF After, Reads, Asks, Reading, Kinds

(* Where a thread that has read goes: to no other read. *)
LEMMA AfterRead ==
  ASSUME NEW p \in Reading
  PROVE  /\ Reads[p] \in Kinds
         /\ After[p] \in Critical \ Reading
         /\ After[p] \in SetBegin => p \in SetBegin /\ p \in SetEnd /\ p \in SetTime
BY DEF After, Reads, Reading, Kinds, Critical, SetBegin, SetEnd, SetTime

THEOREM Initial == Init => IInv
<1> SUFFICES ASSUME Init PROVE IInv
  OBVIOUS
<1>1. TypeOK
  BY SRSAssumption, Tables
  DEF Init, TypeOK, Threads, Ramps, Readings, Kinds, Registers, Places
<1>2. Locked /\ LineInStep /\ RegistersInStep /\ ReadingsMatch
  BY DEF Init, Locked, LineInStep, RegistersInStep, ReadingsMatch, Critical,
         Reading, SetBegin, SetEnd, SetTime
<1> QED BY <1>1, <1>2 DEF IInv

(* What a step of thread t that changes only the places of the threads     *)
(* keeps: it suffices that the thread enters no critical place.            *)
LEMMA Moves ==
  ASSUME IInv, NEW t \in Threads, NEW where \in Places \ Critical,
         Goes(t, where), mtx' \in Threads \cup {None},
         mtx' = mtx \/ pc[t] \in Critical \/ mtx = None,
         pc[t] \notin Reading,
         arg' \in [Threads -> Ramps], prev' \in [Threads -> BOOLEAN],
         \A s \in Threads : s # t => arg'[s] = arg[s],
         alive' \in BOOLEAN, SRSPowerState' \in BOOLEAN,
         UNCHANGED <<memory, line, supply>>
  PROVE  IInv'
<1>1. TypeOK'
  BY Tables DEF IInv, TypeOK, Goes, supply
<1>2. Locked'
  BY SRSAssumption DEF IInv, TypeOK, Locked, Goes, Threads
<1>3. LineInStep'
  <2>1. where \notin Reading
    BY DEF Reading, Critical
  <2> QED BY <2>1 DEF IInv, TypeOK, LineInStep, Goes
<1>4. RegistersInStep'
  <2>1. where \notin SetBegin /\ where \notin SetEnd /\ where \notin SetTime
    BY DEF Critical, SetBegin, SetEnd, SetTime
  <2> QED BY <2>1 DEF IInv, TypeOK, RegistersInStep, Goes, supply
<1>5. ReadingsMatch'
  BY DEF IInv, ReadingsMatch
<1> QED BY <1>1, <1>2, <1>3, <1>4, <1>5 DEF IInv
-----------------------------------------------------------------------------
(* One lemma per action that enters or stays in a critical place. *)
LEMMA LockKeeps == ASSUME IInv, NEW t \in Threads, Lock(t), alive PROVE IInv'
<1> DEFINE where == After[pc[t]]
<1>1. where \in {"askVOLT", "SCAB"} /\ where \in Places
  BY DEF Lock, After, Places, Critical
<1>2. TypeOK'
  BY <1>1, Tables DEF IInv, TypeOK, Lock, Steps, Goes, supply
<1>3. Locked'
  <2>1. \A s \in Threads : pc[s] \notin Critical
    BY SRSAssumption DEF IInv, Locked, Lock, Threads
  <2> QED BY <2>1 DEF IInv, TypeOK, Locked, Lock, Steps, Goes
<1>4. LineInStep'
  BY <1>1 DEF IInv, TypeOK, LineInStep, Lock, Steps, Goes, Reading
<1>5. RegistersInStep'
  BY <1>1 DEF IInv, TypeOK, RegistersInStep, Lock, Steps, Goes, supply,
              SetBegin, SetEnd, SetTime
<1>6. ReadingsMatch'
  BY DEF IInv, ReadingsMatch, Lock
<1> QED BY <1>2, <1>3, <1>4, <1>5, <1>6 DEF IInv

(* While a thread is in a critical place no other one reads. *)
LEMMA Alone ==
  ASSUME IInv, NEW t \in Threads, pc[t] \in Critical,
         NEW s \in Threads, s # t
  PROVE  pc[s] \notin Critical /\ pc[s] \notin Reading
BY DEF IInv, Locked, Reading, Critical

LEMMA AskKeeps == ASSUME IInv, NEW t \in Threads, Ask(t), alive PROVE IInv'
<1> DEFINE q == Asks[pc[t]]
           where == After[pc[t]]
<1>1. /\ pc[t] \in Critical /\ pc[t] \notin Reading
      /\ where \in Reading /\ where \in Critical /\ where \in Places
      /\ Reads[where] = q /\ q \in Kinds
  BY AskThenRead, Tables DEF Ask, Critical, Reading, Places
<1>2. line = <<>>
  BY <1>1, Alone DEF IInv, LineInStep
<1>3. line' = <<>> \/ line' = <<q>> \/ line' = <<"junk">>
  BY <1>2 DEF Ask
<1>4. pc' = [pc EXCEPT ![t] = where]
  BY DEF Ask, Steps, Goes
<1>5. TypeOK'
  <2>1. line' \in Seq(Readings)
    <3>1. q \in Readings /\ "junk" \in Readings
      BY <1>1 DEF Readings
    <3>2. \A x \in Readings : <<x>> \in Seq(Readings)
      OBVIOUS
    <3>3. <<>> \in Seq(Readings)
      OBVIOUS
    <3> HIDE DEF q
    <3> QED BY <1>3, <3>1, <3>2, <3>3
  <2> QED BY <1>1, <1>4, <2>1, Tables DEF IInv, TypeOK, Ask, supply
<1>6. Locked'
  BY <1>1, <1>4 DEF IInv, TypeOK, Locked, Ask
<1>7. LineInStep'
  <2>1. pc'[t] = where
    BY <1>4 DEF IInv, TypeOK
  <2>2. \A s \in Threads : s # t => pc'[s] \notin Reading
    BY <1>1, <1>4, Alone DEF IInv, TypeOK
  <2> QED BY <1>1, <1>3, <2>1, <2>2 DEF LineInStep
<1>8. RegistersInStep'
  <2>1. /\ where \in SetBegin => pc[t] \in SetBegin
        /\ where \in SetEnd => pc[t] \in SetEnd
        /\ where \in SetTime => pc[t] \in SetTime
    BY Tables DEF Ask, After, SetBegin, SetEnd, SetTime
  <2> QED BY <2>1, <1>4 DEF IInv, TypeOK, RegistersInStep, Ask, supply
<1>9. ReadingsMatch'
  BY DEF IInv, ReadingsMatch, Ask
<1> QED BY <1>5, <1>6, <1>7, <1>8, <1>9 DEF IInv

LEMMA ReadKeeps == ASSUME IInv, NEW t \in Threads, Read(t), alive PROVE IInv'
<1> DEFINE k == Reads[pc[t]]
           where == After[pc[t]]
<1>1. /\ pc[t] \in Reading /\ pc[t] \in Critical
      /\ k \in Kinds /\ where \in Critical \ Reading /\ where \in Places
      /\ where \in SetBegin =>
            pc[t] \in SetBegin /\ pc[t] \in SetEnd /\ pc[t] \in SetTime
  BY AfterRead, Tables DEF Read, Critical, Reading, Places
<1>2. line = <<k>> \/ line = <<"junk">>
  BY <1>1 DEF IInv, LineInStep, Read
<1>3. Head(line) \in {k, "junk"} /\ Tail(line) = <<>>
  <2>1. \A x \in Readings : Head(<<x>>) = x /\ Tail(<<x>>) = <<>>
    OBVIOUS
  <2>2. k \in Readings /\ "junk" \in Readings
    BY <1>1 DEF Readings
  <2> HIDE DEF k
  <2> QED BY <1>2, <2>1, <2>2
<1>4. /\ pc' = [pc EXCEPT ![t] = where] /\ line' = <<>>
      /\ memory' = [memory EXCEPT ![k] = Head(line)]
  BY <1>3 DEF Read, Steps, Goes
<1>5. TypeOK'
  <2>1. memory' \in [Kinds -> Readings] /\ line' \in Seq(Readings)
    BY <1>1, <1>3, <1>4 DEF IInv, TypeOK, Readings
  <2> QED BY <1>1, <1>4, <2>1, Tables DEF IInv, TypeOK, Read, supply
<1>6. Locked'
  BY <1>1, <1>4 DEF IInv, TypeOK, Locked, Read
<1>7. LineInStep'
  <2>1. \A s \in Threads : pc'[s] \notin Reading
    BY <1>1, <1>4, Alone DEF IInv, TypeOK
  <2> QED BY <1>4, <2>1 DEF LineInStep
<1>8. RegistersInStep'
  <2>1. /\ where \in SetEnd => where \in SetBegin
        /\ where \in SetTime => where \in SetBegin
    BY DEF SetBegin, SetEnd, SetTime
  <2> QED BY <1>1, <1>4, <2>1 DEF IInv, TypeOK, RegistersInStep, Read, supply
<1>9. ReadingsMatch'
  BY <1>1, <1>3, <1>4 DEF IInv, TypeOK, ReadingsMatch
<1> QED BY <1>5, <1>6, <1>7, <1>8, <1>9 DEF IInv

(* Steps within a ramp that leave the line alone. *)
LEMMA RampKeeps ==
  ASSUME IInv, NEW t \in Threads, alive,
         SetRegister(t) \/ SwitchOutputOn(t) \/ Trigger(t)
  PROVE  IInv'
<1> DEFINE where == After[pc[t]]
<1>1. /\ pc[t] \in {"SCAB", "SCAE", "SCAT", "SOUT", "TRG"}
      /\ pc' = [pc EXCEPT ![t] = where]
      /\ UNCHANGED <<alive, prev, arg, mtx, SRSPowerState, memory, line>>
  BY DEF SetRegister, SwitchOutputOn, Trigger, Steps, Goes, Registers
<1>2. /\ pc[t] \in Critical /\ pc[t] \notin Reading
      /\ where \in Critical \ Reading /\ where \in Places
  BY <1>1 DEF After, Critical, Reading, Places
<1>3. reg' \in [Registers -> Ramps] /\ ramp' \in Ramps
  BY DEF IInv, TypeOK, SetRegister, SwitchOutputOn, Trigger, Registers, supply
<1>4. TypeOK'
  BY <1>1, <1>2, <1>3, Tables DEF IInv, TypeOK
<1>5. Locked'
  BY <1>1, <1>2 DEF IInv, TypeOK, Locked
<1>6. LineInStep'
  BY <1>1, <1>2 DEF IInv, TypeOK, LineInStep
<1>7. RegistersInStep'
  <2> SUFFICES ASSUME NEW s \in Threads
               PROVE  /\ pc'[s] \in SetBegin => reg'["SCAB"] = arg[s]
                      /\ pc'[s] \in SetEnd   => reg'["SCAE"] = arg[s]
                      /\ pc'[s] \in SetTime  => reg'["SCAT"] = arg[s]
    BY <1>1 DEF RegistersInStep
  <2>1. CASE s # t
    <3>1. pc'[s] = pc[s] /\ pc[s] \notin Critical
      BY <1>1, <1>2, <2>1, Alone DEF IInv, TypeOK
    <3> QED BY <3>1 DEF Critical, SetBegin, SetEnd, SetTime
  <2>2. CASE s = t
    <3>1. pc'[t] = where
      BY <1>1 DEF IInv, TypeOK
    <3>2. CASE SetRegister(t)
      <4>1. reg' = [reg EXCEPT ![pc[t]] = arg[t]] /\ pc[t] \in Registers
        BY <3>2 DEF SetRegister
      <4>2. CASE pc[t] = "SCAB"
        BY <2>2, <3>1, <4>1, <4>2 DEF IInv, TypeOK, After, Registers,
           SetBegin, SetEnd, SetTime
      <4>3. CASE pc[t] = "SCAE"
        BY <2>2, <3>1, <4>1, <4>3 DEF IInv, TypeOK, RegistersInStep, After,
           Registers, SetBegin, SetEnd, SetTime
      <4>4. CASE pc[t] = "SCAT"
        BY <2>2, <3>1, <4>1, <4>4 DEF IInv, TypeOK, RegistersInStep, After,
           Registers, SetBegin, SetEnd, SetTime
      <4> QED BY <4>1, <4>2, <4>3, <4>4 DEF Registers
    <3>3. CASE SwitchOutputOn(t) \/ Trigger(t)
      <4>1. reg' = reg /\ pc[t] \in {"SOUT", "TRG"}
        BY <3>3 DEF SwitchOutputOn, Trigger, supply
      <4> QED BY <2>2, <3>1, <4>1 DEF IInv, RegistersInStep, After,
                 SetBegin, SetEnd, SetTime
    <3> QED BY <3>2, <3>3
  <2> QED BY <2>1, <2>2
<1>8. ReadingsMatch'
  BY <1>1 DEF IInv, ReadingsMatch
<1> QED BY <1>4, <1>5, <1>6, <1>7, <1>8 DEF IInv

LEMMA DieKeeps == ASSUME IInv, Die PROVE IInv'
<1>1. TypeOK'
  <2>1. \A S : <<>> \in Seq(S)
    OBVIOUS
  <2> QED BY <2>1, Tables DEF IInv, TypeOK, Die, Ramps, Readings, supply, Places
<1>2. Locked' /\ LineInStep'
  BY DEF Die, Locked, LineInStep, Critical, Reading
<1>3. RegistersInStep' /\ ReadingsMatch'
  BY DEF Die, RegistersInStep, ReadingsMatch, SetBegin, SetEnd, SetTime
<1> QED BY <1>1, <1>2, <1>3 DEF IInv
THEOREM Inductive == IInv /\ [Next]_vars => IInv'
<1> SUFFICES ASSUME IInv, [Next]_vars PROVE IInv'
  OBVIOUS
<1>1. ASSUME NEW t \in Threads, Runs(t) PROVE IInv'
  <2>1. alive
    BY <1>1 DEF Runs
  <2>2. CASE Lock(t)
    BY <2>1, <2>2, LockKeeps
  <2>3. CASE Unlock(t)
    <3>1. /\ pc[t] \in Critical /\ pc[t] \notin Reading
          /\ After[pc[t]] \in Places \ Critical
      BY <2>3 DEF Unlock, After, Critical, Reading, Places
    <3> HIDE DEF IInv
    <3> QED BY <2>3, <3>1, Moves DEF Unlock, Steps, IInv, TypeOK
  <2>4. CASE Ask(t)
    BY <2>1, <2>4, AskKeeps
  <2>5. CASE Read(t)
    BY <2>1, <2>5, ReadKeeps
  <2>6. CASE Select(t) \/ Insert(t)
    <3>1. pc[t] \notin Reading /\ After[pc[t]] \in Places \ Critical
      BY <2>6 DEF Select, Insert, After, Critical, Reading, Places
    <3> QED BY <2>6, <3>1, Moves DEF Select, Insert, Steps, IInv, TypeOK
  <2>7. CASE React(t)
    <3>1. pc[t] \notin Reading /\ {"rampCheck", "idle"} \subseteq Places \ Critical
      BY <2>7 DEF React, Critical, Reading, Places
    <3>2. /\ arg' \in [Threads -> Ramps] /\ prev' \in [Threads -> BOOLEAN]
          /\ \A s \in Threads : s # t => arg'[s] = arg[s]
      BY <2>7 DEF React, IInv, TypeOK, Ramps
    <3>3. Goes(t, "rampCheck") \/ Goes(t, "idle")
      BY <2>7 DEF React
    <3> QED BY <2>7, <3>1, <3>2, <3>3, Moves DEF React, IInv, TypeOK
  <2>8. CASE Check(t)
    <3>1. /\ pc[t] \notin Reading
          /\ {"rampLock", "idle"} \subseteq Places \ Critical
      BY <2>8 DEF Check, Critical, Reading, Places
    <3>2. Goes(t, "rampLock") \/ Goes(t, "idle")
      BY <2>8 DEF Check
    <3> QED BY <2>8, <3>1, <3>2, Moves DEF Check, IInv, TypeOK
  <2>9. CASE SetRegister(t) \/ SwitchOutputOn(t) \/ Trigger(t)
    BY <2>1, <2>9, RampKeeps
  <2> QED BY <1>1, <2>2, <2>3, <2>4, <2>5, <2>6, <2>7, <2>8, <2>9 DEF Runs
<1>2. ASSUME NEW t \in Threads, BeginSweep(t) PROVE IInv'
  <2>1. pc[t] \notin Reading /\ "sweepLock" \in Places \ Critical
    BY <1>2 DEF BeginSweep, Critical, Reading, Places
  <2>2. prev' \in [Threads -> BOOLEAN]
    BY <1>2 DEF BeginSweep, IInv, TypeOK
  <2> QED BY <1>2, <2>1, <2>2, Moves DEF BeginSweep, IInv, TypeOK
<1>3. ASSUME NEW t \in Workers, NEW r \in Requests, CallRamp(t, r) PROVE IInv'
  <2>1. pc[t] \notin Reading /\ "rampCheck" \in Places \ Critical
    BY <1>3 DEF CallRamp, Critical, Reading, Places
  <2>2. /\ t \in Threads /\ arg' \in [Threads -> Ramps]
        /\ \A s \in Threads : s # t => arg'[s] = arg[s]
    BY <1>3 DEF CallRamp, IInv, TypeOK, Ramps, Threads
  <2> QED BY <1>3, <2>1, <2>2, Moves DEF CallRamp, IInv, TypeOK
<1>4. CASE Die
  BY <1>4, DieKeeps
<1>5. CASE Start \/ UNCHANGED vars
  BY <1>5 DEF Start, vars, thread, supply, IInv, TypeOK, Locked, LineInStep,
              RegistersInStep, ReadingsMatch
<1> QED BY <1>1, <1>2, <1>3, <1>4, <1>5 DEF Next

(* The inductive invariant: whoever is between lock and unlock holds the   *)
(* mutex, at most the awaited answer is on the line, and the registers set *)
(* so far are those of the ramp under way.                                 *)
THEOREM Invariance == Spec => []IInv
BY Initial, Inductive, PTL DEF Spec

(* Types of the two threads, the object and the supply. *)
THEOREM TypeCorrect == Spec => []TypeOK
BY Invariance, PTL DEF IInv

(* Every reading answers its own question (the mutex of PerformSweep and   *)
(* VoltageRamp), for any number of threads.                                *)
THEOREM ReadingsCorrect == Spec => []ReadingsMatch
BY Invariance, PTL DEF IInv

(* A ramp is triggered with the parameters of one call only. *)
THEOREM RampsCorrect == Spec => []RampsAreWhole
<1>1. IInv => RampsAreWhole
  BY DEF IInv, TypeOK, RegistersInStep, RampsAreWhole, Registers,
         SetBegin, SetEnd, SetTime
<1> QED BY <1>1, Invariance, PTL
=============================================================================
