----------------------------- MODULE SRSServer -----------------------------
(***************************************************************************)
(* The power supply server (SRSServer.cpp, SRSPowerSupply.cpp): one object *)
(* shared by a timer thread, which sweeps every 15 s, and by the thread    *)
(* that serves RPC calls (a sweep or a voltage ramp).  A mutex guards the  *)
(* exchanges over the serial line, nothing else.                           *)
(*                                                                         *)
(* A reading is modelled by the question it answers, a ramp by the call    *)
(* that asked for it.  Commands of one constant (SCAR, SCAD, SCAA) are     *)
(* part of the step of the command next to them.                           *)
(***************************************************************************)
EXTENDS Sequences

CONSTANTS Timers, Workers,      \* the sweeping thread and the RPC thread
          None,                 \* no thread
          Requests,             \* ramps that callers ask for
          Down,                 \* the ramp to 0 V of PerformSweep
          Faults                \* what a line may do: "lost", "garbled"

ASSUME SRSAssumption ==
  /\ None \notin Timers \cup Workers
  /\ Down \notin Requests
  /\ Faults \subseteq {"lost", "garbled"}

VARIABLES alive,
          pc, prev, arg,        \* of each thread: where, _prevPS, its ramp
          mtx,                  \* the thread that holds the mutex, or None
          SRSPowerState,        \* as last read from the database
          memory,               \* currentVoltage, currentOutputStatus, OVLDStatus
          line,                 \* answers on their way to the program
          reg, ramp             \* the supply: scan registers, ramp triggered

thread   == <<pc, prev, arg>>
supply   == <<reg, ramp>>
vars     == <<alive, thread, mtx, SRSPowerState, memory, line, supply>>

Threads == Timers \cup Workers
Ramps   == Requests \cup {Down}
Kinds   == {"voltage", "output", "overload"}
Readings == Kinds \cup {"junk"}

(* Where a thread goes after each step that always leads to the same one.  *)
After ==
  [sweepLock |-> "askVOLT", askVOLT |-> "readVOLT", readVOLT |-> "askSOUT",
   askSOUT |-> "readSOUT", readSOUT |-> "askOVLD", askOVLD |-> "readOVLD",
   readOVLD |-> "sweepUnlock", sweepUnlock |-> "select",
   select |-> "insert", insert |-> "react",
   rampLock |-> "SCAB", SCAB |-> "SCAE", SCAE |-> "SCAT", SCAT |-> "SOUT",
   SOUT |-> "askOut", askOut |-> "readOut", readOut |-> "TRG",
   TRG |-> "rampUnlock", rampUnlock |-> "idle"]

Asks  == [askVOLT |-> "voltage", askSOUT |-> "output", askOVLD |-> "overload",
          askOut |-> "output"]
Reads == [readVOLT |-> "voltage", readSOUT |-> "output",
          readOVLD |-> "overload", readOut |-> "output"]
Registers == {"SCAB", "SCAE", "SCAT"}

Goes(t, where) == pc' = [pc EXCEPT ![t] = where]
Steps(t) == Goes(t, After[pc[t]])

(* The constructor flushes the line and sets no field of the object. *)
Init == /\ alive = TRUE
        /\ pc = [t \in Threads |-> "idle"]
        /\ prev = [t \in Threads |-> FALSE]
        /\ arg = [t \in Threads |-> Down]
        /\ mtx = None /\ line = <<>>
        /\ SRSPowerState \in BOOLEAN
        /\ memory = [k \in Kinds |-> "junk"]
        /\ reg = [r \in Registers |-> Down] /\ ramp = Down
-----------------------------------------------------------------------------
(* PerformSweep.  The old power state is read before the lock is taken. *)
BeginSweep(t) ==
  /\ pc[t] = "idle"
  /\ prev' = [prev EXCEPT ![t] = SRSPowerState]
  /\ Goes(t, "sweepLock")
  /\ UNCHANGED <<alive, arg, mtx, SRSPowerState, memory, line, supply>>

LockBusy(t) ==                         \* variant: sweeps do not wait
  /\ pc[t] \in {"sweepLock", "rampLock"}
  /\ pc[t] = "sweepLock" \/ mtx = None
  /\ mtx' = t
  /\ Steps(t)
  /\ UNCHANGED <<alive, prev, arg, SRSPowerState, memory, line, supply>>

Lock(t) ==
  /\ pc[t] \in {"sweepLock", "rampLock"}
  /\ mtx = None
  /\ mtx' = t
  /\ Steps(t)
  /\ UNCHANGED <<alive, prev, arg, SRSPowerState, memory, line, supply>>

UnlockSweepsOnly(t) ==                 \* variant: a ramp keeps the mutex
  /\ pc[t] \in {"sweepUnlock", "rampUnlock"}
  /\ mtx' = IF pc[t] = "sweepUnlock" THEN None ELSE mtx
  /\ Steps(t)
  /\ UNCHANGED <<alive, prev, arg, SRSPowerState, memory, line, supply>>

Unlock(t) ==
  /\ pc[t] \in {"sweepUnlock", "rampUnlock"}
  /\ mtx' = None
  /\ Steps(t)
  /\ UNCHANGED <<alive, prev, arg, SRSPowerState, memory, line, supply>>

(* WriteString of a question; the supply answers at once, or not at all. *)
Ask(t) ==
  /\ pc[t] \in DOMAIN Asks
  /\ \/ line' = Append(line, Asks[pc[t]])
     \/ "garbled" \in Faults /\ line' = Append(line, "junk")
     \/ "lost" \in Faults /\ line' = line
  /\ Steps(t)
  /\ UNCHANGED <<alive, prev, arg, mtx, SRSPowerState, memory, supply>>

ReadOrGiveUp(t) ==                     \* variant: the read does not wait
  /\ pc[t] \in DOMAIN Reads
  /\ memory' = [memory EXCEPT ![Reads[pc[t]]] =
                  IF line = <<>> THEN "nothing" ELSE Head(line)]
  /\ line' = IF line = <<>> THEN line ELSE Tail(line)
  /\ Steps(t)
  /\ UNCHANGED <<alive, prev, arg, mtx, SRSPowerState, supply>>

(* ReadLine.  cfmakeraw has set VMIN to 1 and VTIME to 0 after the         *)
(* constructor asked for a timeout: the read waits for an answer.  An      *)
(* answer that does not parse ends GetParameterFromSRS without a return:   *)
(* the value is junk (or the process dies, which Die covers).  The         *)
(* overload flag compares the line, newline included, with "1" and is      *)
(* false whatever the answer; values are left out here.                    *)
Read(t) ==
  /\ pc[t] \in DOMAIN Reads
  /\ line # <<>>
  /\ memory' = [memory EXCEPT ![Reads[pc[t]]] = Head(line)]
  /\ line' = Tail(line)
  /\ Steps(t)
  /\ UNCHANGED <<alive, prev, arg, mtx, SRSPowerState, supply>>

(* UpdateMysql reads the switch of the row, which the state machine may   *)
(* have set either way, then inserts the readings into table SRSState,     *)
(* which nothing in the program reads.                                     *)
Select(t) ==
  /\ pc[t] = "select"
  /\ SRSPowerState' \in BOOLEAN
  /\ Steps(t)
  /\ UNCHANGED <<alive, prev, arg, mtx, memory, line, supply>>

Insert(t) ==
  /\ pc[t] = "insert"
  /\ Steps(t)
  /\ UNCHANGED <<alive, prev, arg, mtx, SRSPowerState, memory, line, supply>>

(* The end of the sweep.  SRSPowerState is tested here and again in        *)
(* VoltageRamp, outside the mutex: the build may keep the first value      *)
(* (and then nothing is left to do) or read it again.                      *)
React(t) ==
  /\ pc[t] = "react"
  /\ IF prev[t] /\ ~SRSPowerState
     THEN /\ arg' = [arg EXCEPT ![t] = Down]
          /\ Goes(t, "rampCheck") \/ Goes(t, "idle")
     ELSE arg' = arg /\ Goes(t, "idle")
  /\ prev' = [prev EXCEPT ![t] = FALSE]
  /\ UNCHANGED <<alive, mtx, SRSPowerState, memory, line, supply>>
-----------------------------------------------------------------------------
(* VoltageRamp. *)
CallRamp(t, r) ==
  /\ pc[t] = "idle"
  /\ arg' = [arg EXCEPT ![t] = r]
  /\ Goes(t, "rampCheck")
  /\ UNCHANGED <<alive, prev, mtx, SRSPowerState, memory, line, supply>>

Check(t) ==
  /\ pc[t] = "rampCheck"
  /\ Goes(t, IF SRSPowerState THEN "rampLock" ELSE "idle")
  /\ UNCHANGED <<alive, prev, arg, mtx, SRSPowerState, memory, line, supply>>

SetRegister(t) ==
  /\ pc[t] \in Registers
  /\ reg' = [reg EXCEPT ![pc[t]] = arg[t]]
  /\ Steps(t)
  /\ UNCHANGED <<alive, prev, arg, mtx, SRSPowerState, memory, line, ramp>>

UnlockBeforeTrigger(t) ==              \* variant: unlocked before the trigger
  /\ pc[t] = "SOUT"
  /\ mtx' = None
  /\ Steps(t)
  /\ UNCHANGED <<alive, prev, arg, SRSPowerState, memory, line, supply>>

(* "SOUT 1": nothing in the program ever sends "SOUT 0". *)
SwitchOutputOn(t) ==
  /\ pc[t] = "SOUT"
  /\ Steps(t)
  /\ UNCHANGED <<alive, prev, arg, mtx, SRSPowerState, memory, line, supply>>

Trigger(t) ==
  /\ pc[t] = "TRG"
  /\ ramp' = reg["SCAE"]
  /\ Steps(t)
  /\ UNCHANGED <<alive, prev, arg, mtx, SRSPowerState, memory, line, reg>>
-----------------------------------------------------------------------------
(* An exception of the database connector in either thread ends both.      *)
(* The supply keeps what it was told.                                      *)
Die == /\ alive
       /\ alive' = FALSE
       /\ pc' = [t \in Threads |-> "idle"]
       /\ prev' = [t \in Threads |-> FALSE]
       /\ arg' = [t \in Threads |-> Down]
       /\ mtx' = None /\ line' = <<>>
       /\ SRSPowerState' \in BOOLEAN
       /\ memory' = [k \in Kinds |-> "junk"]
       /\ UNCHANGED supply

Start == ~alive /\ alive' = TRUE /\ UNCHANGED <<thread, mtx, SRSPowerState,
                                                memory, line, supply>>

Runs(t) == /\ alive
           /\ \/ Lock(t) \/ Unlock(t) \/ Ask(t) \/ Read(t)
              \/ Select(t) \/ Insert(t) \/ React(t) \/ Check(t)
              \/ SetRegister(t) \/ SwitchOutputOn(t) \/ Trigger(t)

Next == \/ \E t \in Threads : Runs(t)
        \/ \E t \in Threads : alive /\ BeginSweep(t)
        \/ \E t \in Workers, r \in Requests : alive /\ CallRamp(t, r)
        \/ Die \/ Start

(* A thread that can run does; calls and sweeps may stay away.             *)
Spec == Init /\ [][Next]_vars /\ \A t \in Threads : WF_vars(Runs(t))
-----------------------------------------------------------------------------
TypeOK ==
  /\ alive \in BOOLEAN /\ SRSPowerState \in BOOLEAN
  /\ pc \in [Threads -> DOMAIN After \cup {"idle", "react", "rampCheck"}]
  /\ prev \in [Threads -> BOOLEAN] /\ arg \in [Threads -> Ramps]
  /\ mtx \in Threads \cup {None}
  /\ memory \in [Kinds -> Readings]
  /\ line \in Seq(Readings)
  /\ reg \in [Registers -> Ramps] /\ ramp \in Ramps

(* Every value the object stores, and so every row it inserts, answers the *)
(* question that asked for it, whatever the threads do (the mutex around   *)
(* each exchange; a ramp asks for the output status too).                  *)
ReadingsMatch == \A k \in Kinds : memory[k] \in {k, "junk"}

(* A ramp is triggered with start, stop and time of one and the same call, *)
(* never with a mixture of two calls.                                      *)
RampsAreWhole ==
  \A t \in Threads : pc[t] = "TRG" => \A r \in Registers : reg[r] = arg[t]

(* Whatever the threads do, the mutex does not stay taken, unless a thread *)
(* waits for an answer that was lost (an early return of a ramp, or an     *)
(* answer that does not parse, must not leave it locked).                  *)
AnswerLost == \E t \in Threads : pc[t] \in DOMAIN Reads /\ line = <<>>
LockReleased == mtx # None ~> mtx = None \/ ~alive \/ AnswerLost
-----------------------------------------------------------------------------
(* SRSPowerSupply.cpp:254: "Check if the PS state changed, and if it went  *)
(* from 0->1, turn it off" (the code tests for the change from 1 to 0).    *)
SwitchOffRampsDown ==
  \A t \in Threads :
    (pc[t] = "react" /\ prev[t] /\ ~SRSPowerState)
      ~> (ramp = Down \/ SRSPowerState \/ ~alive)

(* SerialDeviceT.cpp:57-58: "read doesn't block", "0.5 seconds read        *)
(* timeout".                                                               *)
ReadsEnd == \A t \in Threads :
              pc[t] \in DOMAIN Reads ~> pc[t] \notin DOMAIN Reads \/ ~alive
=============================================================================
