------------------------------ MODULE LSHDrone ------------------------------
(***************************************************************************)
(* The heater's drone (LSHDroneStart.cpp, LakeShoreHeater.cpp): a loop     *)
(* that polls the heater controller, exchanges a row with the database,    *)
(* and corrects power and range of the heater where they differ from the   *)
(* row.  Nothing is acknowledged: a question may be answered with a line   *)
(* that does not parse, or not at all, and a command may go unheard; the   *)
(* drone only has the next poll to find out.                               *)
(*                                                                         *)
(* Powers are percent, as the row and the controller have them.  The       *)
(* temperature, which is only passed on to the database, is left out.      *)
(***************************************************************************)
EXTENDS Integers

CONSTANTS Powers, Modes,        \* HeaterPW and HeaterMode of the row
          UninitPW, UninitMode, \* what currentPW, currentMode may hold at start
          Faults                \* of the line: "garbled", "lost", "unheard"

ASSUME LSHAssumption ==
  /\ Powers \subseteq Int /\ Modes \subseteq Int
  /\ UninitPW \subseteq Int /\ UninitMode \subseteq Int
  /\ Faults \subseteq {"garbled", "lost", "unheard"}

VARIABLES pc,                   \* where the loop is
          currentPW, currentMode,       \* last read from the heater
          setPW, setMode, fuse, \* last read from the row; fuse: not blown
          WatchdogFuse,         \* reported in LSHState; once 0, always 0
          turn,                 \* the argument of TurnONOFF
          mout, range,          \* the heater: power and range it was set to
          unheard               \* the last MOUT went unheard

reading == <<currentPW, currentMode>>
wanted  == <<setPW, setMode, fuse>>
heater  == <<mout, range, unheard>>
vars    == <<pc, reading, wanted, WatchdogFuse, turn, heater>>

Ranges == 0 .. 2                \* off, low, high

UpperBoundOnly(p) ==                   \* variant: no lower bound
  IF p > 100 THEN 100 ELSE p

InBounds(p) == IF p < 0 THEN 0 ELSE IF p > 100 THEN 100 ELSE p

(* What the heater puts out, the answer to "HTR? 1". *)
Output == IF range = 0 THEN 0 ELSE mout

(* The constructor; the heater is as it was left.  setMode and the fuse    *)
(* are read from the row before they are used.                             *)
Init == /\ pc = "ReadPower"
        /\ currentPW \in UninitPW /\ currentMode \in UninitMode
        /\ setPW = 0 /\ setMode = 0 /\ fuse = TRUE /\ WatchdogFuse = TRUE
        /\ turn = 0
        /\ mout \in {InBounds(p) : p \in Powers} /\ range \in Ranges
        /\ unheard = FALSE
-----------------------------------------------------------------------------
(* Polls.  A line that does not parse leaves the value as it was; for a    *)
(* line that does not come the drone waits without a limit.                *)
Garbled == "garbled" \in Faults /\ UNCHANGED reading
Hangs == "lost" \in Faults /\ pc' = "hangs" /\ UNCHANGED reading

PowerAnswered == currentPW' = Output /\ UNCHANGED currentMode
ModeAnswered == currentMode' = range /\ UNCHANGED currentPW

ReadPower ==
  /\ pc = "ReadPower"
  /\ \/ pc' = "ReadMode" /\ (PowerAnswered \/ Garbled)
     \/ Hangs
  /\ UNCHANGED <<wanted, WatchdogFuse, turn, heater>>

ReadMode ==
  /\ pc = "ReadMode"
  /\ \/ pc' = "ReadTemperatureK" /\ (ModeAnswered \/ Garbled)
     \/ Hangs
  /\ UNCHANGED <<wanted, WatchdogFuse, turn, heater>>

ReadTemperatureK ==
  /\ pc = "ReadTemperatureK"
  /\ \/ pc' = "UpdateMysql" /\ UNCHANGED reading
     \/ Hangs
  /\ UNCHANGED <<wanted, WatchdogFuse, turn, heater>>

UpdateMysql ==
  /\ pc = "UpdateMysql"
  /\ setPW' \in Powers /\ setMode' \in Modes /\ fuse' \in BOOLEAN
  /\ pc' = "fuse"
  /\ UNCHANGED <<reading, WatchdogFuse, turn, heater>>

FuseOnce ==                            \* variant: turned off only once
  /\ pc = "fuse"
  /\ IF ~fuse
     THEN /\ pc' = IF WatchdogFuse THEN "MOUT" ELSE "ReadPower"
          /\ turn' = 0 /\ WatchdogFuse' = FALSE
     ELSE pc' = "power" /\ UNCHANGED <<turn, WatchdogFuse>>
  /\ UNCHANGED <<reading, wanted, heater>>

(* A blown fuse: TurnONOFF(0), and the rest of the pass is skipped. *)
Fuse ==
  /\ pc = "fuse"
  /\ IF ~fuse
     THEN pc' = "MOUT" /\ turn' = 0 /\ WatchdogFuse' = FALSE
     ELSE pc' = "power" /\ UNCHANGED <<turn, WatchdogFuse>>
  /\ UNCHANGED <<reading, wanted, heater>>

(* SetPowerLevel(setPW). *)
SetPowerLevel ==
  /\ setPW' = InBounds(setPW)
  /\ \/ mout' = setPW' /\ unheard' = FALSE
     \/ "unheard" \in Faults /\ mout' = mout /\ unheard' = TRUE
  /\ UNCHANGED <<reading, setMode, fuse, WatchdogFuse, turn, range>>

PowerElseMode ==                       \* variant: one correction per pass
  /\ pc = "power"
  /\ IF currentPW # setPW
     THEN pc' = "ReadPower" /\ SetPowerLevel
     ELSE pc' = "mode" /\ UNCHANGED <<reading, wanted, WatchdogFuse, turn,
                                     heater>>

CorrectPower ==
  /\ pc = "power"
  /\ pc' = "mode"
  /\ IF currentPW # setPW
     THEN SetPowerLevel
     ELSE UNCHANGED <<reading, wanted, WatchdogFuse, turn, heater>>

CorrectModeOnly ==                     \* variant: the power is not set again
  /\ pc = "mode"
  /\ IF setMode = currentMode
     THEN pc' = "ReadPower" /\ turn' = turn
     ELSE /\ turn' = IF setMode \in Ranges THEN setMode ELSE 0
          /\ pc' = "RANGE"
  /\ UNCHANGED <<reading, wanted, WatchdogFuse, heater>>

(* TurnONOFF(setMode): a mode the heater does not have turns it off,       *)
(* without setting the power again.                                        *)
CorrectMode ==
  /\ pc = "mode"
  /\ IF setMode = currentMode
     THEN pc' = "ReadPower" /\ turn' = turn
     ELSE IF setMode \in Ranges
     THEN pc' = "MOUT" /\ turn' = setMode
     ELSE pc' = "RANGE" /\ turn' = 0
  /\ UNCHANGED <<reading, wanted, WatchdogFuse, heater>>

SetPowerAgain ==
  /\ pc = "MOUT"
  /\ pc' = "RANGE"
  /\ SetPowerLevel

SetRange ==
  /\ pc = "RANGE"
  /\ pc' = "ReadPower"
  /\ \/ range' = turn
     \/ "unheard" \in Faults /\ range' = range
  /\ UNCHANGED <<reading, wanted, WatchdogFuse, turn, mout, unheard>>
-----------------------------------------------------------------------------
(* An exception of the database connector.  The heater stays as it is. *)
Die == /\ pc # "dead"
       /\ pc' = "dead"
       /\ UNCHANGED <<reading, wanted, WatchdogFuse, turn, heater>>

Start == /\ pc = "dead" /\ pc' = "ReadPower"
         /\ currentPW' \in UninitPW /\ currentMode' \in UninitMode
         /\ setPW' = 0 /\ setMode' = 0 /\ fuse' = TRUE /\ WatchdogFuse' = TRUE
         /\ turn' = 0
         /\ UNCHANGED heater

Loop == \/ ReadPower \/ ReadMode \/ ReadTemperatureK \/ UpdateMysql
        \/ Fuse \/ CorrectPower \/ CorrectMode \/ SetPowerAgain \/ SetRange

Next == Loop \/ Die \/ Start

(* The loop goes on as long as the process lives and no read waits; a line *)
(* that is tried again and again works again and again.                    *)
Spec == /\ Init /\ [][Next]_vars /\ WF_vars(Loop)
        /\ SF_vars(ReadPower /\ PowerAnswered)
        /\ SF_vars(ReadMode /\ ModeAnswered)
        /\ SF_vars(CorrectPower /\ currentPW # setPW /\ ~unheard')
        /\ SF_vars(SetPowerAgain /\ ~unheard')
        /\ SF_vars(SetRange /\ range' = turn)
-----------------------------------------------------------------------------
TypeOK ==
  /\ pc \in {"ReadPower", "ReadMode", "ReadTemperatureK", "UpdateMysql",
             "fuse", "power", "mode", "MOUT", "RANGE", "hangs", "dead"}
  /\ currentPW \in Int /\ currentMode \in Int
  /\ setPW \in Int /\ setMode \in Int
  /\ fuse \in BOOLEAN /\ WatchdogFuse \in BOOLEAN
  /\ turn \in Ranges /\ range \in Ranges
  /\ mout \in 0 .. 100 /\ unheard \in BOOLEAN

(* A heater that is switched on, or over, has the power the row asks for,  *)
(* not one left over from before, if only it heard the last MOUT (the      *)
(* power is set again before the range); and a blown fuse switches nothing *)
(* on.                                                                     *)
SwitchedOnAtRowPower ==
  [][range' \notin {range, 0} => fuse /\ (mout = InBounds(setPW) \/ unheard)]_vars

(* In a pass that tries again, whatever was garbled or unheard before, the *)
(* heater comes to what the row asks for and stays there.                  *)
Running == pc \notin {"hangs", "dead"}

HeaterObeysRow ==
  \A p \in Powers, m \in Modes :
    <>[](Running /\ fuse /\ setPW \in {p, InBounds(p)} /\ setMode = m) =>
      <>[](IF m \in Ranges \ {0} THEN range = m /\ mout = InBounds(p)
                                 ELSE range = 0)

(* A fuse that stays blown turns the heater off, whatever the row asks for *)
(* and whatever the drone believes the heater does.                        *)
FuseTurnsHeaterOff == <>[](Running /\ ~fuse) => <>[](range = 0)
=============================================================================
