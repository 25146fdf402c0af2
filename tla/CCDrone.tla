------------------------------ MODULE CCDrone ------------------------------
(***************************************************************************)
(* The cryocooler's drone (CCDroneStart.cpp, Cryocooler.cpp): a loop that  *)
(* polls the cooler over its serial line, exchanges a row with the         *)
(* database, and passes on the row's power and its switch.  What an        *)
(* exchange may do is a constant: the cooler may keep silent (the first    *)
(* line is awaited for 5 s), answer what does not parse, or lose a later   *)
(* line, for which the drone waits without a limit.                        *)
(*                                                                         *)
(* Temperatures, the current power and the logs are left out; powers are   *)
(* tenths of a watt as the cooler reports them, watts as the drone asks.   *)
(***************************************************************************)
EXTENDS Integers

CONSTANTS Powers,               \* CCPower of the row, in watts
          Reports,              \* <<PMin, PMax>> the cooler reports, in tenths
          UninitStatus,         \* what Status may hold when main() starts
          Faults                \* of an exchange: "silent", "garbled", "lost"

ASSUME CCDroneAssumption ==
  /\ Powers \subseteq Int /\ Reports \subseteq Nat \X Nat
  /\ \A r \in Reports : r[1] <= r[2]
  /\ UninitStatus \subseteq Int
  /\ Faults \subseteq {"silent", "garbled", "lost"}

VARIABLES pc,                   \* where the loop is
          Status,               \* of the last poll; 0 is success
          numRefreshes,         \* modulo 30: every test is modulo 5 or 30
          isON, ControllerMode, PMin, PMax,
          newPowerState, newPower,      \* last read from the row
          running, pwout, pid,  \* the cooler: on, power asked of it, mode
          sinceSwitch           \* refreshes since the last switch command, to 30

program == <<Status, numRefreshes, isON, ControllerMode, PMin, PMax>>
wanted  == <<newPowerState, newPower>>
cooler  == <<running, pwout, pid>>
vars    == <<pc, program, wanted, cooler, sinceSwitch>>

Modes == {0, 2}         \* power control, and one of the modes of its own

(* The object as it is constructed.  Fields no constructor sets are read   *)
(* only after a poll or a row has set them.                                *)
Init == /\ pc = "loop" /\ Status \in UninitStatus
        /\ numRefreshes = 0
        /\ isON = FALSE /\ ControllerMode = 0 /\ PMin = 0 /\ PMax = 0
        /\ newPowerState = FALSE /\ newPower = 0
        /\ running \in BOOLEAN /\ pwout = 0 /\ pid \in Modes
        /\ sinceSwitch = 30
-----------------------------------------------------------------------------
(* Outcomes of an exchange: the drone goes on at "next", or the status is  *)
(* an error and the loop starts over, or a line never comes.               *)
Succeeds(next) == pc' = next /\ Status' = 0

Fails == /\ \/ "silent" \in Faults /\ Status' = -1
            \/ "garbled" \in Faults /\ Status' = -2
         /\ pc' = "loop"

Hangs == "lost" \in Faults /\ pc' = "hangs" /\ Status' = Status

GetTC == /\ pc = "loop" /\ Status = 0
         /\ Succeeds("GetP") \/ Fails \/ Hangs
         /\ UNCHANGED <<numRefreshes, isON, ControllerMode, PMin, PMax,
                        wanted, cooler, sinceSwitch>>

GetP == /\ pc = "GetP"
        /\ Succeeds("GetE") \/ Fails \/ Hangs
        /\ UNCHANGED <<numRefreshes, isON, ControllerMode, PMin, PMax,
                       wanted, cooler, sinceSwitch>>

GetEGoesOn ==                          \* variant: its result is not looked at
  /\ pc = "GetE" /\ pc' = "checkIfON" /\ Status' = Status
  /\ \E r \in Reports : PMax' \in {PMax, r[2]} /\ PMin' \in {PMin, r[1]}
  /\ UNCHANGED <<numRefreshes, isON, ControllerMode, wanted, cooler,
                 sinceSwitch>>

(* The maximum is set before the minimum, and both before the third value  *)
(* of the answer, each of which may fail to parse.                         *)
GetE ==
  /\ pc = "GetE"
  /\ \/ /\ Succeeds("checkIfON")
        /\ \E r \in Reports : PMin' = r[1] /\ PMax' = r[2]
     \/ (Fails \/ Hangs) /\ UNCHANGED <<PMin, PMax>>
     \/ /\ "garbled" \in Faults /\ Status' = -2 /\ pc' = "loop"
        /\ \E r \in Reports : PMax' = r[2] /\ PMin' \in {PMin, r[1]}
  /\ UNCHANGED <<numRefreshes, isON, ControllerMode, wanted, cooler,
                 sinceSwitch>>

(* An answer that does not parse is an exception here: Die. *)
checkIfON ==
  /\ pc = "checkIfON"
  /\ \/ Succeeds("UpdateMysql") /\ isON' = running
     \/ /\ "silent" \in Faults /\ Status' = -1 /\ pc' = "loop"
        /\ isON' = isON
     \/ Hangs /\ isON' = isON
  /\ UNCHANGED <<numRefreshes, ControllerMode, PMin, PMax, wanted, cooler,
                 sinceSwitch>>

Counted(n) == IF n < 30 THEN n + 1 ELSE 30

(* UpdateMysql, and the test of the count before it is incremented. *)
UpdateMysql ==
  /\ pc = "UpdateMysql"
  /\ newPowerState' \in BOOLEAN /\ newPower' \in Powers
  /\ numRefreshes' = (numRefreshes + 1) % 30
  /\ sinceSwitch' = Counted(sinceSwitch)
  /\ pc' = IF numRefreshes % 5 = 0 THEN "adjust" ELSE "mode"
  /\ UNCHANGED <<Status, isON, ControllerMode, PMin, PMax, cooler>>

SentBelowMax == IF 10 * newPower > PMax THEN PMax \div 10 ELSE newPower
                                       \* variant: not raised to the minimum

(* AdjustCryoPower: the limits are truncated to whole watts. *)
Sent == LET minP == PMin \div 10
            maxP == PMax \div 10
            raised == IF newPower > minP THEN newPower ELSE minP
        IN  IF raised > maxP THEN maxP ELSE raised

AdjustCryoPower ==
  /\ pc = "adjust"
  /\ pwout' = Sent
  /\ \/ pc' = "GetPIDState" /\ Status' = Status
     \/ Hangs
  /\ UNCHANGED <<numRefreshes, isON, ControllerMode, PMin, PMax, wanted,
                 running, pid, sinceSwitch>>

GetPIDStateSkipped ==                  \* variant: the mode is not polled
  /\ pc = "GetPIDState" /\ pc' = "mode"
  /\ UNCHANGED <<program, wanted, cooler, sinceSwitch>>

(* Its result is not looked at: a failure leaves the mode as it was. *)
GetPIDState ==
  /\ pc = "GetPIDState"
  /\ \/ pc' = "mode" /\ ControllerMode' = pid
     \/ Faults # {} /\ pc' \in {"mode"} \cup (IF "lost" \in Faults
                                             THEN {"hangs"} ELSE {})
        /\ ControllerMode' = ControllerMode
  /\ UNCHANGED <<Status, numRefreshes, isON, PMin, PMax, wanted, cooler,
                 sinceSwitch>>

DueWithPower == numRefreshes % 5 = 0   \* variant: checked as often as power
DueInPowerBlock == numRefreshes = 0 /\ numRefreshes % 5 = 1
                                       \* variant: the test inside that block

(* Mode and switch are looked at every 30 refreshes. *)
Due == numRefreshes = 0

SetCryoMode ==
  /\ pc = "mode"
  /\ \/ (ControllerMode = 0 \/ ~Due) /\ pc' = "power"
        /\ UNCHANGED <<ControllerMode, pid>>
     \/ /\ ControllerMode # 0 /\ Due
        /\ pid' = 0
        /\ \/ pc' = "power" /\ ControllerMode' = 0
           \/ Faults # {} /\ pc' = "power" /\ ControllerMode' = ControllerMode
           \/ "lost" \in Faults /\ pc' = "hangs"
              /\ ControllerMode' = ControllerMode
  /\ UNCHANGED <<Status, numRefreshes, isON, PMin, PMax, wanted, running,
                 pwout, sinceSwitch>>

(* PowerOnOff, and the power for a cooler that is on.  An answer to the    *)
(* order to start that does not parse is an exception: Die; one to the     *)
(* order to stop leaves an uninitialised status, so isON is anything.      *)
PowerOnOff ==
  /\ pc = "power"
  /\ \/ ~(newPowerState # isON /\ Due) /\ pc' = "loop"
        /\ UNCHANGED <<running, isON, pwout, sinceSwitch>>
     \/ /\ newPowerState # isON /\ Due
        /\ running' = newPowerState /\ sinceSwitch' = 0
        /\ \/ /\ pc' = "loop"
              /\ \/ isON' = running'
                 \/ "garbled" \in Faults /\ ~newPowerState /\ isON' \in BOOLEAN
              /\ pwout' = IF isON' THEN Sent ELSE pwout
           \/ "lost" \in Faults /\ pc' = "hangs" /\ UNCHANGED <<isON, pwout>>
  /\ UNCHANGED <<Status, numRefreshes, ControllerMode, PMin, PMax, wanted, pid>>

(* The other branch of the loop: the object is deleted and made anew.      *)
(* Status keeps the error.  The constructor waits for two lines.           *)
Reset ==
  /\ pc = "loop" /\ Status # 0
  /\ ControllerMode' = 0
  /\ pc' = "loop" \/ ("lost" \in Faults /\ pc' = "hangs")
  /\ UNCHANGED <<Status, numRefreshes, isON, PMin, PMax, wanted, cooler,
                 sinceSwitch>>
-----------------------------------------------------------------------------
(* The cooler's controller may leave the mode it was set to. *)
ModeLost == /\ pid' \in Modes \ {0}
            /\ UNCHANGED <<pc, program, wanted, running, pwout, sinceSwitch>>

(* An uncaught exception, of a conversion or of the database connector. *)
Die == /\ pc # "dead"
       /\ pc' = "dead"
       /\ UNCHANGED <<program, wanted, cooler, sinceSwitch>>

Start == /\ pc = "dead" /\ pc' = "loop"
         /\ Status' \in UninitStatus
         /\ numRefreshes' = 0
         /\ isON' = FALSE /\ ControllerMode' = 0 /\ PMin' = 0 /\ PMax' = 0
         /\ newPowerState' = FALSE /\ newPower' = 0
         /\ UNCHANGED <<cooler, sinceSwitch>>

Loop == \/ GetTC \/ GetP \/ GetE \/ checkIfON \/ UpdateMysql
        \/ AdjustCryoPower \/ GetPIDState \/ SetCryoMode \/ PowerOnOff
        \/ Reset

Next == Loop \/ ModeLost \/ Die \/ Start

(* The loop goes on as long as the process lives and no read waits; the    *)
(* question for the mode, asked again and again, is answered at last.      *)
Spec == /\ Init /\ [][Next]_vars /\ WF_vars(Loop)
        /\ SF_vars(GetPIDState /\ ControllerMode' = pid)
-----------------------------------------------------------------------------
TypeOK ==
  /\ pc \in {"loop", "GetP", "GetE", "checkIfON", "UpdateMysql", "adjust",
             "GetPIDState", "mode", "power", "hangs", "dead"}
  /\ Status \in UninitStatus \cup {0, -1, -2}
  /\ numRefreshes \in 0 .. 29
  /\ isON \in BOOLEAN /\ ControllerMode \in Modes
  /\ PMin \in Nat /\ PMax \in Nat
  /\ newPowerState \in BOOLEAN /\ newPower \in Powers \cup {0}
  /\ running \in BOOLEAN /\ pwout \in Nat /\ pid \in Modes
  /\ sinceSwitch \in 0 .. 30

(* "so as to not fry the cryocooler by turning it on and off too fast":    *)
(* between two switches lie 30 refreshes, a restart of the drone in        *)
(* between or not (the count is incremented before it is tested for the    *)
(* switch, so a drone that has just started does not switch).              *)
SwitchesAreSpaced == [][running' # running => sinceSwitch >= 30]_vars

(* The power asked of the cooler lies within one report of the cooler (to  *)
(* the watt its minimum is truncated to), never within a mixture of two:   *)
(* a poll that set the maximum and failed on the minimum, or on the answer *)
(* after them, is not used, whatever the row asks.                         *)
PowerWithinReport ==
  [][pwout' # pwout => \E r \in Reports :
                          10 * pwout' \in r[1] - 9 .. r[2]]_vars

(* While polls succeed and nothing else hangs, the cooler follows the      *)
(* switch of the row, once that stays: the poll that finds them different  *)
(* meets, in time, the refresh at which the switch is looked at, and a     *)
(* switch whose answer was garbled is looked at again.                     *)
Running == Status = 0 /\ pc \notin {"hangs", "dead"}

SwitchObeyed ==
  \A b \in BOOLEAN :
    <>[](Running /\ newPowerState = b) => <>[](running = b)

(* A cooler that has left power control is brought back, as soon as the    *)
(* two exchanges this takes, whose failures nobody looks at, have worked.  *)
ModeRestored == pid # 0 ~> pid = 0 \/ ~Running
-----------------------------------------------------------------------------
(* CCDroneStart.cpp:83-84: "The cryocooler has either stalled or crashed.  *)
(* Resetting the cryocooler communications."; "This will reset the serial  *)
(* link": the cooler is polled again, unless the process ends.             *)
StallIsRecovered == Status # 0 ~> Status = 0 \/ pc = "dead"
=============================================================================
