----------------------------- MODULE ControlRow -----------------------------
(***************************************************************************)
(* What the state machine process promises about the four output columns   *)
(* of the row of ControlParameters that the drones obey.  A sweep decides  *)
(* on one whole setting; the next sweep writes it, a column at a time and  *)
(* always in the same order, and a new setting is decided on only when the *)
(* last one is written in full.  So the row never mixes columns of more    *)
(* than two consecutive settings, and a restart writes "everything off"    *)
(* before anything else.  While a drone is silent the decision is "off".   *)
(***************************************************************************)
EXTENDS Integers

CONSTANTS HeatMax, BoostMax,    \* limits of the controllers: 75 and 120
          PMins,                \* minimum cooler powers the cooler reports
          InitRows,             \* rows the first process may find
          Junk                  \* values of an uninitialised output that no
                                \* clamp changes: NaN, or none

VARIABLES row,                  \* [HeaterPW, CCPower, CCPowerState, SRSPowerState]
          target,               \* the setting decided on
          pending,              \* its columns that are not written yet
          silent                \* input: the last row of a drone, as the
                                \* sweep has read it, is older than 60 s

Columns == {"HeaterPW", "CCPower", "CCPowerState", "SRSPowerState"}

(* The order of the UPDATE statements. *)
Rank == [HeaterPW |-> 1, CCPower |-> 2, CCPowerState |-> 3, SRSPowerState |-> 4]

Off == [HeaterPW |-> 0, CCPower |-> 0,
        CCPowerState |-> FALSE, SRSPowerState |-> FALSE]

Heats == (0 .. HeatMax) \cup Junk

(* The power supply is on only while the cooler is, and the cooler is      *)
(* driven above its minimum only with the supply on and the heater off.    *)
Settings ==
  {s \in [HeaterPW : Heats, CCPower : 0 .. BoostMax,
          CCPowerState : BOOLEAN, SRSPowerState : BOOLEAN] :
     /\ s.SRSPowerState => s.CCPowerState
     /\ s.CCPower > 0 => s.SRSPowerState /\ s.HeaterPW = 0}

Init == row \in InitRows /\ target = Off /\ pending = Columns

Decide == /\ pending = {}
          /\ target' \in Settings /\ (silent => target' = Off)
          /\ pending' = Columns
          /\ UNCHANGED row

(* The cooler's power is written as an excess over its minimum. *)
Write(c) == /\ c \in pending /\ \A e \in pending : Rank[c] <= Rank[e]
            /\ pending' = pending \ {c}
            /\ IF c = "CCPower"
               THEN \E pmin \in PMins :
                      row' = [row EXCEPT !.CCPower = target.CCPower + pmin]
               ELSE row' = [row EXCEPT ![c] = target[c]]
            /\ UNCHANGED target

Restart == target' = Off /\ pending' = Columns /\ UNCHANGED row

Next == Decide \/ Restart \/ \E c \in Columns : Write(c)

Spec == Init /\ [][Next]_<<row, target, pending>>
=============================================================================
