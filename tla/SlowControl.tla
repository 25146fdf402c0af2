----------------------------- MODULE SlowControl -----------------------------
(***************************************************************************)
(* The processes of the slow control together: the state machine process   *)
(* as ControlRow promises it, the drones of cooler and heater, and the     *)
(* database through which alone they know of each other.  A drone that is  *)
(* stuck or dead inserts no rows; the state machine sees it by the age of  *)
(* its last row, and takes the other drone's device off through the row.   *)
(*                                                                         *)
(* A drone is as its own module shows it (SwitchObeyed, HeaterObeysRow):   *)
(* its device takes what the drone last read, some passes later, and comes *)
(* to it if that stays.  Of the row, the drones read the column given by   *)
(* Column.  Time is the event that a row has become older than 60 s.       *)
(***************************************************************************)
EXTENDS Integers

CONSTANTS HeatMax, BoostMax, PMins, InitRows, Junk      \* as in ControlRow

VARIABLES row, target, pending, \* as in ControlRow
          smUp,                 \* the state machine process lives
          selected,             \* its sweep has read the last rows
          seen,                 \* drones whose row, as read, is too old
          old,                  \* drones whose last row is too old
          decided,              \* a decision was made since a row got too old
          drone,                \* each drone: live, stuck or dead
          asked,                \* what each drone last read from the row
          device                \* what each device is set to

sm     == <<row, target, pending>>
sweep  == <<smUp, selected, seen, decided>>
drones == <<drone, asked, device>>
vars   == <<sm, sweep, old, drones>>

Drones == {"CC", "LSH"}

SilenceOfHeater == "LSH" \in seen      \* variant: the age of one row only
SilenceOfBoth == seen = Drones         \* variant: "and" where "or" is meant

(* What the decision makes of the ages of the two rows. *)
Silence == seen # {}

SM == INSTANCE ControlRow WITH silent <- Silence

Rows == [HeaterPW : SM!Heats, CCPower : Int,
         CCPowerState : BOOLEAN, SRSPowerState : BOOLEAN]

ASSUME SlowControlAssumption ==
  /\ HeatMax \in Nat /\ BoostMax \in Nat
  /\ PMins \subseteq Int /\ InitRows \subseteq Rows

Devices == [CC : BOOLEAN, LSH : SM!Heats]
ColumnShifted == [CC |-> "CCPowerState", LSH |-> "CCPower"]
                                       \* variant: fetched by a wrong index
Column == [CC |-> "CCPowerState", LSH |-> "HeaterPW"]

Init == /\ SM!Init
        /\ smUp = FALSE /\ selected = FALSE /\ seen = {}
        /\ old \in SUBSET Drones /\ decided = FALSE
        /\ drone = [d \in Drones |-> "live"]
        /\ \E r \in InitRows : device = [CC |-> r.CCPowerState, LSH |-> r.HeaterPW]
        /\ asked = device
-----------------------------------------------------------------------------
(* A sweep of the state machine: UpdateVars reads the times of the last    *)
(* rows and writes the last decision, then the clock is read and a new     *)
(* decision made.                                                          *)
Select ==
  /\ smUp /\ ~selected
  /\ selected' = TRUE /\ seen' = old
  /\ UNCHANGED <<sm, smUp, decided, old, drones>>

Publish ==
  /\ smUp /\ selected
  /\ \E c \in pending : SM!Write(c)
  /\ UNCHANGED <<sweep, old, drones>>

(* Fault is the decision for everything off. *)
Decide ==
  /\ smUp /\ selected /\ SM!Decide
  /\ selected' = FALSE /\ seen' = {} /\ decided' = (old # {})
  /\ UNCHANGED <<smUp, old, drones>>

CrashSM ==
  /\ smUp /\ SM!Restart
  /\ smUp' = FALSE /\ selected' = FALSE /\ seen' = {}
  /\ UNCHANGED <<decided, old, drones>>

StartSM ==
  /\ ~smUp /\ smUp' = TRUE
  /\ UNCHANGED <<sm, selected, seen, decided, old, drones>>
-----------------------------------------------------------------------------
(* UpdateMysql of a drone, after polls that worked: the row is read, and a *)
(* row of readings inserted.                                               *)
Pass(d) ==
  /\ drone[d] = "live"
  /\ asked' = [asked EXCEPT ![d] = row[Column[d]]]
  /\ old' = old \ {d} /\ decided' = (decided /\ old' # {})
  /\ UNCHANGED <<sm, smUp, selected, seen, drone, device>>

ObeyUnlessOff(d) ==                    \* variant: the cooler only switches on
  /\ drone[d] = "live" /\ device[d] # asked[d] /\ (d = "CC" => asked.CC)
  /\ device' = [device EXCEPT ![d] = asked[d]]
  /\ UNCHANGED <<sm, sweep, old, drone, asked>>

(* PowerOnOff, SetPowerLevel. *)
Obey(d) ==
  /\ drone[d] = "live" /\ device[d] # asked[d]
  /\ device' = [device EXCEPT ![d] = asked[d]]
  /\ UNCHANGED <<sm, sweep, old, drone, asked>>

(* A read that blocks, or the branch that resets the link for ever. *)
Stick(d) ==
  /\ drone[d] = "live" /\ drone' = [drone EXCEPT ![d] = "stuck"]
  /\ UNCHANGED <<sm, sweep, old, asked, device>>

(* A blocked read that ends after all: the drone goes on with what it had  *)
(* read from the row before.                                               *)
Resume(d) ==
  /\ drone[d] = "stuck" /\ drone' = [drone EXCEPT ![d] = "live"]
  /\ UNCHANGED <<sm, sweep, old, asked, device>>

Die(d) ==
  /\ drone[d] # "dead" /\ drone' = [drone EXCEPT ![d] = "dead"]
  /\ UNCHANGED <<sm, sweep, old, asked, device>>

(* A drone that starts acts on nothing before it has read the row: the     *)
(* fields it starts with are those of its device.                          *)
StartDrone(d) ==
  /\ drone[d] = "dead" /\ drone' = [drone EXCEPT ![d] = "live"]
  /\ asked' = [asked EXCEPT ![d] = device[d]]
  /\ UNCHANGED <<sm, sweep, old, device>>

(* The last row of a drone, and with it the one a sweep may have read,     *)
(* becomes older than 60 s.  The row a sweep has read may do so alone.     *)
GrowOld(d) ==
  /\ d \notin old /\ old' = old \cup {d}
  /\ seen' = IF selected THEN seen \cup {d} ELSE seen
  /\ UNCHANGED <<sm, smUp, selected, decided, drones>>

SeenGrowsOld(d) ==
  /\ selected /\ d \notin seen /\ seen' = seen \cup {d}
  /\ UNCHANGED <<sm, smUp, selected, decided, old, drones>>
-----------------------------------------------------------------------------
Sweep == Select \/ Publish \/ Decide

Next == \/ Sweep \/ CrashSM \/ StartSM
        \/ \E d \in Drones : \/ Pass(d) \/ Obey(d) \/ Stick(d) \/ Resume(d)
                             \/ Die(d) \/ StartDrone(d)
                             \/ GrowOld(d) \/ SeenGrowsOld(d)

(* The loops go on while their processes live, and time passes.            *)
Spec == /\ Init /\ [][Next]_vars
        /\ WF_vars(Sweep)
        /\ \A d \in Drones : /\ WF_vars(Pass(d)) /\ WF_vars(Obey(d))
                             /\ WF_vars(drone[d] # "live" /\ GrowOld(d))
-----------------------------------------------------------------------------
TypeOK ==
  /\ row \in Rows
  /\ target \in SM!Settings /\ pending \subseteq SM!Columns
  /\ smUp \in BOOLEAN /\ selected \in BOOLEAN /\ decided \in BOOLEAN
  /\ seen \subseteq Drones /\ old \subseteq Drones
  /\ drone \in [Drones -> {"live", "stuck", "dead"}]
  /\ asked \in Devices /\ device \in Devices

(* From the first decision after a drone's last row has become too old,    *)
(* every column the state machine writes is off, until rows of both drones *)
(* are fresh again; so the row is off in full when that sweep has written, *)
(* whatever the drones do and however often the process dies in between.   *)
SilenceReachesRow ==
  decided /\ pending = {} =>
    /\ row.HeaterPW = 0 /\ ~row.CCPowerState /\ ~row.SRSPowerState
    /\ row.CCPower \in PMins

(* A cooler drone that is silent for good stops the heater, through the    *)
(* age of its rows, a decision, the row, and a pass of the heater's drone, *)
(* if only these two processes live on.                                    *)
SilentCoolerStopsHeater ==
  <>[](drone["CC"] # "live" /\ smUp /\ drone["LSH"] = "live") =>
    <>[](device["LSH"] = 0)

(* And the other way round. *)
SilentHeaterStopsCooler ==
  <>[](drone["LSH"] # "live" /\ smUp /\ drone["CC"] = "live") =>
    <>[](~device["CC"])
=============================================================================
