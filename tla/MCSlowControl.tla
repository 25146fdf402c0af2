---------------------------- MODULE MCSlowControl ----------------------------
(* Values for SlowControl: one power of the heater, none of the cooler's    *)
(* drive, and a first row that has everything on.                           *)
EXTENDS SlowControl

MCRows == {[HeaterPW |-> 1, CCPower |-> 2,
            CCPowerState |-> TRUE, SRSPowerState |-> TRUE]}
=============================================================================
