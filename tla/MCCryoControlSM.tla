--------------------------- MODULE MCCryoControlSM ---------------------------
(* Values for the runs of CryoControlSM: a few readings with every kind of  *)
(* output for the safety runs, and every threshold of StateDecision with    *)
(* its neighbours for the decision runs.                                    *)
EXTENDS CryoControlSM

\* One reading in each band: cold, near 220 K, room temperature, too hot.
SafetySetTemps == {150, 230}
SafetyTemps == {150, 200, 230, 325}
SafetyLSHTemps == {5, 325}
SafetyUninit == {NaN, 7, -7}
SafetyRows == {[HeaterPW |-> 1, CCPower |-> 0,
                CCPowerState |-> on, SRSPowerState |-> TRUE] : on \in BOOLEAN}

DecisionSetTemps == {150, 209, 210, 215, 219, 220, 221, 223, 230, 295, 299, 305}
DecisionTemps == {150, 205, 209, 210, 215, 219, 220, 221, 222, 225, 230, 231,
                  284, 289, 290, 297, 300, 301, 305}
DecisionRows == {[HeaterPW |-> 0, CCPower |-> 0,
                  CCPowerState |-> FALSE, SRSPowerState |-> FALSE]}
=============================================================================
