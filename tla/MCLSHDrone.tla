----------------------------- MODULE MCLSHDrone -----------------------------
(* Values for LSHDrone: powers below, within and above the heater's range, *)
(* and the ranges off, low, and one the heater does not have.              *)
EXTENDS LSHDrone

MCPowers == {-1, 0, 101}
MCModes == {0, 1, 3}
=============================================================================
