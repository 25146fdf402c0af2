------------------------------ MODULE MCCCDrone ------------------------------
(* Values for CCDrone: two reports of limits that do not overlap, one with  *)
(* a fraction of a watt, and powers below both and between them.          *)
EXTENDS CCDrone

MCPowers == {-1, 4}
MCReports == {<<25, 30>>, <<60, 70>>}
LiveReports == {<<30, 70>>}
=============================================================================
