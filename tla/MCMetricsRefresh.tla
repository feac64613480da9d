-------------------------- MODULE MCMetricsRefresh --------------------------
(* Small instances of MetricsRefresh for TLC.                              *)
EXTENDS MetricsRefresh

CONSTANTS p1, p2
=============================================================================
