----------------------------- MODULE MCDatabase -----------------------------
(* A small instance of Database for TLC.                                    *)
EXTENDS Database

CONSTANTS c1, c2, i1, i2, a
=============================================================================
