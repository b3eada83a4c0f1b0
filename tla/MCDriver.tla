-------------------------------- MODULE MCDriver --------------------------------
(* Short command lines of short files.                                        *)
EXTENDS DriverRules

TwoFiles == <<4, 2>>
=============================================================================
