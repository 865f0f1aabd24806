---------------------------- MODULE MCClientPhases ----------------------------
(* Small instances of ClientPhases.                                        *)
EXTENDS ClientPhases
===============================================================================
