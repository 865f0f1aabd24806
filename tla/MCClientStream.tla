---------------------------- MODULE MCClientStream ----------------------------
(* Small instances of ClientStream. *)
EXTENDS ClientStream
===============================================================================
