----------------------------- MODULE FrameChannel -----------------------------
(***************************************************************************)
(* What a connection promises to the program that reads frames from it, in *)
(* either direction: the frames that were put on it come out once each and *)
(* in order, until bytes are lost; from then on anything may come out.     *)
(* ClientStream (server to client) and ServerStream (client to server)     *)
(* implement it.                                                           *)
(***************************************************************************)
EXTENDS Integers, Sequences

VARIABLES
  sent,    \* number of frames put on the connection, whole or not
  got,     \* what came out: numbers of frames, 0 for garbage
  intact   \* nothing was lost so far

vars == <<sent, got, intact>>

Init == sent = 0 /\ got = <<>> /\ intact = TRUE

Put == sent' = sent + 1 /\ UNCHANGED <<got, intact>>

HandNext ==
  /\ intact /\ Len(got) < sent
  /\ got' = Append(got, Len(got) + 1)
  /\ UNCHANGED <<sent, intact>>

Lose == intact' = FALSE /\ UNCHANGED <<sent, got>>

HandAny ==
  /\ intact' = FALSE
  /\ \E x \in 0..sent : got' = Append(got, x)
  /\ sent' = sent

\* The reader's place is taken by a new connection.
Reopen == sent' = 0 /\ got' = <<>> /\ intact' = TRUE

Next == Put \/ HandNext \/ Lose \/ HandAny \/ Reopen

Spec == Init /\ [][Next]_vars
===============================================================================
