---------------------------- MODULE MCServerStream ----------------------------
(* Small instances of ServerStream.                                        *)
EXTENDS ServerStream
===============================================================================
