----------------------------- MODULE MCService ------------------------------
(* The seconds of the code. *)
EXTENDS Service

MCWaits == <<1, 2, 4, 8, 16, 30>>
=============================================================================
