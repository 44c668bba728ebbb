--------------------------- MODULE MCClientServer ---------------------------
(***************************************************************************)
(* ClientServer for TLC.                                                   *)
(***************************************************************************)
EXTENDS ClientServer

CONSTANT c1

MCMoments == {"0001-01-01"}
MCSecond == [t \in MCMoments |-> t]
NoAnswers == {}
=============================================================================
