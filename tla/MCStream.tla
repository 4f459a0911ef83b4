------------------------------- MODULE MCStream -------------------------------
(* A small instance of Stream: two rounds, or one and a lost connection or  *)
(* restart.  One round has all the writes and frames of the instance; two   *)
(* share two, which is enough for what is left of the first to meet the     *)
(* second.                                                                  *)
EXTENDS Stream

MCBudget ==
  /\ round.begun + breaks <= 2
  /\ round.begun = 2 => round.writes + round.frames <= 2
=============================================================================
