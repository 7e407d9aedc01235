---------------------------- MODULE MCAggregate ----------------------------
(***************************************************************************)
(* The script's two probes, and two signals, so that the second arrives    *)
(* while the first is being answered.                                      *)
(***************************************************************************)
EXTENDS Aggregate
=============================================================================
