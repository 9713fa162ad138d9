---------------------------- MODULE MCJobRunner ----------------------------
(* A small instance of JobRunner for TLC: one ticker, one stage.             *)
EXTENDS JobRunner
=============================================================================
