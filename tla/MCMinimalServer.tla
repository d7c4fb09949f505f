--------------------------- MODULE MCMinimalServer ---------------------------
(***************************************************************************)
(* MinimalServer for TLC: three invocations, so a killed or failed run can *)
(* be followed by one that finds its leftovers, and that by another.       *)
(***************************************************************************)
EXTENDS MinimalServer

MCMaxRuns == 3

=============================================================================
