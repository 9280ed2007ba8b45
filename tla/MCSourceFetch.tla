--------------------------- MODULE MCSourceFetch ---------------------------
(***************************************************************************)
(* SourceFetch for TLC: two versions of different length, and servers that *)
(* ask for no delay, a short one or an absurd one.                         *)
(***************************************************************************)
EXTENDS SourceFetch

CONSTANTS v1, v2

MCSize == [v \in Versions |-> IF v = v1 THEN 2 ELSE 3]
=============================================================================
