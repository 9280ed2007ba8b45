--------------------------- MODULE MCClientDriver ---------------------------
(***************************************************************************)
(* Packets for TLC: two vertices that start, finish and turn out cached in *)
(* packets of their own, and pieces of log.                                *)
(***************************************************************************)
EXTENDS ClientDriver

V(d, started, completed, cached) ==
    [digest |-> d, started |-> started, completed |-> completed, cached |-> cached]

MCPackets ==
    {[vertexes |-> <<V("toolchain", 1, 0, FALSE)>>, logs |-> <<>>],
     [vertexes |-> <<V("compile", 0, 0, FALSE), V("toolchain", 2, 3, FALSE)>>,
      logs |-> <<"a">>],
     [vertexes |-> <<V("compile", 4, 5, TRUE)>>, logs |-> <<"b", "a">>],
     [vertexes |-> <<V("compile", 0, 6, FALSE)>>, logs |-> <<>>]}
=============================================================================
