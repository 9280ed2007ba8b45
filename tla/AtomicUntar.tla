---------------------------- MODULE AtomicUntar ----------------------------
(***************************************************************************)
(* What untarFiltered promises its callers: it either fails, or the        *)
(* directory holds what the entries say, in the order of the stream.       *)
(***************************************************************************)
EXTENDS TarTree

VARIABLES
    stream,       \* the stream being extracted
    tree,         \* the directory once the extraction is done
    outcome       \* "running", "done" or "failed"

Init == outcome = "running" /\ tree = None

Succeed ==
    /\ outcome = "running"
    /\ outcome' = "done"
    /\ tree' \in Serial(stream)
    /\ UNCHANGED stream

Fail ==
    /\ outcome = "running"
    /\ outcome' = "failed"
    /\ UNCHANGED <<stream, tree>>

Next == Succeed \/ Fail

Spec == Init /\ [][Next]_<<stream, tree, outcome>>
=============================================================================
