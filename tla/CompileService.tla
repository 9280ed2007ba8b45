--------------------------- MODULE CompileService ---------------------------
(***************************************************************************)
(* What the compile step promises to BuildKit and to the other workers.    *)
(* Whatever a mount, the store and the source server have been through, a  *)
(* request is answered with what its own inputs determine, or fails, or is *)
(* aborted; the store only ever takes over the tree of a request that can  *)
(* be answered, and a build that publishes has published when it answers.  *)
(***************************************************************************)
CONSTANTS
    Mounts,       \* where builds run, one at a time on each
    Requests,
    Publishers,   \* the requests whose tree goes to the store
    Answers,      \* Answers[r]: the artifacts r may be answered with
    StampOf,      \* StampOf[r]: the identity of the tree r builds in
    None

VARIABLES
    build,        \* build[m]: the build on m, its state, request and answer
    published     \* the identity of the tree in the store, if there is one

vars == <<build, published>>

Free == [state |-> "idle", req |-> None, out |-> None]

Init == build = [m \in Mounts |-> Free]

Becomes(m, state) == build' = [build EXCEPT ![m].state = state]

\* A build starts, or is refused because it cannot do what it was asked.
Accept(m, r) ==
    /\ build[m] = Free
    /\ \E state \in {"running"} \union (IF Answers[r] = {} THEN {"failed"} ELSE {}) :
          build' = [build EXCEPT ![m] = [Free EXCEPT !.state = state, !.req = r]]
    /\ UNCHANGED published

Publish(m) ==
    /\ build[m].state = "running"
    /\ build[m].req \in Publishers
    /\ Answers[build[m].req] # {}
    /\ published' = {StampOf[build[m].req]}
    /\ Becomes(m, "published")

Answer(m) ==
    LET r == build[m].req
    IN  /\ build[m].state = IF r \in Publishers THEN "published" ELSE "running"
        /\ \E a \in Answers[r] :
              build' = [build EXCEPT ![m].state = "done", ![m].out = a]
        /\ UNCHANGED published

Fail(m) ==
    /\ build[m].state = "running"
    /\ Becomes(m, "failed")
    /\ UNCHANGED published

\* The answer or the error is taken, or the build is aborted.
Release(m) ==
    /\ build[m] # Free
    /\ build' = [build EXCEPT ![m] = Free]
    /\ UNCHANGED published

Next ==
    \E m \in Mounts :
        \/ \E r \in Requests : Accept(m, r)
        \/ Publish(m)
        \/ Answer(m)
        \/ Fail(m)
        \/ Release(m)

Spec == Init /\ [][Next]_vars
=============================================================================
