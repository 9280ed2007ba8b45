---------------------------- MODULE ClientDriver ----------------------------
(***************************************************************************)
(* kbuild.Build and kbuild.Prune (client.go): what a call acquires and     *)
(* gives back on each of its ways out, and the goroutine that collects the *)
(* status of the solve from an unbuffered channel.                         *)
(*                                                                         *)
(* The daemon is external: c.Build sends status packets and closes the     *)
(* channel when it returns; c.Prune sends usage records and leaves the     *)
(* channel open.                                                           *)
(***************************************************************************)
EXTENDS Integers, Sequences

CONSTANTS
    Packets,       \* status packets: [vertexes, logs], both sequences
    MaxPackets     \* how many of them a solve sends

\* A vertex as an update reports it; a time that is not known is 0.
Vertex == [digest : STRING, started : Nat, completed : Nat, cached : BOOLEAN]

ASSUME DriverAssumption ==
    /\ MaxPackets \in Nat
    /\ \A p \in Packets :
          /\ p = [vertexes |-> p.vertexes, logs |-> p.logs]
          /\ p.logs \in Seq(STRING) /\ p.vertexes \in Seq(Vertex)

VARIABLES
    call,          \* what is called: [op, image, traced]
    pc,            \* the caller's goroutine
    result,        \* what the call returns: "", "error" or "ok"
    defers,        \* the deferred functions, the last to run first
    helper,        \* the staged helper: "none", "empty" or "staged"
    span,          \* the trace span: "none", "open" or "ended"
    conn,          \* the connection: "none", "open" or "closed"
    chan,          \* the channel: "none", "open" or "closed"
    daemon,        \* c.Build or c.Prune: "idle", "running", "ok" or "failed"
    reader,        \* the goroutine: "none", "recv", "busy" or "gone"
    packet,        \* the packet the goroutine holds
    seen,          \* the vertices collected, in the order they came up
    logs,          \* the log collected
    report,        \* what BuildResult holds: [vertices, logs], or nothing
    sent           \* what the daemon has sent: [count, vertexes, logs]

vars == <<call, pc, result, defers, helper, span, conn, chan, daemon, reader,
          packet, seen, logs, report, sent>>
held == <<defers, helper, span, conn>>
collected == <<reader, packet, seen, logs, report, sent>>

NoPacket == [vertexes |-> <<>>, logs |-> <<>>]
NoReport == [made |-> FALSE, vertices |-> <<>>, logs |-> <<>>]

Init ==
    /\ call \in [op : {"build", "prune"}, image : BOOLEAN, traced : BOOLEAN]
    /\ pc = IF call.op = "build" THEN "check" ELSE "dial"
    /\ result = ""
    /\ defers = <<>>
    /\ helper = "none" /\ span = "none" /\ conn = "none" /\ chan = "none"
    /\ daemon = "idle"
    /\ reader = "none"
    /\ packet = NoPacket
    /\ seen = <<>>
    /\ logs = <<>>
    /\ report = NoReport
    /\ sent = [count |-> 0, vertexes |-> <<>>, logs |-> <<>>]

Goto(l) == pc' = l /\ UNCHANGED result
ReturnErr == pc' = "unwind" /\ result' = "error"

-----------------------------------------------------------------------------
(***************************************************************************)
(* The way to the solve.                                                   *)
(***************************************************************************)
\* Seed settings, Spec and context; Frontend models what they look at.
Check ==
    /\ pc = "check"
    /\ Goto(IF call.image THEN "trace" ELSE "stage") \/ ReturnErr
    /\ UNCHANGED <<call, held, chan, daemon, collected>>

\* stageHelper: the binary is missing or not for linux/amd64, there is no
\* temporary directory, or one has been made.
MakeHelperDir ==
    /\ pc = "stage"
    /\ \/ ReturnErr /\ UNCHANGED helper
       \/ Goto("write") /\ helper' = "empty"
    /\ UNCHANGED <<call, defers, span, conn, chan, daemon, collected>>

\* Mutant of WriteHelper: a failed write leaves the directory behind.
WriteHelper_Leak ==
    /\ pc = "write"
    /\ \/ ReturnErr /\ UNCHANGED <<helper, defers>>
       \/ /\ Goto("trace")
          /\ helper' = "staged"
          /\ defers' = Append(defers, "helper")
    /\ UNCHANGED <<call, span, conn, chan, daemon, collected>>

WriteHelper ==
    /\ pc = "write"
    /\ \/ ReturnErr /\ helper' = "none" /\ UNCHANGED defers
       \/ /\ Goto("trace")
          /\ helper' = "staged"
          /\ defers' = Append(defers, "helper")
    /\ UNCHANGED <<call, span, conn, chan, daemon, collected>>

StartSpan ==
    /\ pc = "trace"
    /\ Goto("dial")
    /\ IF call.traced
       THEN span' = "open" /\ defers' = Append(defers, "span")
       ELSE UNCHANGED <<span, defers>>
    /\ UNCHANGED <<call, helper, conn, chan, daemon, collected>>

Dial ==
    /\ pc = "dial"
    /\ \/ ReturnErr /\ UNCHANGED <<conn, defers>>
       \/ /\ Goto(IF call.op = "build" THEN "attach" ELSE "solve")
          /\ conn' = "open"
          /\ defers' = Append(defers, "conn")
    /\ UNCHANGED <<call, helper, span, chan, daemon, collected>>

\* Local mounts, the seed's credentials and the cache entries.
Attach ==
    /\ pc = "attach"
    /\ Goto("solve") \/ ReturnErr
    /\ UNCHANGED <<call, held, chan, daemon, collected>>

\* The channel, the goroutine, and the call to the daemon.
Solve ==
    /\ pc = "solve"
    /\ Goto("called")
    /\ chan' = "open"
    /\ reader' = "recv"
    /\ daemon' = "running"
    /\ UNCHANGED <<call, held, packet, seen, logs, report, sent>>

-----------------------------------------------------------------------------
(***************************************************************************)
(* The daemon's client, external.                                          *)
(***************************************************************************)
\* An unbuffered channel: a send takes place when the goroutine receives.
Send ==
    /\ daemon = "running" /\ chan = "open" /\ reader = "recv"
    /\ sent.count < MaxPackets
    /\ \E p \in Packets :
          /\ packet' = p
          /\ sent' = [count |-> sent.count + 1,
                      vertexes |-> sent.vertexes \o p.vertexes,
                      logs |-> sent.logs \o p.logs]
    /\ reader' = IF call.op = "build" THEN "busy" ELSE "recv"
    /\ UNCHANGED <<call, pc, result, held, chan, daemon, seen, logs, report>>

\* The solve or the prune ends, with or without an error.
DaemonReturns ==
    /\ daemon = "running"
    /\ daemon' \in {"ok", "failed"}
    /\ chan' = IF call.op = "build" THEN "closed" ELSE chan
    /\ UNCHANGED <<call, pc, result, held, collected>>

-----------------------------------------------------------------------------
(***************************************************************************)
(* The goroutine: for st := range ch { ... }.                              *)
(***************************************************************************)
Position(d) == CHOOSE i \in 1..Len(seen) : seen[i].digest = d

Known(d) == \E i \in 1..Len(seen) : seen[i].digest = d

\* A later time replaces an earlier one, "cached" stays once it was said.
Merge(e, v) ==
    [digest    |-> e.digest,
     started   |-> IF v.started # 0 THEN v.started ELSE e.started,
     completed |-> IF v.completed # 0 THEN v.completed ELSE e.completed,
     cached    |-> e.cached \/ v.cached]

Collect(v) ==
    IF Known(v.digest)
    THEN [seen EXCEPT ![Position(v.digest)] = Merge(@, v)]
    ELSE Append(seen, v)

TakeVertex ==
    /\ reader = "busy"
    /\ packet.vertexes # <<>>
    /\ seen' = Collect(Head(packet.vertexes))
    /\ packet' = [packet EXCEPT !.vertexes = Tail(@)]
    /\ UNCHANGED <<call, pc, result, held, chan, daemon, reader, logs, report, sent>>

\* Once the vertices are taken, the log is written and the packet done.
TakeLogs ==
    /\ reader = "busy"
    /\ packet.vertexes = <<>>
    /\ logs' = logs \o packet.logs
    /\ packet' = NoPacket
    /\ reader' = "recv"
    /\ UNCHANGED <<call, pc, result, held, chan, daemon, seen, report, sent>>

\* The range ends with the channel; the deferred close(done) follows.
ReaderEnds ==
    /\ reader = "recv" /\ chan = "closed"
    /\ reader' = "gone"
    /\ UNCHANGED <<call, pc, result, held, chan, daemon, packet, seen, logs, report,
                   sent>>

-----------------------------------------------------------------------------
(***************************************************************************)
(* The way back.                                                           *)
(***************************************************************************)
\* Mutant of Returned: Prune leaves the channel to the daemon.
Returned_Open ==
    /\ pc = "called" /\ daemon \in {"ok", "failed"}
    /\ Goto("wait")
    /\ UNCHANGED <<call, held, chan, daemon, collected>>

\* Prune closes its channel itself.
Returned ==
    /\ pc = "called" /\ daemon \in {"ok", "failed"}
    /\ Goto("wait")
    /\ chan' = IF call.op = "prune" THEN "closed" ELSE chan
    /\ UNCHANGED <<call, held, daemon, collected>>

\* Mutant of Wait: the results are read while the goroutine may still run.
Wait_Not ==
    /\ pc = "wait"
    /\ pc' = "unwind"
    /\ result' = IF daemon = "ok" THEN "ok" ELSE "error"
    /\ report' = IF call.op = "build"
                 THEN [made |-> TRUE, vertices |-> seen, logs |-> logs] ELSE report
    /\ UNCHANGED <<call, held, chan, daemon, reader, packet, seen, logs, sent>>

\* <-done, then the result is put together, for a failed solve too.
Wait ==
    /\ pc = "wait"
    /\ reader = "gone"
    /\ pc' = "unwind"
    /\ result' = IF daemon = "ok" THEN "ok" ELSE "error"
    /\ report' = IF call.op = "build"
                 THEN [made |-> TRUE, vertices |-> seen, logs |-> logs] ELSE report
    /\ UNCHANGED <<call, held, chan, daemon, reader, packet, seen, logs, sent>>

\* The deferred functions run, the last first.
Unwind ==
    /\ pc = "unwind" /\ defers # <<>>
    /\ LET d == defers[Len(defers)]
       IN  /\ helper' = IF d = "helper" THEN "none" ELSE helper
           /\ span' = IF d = "span" THEN "ended" ELSE span
           /\ conn' = IF d = "conn" THEN "closed" ELSE conn
    /\ defers' = SubSeq(defers, 1, Len(defers) - 1)
    /\ UNCHANGED <<call, pc, result, chan, daemon, collected>>

Return ==
    /\ pc = "unwind" /\ defers = <<>>
    /\ Goto("returned")
    /\ UNCHANGED <<call, held, chan, daemon, collected>>

Caller ==
    \/ Check \/ MakeHelperDir \/ WriteHelper \/ StartSpan \/ Dial \/ Attach
    \/ Solve \/ Returned \/ Wait \/ Unwind \/ Return

Goroutine == TakeVertex \/ TakeLogs \/ ReaderEnds

Idle == pc = "returned" /\ UNCHANGED vars

Next == Caller \/ Goroutine \/ Send \/ DaemonReturns \/ Idle

\* Goroutines are scheduled, and the daemon's client returns in the end.
Spec == Init /\ [][Next]_vars
             /\ WF_vars(Caller) /\ WF_vars(Goroutine) /\ WF_vars(DaemonReturns)

-----------------------------------------------------------------------------
(***************************************************************************)
(* Properties.                                                             *)
(***************************************************************************)
\* Whichever way a call returns, it leaves no temporary directory, no open
\* span, connection or channel and no goroutine behind; and while the daemon
\* serves it, the helper it may ask for and the connection are there.
NothingLeft ==
    /\ pc = "returned" =>
          /\ helper = "none" /\ span # "open" /\ conn # "open"
          /\ chan # "open" /\ reader \in {"none", "gone"}
    /\ daemon = "running" =>
          /\ conn = "open"
          /\ (call.op = "build" /\ ~call.image) => helper = "staged"

\* The indices of the updates of vertex d among those of us, and the last of
\* a set of indices, 0 if there is none.
Updates(us, d) == {i \in 1..Len(us) : us[i].digest = d}
Last(is) == IF is = {} THEN 0 ELSE CHOOSE i \in is : \A j \in is : j <= i
First(is) == CHOOSE i \in is : \A j \in is : i <= j

\* The last time known of vertex d, in field f of its updates.
LastTime(us, d, f) ==
    LET i == Last({k \in Updates(us, d) : us[k][f] # 0})
    IN  IF i = 0 THEN 0 ELSE us[i][f]

\* The vertices vs sum up the updates us: every vertex once, in the order of
\* its first mention, with its last known times, cached if ever said so.
SumsUp(vs, us) ==
    /\ {vs[i].digest : i \in 1..Len(vs)} = {us[i].digest : i \in 1..Len(us)}
    /\ \A i, j \in 1..Len(vs) : i < j =>
          First(Updates(us, vs[i].digest)) < First(Updates(us, vs[j].digest))
    /\ \A i \in 1..Len(vs) :
          /\ vs[i].started = LastTime(us, vs[i].digest, "started")
          /\ vs[i].completed = LastTime(us, vs[i].digest, "completed")
          /\ vs[i].cached <=> \E k \in Updates(us, vs[i].digest) : us[k].cached

\* The report of a build, failed or not, is the whole transcript: every log
\* chunk in order, and all that was said of every vertex.
TranscriptWhole ==
    report.made => report.logs = sent.logs /\ SumsUp(report.vertices, sent.vertexes)

\* Every call returns once the daemon has: nobody waits for a channel that
\* is never closed or a packet nobody takes.
BuildReturns == <>(pc = "returned")

-----------------------------------------------------------------------------
(***************************************************************************)
(* The inductive invariants.                                               *)
(***************************************************************************)
Deferred(d) == \E i \in 1..Len(defers) : defers[i] = d

\* What is held, and that its release is on the stack of deferred functions,
\* once.
HeldInv ==
    /\ defers \in Seq({"helper", "span", "conn"})
    /\ \A i, j \in 1..Len(defers) : defers[i] = defers[j] => i = j
    /\ Deferred("helper") <=> helper = "staged"
    /\ helper # "staged" => helper = IF pc = "write" THEN "empty" ELSE "none"
    /\ Deferred("span") <=> span = "open"
    /\ Deferred("conn") <=> conn = "open"

\* Where the caller is, and what it has by then.
CallerInv ==
    /\ pc \in {"check", "stage", "write", "trace", "dial", "attach", "solve",
               "called", "wait", "unwind", "returned"}
    /\ pc \in {"check", "stage", "write", "returned"} => defers = <<>>
    /\ pc \in {"check", "stage", "write", "trace"} => span = "none"
    /\ pc \in {"check", "stage", "write", "trace", "dial"} => conn = "none"
    /\ pc \in {"attach", "solve", "called", "wait"} => conn = "open"
    /\ (/\ pc \in {"trace", "dial", "attach", "solve", "called", "wait"}
        /\ call.op = "build" /\ ~call.image) => helper = "staged"

\* The channel and its two ends.
ChannelInv ==
    /\ call.op \in {"build", "prune"}
    /\ daemon = "running" => pc = "called" /\ chan = "open"
    /\ reader = "none" <=> chan = "none"
    /\ reader \in {"none", "recv", "busy", "gone"}
    /\ reader = "gone" => chan = "closed"
    /\ reader = "busy" => call.op = "build"
    /\ pc \in {"check", "stage", "write", "trace", "dial", "attach", "solve"} =>
          chan = "none"
    /\ pc = "called" => chan \in {"open", "closed"}
    /\ (pc = "called" /\ daemon # "running" /\ call.op = "build") => chan = "closed"
    /\ pc = "wait" => chan = "closed"
    /\ pc \in {"unwind", "returned"} => reader \in {"none", "gone"}

\* Whatever is held has its release on the stack, and the goroutine is there
\* exactly as long as its channel is open.
DriverInv == HeldInv /\ CallerInv /\ ChannelInv

\* The updates sent, up to those still in the reader's hands.
Taken == SubSeq(sent.vertexes, 1, Len(sent.vertexes) - Len(packet.vertexes))

\* What is collected sums up what was sent, less what is still in hand.
TranscriptInv ==
    /\ seen \in Seq(Vertex) /\ logs \in Seq(STRING)
    /\ packet.logs \in Seq(STRING) /\ packet.vertexes \in Seq(Vertex)
    /\ packet = [vertexes |-> packet.vertexes, logs |-> packet.logs]
    /\ sent.vertexes \in Seq(Vertex)
    /\ call.op = "build" =>
          /\ reader # "busy" => packet = NoPacket
          /\ sent.logs = logs \o packet.logs
          /\ Len(packet.vertexes) <= Len(sent.vertexes)
          /\ sent.vertexes = Taken \o packet.vertexes
          /\ SumsUp(seen, Taken)
    /\ report.made =>
          /\ call.op = "build" /\ reader = "gone"
          /\ report = [made |-> TRUE, vertices |-> seen, logs |-> logs]
=============================================================================
