----------------------------- MODULE UntarPool -----------------------------
(***************************************************************************)
(* untarFiltered and its write pool (cmd/kbuild-step/untarpool.go).  One   *)
(* reader goroutine walks the tar stream; small files are queued for the   *)
(* worker that owns their path, everything else is done inline, links and  *)
(* large files behind a flush of the pool.  Every file-system call is a    *)
(* step of its own, so that the calls of reader and workers interleave.    *)
(***************************************************************************)
EXTENDS TarTree, FiniteSets

CONSTANTS
    Workers,      \* the workers, one channel each
    Cap,          \* the capacity of a channel
    Streams,      \* the tar streams to extract
    FaultModes    \* whether calls may fail and streams break: TRUE, FALSE or both

ASSUME PoolAssumption ==
    /\ Cap \in Nat \ {0}
    /\ FaultModes \subseteq BOOLEAN
    /\ \A s \in Streams : s \in Seq(EntryType)
    \* Links point somewhere; a symbolic link to a name of the top directory,
    \* below which everything that is below another has a path too.
    /\ \A s \in Streams : \A k \in 1..Len(s) :
          /\ s[k].type \in {"sym", "link"} => s[k].to \in Paths
          /\ s[k].type = "sym" => Len(s[k].to) = 1
    /\ \A p \in Paths : p \in Seq(STRING) /\ Len(p) \in {1, 2} /\ Parent(p) \in Paths
    /\ \A p, q \in Paths : Len(p) = 1 /\ Len(q) = 2 => p \o SubSeq(q, 2, 2) \in Paths
    \* Nothing is not something.
    /\ None # Dir
    /\ \A p \in Paths : None # Sym(p)
    /\ \A s \in Streams : \A k \in 1..Len(s) : None # File(k)

VARIABLES
    faults,       \* whether calls may fail and the stream break for no reason
    stream,       \* the stream being extracted
    shard,        \* the path hash modulo the number of workers
    fs,           \* the directory
    data,         \* data[k]: what was written to the file of entry k
    reader,       \* the reader loop: pc, the current entry, its error
    queue,        \* queue[w]: the channel of worker w
    worker,       \* worker[w]: pc and the job in hand
    pending,      \* the WaitGroup of dispatched, unfinished jobs
    failed,       \* whether the pool has recorded an error
    free,         \* the write buffers in the sync.Pool
    buf           \* buf[b]: the entry whose content buffer b holds

vars == <<faults, stream, shard, fs, data, reader, queue, worker, pending,
          failed, free, buf>>
input == <<faults, stream, shard>>    \* fixed for an extraction
poolVars == <<queue, worker, pending, failed, free, buf>>

Entries == 1..Len(stream)
Bufs == Entries    \* never more than one per entry: sync.Pool makes new ones

Idle == [pc |-> "idle", job |-> None]

Init ==
    /\ faults \in FaultModes
    /\ stream \in Streams
    /\ shard \in [{stream[k].path : k \in {i \in Entries : stream[i].type = "file"}}
                  -> Workers]
    /\ fs = Bare
    /\ data = [k \in Entries |-> None]
    /\ reader = [pc |-> "next", k |-> 0, err |-> FALSE]
    /\ queue = [w \in Workers |-> <<>>]
    /\ worker = [w \in Workers |-> Idle]
    /\ pending = 0
    /\ failed = FALSE
    /\ free = Bufs
    /\ buf = [b \in Bufs |-> None]

Entry == stream[reader.k]

Goto(pc) == reader' = [reader EXCEPT !.pc = pc]

\* return err: the deferred pool.close() runs next.
Break == reader' = [reader EXCEPT !.pc = "close", !.err = TRUE]

-----------------------------------------------------------------------------
(***************************************************************************)
(* The reader loop.                                                        *)
(***************************************************************************)
\* Mutant of Handling: large files skip the barrier.
Handling_NoBarrier(e) ==
    CASE e.type = "skip" -> "next"
      [] e.type = "dir"  -> "mkdirall"
      [] e.type = "file" -> "dispatch"
      [] e.type = "big"  -> "mkdir"
      [] OTHER           -> "flush"

Handling(e) ==
    CASE e.type = "skip" -> "next"
      [] e.type = "dir"  -> "mkdirall"
      [] e.type = "file" -> "dispatch"
      [] OTHER           -> "flush"

ReadHeader ==
    /\ reader.pc = "next"
    /\ reader' =
         IF reader.k = Len(stream) THEN [reader EXCEPT !.pc = "close"]
         ELSE [reader EXCEPT !.k = @ + 1, !.pc = Handling(stream[reader.k + 1])]
    /\ UNCHANGED <<input, fs, data, poolVars>>

\* Mutant of ReadFails: the job is counted before its body is read.
ReadFails_Counted ==
    /\ faults
    /\ reader.pc = "next" \/ (reader.pc = "dispatch" /\ ~failed)
    /\ Break
    /\ pending' = IF reader.pc = "dispatch" THEN pending + 1 ELSE pending
    /\ UNCHANGED <<input, fs, data, queue, worker, failed, free, buf>>

\* tr.Next() or the read of a body fails: a truncated or corrupt stream.
ReadFails ==
    /\ faults
    /\ reader.pc = "next" \/ (reader.pc = "dispatch" /\ ~failed)
    /\ Break
    /\ UNCHANGED <<input, fs, data, poolVars>>

\* A call of the reader succeeds with one of the trees it may leave, or fails.
Inline(pc, trees, next) ==
    /\ reader.pc = pc
    /\ \/ \E t \in trees : fs' = t /\ Goto(next)
       \/ (trees = {} \/ faults) /\ Break /\ UNCHANGED fs
    /\ UNCHANGED <<input, data, poolVars>>

InlineDir == Inline("mkdirall", MkdirAll(fs, Entry.path), "next")

\* pool.dispatch: read the body into a buffer, count the job, then send it.
Dispatch ==
    /\ reader.pc = "dispatch"
    /\ IF failed
       THEN Break /\ UNCHANGED <<pending, free, buf>>
       ELSE \E b \in free :
               /\ \A c \in free : b <= c
               /\ free' = free \ {b}
               /\ buf' = [buf EXCEPT ![b] = reader.k]
               /\ pending' = pending + 1
               /\ Goto("send")
    /\ UNCHANGED <<input, fs, data, queue, worker, failed>>

\* Mutant of Send: any worker takes the job.
Send_Anywhere ==
    LET b == CHOOSE x \in Bufs \ free : buf[x] = reader.k
    IN  /\ reader.pc = "send"
        /\ \E w \in Workers :
              /\ Len(queue[w]) < Cap
              /\ queue' = [queue EXCEPT ![w] =
                    Append(@, [k |-> reader.k, path |-> Entry.path, buf |-> b])]
        /\ Goto("next")
        /\ UNCHANGED <<input, fs, data, worker, pending, failed, free, buf>>

Send ==
    LET w == shard[Entry.path]
        b == CHOOSE x \in Bufs \ free : buf[x] = reader.k
    IN  /\ reader.pc = "send"
        /\ Len(queue[w]) < Cap
        /\ queue' = [queue EXCEPT ![w] =
                       Append(@, [k |-> reader.k, path |-> Entry.path, buf |-> b])]
        /\ Goto("next")
        /\ UNCHANGED <<input, fs, data, worker, pending, failed, free, buf>>

\* Mutant of Flush: no wait.
Flush_Now ==
    /\ reader.pc = "flush"
    /\ IF failed THEN Break ELSE Goto("mkdir")
    /\ UNCHANGED <<input, fs, data, poolVars>>

\* pool.flush
Flush ==
    /\ reader.pc = "flush"
    /\ pending = 0
    /\ IF failed THEN Break ELSE Goto("mkdir")
    /\ UNCHANGED <<input, fs, data, poolVars>>

InlineMkdir == Inline("mkdir", MkdirParent(fs, Entry.path), "remove")
InlineRemove == Inline("remove", Remove(fs, Entry.path), "place")
InlinePlace ==
    Inline("place", Place(fs, Entry, reader.k),
           IF Entry.type = "big" THEN "copy" ELSE "next")

\* writeEntry's io.Copy of a large file.
InlineCopy ==
    /\ reader.pc = "copy"
    /\ \/ data' = [data EXCEPT ![reader.k] = reader.k] /\ Goto("next")
       \/ faults /\ Break /\ UNCHANGED data
    /\ UNCHANGED <<input, fs, poolVars>>

\* Mutant of Close: the function returns without draining the pool.
Close_Now ==
    /\ reader.pc = "close"
    /\ Goto("returned")
    /\ UNCHANGED <<input, fs, data, poolVars>>

\* pool.close: flush, close the channels, wait for the workers.
Close ==
    /\ reader.pc = "close"
    /\ pending = 0
    /\ Goto("stop")
    /\ UNCHANGED <<input, fs, data, poolVars>>

\* Mutant of Return: the pool's error is lost.
Return_Nil ==
    /\ reader.pc = "stop"
    /\ \A w \in Workers : worker[w].pc = "exited"
    /\ Goto("returned")
    /\ UNCHANGED <<input, fs, data, poolVars>>

Return ==
    /\ reader.pc = "stop"
    /\ \A w \in Workers : worker[w].pc = "exited"
    /\ reader' = [reader EXCEPT !.pc = "returned", !.err = @ \/ failed]
    /\ UNCHANGED <<input, fs, data, poolVars>>

Reader ==
    \/ ReadHeader \/ ReadFails \/ InlineDir \/ Dispatch \/ Send \/ Flush
    \/ InlineMkdir \/ InlineRemove \/ InlinePlace \/ InlineCopy
    \/ Close \/ Return

-----------------------------------------------------------------------------
(***************************************************************************)
(* A worker: for job := range ch { ... }, writeFileBytes call by call.     *)
(***************************************************************************)
Job(w) == worker[w].job

Step(w, pc) == worker' = [worker EXCEPT ![w].pc = pc]

\* Mutant of Take: the buffer goes back to the pool with the job in hand.
Take_Free(w) ==
    /\ worker[w].pc = "idle"
    /\ queue[w] # <<>>
    /\ worker' = [worker EXCEPT ![w] = [pc |-> "check", job |-> Head(queue[w])]]
    /\ queue' = [queue EXCEPT ![w] = Tail(@)]
    /\ free' = free \union {Head(queue[w]).buf}
    /\ UNCHANGED <<input, fs, data, reader, pending, failed, buf>>

Take(w) ==
    /\ worker[w].pc = "idle"
    /\ queue[w] # <<>>
    /\ worker' = [worker EXCEPT ![w] = [pc |-> "check", job |-> Head(queue[w])]]
    /\ queue' = [queue EXCEPT ![w] = Tail(@)]
    /\ UNCHANGED <<input, fs, data, reader, pending, failed, free, buf>>

\* Mutant of Check: a job skipped after a failure is never done.
Check_Drop(w) ==
    /\ worker[w].pc = "check"
    /\ Step(w, IF failed THEN "idle" ELSE "mkdir")
    /\ UNCHANGED <<input, fs, data, reader, queue, pending, failed, free, buf>>

\* After a failure the remaining jobs are drained without writing.
Check(w) ==
    /\ worker[w].pc = "check"
    /\ Step(w, IF failed THEN "put" ELSE "mkdir")
    /\ UNCHANGED <<input, fs, data, reader, queue, pending, failed, free, buf>>

Call(w, pc, trees, next) ==
    /\ worker[w].pc = pc
    /\ \/ \E t \in trees : fs' = t /\ Step(w, next) /\ UNCHANGED failed
       \/ /\ trees = {} \/ faults
          /\ failed' = TRUE
          /\ Step(w, "put")
          /\ UNCHANGED fs
    /\ UNCHANGED <<input, data, reader, queue, pending, free, buf>>

WorkerMkdir(w) == Call(w, "mkdir", MkdirParent(fs, Job(w).path), "remove")
WorkerRemove(w) == Call(w, "remove", Remove(fs, Job(w).path), "create")
WorkerCreate(w) ==
    Call(w, "create", Create(fs, Job(w).path, File(Job(w).k)), "write")

WorkerWrite(w) ==
    /\ worker[w].pc = "write"
    /\ \/ /\ data' = [data EXCEPT ![Job(w).k] = buf[Job(w).buf]]
          /\ UNCHANGED failed
       \/ faults /\ failed' = TRUE /\ UNCHANGED data
    /\ Step(w, "put")
    /\ UNCHANGED <<input, fs, reader, queue, pending, free, buf>>

\* Mutant of Done: the job is done twice.
Done_Twice(w) ==
    /\ worker[w].pc = "put"
    /\ free' = free \union {Job(w).buf}
    /\ pending' = pending - 2
    /\ worker' = [worker EXCEPT ![w] = Idle]
    /\ UNCHANGED <<input, fs, data, reader, queue, failed, buf>>

\* bufs.Put and pending.Done
Done(w) ==
    /\ worker[w].pc = "put"
    /\ free' = free \union {Job(w).buf}
    /\ pending' = pending - 1
    /\ worker' = [worker EXCEPT ![w] = Idle]
    /\ UNCHANGED <<input, fs, data, reader, queue, failed, buf>>

Exit(w) ==
    /\ worker[w].pc = "idle"
    /\ queue[w] = <<>>
    /\ reader.pc = "stop"
    /\ Step(w, "exited")
    /\ UNCHANGED <<input, fs, data, reader, queue, pending, failed, free, buf>>

Worker(w) ==
    \/ Take(w) \/ Check(w) \/ WorkerMkdir(w) \/ WorkerRemove(w)
    \/ WorkerCreate(w) \/ WorkerWrite(w) \/ Done(w) \/ Exit(w)

\* The caller goes on with the tree, or removes it.
Returned == reader.pc = "returned" /\ UNCHANGED vars

Next == Reader \/ (\E w \in Workers : Worker(w)) \/ Returned

\* Goroutines are scheduled fairly.
Spec == Init /\ [][Next]_vars /\ WF_vars(Reader)
             /\ \A w \in Workers : WF_vars(Worker(w))

-----------------------------------------------------------------------------
(***************************************************************************)
(* Properties.                                                             *)
(***************************************************************************)
JobType == [k : Entries, path : Paths, buf : Bufs]

\* The type invariant.
TypeOK ==
    /\ DOMAIN fs = Paths
    /\ \A p \in Paths : fs[p] # None =>
          CASE fs[p].kind = "dir"  -> fs[p].ref = None
            [] fs[p].kind = "file" -> fs[p].ref \in Entries
            [] fs[p].kind = "sym"  -> fs[p].ref \in Paths
    /\ data \in [Entries -> Entries \union {None}]
    /\ \A w \in Workers :
          /\ queue[w] \in Seq(JobType)
          /\ Len(queue[w]) <= Cap
          /\ worker[w].job \in JobType \union {None}
    /\ free \subseteq Bufs
    /\ pending \in 0..Len(stream)

\* An extraction that succeeds leaves the tree that the serial loop would
\* leave, every file with the content of its own entry, whatever the hash
\* and however the workers' file-system calls interleave.
SerialResult ==
    (reader.pc = "returned" /\ ~reader.err) =>
        /\ Serial(stream) = {fs}
        /\ \A p \in Paths : Is(fs, p, "file") => data[fs[p].ref] = fs[p].ref

\* The pool never turns a stream that the serial loop can extract into a
\* failure: jobs of different workers do not trip over each other.
NoFalseAlarm ==
    (reader.pc = "returned" /\ reader.err /\ ~faults) => Serial(stream) = {}

\* Links and large files are handled with no write outstanding: the barrier
\* holds from the flush to the last call of the entry.
BarrierHolds ==
    (reader.pc \in {"mkdir", "remove", "place", "copy"}) =>
        \A w \in Workers : queue[w] = <<>> /\ worker[w].pc = "idle"

Busy(w) == worker[w].pc \notin {"idle", "exited"}

\* The jobs of a worker, the one in hand first, then those in its channel.
Line(w) == IF Busy(w) THEN <<Job(w)>> \o queue[w] ELSE queue[w]

InFlight == UNION {{Line(w)[i] : i \in 1..Len(Line(w))} : w \in Workers}

\* The entries of the jobs in flight, and that of the job about to be sent.
Outstanding ==
    {j.k : j \in InFlight} \union {k \in {reader.k} : reader.pc = "send"}

\* The WaitGroup counts exactly the jobs dispatched and not yet done: Wait
\* never returns early and Done never drives the counter below zero.
PendingExact == pending = Cardinality(Outstanding)

\* The buffer of a job in flight holds that job's entry and is not handed
\* out again before the job is done with it.
BufferOwned == \A j \in InFlight : j.buf \notin free /\ buf[j.buf] = j.k

\* Once untarFiltered has returned, error or not, nothing writes to the
\* directory: the caller's nukeTree does not race a worker.
QuietAfterReturn == [][reader.pc = "returned" => UNCHANGED <<fs, data>>]_vars

\* The extraction ends, however full the channels and whatever fails.
Returns == <>(reader.pc = "returned")

-----------------------------------------------------------------------------
\* The pool implements an extraction that happens in one step.
Outcome == IF reader.pc # "returned" THEN "running"
           ELSE IF reader.err THEN "failed" ELSE "done"

Atomic == INSTANCE AtomicUntar
            WITH tree <- IF Outcome = "done" THEN fs ELSE None,
                 outcome <- Outcome

ImplementsAtomic == Atomic!Spec

-----------------------------------------------------------------------------
(***************************************************************************)
(* The inductive invariant.                                                *)
(***************************************************************************)
\* What may be at a path.
Nodes == {None, Dir} \union {File(k) : k \in Entries}
           \union {Sym(p) : p \in {q \in Paths : Len(q) = 1}}

Handlers == {"mkdirall", "dispatch", "send", "flush", "mkdir", "remove", "place", "copy"}

ReaderInv ==
    /\ reader = [pc |-> reader.pc, k |-> reader.k, err |-> reader.err]
    /\ reader.pc \in Handlers \union {"next", "close", "stop", "returned"}
    /\ reader.k \in 0..Len(stream)
    /\ reader.pc \in Handlers => reader.k \in Entries
    /\ reader.pc = "mkdirall" => Entry.type = "dir"
    /\ reader.pc \in {"dispatch", "send"} => Entry.type = "file"
    /\ reader.pc \in {"flush", "mkdir", "remove", "place"} =>
          Entry.type \in {"big", "sym", "link"}

WorkersInv ==
    /\ queue = [w \in Workers |-> queue[w]]
    /\ worker = [w \in Workers |-> worker[w]]
    /\ \A w \in Workers :
          /\ queue[w] \in Seq(JobType) /\ Len(queue[w]) <= Cap
          /\ worker[w] = [pc |-> worker[w].pc, job |-> worker[w].job]
          /\ worker[w].pc \in {"idle", "check", "mkdir", "remove", "create", "write",
                               "put", "exited"}
          /\ worker[w].job \in IF Busy(w) THEN JobType ELSE {None}
          /\ worker[w].pc = "exited" => reader.pc \in {"stop", "returned"}
          /\ reader.pc = "returned" => worker[w].pc = "exited"

\* Jobs in flight are of different entries, each read before, and hold a
\* buffer of their own.
LinesInv ==
    /\ \A w, v \in Workers : \A i \in 1..Len(Line(w)), j \in 1..Len(Line(v)) :
          Line(w)[i].k = Line(v)[j].k => w = v /\ i = j
    /\ \A w \in Workers : \A i \in 1..Len(Line(w)) :
          LET j == Line(w)[i]
          IN  /\ j.k <= reader.k
              /\ reader.pc \in {"dispatch", "send"} => j.k # reader.k
              /\ j.buf \notin free /\ buf[j.buf] = j.k
    /\ reader.pc = "send" => \E b \in Bufs \ free : buf[b] = reader.k

\* Nothing is outstanding behind the barrier.
BarrierInv ==
    reader.pc \in {"mkdir", "remove", "place", "copy", "stop", "returned"} => pending = 0

\* The whole invariant: through every interleaving of the reader and the
\* workers the counter, the lines of jobs and the buffers agree, and the
\* directory holds nothing but directories, links and files of entries.
PoolInv ==
    /\ stream \in Streams
    /\ shard \in [{stream[k].path : k \in {i \in Entries : stream[i].type = "file"}}
                  -> Workers]
    /\ fs \in [Paths -> Nodes]
    /\ data \in [Entries -> Entries \union {None}]
    /\ free \subseteq Bufs
    /\ buf = [b \in Bufs |-> buf[b]]
    /\ ReaderInv /\ WorkersInv /\ LinesInv /\ PendingExact /\ BarrierInv
=============================================================================
