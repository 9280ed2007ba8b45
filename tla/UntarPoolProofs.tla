-------------------------- MODULE UntarPoolProofs --------------------------
(***************************************************************************)
(* Proofs about UntarPool, for any number of workers, channels of any      *)
(* capacity, every stream and every distribution of the paths.             *)
(***************************************************************************)
EXTENDS UntarPool, FiniteSetTheorems, SequenceTheorems, TLAPS

-----------------------------------------------------------------------------
(***************************************************************************)
(* The operations on the directory leave a directory.                      *)
(***************************************************************************)
LEMMA PutOK ==
    ASSUME NEW t \in [Paths -> Nodes], NEW q, NEW n \in Nodes
    PROVE  [t EXCEPT ![q] = n] \in [Paths -> Nodes]
  OBVIOUS

LEMMA MkdirOK ==
    ASSUME NEW t \in [Paths -> Nodes], NEW p
    PROVE  Mkdir(t, p) \subseteq [Paths -> Nodes]
<1>1. Dir \in Nodes
  BY DEF Nodes
<1> QED
  BY <1>1, PutOK DEF Mkdir

LEMMA MkdirParentOK ==
    ASSUME NEW t \in [Paths -> Nodes], NEW p
    PROVE  MkdirParent(t, p) \subseteq [Paths -> Nodes]
  BY MkdirOK DEF MkdirParent

LEMMA MkdirAllOK ==
    ASSUME NEW t \in [Paths -> Nodes], NEW p
    PROVE  MkdirAll(t, p) \subseteq [Paths -> Nodes]
<1>1. \A x \in MkdirParent(t, p) : Mkdir(x, Resolve(x, p)) \subseteq [Paths -> Nodes]
  BY MkdirParentOK, MkdirOK
<1> QED
  BY <1>1 DEF MkdirAll

LEMMA RemoveOK ==
    ASSUME NEW t \in [Paths -> Nodes], NEW p
    PROVE  Remove(t, p) \subseteq [Paths -> Nodes]
<1>1. None \in Nodes
  BY DEF Nodes
<1> QED
  BY <1>1, PutOK DEF Remove

LEMMA CreateOK ==
    ASSUME NEW t \in [Paths -> Nodes], NEW p, NEW node \in Nodes
    PROVE  Create(t, p, node) \subseteq [Paths -> Nodes]
  BY PutOK DEF Create

\* What a path names, a symbolic link above it followed, is a path.
LEMMA ResolveOK ==
    ASSUME NEW t \in [Paths -> Nodes], NEW p \in Paths
    PROVE  Resolve(t, p) \in Paths
<1>1. CASE Len(p) = 2 /\ Is(t, Parent(p), "sym")
  <2>1. Parent(p) \in Paths
    BY PoolAssumption
  <2>2. t[Parent(p)] \in Nodes /\ t[Parent(p)] # None /\ t[Parent(p)].kind = "sym"
    BY <1>1, <2>1 DEF Is
  <2>3. t[Parent(p)] # Dir /\ \A k : t[Parent(p)] # File(k)
    BY <2>2 DEF Dir, File
  <2>4. PICK q \in Paths : Len(q) = 1 /\ t[Parent(p)] = Sym(q)
    BY <2>2, <2>3 DEF Nodes
  <2>5. t[Parent(p)].ref = q
    BY <2>4 DEF Sym
  <2>6. q \o SubSeq(p, 2, 2) \in Paths
    BY <1>1, <2>4, PoolAssumption
  <2> QED
    BY <1>1, <2>5, <2>6 DEF Resolve
<1>2. CASE ~(Len(p) = 2 /\ Is(t, Parent(p), "sym"))
  BY <1>2 DEF Resolve
<1> QED
  BY <1>1, <1>2

LEMMA LinkOK ==
    ASSUME NEW t \in [Paths -> Nodes], NEW p, NEW from \in Paths
    PROVE  Link(t, p, from) \subseteq [Paths -> Nodes]
<1>1. t[Resolve(t, from)] \in Nodes
  BY ResolveOK
<1> QED
  BY <1>1, CreateOK DEF Link

\* The operation that puts a link or a large file in its place.
LEMMA PlaceOK ==
    ASSUME NEW t \in [Paths -> Nodes], stream \in Streams, reader.k \in Entries,
           Entry.type \in {"big", "sym", "link"}
    PROVE  Place(t, Entry, reader.k) \subseteq [Paths -> Nodes]
<1>1. CASE Entry.type = "big"
  <2>1. File(reader.k) \in Nodes
    BY DEF Nodes
  <2> QED
    BY <1>1, <2>1, CreateOK DEF Place
<1>2. CASE Entry.type = "sym"
  <2>1. Entry.to \in Paths /\ Len(Entry.to) = 1
    BY <1>2, PoolAssumption DEF Entry, Entries
  <2>2. Sym(Entry.to) \in Nodes
    BY <2>1 DEF Nodes
  <2> QED
    BY <1>2, <2>2, CreateOK DEF Place
<1>3. CASE Entry.type = "link"
  <2>1. Entry.to \in Paths
    BY <1>3, PoolAssumption DEF Entry, Entries
  <2> QED
    BY <1>3, <2>1, LinkOK DEF Place
<1> QED
  BY <1>1, <1>2, <1>3

-----------------------------------------------------------------------------
(***************************************************************************)
(* The jobs of a worker.                                                   *)
(***************************************************************************)
LEMMA LineIs ==
    ASSUME WorkersInv, NEW w \in Workers
    PROVE  /\ Line(w) \in Seq(JobType) /\ Len(Line(w)) \in Nat
           /\ \A i \in 1..Len(Line(w)) : Line(w)[i] \in JobType
<1>1. queue[w] \in Seq(JobType) /\ (Busy(w) => Job(w) \in JobType)
  BY DEF WorkersInv, Job
<1>2. Line(w) \in Seq(JobType)
  <2>1. CASE Busy(w)
    <3>1. <<Job(w)>> \in Seq(JobType)
      BY <1>1, <2>1
    <3> QED
      BY <1>1, <2>1, <3>1, ConcatProperties DEF Line
  <2>2. CASE ~Busy(w)
    BY <1>1, <2>2 DEF Line
  <2> QED
    BY <2>1, <2>2
<1> QED
  BY <1>2, ElementOfSeq

\* A worker that takes a job holds the same jobs as before.
LEMMA LineTake ==
    ASSUME WorkersInv, NEW w \in Workers, Take(w)
    PROVE  Line(w)' = Line(w)
<1> DEFINE q == queue[w]
<1>1. /\ ~Busy(w) /\ q # <<>> /\ q \in Seq(JobType)
      /\ worker'[w] = [pc |-> "check", job |-> Head(q)] /\ queue'[w] = Tail(q)
  BY DEF Take, WorkersInv, Busy
<1>2. Busy(w)' /\ Job(w)' = Head(q)
  BY <1>1 DEF Busy, Job
<1>3. Line(w)' = <<Head(q)>> \o Tail(q)
  BY <1>1, <1>2 DEF Line
<1> HIDE DEF q
<1>4. q = <<Head(q)>> \o Tail(q)
  <2>1. /\ Head(q) \in JobType /\ Tail(q) \in Seq(JobType) /\ Head(q) = q[1]
        /\ Len(q) = Len(Tail(q)) + 1 /\ Len(Tail(q)) \in Nat
        /\ \A i \in 1..Len(Tail(q)) : Tail(q)[i] = q[i + 1]
    BY <1>1
  <2>2. <<Head(q)>> \in Seq(JobType) /\ Len(<<Head(q)>>) = 1 /\ <<Head(q)>>[1] = Head(q)
    BY <2>1
  <2> DEFINE h == <<Head(q)>>
             r == Tail(q)
  <2> HIDE DEF h, r
  <2>3. /\ h \o r \in Seq(JobType) /\ Len(h \o r) = 1 + Len(r)
        /\ \A i \in 1..1 + Len(r) : (h \o r)[i] = IF i <= 1 THEN h[i] ELSE r[i - 1]
    <3>1. h \in Seq(JobType) /\ r \in Seq(JobType) /\ Len(h) = 1
      BY <2>1, <2>2 DEF h, r
    <3>2. /\ h \o r \in Seq(JobType) /\ Len(h \o r) = Len(h) + Len(r)
          /\ \A i \in 1..Len(h) + Len(r) :
                (h \o r)[i] = IF i <= Len(h) THEN h[i] ELSE r[i - Len(h)]
      BY <3>1, ConcatProperties
    <3> QED
      BY <3>1, <3>2
  <2>4. ASSUME NEW i \in 1..Len(q) PROVE (h \o r)[i] = q[i]
    <3>1. CASE i = 1
      BY <2>1, <2>2, <2>3, <3>1 DEF h, r
    <3>2. CASE i # 1
      <4>1. i - 1 \in 1..Len(r) /\ (i - 1) + 1 = i /\ ~(i <= 1) /\ i \in 1..1 + Len(r)
        BY <2>1, <3>2 DEF r
      <4>2. r[i - 1] = q[i]
        BY <2>1, <4>1 DEF r
      <4> QED
        BY <2>3, <4>1, <4>2
    <3> QED
      BY <3>1, <3>2
  <2>5. Len(h \o r) = Len(q)
    BY <2>1, <2>3 DEF r
  <2>6. h \o r = q
    BY <1>1, <2>3, <2>4, <2>5, SeqEqual
  <2> QED
    BY <2>6 DEF h, r
<1> QED
  BY <1>1, <1>3, <1>4 DEF Line, q

\* A job that is sent joins the end of its worker's line.
LEMMA LineSend ==
    ASSUME WorkersInv, NEW w \in Workers, NEW job \in JobType,
           queue'[w] = Append(queue[w], job), worker' = worker
    PROVE  Line(w)' = Append(Line(w), job)
<1>1. queue[w] \in Seq(JobType) /\ (Busy(w) => Job(w) \in JobType)
  BY DEF WorkersInv, Job
<1>2. /\ Busy(w)' <=> Busy(w)
      /\ Job(w)' = Job(w)
  BY DEF Busy, Job
<1>3. CASE ~Busy(w)
  BY <1>2, <1>3 DEF Line
<1>4. CASE Busy(w)
  <2>1. Line(w)' = <<Job(w)>> \o Append(queue[w], job)
    BY <1>2, <1>4 DEF Line
  <2>2. Line(w) = <<Job(w)>> \o queue[w]
    BY <1>4 DEF Line
  <2> DEFINE h == <<Job(w)>>
             q == queue[w]
             j == <<job>>
  <2>3. h \in Seq(JobType) /\ q \in Seq(JobType) /\ j \in Seq(JobType)
    BY <1>1, <1>4
  <2>4. Append(q, job) = q \o j
    BY <2>3, AppendIsConcat
  <2>5. h \o q \in Seq(JobType)
    BY <2>3, ConcatProperties
  <2>6. Append(h \o q, job) = (h \o q) \o j
    <3> HIDE DEF h, q
    <3> QED
      BY <2>5, AppendIsConcat
  <2>7. (h \o q) \o j = h \o (q \o j)
    <3> HIDE DEF h, q, j
    <3> QED
      BY <2>3, ConcatAssociative
  <2> QED
    BY <2>1, <2>2, <2>4, <2>6, <2>7
<1> QED
  BY <1>3, <1>4

\* A job that is done was the first of its line.
LEMMA LineDone ==
    ASSUME WorkersInv, NEW w \in Workers, Busy(w), ~Busy(w)', queue'[w] = queue[w]
    PROVE  /\ Len(Line(w)) = Len(Line(w)') + 1 /\ Len(Line(w)') \in Nat
           /\ Line(w)[1] = Job(w)
           /\ \A i \in 1..Len(Line(w)') : Line(w)'[i] = Line(w)[i + 1]
<1> DEFINE q == queue[w]
           h == <<Job(w)>>
<1>1. q \in Seq(JobType) /\ Job(w) \in JobType
  BY DEF WorkersInv, Job
<1>2. h \in Seq(JobType) /\ Len(h) = 1 /\ h[1] = Job(w)
  BY <1>1
<1>3. Line(w) = h \o q /\ Line(w)' = q
  BY DEF Line
<1> HIDE DEF q, h
<1>4. /\ Len(h \o q) = 1 + Len(q) /\ Len(q) \in Nat
      /\ \A i \in 1..1 + Len(q) : (h \o q)[i] = IF i <= 1 THEN h[i] ELSE q[i - 1]
  <2>1. h \in Seq(JobType) /\ q \in Seq(JobType) /\ Len(h) = 1 /\ Len(q) \in Nat
    BY <1>1, <1>2
  <2>2. /\ h \o q \in Seq(JobType) /\ Len(h \o q) = Len(h) + Len(q)
        /\ \A i \in 1..Len(h) + Len(q) :
              (h \o q)[i] = IF i <= Len(h) THEN h[i] ELSE q[i - Len(h)]
    BY <2>1, ConcatProperties
  <2> QED
    BY <2>1, <2>2
<1>5. (h \o q)[1] = Job(w)
  BY <1>2, <1>4
<1>6. ASSUME NEW i \in 1..Len(q) PROVE (h \o q)[i + 1] = q[i]
  <2>1. i + 1 \in 1..1 + Len(q) /\ ~(i + 1 <= 1) /\ (i + 1) - 1 = i
    BY <1>4
  <2> QED
    BY <1>4, <2>1
<1> QED
  BY <1>3, <1>4, <1>5, <1>6

-----------------------------------------------------------------------------
(***************************************************************************)
(* What the steps of the workers do to the worker's own state.             *)
(***************************************************************************)
LEMMA StepIs ==
    ASSUME WorkersInv, NEW w \in Workers, NEW pc, Step(w, pc)
    PROVE  /\ worker' = [v \in Workers |-> worker'[v]]
           /\ worker'[w] = [pc |-> pc, job |-> Job(w)]
           /\ worker'[w].pc = pc /\ Job(w)' = Job(w)
           /\ \A v \in Workers \ {w} : worker'[v] = worker[v]
<1>1. /\ worker = [v \in Workers |-> worker[v]]
      /\ worker[w] = [pc |-> worker[w].pc, job |-> worker[w].job]
  BY DEF WorkersInv
<1>2. worker' = [worker EXCEPT ![w] = [worker[w] EXCEPT !.pc = pc]]
  BY DEF Step
<1>3. [worker[w] EXCEPT !.pc = pc] = [pc |-> pc, job |-> worker[w].job]
  <2>1. ASSUME NEW a, NEW b PROVE [[pc |-> a, job |-> b] EXCEPT !.pc = pc] = [pc |-> pc, job |-> b]
    OBVIOUS
  <2> QED
    BY <1>1, <2>1
<1>4. /\ worker' = [v \in Workers |-> worker'[v]]
      /\ worker'[w] = [pc |-> pc, job |-> worker[w].job]
      /\ \A v \in Workers \ {w} : worker'[v] = worker[v]
  BY <1>1, <1>2, <1>3
<1> QED
  BY <1>4 DEF Job

\* Steps that leave the jobs, the buffers and the reader's entry alone.
LEMMA LinesKept ==
    ASSUME LinesInv, PendingExact, \A w \in Workers : Line(w)' = Line(w),
           UNCHANGED <<stream, free, buf, pending>>, reader'.k = reader.k,
           reader'.pc = "send" <=> reader.pc = "send",
           reader'.pc = "dispatch" => reader.pc = "dispatch"
    PROVE  LinesInv' /\ PendingExact'
<1>1. \A w, v \in Workers : \A i \in 1..Len(Line(w)'), j \in 1..Len(Line(v)') :
        Line(w)'[i].k = Line(v)'[j].k => w = v /\ i = j
  BY DEF LinesInv
<1>2. \A w \in Workers : \A i \in 1..Len(Line(w)') :
          LET j == Line(w)'[i]
          IN  /\ j.k <= reader'.k
              /\ reader'.pc \in {"dispatch", "send"} => j.k # reader'.k
              /\ j.buf \notin free' /\ buf'[j.buf] = j.k
  BY DEF LinesInv
<1>3. Bufs' = Bufs
  BY DEF Bufs, Entries
<1>4. LinesInv'
  BY <1>1, <1>2, <1>3 DEF LinesInv
<1>5. InFlight' = InFlight
  BY DEF InFlight
<1>6. Outstanding' = Outstanding
  BY <1>5 DEF Outstanding
<1> QED
  BY <1>4, <1>6 DEF PendingExact

\* Whether a worker's jobs change is a matter of its own state.
LEMMA LineKept ==
    ASSUME NEW w, queue'[w] = queue[w], worker'[w] = worker[w]
    PROVE  Line(w)' = Line(w)
  BY DEF Line, Busy, Job

\* The entries outstanding are entries: there are finitely many.
LEMMA OutstandingIs ==
    ASSUME stream \in Streams, WorkersInv, ReaderInv
    PROVE  /\ Outstanding \subseteq 1..Len(stream)
           /\ IsFiniteSet(Outstanding)
           /\ Cardinality(Outstanding) \in 0..Len(stream)
<1>1. Len(stream) \in Nat
  BY PoolAssumption
<1>2. \A j \in InFlight : j.k \in Entries
  BY LineIs DEF InFlight, JobType
<1>3. reader.pc = "send" => reader.k \in Entries
  BY DEF ReaderInv, Handlers
<1>4. Outstanding \subseteq 1..Len(stream)
  BY <1>2, <1>3 DEF Outstanding, Entries
<1>5. IsFiniteSet(1..Len(stream)) /\ Cardinality(1..Len(stream)) = Len(stream)
  <2>1. \A n \in Nat : IsFiniteSet(1..n) /\ Cardinality(1..n) = n
    BY FS_Interval
  <2> QED
    BY <1>1, <2>1
<1>6. IsFiniteSet(Outstanding) /\ Cardinality(Outstanding) <= Len(stream)
  BY <1>4, <1>5, FS_Subset
<1>7. Cardinality(Outstanding) \in Nat
  BY <1>6, FS_CardinalityType
<1> QED
  BY <1>1, <1>4, <1>6, <1>7

-----------------------------------------------------------------------------
(***************************************************************************)
(* The reader.                                                             *)
(***************************************************************************)
LEMMA GotoIs ==
    ASSUME ReaderInv, NEW pc, Goto(pc)
    PROVE  /\ reader' = [pc |-> pc, k |-> reader.k, err |-> reader.err]
           /\ reader'.pc = pc /\ reader'.k = reader.k
           /\ reader' = [pc |-> reader'.pc, k |-> reader'.k, err |-> reader'.err]
<1>1. ASSUME NEW a, NEW b, NEW c
      PROVE  [[pc |-> a, k |-> b, err |-> c] EXCEPT !.pc = pc]
               = [pc |-> pc, k |-> b, err |-> c]
  OBVIOUS
<1>2. reader' = [pc |-> pc, k |-> reader.k, err |-> reader.err]
  BY <1>1 DEF Goto, ReaderInv
<1> QED
  BY <1>2

LEMMA BreakIs ==
    ASSUME ReaderInv, Break
    PROVE  /\ reader'.pc = "close" /\ reader'.k = reader.k
           /\ reader' = [pc |-> reader'.pc, k |-> reader'.k, err |-> reader'.err]
<1>1. ASSUME NEW a, NEW b, NEW c, NEW d
      PROVE  [[pc |-> a, k |-> b, err |-> c] EXCEPT !.pc = "close", !.err = d]
               = [pc |-> "close", k |-> b, err |-> d]
  <2>1. [[pc |-> a, k |-> b, err |-> c] EXCEPT !.pc = "close"]
          = [pc |-> "close", k |-> b, err |-> c]
    OBVIOUS
  <2>2. [[pc |-> "close", k |-> b, err |-> c] EXCEPT !.err = d]
          = [pc |-> "close", k |-> b, err |-> d]
    OBVIOUS
  <2> QED
    BY <2>1, <2>2
<1>2. \E d : reader' = [reader EXCEPT !.pc = "close", !.err = d]
  BY Zenon DEF Break
<1>3. PICK d : reader' = [reader EXCEPT !.pc = "close", !.err = d]
  BY <1>2
<1>4. reader' = [pc |-> "close", k |-> reader.k, err |-> d]
  BY <1>1, <1>3 DEF ReaderInv
<1> QED
  BY <1>4

\* A step of the reader that does not touch the pool.
LEMMA ReaderKeeps ==
    ASSUME PoolInv, UNCHANGED <<input, poolVars>>,
           fs' \in [Paths -> Nodes], data' \in [Entries -> Entries \union {None}],
           reader' = [pc |-> reader'.pc, k |-> reader'.k, err |-> reader'.err],
           reader'.k = reader.k, reader.pc # "send",
           reader'.pc \in {"next", "mkdir", "remove", "place", "copy", "close",
                           "stop", "returned"},
           reader'.pc \in Handlers => reader.pc \in Handlers,
           reader'.pc \in {"mkdir", "remove", "place"} =>
              Entry.type \in {"big", "sym", "link"},
           reader'.pc \in {"mkdir", "remove", "place", "copy", "stop", "returned"} =>
              pending = 0,
           reader'.pc = "returned" => \A w \in Workers : worker[w].pc = "exited",
           reader.pc \in {"stop", "returned"} => reader'.pc \in {"stop", "returned"}
    PROVE  PoolInv'
<1>1. /\ stream' = stream /\ shard' = shard /\ queue' = queue /\ worker' = worker
      /\ pending' = pending /\ free' = free /\ buf' = buf
  BY DEF input, poolVars
<1>2. /\ Entries' = Entries /\ Nodes' = Nodes /\ Bufs' = Bufs /\ JobType' = JobType
      /\ Entry' = Entry
  BY <1>1 DEF Entries, Nodes, Bufs, JobType, Entry
<1>3. ReaderInv'
  BY <1>1, <1>2 DEF PoolInv, ReaderInv, Handlers
<1>4. WorkersInv'
  <2>1. \A w \in Workers : Busy(w)' <=> Busy(w)
    BY <1>1 DEF Busy
  <2> QED
    BY <1>1, <1>2, <2>1 DEF PoolInv, WorkersInv
<1>5. LinesInv' /\ PendingExact'
  <2>1. \A w \in Workers : Line(w)' = Line(w)
    BY <1>1, LineKept
  <2>2. LinesInv /\ PendingExact
    BY DEF PoolInv
  <2> QED
    BY <1>1, <2>1, <2>2, LinesKept
<1>6. BarrierInv'
  BY <1>1 DEF BarrierInv
<1> QED
  BY <1>1, <1>2, <1>3, <1>4, <1>5, <1>6 DEF PoolInv

LEMMA InlineKeeps ==
    ASSUME PoolInv, NEW pc, NEW trees, NEW next, Inline(pc, trees, next),
           trees \subseteq [Paths -> Nodes],
           pc \in {"mkdirall", "mkdir", "remove", "place"},
           next \in {"next", "remove", "place", "copy"},
           pc = "mkdirall" => next = "next",
           next = "remove" => pc = "mkdir", next = "place" => pc = "remove"
    PROVE  PoolInv'
<1>1. /\ reader.pc = pc /\ UNCHANGED <<input, poolVars>> /\ data' = data
      /\ (fs' \in trees /\ Goto(next)) \/ (Break /\ fs' = fs)
  BY DEF Inline
<1>2. ReaderInv /\ fs \in [Paths -> Nodes] /\ data \in [Entries -> Entries \union {None}]
        /\ BarrierInv
  BY DEF PoolInv
<1>3. CASE fs' \in trees /\ Goto(next)
  <2>1. /\ reader'.pc = next /\ reader'.k = reader.k
        /\ reader' = [pc |-> reader'.pc, k |-> reader'.k, err |-> reader'.err]
    BY <1>2, <1>3, GotoIs
  <2>2. pc \in {"mkdir", "remove", "place"} =>
           pending = 0 /\ Entry.type \in {"big", "sym", "link"}
    BY <1>1, <1>2 DEF BarrierInv, ReaderInv
  <2> QED
    BY <1>1, <1>2, <1>3, <2>1, <2>2, ReaderKeeps DEF Handlers
<1>4. CASE Break /\ fs' = fs
  BY <1>1, <1>2, <1>4, BreakIs, ReaderKeeps DEF Handlers
<1> QED
  BY <1>1, <1>3, <1>4

LEMMA ReaderInlineKeeps ==
    ASSUME PoolInv, InlineDir \/ InlineMkdir \/ InlineRemove \/ InlinePlace
    PROVE  PoolInv'
<1>1. fs \in [Paths -> Nodes]
  BY DEF PoolInv
<1>2. CASE InlineDir
  <2>1. MkdirAll(fs, Entry.path) \subseteq [Paths -> Nodes]
    BY <1>1, MkdirAllOK
  <2> QED
    BY <1>2, <2>1, InlineKeeps DEF InlineDir
<1>3. CASE InlineMkdir
  <2>1. MkdirParent(fs, Entry.path) \subseteq [Paths -> Nodes]
    BY <1>1, MkdirParentOK
  <2> QED
    BY <1>3, <2>1, InlineKeeps DEF InlineMkdir
<1>4. CASE InlineRemove
  <2>1. Remove(fs, Entry.path) \subseteq [Paths -> Nodes]
    BY <1>1, RemoveOK
  <2> QED
    BY <1>4, <2>1, InlineKeeps DEF InlineRemove
<1>5. CASE InlinePlace
  <2>1. reader.pc = "place"
    BY <1>5 DEF InlinePlace, Inline
  <2>2. /\ stream \in Streams /\ reader.k \in Entries
        /\ Entry.type \in {"big", "sym", "link"}
    BY <2>1 DEF PoolInv, ReaderInv, Handlers
  <2> DEFINE trees == Place(fs, Entry, reader.k)
             next == IF Entry.type = "big" THEN "copy" ELSE "next"
  <2>3. trees \subseteq [Paths -> Nodes]
    BY <1>1, <2>2, PlaceOK
  <2>4. Inline("place", trees, next) /\ next \in {"next", "copy"}
    BY <1>5 DEF InlinePlace
  <2> HIDE DEF trees, next
  <2> QED
    BY <2>3, <2>4, InlineKeeps
<1> QED
  BY <1>2, <1>3, <1>4, <1>5

\* The reader once it has returned.
LEMMA ReturnIs ==
    ASSUME ReaderInv, Return
    PROVE  reader' = [pc |-> "returned", k |-> reader.k, err |-> reader.err \/ failed]
<1>1. ASSUME NEW a, NEW b, NEW c, NEW d
      PROVE  [[pc |-> a, k |-> b, err |-> c] EXCEPT !.pc = "returned", !.err = d]
               = [pc |-> "returned", k |-> b, err |-> d]
  <2>1. [[pc |-> a, k |-> b, err |-> c] EXCEPT !.pc = "returned"]
          = [pc |-> "returned", k |-> b, err |-> c]
    OBVIOUS
  <2>2. [[pc |-> "returned", k |-> b, err |-> c] EXCEPT !.err = d]
          = [pc |-> "returned", k |-> b, err |-> d]
    OBVIOUS
  <2> QED
    BY <2>1, <2>2
<1> QED
  BY <1>1 DEF Return, ReaderInv

LEMMA ReaderOtherKeeps ==
    ASSUME PoolInv, ReadFails \/ Flush \/ InlineCopy \/ Close \/ Return
    PROVE  PoolInv'
<1>1. /\ ReaderInv /\ BarrierInv /\ fs \in [Paths -> Nodes]
      /\ data \in [Entries -> Entries \union {None}]
  BY DEF PoolInv
<1>2. CASE ReadFails
  BY <1>1, <1>2, BreakIs, ReaderKeeps DEF ReadFails, Handlers
<1>3. CASE Flush
  <2>1. CASE Break
    BY <1>1, <1>3, <2>1, BreakIs, ReaderKeeps DEF Flush, Handlers
  <2>2. CASE Goto("mkdir")
    <3>1. Entry.type \in {"big", "sym", "link"} /\ reader.pc \in Handlers /\ pending = 0
      BY <1>1, <1>3 DEF Flush, ReaderInv, Handlers
    <3> QED
      BY <1>1, <1>3, <2>2, <3>1, GotoIs, ReaderKeeps DEF Flush, Handlers
  <2> QED
    BY <1>3, <2>1, <2>2 DEF Flush
<1>4. CASE InlineCopy
  <2>1. reader.k \in Entries
    BY <1>1, <1>4 DEF InlineCopy, ReaderInv, Handlers
  <2>2. CASE data' = [data EXCEPT ![reader.k] = reader.k] /\ Goto("next")
    BY <1>1, <1>4, <2>1, <2>2, GotoIs, ReaderKeeps DEF InlineCopy, Handlers
  <2>3. CASE Break /\ UNCHANGED data
    BY <1>1, <1>4, <2>3, BreakIs, ReaderKeeps DEF InlineCopy, Handlers
  <2> QED
    BY <1>4, <2>2, <2>3 DEF InlineCopy
<1>5. CASE Close
  BY <1>1, <1>5, GotoIs, ReaderKeeps DEF Close, Handlers
<1>6. CASE Return
  <2>2. reader' = [pc |-> "returned", k |-> reader.k, err |-> reader.err \/ failed]
    BY <1>1, <1>6, ReturnIs
  <2>3. /\ reader'.pc = "returned" /\ reader'.k = reader.k
        /\ reader' = [pc |-> reader'.pc, k |-> reader'.k, err |-> reader'.err]
    BY <2>2
  <2>4. reader.pc = "stop" /\ \A w \in Workers : worker[w].pc = "exited"
    BY <1>6 DEF Return
  <2>5. pending = 0 /\ UNCHANGED <<input, poolVars>> /\ fs' = fs /\ data' = data
    BY <1>1, <1>6, <2>4 DEF BarrierInv, Return
  <2> QED
    BY <1>1, <2>3, <2>4, <2>5, ReaderKeeps DEF Handlers
<1> QED
  BY <1>2, <1>3, <1>4, <1>5, <1>6

\* The reader at the next entry.
LEMMA HeaderIs ==
    ASSUME ReaderInv, ReadHeader, reader.k # Len(stream)
    PROVE  reader' = [pc |-> Handling(stream[reader.k + 1]), k |-> reader.k + 1,
                      err |-> reader.err]
<1> DEFINE k1 == reader.k + 1
           h == Handling(stream[k1])
<1>1. ASSUME NEW a, NEW b, NEW c
      PROVE  [[pc |-> a, k |-> b, err |-> c] EXCEPT !.k = k1, !.pc = h]
               = [pc |-> h, k |-> k1, err |-> c]
  <2> HIDE DEF k1, h
  <2>1. [[pc |-> a, k |-> b, err |-> c] EXCEPT !.k = k1]
          = [pc |-> a, k |-> k1, err |-> c]
    OBVIOUS
  <2>2. [[pc |-> a, k |-> k1, err |-> c] EXCEPT !.pc = h]
          = [pc |-> h, k |-> k1, err |-> c]
    OBVIOUS
  <2> QED
    BY <2>1, <2>2
<1>2. reader' = [reader EXCEPT !.k = k1, !.pc = h]
  BY DEF ReadHeader
<1>3. reader = [pc |-> reader.pc, k |-> reader.k, err |-> reader.err]
  BY DEF ReaderInv
<1> HIDE DEF k1, h
<1>4. reader' = [pc |-> h, k |-> k1, err |-> reader.err]
  BY <1>1, <1>2, <1>3
<1> QED
  BY <1>4 DEF k1, h

\* The next entry comes after all that are outstanding.
LEMMA ReadHeaderKeeps ==
    ASSUME PoolInv, ReadHeader
    PROVE  PoolInv'
<1>1. /\ reader.pc = "next" /\ UNCHANGED <<input, fs, data, poolVars>>
      /\ reader' = IF reader.k = Len(stream) THEN [reader EXCEPT !.pc = "close"]
                   ELSE [reader EXCEPT !.k = reader.k + 1,
                                       !.pc = Handling(stream[reader.k + 1])]
  BY DEF ReadHeader
<1>2. /\ ReaderInv /\ WorkersInv /\ LinesInv /\ PendingExact /\ fs \in [Paths -> Nodes]
      /\ data \in [Entries -> Entries \union {None}] /\ stream \in Streams
  BY DEF PoolInv
<1>3. CASE reader.k = Len(stream)
  BY <1>1, <1>2, <1>3, GotoIs, ReaderKeeps DEF Goto, Handlers
<1>4. CASE reader.k # Len(stream)
  <2> DEFINE k1 == reader.k + 1
             h == Handling(stream[k1])
  <2>1. reader' = [pc |-> h, k |-> k1, err |-> reader.err]
    BY <1>2, <1>4, HeaderIs
  <2>2. k1 \in Entries /\ reader.k \in Nat /\ k1 > reader.k /\ k1 \in 0..Len(stream)
    <3>1. Len(stream) \in Nat /\ reader.k \in 0..Len(stream)
      BY <1>2, PoolAssumption DEF ReaderInv
    <3> QED
      BY <1>4, <3>1 DEF Entries
  <2>3. stream[k1].type \in {"file", "big", "dir", "sym", "link", "skip"}
    <3>1. stream \in Seq(EntryType)
      BY <1>2, PoolAssumption
    <3>2. stream[k1] \in EntryType
      BY <2>2, <3>1, ElementOfSeq DEF Entries
    <3> QED
      BY <3>2 DEF EntryType
  <2>4. /\ h \in {"next", "mkdirall", "dispatch", "flush"}
        /\ h = "mkdirall" => stream[k1].type = "dir"
        /\ h = "dispatch" => stream[k1].type = "file"
        /\ h = "flush" => stream[k1].type \in {"big", "sym", "link"}
    BY <2>3 DEF Handling
  <2> HIDE DEF k1, h
  <2>5. /\ stream' = stream /\ shard' = shard /\ queue' = queue /\ worker' = worker
        /\ pending' = pending /\ free' = free /\ buf' = buf /\ fs' = fs /\ data' = data
    BY <1>1 DEF input, poolVars
  <2>6. /\ Entries' = Entries /\ Nodes' = Nodes /\ Bufs' = Bufs /\ JobType' = JobType
        /\ Entry' = stream[k1] /\ reader'.pc = h /\ reader'.k = k1
        /\ reader' = [pc |-> reader'.pc, k |-> reader'.k, err |-> reader'.err]
    BY <2>1, <2>5 DEF Entries, Nodes, Bufs, JobType, Entry
  <2>7. ReaderInv'
    BY <2>2, <2>4, <2>5, <2>6 DEF ReaderInv, Handlers
  <2>8. WorkersInv'
    <3>1. \A w \in Workers : Busy(w)' <=> Busy(w)
      BY <2>5 DEF Busy
    <3>2. \A w \in Workers : worker[w].pc # "exited"
      BY <1>1, <1>2 DEF WorkersInv
    <3>3. reader'.pc # "returned"
      BY <2>4, <2>6
    <3> QED
      BY <1>2, <2>5, <2>6, <3>1, <3>2, <3>3 DEF WorkersInv
  <2>9. \A w \in Workers : Line(w)' = Line(w)
    BY <2>5, LineKept
  <2>10. LinesInv'
    <3>1. ASSUME NEW w \in Workers, NEW i \in 1..Len(Line(w))
          PROVE  /\ Line(w)[i].k <= k1 /\ Line(w)[i].k # k1
                 /\ Line(w)[i].buf \notin free /\ buf[Line(w)[i].buf] = Line(w)[i].k
      <4>1. Line(w)[i].k \in Entries
        BY <1>2, LineIs DEF JobType
      <4>2. /\ Line(w)[i].k <= reader.k
            /\ Line(w)[i].buf \notin free /\ buf[Line(w)[i].buf] = Line(w)[i].k
        BY <1>2 DEF LinesInv
      <4> QED
        BY <2>2, <4>1, <4>2 DEF Entries
    <3>2. \A w, v \in Workers : \A i \in 1..Len(Line(w)), j \in 1..Len(Line(v)) :
            Line(w)[i].k = Line(v)[j].k => w = v /\ i = j
      BY <1>2 DEF LinesInv
    <3>3. reader'.pc # "send"
      BY <2>4, <2>6
    <3> QED
      BY <2>5, <2>6, <2>9, <3>1, <3>2, <3>3 DEF LinesInv
  <2>11. PendingExact'
    <3>1. InFlight' = InFlight
      BY <2>9 DEF InFlight
    <3>2. reader.pc # "send" /\ reader'.pc # "send"
      BY <1>1, <2>4, <2>6
    <3>3. Outstanding' = Outstanding
      BY <3>1, <3>2 DEF Outstanding
    <3> QED
      BY <1>2, <2>5, <3>3 DEF PendingExact
  <2>12. BarrierInv'
    BY <2>4, <2>6 DEF BarrierInv
  <2> QED
    BY <2>5, <2>6, <2>7, <2>8, <2>10, <2>11, <2>12 DEF PoolInv
<1> QED
  BY <1>3, <1>4

\* The job is counted with its buffer filled, and before it is sent.
LEMMA DispatchKeeps ==
    ASSUME PoolInv, Dispatch
    PROVE  PoolInv'
<1>1. /\ ReaderInv /\ WorkersInv /\ LinesInv /\ PendingExact /\ fs \in [Paths -> Nodes]
      /\ data \in [Entries -> Entries \union {None}] /\ stream \in Streams
      /\ free \subseteq Bufs /\ buf = [b \in Bufs |-> buf[b]]
  BY DEF PoolInv
<1>2. /\ reader.pc = "dispatch"
      /\ UNCHANGED <<input, fs, data, queue, worker, failed>>
  BY DEF Dispatch
<1>3. CASE Break /\ UNCHANGED <<pending, free, buf>>
  BY <1>1, <1>2, <1>3, BreakIs, ReaderKeeps DEF Handlers, poolVars
<1>4. CASE \E b \in free :
               /\ free' = free \ {b} /\ buf' = [buf EXCEPT ![b] = reader.k]
               /\ pending' = pending + 1 /\ Goto("send")
  <2>1. PICK b \in free : /\ free' = free \ {b} /\ buf' = [buf EXCEPT ![b] = reader.k]
                          /\ pending' = pending + 1 /\ Goto("send")
    BY <1>4
  <2>2. /\ reader'.pc = "send" /\ reader'.k = reader.k
        /\ reader' = [pc |-> reader'.pc, k |-> reader'.k, err |-> reader'.err]
    BY <1>1, <2>1, GotoIs
  <2>3. /\ stream' = stream /\ shard' = shard /\ queue' = queue /\ worker' = worker
        /\ fs' = fs /\ data' = data
    BY <1>2 DEF input
  <2>4. /\ Entries' = Entries /\ Nodes' = Nodes /\ Bufs' = Bufs /\ JobType' = JobType
        /\ Entry' = Entry
    BY <2>2, <2>3 DEF Entries, Nodes, Bufs, JobType, Entry
  <2>5. ReaderInv'
    BY <1>1, <1>2, <2>2, <2>3, <2>4 DEF ReaderInv, Handlers
  <2>6. WorkersInv'
    <3>1. \A w \in Workers : Busy(w)' <=> Busy(w)
      BY <2>3 DEF Busy
    <3>2. \A w \in Workers : worker[w].pc # "exited"
      BY <1>1, <1>2 DEF WorkersInv
    <3> QED
      BY <1>1, <2>2, <2>3, <2>4, <3>1, <3>2 DEF WorkersInv
  <2>7. \A w \in Workers : Line(w)' = Line(w)
    BY <2>3, LineKept
  <2>8. /\ b \in Bufs \ free' /\ buf'[b] = reader.k
        /\ buf' = [c \in Bufs |-> buf'[c]]
        /\ \A c \in Bufs \ {b} : buf'[c] = buf[c]
    BY <1>1, <2>1
  <2>9. LinesInv'
    <3>1. ASSUME NEW w \in Workers, NEW i \in 1..Len(Line(w))
          PROVE  /\ Line(w)[i].k <= reader.k /\ Line(w)[i].k # reader.k
                 /\ Line(w)[i].buf \notin free' /\ buf'[Line(w)[i].buf] = Line(w)[i].k
      <4>1. Line(w)[i].buf \in Bufs
        BY <1>1, LineIs DEF JobType
      <4>2. /\ Line(w)[i].k <= reader.k /\ Line(w)[i].k # reader.k
            /\ Line(w)[i].buf \notin free /\ buf[Line(w)[i].buf] = Line(w)[i].k
        BY <1>1, <1>2 DEF LinesInv
      <4> QED
        BY <2>1, <2>8, <4>1, <4>2
    <3>2. \A w, v \in Workers : \A i \in 1..Len(Line(w)), j \in 1..Len(Line(v)) :
            Line(w)[i].k = Line(v)[j].k => w = v /\ i = j
      BY <1>1 DEF LinesInv
    <3>3. \E c \in Bufs' \ free' : buf'[c] = reader'.k
      BY <2>2, <2>4, <2>8
    <3> QED
      BY <2>2, <2>7, <3>1, <3>2, <3>3 DEF LinesInv
  <2>10. PendingExact'
    <3>1. InFlight' = InFlight
      BY <2>7 DEF InFlight
    <3>2. Outstanding = {j.k : j \in InFlight}
      BY <1>2 DEF Outstanding
    <3>3. Outstanding' = Outstanding \union {reader.k}
      BY <2>2, <3>1, <3>2 DEF Outstanding
    <3>4. reader.k \notin Outstanding
      BY <1>1, <1>2, <3>2 DEF LinesInv, InFlight
    <3>5. IsFiniteSet(Outstanding)
      BY <1>1, OutstandingIs
    <3>6. Cardinality(Outstanding \union {reader.k}) = Cardinality(Outstanding) + 1
      BY <3>4, <3>5, FS_AddElement
    <3> QED
      BY <1>1, <2>1, <3>3, <3>6 DEF PendingExact
  <2>11. BarrierInv'
    BY <2>2 DEF BarrierInv
  <2>12. free' \subseteq Bufs
    BY <1>1, <2>1
  <2>13. shard \in [{stream[k].path : k \in {i \in Entries : stream[i].type = "file"}}
                    -> Workers]
    BY DEF PoolInv
  <2> QED
    BY <1>1, <2>3, <2>4, <2>5, <2>6, <2>8, <2>9, <2>10, <2>11, <2>12, <2>13 DEF PoolInv
<1> QED
  BY <1>3, <1>4 DEF Dispatch

\* The job is sent to the end of the line of the worker that owns its path.
LEMMA SendKeeps ==
    ASSUME PoolInv, Send
    PROVE  PoolInv'
<1>0. PICK w, b, job : /\ w = shard[Entry.path]
                       /\ b = CHOOSE x \in Bufs \ free : buf[x] = reader.k
                       /\ job = [k |-> reader.k, path |-> Entry.path, buf |-> b]
  OBVIOUS
<1>1. /\ ReaderInv /\ WorkersInv /\ LinesInv /\ PendingExact /\ fs \in [Paths -> Nodes]
      /\ data \in [Entries -> Entries \union {None}] /\ stream \in Streams
      /\ free \subseteq Bufs /\ buf = [c \in Bufs |-> buf[c]]
      /\ shard \in [{stream[k].path : k \in {i \in Entries : stream[i].type = "file"}}
                    -> Workers]
  BY DEF PoolInv
<1>2. /\ reader.pc = "send" /\ Len(queue[w]) < Cap
      /\ queue' = [queue EXCEPT ![w] = Append(queue[w], job)] /\ Goto("next")
      /\ UNCHANGED <<input, fs, data, worker, pending, failed, free, buf>>
  BY <1>0 DEF Send
<1>3. /\ reader.k \in Entries /\ Entry.type = "file"
  BY <1>1, <1>2 DEF ReaderInv, Handlers
<1>4. w \in Workers
  BY <1>1, <1>3, <1>0 DEF Entry
<1>5. b \in Bufs /\ b \notin free /\ buf[b] = reader.k
  <2>1. \E x \in Bufs \ free : buf[x] = reader.k
    BY <1>1, <1>2 DEF LinesInv
  <2> QED
    BY <2>1, <1>0
<1>6. Entry.path \in Paths
  <2>1. stream \in Seq(EntryType)
    BY <1>1, PoolAssumption
  <2>2. Entry \in EntryType
    BY <1>3, <2>1, ElementOfSeq DEF Entry, Entries
  <2> QED
    BY <2>2 DEF EntryType
<1>7. job \in JobType /\ job.k = reader.k /\ job.buf = b
  BY <1>3, <1>5, <1>6, <1>0 DEF JobType
<1>8. /\ reader'.pc = "next" /\ reader'.k = reader.k
      /\ reader' = [pc |-> reader'.pc, k |-> reader'.k, err |-> reader'.err]
  BY <1>1, <1>2, GotoIs
<1>9. /\ stream' = stream /\ shard' = shard /\ worker' = worker /\ pending' = pending
      /\ free' = free /\ buf' = buf /\ fs' = fs /\ data' = data
  BY <1>2 DEF input
<1>10. /\ Entries' = Entries /\ Nodes' = Nodes /\ Bufs' = Bufs /\ JobType' = JobType
       /\ Entry' = Entry
  BY <1>8, <1>9 DEF Entries, Nodes, Bufs, JobType, Entry
<1>11. /\ queue' = [v \in Workers |-> queue'[v]]
       /\ queue'[w] = Append(queue[w], job)
       /\ \A v \in Workers \ {w} : queue'[v] = queue[v]
  <2>1. queue = [v \in Workers |-> queue[v]]
    BY <1>1 DEF WorkersInv
  <2> QED
    BY <1>2, <1>4, <2>1
<1>12. ReaderInv'
  BY <1>1, <1>8, <1>9, <1>10 DEF ReaderInv, Handlers
<1>13. WorkersInv'
  <2>1. \A v \in Workers : Busy(v)' <=> Busy(v)
    BY <1>9 DEF Busy
  <2>2. \A v \in Workers : worker[v].pc # "exited"
    BY <1>1, <1>2 DEF WorkersInv
  <2>3. ASSUME NEW v \in Workers
        PROVE  queue'[v] \in Seq(JobType) /\ Len(queue'[v]) <= Cap
    <3>1. queue[v] \in Seq(JobType) /\ Len(queue[v]) <= Cap
      BY <1>1 DEF WorkersInv
    <3>2. CASE v = w
      <4>1. /\ Append(queue[w], job) \in Seq(JobType)
            /\ Len(Append(queue[w], job)) = Len(queue[w]) + 1 /\ Len(queue[w]) \in Nat
        BY <1>7, <3>1, <3>2
      <4> QED
        BY <1>2, <1>11, <3>2, <4>1, PoolAssumption
    <3>3. CASE v # w
      BY <1>11, <3>1, <3>3
    <3> QED
      BY <3>2, <3>3
  <2> QED
    BY <1>1, <1>8, <1>9, <1>10, <1>11, <2>1, <2>2, <2>3 DEF WorkersInv
<1>14. /\ Line(w)' = Append(Line(w), job)
       /\ \A v \in Workers \ {w} : Line(v)' = Line(v)
  BY <1>1, <1>4, <1>7, <1>9, <1>11, LineSend, LineKept
<1>15. /\ Line(w) \in Seq(JobType) /\ Len(Line(w)) \in Nat
       /\ Len(Line(w)') = Len(Line(w)) + 1
       /\ Line(w)'[Len(Line(w)) + 1] = job
       /\ \A i \in 1..Len(Line(w)) : Line(w)'[i] = Line(w)[i]
  <2>1. Line(w) \in Seq(JobType) /\ Len(Line(w)) \in Nat
    BY <1>1, <1>4, LineIs
  <2> QED
    BY <1>7, <1>14, <2>1, AppendProperties
\* A place in a new line is that of an old job, or the new one's.
<1>16. ASSUME NEW v \in Workers, NEW i \in 1..Len(Line(v)')
       PROVE  \/ i \in 1..Len(Line(v)) /\ Line(v)'[i] = Line(v)[i]
              \/ v = w /\ i = Len(Line(w)) + 1 /\ Line(v)'[i] = job
  <2>1. CASE v = w
    BY <1>15, <2>1
  <2>2. CASE v # w
    BY <1>14, <2>2
  <2> QED
    BY <2>1, <2>2
<1>17. ASSUME NEW v \in Workers, NEW i \in 1..Len(Line(v))
       PROVE  /\ Line(v)[i].k <= reader.k /\ Line(v)[i].k # reader.k
              /\ Line(v)[i].buf \notin free /\ buf[Line(v)[i].buf] = Line(v)[i].k
  BY <1>1, <1>2 DEF LinesInv
<1>18. LinesInv'
  <2>1. ASSUME NEW u \in Workers, NEW v \in Workers,
               NEW i \in 1..Len(Line(u)'), NEW j \in 1..Len(Line(v)'),
               Line(u)'[i].k = Line(v)'[j].k
        PROVE  u = v /\ i = j
    <3>1. \A x, y \in Workers : \A m \in 1..Len(Line(x)), n \in 1..Len(Line(y)) :
            Line(x)[m].k = Line(y)[n].k => x = y /\ m = n
      BY <1>1 DEF LinesInv
    <3>2. \/ i \in 1..Len(Line(u)) /\ Line(u)'[i] = Line(u)[i]
          \/ u = w /\ i = Len(Line(w)) + 1 /\ Line(u)'[i] = job
      BY <1>16
    <3>3. \/ j \in 1..Len(Line(v)) /\ Line(v)'[j] = Line(v)[j]
          \/ v = w /\ j = Len(Line(w)) + 1 /\ Line(v)'[j] = job
      BY <1>16
    <3> QED
      BY <1>7, <1>17, <2>1, <3>1, <3>2, <3>3
  <2>2. ASSUME NEW v \in Workers, NEW i \in 1..Len(Line(v)')
        PROVE  /\ Line(v)'[i].k <= reader.k
               /\ Line(v)'[i].buf \notin free /\ buf[Line(v)'[i].buf] = Line(v)'[i].k
    <3>1. CASE i \in 1..Len(Line(v)) /\ Line(v)'[i] = Line(v)[i]
      BY <1>17, <3>1
    <3>2. CASE Line(v)'[i] = job
      <4>1. reader.k <= reader.k
        BY <1>1 DEF ReaderInv
      <4> QED
        BY <1>5, <1>7, <3>2, <4>1
    <3> QED
      BY <1>16, <3>1, <3>2
  <2> QED
    BY <1>8, <1>9, <2>1, <2>2 DEF LinesInv
<1>19. PendingExact'
  <2>1. InFlight' = InFlight \union {job}
    <3>1. ASSUME NEW x \in InFlight' PROVE x \in InFlight \union {job}
      <4>1. PICK v \in Workers : \E i \in 1..Len(Line(v)') : x = Line(v)'[i]
        BY DEF InFlight
      <4> QED
        BY <1>16, <4>1 DEF InFlight
    <3>2. ASSUME NEW x \in InFlight PROVE x \in InFlight'
      <4>1. PICK v \in Workers : \E i \in 1..Len(Line(v)) : x = Line(v)[i]
        BY DEF InFlight
      <4>2. ASSUME NEW i \in 1..Len(Line(v))
            PROVE  i \in 1..Len(Line(v)') /\ Line(v)'[i] = Line(v)[i]
        <5>1. CASE v = w
          BY <1>15, <5>1
        <5>2. CASE v # w
          BY <1>14, <5>2
        <5> QED
          BY <5>1, <5>2
      <4> QED
        BY <4>1, <4>2 DEF InFlight
    <3>3. job \in InFlight'
      <4>1. Len(Line(w)) + 1 \in 1..Len(Line(w)')
        BY <1>15
      <4> QED
        BY <1>4, <1>15, <4>1 DEF InFlight
    <3> QED
      BY <3>1, <3>2, <3>3
  <2>2. Outstanding' = Outstanding
    BY <1>2, <1>7, <1>8, <2>1 DEF Outstanding
  <2> QED
    BY <1>1, <1>9, <2>2 DEF PendingExact
<1>20. BarrierInv'
  BY <1>8 DEF BarrierInv
<1> QED
  BY <1>1, <1>9, <1>10, <1>12, <1>13, <1>18, <1>19, <1>20 DEF PoolInv

-----------------------------------------------------------------------------
(***************************************************************************)
(* The workers.                                                            *)
(***************************************************************************)
\* A step of a worker that keeps its jobs: of the pool it changes its own pc,
\* its channel and the error only.
LEMMA WorkerKeeps ==
    ASSUME PoolInv, NEW w \in Workers,
           UNCHANGED <<input, reader, pending, free, buf>>,
           fs' \in [Paths -> Nodes], data' \in [Entries -> Entries \union {None}],
           worker' = [v \in Workers |-> worker'[v]],
           queue' = [v \in Workers |-> queue'[v]],
           \A v \in Workers \ {w} : worker'[v] = worker[v] /\ queue'[v] = queue[v],
           queue'[w] \in Seq(JobType), Len(queue'[w]) <= Cap,
           worker'[w] = [pc |-> worker'[w].pc, job |-> worker'[w].job],
           worker'[w].pc \in {"check", "mkdir", "remove", "create", "write", "put"},
           worker'[w].job \in JobType, worker[w].pc # "exited",
           Line(w)' = Line(w)
    PROVE  PoolInv'
<1>1. /\ stream' = stream /\ shard' = shard /\ reader' = reader
      /\ pending' = pending /\ free' = free /\ buf' = buf
  BY DEF input
<1>2. /\ Entries' = Entries /\ Nodes' = Nodes /\ Bufs' = Bufs /\ JobType' = JobType
      /\ Entry' = Entry
  BY <1>1 DEF Entries, Nodes, Bufs, JobType, Entry
<1>3. ReaderInv'
  BY <1>1, <1>2 DEF PoolInv, ReaderInv, Handlers
<1>4. WorkersInv'
  <2>1. WorkersInv
    BY DEF PoolInv
  <2>2. reader.pc # "returned"
    BY <2>1 DEF WorkersInv
  <2>3. Busy(w)' /\ \A v \in Workers \ {w} : Busy(v)' <=> Busy(v)
    BY DEF Busy
  <2>4. ASSUME NEW v \in Workers
        PROVE  /\ queue'[v] \in Seq(JobType) /\ Len(queue'[v]) <= Cap
               /\ worker'[v] = [pc |-> worker'[v].pc, job |-> worker'[v].job]
               /\ worker'[v].pc \in {"idle", "check", "mkdir", "remove", "create",
                                     "write", "put", "exited"}
               /\ worker'[v].job \in IF Busy(v)' THEN JobType ELSE {None}
               /\ worker'[v].pc = "exited" => reader.pc \in {"stop", "returned"}
    <3>1. CASE v = w
      BY <2>3, <3>1
    <3>2. CASE v # w
      BY <2>1, <2>3, <3>2 DEF WorkersInv
    <3> QED
      BY <3>1, <3>2
  <2> QED
    BY <1>1, <1>2, <2>2, <2>4 DEF WorkersInv
<1>5. LinesInv' /\ PendingExact'
  <2>1. \A v \in Workers : Line(v)' = Line(v)
    BY LineKept
  <2>2. LinesInv /\ PendingExact
    BY DEF PoolInv
  <2> QED
    BY <1>1, <2>1, <2>2, LinesKept
<1>6. BarrierInv'
  BY <1>1 DEF PoolInv, BarrierInv
<1> QED
  BY <1>1, <1>2, <1>3, <1>4, <1>5, <1>6 DEF PoolInv

LEMMA TakeKeeps ==
    ASSUME PoolInv, NEW w \in Workers, Take(w)
    PROVE  PoolInv'
<1> DEFINE q == queue[w]
           got == [pc |-> "check", job |-> Head(q)]
<1>1. /\ WorkersInv /\ fs \in [Paths -> Nodes]
      /\ data \in [Entries -> Entries \union {None}]
  BY DEF PoolInv
<1>2. /\ worker[w].pc = "idle" /\ q # <<>>
      /\ worker' = [worker EXCEPT ![w] = got] /\ queue' = [queue EXCEPT ![w] = Tail(q)]
      /\ UNCHANGED <<input, fs, data, reader, pending, failed, free, buf>>
  BY DEF Take
<1>3. /\ q \in Seq(JobType) /\ Len(q) <= Cap
      /\ worker = [v \in Workers |-> worker[v]] /\ queue = [v \in Workers |-> queue[v]]
  BY <1>1 DEF WorkersInv
<1>4. Line(w)' = Line(w)
  BY <1>1, LineTake
<1>5. /\ Head(q) \in JobType /\ Tail(q) \in Seq(JobType) /\ Len(Tail(q)) <= Cap
  <2> HIDE DEF q
  <2>1. /\ Head(q) \in JobType /\ Tail(q) \in Seq(JobType)
        /\ Len(Tail(q)) = Len(q) - 1 /\ Len(q) \in Nat
    BY <1>2, <1>3
  <2> QED
    BY <1>3, <2>1, PoolAssumption
<1>6. got = [pc |-> got.pc, job |-> got.job] /\ got.pc = "check" /\ got.job = Head(q)
  OBVIOUS
<1> HIDE DEF q, got
<1>7. /\ worker' = [v \in Workers |-> worker'[v]] /\ queue' = [v \in Workers |-> queue'[v]]
      /\ worker'[w] = got /\ queue'[w] = Tail(q)
      /\ \A v \in Workers \ {w} : worker'[v] = worker[v] /\ queue'[v] = queue[v]
  BY <1>2, <1>3
<1> QED
  BY <1>1, <1>2, <1>4, <1>5, <1>6, <1>7, WorkerKeeps

\* A call of a worker on the job in hand.
LEMMA CallKeeps ==
    ASSUME PoolInv, NEW w \in Workers, NEW pc, Step(w, pc), Busy(w),
           pc \in {"mkdir", "remove", "create", "write", "put"},
           UNCHANGED <<input, reader, queue, pending, free, buf>>,
           fs' \in [Paths -> Nodes], data' \in [Entries -> Entries \union {None}]
    PROVE  PoolInv'
<1>1. WorkersInv
  BY DEF PoolInv
<1>2. /\ worker' = [v \in Workers |-> worker'[v]]
      /\ worker'[w] = [pc |-> pc, job |-> Job(w)]
      /\ worker'[w].pc = pc /\ Job(w)' = Job(w)
      /\ \A v \in Workers \ {w} : worker'[v] = worker[v]
  BY <1>1, StepIs
<1>3. worker'[w].job = Job(w) /\ Job(w) \in JobType /\ worker[w].pc # "exited"
  BY <1>1, <1>2 DEF Job, WorkersInv, Busy
<1>4. /\ queue = [v \in Workers |-> queue[v]] /\ queue[w] \in Seq(JobType)
      /\ Len(queue[w]) <= Cap
  BY <1>1 DEF WorkersInv
<1>5. Busy(w)'
  BY <1>2 DEF Busy
<1>6. Line(w)' = Line(w)
  BY <1>2, <1>5 DEF Line
<1> QED
  BY <1>2, <1>3, <1>4, <1>6, WorkerKeeps

\* The calls on the directory.
LEMMA FileCallKeeps ==
    ASSUME PoolInv, NEW w \in Workers, NEW pc, NEW trees, NEW next,
           Call(w, pc, trees, next), trees \subseteq [Paths -> Nodes],
           pc \in {"mkdir", "remove", "create"}, next \in {"remove", "create", "write"}
    PROVE  PoolInv'
<1>1. fs \in [Paths -> Nodes] /\ data \in [Entries -> Entries \union {None}]
  BY DEF PoolInv
<1>2. /\ Busy(w) /\ UNCHANGED <<input, data, reader, queue, pending, free, buf>>
      /\ (fs' \in trees /\ Step(w, next)) \/ (fs' = fs /\ Step(w, "put"))
  BY DEF Call, Busy
<1>3. CASE fs' \in trees /\ Step(w, next)
  BY <1>1, <1>2, <1>3, CallKeeps
<1>4. CASE fs' = fs /\ Step(w, "put")
  BY <1>1, <1>2, <1>4, CallKeeps
<1> QED
  BY <1>2, <1>3, <1>4

LEMMA WorkerJobKeeps ==
    ASSUME PoolInv, NEW w \in Workers,
           Check(w) \/ WorkerMkdir(w) \/ WorkerRemove(w) \/ WorkerCreate(w) \/ WorkerWrite(w)
    PROVE  PoolInv'
<1>1. /\ fs \in [Paths -> Nodes] /\ data \in [Entries -> Entries \union {None}]
      /\ WorkersInv /\ LinesInv
  BY DEF PoolInv
<1>2. CASE Check(w)
  <2>1. /\ Busy(w) /\ UNCHANGED <<input, fs, data, reader, queue, pending, free, buf>>
        /\ Step(w, "put") \/ Step(w, "mkdir")
    BY <1>2 DEF Check, Busy
  <2> QED
    BY <1>1, <2>1, CallKeeps
<1>3. CASE WorkerMkdir(w)
  <2>1. MkdirParent(fs, Job(w).path) \subseteq [Paths -> Nodes]
    BY <1>1, MkdirParentOK
  <2> QED
    BY <1>3, <2>1, FileCallKeeps DEF WorkerMkdir
<1>4. CASE WorkerRemove(w)
  <2>1. Remove(fs, Job(w).path) \subseteq [Paths -> Nodes]
    BY <1>1, RemoveOK
  <2> QED
    BY <1>4, <2>1, FileCallKeeps DEF WorkerRemove
<1>5. CASE WorkerCreate(w)
  <2>1. Job(w).k \in Entries
    BY <1>1, <1>5 DEF WorkerCreate, Call, WorkersInv, Busy, Job, JobType
  <2>2. Create(fs, Job(w).path, File(Job(w).k)) \subseteq [Paths -> Nodes]
    <3>1. File(Job(w).k) \in Nodes
      BY <2>1 DEF Nodes
    <3> QED
      BY <1>1, <3>1, CreateOK
  <2> QED
    BY <1>5, <2>2, FileCallKeeps DEF WorkerCreate
<1>6. CASE WorkerWrite(w)
  <2>1. /\ Busy(w) /\ UNCHANGED <<input, fs, reader, queue, pending, free, buf>>
        /\ Step(w, "put")
        /\ data' = data \/ data' = [data EXCEPT ![Job(w).k] = buf[Job(w).buf]]
    BY <1>6 DEF WorkerWrite, Busy
  <2>2. Job(w).k \in Entries /\ buf[Job(w).buf] = Job(w).k
    <3>1. /\ Line(w) = <<Job(w)>> \o queue[w] /\ Job(w) \in JobType
          /\ queue[w] \in Seq(JobType)
      BY <1>1, <2>1 DEF Line, WorkersInv, Job
    <3>2. Len(Line(w)) >= 1 /\ Line(w)[1] = Job(w) /\ Len(Line(w)) \in Nat
      BY <3>1, ConcatProperties
    <3>3. 1 \in 1..Len(Line(w))
      BY <3>2
    <3> QED
      BY <1>1, <3>1, <3>2, <3>3 DEF LinesInv, JobType
  <2>3. data' \in [Entries -> Entries \union {None}]
    BY <1>1, <2>1, <2>2
  <2> QED
    BY <1>1, <2>1, <2>3, CallKeeps
<1> QED
  BY <1>2, <1>3, <1>4, <1>5, <1>6

\* A worker that exits had nothing left.
LEMMA ExitKeeps ==
    ASSUME PoolInv, NEW w \in Workers, Exit(w)
    PROVE  PoolInv'
<1>1. WorkersInv /\ LinesInv /\ PendingExact /\ ReaderInv /\ BarrierInv
  BY DEF PoolInv
<1>2. /\ worker[w].pc = "idle" /\ reader.pc = "stop" /\ Step(w, "exited")
      /\ UNCHANGED <<input, fs, data, reader, queue, pending, failed, free, buf>>
  BY DEF Exit
<1>3. /\ stream' = stream /\ shard' = shard /\ reader' = reader /\ queue' = queue
      /\ pending' = pending /\ free' = free /\ buf' = buf /\ fs' = fs /\ data' = data
  BY <1>2 DEF input
<1>4. /\ Entries' = Entries /\ Nodes' = Nodes /\ Bufs' = Bufs /\ JobType' = JobType
      /\ Entry' = Entry
  BY <1>3 DEF Entries, Nodes, Bufs, JobType, Entry
<1>5. /\ worker' = [v \in Workers |-> worker'[v]]
      /\ worker'[w] = [pc |-> "exited", job |-> Job(w)]
      /\ worker'[w].pc = "exited" /\ Job(w)' = Job(w)
      /\ \A v \in Workers \ {w} : worker'[v] = worker[v]
  BY <1>1, <1>2, StepIs
<1>6. ~Busy(w) /\ ~Busy(w)' /\ \A v \in Workers \ {w} : Busy(v)' <=> Busy(v)
  BY <1>2, <1>5 DEF Busy
<1>7. ReaderInv'
  BY <1>1, <1>3, <1>4 DEF ReaderInv, Handlers
<1>8. WorkersInv'
  <2>1. worker'[w].job = None
    BY <1>1, <1>5, <1>6 DEF Job, WorkersInv
  <2>2. ASSUME NEW v \in Workers
        PROVE  /\ worker'[v] = [pc |-> worker'[v].pc, job |-> worker'[v].job]
               /\ worker'[v].pc \in {"idle", "check", "mkdir", "remove", "create",
                                     "write", "put", "exited"}
               /\ worker'[v].job \in IF Busy(v)' THEN JobType ELSE {None}
    <3>1. CASE v = w
      <4>1. worker'[w] = [pc |-> worker'[w].pc, job |-> worker'[w].job]
        BY <1>5
      <4> QED
        BY <1>5, <1>6, <2>1, <3>1, <4>1
    <3>2. CASE v # w
      BY <1>1, <1>5, <1>6, <3>2 DEF WorkersInv
    <3> QED
      BY <3>1, <3>2
  <2> QED
    BY <1>1, <1>2, <1>3, <1>4, <1>5, <2>2 DEF WorkersInv
<1>9. LinesInv' /\ PendingExact'
  <2>1. Line(w)' = Line(w)
    BY <1>3, <1>6 DEF Line
  <2>2. \A v \in Workers : Line(v)' = Line(v)
    BY <1>3, <1>5, <2>1, LineKept
  <2> QED
    BY <1>1, <1>3, <2>2, LinesKept
<1>10. BarrierInv'
  BY <1>1, <1>3 DEF BarrierInv
<1> QED
  BY <1>3, <1>4, <1>5, <1>7, <1>8, <1>9, <1>10 DEF PoolInv

\* A job that is done leaves its line, gives its buffer back and is counted
\* off: the other jobs' buffers are others.
LEMMA DoneKeeps ==
    ASSUME PoolInv, NEW w \in Workers, Done(w)
    PROVE  PoolInv'
<1>1. /\ ReaderInv /\ WorkersInv /\ LinesInv /\ PendingExact /\ BarrierInv
      /\ stream \in Streams /\ free \subseteq Bufs
  BY DEF PoolInv
<1>2. PICK job : job = Job(w)
  OBVIOUS
<1>3. /\ worker[w].pc = "put" /\ free' = free \union {job.buf} /\ pending' = pending - 1
      /\ worker' = [worker EXCEPT ![w] = Idle]
      /\ UNCHANGED <<input, fs, data, reader, queue, failed, buf>>
  BY <1>2 DEF Done
<1>4. /\ stream' = stream /\ shard' = shard /\ reader' = reader /\ queue' = queue
      /\ buf' = buf /\ fs' = fs /\ data' = data
  BY <1>3 DEF input
<1>5. /\ Entries' = Entries /\ Nodes' = Nodes /\ Bufs' = Bufs /\ JobType' = JobType
      /\ Entry' = Entry
  BY <1>4 DEF Entries, Nodes, Bufs, JobType, Entry
<1>6. /\ worker' = [v \in Workers |-> worker'[v]] /\ worker'[w] = Idle
      /\ \A v \in Workers \ {w} : worker'[v] = worker[v]
  <2>1. worker = [v \in Workers |-> worker[v]]
    BY <1>1 DEF WorkersInv
  <2> QED
    BY <1>3, <2>1
<1>7. /\ Busy(w) /\ ~Busy(w)' /\ (\A v \in Workers \ {w} : Busy(v)' <=> Busy(v))
      /\ job \in JobType
  BY <1>1, <1>2, <1>3, <1>6 DEF Busy, Idle, WorkersInv, Job
<1>8. ReaderInv'
  BY <1>1, <1>4, <1>5 DEF ReaderInv, Handlers
<1>9. WorkersInv'
  <2>1. reader.pc # "returned"
    BY <1>1, <1>3 DEF WorkersInv
  <2>2. ASSUME NEW v \in Workers
        PROVE  /\ worker'[v] = [pc |-> worker'[v].pc, job |-> worker'[v].job]
               /\ worker'[v].pc \in {"idle", "check", "mkdir", "remove", "create",
                                     "write", "put", "exited"}
               /\ worker'[v].job \in IF Busy(v)' THEN JobType ELSE {None}
               /\ worker'[v].pc = "exited" => reader.pc \in {"stop", "returned"}
    <3>1. CASE v = w
      BY <1>6, <1>7, <3>1 DEF Idle
    <3>2. CASE v # w
      BY <1>1, <1>6, <1>7, <3>2 DEF WorkersInv
    <3> QED
      BY <3>1, <3>2
  <2> QED
    BY <1>1, <1>4, <1>5, <1>6, <2>1, <2>2 DEF WorkersInv
<1>10. /\ Len(Line(w)) = Len(Line(w)') + 1 /\ Len(Line(w)') \in Nat
       /\ Line(w)[1] = job
       /\ \A i \in 1..Len(Line(w)') : Line(w)'[i] = Line(w)[i + 1]
  BY <1>1, <1>2, <1>4, <1>7, LineDone
<1>11. \A v \in Workers \ {w} : Line(v)' = Line(v)
  BY <1>4, <1>6, LineKept
\* Where a job that stays was before: never first in the line of w.
<1>12. ASSUME NEW v \in Workers, NEW i \in 1..Len(Line(v)')
       PROVE  \E m \in 1..Len(Line(v)) : /\ Line(v)'[i] = Line(v)[m]
                                         /\ m = IF v = w THEN i + 1 ELSE i
  <2>1. CASE v = w
    <3>1. i + 1 \in 1..Len(Line(w))
      BY <1>10, <2>1
    <3> QED
      BY <1>10, <2>1, <3>1
  <2>2. CASE v # w
    BY <1>11, <2>2
  <2> QED
    BY <2>1, <2>2
<1>13. 1 \in 1..Len(Line(w)) /\ job = Line(w)[1]
  BY <1>10
<1>14. \A u, v \in Workers : \A m \in 1..Len(Line(u)), n \in 1..Len(Line(v)) :
         Line(u)[m].k = Line(v)[n].k => u = v /\ m = n
  BY <1>1 DEF LinesInv
<1>15. ASSUME NEW v \in Workers, NEW i \in 1..Len(Line(v)')
       PROVE  Line(v)'[i].k # job.k
  <2>1. PICK m \in 1..Len(Line(v)) : /\ Line(v)'[i] = Line(v)[m]
                                     /\ m = IF v = w THEN i + 1 ELSE i
    BY <1>12
  <2>2. v = w => m # 1
    BY <1>10, <2>1
  <2> QED
    BY <1>13, <1>14, <2>1, <2>2
<1>16. job.k \in Entries /\ buf[job.buf] = job.k /\ job.buf \in Bufs
  BY <1>1, <1>7, <1>13 DEF LinesInv, JobType
<1>17. LinesInv'
  <2>1. ASSUME NEW u \in Workers, NEW v \in Workers,
               NEW i \in 1..Len(Line(u)'), NEW j \in 1..Len(Line(v)'),
               Line(u)'[i].k = Line(v)'[j].k
        PROVE  u = v /\ i = j
    <3>1. PICK m \in 1..Len(Line(u)) : /\ Line(u)'[i] = Line(u)[m]
                                       /\ m = IF u = w THEN i + 1 ELSE i
      BY <1>12
    <3>2. PICK n \in 1..Len(Line(v)) : /\ Line(v)'[j] = Line(v)[n]
                                       /\ n = IF v = w THEN j + 1 ELSE j
      BY <1>12
    <3>3. u = v /\ m = n
      BY <1>14, <2>1, <3>1, <3>2
    <3>4. i \in Int /\ j \in Int
      OBVIOUS
    <3> QED
      BY <3>1, <3>2, <3>3, <3>4
  <2>2. ASSUME NEW v \in Workers, NEW i \in 1..Len(Line(v)')
        PROVE  LET j == Line(v)'[i]
               IN  /\ j.k <= reader.k
                   /\ reader.pc \in {"dispatch", "send"} => j.k # reader.k
                   /\ j.buf \notin free' /\ buf[j.buf] = j.k
    <3>1. PICK m \in 1..Len(Line(v)) : Line(v)'[i] = Line(v)[m]
      BY <1>12
    <3>2. /\ Line(v)[m].k <= reader.k
          /\ reader.pc \in {"dispatch", "send"} => Line(v)[m].k # reader.k
          /\ Line(v)[m].buf \notin free /\ buf[Line(v)[m].buf] = Line(v)[m].k
      BY <1>1 DEF LinesInv
    <3>3. Line(v)[m].k # job.k
      BY <1>15, <3>1
    <3> QED
      BY <1>3, <1>16, <3>1, <3>2, <3>3
  <2>3. reader.pc = "send" => \E b \in Bufs \ free' : buf[b] = reader.k
    <3>1. SUFFICES ASSUME reader.pc = "send"
                   PROVE  \E b \in Bufs \ free' : buf[b] = reader.k
      OBVIOUS
    <3>2. PICK b \in Bufs \ free : buf[b] = reader.k
      BY <1>1, <3>1 DEF LinesInv
    <3>3. job.k # reader.k
      BY <1>1, <1>13, <3>1 DEF LinesInv
    <3> QED
      BY <1>3, <1>16, <3>2, <3>3
  <2> QED
    BY <1>4, <1>5, <2>1, <2>2, <2>3 DEF LinesInv
<1>18. job.k \in Outstanding
  BY <1>13 DEF Outstanding, InFlight
<1>19. Outstanding' = Outstanding \ {job.k}
  <2>1. ASSUME NEW x \in {j.k : j \in InFlight'} PROVE x \in {j.k : j \in InFlight} \ {job.k}
    <3>1. PICK v \in Workers : \E i \in 1..Len(Line(v)') : x = Line(v)'[i].k
      BY DEF InFlight
    <3>2. PICK i \in 1..Len(Line(v)') : x = Line(v)'[i].k
      BY <3>1
    <3>3. PICK m \in 1..Len(Line(v)) : Line(v)'[i] = Line(v)[m]
      BY <1>12
    <3>4. Line(v)[m] \in InFlight
      BY DEF InFlight
    <3> QED
      BY <1>15, <3>2, <3>3, <3>4
  <2>2. ASSUME NEW x \in {j.k : j \in InFlight}, x # job.k PROVE x \in {j.k : j \in InFlight'}
    <3>1. PICK v \in Workers : \E i \in 1..Len(Line(v)) : x = Line(v)[i].k
      BY DEF InFlight
    <3>2. PICK i \in 1..Len(Line(v)) : x = Line(v)[i].k
      BY <3>1
    <3>3. \E m \in 1..Len(Line(v)') : Line(v)'[m] = Line(v)[i]
      <4>1. CASE v = w
        <5>1. i # 1
          BY <1>10, <2>2, <3>2, <4>1
        <5>2. i - 1 \in 1..Len(Line(w)') /\ (i - 1) + 1 = i
          BY <1>10, <4>1, <5>1
        <5>3. Line(w)'[i - 1] = Line(w)[i]
          BY <1>10, <5>2
        <5> QED
          BY <4>1, <5>2, <5>3
      <4>2. CASE v # w
        BY <1>11, <4>2
      <4> QED
        BY <4>1, <4>2
    <3>4. PICK m \in 1..Len(Line(v)') : Line(v)'[m] = Line(v)[i]
      BY <3>3
    <3>5. Line(v)'[m] \in InFlight'
      BY DEF InFlight
    <3> QED
      BY <3>2, <3>4, <3>5
  <2>3. reader.pc = "send" => reader.k # job.k
    BY <1>1, <1>13 DEF LinesInv
  <2> QED
    BY <1>4, <2>1, <2>2, <2>3 DEF Outstanding
<1>20. /\ PendingExact' /\ pending >= 1 /\ pending \in Nat
  <2>1. IsFiniteSet(Outstanding) /\ Cardinality(Outstanding) \in Nat
    <3>1. Len(stream) \in Nat
      BY <1>1, PoolAssumption
    <3> QED
      BY <1>1, <3>1, OutstandingIs
  <2>2. Cardinality(Outstanding \ {job.k}) = Cardinality(Outstanding) - 1
    BY <1>18, <2>1, FS_RemoveElement
  <2>3. Cardinality(Outstanding) # 0
    BY <1>18, <2>1, FS_EmptySet
  <2> QED
    BY <1>1, <1>3, <1>19, <2>1, <2>2, <2>3 DEF PendingExact
<1>21. BarrierInv'
  BY <1>1, <1>4, <1>20 DEF BarrierInv
<1>22. free' \subseteq Bufs
  BY <1>1, <1>3, <1>16
<1> QED
  BY <1>4, <1>5, <1>8, <1>9, <1>17, <1>20, <1>21, <1>22 DEF PoolInv

-----------------------------------------------------------------------------
(***************************************************************************)
(* The invariant of the pool, and what follows from it.                    *)
(***************************************************************************)
LEMMA InitPool == Init => PoolInv
<1> SUFFICES ASSUME Init PROVE PoolInv
  OBVIOUS
<1>1. /\ stream \in Streams /\ fs = Bare /\ data = [k \in Entries |-> None]
      /\ reader = [pc |-> "next", k |-> 0, err |-> FALSE]
      /\ queue = [w \in Workers |-> <<>>] /\ worker = [w \in Workers |-> Idle]
      /\ pending = 0 /\ free = Bufs /\ buf = [b \in Bufs |-> None]
  BY DEF Init
<1>2. fs \in [Paths -> Nodes]
  BY <1>1 DEF Bare, Nodes
<1>3. data \in [Entries -> Entries \union {None}]
  BY <1>1
<1>4. ReaderInv
  <2>1. reader.pc = "next" /\ reader.k = 0
    BY <1>1
  <2>2. reader = [pc |-> reader.pc, k |-> reader.k, err |-> reader.err]
    BY <1>1
  <2>3. Len(stream) \in Nat
    BY <1>1, PoolAssumption
  <2> QED
    BY <2>1, <2>2, <2>3 DEF ReaderInv, Handlers
<1>5. \A w \in Workers : /\ queue[w] = <<>> /\ worker[w] = Idle /\ ~Busy(w)
                         /\ Line(w) = <<>> /\ Len(Line(w)) = 0
  BY <1>1 DEF Busy, Idle, Line
<1>6. WorkersInv
  <2>1. <<>> \in Seq(JobType) /\ Len(<<>>) = 0
    OBVIOUS
  <2>2. reader.pc = "next" /\ Idle = [pc |-> "idle", job |-> None]
    BY <1>1 DEF Idle
  <2>3. 0 <= Cap
    BY PoolAssumption
  <2> QED
    BY <1>1, <1>5, <2>1, <2>2, <2>3 DEF WorkersInv
<1>7. LinesInv
  <2>1. reader.pc # "send"
    BY <1>1
  <2>2. \A w \in Workers : 1..Len(Line(w)) = {}
    BY <1>5
  <2> QED
    BY <2>1, <2>2 DEF LinesInv
<1>8. PendingExact
  <2>1. \A w \in Workers : 1..Len(Line(w)) = {}
    BY <1>5
  <2>2. InFlight = {}
    BY <2>1 DEF InFlight
  <2>3. reader.pc # "send"
    BY <1>1
  <2>4. Outstanding = {}
    BY <2>2, <2>3 DEF Outstanding
  <2> QED
    BY <1>1, <2>4, FS_EmptySet DEF PendingExact
<1>9. BarrierInv
  BY <1>1 DEF BarrierInv
<1>10. buf = [b \in Bufs |-> buf[b]]
  BY <1>1
<1>11. shard \in [{stream[k].path : k \in {i \in Entries : stream[i].type = "file"}}
                  -> Workers]
  BY DEF Init
<1> QED
  BY <1>1, <1>2, <1>3, <1>4, <1>6, <1>7, <1>8, <1>9, <1>10, <1>11 DEF PoolInv

LEMMA PoolStep == PoolInv /\ [Next]_vars => PoolInv'
<1> SUFFICES ASSUME PoolInv, [Next]_vars PROVE PoolInv'
  OBVIOUS
<1>1. CASE Reader
  BY <1>1, ReadHeaderKeeps, ReaderOtherKeeps, ReaderInlineKeeps, DispatchKeeps,
     SendKeeps DEF Reader
<1>2. ASSUME NEW w \in Workers, Worker(w) PROVE PoolInv'
  BY <1>2, TakeKeeps, WorkerJobKeeps, DoneKeeps, ExitKeeps DEF Worker
<1>3. CASE UNCHANGED vars
  <2>1. /\ stream' = stream /\ shard' = shard /\ reader' = reader /\ queue' = queue
        /\ worker' = worker /\ pending' = pending /\ free' = free
        /\ buf' = buf /\ fs' = fs /\ data' = data
    BY <1>3 DEF vars
  <2>2. /\ Entries' = Entries /\ Nodes' = Nodes /\ Bufs' = Bufs /\ JobType' = JobType
        /\ Entry' = Entry
    BY <2>1 DEF Entries, Nodes, Bufs, JobType, Entry
  <2>3. \A w \in Workers : (Busy(w)' <=> Busy(w)) /\ Line(w)' = Line(w)
    BY <2>1, LineKept DEF Busy
  <2>4. ReaderInv' /\ BarrierInv'
    BY <2>1, <2>2 DEF PoolInv, ReaderInv, BarrierInv, Handlers
  <2>5. WorkersInv'
    BY <2>1, <2>2, <2>3 DEF PoolInv, WorkersInv
  <2>6. LinesInv' /\ PendingExact'
    BY <2>1, <2>3, LinesKept DEF PoolInv
  <2> QED
    BY <2>1, <2>2, <2>4, <2>5, <2>6 DEF PoolInv
<1> QED
  BY <1>1, <1>2, <1>3 DEF Next, Returned

\* The inductive invariant of the extraction: jobs in flight are of different
\* entries, hold their own buffers, and are exactly what the WaitGroup counts;
\* behind a flush there are none (untarpool.go: dispatch, flush, close, the
\* workers' loop).
THEOREM PoolInvariant == Spec => []PoolInv
  BY InitPool, PoolStep, PTL DEF Spec

\* The directory, the channels, the buffers and the counter stay within their
\* types and bounds.
THEOREM PoolTypeCorrect == Spec => []TypeOK
<1>1. PoolInv => TypeOK
  <2> SUFFICES ASSUME PoolInv PROVE TypeOK
    OBVIOUS
  <2>1. /\ ReaderInv /\ WorkersInv /\ PendingExact /\ fs \in [Paths -> Nodes]
        /\ data \in [Entries -> Entries \union {None}] /\ stream \in Streams
        /\ free \subseteq Bufs
    BY DEF PoolInv
  <2>2. ASSUME NEW p \in Paths, fs[p] # None
        PROVE  CASE fs[p].kind = "dir"  -> fs[p].ref = None
                 [] fs[p].kind = "file" -> fs[p].ref \in Entries
                 [] fs[p].kind = "sym"  -> fs[p].ref \in Paths
    <3>1. CASE fs[p] = Dir
      BY <3>1 DEF Dir
    <3>2. ASSUME NEW k \in Entries, fs[p] = File(k)
          PROVE  fs[p].kind = "file" /\ fs[p].ref \in Entries
      BY <3>2 DEF File
    <3>3. ASSUME NEW q \in Paths, fs[p] = Sym(q)
          PROVE  fs[p].kind = "sym" /\ fs[p].ref \in Paths
      BY <3>3 DEF Sym
    <3>4. \/ fs[p] = Dir \/ (\E k \in Entries : fs[p] = File(k))
          \/ \E q \in Paths : fs[p] = Sym(q)
      BY <2>1, <2>2 DEF Nodes
    <3> QED
      BY <3>1, <3>2, <3>3, <3>4
  <2>3. \A w \in Workers : /\ queue[w] \in Seq(JobType) /\ Len(queue[w]) <= Cap
                           /\ worker[w].job \in JobType \union {None}
    BY <2>1 DEF WorkersInv
  <2>4. pending \in 0..Len(stream)
    BY <2>1, OutstandingIs DEF PendingExact
  <2> QED
    BY <2>1, <2>2, <2>3, <2>4 DEF TypeOK
<1> QED
  BY <1>1, PoolInvariant, PTL

\* pending.Wait never returns early and pending.Done never drives the counter
\* below zero: it is the number of jobs dispatched and not yet done.
THEOREM PendingIsExact == Spec => []PendingExact
<1>1. PoolInv => PendingExact
  BY DEF PoolInv
<1> QED
  BY <1>1, PoolInvariant, PTL

\* A write buffer is its job's own until the job is done with it.
THEOREM BuffersAreOwned == Spec => []BufferOwned
<1>1. PoolInv => BufferOwned
  BY DEF PoolInv, LinesInv, BufferOwned, InFlight
<1> QED
  BY <1>1, PoolInvariant, PTL

\* With the counter at zero no worker has anything left.
LEMMA NothingPending ==
    ASSUME PoolInv, pending = 0, NEW w \in Workers
    PROVE  queue[w] = <<>> /\ ~Busy(w)
<1>1. /\ ReaderInv /\ WorkersInv /\ PendingExact /\ stream \in Streams
  BY DEF PoolInv
<1>2. Outstanding = {}
  BY <1>1, OutstandingIs, FS_EmptySet DEF PendingExact
<1>3. Line(w) \in Seq(JobType) /\ Len(Line(w)) \in Nat
  BY <1>1, LineIs
<1>4. Len(Line(w)) = 0
  <2>1. SUFFICES ASSUME Len(Line(w)) # 0 PROVE FALSE
    OBVIOUS
  <2>2. 1 \in 1..Len(Line(w))
    BY <1>3, <2>1
  <2>3. Line(w)[1] \in InFlight
    BY <2>2 DEF InFlight
  <2> QED
    BY <1>2, <2>3 DEF Outstanding
<1>5. ~Busy(w)
  <2>1. SUFFICES ASSUME Busy(w) PROVE FALSE
    OBVIOUS
  <2>2. Line(w) = <<Job(w)>> \o queue[w] /\ Job(w) \in JobType /\ queue[w] \in Seq(JobType)
    BY <1>1, <2>1 DEF Line, WorkersInv, Job
  <2>3. Len(Line(w)) = 1 + Len(queue[w]) /\ Len(queue[w]) \in Nat
    BY <2>2, ConcatProperties
  <2> QED
    BY <1>4, <2>3
<1> QED
  BY <1>1, <1>3, <1>4, <1>5, EmptySeq DEF Line, WorkersInv

\* Links and large files are handled with no write outstanding.
THEOREM BarrierIsHeld == Spec => []BarrierHolds
<1>1. PoolInv => BarrierHolds
  <2> SUFFICES ASSUME PoolInv, reader.pc \in {"mkdir", "remove", "place", "copy"},
                      NEW w \in Workers
               PROVE  queue[w] = <<>> /\ worker[w].pc = "idle"
    BY DEF BarrierHolds
  <2>1. pending = 0 /\ WorkersInv
    BY DEF PoolInv, BarrierInv
  <2>2. queue[w] = <<>> /\ ~Busy(w)
    BY <2>1, NothingPending
  <2> QED
    BY <2>1, <2>2 DEF WorkersInv, Busy
<1> QED
  BY <1>1, PoolInvariant, PTL

\* Nothing writes to the directory after untarFiltered has returned.
THEOREM QuietOnceReturned == Spec => QuietAfterReturn
<1>1. PoolInv /\ [Next]_vars => [reader.pc = "returned" => UNCHANGED <<fs, data>>]_vars
  <2> SUFFICES ASSUME PoolInv, [Next]_vars, reader.pc = "returned"
               PROVE  UNCHANGED <<fs, data>>
    OBVIOUS
  <2>1. \A w \in Workers : worker[w].pc = "exited"
    BY DEF PoolInv, WorkersInv
  <2>2. CASE Reader
    BY <2>2 DEF Reader, ReadHeader, ReadFails, InlineDir, Dispatch, Send, Flush,
          InlineMkdir, InlineRemove, InlinePlace, InlineCopy, Close, Return, Inline
  <2>3. ASSUME NEW w \in Workers, Worker(w) PROVE FALSE
    BY <2>1, <2>3 DEF Worker, Take, Check, WorkerMkdir, WorkerRemove, WorkerCreate,
          WorkerWrite, Done, Exit, Call
  <2>4. CASE UNCHANGED vars
    BY <2>4 DEF vars
  <2> QED
    BY <2>2, <2>3, <2>4 DEF Next, Returned
<1> QED
  BY <1>1, PoolInvariant, PTL DEF Spec, QuietAfterReturn
=============================================================================
