------------------------- MODULE ClientDriverProofs -------------------------
(***************************************************************************)
(* Proofs about ClientDriver, for packets of any content and number.       *)
(***************************************************************************)
EXTENDS ClientDriver, SequenceTheorems, WellFoundedInduction, TLAPS

\* The first n elements of a sequence.
LEMMA Prefix ==
    ASSUME NEW S, NEW q \in Seq(S), NEW n \in 0..Len(q)
    PROVE  /\ SubSeq(q, 1, n) \in Seq(S)
           /\ Len(SubSeq(q, 1, n)) = n
           /\ \A i \in 1..n : SubSeq(q, 1, n)[i] = q[i]
<1>1. \A i \in 1..n : q[i] \in S
  BY ElementOfSeq
<1>2. n \in Int /\ 1 \in Int /\ n >= 0
  OBVIOUS
<1>3. /\ SubSeq(q, 1, n) \in Seq(S)
      /\ Len(SubSeq(q, 1, n)) = IF 1 <= n THEN n - 1 + 1 ELSE 0
      /\ \A i \in 1..n - 1 + 1 : SubSeq(q, 1, n)[i] = q[1 + i - 1]
  BY <1>1, <1>2, SubSeqProperties
<1> QED
  BY <1>2, <1>3

-----------------------------------------------------------------------------
(***************************************************************************)
(* What a call holds.                                                      *)
(***************************************************************************)
\* Steps that neither acquire nor release anything.
LEMMA HeldKept ==
    ASSUME HeldInv, UNCHANGED held, pc = "write" <=> pc' = "write"
    PROVE  HeldInv'
  BY DEF HeldInv, Deferred, held

\* A function is deferred when what it releases has been acquired.
LEMMA HeldPushed ==
    ASSUME HeldInv, NEW d \in {"helper", "span", "conn"}, ~Deferred(d),
           defers' = Append(defers, d)
    PROVE  /\ defers' \in Seq({"helper", "span", "conn"})
           /\ \A i, j \in 1..Len(defers') : defers'[i] = defers'[j] => i = j
           /\ \A e : Deferred(e)' <=> (e = d \/ Deferred(e))
<1>1. /\ defers \in Seq({"helper", "span", "conn"})
      /\ \A i, j \in 1..Len(defers) : defers[i] = defers[j] => i = j
      /\ \A i \in 1..Len(defers) : defers[i] # d
  BY DEF HeldInv, Deferred
<1>2. /\ defers' \in Seq({"helper", "span", "conn"})
      /\ Len(defers') = Len(defers) + 1 /\ Len(defers) \in Nat
      /\ \A i \in 1..Len(defers) : defers'[i] = defers[i]
      /\ defers'[Len(defers) + 1] = d
  BY <1>1
<1>3. \A i, j \in 1..Len(defers') : defers'[i] = defers'[j] => i = j
  BY <1>1, <1>2
<1>4. ASSUME NEW e PROVE Deferred(e)' <=> (e = d \/ Deferred(e))
  BY <1>2 DEF Deferred
<1> QED
  BY <1>2, <1>3, <1>4

\* The deferred function that runs is not deferred any more: it is on the
\* stack once.
LEMMA HeldPopped ==
    ASSUME HeldInv, defers # <<>>, defers' = SubSeq(defers, 1, Len(defers) - 1)
    PROVE  /\ defers' \in Seq({"helper", "span", "conn"})
           /\ \A i, j \in 1..Len(defers') : defers'[i] = defers'[j] => i = j
           /\ \A e : Deferred(e)' <=> (Deferred(e) /\ e # defers[Len(defers)])
           /\ Deferred(defers[Len(defers)])
<1> DEFINE n == Len(defers)
<1>1. /\ defers \in Seq({"helper", "span", "conn"})
      /\ \A i, j \in 1..n : defers[i] = defers[j] => i = j
      /\ n \in Nat /\ n # 0
  BY EmptySeq DEF HeldInv
<1>2. /\ defers' \in Seq({"helper", "span", "conn"})
      /\ Len(defers') = n - 1
      /\ \A i \in 1..n - 1 : defers'[i] = defers[i]
  <2>1. n - 1 \in 0..n
    BY <1>1
  <2> QED
    BY <1>1, <2>1, Prefix
<1> HIDE DEF n
<1>3. \A i, j \in 1..Len(defers') : defers'[i] = defers'[j] => i = j
  BY <1>1, <1>2
<1>4. ASSUME NEW e PROVE Deferred(e)' <=> (Deferred(e) /\ e # defers[n])
  BY <1>1, <1>2 DEF Deferred, n
<1>5. Deferred(defers[n])
  BY <1>1 DEF Deferred, n
<1> QED
  BY <1>2, <1>3, <1>4, <1>5 DEF n

LEMMA DriverInit == Init => DriverInv
<1> SUFFICES ASSUME Init PROVE DriverInv
  OBVIOUS
<1>1. /\ call \in [op : {"build", "prune"}, image : BOOLEAN, traced : BOOLEAN]
      /\ pc = IF call.op = "build" THEN "check" ELSE "dial"
      /\ defers = <<>>
      /\ helper = "none" /\ span = "none" /\ conn = "none" /\ chan = "none"
      /\ daemon = "idle" /\ reader = "none"
  BY DEF Init
<1>2. HeldInv
  BY <1>1 DEF HeldInv, Deferred
<1>3. CallerInv
  BY <1>1 DEF CallerInv
<1>4. ChannelInv
  BY <1>1 DEF ChannelInv
<1> QED
  BY <1>2, <1>3, <1>4 DEF DriverInv

\* Steps of the caller on its way to the solve.
LEMMA AcquireKeeps ==
    ASSUME DriverInv,
           Check \/ MakeHelperDir \/ WriteHelper \/ StartSpan \/ Dial \/ Attach \/ Solve
    PROVE  DriverInv'
<1> USE DEF Goto, ReturnErr
<1>1. CASE Check \/ Attach \/ Solve
  <2>1. HeldInv'
    BY <1>1, HeldKept DEF DriverInv, Check, Attach, Solve
  <2>2. CallerInv' /\ ChannelInv'
    BY <1>1 DEF DriverInv, HeldInv, Deferred, CallerInv, ChannelInv, Check, Attach,
      Solve, held, collected
  <2> QED
    BY <2>1, <2>2 DEF DriverInv
<1>2. CASE MakeHelperDir
  <2>1. HeldInv'
    BY <1>2 DEF DriverInv, HeldInv, CallerInv, Deferred, MakeHelperDir
  <2>2. CallerInv' /\ ChannelInv'
    BY <1>2 DEF DriverInv, HeldInv, CallerInv, ChannelInv, MakeHelperDir, collected
  <2> QED
    BY <2>1, <2>2 DEF DriverInv
<1>3. CASE WriteHelper
  <2>1. defers = <<>> /\ helper # "staged" /\ ~Deferred("helper")
    BY <1>3 DEF DriverInv, CallerInv, HeldInv, Deferred, WriteHelper
  <2>2. CASE helper' = "none" /\ UNCHANGED defers /\ pc' = "unwind"
    <3>1. HeldInv'
      BY <1>3, <2>1, <2>2 DEF DriverInv, HeldInv, Deferred, WriteHelper
    <3>2. CallerInv' /\ ChannelInv'
      BY <1>3, <2>2 DEF DriverInv, CallerInv, ChannelInv, WriteHelper, collected
    <3> QED
      BY <3>1, <3>2 DEF DriverInv
  <2>3. CASE helper' = "staged" /\ defers' = Append(defers, "helper") /\ pc' = "trace"
    <3>1. HeldInv'
      BY <1>3, <2>1, <2>3, HeldPushed DEF DriverInv, HeldInv, WriteHelper
    <3>2. ~Deferred("span") /\ ~Deferred("conn")
      BY <2>1 DEF Deferred
    <3>3. CallerInv' /\ ChannelInv'
      BY <1>3, <2>3, <3>2 DEF DriverInv, HeldInv, CallerInv, ChannelInv, WriteHelper,
        collected
    <3> QED
      BY <3>1, <3>3 DEF DriverInv
  <2> QED
    BY <1>3, <2>2, <2>3 DEF WriteHelper
<1>4. CASE StartSpan
  <2>1. CASE ~call.traced
    <3>1. UNCHANGED held /\ pc = "trace" /\ pc' = "dial"
      BY <1>4, <2>1 DEF StartSpan, held
    <3>2. HeldInv'
      BY <3>1, HeldKept DEF DriverInv
    <3>3. CallerInv' /\ ChannelInv'
      BY <1>4, <3>1 DEF DriverInv, CallerInv, ChannelInv, StartSpan, held, collected
    <3> QED
      BY <3>2, <3>3 DEF DriverInv
  <2>2. CASE call.traced
    <3>1. /\ pc = "trace" /\ pc' = "dial" /\ span' = "open" /\ ~Deferred("span")
          /\ defers' = Append(defers, "span") /\ UNCHANGED <<helper, conn>>
      BY <1>4, <2>2 DEF StartSpan, DriverInv, HeldInv, CallerInv
    <3>2. HeldInv'
      BY <3>1, HeldPushed DEF DriverInv, HeldInv
    <3>3. CallerInv' /\ ChannelInv'
      BY <1>4, <3>1 DEF DriverInv, CallerInv, ChannelInv, StartSpan, collected
    <3> QED
      BY <3>2, <3>3 DEF DriverInv
  <2> QED
    BY <2>1, <2>2
<1>5. CASE Dial
  <2>1. CASE UNCHANGED <<conn, defers>> /\ pc' = "unwind"
    <3>1. HeldInv'
      BY <1>5, <2>1, HeldKept DEF DriverInv, Dial, held
    <3>2. CallerInv' /\ ChannelInv'
      BY <1>5, <2>1 DEF DriverInv, CallerInv, ChannelInv, Dial, collected
    <3> QED
      BY <3>1, <3>2 DEF DriverInv
  <2>2. CASE /\ conn' = "open" /\ defers' = Append(defers, "conn")
             /\ pc' = IF call.op = "build" THEN "attach" ELSE "solve"
    <3>1. /\ pc = "dial" /\ ~Deferred("conn") /\ UNCHANGED <<helper, span>>
      BY <1>5 DEF Dial, DriverInv, HeldInv, CallerInv
    <3>2. HeldInv'
      BY <2>2, <3>1, HeldPushed DEF DriverInv, HeldInv
    <3>3. CallerInv' /\ ChannelInv'
      BY <1>5, <2>2 DEF DriverInv, CallerInv, ChannelInv, Dial, collected
    <3> QED
      BY <3>2, <3>3 DEF DriverInv
  <2> QED
    BY <1>5, <2>1, <2>2 DEF Dial
<1> QED
  BY <1>1, <1>2, <1>3, <1>4, <1>5

\* The channel while the solve runs: the goroutine outlives neither the
\* channel nor the call.
LEMMA ServeKeeps ==
    ASSUME DriverInv, Goroutine \/ Send \/ DaemonReturns
    PROVE  DriverInv'
<1>1. UNCHANGED held /\ UNCHANGED <<call, pc>>
  BY DEF Goroutine, TakeVertex, TakeLogs, ReaderEnds, Send, DaemonReturns
<1>2. HeldInv'
  BY <1>1, HeldKept DEF DriverInv
<1>3. CallerInv'
  BY <1>1 DEF DriverInv, CallerInv, held
<1>4. ChannelInv'
  BY <1>1 DEF DriverInv, ChannelInv, Goroutine, TakeVertex, TakeLogs, ReaderEnds,
    Send, DaemonReturns, collected
<1> QED
  BY <1>2, <1>3, <1>4 DEF DriverInv

LEMMA ReleaseKeeps ==
    ASSUME DriverInv, Returned \/ Wait \/ Unwind \/ Return \/ Idle
    PROVE  DriverInv'
<1> USE DEF Goto
<1>1. CASE Returned \/ Wait \/ Return \/ Idle
  <2>1. UNCHANGED held /\ UNCHANGED <<call, daemon, reader>>
    BY <1>1 DEF Returned, Wait, Return, Idle, vars, held, collected
  <2>2. HeldInv'
    BY <1>1, <2>1, HeldKept DEF DriverInv, Returned, Wait, Return, Idle, vars
  <2>3. CallerInv'
    BY <1>1, <2>1 DEF DriverInv, CallerInv, Returned, Wait, Return, Idle, vars, held
  <2>4. ChannelInv'
    BY <1>1, <2>1 DEF DriverInv, ChannelInv, Returned, Wait, Return, Idle, vars
  <2> QED
    BY <2>2, <2>3, <2>4 DEF DriverInv
<1>2. CASE Unwind
  <2> DEFINE d == defers[Len(defers)]
  <2>1. /\ pc = "unwind" /\ defers # <<>> /\ UNCHANGED <<call, pc, chan, daemon, reader>>
        /\ helper' = IF d = "helper" THEN "none" ELSE helper
        /\ span' = IF d = "span" THEN "ended" ELSE span
        /\ conn' = IF d = "conn" THEN "closed" ELSE conn
        /\ defers' = SubSeq(defers, 1, Len(defers) - 1)
    BY <1>2 DEF Unwind, collected
  <2>2. /\ defers' \in Seq({"helper", "span", "conn"})
        /\ \A i, j \in 1..Len(defers') : defers'[i] = defers'[j] => i = j
        /\ \A e : Deferred(e)' <=> (Deferred(e) /\ e # d)
        /\ Deferred(d)
    BY <2>1, HeldPopped DEF DriverInv
  <2> HIDE DEF d
  <2>3. HeldInv'
    BY <2>1, <2>2 DEF DriverInv, HeldInv
  <2>4. CallerInv' /\ ChannelInv'
    BY <2>1 DEF DriverInv, CallerInv, ChannelInv
  <2> QED
    BY <2>3, <2>4 DEF DriverInv
<1> QED
  BY <1>1, <1>2

\* The invariant of the call: whatever is held has its release on the stack,
\* and the channel is closed before the call goes its way back.
THEOREM DriverInvariant == Spec => []DriverInv
<1>1. DriverInv /\ [Next]_vars => DriverInv'
  <2> SUFFICES ASSUME DriverInv, [Next]_vars PROVE DriverInv'
    OBVIOUS
  <2>1. CASE UNCHANGED vars
    <3>1. HeldInv' /\ CallerInv' /\ ChannelInv'
      BY <2>1 DEF vars, DriverInv, HeldInv, Deferred, CallerInv, ChannelInv
    <3> QED
      BY <3>1 DEF DriverInv
  <2>2. CASE Next
    BY <2>2, AcquireKeeps, ServeKeeps, ReleaseKeeps DEF Next, Caller
  <2> QED
    BY <2>1, <2>2
<1> QED
  BY <1>1, DriverInit, PTL DEF Spec

\* Whichever way a call returns, it leaves no temporary directory, span,
\* connection, channel or goroutine behind, and while the daemon serves it
\* the helper and the connection are there.
THEOREM NothingIsLeft == Spec => []NothingLeft
<1>1. DriverInv => NothingLeft
  <2> SUFFICES ASSUME DriverInv PROVE NothingLeft
    OBVIOUS
  <2>1. ASSUME pc = "returned"
        PROVE  /\ helper = "none" /\ span # "open" /\ conn # "open"
               /\ chan # "open" /\ reader \in {"none", "gone"}
    <3>1. ASSUME NEW e PROVE ~Deferred(e)
      BY <2>1 DEF DriverInv, CallerInv, Deferred
    <3> QED
      BY <2>1, <3>1 DEF DriverInv, HeldInv, ChannelInv
  <2>2. ASSUME daemon = "running"
        PROVE  /\ conn = "open"
               /\ (call.op = "build" /\ ~call.image) => helper = "staged"
    BY <2>2 DEF DriverInv, CallerInv, ChannelInv
  <2> QED
    BY <2>1, <2>2 DEF NothingLeft
<1> QED
  BY <1>1, DriverInvariant, PTL

-----------------------------------------------------------------------------
(***************************************************************************)
(* The first and the last of a set of indices.                             *)
(***************************************************************************)
LEMMA Least ==
    ASSUME NEW T, T \subseteq Nat, T # {}
    PROVE  \E x \in T : \A y \in T : x <= y
<1> DEFINE R == OpToRel(<, Nat)
<1>1. IsWellFoundedOn(R, Nat)
  BY NatLessThanWellFounded
<1>2. \A x, y \in Nat : y < x => <<y, x>> \in R
  BY DEF OpToRel
<1> HIDE DEF R
<1>3. PICK x \in T : \A y \in T : ~(<<y, x>> \in R)
  BY <1>1, WFMin
<1>4. \A y \in T : x <= y
  <2> TAKE y \in T
  <2>1. x \in Nat /\ y \in Nat /\ ~(y < x)
    BY <1>2, <1>3
  <2> QED
    BY <2>1
<1> QED
  BY <1>4

LEMMA FirstIs ==
    ASSUME NEW T, T \subseteq Nat, T # {}
    PROVE  First(T) \in T /\ \A y \in T : First(T) <= y
  BY Least DEF First

LEMMA LastIs ==
    ASSUME NEW n \in Nat, NEW T, T \subseteq 1..n, T # {}
    PROVE  Last(T) \in T /\ \A y \in T : y <= Last(T)
<1> DEFINE U == {n - y : y \in T}
<1>1. U \subseteq Nat /\ U # {}
  <2>1. \A y \in T : n - y \in Nat
    OBVIOUS
  <2>2. PICK y \in T : TRUE
    OBVIOUS
  <2>3. n - y \in U
    OBVIOUS
  <2> QED
    BY <2>1, <2>3
<1>2. PICK z \in U : \A u \in U : z <= u
  BY <1>1, Least
<1>3. PICK x \in T : z = n - x
  OBVIOUS
<1>4. \A y \in T : y <= x
  <2> TAKE y \in T
  <2>1. n - y \in U
    OBVIOUS
  <2>2. n - x <= n - y
    BY <1>2, <1>3, <2>1
  <2>3. x \in Int /\ y \in Int
    OBVIOUS
  <2> HIDE DEF U
  <2> QED
    BY <2>2, <2>3
<1> QED
  BY <1>4 DEF Last

-----------------------------------------------------------------------------
(***************************************************************************)
(* What one more update changes.                                           *)
(***************************************************************************)
LEMMA UpdatesAppend ==
    ASSUME NEW us \in Seq(Vertex), NEW v \in Vertex, NEW d
    PROVE  /\ Updates(us, d) \subseteq 1..Len(us)
           /\ Updates(Append(us, v), d) =
                IF v.digest = d THEN Updates(us, d) \union {Len(us) + 1}
                ELSE Updates(us, d)
           /\ \A k \in Updates(us, d) : Append(us, v)[k] = us[k]
           /\ Append(us, v)[Len(us) + 1] = v
           /\ Append(us, v) \in Seq(Vertex) /\ Len(us) \in Nat
<1> DEFINE us1 == Append(us, v)
<1>1. /\ us1 \in Seq(Vertex) /\ Len(us1) = Len(us) + 1 /\ Len(us) \in Nat
      /\ \A k \in 1..Len(us) : us1[k] = us[k]
      /\ us1[Len(us) + 1] = v
  OBVIOUS
<1> HIDE DEF us1
<1>2. 1..Len(us1) = 1..Len(us) \union {Len(us) + 1}
  BY <1>1
<1>3. Updates(us1, d) = IF v.digest = d THEN Updates(us, d) \union {Len(us) + 1}
                        ELSE Updates(us, d)
  BY <1>1, <1>2 DEF Updates
<1> QED
  BY <1>1, <1>3 DEF us1, Updates

\* The first mention of a vertex stays the first.
LEMMA FirstAppend ==
    ASSUME NEW us \in Seq(Vertex), NEW v \in Vertex, NEW d,
           Updates(us, d) # {} \/ v.digest = d
    PROVE  First(Updates(Append(us, v), d)) =
              IF Updates(us, d) # {} THEN First(Updates(us, d)) ELSE Len(us) + 1
<1> DEFINE old == Updates(us, d)
           new == Updates(Append(us, v), d)
           n == Len(us)
<1>1. /\ old \subseteq 1..n /\ n \in Nat
      /\ new = IF v.digest = d THEN old \union {n + 1} ELSE old
  BY UpdatesAppend
<1> HIDE DEF old, new, n
<1>2. /\ new \subseteq Nat /\ new # {}
  <2>1. old # {} \/ v.digest = d
    BY DEF old
  <2>2. 1..n \subseteq Nat /\ n + 1 \in Nat
    BY <1>1
  <2>3. CASE v.digest = d
    BY <1>1, <2>2, <2>3
  <2>4. CASE v.digest # d
    BY <1>1, <2>1, <2>2, <2>4
  <2> QED
    BY <2>3, <2>4
<1>3. First(new) \in new /\ \A y \in new : First(new) <= y
  BY <1>2, FirstIs
<1>4. CASE old = {}
  <2>1. new = {n + 1}
    BY <1>1, <1>2, <1>4
  <2> QED
    BY <1>3, <1>4, <2>1 DEF old, new, n
<1>5. CASE old # {}
  <2>1. First(old) \in old /\ \A y \in old : First(old) <= y
    <3>1. old \subseteq Nat
      BY <1>1
    <3> QED
      BY <1>5, <3>1, FirstIs
  <2>2. First(new) = First(old)
    <3>1. /\ First(old) \in 1..n /\ First(old) \in new
          /\ First(new) \in new /\ First(new) <= First(old)
      BY <1>1, <1>3, <2>1
    <3>2. CASE First(new) \in old
      <4>1. First(old) <= First(new) /\ First(new) \in 1..n
        BY <1>1, <2>1, <3>2
      <4> QED
        BY <1>1, <3>1, <4>1
    <3>3. CASE First(new) = n + 1
      BY <1>1, <3>1, <3>3
    <3> QED
      BY <1>1, <3>1, <3>2, <3>3
  <2> QED
    BY <1>5, <2>2 DEF old, new, n
<1> QED
  BY <1>4, <1>5

\* A time that an update brings is the last known one.
LEMMA TimeAppend ==
    ASSUME NEW us \in Seq(Vertex), NEW v \in Vertex, NEW d, NEW f
    PROVE  LastTime(Append(us, v), d, f) =
              IF v.digest = d /\ v[f] # 0 THEN v[f] ELSE LastTime(us, d, f)
<1> DEFINE us1 == Append(us, v)
           n == Len(us)
           old == {k \in Updates(us, d) : us[k][f] # 0}
           new == {k \in Updates(us1, d) : us1[k][f] # 0}
<1>1. /\ Updates(us, d) \subseteq 1..n /\ n \in Nat
      /\ Updates(us1, d) = IF v.digest = d THEN Updates(us, d) \union {n + 1}
                           ELSE Updates(us, d)
      /\ \A k \in Updates(us, d) : us1[k] = us[k]
      /\ us1[n + 1] = v
  BY UpdatesAppend
<1> HIDE DEF us1, n
<1>2. old \subseteq 1..n /\ \A k \in old : us1[k] = us[k]
  BY <1>1
<1>3. new = IF v.digest = d /\ v[f] # 0 THEN old \union {n + 1} ELSE old
  BY <1>1
<1>4. /\ LastTime(us, d, f) = IF Last(old) = 0 THEN 0 ELSE us[Last(old)][f]
      /\ LastTime(us1, d, f) = IF Last(new) = 0 THEN 0 ELSE us1[Last(new)][f]
  BY DEF LastTime
<1> HIDE DEF old, new
<1>5. CASE v.digest = d /\ v[f] # 0
  <2>1. new = old \union {n + 1} /\ new \subseteq 1..n + 1 /\ new # {} /\ n + 1 \in Nat
    BY <1>1, <1>2, <1>3, <1>5
  <2>2. Last(new) \in new /\ \A y \in new : y <= Last(new)
    BY <2>1, LastIs
  <2>3. Last(new) = n + 1
    <3>1. Last(new) \in 1..n + 1 /\ n + 1 <= Last(new)
      BY <2>1, <2>2
    <3> QED
      BY <1>1, <3>1
  <2>4. n + 1 # 0
    BY <1>1
  <2>5. LastTime(us1, d, f) = v[f]
    BY <1>1, <1>4, <2>3, <2>4
  <2> QED
    BY <1>5, <2>5 DEF us1
<1>6. CASE ~(v.digest = d /\ v[f] # 0)
  <2>1. new = old
    BY <1>3, <1>6
  <2>2. CASE old = {}
    <3>1. Last(old) = 0
      BY <2>2 DEF Last
    <3> QED
      BY <1>4, <1>6, <2>1, <3>1 DEF us1
  <2>3. CASE old # {}
    <3>1. Last(old) \in old
      BY <1>1, <1>2, <2>3, LastIs
    <3> QED
      BY <1>2, <1>4, <1>6, <2>1, <3>1 DEF us1
  <2> QED
    BY <2>2, <2>3
<1> QED
  BY <1>5, <1>6

LEMMA CachedAppend ==
    ASSUME NEW us \in Seq(Vertex), NEW v \in Vertex, NEW d
    PROVE  (\E k \in Updates(Append(us, v), d) : Append(us, v)[k].cached) <=>
              \/ \E k \in Updates(us, d) : us[k].cached
              \/ v.digest = d /\ v.cached
<1> DEFINE us1 == Append(us, v)
           n == Len(us)
<1>1. /\ Updates(us1, d) = IF v.digest = d THEN Updates(us, d) \union {n + 1}
                           ELSE Updates(us, d)
      /\ \A k \in Updates(us, d) : us1[k] = us[k]
      /\ us1[n + 1] = v
  BY UpdatesAppend
<1> HIDE DEF us1, n
<1>2. (\E k \in Updates(us1, d) : us1[k].cached) <=>
         \/ \E k \in Updates(us, d) : us[k].cached
         \/ v.digest = d /\ v.cached
  BY <1>1
<1> QED
  BY <1>2 DEF us1

\* Vertices that are summed up are told apart by their digests, and each has
\* been mentioned.
LEMMA SummedUp ==
    ASSUME NEW us \in Seq(Vertex), seen \in Seq(Vertex), SumsUp(seen, us)
    PROVE  /\ \A i \in 1..Len(seen) :
                 /\ Updates(us, seen[i].digest) # {}
                 /\ First(Updates(us, seen[i].digest)) \in 1..Len(us)
           /\ \A i, j \in 1..Len(seen) : seen[i].digest = seen[j].digest => i = j
<1>1. ASSUME NEW i \in 1..Len(seen)
      PROVE  /\ Updates(us, seen[i].digest) # {}
             /\ First(Updates(us, seen[i].digest)) \in 1..Len(us)
  <2>1. seen[i].digest \in {us[k].digest : k \in 1..Len(us)}
    BY DEF SumsUp
  <2>2. PICK k \in 1..Len(us) : us[k].digest = seen[i].digest
    BY <2>1
  <2>3. k \in Updates(us, seen[i].digest)
    BY <2>2 DEF Updates
  <2>4. Updates(us, seen[i].digest) \subseteq 1..Len(us) /\ 1..Len(us) \subseteq Nat
    BY DEF Updates
  <2>5. Updates(us, seen[i].digest) \subseteq Nat
    BY <2>4
  <2>6. First(Updates(us, seen[i].digest)) \in Updates(us, seen[i].digest)
    BY <2>3, <2>5, FirstIs
  <2> QED
    BY <2>3, <2>4, <2>6
<1>2. ASSUME NEW i \in 1..Len(seen), NEW j \in 1..Len(seen),
             seen[i].digest = seen[j].digest
      PROVE  i = j
  <2> DEFINE f == First(Updates(us, seen[i].digest))
  <2>1. f \in 1..Len(us) /\ Len(us) \in Nat /\ Len(seen) \in Nat
    BY <1>1
  <2>2. (i < j => f < f) /\ (j < i => f < f)
    BY <1>2 DEF SumsUp
  <2> HIDE DEF f
  <2> QED
    BY <2>1, <2>2
<1> QED
  BY <1>1, <1>2

LEMMA PositionIs ==
    ASSUME NEW d, Known(d)
    PROVE  Position(d) \in 1..Len(seen) /\ seen[Position(d)].digest = d
  BY DEF Known, Position

\* Collecting an update keeps the sum: what was known is merged, what was
\* not comes last.
LEMMA CollectSumsUp ==
    ASSUME NEW us \in Seq(Vertex), NEW v \in Vertex, seen \in Seq(Vertex),
           SumsUp(seen, us)
    PROVE  Collect(v) \in Seq(Vertex) /\ SumsUp(Collect(v), Append(us, v))
<1> DEFINE us1 == Append(us, v)
           vs == Collect(v)
           m == Len(seen)
           n == Len(us)
<1>1. /\ us1 \in Seq(Vertex) /\ n \in Nat /\ m \in Nat /\ Len(us1) = n + 1
      /\ \A i \in 1..n : us1[i] = us[i]
      /\ us1[n + 1] = v
  OBVIOUS
<1>2. /\ \A i \in 1..m : /\ Updates(us, seen[i].digest) # {}
                         /\ First(Updates(us, seen[i].digest)) \in 1..n
      /\ \A i, j \in 1..m : seen[i].digest = seen[j].digest => i = j
  BY SummedUp
<1>3. /\ {seen[i].digest : i \in 1..m} = {us[i].digest : i \in 1..n}
      /\ \A i, j \in 1..m : i < j =>
           First(Updates(us, seen[i].digest)) < First(Updates(us, seen[j].digest))
      /\ \A i \in 1..m :
           /\ seen[i] \in Vertex
           /\ seen[i].started = LastTime(us, seen[i].digest, "started")
           /\ seen[i].completed = LastTime(us, seen[i].digest, "completed")
           /\ seen[i].cached <=> \E k \in Updates(us, seen[i].digest) : us[k].cached
  BY ElementOfSeq DEF SumsUp
<1>4. {us1[i].digest : i \in 1..Len(us1)} = {us[i].digest : i \in 1..n} \union {v.digest}
  <2>1. 1..Len(us1) = 1..n \union {n + 1}
    BY <1>1
  <2> HIDE DEF us1, n
  <2> QED
    BY <1>1, <2>1
<1>5. \A i \in 1..m :
        First(Updates(us1, seen[i].digest)) = First(Updates(us, seen[i].digest))
  BY <1>2, FirstAppend
<1>6. ASSUME NEW d
      PROVE  /\ LastTime(us1, d, "started") =
                  IF v.digest = d /\ v.started # 0 THEN v.started
                  ELSE LastTime(us, d, "started")
             /\ LastTime(us1, d, "completed") =
                  IF v.digest = d /\ v.completed # 0 THEN v.completed
                  ELSE LastTime(us, d, "completed")
             /\ (\E k \in Updates(us1, d) : us1[k].cached) <=>
                   \/ \E k \in Updates(us, d) : us[k].cached
                   \/ v.digest = d /\ v.cached
  <2>1. \A f : LastTime(us1, d, f) =
                IF v.digest = d /\ v[f] # 0 THEN v[f] ELSE LastTime(us, d, f)
    BY TimeAppend
  <2>2. (\E k \in Updates(us1, d) : us1[k].cached) <=>
           \/ \E k \in Updates(us, d) : us[k].cached
           \/ v.digest = d /\ v.cached
    BY CachedAppend
  <2> HIDE DEF us1
  <2> QED
    BY <2>1, <2>2
<1> HIDE DEF us1, n, m
<1>7. CASE Known(v.digest)
  <2> DEFINE p == Position(v.digest)
             e == Merge(seen[p], v)
  <2>1. p \in 1..m /\ seen[p].digest = v.digest
    BY <1>7, PositionIs DEF m
  <2>2. vs = [seen EXCEPT ![p] = e]
    BY <1>7 DEF Collect
  <2>3. /\ e \in Vertex /\ e.digest = v.digest
        /\ e.started = IF v.started # 0 THEN v.started ELSE seen[p].started
        /\ e.completed = IF v.completed # 0 THEN v.completed ELSE seen[p].completed
        /\ e.cached <=> (seen[p].cached \/ v.cached)
    BY <1>3, <2>1 DEF Merge, Vertex
  <2> HIDE DEF p, e, vs
  <2>4. /\ vs \in Seq(Vertex) /\ Len(vs) = m
        /\ \A i \in 1..m : vs[i] = IF i = p THEN e ELSE seen[i]
    BY <2>1, <2>2, <2>3, ExceptSeq DEF m
  <2>5. \A i \in 1..m : vs[i].digest = seen[i].digest
    BY <2>1, <2>3, <2>4
  <2>6. {vs[i].digest : i \in 1..Len(vs)} = {us1[i].digest : i \in 1..Len(us1)}
    <3>1. {vs[i].digest : i \in 1..Len(vs)} = {seen[i].digest : i \in 1..m}
      BY <2>4, <2>5
    <3>2. v.digest \in {seen[i].digest : i \in 1..m}
      BY <2>1
    <3> QED
      BY <1>3, <1>4, <3>1, <3>2
  <2>7. \A i, j \in 1..Len(vs) : i < j =>
           First(Updates(us1, vs[i].digest)) < First(Updates(us1, vs[j].digest))
    BY <1>3, <1>5, <2>4, <2>5
  <2>8. ASSUME NEW i \in 1..Len(vs)
        PROVE  /\ vs[i].started = LastTime(us1, vs[i].digest, "started")
               /\ vs[i].completed = LastTime(us1, vs[i].digest, "completed")
               /\ vs[i].cached <=> \E k \in Updates(us1, vs[i].digest) : us1[k].cached
    <3>1. CASE i = p
      BY <1>3, <1>6, <2>1, <2>3, <2>4, <3>1
    <3>2. CASE i # p
      <4>1. vs[i] = seen[i] /\ i \in 1..m /\ seen[i].digest # v.digest
        BY <1>2, <2>1, <2>4, <3>2
      <4> QED
        BY <1>3, <1>6, <4>1
    <3> QED
      BY <3>1, <3>2
  <2> QED
    BY <2>4, <2>6, <2>7, <2>8 DEF SumsUp, us1, vs
<1>8. CASE ~Known(v.digest)
  <2>1. vs = Append(seen, v)
    BY <1>8 DEF Collect
  <2>2. \A i \in 1..m : seen[i].digest # v.digest
    BY <1>8 DEF Known, m
  <2> HIDE DEF vs
  <2>3. /\ vs \in Seq(Vertex) /\ Len(vs) = m + 1
        /\ \A i \in 1..m : vs[i] = seen[i]
        /\ vs[m + 1] = v
    BY <2>1 DEF m
  <2>4. 1..Len(vs) = 1..m \union {m + 1}
    BY <1>1, <2>3
  <2>5. {vs[i].digest : i \in 1..Len(vs)} = {us1[i].digest : i \in 1..Len(us1)}
    <3>1. {vs[i].digest : i \in 1..Len(vs)}
            = {seen[i].digest : i \in 1..m} \union {v.digest}
      <4>1. {vs[i].digest : i \in 1..Len(vs)}
              = {vs[i].digest : i \in 1..m} \union {vs[m + 1].digest}
        BY <2>4
      <4>2. {vs[i].digest : i \in 1..m} = {seen[i].digest : i \in 1..m}
        BY <2>3
      <4> QED
        BY <2>3, <4>1, <4>2
    <3> QED
      BY <1>3, <1>4, <3>1
  <2>6. Updates(us, v.digest) = {}
    <3>1. v.digest \notin {us[i].digest : i \in 1..n}
      BY <1>3, <2>2
    <3> QED
      BY <3>1 DEF Updates, n
  <2>7. First(Updates(us1, v.digest)) = n + 1
    BY <2>6, FirstAppend DEF us1, n
  <2>8. \A i, j \in 1..Len(vs) : i < j =>
           First(Updates(us1, vs[i].digest)) < First(Updates(us1, vs[j].digest))
    <3> SUFFICES ASSUME NEW i \in 1..Len(vs), NEW j \in 1..Len(vs), i < j
                 PROVE  First(Updates(us1, vs[i].digest))
                          < First(Updates(us1, vs[j].digest))
      OBVIOUS
    <3>1. i \in 1..m /\ vs[i] = seen[i]
      BY <1>1, <2>3
    <3>2. CASE j = m + 1
      <4>1. First(Updates(us1, vs[i].digest)) \in 1..n
        BY <1>2, <1>5, <3>1
      <4> QED
        BY <1>1, <2>3, <2>7, <3>2, <4>1
    <3>3. CASE j # m + 1
      <4>1. j \in 1..m /\ vs[j] = seen[j]
        BY <2>3, <2>4, <3>3
      <4> QED
        BY <1>3, <1>5, <3>1, <4>1
    <3> QED
      BY <3>2, <3>3
  <2>9. ASSUME NEW i \in 1..Len(vs)
        PROVE  /\ vs[i].started = LastTime(us1, vs[i].digest, "started")
               /\ vs[i].completed = LastTime(us1, vs[i].digest, "completed")
               /\ vs[i].cached <=> \E k \in Updates(us1, vs[i].digest) : us1[k].cached
    <3>1. CASE i = m + 1
      <4>1. \A f : LastTime(us, v.digest, f) = 0
        BY <2>6 DEF LastTime, Last
      <4> QED
        BY <1>6, <2>3, <2>6, <3>1, <4>1 DEF Vertex
    <3>2. CASE i # m + 1
      <4>1. vs[i] = seen[i] /\ i \in 1..m /\ seen[i].digest # v.digest
        BY <2>2, <2>3, <2>4, <3>2
      <4> QED
        BY <1>3, <1>6, <4>1
    <3> QED
      BY <3>1, <3>2
  <2> QED
    BY <2>3, <2>5, <2>8, <2>9 DEF SumsUp, us1, vs
<1> QED
  BY <1>7, <1>8

-----------------------------------------------------------------------------
(***************************************************************************)
(* What is collected, sent and reported.                                   *)
(***************************************************************************)
LEMMA TranscriptInit == Init => TranscriptInv
<1> SUFFICES ASSUME Init PROVE TranscriptInv
  OBVIOUS
<1>1. /\ packet = NoPacket /\ seen = <<>> /\ logs = <<>> /\ report = NoReport
      /\ sent = [count |-> 0, vertexes |-> <<>>, logs |-> <<>>]
  BY DEF Init
<1>2. /\ packet.vertexes = <<>> /\ packet.logs = <<>>
      /\ sent.vertexes = <<>> /\ sent.logs = <<>> /\ ~report.made
      /\ packet = [vertexes |-> packet.vertexes, logs |-> packet.logs]
  BY <1>1 DEF NoPacket, NoReport
<1>3. /\ Taken = <<>> /\ <<>> \o <<>> = <<>>
      /\ <<>> \in Seq(Vertex) /\ <<>> \in Seq(STRING)
  BY <1>2 DEF Taken
<1>4. SumsUp(seen, Taken)
  BY <1>1, <1>3 DEF SumsUp
<1> QED
  BY <1>1, <1>2, <1>3, <1>4 DEF TranscriptInv

LEMMA TranscriptKept ==
    ASSUME TranscriptInv, UNCHANGED <<call, reader, packet, seen, logs, report, sent>>
    PROVE  TranscriptInv'
  BY DEF TranscriptInv, Taken

\* A packet is sent to a goroutine that has none in hand.
LEMMA SendKeeps ==
    ASSUME DriverInv, TranscriptInv, Send
    PROVE  TranscriptInv'
<1>1. PICK p \in Packets :
        /\ packet' = p
        /\ sent' = [count |-> sent.count + 1,
                    vertexes |-> sent.vertexes \o p.vertexes,
                    logs |-> sent.logs \o p.logs]
  BY DEF Send
<1>2. /\ p = [vertexes |-> p.vertexes, logs |-> p.logs]
      /\ p.logs \in Seq(STRING) /\ p.vertexes \in Seq(Vertex)
  BY DriverAssumption
<1>3. /\ reader = "recv" /\ UNCHANGED <<call, seen, logs, report>>
      /\ reader' = IF call.op = "build" THEN "busy" ELSE "recv"
  BY DEF Send
<1>4. /\ sent'.vertexes = sent.vertexes \o p.vertexes
      /\ sent'.logs = sent.logs \o p.logs
  BY <1>1
<1>5. sent.vertexes \in Seq(Vertex) /\ seen \in Seq(Vertex) /\ ~report.made
  BY <1>3 DEF TranscriptInv
<1>6. ASSUME call.op = "build"
      PROVE  /\ sent'.logs = logs' \o packet'.logs
             /\ Len(packet'.vertexes) <= Len(sent'.vertexes)
             /\ sent'.vertexes = Taken' \o packet'.vertexes
             /\ SumsUp(seen', Taken')
  <2>1. packet = NoPacket /\ sent.logs = logs \o packet.logs
    BY <1>3, <1>6 DEF TranscriptInv
  <2>2. packet.vertexes = <<>> /\ packet.logs = <<>>
    BY <2>1 DEF NoPacket
  <2>3. Taken = sent.vertexes /\ Taken' = sent.vertexes
    <3>1. /\ Len(sent.vertexes) \in Nat /\ Len(<<>>) = 0
          /\ Len(sent'.vertexes) = Len(sent.vertexes) + Len(p.vertexes)
          /\ Len(p.vertexes) \in Nat
          /\ \A i \in 1..Len(sent.vertexes) : sent'.vertexes[i] = sent.vertexes[i]
          /\ sent'.vertexes \in Seq(Vertex)
      BY <1>2, <1>4, <1>5
    <3>2. Taken = SubSeq(sent.vertexes, 1, Len(sent.vertexes))
      BY <2>2, <3>1 DEF Taken
    <3> DEFINE n == Len(sent.vertexes)
    <3>3. Taken' = SubSeq(sent'.vertexes, 1, n)
      <4>1. packet' = p
        BY <1>1
      <4>2. Len(sent'.vertexes) - Len(packet'.vertexes) = n
        BY <3>1, <4>1
      <4> QED
        BY <4>2 DEF Taken
    <3>4. n \in 0..Len(sent.vertexes) /\ n \in 0..Len(sent'.vertexes)
      <4>1. /\ n \in Nat /\ Len(p.vertexes) \in Nat
            /\ Len(sent'.vertexes) = n + Len(p.vertexes)
        BY <3>1
      <4> HIDE DEF n
      <4>2. n \in 0..n /\ n \in 0..Len(sent'.vertexes)
        BY <4>1
      <4> QED
        BY <4>2 DEF n
    <3>5. /\ Taken \in Seq(Vertex) /\ Len(Taken) = n
          /\ \A i \in 1..n : Taken[i] = sent.vertexes[i]
      BY <1>5, <3>2, <3>4, Prefix
    <3>6. /\ Taken' \in Seq(Vertex) /\ Len(Taken') = n
          /\ \A i \in 1..n : Taken'[i] = sent'.vertexes[i]
      BY <3>1, <3>3, <3>4, Prefix
    <3> QED
      BY <1>5, <3>1, <3>5, <3>6, SeqEqual
  <2>4. logs \o <<>> = logs
    BY ConcatEmptySeq DEF TranscriptInv
  <2>5. SumsUp(seen', Taken')
    BY <1>3, <1>6, <2>3 DEF TranscriptInv
  <2>6. Len(p.vertexes) <= Len(sent.vertexes \o p.vertexes)
    BY <1>2, <1>5
  <2> QED
    BY <1>1, <1>3, <1>4, <2>1, <2>2, <2>3, <2>4, <2>5, <2>6
<1>7. sent'.vertexes \in Seq(Vertex)
  BY <1>2, <1>4, <1>5
<1> QED
  BY <1>1, <1>2, <1>3, <1>5, <1>6, <1>7 DEF TranscriptInv

\* One update more of what was sent is collected.
LEMMA TakeVertexKeeps ==
    ASSUME DriverInv, TranscriptInv, TakeVertex
    PROVE  TranscriptInv'
<1> DEFINE v == Head(packet.vertexes)
           rest == Tail(packet.vertexes)
           all == sent.vertexes
           n == Len(all) - Len(packet.vertexes)
<1>1. /\ reader = "busy" /\ packet.vertexes # <<>> /\ seen' = Collect(v)
      /\ packet' = [packet EXCEPT !.vertexes = rest]
      /\ UNCHANGED <<call, reader, logs, report, sent>>
  BY DEF TakeVertex
<1>2. /\ packet.vertexes \in Seq(Vertex) /\ packet.logs \in Seq(STRING)
      /\ all \in Seq(Vertex) /\ seen \in Seq(Vertex)
      /\ packet = [vertexes |-> packet.vertexes, logs |-> packet.logs]
      /\ ~report.made
  BY <1>1 DEF TranscriptInv
<1>3. packet' = [vertexes |-> rest, logs |-> packet.logs]
  <2>1. ASSUME NEW a, NEW b, NEW c
        PROVE  [[vertexes |-> a, logs |-> b] EXCEPT !.vertexes = c]
                 = [vertexes |-> c, logs |-> b]
    OBVIOUS
  <2> HIDE DEF rest
  <2> QED
    BY <1>1, <1>2, <2>1
<1>4. /\ packet'.vertexes = rest /\ packet'.logs = packet.logs
      /\ packet' = [vertexes |-> packet'.vertexes, logs |-> packet'.logs]
  BY <1>3
<1>5. call.op = "build"
  BY <1>1 DEF DriverInv, ChannelInv
<1>6. /\ all = Taken \o packet.vertexes /\ SumsUp(seen, Taken)
      /\ sent.logs = logs \o packet.logs /\ Len(packet.vertexes) <= Len(all)
  BY <1>5 DEF TranscriptInv
<1>7. /\ v \in Vertex /\ rest \in Seq(Vertex)
      /\ Len(packet.vertexes) = Len(rest) + 1
      /\ Len(rest) \in Nat /\ Len(all) \in Nat
      /\ \A i \in 1..Len(rest) : rest[i] = packet.vertexes[i + 1]
      /\ v = packet.vertexes[1]
  BY <1>1, <1>2
<1>8. /\ n \in Nat /\ Len(all) = n + Len(rest) + 1
      /\ n \in 0..Len(all) /\ n + 1 \in 0..Len(all)
  <2> DEFINE l == Len(all)
             r == Len(rest)
             m == Len(packet.vertexes)
  <2>1. l \in Nat /\ r \in Nat /\ m = r + 1 /\ m <= l /\ n = l - m
    BY <1>6, <1>7
  <2> HIDE DEF l, r, m, n
  <2>2. n \in Nat /\ l = n + r + 1 /\ n \in 0..l /\ n + 1 \in 0..l
    BY <2>1
  <2> QED
    BY <2>2 DEF l, r
<1>9. Taken = SubSeq(all, 1, n) /\ Taken' = SubSeq(all, 1, n + 1)
  <2>1. Len(all) - Len(rest) = n + 1
    BY <1>7, <1>8
  <2>2. sent' = sent /\ packet'.vertexes = rest
    BY <1>1, <1>4
  <2> QED
    BY <2>1, <2>2 DEF Taken
<1> HIDE DEF v, rest, all, n
<1>10. /\ Taken \in Seq(Vertex) /\ Len(Taken) = n
       /\ \A i \in 1..n : Taken[i] = all[i]
       /\ Taken' \in Seq(Vertex) /\ Len(Taken') = n + 1
       /\ \A i \in 1..n + 1 : Taken'[i] = all[i]
  BY <1>2, <1>8, <1>9, Prefix
<1>11. \A i \in 1..Len(packet.vertexes) : all[n + i] = packet.vertexes[i]
  <2> TAKE i \in 1..Len(packet.vertexes)
  <2>1. n + i \in 1..Len(all) /\ n + i > n
    BY <1>7, <1>8
  <2>2. (Taken \o packet.vertexes)[n + i] = packet.vertexes[i]
    <3>1. /\ Taken \in Seq(Vertex) /\ packet.vertexes \in Seq(Vertex)
          /\ Len(Taken) = n /\ n \in Nat
      BY <1>2, <1>8, <1>10
    <3> QED
      BY <3>1, ConcatProperties
  <2> QED
    BY <1>6, <2>2
<1>12. Taken' = Append(Taken, v)
  <2>1. all[n + 1] = v
    BY <1>7, <1>11
  <2>2. /\ Append(Taken, v) \in Seq(Vertex) /\ Len(Append(Taken, v)) = n + 1
        /\ \A i \in 1..n : Append(Taken, v)[i] = Taken[i]
        /\ Append(Taken, v)[n + 1] = v
    BY <1>7, <1>10, AppendProperties
  <2>3. \A i \in 1..n + 1 : Taken'[i] = Append(Taken, v)[i]
    BY <1>8, <1>10, <2>1, <2>2
  <2> QED
    BY <1>10, <2>2, <2>3, SeqEqual
<1>13. all = Taken' \o rest
  <2>1. /\ Taken' \o rest \in Seq(Vertex) /\ Len(Taken' \o rest) = n + 1 + Len(rest)
        /\ \A i \in 1..n + 1 + Len(rest) : (Taken' \o rest)[i] =
              IF i <= n + 1 THEN Taken'[i] ELSE rest[i - (n + 1)]
    <3>1. Taken' \in Seq(Vertex) /\ rest \in Seq(Vertex)
      BY <1>7, <1>10
    <3>2. /\ Taken' \o rest \in Seq(Vertex)
          /\ Len(Taken' \o rest) = Len(Taken') + Len(rest)
          /\ \A i \in 1..Len(Taken') + Len(rest) : (Taken' \o rest)[i] =
                IF i <= Len(Taken') THEN Taken'[i] ELSE rest[i - Len(Taken')]
      BY <3>1, ConcatProperties
    <3> QED
      BY <1>10, <3>2
  <2>2. ASSUME NEW i \in 1..Len(all) PROVE (Taken' \o rest)[i] = all[i]
    <3>1. CASE i <= n + 1
      BY <1>8, <1>10, <2>1, <3>1
    <3>2. CASE ~(i <= n + 1)
      <4>1. /\ i - (n + 1) \in 1..Len(rest) /\ i - n \in 1..Len(packet.vertexes)
            /\ n + (i - n) = i /\ (i - (n + 1)) + 1 = i - n
        BY <1>7, <1>8, <3>2
      <4>2. (Taken' \o rest)[i] = rest[i - (n + 1)]
        BY <1>7, <1>8, <2>1, <3>2
      <4> QED
        BY <1>7, <1>11, <4>1, <4>2
    <3> QED
      BY <3>1, <3>2
  <2>3. Len(all) = n + 1 + Len(rest)
    BY <1>7, <1>8
  <2> QED
    BY <1>2, <2>1, <2>2, <2>3, SeqEqual
<1>14. seen' \in Seq(Vertex) /\ SumsUp(seen', Taken')
  BY <1>1, <1>2, <1>6, <1>7, <1>10, <1>12, CollectSumsUp
<1>15. Len(rest) <= Len(all)
  BY <1>7, <1>8
<1>16. /\ sent'.vertexes = all /\ sent'.logs = sent.logs /\ logs' = logs
       /\ reader' = "busy" /\ report' = report /\ call' = call
  BY <1>1 DEF all
<1> QED
  BY <1>2, <1>4, <1>5, <1>6, <1>7, <1>13, <1>14, <1>15, <1>16 DEF TranscriptInv

\* The log of a packet follows its vertices, and the packet is done.
LEMMA TakeLogsKeeps ==
    ASSUME DriverInv, TranscriptInv, TakeLogs
    PROVE  TranscriptInv'
<1>1. /\ reader = "busy" /\ packet.vertexes = <<>> /\ logs' = logs \o packet.logs
      /\ packet' = NoPacket /\ reader' = "recv"
      /\ UNCHANGED <<call, seen, report, sent>>
  BY DEF TakeLogs
<1>2. /\ packet'.vertexes = <<>> /\ packet'.logs = <<>>
      /\ packet' = [vertexes |-> packet'.vertexes, logs |-> packet'.logs]
  BY <1>1 DEF NoPacket
<1>3. /\ logs \in Seq(STRING) /\ packet.logs \in Seq(STRING)
      /\ sent.vertexes \in Seq(Vertex) /\ seen \in Seq(Vertex) /\ ~report.made
  BY <1>1 DEF TranscriptInv
<1>4. call.op = "build"
  BY <1>1 DEF DriverInv, ChannelInv
<1>5. /\ sent.logs = logs \o packet.logs /\ SumsUp(seen, Taken)
      /\ sent.vertexes = Taken \o packet.vertexes
  BY <1>4 DEF TranscriptInv
<1>6. logs' \in Seq(STRING) /\ sent.logs = logs' \o <<>>
  BY <1>1, <1>3, <1>5
<1>7. Taken' = Taken
  BY <1>1, <1>2 DEF Taken
<1>8. Len(<<>>) <= Len(sent.vertexes) /\ <<>> \in Seq(Vertex) /\ <<>> \in Seq(STRING)
  BY <1>3
<1> QED
  BY <1>1, <1>2, <1>3, <1>4, <1>5, <1>6, <1>7, <1>8 DEF TranscriptInv

\* The invariant of the transcript, while it is collected and after.
THEOREM TranscriptInvariant == Spec => []TranscriptInv
<1>1. DriverInv /\ TranscriptInv /\ [Next]_vars => TranscriptInv'
  <2> SUFFICES ASSUME DriverInv, TranscriptInv, [Next]_vars PROVE TranscriptInv'
    OBVIOUS
  <2>1. CASE Send \/ TakeVertex \/ TakeLogs
    BY <2>1, SendKeeps, TakeVertexKeeps, TakeLogsKeeps
  <2>2. CASE /\ UNCHANGED <<call, packet, seen, logs, report, sent>>
             /\ ~report.made
             /\ reader # "busy" /\ reader' # "busy"
    <3>1. Taken' = Taken
      BY <2>2 DEF Taken
    <3> QED
      BY <2>2, <3>1 DEF TranscriptInv
  <2>3. CASE UNCHANGED <<call, reader, packet, seen, logs, report, sent>>
    BY <2>3, TranscriptKept
  <2>4. CASE Solve \/ ReaderEnds
    <3>1. reader \in {"none", "recv"}
      BY <2>4 DEF Solve, ReaderEnds, DriverInv, ChannelInv
    <3>2. ~report.made
      BY <3>1 DEF TranscriptInv
    <3> QED
      BY <2>2, <2>4, <3>1, <3>2 DEF Solve, ReaderEnds
  <2>5. CASE Wait
    <3>1. UNCHANGED <<call, reader, packet, seen, logs, sent>> /\ reader = "gone"
      BY <2>5 DEF Wait
    <3>2. report' = IF call.op = "build"
                    THEN [made |-> TRUE, vertices |-> seen, logs |-> logs] ELSE report
      BY <2>5 DEF Wait
    <3> QED
      BY <3>1, <3>2 DEF TranscriptInv, Taken
  <2>6. CASE Check \/ MakeHelperDir \/ WriteHelper \/ StartSpan \/ Dial \/ Attach
    BY <2>3, <2>6 DEF Check, MakeHelperDir, WriteHelper, StartSpan, Dial, Attach, collected
  <2>7. CASE DaemonReturns \/ Returned \/ Unwind \/ Return \/ Idle \/ UNCHANGED vars
    BY <2>3, <2>7 DEF DaemonReturns, Returned, Unwind, Return, Idle, collected, vars
  <2> QED
    BY <2>1, <2>4, <2>5, <2>6, <2>7 DEF Next, Caller, Goroutine
<1> QED
  BY <1>1, TranscriptInit, DriverInvariant, PTL DEF Spec

\* The report of a build, failed or not, is the whole transcript.
THEOREM TranscriptIsWhole == Spec => []TranscriptWhole
<1>1. TranscriptInv => TranscriptWhole
  <2> SUFFICES ASSUME TranscriptInv, report.made
               PROVE  /\ report.logs = sent.logs
                      /\ SumsUp(report.vertices, sent.vertexes)
    BY DEF TranscriptWhole
  <2>1. /\ call.op = "build" /\ reader = "gone"
        /\ report.vertices = seen /\ report.logs = logs
        /\ logs \in Seq(STRING) /\ sent.vertexes \in Seq(Vertex)
    BY DEF TranscriptInv
  <2>2. packet = NoPacket /\ sent.logs = logs \o packet.logs /\ SumsUp(seen, Taken)
    BY <2>1 DEF TranscriptInv
  <2>3. packet.vertexes = <<>> /\ packet.logs = <<>>
    BY <2>2 DEF NoPacket
  <2>4. Taken = sent.vertexes
    <3> DEFINE n == Len(sent.vertexes)
    <3>1. n \in 0..Len(sent.vertexes) /\ n - Len(<<>>) = n
      BY <2>1
    <3>2. Taken = SubSeq(sent.vertexes, 1, n)
      BY <2>3, <3>1 DEF Taken
    <3> HIDE DEF n
    <3>3. /\ Taken \in Seq(Vertex) /\ Len(Taken) = n
          /\ \A i \in 1..n : Taken[i] = sent.vertexes[i]
      BY <2>1, <3>1, <3>2, Prefix
    <3> QED
      BY <2>1, <3>3, SeqEqual DEF n
  <2>5. sent.logs = logs
    BY <2>1, <2>2, <2>3
  <2> QED
    BY <2>1, <2>2, <2>4, <2>5
<1> QED
  BY <1>1, TranscriptInvariant, PTL
=============================================================================
