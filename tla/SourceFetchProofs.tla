------------------------- MODULE SourceFetchProofs -------------------------
(***************************************************************************)
(* Proofs about SourceFetch, for every set of versions and sizes.          *)
(***************************************************************************)
EXTENDS SourceFetch, TLAPS

\* The partial file after one more chunk is still a prefix.
LEMMA PrefixGrows ==
    ASSUME NEW v \in Versions, NEW s \in Seq(Chunks), Prefix(s, v),
           Len(s) < Size[v]
    PROVE  /\ Append(s, <<v, Len(s) + 1>>) \in Seq(Chunks)
           /\ Len(Append(s, <<v, Len(s) + 1>>)) = Len(s) + 1
           /\ Prefix(Append(s, <<v, Len(s) + 1>>), v)
<1>1. Size[v] \in Nat
  BY FetchAssumption
<1> QED
  BY <1>1 DEF Prefix, Chunks

\* A prefix as long as the file is the file.
LEMMA PrefixWhole ==
    ASSUME NEW v \in Versions, NEW s \in Seq(Chunks), Prefix(s, v),
           Len(s) = Size[v]
    PROVE  s = Whole(v)
<1>1. s = [i \in 1..Len(s) |-> s[i]]
  OBVIOUS
<1> QED
  BY <1>1 DEF Prefix, Whole

\* Nothing has been acquired or fetched before the first build.
LEMMA FetchInit == Init => FetchInv
  BY FetchAssumption DEF Init, FetchInv, TypeOK, PinnedExact, ResumeExact,
     SteadyWhole, Ended, Downloading, MaxAttempts, RetryCap

\* Every step of the fetch, of the server and every kill keeps the invariant.
LEMMA FetchNext == FetchInv /\ [Next]_vars => FetchInv'
<1> SUFFICES ASSUME FetchInv, [Next]_vars PROVE FetchInv'
  OBVIOUS
<1> USE DEF Ended, Downloading, MaxAttempts, RetryCap, RetryBase
<1>1. CASE UNCHANGED vars
  BY <1>1 DEF vars, FetchInv, TypeOK, PinnedExact, ResumeExact, SteadyWhole
<1>2. ASSUME NEW s \in Versions \union {None}, Acquire(s) PROVE FetchInv'
  BY <1>2 DEF Acquire, FetchInv, TypeOK, PinnedExact, ResumeExact, SteadyWhole
<1>3. CASE UseCached
  BY <1>3 DEF UseCached, Hit, FetchInv, TypeOK, PinnedExact, ResumeExact,
     SteadyWhole
<1>4. CASE Begin
  BY <1>4 DEF Begin, FetchInv, TypeOK, PinnedExact, ResumeExact, SteadyWhole,
     Slept
<1>5. CASE AnswerWhole
  <2>1. Size[served] \in Nat
    BY FetchAssumption DEF FetchInv, TypeOK
  <2>2. <<>> \in Seq(Chunks) /\ Len(<<>>) = 0
    OBVIOUS
  <2>3. <<>> # None
    BY <2>2, FetchAssumption
  <2>4. body' = <<served, 0>> /\ body' \in Versions \X Nat /\ body' # None
    BY <1>5, FetchAssumption DEF AnswerWhole, FetchInv, TypeOK
  <2> QED
    BY <1>5, <2>1, <2>2, <2>3, <2>4 DEF AnswerWhole, FetchInv, TypeOK, PinnedExact,
       ResumeExact, SteadyWhole, Prefix
<1>6. CASE AnswerRest
  <2>1. Size[served] \in Nat
    BY FetchAssumption DEF FetchInv, TypeOK
  <2>2. part # None /\ Len(part) \in Nat
    BY <1>6 DEF AnswerRest, Have, FetchInv, TypeOK
  <2>3. body' = <<served, Len(part)>> /\ body' \in Versions \X Nat /\ body' # None
    BY <1>6, <2>2, FetchAssumption DEF AnswerRest, Have, FetchInv, TypeOK
  <2> QED
    BY <1>6, <2>1, <2>2, <2>3 DEF AnswerRest, Have, FetchInv, TypeOK, PinnedExact,
       ResumeExact, SteadyWhole
<1>7. CASE AnswerPastEnd
  BY <1>7 DEF AnswerPastEnd, Retry, FetchInv, TypeOK, PinnedExact, ResumeExact,
     SteadyWhole
<1>8. ASSUME NEW ra \in RetryAfters, AnswerBusy(ra) PROVE FetchInv'
  <2>1. ra \in Nat
    BY FetchAssumption
  <2> QED
    BY <1>8, <2>1 DEF AnswerBusy, Capped, Larger, Retry, FetchInv, TypeOK,
       PinnedExact, ResumeExact, SteadyWhole
<1>9. CASE NoAnswer
  BY <1>9 DEF NoAnswer, Retry, FetchInv, TypeOK, PinnedExact, ResumeExact,
     SteadyWhole
<1>10. CASE Refused
  BY <1>10 DEF Refused, FetchInv, TypeOK, PinnedExact, ResumeExact, SteadyWhole
<1>11. CASE Backoff
  <2>1. /\ attempt \in 1..4 /\ attempt' = attempt + 1 /\ waited \in Nat
        /\ retryAfter \in 0..30
        /\ waited' = waited + Larger(retryAfter, (attempt + 1) * 2)
    BY <1>11 DEF Backoff, FetchInv, TypeOK
  <2>2. /\ waited' \in Nat
        /\ waited' >= waited + (attempt + 1) * 2
        /\ waited' <= waited + 30
    BY <2>1 DEF Larger
  <2>3. waited' >= Slept(attempt') /\ waited' <= (attempt' - 1) * 30
    BY <1>11, <2>1, <2>2 DEF Backoff, FetchInv, Slept
  <2> QED
    BY <1>11, <2>1, <2>2, <2>3 DEF Backoff, FetchInv, TypeOK, PinnedExact,
       ResumeExact, SteadyWhole
<1>12. CASE CopyChunk
  <2> DEFINE v == body[1]
             n == body[2]
  <2>1. /\ v \in Versions /\ n \in Nat /\ Size[v] \in Nat /\ n < Size[v]
        /\ part \in Seq(Chunks) /\ body = <<v, n>>
    BY <1>12, FetchAssumption DEF CopyChunk, FetchInv, TypeOK
  <2>2. part' = Append(part, <<v, n + 1>>) /\ body' = <<v, n + 1>>
    BY <1>12 DEF CopyChunk
  <2>3. /\ part' \in Seq(Chunks) /\ Len(part') = Len(part) + 1 /\ part' # None
        /\ body' \in Versions \X Nat /\ body' # None
    <3>1. <<v, n + 1>> \in Chunks /\ <<v, n + 1>> \in Versions \X Nat
      BY <2>1 DEF Chunks
    <3>2. part' \in Seq(Chunks) /\ Len(part') = Len(part) + 1
      BY <2>1, <2>2, <3>1
    <3> QED
      BY <2>2, <3>1, <3>2, FetchAssumption
  <2>4. server = "steady" => v = served /\ n = Len(part) /\ Prefix(part', served)
    BY <1>12, <2>1, <2>2, PrefixGrows DEF CopyChunk, FetchInv, ResumeExact, TypeOK
  <2> QED
    BY <1>12, <2>1, <2>2, <2>3, <2>4 DEF CopyChunk, FetchInv, TypeOK,
       PinnedExact, ResumeExact, SteadyWhole
<1>13. CASE CopyBreaks
  BY <1>13 DEF CopyBreaks, Retry, FetchInv, TypeOK, PinnedExact, ResumeExact,
     SteadyWhole
<1>14. CASE CopyEnds
  <2>1. server' \in {"steady", "unsteady"}
    BY <1>14 DEF CopyEnds, FetchInv, TypeOK
  <2>2. ASSUME server' = "steady"
        PROVE  /\ part \in Seq(Chunks) /\ Prefix(part, served)
               /\ Len(part) = Size[served] /\ server = "steady"
    BY <1>14, <2>2, FetchAssumption DEF CopyEnds, FetchInv, TypeOK, ResumeExact
  <2>3. server' = "steady" => part = Whole(served)
    BY <2>2, PrefixWhole DEF FetchInv, TypeOK
  <2> QED
    BY <1>14, <2>1, <2>2, <2>3 DEF CopyEnds, FetchInv, TypeOK, PinnedExact,
       ResumeExact, SteadyWhole
<1>15. CASE Verify
  BY <1>15 DEF Verify, Matches, FetchInv, TypeOK, PinnedExact, ResumeExact,
     SteadyWhole
<1>16. CASE Finish \/ Kill
  BY <1>16 DEF Finish, Kill, Gone, FetchInv, TypeOK, PinnedExact, ResumeExact,
     SteadyWhole
<1>17. CASE ReRoll
  <2>1. server' \in {"steady", "unsteady"}
    BY <1>17 DEF ReRoll, FetchInv, TypeOK
  <2>2. pc \in Downloading => server' = "unsteady"
    BY <1>17 DEF ReRoll
  <2> QED
    BY <1>17, <2>1, <2>2 DEF ReRoll, FetchInv, TypeOK, PinnedExact, ResumeExact,
       SteadyWhole
<1> QED
  BY <1>1, <1>2, <1>3, <1>4, <1>5, <1>6, <1>7, <1>8, <1>9, <1>10, <1>11, <1>12,
     <1>13, <1>14, <1>15, <1>16, <1>17 DEF Next, Fetch

\* The invariant holds however the server answers and whenever it is killed.
THEOREM FetchInvariant == Spec => []FetchInv
  BY FetchInit, FetchNext, PTL DEF Spec

\* A pinned build extracts the pinned tarball or none.
THEOREM PinnedIsExact == Spec => []PinnedExact
<1>1. FetchInv => PinnedExact
  BY DEF FetchInv
<1> QED
  BY <1>1, FetchInvariant, PTL

\* Resuming neither repeats nor skips a chunk of a file that stays the same.
THEOREM ResumeIsExact == Spec => []ResumeExact
<1>1. FetchInv => ResumeExact
  BY DEF FetchInv
<1> QED
  BY <1>1, FetchInvariant, PTL

\* From a server that neither re-rolls the file nor cuts a body off, what
\* reaches the gate is the whole file, so an unpinned build gets it too.
THEOREM SteadyIsWhole == Spec => []SteadyWhole
<1>1. FetchInv => SteadyWhole
  BY DEF FetchInv
<1> QED
  BY <1>1, FetchInvariant, PTL

\* Five attempts take at least 28 seconds of backoff and at most two minutes.
THEOREM PatienceHolds == Spec => []Patience
<1>1. FetchInv => Patience
  BY DEF FetchInv, Patience, Slept, MaxAttempts, RetryCap
<1> QED
  BY <1>1, FetchInvariant, PTL

\* No fetch, failed or killed, takes a good tarball from the next build.
THEOREM CacheIsKept == Spec => CacheKept
<1>1. [Next]_vars =>
        [cached' # cached =>
           pc = "verify" /\ cached' = part /\ (sum # None => part = Whole(sum))]_vars
  BY DEF Next, Fetch, Acquire, UseCached, Begin, AnswerWhole, AnswerRest,
     AnswerPastEnd, AnswerBusy, NoAnswer, Refused, Backoff, CopyChunk, CopyBreaks,
     CopyEnds, Verify, Matches, Finish, Kill, Gone, ReRoll, vars
<1> QED
  BY <1>1, PTL DEF Spec, CacheKept
=============================================================================
