---------------------------- MODULE SourceFetch ----------------------------
(***************************************************************************)
(* acquireSource in URL mode (cmd/kbuild-step): the tarball cached on the  *)
(* mount, or a download that resumes over dropped connections, checks the  *)
(* pinned sha256 and renames the result into place.                        *)
(*                                                                         *)
(* A tarball is a sequence of chunks <<version, position>>.  The server    *)
(* may replace the version it serves at any time, answer a Range request   *)
(* with the whole file, break a body off, or end it early without saying   *)
(* so.  A killed step leaves its partial file on the mount.                *)
(***************************************************************************)
EXTENDS Naturals, Sequences

CONSTANTS
    Versions,     \* the contents the URL may serve
    Size,         \* Size[v]: the number of chunks of version v
    RetryAfters,  \* the values of Retry-After headers, in seconds
    None

Chunks == Versions \X (Nat \ {0})

MaxAttempts == 5
RetryBase == 2
RetryCap == 30

ASSUME FetchAssumption ==
    /\ Size \in [Versions -> Nat \ {0}]
    /\ RetryAfters \subseteq Nat
    /\ None \notin Versions \union (Versions \X Nat)
    /\ None \notin Seq(Chunks)

VARIABLES
    pc,           \* where acquireSource stands
    sum,          \* SRC_SHA256 of the build: a version, or None
    cached,       \* .kbf-src.tar<ext>
    part,         \* .kbf-src.tar<ext>.part
    attempt,      \* the attempt of download's loop
    retryAfter,   \* the pending Retry-After, in seconds
    waited,       \* the seconds slept since the download began
    body,         \* the response being copied: its version and position
    served,       \* the version the URL serves now
    server        \* "steady", or "unsteady" if it re-rolled or cut off a body

vars == <<pc, sum, cached, part, attempt, retryAfter, waited, body, served,
          server>>

Whole(v) == [i \in 1..Size[v] |-> <<v, i>>]

Downloading == {"request", "copy", "retry", "verify"}

Init ==
    /\ pc = "idle"
    /\ sum = None
    /\ cached = None
    /\ part = None
    /\ attempt = 0
    /\ retryAfter = 0
    /\ waited = 0
    /\ body = None
    /\ served \in Versions
    /\ server = "steady"

-----------------------------------------------------------------------------
(***************************************************************************)
(* acquireSource, up to the download.                                      *)
(***************************************************************************)
Acquire(s) ==
    /\ pc = "idle"
    /\ sum' = s
    /\ pc' = "lookup"
    /\ UNCHANGED <<cached, part, attempt, retryAfter, waited, body, served,
                   server>>

\* Mutant of Hit: any cached tarball will do.
Hit_Any == sum # None /\ cached # None

Hit == sum # None /\ cached # None /\ cached = Whole(sum)

UseCached ==
    /\ pc = "lookup"
    /\ Hit
    /\ pc' = "have"
    /\ UNCHANGED <<sum, cached, part, attempt, retryAfter, waited, body, served,
                   server>>

\* Mutant of Begin: the download resumes a stale .part.
Begin_Stale ==
    /\ pc = "lookup"
    /\ ~Hit
    /\ pc' = "request"
    /\ attempt' = 1
    /\ retryAfter' = 0
    /\ waited' = 0
    /\ server' = "steady"
    /\ UNCHANGED <<sum, cached, part, body, served>>

\* download: a stale .part is dropped, resume only within this call.
Begin ==
    /\ pc = "lookup"
    /\ ~Hit
    /\ pc' = "request"
    /\ part' = None
    /\ attempt' = 1
    /\ retryAfter' = 0
    /\ waited' = 0
    /\ server' = "steady"
    /\ UNCHANGED <<sum, cached, body, served>>

-----------------------------------------------------------------------------
(***************************************************************************)
(* One attempt: the request and the server's answers.                      *)
(***************************************************************************)
Have == IF part = None THEN 0 ELSE Len(part)

\* Mutant of Retry: one attempt too few.
Retry_Early == pc' = IF attempt + 1 = MaxAttempts THEN "exhausted" ELSE "retry"

\* lastErr is set and the loop continues, as long as attempts are left.
Retry == pc' = IF attempt = MaxAttempts THEN "exhausted" ELSE "retry"

\* Mutant of AnswerWhole: a 200 is appended to what is there.
AnswerWhole_Append ==
    /\ pc = "request"
    /\ pc' = "copy"
    /\ part' = IF part = None THEN <<>> ELSE part
    /\ body' = <<served, 0>>
    /\ UNCHANGED <<sum, cached, attempt, retryAfter, waited, served, server>>

\* 200: the answer starts at the first byte, Range or not.
AnswerWhole ==
    /\ pc = "request"
    /\ pc' = "copy"
    /\ part' = <<>>
    /\ body' = <<served, 0>>
    /\ UNCHANGED <<sum, cached, attempt, retryAfter, waited, served, server>>

\* 206: the answer continues where the partial file ends.
AnswerRest ==
    /\ pc = "request"
    /\ Have > 0
    /\ Have < Size[served]
    /\ pc' = "copy"
    /\ body' = <<served, Have>>
    /\ UNCHANGED <<sum, cached, part, attempt, retryAfter, waited, served,
                   server>>

\* 416: there is no rest of this file; start over.
AnswerPastEnd ==
    /\ pc = "request"
    /\ Have > 0
    /\ Have >= Size[served]
    /\ part' = None
    /\ Retry
    /\ UNCHANGED <<sum, cached, attempt, retryAfter, waited, body, served,
                   server>>

\* parseRetryAfter
Capped(ra) == IF ra > RetryCap THEN RetryCap ELSE ra

Larger(i, j) == IF i > j THEN i ELSE j

\* 429 or 5xx, with a Retry-After or (0) without.
AnswerBusy(ra) ==
    /\ pc = "request"
    /\ retryAfter' = Larger(retryAfter, Capped(ra))
    /\ Retry
    /\ UNCHANGED <<sum, cached, part, attempt, waited, body, served, server>>

\* No answer: a reset, a timeout, a resolver that fails for now.
NoAnswer ==
    /\ pc = "request"
    /\ Retry
    /\ UNCHANGED <<sum, cached, part, attempt, retryAfter, waited, body, served,
                   server>>

\* Another status, a refused redirect or address, a name that does not exist.
Refused ==
    /\ pc = "request"
    /\ pc' = "failed"
    /\ UNCHANGED <<sum, cached, part, attempt, retryAfter, waited, body, served,
                   server>>

\* The backoff before attempt n > 1.
Backoff ==
    /\ pc = "retry"
    /\ attempt' = attempt + 1
    /\ waited' = waited + Larger(retryAfter, attempt' * RetryBase)
    /\ retryAfter' = 0
    /\ pc' = "request"
    /\ UNCHANGED <<sum, cached, part, body, served, server>>

-----------------------------------------------------------------------------
(***************************************************************************)
(* io.Copy of the body.                                                    *)
(***************************************************************************)
CopyChunk ==
    /\ pc = "copy"
    /\ body[2] < Size[body[1]]
    /\ body' = <<body[1], body[2] + 1>>
    /\ part' = Append(part, <<body[1], body[2] + 1>>)
    /\ UNCHANGED <<pc, sum, cached, attempt, retryAfter, waited, served, server>>

\* Mutant of CopyBreaks: a broken copy counts as complete.
CopyBreaks_Done ==
    /\ pc = "copy"
    /\ pc' = "verify"
    /\ body' = None
    /\ UNCHANGED <<sum, cached, part, attempt, retryAfter, waited, served, server>>

\* Mutant of CopyBreaks: a resume is not counted as an attempt.
CopyBreaks_Free ==
    /\ pc = "copy"
    /\ pc' = "request"
    /\ body' = None
    /\ UNCHANGED <<sum, cached, part, attempt, retryAfter, waited, served, server>>

\* The connection drops or the 30-minute limit strikes, even after the last
\* chunk: what was written stays.
CopyBreaks ==
    /\ pc = "copy"
    /\ Retry
    /\ body' = None
    /\ UNCHANGED <<sum, cached, part, attempt, retryAfter, waited, served, server>>

\* A clean EOF counts as complete.  A body without a length may end early.
CopyEnds ==
    /\ pc = "copy"
    /\ server' = IF body[2] < Size[body[1]] THEN "unsteady" ELSE server
    /\ pc' = "verify"
    /\ body' = None
    /\ UNCHANGED <<sum, cached, part, attempt, retryAfter, waited, served>>

(***************************************************************************)
(* The sha256 gate and the rename.                                         *)
(***************************************************************************)
Matches == sum # None => part = Whole(sum)

\* Mutant of Verify: renamed first, checked after.
Verify_Late ==
    /\ pc = "verify"
    /\ part' = None
    /\ cached' = part
    /\ pc' = IF Matches THEN "have" ELSE "failed"
    /\ UNCHANGED <<sum, attempt, retryAfter, waited, body, served, server>>

Verify ==
    /\ pc = "verify"
    /\ part' = None
    /\ IF Matches
       THEN cached' = part /\ pc' = "have"
       ELSE pc' = "failed" /\ UNCHANGED cached
    /\ UNCHANGED <<sum, attempt, retryAfter, waited, body, served, server>>

-----------------------------------------------------------------------------
Ended == {"have", "failed", "exhausted"}

\* The process is gone; what it wrote stays.
Gone ==
    /\ pc' = "idle"
    /\ sum' = None
    /\ attempt' = 0
    /\ retryAfter' = 0
    /\ waited' = 0
    /\ body' = None
    /\ server' = "steady"
    /\ UNCHANGED <<cached, part, served>>

\* The step goes on with the tarball or ends with the error.
Finish == pc \in Ended /\ Gone

\* The solve is cancelled, or a local I/O error ends the step.
Kill == pc \notin Ended \union {"idle"} /\ Gone

ReRoll ==
    /\ \E v \in Versions \ {served} : served' = v
    /\ server' = IF pc \in Downloading THEN "unsteady" ELSE server
    /\ UNCHANGED <<pc, sum, cached, part, attempt, retryAfter, waited, body>>

Fetch ==
    \/ UseCached \/ Begin \/ AnswerWhole \/ AnswerRest \/ AnswerPastEnd
    \/ (\E ra \in RetryAfters : AnswerBusy(ra)) \/ NoAnswer \/ Refused
    \/ Backoff \/ CopyChunk \/ CopyBreaks \/ CopyEnds \/ Verify \/ Finish

Next ==
    \/ \E s \in Versions \union {None} : Acquire(s)
    \/ Fetch
    \/ Kill
    \/ ReRoll

Spec == Init /\ [][Next]_vars

\* Every request is answered or times out: http.Client.Timeout bounds the
\* whole transfer, the dialer its connection, and time.After fires.
FairSpec == Spec /\ WF_vars(Fetch)

-----------------------------------------------------------------------------
(***************************************************************************)
(* Properties.                                                             *)
(***************************************************************************)
\* The type invariant.
TypeOK ==
    /\ pc \in {"idle", "lookup", "request", "copy", "retry", "verify"} \union Ended
    /\ sum \in Versions \union {None}
    /\ cached \in Seq(Chunks) \union {None}
    /\ part \in Seq(Chunks) \union {None}
    /\ attempt \in 0..MaxAttempts
    /\ retryAfter \in 0..RetryCap
    /\ waited \in Nat
    /\ body \in (Versions \X Nat) \union {None}
    /\ served \in Versions
    /\ server \in {"steady", "unsteady"}

\* What acquireSource hands to extractTarball for a pinned build is the
\* pinned tarball, byte for byte: no resume over a re-rolled file, no early
\* EOF and no leftover of a killed step gets past the gate.
PinnedExact == (pc = "have" /\ sum # None) => cached = Whole(sum)

\* As long as the server is steady the partial file is a prefix of what it
\* serves, through every mix of 200, 206 and 416 answers and of dropped
\* connections: resuming neither repeats nor skips a chunk.
Prefix(s, v) ==
    /\ Len(s) <= Size[v]
    /\ \A i \in 1..Len(s) : s[i] = <<v, i>>

ResumeExact ==
    (pc \in Downloading /\ server = "steady" /\ part # None) => Prefix(part, served)

\* So from a steady server even an unpinned build gets a whole tarball.
SteadyWhole ==
    (pc = "verify" /\ server = "steady") => part = Whole(served)

\* A fetch gives up only after the whole backoff schedule, 28 seconds, and
\* however long the server asks it to wait, it sleeps at most two minutes.
Patience ==
    /\ pc = "exhausted" => waited >= 28
    /\ waited <= (MaxAttempts - 1) * RetryCap

\* The cached tarball is replaced only by the tarball of the build that
\* fetched it, never lost: a failed or killed fetch of another source leaves
\* the next build of the old one its cache hit.
CacheKept ==
    [][cached' # cached =>
         pc = "verify" /\ cached' = part /\ (sum # None => part = Whole(sum))]_vars

\* Every fetch ends, whatever the server does.
Ends == []<>(pc = "idle")

-----------------------------------------------------------------------------
\* The least time slept before attempt n: 2n seconds for each n > 1.
Slept(n) ==
    CASE n <= 1 -> 0 [] n = 2 -> 4 [] n = 3 -> 10 [] n = 4 -> 18 [] OTHER -> 28

\* The inductive invariant: where the copy of a body stands relative to the
\* partial file, and how far the backoff schedule has come.
FetchInv ==
    /\ TypeOK
    /\ PinnedExact
    /\ ResumeExact
    /\ SteadyWhole
    /\ pc \in {"copy", "verify"} => part # None
    /\ pc = "copy" =>
          /\ body # None
          /\ body[2] <= Size[body[1]]
          /\ server = "steady" => body = <<served, Len(part)>>
    /\ pc \in Downloading \union {"exhausted"} =>
          /\ attempt >= 1
          /\ waited >= Slept(attempt)
          /\ waited <= (attempt - 1) * RetryCap
    /\ pc = "retry" => attempt < MaxAttempts
    /\ pc = "exhausted" => attempt = MaxAttempts
    /\ waited <= (MaxAttempts - 1) * RetryCap
=============================================================================
