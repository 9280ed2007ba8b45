------------------------- MODULE ObjectTreeService -------------------------
(***************************************************************************)
(* Proofs that the compile step keeps what it promises: it destroys no     *)
(* tree it cannot replace, publishes only past its gates, fails only for a *)
(* cause of its own, and implements CompileService.                        *)
(***************************************************************************)
EXTENDS ObjectTreeProofs

-----------------------------------------------------------------------------
(***************************************************************************)
(* StepInv is kept, action by action.                                      *)
(***************************************************************************)
\* The locations of a running step at which JobInv asks for nothing new.
Neutral ==
    {"sweep", "stamp", "clear", "hydrate", "adopt", "source", "extract", "patch",
     "bless", "stamped", "configure", "unmark", "expect"} \union Configuring

\* A running step that goes on to such a location keeps its invariant.
LEMMA NeutralJob ==
    ASSUME NEW t, NEW s, NEW u, NEW z, JobInv(t, s),
           s.pc \notin {"idle", "failed"}, z.pc \in Neutral, z.req = s.req
    PROVE  JobInv(u, z)
  BY DEF JobInv, ReplaceInv, GateInv, FaultInv, Neutral, Configuring, Compiling

\* A live stamp lies in a tree that has a Makefile.
LEMMA LiveTree ==
    ASSUME NEW t, Whole(t, t[".kbf-stamp"]), t[".kbf-stamp"] \in Stamps
    PROVE  TreePresent(t)
  BY CleanPresent DEF Whole, Stamps

\* A step that starts an extraction knows what it is for.
Untars(m, next, img, todo) ==
    step' = [step EXCEPT ![m].pc = "untar", ![m].next = next,
                         ![m].img = img, ![m].todo = todo]

LEMMA UntarFacts ==
    ASSUME IsStep, NEW m \in Mounts, NEW next, NEW img, NEW todo,
           Untars(m, next, img, todo)
    PROVE  /\ step'[m].pc = "untar" /\ step'[m].next = next
           /\ step'[m].req = step[m].req
<1> DEFINE y == [step[m] EXCEPT !.pc = "untar", !.next = next, !.img = img,
                                !.todo = todo]
<1>0. IsRecord(step[m])
  BY DEF IsStep, IsRecord
<1>1. IsRecord(y)
  BY <1>0 DEF IsRecord, Fields
<1>2. step' = [step EXCEPT ![m] = y]
  BY DEF Untars, IsStep
<1>3. y.pc = "untar" /\ y.next = next /\ y.req = step[m].req
  BY <1>0 DEF IsRecord, Fields
<1> HIDE DEF y
<1> QED
  BY <1>1, <1>2, <1>3, StepFacts

\* configure passes through such locations only.
LEMMA ConfigureJob ==
    ASSUME NEW m \in Mounts, Before(m), JobInv(mount[m], step[m]), Configure(m)
    PROVE  JobInv(mount'[m], step'[m])
<1>1. \E pc \in Neutral : Goto(m, pc)
  BY DEF Configure, CompareConfig, Unmark, BaseMake, AppendFragment,
     TruncateConfig, WriteConfig, Olddefconfig, Mark, Marked, Neutral, Configuring
<1>2. step[m].pc \notin {"idle", "failed"}
  BY DEF Configure, CompareConfig, Unmark, BaseMake, AppendFragment,
     TruncateConfig, WriteConfig, Olddefconfig, Mark, Marked, At
<1>3. step'[m].pc \in Neutral /\ step'[m].req = step[m].req
  BY <1>1, GotoFacts DEF Before, Moved, SameJob
<1> QED
  BY <1>2, <1>3, NeutralJob

\* prepareTree: a tree with a live stamp is nuked only for its replacement,
\* and only the seed and the pin can make it fail.
LEMMA PrepareJob ==
    ASSUME NEW m \in Mounts, Before(m), JobInv(mount[m], step[m]), Prepare(m)
    PROVE  JobInv(mount'[m], step'[m])
<1> DEFINE t == mount[m]
           s == step[m]
           u == mount'[m]
           z == step'[m]
<1> SUFFICES JobInv(u, z)
  OBVIOUS
<1>1. MountType(t, s) /\ MountInv(t, s) /\ JobInv(t, s)
  BY DEF Before
<1>2. CASE Sweep(m) \/ ApplyPatches(m) \/ Bless(m) \/ Stamped(m)
  <2>1. \E pc \in {"stamp", "bless", "stamped", "source"} : Goto(m, pc)
    BY <1>2 DEF Sweep, ApplyPatches, Bless, Stamped
  <2>2. s.pc \notin {"idle", "failed"}
    BY <1>2 DEF Sweep, ApplyPatches, Bless, Stamped, At
  <2>3. z.pc \in Neutral /\ z.req = s.req
    BY <2>1, GotoFacts DEF Before, Moved, SameJob, Neutral
  <2> QED
    BY <1>1, <2>2, <2>3, NeutralJob
<1>3. CASE CompareStamp(m) \/ NeedSource(m)
  <2>1. /\ s.pc \in {"stamp", "source"} /\ u = t /\ SameJob(z, s)
        /\ \/ z.pc \in Neutral
           \/ /\ z.pc = "acquire"
              /\ TreePresent(t) => t[".kbf-stamp"] # StampWant(s.req)
    BY <1>3, GotoFacts DEF CompareStamp, NeedSource, KeepsMount, At, Before, Moved,
       Neutral, SameJob
  <2> HIDE DEF t, s, u, z
  <2>2. CASE z.pc \in Neutral
    BY <1>1, <2>1, <2>2, NeutralJob DEF SameJob
  <2>3. CASE z.pc = "acquire"
    BY <1>1, <2>1, <2>3 DEF SameJob, Neutral, Configuring, JobInv, ReplaceInv,
       GateInv, FaultInv, Compiling
  <2> QED
    BY <2>1, <2>2, <2>3
<1>4. CASE Clear(m)
  <2>1. /\ s.pc = "clear" /\ u = t /\ SameJob(z, s)
        /\ \/ z.pc = "source"
           \/ z.pc = "nuke" /\ z.next = "hydrate" /\ ~TreePresent(t)
    BY <1>4, GotoFacts, NukeFacts DEF Clear, KeepsMount, At, Before, Moved
  <2> HIDE DEF t, s, u, z
  <2>2. ~TreePresent(t) => t[".kbf-stamp"] \notin Stamps
    BY <1>1, LiveTree DEF MountInv
  <2> QED
    BY <1>1, <2>1, <2>2 DEF SameJob, JobInv, ReplaceInv, GateInv, FaultInv, Compiling
<1>5. CASE NukeEntry(m)
  <2>1. PICK k \in Leftover(t) : Put(m, NukeOrder[k], None)
    BY <1>5 DEF NukeEntry
  <2>2. NukeOrder[k] \in TreeFiles
    BY <2>1 DEF Leftover, NukeOrder, TreeFiles, SrcFiles
  <2>3. s.pc = "nuke" /\ z = s /\ u[".kbf-stamp"] \in {t[".kbf-stamp"], None}
    BY <1>5, <2>1, <2>2, PutFacts DEF NukeEntry, At, Before, Wrote, Files, TreeFiles
  <2>4. None \notin Stamps
    BY ConstantsAssumption
  <2> HIDE DEF t, s, u, z
  <2> QED
    BY <1>1, <2>3, <2>4 DEF JobInv, ReplaceInv, GateInv, FaultInv, Compiling
<1>6. CASE NukeDone(m)
  <2>1. s.pc = "nuke" /\ u = t /\ Moved(z, s, s.next)
    BY <1>6, GotoFacts DEF NukeDone, KeepsMount, At, Before
  <2> HIDE DEF t, s, u, z
  <2>2. s.next \in {"clear", "hydrate", "source", "failed"}
    BY <1>1, <2>1 DEF MountInv, SourceInv
  <2>3. CASE s.next = "failed"
    <3>1. z.why = "seed" /\ Seeded(z.req)
      BY <1>1, <2>1, <2>3 DEF JobInv, FaultInv, Moved, SameJob
    <3>2. OwnFault(u, z)
      BY <3>1 DEF OwnFault
    <3> QED
      BY <1>1, <2>1, <2>3, <3>2 DEF Moved, SameJob, JobInv, ReplaceInv, GateInv,
         FaultInv, Compiling
  <2>4. CASE s.next # "failed"
    BY <1>1, <2>1, <2>2, <2>4, NeutralJob DEF Moved, SameJob, Neutral
  <2> QED
    BY <2>3, <2>4
<1>7. CASE Hydrate(m)
  <2>1. /\ s.pc = "hydrate" /\ SameJob(z, s)
        /\ z.pc = "source" \/ (z.pc = "pull" /\ Seeded(s.req))
    BY <1>7, GotoFacts DEF Hydrate, KeepsMount, At, Before, Moved
  <2> HIDE DEF t, s, u, z
  <2> QED
    BY <1>1, <2>1 DEF SameJob, JobInv, ReplaceInv, GateInv, FaultInv, Compiling
<1>8. CASE PullFails(m)
  <2>1. s.pc = "pull" /\ z.pc = "failed" /\ z.why = "seed" /\ SameJob(z, s)
    BY <1>8, FailFacts DEF PullFails, At, Before
  <2> HIDE DEF t, s, u, z
  <2>2. Seeded(z.req)
    BY <1>1, <2>1 DEF JobInv, FaultInv, SameJob
  <2>3. OwnFault(u, z)
    BY <2>1, <2>2 DEF OwnFault
  <2> QED
    BY <1>1, <2>1, <2>3 DEF SameJob, JobInv, ReplaceInv, GateInv, FaultInv, Compiling
<1>9. CASE PullSeed(m)
  <2>1. CASE Goto(m, "source")
    <3>1. s.pc = "pull" /\ z.pc = "source" /\ z.req = s.req
      BY <1>9, <2>1, GotoFacts DEF PullSeed, At, Before, Moved, SameJob
    <3> QED
      BY <1>1, <3>1, NeutralJob DEF Neutral
  <2>2. CASE ~Goto(m, "source")
    <3>1. PICK i, todo : Untars(m, "adopt", i, todo)
      BY <1>9, <2>2, Zenon DEF PullSeed, Untars
    <3>2. s.pc = "pull" /\ z.pc = "untar" /\ z.next = "adopt" /\ z.req = s.req
      BY <1>9, <3>1, UntarFacts DEF PullSeed, At, Before
    <3> HIDE DEF t, s, u, z
    <3> QED
      BY <1>1, <3>2 DEF JobInv, ReplaceInv, GateInv, FaultInv, Compiling
  <2> QED
    BY <2>1, <2>2
<1>10. CASE UntarEntry(m)
  <2>1. s.pc = "untar" /\ z.pc = "untar" /\ z.next = s.next /\ z.req = s.req
    BY <1>10 DEF UntarEntry, At, Before, IsStep, Fields
  <2> HIDE DEF t, s, u, z
  <2> QED
    BY <1>1, <2>1 DEF JobInv, ReplaceInv, GateInv, FaultInv, Compiling
<1>11. CASE UntarDone(m)
  <2>1. s.pc = "untar" /\ z.pc = s.next /\ z.req = s.req
    <3>1. IsRecord(s) /\ step = [n \in Mounts |-> step[n]]
      BY DEF Before, IsStep, IsRecord
    <3>2. s.pc = "untar" /\ z = [s EXCEPT !.pc = s.next, !.img = None]
      BY <1>11, <3>1 DEF UntarDone, At
    <3> HIDE DEF s, z
    <3> QED
      BY <3>1, <3>2 DEF IsRecord, Fields
  <2>2. s.next \in {"patch", "adopt"}
    BY <1>1, <2>1 DEF MountInv, UntarInv
  <2> HIDE DEF t, s, u, z
  <2>3. z.pc \in Neutral /\ s.pc \notin {"idle", "failed"}
    BY <2>1, <2>2 DEF Neutral
  <2> QED
    BY <1>1, <2>1, <2>3, NeutralJob
<1>12. CASE UntarSeedFails(m)
  <2>1. /\ s.pc = "untar" /\ s.next = "adopt" /\ u = t
        /\ z.pc = "nuke" /\ z.next = "failed" /\ z.why = "seed" /\ z.req = s.req
    <3> DEFINE y == [s EXCEPT !.pc = "nuke", !.next = "failed", !.img = None,
                              !.todo = {}, !.why = "seed"]
    <3>1. IsRecord(y) /\ step' = [step EXCEPT ![m] = y]
      BY <1>12 DEF UntarSeedFails, Before, IsStep, IsRecord, Fields
    <3>2. y.pc = "nuke" /\ y.next = "failed" /\ y.why = "seed" /\ y.req = s.req
      BY DEF Before, IsStep, Fields
    <3> HIDE DEF y
    <3> QED
      BY <1>12, <3>1, <3>2, StepFacts DEF UntarSeedFails, KeepsMount, At, Before
  <2> HIDE DEF t, s, u, z
  <2>2. t[".kbf-stamp"] = None
    BY <1>1, <2>1 DEF MountInv, UntarInv, TreeFiles
  <2>3. t[".kbf-stamp"] \notin Stamps
    BY <2>2, ConstantsAssumption
  <2> QED
    BY <1>1, <2>1, <2>3 DEF JobInv, ReplaceInv, GateInv, FaultInv, Compiling
<1>13. CASE AdoptSeed(m)
  <2>1. /\ s.pc = "adopt" /\ Wrote(u, t, ".kbf-stamp.seed", None) /\ SameJob(z, s)
        /\ z.pc = "bless" \/ (z.pc = "nuke" /\ z.next = "source")
    BY <1>13, PutFacts, GotoFacts, NukeFacts DEF AdoptSeed, At, Before, Moved,
       Files, TreeFiles, SrcFiles
  <2> HIDE DEF t, s, u, z
  <2>2. u[".kbf-stamp"] = None
    BY <1>1, <2>1 DEF MountInv, UntarInv, Wrote, Files, TreeFiles
  <2>3. u[".kbf-stamp"] \notin Stamps
    BY <2>2, ConstantsAssumption
  <2> QED
    BY <1>1, <2>1, <2>3 DEF SameJob, JobInv, ReplaceInv, GateInv, FaultInv, Compiling
<1>14. CASE Acquire(m)
  <2>1. /\ s.pc = "acquire" /\ u = t /\ z.req = s.req
        /\ \/ z.pc = "download"
           \/ z.src # None /\ GotSource(z, s, t, z.src)
    BY <1>14, GotoFacts, AcquiredFacts, ConstantsAssumption DEF Acquire, KeepsMount,
       At, Before, Moved, SameJob, GotSource
  <2> HIDE DEF t, s, u, z
  <2> QED
    BY <1>1, <2>1 DEF GotSource, JobInv, ReplaceInv, GateInv, FaultInv, Compiling
<1>15. CASE Download(m) \/ Receive(m)
  <2>1. \E v : Put(m, ".kbf-src.tar.part", v)
    BY <1>15 DEF Download, Receive
  <2>2. \A g \in TreeFiles : u[g] = t[g]
    BY <2>1, PutFacts DEF Before, Wrote, Files, TreeFiles, SrcFiles
  <2>3. /\ s.pc \in {"download", "receive"} /\ z.pc \in {"receive", "verify"}
        /\ z.req = s.req
    BY <1>15, GotoFacts DEF Download, Receive, At, Before, Moved, SameJob
  <2> HIDE DEF t, s, u, z
  <2>4. u[".kbf-stamp"] = t[".kbf-stamp"] /\ (TreePresent(u) <=> TreePresent(t))
    BY <2>2 DEF TreePresent, TreeFiles, SrcFiles
  <2> QED
    BY <1>1, <2>3, <2>4 DEF JobInv, ReplaceInv, GateInv, FaultInv, Compiling
<1>16. CASE Verify(m)
  <2>1. \/ s.req.kind = "pinned" /\ Fail(m, "sha")
        \/ /\ Acquired(m, "cached")
           /\ mount' = [mount EXCEPT ![m][".kbf-src.tar"] = t[".kbf-src.tar.part"],
                                     ![m][".kbf-src.tar.part"] = None]
    BY <1>16 DEF Verify
  <2>2. s.pc = "verify"
    BY <1>16 DEF Verify, At
  <2>3. CASE s.req.kind = "pinned" /\ Fail(m, "sha")
    <3>1. z.pc = "failed" /\ z.why = "sha" /\ z.req = s.req
      BY <2>3, FailFacts DEF Before, SameJob
    <3> HIDE DEF t, s, u, z
    <3>2. OwnFault(u, z)
      BY <2>3, <3>1 DEF OwnFault
    <3> QED
      BY <1>1, <3>1, <3>2 DEF JobInv, ReplaceInv, GateInv, FaultInv, Compiling
  <2>4. CASE /\ Acquired(m, "cached")
             /\ mount' = [mount EXCEPT ![m][".kbf-src.tar"] = t[".kbf-src.tar.part"],
                                       ![m][".kbf-src.tar.part"] = None]
    <3>1. GotSource(z, s, t, "cached") /\ "cached" # None
      BY <2>4, AcquiredFacts, ConstantsAssumption DEF Before
    <3>2. u[".kbf-stamp"] = t[".kbf-stamp"]
      <4>1. t = [f \in Files |-> t[f]]
        BY DEF Before, IsMount
      <4> QED
        BY <2>4, <4>1 DEF Before, IsMount, Files, TreeFiles
    <3> HIDE DEF t, s, u, z
    <3> QED
      BY <1>1, <2>2, <3>1, <3>2 DEF GotSource, JobInv, ReplaceInv, GateInv, FaultInv,
         Compiling
  <2> QED
    BY <2>1, <2>3, <2>4
<1>17. CASE Extract(m)
  <2>1. s.pc = "extract"
    BY <1>17 DEF Extract, At
  <2> DEFINE c == IF s.src = "local" THEN s.req.sum ELSE t[".kbf-src.tar"]
  <2>2. c \in Sources(s.req)
    BY <1>1, <2>1 DEF MountInv, SourceInv, MountType, Sources
  <2>3. c # None
    BY <1>1, <2>1, <2>2, SourceType, ConstantsAssumption DEF MountType
  <2>4. Untars(m, "patch", TarImage(c), SrcFiles)
    BY <1>17, <2>3 DEF Extract, Untars
  <2>5. z.pc = "untar" /\ z.next = "patch" /\ z.req = s.req
    <3> HIDE DEF c
    <3> QED
      BY <2>4, UntarFacts DEF Before
  <2> HIDE DEF t, s, u, z
  <2> QED
    BY <1>1, <2>1, <2>5 DEF JobInv, ReplaceInv, GateInv, FaultInv, Compiling
<1> QED
  BY <1>2, <1>3, <1>4, <1>5, <1>6, <1>7, <1>8, <1>9, <1>10, <1>11, <1>12, <1>13,
     <1>14, <1>15, <1>16, <1>17 DEF Prepare

\* From the expectation gate on, .config is that of the request or is gone.
LEMMA GateConfig ==
    ASSUME NoMergeBase, NEW t, NEW s, MountType(t, s), MountInv(t, s),
           s.pc \in Compiling
    PROVE  /\ Readable(t) => t[".config"].layers = Asked(s.req)
           /\ ~Readable(t) => t[".config"] = None
           /\ t[".kbf-config-src"] = CfgId(s.req)
<1> DEFINE r == s.req
<1>1. r \in Requests /\ t[".kbf-stamp"] = StampWant(r) /\ t[".kbf-config-src"] = CfgId(r)
  BY DEF MountType, MountInv, ConfigInv, Compiling
<1>2. Clean(t, r) /\ Configured(t, r)
  BY <1>1 DEF MountInv, Whole
<1>3. PICK c \in Sources(r) : SourceOf(t) = Extracted(c, r.patch)
  BY <1>2 DEF Clean
<1>4. c \in Tarballs /\ r.patch \in Patches \union {None}
  BY <1>1, <1>3, SourceType
<1>5. Asked(r) \in SUBSET Layers
  BY <1>1, ConstantsAssumption DEF Asked, RequestType
<1>6. Resolved(Asked(r), SourceOf(t)) \notin {None, Torn}
  BY <1>3, <1>4, <1>5, ConstantsAssumption DEF Configs, Generations
<1>7. Resolved(Asked(r), SourceOf(t)).layers = Asked(r)
  BY DEF Resolved
<1> HIDE DEF r
<1> QED
  BY <1>1, <1>2, <1>6, <1>7 DEF Configured, Readable, r

\* Past the gates .config is not written any more.
LEMMA GateKept ==
    ASSUME NEW t, NEW s, NEW u, NEW z, JobInv(t, s), z.req = s.req,
           s.pc \in Compiling \ {"expect", "version", "done"},
           z.pc \in Compiling \ {"expect", "version"},
           u[".config"] = t[".config"],
           z.pc \in {"pack", "upload", "unpack"} => Seeded(s.req) /\ s.req.cfgPush
    PROVE  JobInv(u, z)
<1>1. Readable(u) <=> Readable(t)
  BY DEF Readable
<1>2. Meets(t, s.req.expect) => Meets(u, z.req.expect)
  BY <1>1 DEF Meets
<1> QED
  BY <1>1, <1>2 DEF JobInv, ReplaceInv, GateInv, FaultInv, Compiling

\* A step that fails owes only its cause.
LEMMA FailedJob ==
    ASSUME NEW u, NEW z, z.pc = "failed", NoMergeBase => OwnFault(u, z)
    PROVE  JobInv(u, z)
  BY DEF JobInv, ReplaceInv, GateInv, FaultInv, Compiling

\* The rest of run: a gate passed stays passed, a gate refused is the
\* request's own fault.
LEMMA CompileJob ==
    ASSUME NEW m \in Mounts, Before(m), JobInv(mount[m], step[m]), Compile(m)
    PROVE  JobInv(mount'[m], step'[m])
<1> DEFINE t == mount[m]
           s == step[m]
           u == mount'[m]
           z == step'[m]
<1> SUFFICES JobInv(u, z)
  OBVIOUS
<1>1. MountType(t, s) /\ MountInv(t, s) /\ JobInv(t, s)
  BY DEF Before
<1>2. CASE ValidateExpectations(m)
  <2>1. /\ s.pc = "expect" /\ u = t /\ z.req = s.req
        /\ \/ z.pc = "version" /\ (s.req.expect = None \/ Meets(t, s.req.expect))
           \/ /\ z.pc = "failed" /\ ~Meets(t, s.req.expect)
              /\ z.why = IF Readable(t) THEN "expect" ELSE "config"
    BY <1>2, GotoFacts, FailFacts DEF ValidateExpectations, KeepsMount, At, Before,
       Moved, SameJob
  <2> HIDE DEF t, s, u, z
  <2>2. CASE z.pc = "version"
    BY <1>1, <2>1, <2>2 DEF JobInv, ReplaceInv, GateInv, FaultInv, Compiling
  <2>3. CASE z.pc = "failed"
    <3>1. ASSUME NoMergeBase PROVE OwnFault(u, z)
      BY <1>1, <2>1, <2>3, <3>1, GateConfig DEF OwnFault, Meets, Compiling
    <3> QED
      BY <2>3, <3>1, FailedJob
  <2> QED
    BY <2>1, <2>2, <2>3
<1>3. CASE ResetVersion(m)
  <2> DEFINE ok == Readable(t) /\ t[".config"].layers \intersect Modular # {}
  <2>1. /\ s.pc = "version" /\ Wrote(u, t, ".version", None) /\ z.req = s.req
        /\ \/ /\ z.pc \in {"make", "copy"}
              /\ "modules" \in s.req.targets => ok
           \/ /\ z.pc = "failed" /\ ~ok
              /\ z.why = IF Readable(t) THEN "modules" ELSE "config"
    BY <1>3, PutFacts, GotoFacts, FailFacts DEF ResetVersion, At, Before, Moved,
       SameJob, Files, TreeFiles, SrcFiles
  <2>2. u[".config"] = t[".config"] /\ u[".kbf-config-src"] = t[".kbf-config-src"]
    BY <2>1 DEF Wrote, Files, TreeFiles
  <2> HIDE DEF t, s, u, z
  <2>3. CASE z.pc \in {"make", "copy"}
    BY <1>1, <2>1, <2>2, <2>3 DEF JobInv, ReplaceInv, GateInv, FaultInv, Compiling,
       Readable, Meets
  <2>4. CASE z.pc = "failed"
    <3>1. ASSUME NoMergeBase PROVE OwnFault(u, z)
      BY <1>1, <2>1, <2>2, <2>4, <3>1, GateConfig DEF OwnFault, Compiling
    <3> QED
      BY <2>4, <3>1, FailedJob
  <2> QED
    BY <2>1, <2>3, <2>4
<1>4. CASE Make(m)
  <2>1. /\ s.pc = "make" /\ z.req = s.req
        /\ u[".config"] = t[".config"] /\ u[".kbf-config-src"] = t[".kbf-config-src"]
        /\ \/ z.pc = "link"
           \/ z.pc = "failed" /\ z.why = "config" /\ ~Readable(t)
    BY <1>4, PutFacts, GotoFacts, FailFacts DEF Make, At, Before, Moved, SameJob,
       Wrote, Files, TreeFiles, SrcFiles
  <2> HIDE DEF t, s, u, z
  <2>2. CASE z.pc = "link"
    BY <1>1, <2>1, <2>2, GateKept DEF Compiling
  <2>3. CASE z.pc = "failed"
    <3>1. ASSUME NoMergeBase PROVE OwnFault(u, z)
      BY <1>1, <2>1, <2>3, <3>1, GateConfig DEF OwnFault, Compiling
    <3> QED
      BY <2>3, <3>1, FailedJob
  <2> QED
    BY <2>1, <2>2, <2>3
<1>5. CASE Link(m) \/ Linked(m)
  <2>1. /\ s.pc \in {"link", "linked"} /\ z.pc \in {"linked", "copy"}
        /\ z.req = s.req /\ u[".config"] = t[".config"]
    BY <1>5, PutFacts, GotoFacts DEF Link, Linked, At, Before, Moved, SameJob, Wrote,
       Files, TreeFiles, SrcFiles
  <2> HIDE DEF t, s, u, z
  <2> QED
    BY <1>1, <2>1, GateKept DEF Compiling
<1>6. CASE CopyArtifacts(m)
  <2> DEFINE y == [s EXCEPT !.out = Artifacts(t, s.req.targets),
                            !.pc = IF Seeded(s.req) /\ s.req.cfgPush
                                   THEN "pack" ELSE "done"]
             refused == "config" \in s.req.targets /\ ~Readable(t)
  <2>1. s.pc = "copy" /\ u = t
    BY <1>6 DEF CopyArtifacts, KeepsMount, At
  <2>2. CASE refused
    <3>1. z.pc = "failed" /\ z.why = "config" /\ z.req = s.req
      BY <1>6, <2>2, FailFacts DEF CopyArtifacts, Before, SameJob
    <3> HIDE DEF t, s, u, z
    <3>2. ASSUME NoMergeBase PROVE OwnFault(u, z)
      BY <1>1, <2>1, <2>2, <3>1, <3>2, GateConfig DEF OwnFault, Compiling
    <3> QED
      BY <3>1, <3>2, FailedJob
  <2>3. CASE ~refused
    <3>1. IsRecord(y) /\ step' = [step EXCEPT ![m] = y]
      BY <1>6, <2>3 DEF CopyArtifacts, Before, IsStep, IsRecord, Fields
    <3>2. /\ y.pc = IF Seeded(s.req) /\ s.req.cfgPush THEN "pack" ELSE "done"
          /\ y.req = s.req
      BY DEF Before, IsStep, Fields
    <3> HIDE DEF y
    <3>3. z = y
      BY <3>1, StepFacts DEF Before
    <3> HIDE DEF t, s, u, z
    <3> QED
      BY <1>1, <2>1, <3>2, <3>3, GateKept DEF Compiling
  <2> QED
    BY <2>2, <2>3
<1>7. CASE PackSeed(m) \/ UploadSeed(m) \/ UnpackSeed(m)
  <2>1. /\ s.pc \in {"pack", "upload", "unpack"} /\ z.pc \in {"upload", "unpack", "done"}
        /\ z.req = s.req /\ u[".config"] = t[".config"]
    BY <1>7, PutFacts, GotoFacts DEF PackSeed, UploadSeed, UnpackSeed, At, Before,
       Moved, SameJob, Wrote, Files, TreeFiles, SrcFiles
  <2> HIDE DEF t, s, u, z
  <2>2. Seeded(s.req) /\ s.req.cfgPush
    BY <1>1, <2>1 DEF JobInv, GateInv
  <2> QED
    BY <1>1, <2>1, <2>2, GateKept DEF Compiling
<1>8. CASE UploadFails(m)
  <2>1. s.pc = "upload" /\ z.pc = "failed" /\ z.why = "upload" /\ z.req = s.req
    BY <1>8, FailFacts DEF UploadFails, At, Before, SameJob
  <2> HIDE DEF t, s, u, z
  <2>2. Seeded(s.req) /\ s.req.cfgPush
    BY <1>1, <2>1 DEF JobInv, GateInv
  <2>3. OwnFault(u, z)
    BY <2>1, <2>2 DEF OwnFault
  <2> QED
    BY <2>1, <2>3, FailedJob
<1>9. CASE Finish(m)
  <2>1. z = Idle
    BY <1>9 DEF Finish, Before, IsStep
  <2> HIDE DEF t, s, u, z
  <2> QED
    BY <2>1 DEF Idle, JobInv, ReplaceInv, GateInv, FaultInv, Compiling
<1> QED
  BY <1>2, <1>3, <1>4, <1>5, <1>6, <1>7, <1>8, <1>9 DEF Compile

\* Starting, aborting and collecting a mount.
LEMMA EnvironmentJob ==
    ASSUME NEW m \in Mounts, Before(m), JobInv(mount[m], step[m]),
           Kill(m) \/ Evict(m) \/ \E r \in Requests : Start(m, r)
    PROVE  JobInv(mount'[m], step'[m])
<1> DEFINE s == step[m]
           u == mount'[m]
           z == step'[m]
<1> SUFFICES JobInv(u, z)
  OBVIOUS
<1>1. CASE Kill(m) \/ Evict(m)
  <2>1. z = Idle
    BY <1>1 DEF Kill, Evict, At, JobInv, Before, IsStep
  <2> HIDE DEF z, u
  <2> QED
    BY <2>1 DEF Idle, JobInv, ReplaceInv, GateInv, FaultInv, Compiling
<1>2. ASSUME NEW r \in Requests, Start(m, r)
      PROVE  JobInv(u, z)
  <2>1. z = IF CheckSeedPush(r)
            THEN [Idle EXCEPT !.pc = "sweep", !.req = r]
            ELSE [Idle EXCEPT !.pc = "failed", !.req = r, !.why = "push"]
    BY <1>2 DEF Start, Before, IsStep
  <2> HIDE DEF z, u
  <2>2. CASE CheckSeedPush(r)
    <3>1. z.pc = "sweep" /\ z.req = r
      BY <2>1, <2>2 DEF Idle
    <3> QED
      BY <2>2, <3>1 DEF JobInv, ReplaceInv, GateInv, FaultInv, Compiling
  <2>3. CASE ~CheckSeedPush(r)
    <3>1. z.pc = "failed" /\ z.req = r /\ z.why = "push"
      BY <2>1, <2>3 DEF Idle
    <3>2. OwnFault(u, z)
      BY <2>3, <3>1 DEF CheckSeedPush, OwnFault
    <3> QED
      BY <3>1, <3>2, FailedJob
  <2> QED
    BY <2>2, <2>3
<1> QED
  BY <1>1, <1>2

LEMMA StepInit == Init => StepInv
<1> SUFFICES ASSUME Init, NEW m \in Mounts PROVE JobInv(mount[m], step[m])
  BY DEF StepInv
<1>1. step[m] = Idle
  BY DEF Init
<1> QED
  BY <1>1 DEF Idle, JobInv, ReplaceInv, GateInv, FaultInv, Compiling

\* What the tree invariant says of the step on m, before and after.
LEMMA TreeBefore ==
    ASSUME TreeInv, NEW m \in Mounts
    PROVE  Before(m) /\ SeedInv /\ served \in [Urls -> Tarballs]
  BY DEF TreeInv, TypeOK, Before, IsMount, IsStep

LEMMA TreeAfter ==
    ASSUME TreeInv, NEW m \in Mounts,
           Run(m) \/ Kill(m) \/ Evict(m) \/ \E r \in Requests : Start(m, r)
    PROVE  After(m)
<1>1. Before(m) /\ SeedInv /\ served \in [Urls -> Tarballs]
  BY TreeBefore
<1> QED
  BY <1>1, StartKeeps, ReleaseKeeps, EvictKeeps, PrepareKeeps, ConfigureKeeps,
     CompileKeeps DEF Run

\* Every step of the system keeps StepInv.
LEMMA StepNext == TreeInv /\ StepInv /\ [Next]_vars => StepInv'
<1> SUFFICES ASSUME TreeInv, StepInv, [Next]_vars PROVE StepInv'
  OBVIOUS
<1>1. CASE UNCHANGED vars \/ \E u \in Urls : ReRoll(u)
  BY <1>1 DEF vars, ReRoll, StepInv
<1>2. ASSUME NEW m \in Mounts,
             Run(m) \/ Kill(m) \/ Evict(m) \/ \E r \in Requests : Start(m, r)
      PROVE  StepInv'
  <2>1. Before(m) /\ JobInv(mount[m], step[m])
    BY TreeBefore DEF StepInv
  <2>2. JobInv(mount'[m], step'[m])
    BY <1>2, <2>1, EnvironmentJob, PrepareJob, ConfigureJob, CompileJob DEF Run
  <2>3. OthersKept(m)
    BY <1>2, TreeAfter DEF After
  <2>4. ASSUME NEW n \in Mounts PROVE JobInv(mount'[n], step'[n])
    <3>1. CASE n = m
      BY <2>2, <3>1
    <3>2. CASE n # m
      BY <2>3, <3>2 DEF OthersKept, StepInv
    <3> QED
      BY <3>1, <3>2
  <2> QED
    BY <2>4 DEF StepInv
<1> QED
  BY <1>1, <1>2 DEF Next

\* At every point of a step: the checks before it have been passed, what it
\* may remove it can replace, and a failure has a cause of its own.
THEOREM StepInvariant == Spec => []StepInv
  BY StepInit, StepNext, TreeInvariant, PTL DEF Spec

\* As long as no BASE_MAKE target merges into an existing .config, a step that
\* was not disturbed fails only for a cause of its own request or of the store.
THEOREM FailsAreOwn == ASSUME NoMergeBase PROVE Spec => []FailsForCause
<1>1. StepInv => FailsForCause
  BY DEF StepInv, JobInv, FaultInv, FailsForCause, At
<1> QED
  BY <1>1, StepInvariant, PTL

-----------------------------------------------------------------------------
(***************************************************************************)
(* What a single step may never do.                                        *)
(***************************************************************************)
\* The store changes only past the expectation gate, under a live stamp.
THEOREM PublishIsGated == Spec => PublishGated
<1>1. TreeInv /\ StepInv /\ [Next]_vars =>
        [seed' # seed => \E m \in Mounts : Publishes(m)]_vars
  <2> SUFFICES ASSUME TreeInv, StepInv, Next, seed' # seed
               PROVE  \E m \in Mounts : Publishes(m)
    OBVIOUS
  <2>1. PICK m \in Mounts : UploadSeed(m)
    BY StoreKept DEF Next, ReRoll
  <2>2. Before(m) /\ JobInv(mount[m], step[m]) /\ step[m].pc = "upload"
    BY <2>1, TreeBefore DEF StepInv, UploadSeed, At
  <2>3. Publishes(m)
    BY <2>2 DEF Before, MountInv, ConfigInv, Compiling, JobInv, GateInv, Publishes, At
  <2> QED
    BY <2>3
<1> QED
  BY <1>1, TreeInvariant, StepInvariant, PTL DEF Spec, PublishGated

\* The files whose loss costs a rebuild.
Valuables == {".config", ".kbf-stamp", "Makefile", "arch", "kernel.o", "vmlinux"}

\* Writing another file, or a file's content, loses none of them.
LEMMA PutLosesNot ==
    ASSUME NEW m \in Mounts, Before(m), NEW f \in Files, NEW v, Put(m, f, v),
           f \notin Valuables \/ v # None
    PROVE  ~Loses(m)
  BY PutFacts DEF Before, Wrote, Loses, Valuables, Files, TreeFiles, SrcFiles

\* Under a live stamp prepareTree loses files to a nuke only.
LEMMA PrepareLosesNot ==
    ASSUME NEW m \in Mounts, Before(m), Prepare(m), ~NukeEntry(m),
           mount[m][".kbf-stamp"] \in Stamps
    PROVE  ~Loses(m)
<1> DEFINE t == mount[m]
           s == step[m]
<1>1. s.pc \notin {"untar", "patch", "bless", "stamped"}
  BY ConstantsAssumption DEF Before, MountInv, UntarInv, TarImage, TreeFiles, SrcFiles
<1>2. CASE Sweep(m) \/ AdoptSeed(m) \/ Download(m) \/ Receive(m)
  <2>1. \E f \in {".kbf-seed.tmp", ".kbf-stamp.seed", ".kbf-src.tar.part"} :
           \E v : Put(m, f, v)
    BY <1>2 DEF Sweep, AdoptSeed, Download, Receive
  <2> QED
    BY <2>1, PutLosesNot DEF Valuables, Files, TreeFiles
<1>3. CASE Verify(m)
  <2>1. CASE Put(m, ".kbf-src.tar.part", None)
    BY <2>1, PutLosesNot DEF Valuables, Files, TreeFiles
  <2>2. CASE mount' = [mount EXCEPT ![m][".kbf-src.tar"] = t[".kbf-src.tar.part"],
                                    ![m][".kbf-src.tar.part"] = None]
    <3>1. \A f \in Valuables : mount'[m][f] = t[f]
      BY <2>2 DEF Before, IsMount, Valuables, Files, TreeFiles, SrcFiles
    <3> QED
      BY <3>1 DEF Loses, Valuables
  <2> QED
    BY <1>3, <2>1, <2>2 DEF Verify
<1>4. CASE UNCHANGED mount
  BY <1>4 DEF Loses
<1> QED
  BY <1>1, <1>2, <1>3, <1>4 DEF Prepare, CompareStamp, Clear, NukeDone, Hydrate,
     PullSeed, PullFails, UntarEntry, UntarDone, UntarSeedFails, NeedSource, Acquire,
     Extract, ApplyPatches, Bless, Stamped, KeepsMount, At

\* configure replaces .config, it does not remove it.
LEMMA ConfigureLosesNot ==
    ASSUME NEW m \in Mounts, Before(m), After(m), Configure(m)
    PROVE  ~Loses(m)
<1> DEFINE u == mount'[m]
           z == step'[m]
<1>1. CASE CompareConfig(m)
  BY <1>1 DEF CompareConfig, KeepsMount, Loses
<1>2. CASE Unmark(m) \/ Mark(m) \/ Marked(m)
  <2>1. \E v : Put(m, ".kbf-config-src", v)
    BY <1>2 DEF Unmark, Mark, Marked
  <2> QED
    BY <2>1, PutLosesNot DEF Valuables, Files, TreeFiles
<1>3. CASE TruncateConfig(m)
  <2>1. Put(m, ".config", Torn) /\ Torn # None
    BY <1>3, ConstantsAssumption DEF TruncateConfig
  <2> QED
    BY <2>1, PutLosesNot DEF Files, TreeFiles
<1>4. CASE BaseMake(m) \/ AppendFragment(m) \/ WriteConfig(m) \/ Olddefconfig(m)
  <2>1. PICK v : Put(m, ".config", v)
    BY <1>4 DEF BaseMake, AppendFragment, WriteConfig, Olddefconfig
  <2>2. z.pc \in {"append", "olddefconfig", "mark"}
    BY <1>4, GotoFacts DEF BaseMake, AppendFragment, WriteConfig, Olddefconfig, Before,
       Moved
  <2>3. u[".config"] \in Configs
    BY <2>2 DEF After, MountInv, ConfigInv
  <2>4. u[".config"] = v
    BY <2>1, PutFacts DEF Before, Wrote, Files, TreeFiles
  <2>5. v # None
    BY <2>3, <2>4, ConstantsAssumption
  <2> QED
    BY <2>1, <2>5, PutLosesNot DEF Files, TreeFiles
<1> QED
  BY <1>1, <1>2, <1>3, <1>4 DEF Configure

\* make and the push lose nothing either.
LEMMA CompileLosesNot ==
    ASSUME NEW m \in Mounts, Before(m), After(m), Compile(m)
    PROVE  ~Loses(m)
<1> DEFINE t == mount[m]
           s == step[m]
           u == mount'[m]
           z == step'[m]
<1>1. CASE UNCHANGED mount
  BY <1>1 DEF Loses
<1>2. CASE \E f \in {".version", ".kbf-seed.tmp"} : \E v : Put(m, f, v)
  BY <1>2, PutLosesNot DEF Valuables, Files, TreeFiles
<1>3. s.pc \in Compiling =>
        /\ t[".config"] \in Configs \union {None, Torn}
        /\ SourceOf(t) \in Generations
  <2> SUFFICES ASSUME s.pc \in Compiling
               PROVE  /\ t[".config"] \in Configs \union {None, Torn}
                      /\ SourceOf(t) \in Generations
    OBVIOUS
  <2>1. s.req \in Requests /\ t[".kbf-stamp"] = StampWant(s.req)
    BY DEF Before, MountType, MountInv, ConfigInv, Compiling
  <2> QED
    BY <2>1, CleanSource DEF Before, MountInv, Whole
<1>4. CASE Make(m) /\ ~UNCHANGED mount
  <2>1. s.pc = "make" /\ Put(m, "kernel.o", Objects(t) \union {SourceOf(t)})
    BY <1>4 DEF Make, At
  <2>2. s.req \in Requests /\ t[".kbf-stamp"] = StampWant(s.req)
    BY <2>1 DEF Before, MountType, MountInv, ConfigInv, Compiling
  <2>3. Objects(t) \union {SourceOf(t)} = {SourceOf(t)}
    BY <2>2 DEF Before, MountInv, Whole
  <2>4. {SourceOf(t)} # None
    <3>1. Configs # {}
      <4>1. Raw({}) \in Configs
        BY RawConfig
      <4> QED
        BY <4>1
    <3> QED
      BY <1>3, <2>1, <3>1, ConstantsAssumption DEF Compiling
  <2> QED
    BY <2>1, <2>3, <2>4, PutLosesNot DEF Files, TreeFiles
<1>5. CASE Linked(m)
  <2>1. s.pc = "linked" /\ t[".version"] = 1 /\ Readable(t) /\ t["kernel.o"] = {SourceOf(t)}
    BY <1>5 DEF Linked, At, Before, MountInv, CompileInv
  <2>2. Put(m, "vmlinux", Image(SourceOf(t), t[".config"]))
    BY <1>5, <2>1 DEF Linked, Image
  <2>3. t[".config"] \in Configs /\ SourceOf(t) \in Generations
    BY <1>3, <2>1 DEF Readable, Compiling
  <2>4. Image(SourceOf(t), t[".config"]) # None
    BY <2>3, ConstantsAssumption
  <2> QED
    BY <2>2, <2>4, PutLosesNot DEF Files, TreeFiles
<1> QED
  BY <1>1, <1>2, <1>4, <1>5 DEF Compile, ValidateExpectations, ResetVersion, Link,
     CopyArtifacts, PackSeed, UploadSeed, UploadFails, UnpackSeed, Finish, KeepsMount

\* A live tree is destroyed only by garbage collection, or by a step that wants
\* other inputs and has its replacement verified: not by a mistyped SHA256, a
\* dead server, or a kill on the way to one.
THEOREM TreeIsKept == Spec => TreeKept
<1>1. TreeInv /\ StepInv /\ [Next]_vars => [\A m \in Mounts : DiscardsVerified(m)]_vars
  <2> SUFFICES ASSUME TreeInv, StepInv, Next, NEW m \in Mounts,
                      mount[m][".kbf-stamp"] \in Stamps, Loses(m)
               PROVE  \/ At(m, "idle")
                      \/ /\ step[m].src # None
                         /\ mount[m][".kbf-stamp"] # StampWant(step[m].req)
    BY DEF DiscardsVerified
  <2>1. mount'[m] # mount[m]
    BY DEF Loses
  <2>2. Run(m) \/ Kill(m) \/ Evict(m) \/ \E r \in Requests : Start(m, r)
    <3>1. ~\E u \in Urls : ReRoll(u)
      BY <2>1 DEF ReRoll
    <3>2. PICK n \in Mounts :
            Run(n) \/ Kill(n) \/ Evict(n) \/ \E r \in Requests : Start(n, r)
      BY <3>1 DEF Next
    <3>3. n = m
      BY <2>1, <3>2, TreeAfter DEF After, OthersKept
    <3> QED
      BY <3>2, <3>3
  <2>3. Before(m) /\ After(m) /\ JobInv(mount[m], step[m])
    BY <2>2, TreeBefore, TreeAfter DEF StepInv
  <2>4. CASE Evict(m)
    BY <2>4 DEF Evict
  <2>5. CASE NukeEntry(m)
    BY <2>3, <2>5 DEF NukeEntry, At, JobInv, ReplaceInv
  <2>6. CASE Kill(m) \/ \E r \in Requests : Start(m, r)
    BY <2>1, <2>6 DEF Kill, Start, KeepsMount
  <2> QED
    BY <2>2, <2>3, <2>4, <2>5, <2>6, PrepareLosesNot, ConfigureLosesNot,
       CompileLosesNot DEF Run
<1> QED
  BY <1>1, TreeInvariant, StepInvariant, PTL DEF Spec, TreeKept

-----------------------------------------------------------------------------
(***************************************************************************)
(* The compile step implements CompileService.                             *)
(***************************************************************************)
\* The locations that the service sees as one running build.
Running == Locations \ {"idle", "unpack", "done", "failed"}

RunningBuild(r) == [state |-> "running", req |-> r, out |-> None]

LEMMA SeenRunning ==
    ASSUME NEW s, s.pc \in Running
    PROVE  BuildOf(s) = RunningBuild(s.req)
  BY DEF Running, BuildOf, Stage, RunningBuild

\* The service sees a step of one worker on that worker's build only.
LEMMA SeenStep ==
    ASSUME NEW m \in Mounts, OthersKept(m)
    PROVE  /\ Builds' = [Builds EXCEPT ![m] = BuildOf(step'[m])]
           /\ Builds[m] = BuildOf(step[m])
<1>1. Builds = [n \in Mounts |-> BuildOf(step[n])]
  BY DEF Builds
<1>2. Builds' = [n \in Mounts |-> BuildOf(step'[n])]
  BY DEF Builds, BuildOf
<1>3. \A n \in Mounts \ {m} : step'[n] = step[n]
  BY DEF OthersKept
<1> QED
  BY <1>1, <1>2, <1>3

\* Preparing and configuring go on, or fail, for the request they are about.
LEMMA PrepareSeen ==
    ASSUME NEW m \in Mounts, Before(m), Prepare(m) \/ Configure(m)
    PROVE  /\ step[m].pc \in Running
           /\ step'[m].pc \in Running \union {"failed"}
           /\ step'[m].req = step[m].req
<1> DEFINE s == step[m]
           z == step'[m]
           Goal == z.pc \in Running \union {"failed"} /\ z.req = s.req
<1>1. s.pc \in Running
  BY ZenonT(30) DEF Prepare, Configure, Sweep, CompareStamp, Clear, NukeEntry, NukeDone, Hydrate,
     PullSeed, PullFails, UntarEntry, UntarDone, UntarSeedFails, AdoptSeed, NeedSource,
     Acquire, Download, Receive, Verify, Extract, ApplyPatches, Bless, Stamped,
     CompareConfig, Unmark, BaseMake, AppendFragment, TruncateConfig, WriteConfig,
     Olddefconfig, Mark, Marked, At, Running, Locations
<1> SUFFICES Goal
  BY <1>1
<1>2. CASE \E pc \in Running : Goto(m, pc)
  BY <1>2, GotoFacts DEF Before, Moved, SameJob
<1>3. CASE \E next : Nuke(m, next)
  BY <1>3, NukeFacts DEF Before, SameJob, Running, Locations
<1>4. CASE \E cause : Fail(m, cause)
  BY <1>4, FailFacts DEF Before, SameJob
<1>5. CASE \E src : Acquired(m, src)
  BY <1>5, AcquiredFacts DEF Before, GotSource, Running, Locations
<1>6. CASE NukeEntry(m)
  BY <1>1, <1>6 DEF NukeEntry
<1>7. CASE NukeDone(m)
  <2>1. s.next \in Running \union {"failed"}
    BY <1>7 DEF NukeDone, At, Before, MountInv, SourceInv, Running, Locations
  <2>2. Moved(z, s, s.next)
    BY <1>7, GotoFacts DEF NukeDone, Before
  <2> QED
    BY <2>1, <2>2 DEF Moved, SameJob
<1>8. CASE PullSeed(m) \/ Extract(m)
  <2>1. CASE \E next, img, todo : Untars(m, next, img, todo)
    <3>1. z.pc = "untar" /\ z.req = s.req
      BY <2>1, UntarFacts DEF Before
    <3> QED
      BY <3>1 DEF Running, Locations
  <2>2. CASE Goto(m, "source")
    BY <1>2, <2>2 DEF Running, Locations
  <2>3. CASE \E cause : Fail(m, cause)
    BY <1>4, <2>3
  <2>4. \/ \E next, img, todo : Untars(m, next, img, todo)
        \/ Goto(m, "source")
        \/ \E cause : Fail(m, cause)
    <3>1. CASE PullSeed(m)
      BY <3>1, Zenon DEF PullSeed, Untars
    <3>2. CASE Extract(m)
      <4> DEFINE c == IF s.src = "local" THEN s.req.sum ELSE mount[m][".kbf-src.tar"]
      <4>1. Fail(m, "source") \/ Untars(m, "patch", TarImage(c), SrcFiles)
        BY <3>2 DEF Extract, Untars
      <4> QED
        BY <4>1
    <3> QED
      BY <1>8, <3>1, <3>2
  <2> QED
    BY <2>1, <2>2, <2>3, <2>4
<1>9. CASE UntarEntry(m) \/ UntarDone(m)
  <2>1. s.pc = "untar" /\ z.pc \in {s.pc, s.next} /\ z.req = s.req
    BY <1>9 DEF UntarEntry, UntarDone, At, Before, IsStep, Fields
  <2>2. s.next \in {"patch", "adopt"}
    BY <2>1 DEF Before, MountInv, UntarInv
  <2> QED
    BY <2>1, <2>2 DEF Running, Locations
<1>10. CASE UntarSeedFails(m)
  <2> DEFINE y == [s EXCEPT !.pc = "nuke", !.next = "failed", !.img = None,
                            !.todo = {}, !.why = "seed"]
  <2>1. IsRecord(y) /\ step' = [step EXCEPT ![m] = y]
    BY <1>10 DEF UntarSeedFails, Before, IsStep, IsRecord, Fields
  <2>2. y.pc = "nuke" /\ y.req = s.req
    BY DEF Before, IsStep, Fields
  <2> HIDE DEF y
  <2> QED
    BY <2>1, <2>2, StepFacts DEF Before, Running, Locations
<1>11. CASE Prepare(m)
  <2>1. \/ \E pc \in Running : Goto(m, pc)
        \/ \E next : Nuke(m, next)
        \/ \E cause : Fail(m, cause)
        \/ \E src : Acquired(m, src)
        \/ NukeEntry(m) \/ NukeDone(m) \/ PullSeed(m) \/ Extract(m)
        \/ UntarEntry(m) \/ UntarDone(m) \/ UntarSeedFails(m)
    BY <1>11 DEF Prepare, Sweep, CompareStamp, Clear, Hydrate, PullFails, AdoptSeed,
       NeedSource, Acquire, Download, Receive, Verify, ApplyPatches, Bless, Stamped,
       Running, Locations
  <2> QED
    BY <1>1, <1>2, <1>3, <1>4, <1>5, <1>6, <1>7, <1>8, <1>9, <1>10, <2>1
<1>12. CASE Configure(m)
  <2>1. \E pc \in Running : Goto(m, pc)
    BY <1>12 DEF Configure, CompareConfig, Unmark, BaseMake, AppendFragment,
       TruncateConfig, WriteConfig, Olddefconfig, Mark, Marked, Running, Locations
  <2> QED
    BY <1>1, <1>2, <2>1
<1> QED
  BY <1>11, <1>12

\* A build that delivers, or publishes, is one a cold build could deliver.
LEMMA Answerable ==
    ASSUME NoMergeBase, NEW t, NEW s, MountType(t, s), MountInv(t, s), JobInv(t, s),
           s.pc \in {"pack", "upload", "unpack", "done"}
    PROVE  /\ s.req \in Requests
           /\ s.out \in Answers[s.req]
<1> DEFINE r == s.req
<1>1. r \in Requests
  BY DEF MountType
<1>2. /\ CheckSeedPush(r)
      /\ r.expect = None \/ Meets(t, r.expect)
      /\ "modules" \in r.targets => Readable(t) /\ t[".config"].layers \intersect Modular # {}
  BY DEF JobInv, GateInv, Compiling
<1>3. Readable(t) => t[".config"].layers = Asked(r)
  BY GateConfig DEF Compiling
<1>4. Feasible(r)
  BY <1>2, <1>3 DEF Feasible, Meets
<1>5. \E c \in Sources(r) : s.out = Golden(r, c)
  BY DEF MountInv, CompileInv
<1> QED
  BY <1>1, <1>4, <1>5 DEF Answers

\* The steps of run after configure are running, publish, answer or fail.
LEMMA CompileSeen ==
    ASSUME NEW m \in Mounts, Before(m), JobInv(mount[m], step[m]), Compile(m)
    PROVE  LET s == step[m]
               z == step'[m]
           IN  \/ /\ s.pc \in Running /\ z.pc \in Running \union {"failed"}
                  /\ z.req = s.req /\ seed' = seed
               \/ UploadSeed(m) /\ z.pc = "unpack" /\ z.req = s.req
               \/ /\ s.pc = "copy" /\ z.pc = "done" /\ z.req = s.req /\ seed' = seed
                  /\ ~(Seeded(s.req) /\ s.req.cfgPush)
               \/ s.pc = "unpack" /\ z.pc = "done" /\ z.req = s.req /\ seed' = seed
               \/ Finish(m)
<1> DEFINE s == step[m]
           z == step'[m]
           Goes == s.pc \in Running /\ z.pc \in Running \union {"failed"} /\ z.req = s.req
<1>1. ~UploadSeed(m) => seed' = seed
  BY StoreKept DEF Run
<1>2. CASE s.pc \in Running /\ \E pc \in Running : Goto(m, pc)
  <2>1. Goes
    BY <1>2, GotoFacts DEF Before, Moved, SameJob
  <2>2. z.pc # "unpack"
    BY <1>2, GotoFacts DEF Before, Moved, Running
  <2>3. ~UploadSeed(m)
    BY <2>2, GotoFacts DEF UploadSeed, Before, Moved
  <2> QED
    BY <1>1, <2>1, <2>3
<1>3. CASE s.pc \in Running /\ \E cause : Fail(m, cause)
  <2>1. Goes /\ z.pc = "failed"
    BY <1>3, FailFacts DEF Before, SameJob
  <2>2. ~UploadSeed(m)
    BY <2>1, GotoFacts DEF UploadSeed, Before, Moved
  <2> QED
    BY <1>1, <2>1, <2>2
<1>4. CASE ValidateExpectations(m) \/ ResetVersion(m) \/ Make(m) \/ Link(m) \/ Linked(m)
           \/ PackSeed(m) \/ UploadFails(m)
  <2>1. s.pc \in Running /\ ((\E pc \in Running : Goto(m, pc)) \/ \E cause : Fail(m, cause))
    BY <1>4 DEF ValidateExpectations, ResetVersion, Make, Link, Linked, PackSeed,
       UploadFails, At, Running, Locations
  <2> QED
    BY <1>2, <1>3, <2>1
<1>5. CASE UploadSeed(m)
  BY <1>5, GotoFacts DEF UploadSeed, Before, Moved, SameJob
<1>6. CASE UnpackSeed(m)
  <2>1. s.pc = "unpack" /\ z.pc = "done" /\ z.req = s.req /\ seed' = seed
    BY <1>6, GotoFacts DEF UnpackSeed, At, Before, Moved, SameJob, KeepsStore
  <2> QED
    BY <2>1
<1>7. CASE CopyArtifacts(m)
  <2>1. s.pc = "copy" /\ seed' = seed
    BY <1>7 DEF CopyArtifacts, At, KeepsMount
  <2>2. s.pc \in Running
    BY <2>1 DEF Running, Locations
  <2>3. CASE Fail(m, "config")
    BY <1>3, <2>2, <2>3
  <2>4. CASE ~Fail(m, "config")
    <3> DEFINE y == [s EXCEPT !.out = Artifacts(mount[m], s.req.targets),
                              !.pc = IF Seeded(s.req) /\ s.req.cfgPush
                                     THEN "pack" ELSE "done"]
    <3>1. IsRecord(y) /\ step' = [step EXCEPT ![m] = y]
      BY <1>7, <2>4 DEF CopyArtifacts, Before, IsStep, IsRecord, Fields
    <3>2. /\ y.pc = IF Seeded(s.req) /\ s.req.cfgPush THEN "pack" ELSE "done"
          /\ y.req = s.req
      BY DEF Before, IsStep, Fields
    <3> HIDE DEF y
    <3>3. z = y
      BY <3>1, StepFacts DEF Before
    <3> QED
      BY <2>1, <2>2, <3>2, <3>3 DEF Running, Locations
  <2> QED
    BY <2>3, <2>4
<1> QED
  BY <1>4, <1>5, <1>6, <1>7 DEF Compile

LEMMA ServiceInit == Init => Service!Init
<1> SUFFICES ASSUME Init PROVE Service!Init
  OBVIOUS
<1>1. BuildOf(Idle) = Service!Free
  BY DEF BuildOf, Stage, Idle, Service!Free
<1>2. \A m \in Mounts : step[m] = Idle
  BY DEF Init
<1> QED
  BY <1>1, <1>2 DEF Builds, Service!Init

\* Every step of the system is a step of the service, or none.
LEMMA ServiceNext ==
    ASSUME NoMergeBase, TreeInv, StepInv, TreeInv', StepInv', [Next]_vars
    PROVE  [Service!Next]_(Service!vars)
<1>1. CASE UNCHANGED vars \/ \E u \in Urls : ReRoll(u)
  BY <1>1 DEF vars, ReRoll, Service!vars, Builds, BuildOf, Published
<1>2. ASSUME NEW m \in Mounts,
             Run(m) \/ Kill(m) \/ Evict(m) \/ \E r \in Requests : Start(m, r)
      PROVE  Service!Next \/ UNCHANGED Service!vars
  <2> DEFINE s == step[m]
             z == step'[m]
             t == mount[m]
             u == mount'[m]
  <2>1. /\ Before(m) /\ After(m) /\ JobInv(t, s) /\ JobInv(u, z)
    BY <1>2, TreeBefore, TreeAfter DEF StepInv
  <2>2. /\ Builds' = [Builds EXCEPT ![m] = BuildOf(z)] /\ Builds[m] = BuildOf(s)
    BY <2>1, SeenStep DEF After
  <2>3. Builds = [n \in Mounts |-> Builds[n]]
    BY DEF Builds
  <2>4. seed' = seed => Published' = Published
    BY DEF Published
  <2>5. (s.pc # "idle" => s.req \in Requests) /\ (z.pc # "idle" => z.req \in Requests)
    BY <2>1 DEF Before, After, MountType
  <2>6. CASE \E r \in Requests : Start(m, r)
    <3>1. PICK r \in Requests : Start(m, r)
      BY <2>6
    <3>2. s = Idle /\ seed' = seed
      BY <2>1, <3>1 DEF Start, At, JobInv, KeepsMount
    <3>3. Builds[m] = Service!Free
      BY <2>2, <3>2 DEF BuildOf, Stage, Idle, Service!Free
    <3>4. z = IF CheckSeedPush(r)
              THEN [Idle EXCEPT !.pc = "sweep", !.req = r]
              ELSE [Idle EXCEPT !.pc = "failed", !.req = r, !.why = "push"]
      BY <2>1, <3>1 DEF Start, Before, IsStep
    <3>5. CASE CheckSeedPush(r)
      <4>0. z.pc = "sweep" /\ z.req = r
        BY <3>4, <3>5 DEF Idle
      <4>1. BuildOf(z) = [Service!Free EXCEPT !.state = "running", !.req = r]
        <5>1. BuildOf(z) = [state |-> "running", req |-> r, out |-> None]
          BY <4>0 DEF BuildOf, Stage
        <5>2. [Service!Free EXCEPT !.state = "running"]
                = [state |-> "running", req |-> None, out |-> None]
          BY DEF Service!Free
        <5>3. [[state |-> "running", req |-> None, out |-> None] EXCEPT !.req = r]
                = [state |-> "running", req |-> r, out |-> None]
          OBVIOUS
        <5> QED
          BY <5>1, <5>2, <5>3
      <4>2. Service!Accept(m, r)
        BY <2>2, <2>4, <3>2, <3>3, <4>1 DEF Service!Accept
      <4> QED
        BY <4>2 DEF Service!Next
    <3>6. CASE ~CheckSeedPush(r)
      <4>0. z.pc = "failed" /\ z.req = r
        BY <3>4, <3>6 DEF Idle
      <4>1. BuildOf(z) = [Service!Free EXCEPT !.state = "failed", !.req = r]
        <5>1. BuildOf(z) = [state |-> "failed", req |-> r, out |-> None]
          BY <4>0 DEF BuildOf, Stage
        <5>2. [Service!Free EXCEPT !.state = "failed"]
                = [state |-> "failed", req |-> None, out |-> None]
          BY DEF Service!Free
        <5>3. [[state |-> "failed", req |-> None, out |-> None] EXCEPT !.req = r]
                = [state |-> "failed", req |-> r, out |-> None]
          OBVIOUS
        <5> QED
          BY <5>1, <5>2, <5>3
      <4>2. Answers[r] = {}
        BY <3>6 DEF Answers, Feasible
      <4>3. Service!Accept(m, r)
        BY <2>2, <2>4, <3>2, <3>3, <4>1, <4>2 DEF Service!Accept
      <4> QED
        BY <4>3 DEF Service!Next
    <3> QED
      BY <3>5, <3>6
  <2>7. CASE Kill(m) \/ Finish(m)
    <3>1. z = Idle /\ seed' = seed /\ s.pc # "idle"
      BY <2>1, <2>7 DEF Kill, Finish, Before, IsStep, KeepsMount
    <3>2. BuildOf(z) = Service!Free
      BY <3>1 DEF BuildOf, Stage, Idle, Service!Free
    <3>3. BuildOf(s).state # "idle"
      BY <3>1 DEF BuildOf, Stage
    <3>4. Builds[m] # Service!Free
      BY <2>2, <3>3 DEF Service!Free
    <3>5. Service!Release(m)
      BY <2>2, <2>4, <3>1, <3>2, <3>4 DEF Service!Release
    <3> QED
      BY <3>5 DEF Service!Next
  <2>8. CASE Evict(m)
    BY <2>8 DEF Evict, Service!vars, Builds, BuildOf, Published
  <2>9. CASE /\ s.pc \in Running /\ z.pc \in Running \union {"failed"}
             /\ z.req = s.req /\ seed' = seed
    <3>1. BuildOf(s) = RunningBuild(s.req)
      BY <2>9, SeenRunning
    <3>2. CASE z.pc \in Running
      <4>1. BuildOf(z) = BuildOf(s)
        BY <2>9, <3>1, <3>2, SeenRunning
      <4>2. Builds' = Builds
        BY <2>2, <2>3, <4>1
      <4> QED
        BY <2>4, <2>9, <4>2 DEF Service!vars
    <3>3. CASE z.pc = "failed"
      <4>1. BuildOf(z) = [RunningBuild(s.req) EXCEPT !.state = "failed"]
        BY <2>9, <3>3 DEF BuildOf, Stage, RunningBuild
      <4>2. Builds[m] = RunningBuild(s.req) /\ Builds[m].state = "running"
        BY <2>2, <3>1 DEF RunningBuild
      <4>3. Builds' = [Builds EXCEPT ![m].state = "failed"]
        BY <2>2, <2>3, <4>1, <4>2
      <4>4. Service!Fail(m)
        BY <2>4, <2>9, <4>2, <4>3 DEF Service!Fail, Service!Becomes
      <4> QED
        BY <4>4 DEF Service!Next
    <3> QED
      BY <2>9, <3>2, <3>3
  <2>10. CASE UploadSeed(m) /\ z.pc = "unpack" /\ z.req = s.req
    <3>1. s.pc = "upload" /\ seed' = {Packed(t)}
      BY <2>10 DEF UploadSeed, At
    <3>2. BuildOf(s) = RunningBuild(s.req)
      BY <3>1, SeenRunning DEF Running, Locations
    <3>3. BuildOf(z) = [RunningBuild(s.req) EXCEPT !.state = "published"]
      BY <2>10 DEF BuildOf, Stage, RunningBuild
    <3>4. /\ Builds[m] = RunningBuild(s.req) /\ Builds[m].state = "running"
          /\ Builds[m].req = s.req
      BY <2>2, <3>2 DEF RunningBuild
    <3>5. Builds' = [Builds EXCEPT ![m].state = "published"]
      BY <2>2, <2>3, <3>3, <3>4
    <3>6. s.req \in Requests /\ Answers[s.req] # {}
      BY <2>1, <3>1, Answerable DEF Before
    <3>7. s.req \in Publishers
      BY <2>1, <3>1, <3>6 DEF JobInv, GateInv, Publishers
    <3>8. t[".kbf-stamp"] = StampWant(s.req)
      BY <2>1, <3>1 DEF Before, MountInv, ConfigInv, Compiling
    <3>9. Packed(t)[".kbf-stamp"] = StampOf[s.req]
      BY <3>6, <3>8 DEF Packed, TreeFiles, StampOf
    <3>10. Published' = {StampOf[s.req]}
      BY <3>1, <3>9 DEF Published
    <3>11. Service!Publish(m)
      BY <3>4, <3>5, <3>6, <3>7, <3>10 DEF Service!Publish, Service!Becomes
    <3> QED
      BY <3>11 DEF Service!Next
  <2>11. CASE /\ z.pc = "done" /\ z.req = s.req /\ seed' = seed
              /\ \/ s.pc = "copy" /\ ~(Seeded(s.req) /\ s.req.cfgPush)
                 \/ s.pc = "unpack"
    <3> DEFINE state == IF s.req \in Publishers THEN "published" ELSE "running"
    <3>1. BuildOf(s) = [state |-> state, req |-> s.req, out |-> None]
      <4>1. CASE s.pc = "copy"
        <5>1. s.req \notin Publishers
          BY <2>11, <4>1 DEF Publishers
        <5>2. BuildOf(s) = RunningBuild(s.req)
          BY <4>1, SeenRunning DEF Running, Locations
        <5> QED
          BY <5>1, <5>2 DEF RunningBuild
      <4>2. CASE s.pc = "unpack"
        <5>1. s.req \in Publishers
          BY <2>1, <2>5, <4>2 DEF JobInv, GateInv, Publishers
        <5> QED
          BY <4>2, <5>1 DEF BuildOf, Stage
      <4> QED
        BY <2>11, <4>1, <4>2
    <3>2. z.out \in Answers[s.req]
      BY <2>1, <2>11, Answerable DEF After
    <3>3. BuildOf(z) = [state |-> "done", req |-> s.req, out |-> z.out]
      BY <2>11 DEF BuildOf, Stage
    <3> HIDE DEF state
    <3>4. /\ Builds[m] = [state |-> state, req |-> s.req, out |-> None]
          /\ Builds[m].state = state /\ Builds[m].req = s.req
      BY <2>2, <3>1
    <3>5. [Builds[m] EXCEPT !.state = "done", !.out = z.out] = BuildOf(z)
      <4>1. [[state |-> state, req |-> s.req, out |-> None] EXCEPT !.state = "done"]
              = [state |-> "done", req |-> s.req, out |-> None]
        OBVIOUS
      <4>2. [[state |-> "done", req |-> s.req, out |-> None] EXCEPT !.out = z.out]
              = [state |-> "done", req |-> s.req, out |-> z.out]
        OBVIOUS
      <4> QED
        BY <3>3, <3>4, <4>1, <4>2
    <3>6. Builds' = [Builds EXCEPT ![m].state = "done", ![m].out = z.out]
      <4> HIDE DEF s, z
      <4> QED
        BY <2>2, <2>3, <3>5
    <3>7. Service!Answer(m)
      BY <2>4, <2>11, <3>2, <3>4, <3>6 DEF Service!Answer, state
    <3> QED
      BY <3>7 DEF Service!Next
  <2>12. CASE Prepare(m) \/ Configure(m)
    <3>1. ~UploadSeed(m)
      <4>1. s.pc # "upload"
        BY <2>12 DEF Prepare, Configure, Sweep, CompareStamp, Clear, NukeEntry,
           NukeDone, Hydrate, PullSeed, PullFails, UntarEntry, UntarDone,
           UntarSeedFails, AdoptSeed, NeedSource, Acquire, Download, Receive, Verify,
           Extract, ApplyPatches, Bless, Stamped, CompareConfig, Unmark, BaseMake,
           AppendFragment, TruncateConfig, WriteConfig, Olddefconfig, Mark, Marked, At
      <4> QED
        BY <4>1 DEF UploadSeed, At
    <3>2. seed' = seed
      BY <1>2, <3>1, StoreKept
    <3> QED
      BY <2>1, <2>9, <2>12, <3>2, PrepareSeen
  <2>13. CASE Compile(m)
    BY <2>1, <2>7, <2>9, <2>10, <2>11, <2>13, CompileSeen
  <2> QED
    BY <1>2, <2>6, <2>7, <2>8, <2>12, <2>13 DEF Run
<1> QED
  BY <1>1, <1>2 DEF Next

\* As long as no BASE_MAKE target merges into an existing .config, the compile
\* step refines CompileService: however often mounts are shared, killed and
\* collected, a build is answered with a cold build's artifacts, publishes only
\* what it will answer, and answers a publishing request after its upload.
THEOREM Implements == ASSUME NoMergeBase PROVE Spec => ImplementsService
<1>1. TreeInv /\ StepInv /\ TreeInv' /\ StepInv' /\ [Next]_vars => [Service!Next]_(Service!vars)
  BY ServiceNext
<1> QED
  BY <1>1, ServiceInit, TreeInvariant, StepInvariant, PTL DEF Spec, ImplementsService,
     Service!Spec
=============================================================================
