-------------------------- MODULE ObjectTreeProofs --------------------------
(***************************************************************************)
(* Proofs about ObjectTree, for every set of mounts, requests, tarballs    *)
(* and configs.                                                            *)
(***************************************************************************)
EXTENDS ObjectTree, TLAPS

IsMount == mount = [m \in Mounts |-> [f \in Files |-> mount[m][f]]]
IsStep == step = [m \in Mounts |-> [k \in Fields |-> step[m][k]]]
IsRecord(s) == s = [k \in Fields |-> s[k]]

OthersKept(m) ==
    \A n \in Mounts \ {m} : mount'[n] = mount[n] /\ step'[n] = step[n]

\* What an action of the step on m is given and what it must leave.
Before(m) ==
    /\ IsMount
    /\ IsStep
    /\ MountType(mount[m], step[m])
    /\ MountInv(mount[m], step[m])

After(m) ==
    /\ IsMount'
    /\ IsStep'
    /\ OthersKept(m)
    /\ MountType(mount'[m], step'[m])
    /\ MountInv(mount'[m], step'[m])

\* u is t with v written to file f.
Wrote(u, t, f, v) == u[f] = v /\ \A g \in Files \ {f} : u[g] = t[g]

\* The fields of a step but pc, next and why are kept.
SameJob(z, s) ==
    /\ z.req = s.req
    /\ z.src = s.src
    /\ z.img = s.img
    /\ z.todo = s.todo
    /\ z.out = s.out

\* z is s at another location.
Moved(z, s, pc) ==
    z.pc = pc /\ z.next = s.next /\ z.why = s.why /\ SameJob(z, s)

\* Put writes one file of one mount (the file-system effect of a step).
LEMMA PutFacts ==
    ASSUME IsMount, NEW m \in Mounts, NEW f \in Files, NEW v, Put(m, f, v)
    PROVE  /\ IsMount'
           /\ Wrote(mount'[m], mount[m], f, v)
           /\ \A n \in Mounts \ {m} : mount'[n] = mount[n]
  BY DEF Put, IsMount, Wrote

\* Replacing the record of one step leaves the other steps alone.
LEMMA StepFacts ==
    ASSUME IsStep, NEW m \in Mounts, NEW z, IsRecord(z),
           step' = [step EXCEPT ![m] = z]
    PROVE  /\ IsStep'
           /\ step'[m] = z
           /\ \A n \in Mounts \ {m} : step'[n] = step[n]
<1>1. step' = [n \in Mounts |-> IF n = m THEN z ELSE step[n]]
  BY DEF IsStep
<1>2. \A n \in Mounts : IsRecord(step'[n])
  <2> TAKE n \in Mounts
  <2>1. IsRecord(step[n])
    BY DEF IsStep, IsRecord
  <2> QED
    BY <1>1, <2>1
<1>3. step' = [n \in Mounts |-> [k \in Fields |-> step'[n][k]]]
  BY <1>1, <1>2 DEF IsRecord
<1> QED
  BY <1>1, <1>3 DEF IsStep

\* Goto moves the program counter of one step and nothing else.
LEMMA GotoFacts ==
    ASSUME IsStep, NEW m \in Mounts, NEW pc, Goto(m, pc)
    PROVE  /\ IsStep'
           /\ Moved(step'[m], step[m], pc)
           /\ \A n \in Mounts \ {m} : step'[n] = step[n]
<1> DEFINE z == [step[m] EXCEPT !.pc = pc]
<1>1. IsRecord(step[m])
  BY DEF IsStep, IsRecord
<1>2. IsRecord(z) /\ Moved(z, step[m], pc)
  BY <1>1 DEF IsRecord, Fields, Moved, SameJob
<1>3. step' = [step EXCEPT ![m] = z]
  BY DEF Goto, IsStep
<1> HIDE DEF z
<1> QED
  BY <1>2, <1>3, StepFacts

\* Nuke starts the removal of the tree and remembers where to go on.
LEMMA NukeFacts ==
    ASSUME IsStep, NEW m \in Mounts, NEW next, Nuke(m, next)
    PROVE  /\ IsStep'
           /\ step'[m].pc = "nuke" /\ step'[m].next = next
           /\ step'[m].why = step[m].why /\ SameJob(step'[m], step[m])
           /\ \A n \in Mounts \ {m} : step'[n] = step[n]
<1> DEFINE z == [step[m] EXCEPT !.pc = "nuke", !.next = next]
<1>1. IsRecord(step[m])
  BY DEF IsStep, IsRecord
<1>2. IsRecord(z)
  BY <1>1 DEF IsRecord, Fields
<1>3. /\ z.pc = "nuke" /\ z.next = next
      /\ z.why = step[m].why /\ SameJob(z, step[m])
  BY <1>1 DEF IsRecord, Fields, SameJob
<1>4. step' = [step EXCEPT ![m] = z]
  BY DEF Nuke, IsStep
<1> HIDE DEF z
<1> QED
  BY <1>2, <1>3, <1>4, StepFacts

\* Fail ends the step with a cause.
LEMMA FailFacts ==
    ASSUME IsStep, NEW m \in Mounts, NEW cause, Fail(m, cause)
    PROVE  /\ IsStep'
           /\ step'[m].pc = "failed" /\ step'[m].next = step[m].next
           /\ step'[m].why = cause /\ SameJob(step'[m], step[m])
           /\ \A n \in Mounts \ {m} : step'[n] = step[n]
<1> DEFINE z == [step[m] EXCEPT !.pc = "failed", !.why = cause]
<1>1. IsRecord(step[m])
  BY DEF IsStep, IsRecord
<1>2. IsRecord(z)
  BY <1>1 DEF IsRecord, Fields
<1>3. /\ z.pc = "failed" /\ z.next = step[m].next
      /\ z.why = cause /\ SameJob(z, step[m])
  BY <1>1 DEF IsRecord, Fields, SameJob
<1>4. step' = [step EXCEPT ![m] = z]
  BY DEF Fail, IsStep
<1> HIDE DEF z
<1> QED
  BY <1>2, <1>3, <1>4, StepFacts

\* z is s holding the source src, about to nuke the tree t or to extract.
GotSource(z, s, t, src) ==
    /\ z.src = src /\ z.req = s.req /\ z.why = s.why /\ z.todo = s.todo
    /\ z.img = s.img /\ z.out = s.out
    /\ z.pc = IF TreePresent(t) THEN "nuke" ELSE "extract"
    /\ z.next = IF TreePresent(t) THEN "clear" ELSE s.next

\* Acquired records the source and leaves for the nuke or the extraction.
LEMMA AcquiredFacts ==
    ASSUME IsStep, NEW m \in Mounts, NEW src, Acquired(m, src)
    PROVE  /\ IsStep'
           /\ GotSource(step'[m], step[m], mount[m], src)
           /\ \A n \in Mounts \ {m} : step'[n] = step[n]
<1> DEFINE present == TreePresent(mount[m])
           z == [step[m] EXCEPT !.src = src,
                                !.pc = IF present THEN "nuke" ELSE "extract",
                                !.next = IF present THEN "clear" ELSE @]
<1> HIDE DEF present
<1>1. IsRecord(step[m])
  BY DEF IsStep, IsRecord
<1>2. IsRecord(z)
  BY <1>1 DEF IsRecord, Fields
<1>3. GotSource(z, step[m], mount[m], src)
  BY <1>1 DEF IsRecord, Fields, GotSource, present
<1>4. step' = [step EXCEPT ![m] = z]
  BY DEF Acquired, IsStep, present
<1> HIDE DEF z
<1> QED
  BY <1>2, <1>3, <1>4, StepFacts

\* A step that touches no mount leaves every mount a file map.
LEMMA KeepFacts ==
    ASSUME IsMount, UNCHANGED mount
    PROVE  IsMount'
  BY DEF IsMount

\* Fitness for a stamp depends on six files of the tree only.
WholeFiles == SrcFiles \union {".config", ".kbf-config-src", "kernel.o", "vmlinux"}

\* Fitness carries over to a tree that agrees on those files.
LEMMA WholeKept ==
    ASSUME NEW t, NEW u, NEW w, Whole(t, w),
           \A f \in WholeFiles : u[f] = t[f]
    PROVE  Whole(u, w) /\ SourceOf(u) = SourceOf(t)
<1>1. SourceOf(u) = SourceOf(t)
  BY DEF SourceOf, WholeFiles, SrcFiles
<1> QED
  BY <1>1 DEF Whole, Clean, Objects, Configured, WholeFiles

\* What is not a request's stamp makes no claim about the tree.
LEMMA NoClaim ==
    ASSUME NEW t, NEW w, w \notin Stamps
    PROVE  Whole(t, w)
  BY DEF Whole, Stamps

\* Two requests with one stamp accept the same tarballs and patches.
LEMMA SameStamp ==
    ASSUME NEW r \in Requests, NEW q \in Requests, StampWant(r) = StampWant(q)
    PROVE  Sources(r) = Sources(q) /\ r.patch = q.patch
  BY ConstantsAssumption DEF StampWant, SrcId, Sources

\* The contents of a source are tarballs.
LEMMA SourceType ==
    ASSUME NEW r \in Requests
    PROVE  Sources(r) \subseteq Tarballs /\ r.patch \in Patches \union {None}
  BY ConstantsAssumption DEF Sources, RequestType

\* The sources of a request are of a generation some tarball and patch series make.
LEMMA CleanSource ==
    ASSUME NEW t, NEW r \in Requests, Clean(t, r)
    PROVE  SourceOf(t) \in Generations
  BY SourceType DEF Clean, Generations

\* A .config consists of config inputs.
LEMMA ConfigLayers ==
    ASSUME NEW config \in Configs
    PROVE  config.layers \subseteq Layers
  BY DEF Configs, Raw, Resolved

\* What is put together from config inputs is a .config.
LEMMA RawConfig ==
    ASSUME NEW layers \in SUBSET (Layers \union {None})
    PROVE  Raw(layers) \in Configs
<1>1. layers \ {None} \in SUBSET Layers
  OBVIOUS
<1>2. Raw(layers) = Raw(layers \ {None})
  BY DEF Raw
<1> QED
  BY <1>1, <1>2 DEF Configs

\* A tree with the sources of a request has a Makefile.
LEMMA CleanPresent ==
    ASSUME NEW t, NEW r \in Requests, Clean(t, r)
    PROVE  TreePresent(t)
<1>1. PICK c \in Sources(r) : SourceOf(t) = Extracted(c, r.patch)
  BY DEF Clean
<1>2. c \in Tarballs
  BY SourceType
<1>3. SourceOf(t)["Makefile"] = t["Makefile"]
  BY DEF SourceOf, SrcFiles
<1>4. Extracted(c, r.patch)["Makefile"] = <<c, None>>
  BY DEF Extracted, SrcFiles
<1>5. <<c, None>> # None
  BY <1>2, ConstantsAssumption
<1> QED
  BY <1>1, <1>3, <1>4, <1>5 DEF TreePresent

\* A freshly extracted and patched tree is fit for the request's stamp.
LEMMA FreshWhole ==
    ASSUME NEW u, NEW r \in Requests, NEW c \in Sources(r),
           SourceOf(u) = Extracted(c, r.patch),
           \A f \in {".config", ".kbf-config-src", "kernel.o", "vmlinux"} : u[f] = None
    PROVE  Whole(u, StampWant(r))
<1> SUFFICES ASSUME NEW q \in Requests, StampWant(r) = StampWant(q)
             PROVE  /\ Clean(u, q)
                    /\ Objects(u) = {}
                    /\ u["vmlinux"] = None
                    /\ u[".kbf-config-src"] \notin CfgIds
  BY DEF Whole, CfgIds
<1>1. Clean(u, q)
  BY SameStamp DEF Clean
<1>2. u[".kbf-config-src"] \notin CfgIds
  BY ConstantsAssumption
<1> QED
  BY <1>1, <1>2 DEF Objects

-----------------------------------------------------------------------------
(***************************************************************************)
(* The actions of the step: given the invariant of the mount it holds, an  *)
(* action leaves it in force, and leaves the other mounts alone.           *)
(***************************************************************************)
\* A step record without a source or an extraction asks nothing of the mount.
LEMMA FreshStep ==
    ASSUME NEW m \in Mounts, Before(m), UNCHANGED mount, NEW y, IsRecord(y),
           step' = [step EXCEPT ![m] = y], y.pc \in {"idle", "sweep", "failed"},
           y.pc = "idle" \/ y.req \in Requests, y.why \in Causes,
           y.src = None, y.todo = {}, y.next = "idle"
    PROVE  After(m)
<1>1. IsMount' /\ IsStep' /\ step'[m] = y /\ OthersKept(m)
  BY KeepFacts, StepFacts DEF Before, OthersKept
<1>2. MountType(mount[m], y)
  BY DEF Before, MountType, Locations
<1>3. MountInv(mount[m], y)
  BY ConstantsAssumption DEF Before, MountInv, SourceInv, UntarInv, ConfigInv,
     CompileInv, Configuring, Compiling
<1> QED
  BY <1>1, <1>2, <1>3 DEF After

\* A new step starts with a record of its own on an untouched mount.
LEMMA StartKeeps ==
    ASSUME NEW m \in Mounts, Before(m), NEW r \in Requests, Start(m, r)
    PROVE  After(m)
<1> DEFINE y == IF CheckSeedPush(r)
                THEN [Idle EXCEPT !.pc = "sweep", !.req = r]
                ELSE [Idle EXCEPT !.pc = "failed", !.req = r, !.why = "push"]
<1>1. /\ IsRecord(y) /\ y.pc \in {"sweep", "failed"} /\ y.req = r
      /\ y.why \in Causes /\ y.src = None /\ y.todo = {} /\ y.next = "idle"
  BY DEF IsRecord, Fields, Idle, Causes
<1>2. step' = [step EXCEPT ![m] = y] /\ UNCHANGED mount
  BY DEF Start, KeepsMount
<1> HIDE DEF y
<1> QED
  BY <1>1, <1>2, FreshStep

\* A step that ends, or is killed at any point, leaves a mount in order.
LEMMA ReleaseKeeps ==
    ASSUME NEW m \in Mounts, Before(m), Finish(m) \/ Kill(m)
    PROVE  After(m)
<1>1. /\ IsRecord(Idle) /\ Idle.pc = "idle" /\ Idle.why \in Causes
      /\ Idle.src = None /\ Idle.todo = {} /\ Idle.next = "idle"
  BY DEF IsRecord, Fields, Idle, Causes
<1>2. step' = [step EXCEPT ![m] = Idle] /\ UNCHANGED mount
  BY DEF Finish, Kill, KeepsMount
<1> QED
  BY <1>1, <1>2, FreshStep

\* An evicted mount is in order.
LEMMA EvictKeeps ==
    ASSUME NEW m \in Mounts, Before(m), Evict(m)
    PROVE  After(m)
<1> DEFINE s == step[m]
<1>1. IsMount' /\ IsStep' /\ OthersKept(m) /\ mount'[m] = Empty /\ step'[m] = s
  BY DEF Evict, Before, IsMount, IsStep, OthersKept, Empty
<1>2. s.pc = "idle" /\ MountType(mount[m], s) /\ MountInv(mount[m], s)
  BY DEF Before, Evict, At
<1>3. s.src = None
  BY <1>2, ConstantsAssumption DEF MountInv, SourceInv, MountType
<1>4. \A f \in Files : Empty[f] = None
  BY DEF Empty
<1>5. Whole(Empty, Empty[".kbf-stamp"])
  BY <1>4, NoClaim, ConstantsAssumption DEF Files, TreeFiles
<1> HIDE DEF s
<1>6. MountType(Empty, s)
  BY <1>2, <1>4 DEF MountType, Files, TreeFiles
<1>7. MountInv(Empty, s)
  BY <1>2, <1>3, <1>5, ConstantsAssumption DEF MountInv, SourceInv, UntarInv,
     ConfigInv, CompileInv, Configuring, Compiling
<1> QED
  BY <1>1, <1>6, <1>7 DEF After, s

\* prepareTree, from the sweep to the stamp, keeps the invariant of its mount.
LEMMA PrepareKeeps ==
    ASSUME NEW m \in Mounts, Before(m), SeedInv, served \in [Urls -> Tarballs], Prepare(m)
    PROVE  After(m)
<1> DEFINE t == mount[m]
           s == step[m]
           u == mount'[m]
           z == step'[m]
<1>1. CASE Sweep(m)
  <2>1. IsMount' /\ IsStep' /\ OthersKept(m)
    BY <1>1, PutFacts, GotoFacts DEF Sweep, Before, OthersKept, Files,
       TreeFiles, SrcFiles
  <2>2. /\ s.pc = "sweep"
        /\ Wrote(u, t, ".kbf-seed.tmp", None)
        /\ Moved(z, s, "stamp")
    BY <1>1, PutFacts, GotoFacts DEF Sweep, At, Before, Files, TreeFiles,
       SrcFiles
  <2>3. MountType(t, s) /\ MountInv(t, s)
    BY DEF Before
  <2> HIDE DEF t, s, u, z
  <2>4. MountType(u, z)
    BY <2>2, <2>3 DEF MountType, Moved, SameJob, Wrote, Locations, Causes,
       Files, TreeFiles
  <2>5. Whole(u, u[".kbf-stamp"]) /\ SourceOf(u) = SourceOf(t)
    BY <2>2, <2>3, WholeKept DEF MountInv, Wrote, WholeFiles, Files,
       TreeFiles, SrcFiles
  <2>6. MountInv(u, z)
    BY <2>2, <2>3, <2>5 DEF MountInv, SourceInv, UntarInv, ConfigInv,
       CompileInv, Configuring, Compiling, SameJob, Moved, Wrote, Files,
       TreeFiles, SrcFiles
  <2> QED
    BY <2>1, <2>4, <2>6 DEF After, t, s, u, z
<1>2. CASE CompareStamp(m)
  <2>1. mount' = mount /\ IsMount' /\ IsStep' /\ OthersKept(m)
    BY <1>2, GotoFacts, KeepFacts DEF CompareStamp, KeepsMount, Before,
       OthersKept
  <2>2. /\ s.pc = "stamp"
        /\ \/ Moved(z, s, "acquire") /\ TreePresent(t)
           \/ Moved(z, s, "clear") /\ (TreePresent(t) => t[".kbf-stamp"] = StampWant(s.req))
    BY <1>2, GotoFacts DEF CompareStamp, At, Before
  <2>3. MountType(t, s) /\ MountInv(t, s)
    BY DEF Before
  <2> HIDE DEF t, s, z
  <2>4. MountType(t, z)
    BY <2>2, <2>3 DEF MountType, Moved, SameJob, Locations, Causes
  <2>5. MountInv(t, z)
    BY <2>2, <2>3 DEF MountInv, SourceInv, UntarInv, ConfigInv, CompileInv,
       Configuring, Compiling, SameJob, Moved
  <2> QED
    BY <2>1, <2>4, <2>5 DEF After, t, s, z
<1>3. CASE Clear(m)
  <2>1. mount' = mount /\ IsMount' /\ IsStep' /\ OthersKept(m)
    BY <1>3, GotoFacts, NukeFacts, KeepFacts DEF Clear, KeepsMount, Before,
       OthersKept
  <2>2. /\ s.pc = "clear"
        /\ \/ Moved(z, s, "source") /\ TreePresent(t)
           \/ /\ z.pc = "nuke" /\ z.next = "hydrate" /\ z.why = s.why
              /\ SameJob(z, s)
    BY <1>3, GotoFacts, NukeFacts DEF Clear, At, Before
  <2>3. MountType(t, s) /\ MountInv(t, s)
    BY DEF Before
  <2> HIDE DEF t, s, z
  <2>4. MountType(t, z)
    BY <2>2, <2>3 DEF MountType, Moved, SameJob, Locations, Causes
  <2>5. MountInv(t, z)
    BY <2>2, <2>3 DEF MountInv, SourceInv, UntarInv, ConfigInv, CompileInv,
       Configuring, Compiling, SameJob, Moved
  <2> QED
    BY <2>1, <2>4, <2>5 DEF After, t, s, z
<1>4. CASE NukeEntry(m)
  <2>1. PICK k \in Leftover(t) :
          /\ \A j \in Leftover(t) : k <= j
          /\ Put(m, NukeOrder[k], None)
    BY <1>4 DEF NukeEntry
  <2>2. k \in 1..10 /\ NukeOrder[k] \in TreeFiles
    BY <2>1 DEF Leftover, NukeOrder, TreeFiles, SrcFiles
  <2>3. IsMount' /\ IsStep' /\ OthersKept(m) /\ Wrote(u, t, NukeOrder[k], None)
    BY <1>4, <2>1, <2>2, PutFacts DEF NukeEntry, Before, OthersKept, Files,
       IsStep
  <2>4. s.pc = "nuke" /\ step'[m] = s /\ MountType(t, s) /\ MountInv(t, s)
    BY <1>4 DEF NukeEntry, At, Before
  <2>5. t[".kbf-stamp"] = None \/ k <= 4
    <3>1. 4 \in 1..Len(NukeOrder) /\ NukeOrder[4] = ".kbf-stamp"
      BY DEF NukeOrder
    <3> QED
      BY <2>1, <3>1 DEF Leftover
  <2>6. \A j \in 1..4 : NukeOrder[j] =
           CASE j = 1 -> ".config" [] j = 2 -> ".kbf-config-src"
             [] j = 3 -> ".kbf-seed.tmp" [] j = 4 -> ".kbf-stamp"
    BY DEF NukeOrder
  <2>7. \/ t[".kbf-stamp"] = None
        \/ NukeOrder[k] \in {".config", ".kbf-config-src", ".kbf-seed.tmp", ".kbf-stamp"}
    BY <2>2, <2>5, <2>6
  <2> HIDE DEF t, s, u
  <2>8. MountType(u, s)
    BY <2>2, <2>3, <2>4 DEF MountType, Wrote, Files, TreeFiles, SrcFiles
  <2>9. CASE u[".kbf-stamp"] = None
    <3>1. Whole(u, u[".kbf-stamp"])
      BY <2>9, NoClaim, ConstantsAssumption
    <3>2. u[".kbf-src.tar"] = t[".kbf-src.tar"]
      BY <2>2, <2>3 DEF Wrote, Files, TreeFiles, SrcFiles
    <3> QED
      BY <2>3, <2>4, <2>8, <3>1, <3>2 DEF After, t, s, u, MountInv, SourceInv,
         UntarInv, ConfigInv, CompileInv, Configuring, Compiling
  <2>10. CASE u[".kbf-stamp"] # None
    <3>1. /\ NukeOrder[k] \in {".config", ".kbf-config-src", ".kbf-seed.tmp"}
          /\ u[".kbf-stamp"] = t[".kbf-stamp"]
      BY <2>2, <2>3, <2>7, <2>10 DEF Wrote, Files, TreeFiles
    <3>2. SourceOf(u) = SourceOf(t) /\ Objects(u) = Objects(t) /\ u["vmlinux"] = t["vmlinux"]
      BY <2>3, <3>1 DEF SourceOf, Objects, Wrote, Files, TreeFiles, SrcFiles
    <3>3. \A q \in Requests : u[".kbf-config-src"] = CfgId(q) =>
            t[".kbf-config-src"] = CfgId(q)
      BY <2>3, <3>1, ConstantsAssumption DEF Wrote, Files, TreeFiles, CfgIds
    <3>6. u[".config"] \in {None, t[".config"]}
      BY <2>3, <3>1 DEF Wrote, Files, TreeFiles
    <3>4. Whole(u, u[".kbf-stamp"])
      BY <2>4, <3>1, <3>2, <3>3, <3>6 DEF MountInv, Whole, Clean, Configured
    <3>5. u[".kbf-src.tar"] = t[".kbf-src.tar"]
      BY <2>2, <2>3 DEF Wrote, Files, TreeFiles, SrcFiles
    <3> QED
      BY <2>3, <2>4, <2>8, <3>4, <3>5 DEF After, t, s, u, MountInv, SourceInv,
         UntarInv, ConfigInv, CompileInv, Configuring, Compiling
  <2> QED
    BY <2>9, <2>10
<1>5. CASE NukeDone(m)
  <2>1. mount' = mount /\ IsMount' /\ IsStep' /\ OthersKept(m)
    BY <1>5, GotoFacts, KeepFacts DEF NukeDone, KeepsMount, Before, OthersKept
  <2>2. s.pc = "nuke" /\ Moved(z, s, s.next) /\ MountType(t, s) /\ MountInv(t, s)
    BY <1>5, GotoFacts DEF NukeDone, At, Before
  <2>3. \A k \in 1..10 : t[NukeOrder[k]] = None
    BY <1>5 DEF NukeDone, Leftover, NukeOrder
  <2>4. Bare(t)
    <3>1. \A f \in TreeFiles : \E k \in 1..10 : NukeOrder[k] = f
      BY DEF TreeFiles, SrcFiles, NukeOrder
    <3> QED
      BY <2>3, <3>1 DEF Bare
  <2>5. ~TreePresent(t)
    BY <2>4 DEF Bare, TreePresent, TreeFiles, SrcFiles
  <2> HIDE DEF t, s, z
  <2>6. MountType(t, z)
    BY <2>2 DEF MountType, Moved, SameJob
  <2>7. MountInv(t, z)
    BY <2>2, <2>4, <2>5 DEF MountInv, SourceInv, UntarInv, ConfigInv,
       CompileInv, Configuring, Compiling, SameJob, Moved
  <2> QED
    BY <2>1, <2>6, <2>7 DEF After, t, s, z
<1>6. CASE Hydrate(m)
  <2>1. mount' = mount /\ IsMount' /\ IsStep' /\ OthersKept(m)
    BY <1>6, GotoFacts, KeepFacts DEF Hydrate, KeepsMount, Before, OthersKept
  <2>2. /\ s.pc = "hydrate"
        /\ \/ Moved(z, s, "pull")
           \/ Moved(z, s, "source")
    BY <1>6, GotoFacts DEF Hydrate, At, Before
  <2>3. MountType(t, s) /\ MountInv(t, s)
    BY DEF Before
  <2> HIDE DEF t, s, z
  <2>4. MountType(t, z)
    BY <2>2, <2>3 DEF MountType, Moved, SameJob, Locations, Causes
  <2>5. MountInv(t, z)
    BY <2>2, <2>3 DEF MountInv, SourceInv, UntarInv, ConfigInv, CompileInv,
       Configuring, Compiling, SameJob, Moved, Bare, TreePresent, TreeFiles,
       SrcFiles
  <2> QED
    BY <2>1, <2>4, <2>5 DEF After, t, s, z
<1>7. CASE PullSeed(m)
  <2>1. s.pc = "pull" /\ MountType(t, s) /\ MountInv(t, s) /\ mount' = mount /\ IsMount'
    BY <1>7, KeepFacts DEF PullSeed, KeepsMount, At, Before
  <2>2. Bare(t) /\ ~TreePresent(t)
    BY <2>1 DEF MountInv, SourceInv, Bare, TreePresent, TreeFiles, SrcFiles
  <2>3. CASE Goto(m, "source")
    <3>1. IsStep' /\ Moved(z, s, "source") /\ OthersKept(m)
      BY <2>1, <2>3, GotoFacts DEF Before, OthersKept
    <3> HIDE DEF t, s, z
    <3>2. MountType(t, z) /\ MountInv(t, z)
      BY <2>1, <2>2, <3>1 DEF MountType, Locations, MountInv, SourceInv,
         UntarInv, ConfigInv, CompileInv, Configuring, Compiling, SameJob,
         Moved
    <3> QED
      BY <2>1, <3>1, <3>2 DEF After, t, s, z
  <2>4. CASE ~Goto(m, "source")
    <3>0. PICK o \in seed :
            LET i == Quarantined(o)
            IN  step' = [step EXCEPT ![m].pc = "untar", ![m].next = "adopt",
                                     ![m].img = i,
                                     ![m].todo = {f \in TreeFiles : i[f] # None}]
      BY <1>7, <2>4 DEF PullSeed
    <3> DEFINE i == Quarantined(o)
               y == [s EXCEPT !.pc = "untar", !.next = "adopt", !.img = i,
                              !.todo = {f \in TreeFiles : i[f] # None}]
    <3>1. IsRecord(y)
      BY DEF Before, IsStep, IsRecord, Fields
    <3>2. step' = [step EXCEPT ![m] = y]
      BY <3>0 DEF Before, IsStep
    <3>3. /\ y.pc = "untar" /\ y.next = "adopt" /\ y.img = i
          /\ y.todo = {f \in TreeFiles : i[f] # None}
          /\ y.req = s.req /\ y.src = s.src /\ y.why = s.why
      BY DEF Before, IsStep, Fields
    <3>4. /\ i[".kbf-stamp"] = None
          /\ i[".kbf-stamp.seed"] = o[".kbf-stamp"]
          /\ \A f \in WholeFiles : i[f] = o[f]
      BY DEF Quarantined, WholeFiles, TreeFiles, SrcFiles
    <3> HIDE DEF y, i
    <3>5. IsStep' /\ z = y /\ OthersKept(m)
      BY <2>1, <3>1, <3>2, StepFacts DEF Before, OthersKept
    <3>6. Whole(i, i[".kbf-stamp.seed"])
      BY <3>4, WholeKept DEF SeedInv
    <3> HIDE DEF t, s, z
    <3>7. \A f \in TreeFiles : t[f] = IF f \in y.todo THEN None ELSE i[f]
      BY <2>2, <3>3 DEF Bare
    <3>8. MountType(t, y)
      BY <2>1, <3>3 DEF MountType, Locations
    <3>9. MountInv(t, y)
      BY <2>1, <3>3, <3>4, <3>6, <3>7 DEF MountInv, SourceInv, UntarInv,
         ConfigInv, CompileInv, Configuring, Compiling
    <3> QED
      BY <2>1, <3>5, <3>8, <3>9 DEF After, t, s, z
  <2> QED
    BY <2>3, <2>4
<1>8. CASE PullFails(m)
  <2>1. mount' = mount /\ IsMount' /\ IsStep' /\ OthersKept(m)
    BY <1>8, FailFacts, KeepFacts DEF PullFails, KeepsMount, Before,
       OthersKept
  <2>2. /\ s.pc = "pull"
        /\ z.pc = "failed" /\ z.next = s.next /\ z.why = "seed" /\ SameJob(z, s)
    BY <1>8, FailFacts DEF PullFails, At, Before
  <2>3. MountType(t, s) /\ MountInv(t, s)
    BY DEF Before
  <2> HIDE DEF t, s, z
  <2>4. MountType(t, z)
    BY <2>2, <2>3 DEF MountType, Moved, SameJob, Locations, Causes
  <2>5. MountInv(t, z)
    BY <2>2, <2>3 DEF MountInv, SourceInv, UntarInv, ConfigInv, CompileInv,
       Configuring, Compiling, SameJob, Moved
  <2> QED
    BY <2>1, <2>4, <2>5 DEF After, t, s, z
<1>9. CASE UntarEntry(m)
  <2>1. PICK f \in s.todo : /\ Put(m, f, s.img[f])
                            /\ step' = [step EXCEPT ![m].todo = @ \ {f}]
    BY <1>9 DEF UntarEntry
  <2> DEFINE y == [s EXCEPT !.todo = @ \ {f}]
  <2>2. s.pc = "untar" /\ MountType(t, s) /\ MountInv(t, s)
    BY <1>9 DEF UntarEntry, At, Before
  <2>3. f \in TreeFiles
    BY <2>1, <2>2 DEF MountType
  <2>4. IsRecord(y)
    BY DEF Before, IsStep, IsRecord, Fields
  <2>5. step' = [step EXCEPT ![m] = y]
    BY <2>1 DEF Before, IsStep
  <2>6. /\ y.pc = s.pc /\ y.todo = s.todo \ {f} /\ y.img = s.img /\ y.next = s.next
        /\ y.req = s.req /\ y.src = s.src /\ y.why = s.why
    BY DEF Before, IsStep, Fields
  <2> HIDE DEF y
  <2>7. /\ IsMount' /\ IsStep' /\ OthersKept(m)
        /\ z = y /\ Wrote(u, t, f, s.img[f])
    BY <2>1, <2>3, <2>4, <2>5, StepFacts, PutFacts DEF Before, OthersKept,
       Files
  <2> HIDE DEF t, s, u, z
  <2>8. /\ \A g \in TreeFiles : u[g] = IF g \in y.todo THEN None ELSE s.img[g]
        /\ s.img[".kbf-stamp"] = None
    BY <2>2, <2>6, <2>7 DEF MountInv, UntarInv, Wrote, Files
  <2>9. u[".kbf-stamp"] = None
    BY <2>8 DEF TreeFiles
  <2>10. Whole(u, u[".kbf-stamp"])
    BY <2>9, NoClaim, ConstantsAssumption
  <2>11. MountType(u, y)
    BY <2>2, <2>3, <2>6, <2>7, <2>9 DEF MountType, Wrote, Files, TreeFiles,
       SrcFiles
  <2>12. u[".kbf-src.tar"] = t[".kbf-src.tar"]
    BY <2>3, <2>7 DEF Wrote, Files, TreeFiles, SrcFiles
  <2>13. MountInv(u, y)
    BY <2>2, <2>6, <2>8, <2>10, <2>12 DEF MountInv, SourceInv, UntarInv,
       ConfigInv, CompileInv, Configuring, Compiling
  <2> QED
    BY <2>7, <2>11, <2>13 DEF After, t, s, u, z
<1>10. CASE UntarDone(m)
  <2> DEFINE y == [s EXCEPT !.pc = s.next, !.img = None]
  <2>1. /\ s.pc = "untar" /\ s.todo = {} /\ MountType(t, s) /\ MountInv(t, s)
        /\ mount' = mount /\ IsMount'
    BY <1>10, KeepFacts DEF UntarDone, At, Before, KeepsMount
  <2>2. IsRecord(y) /\ step' = [step EXCEPT ![m] = y]
    BY <1>10 DEF UntarDone, Before, IsStep, IsRecord, Fields
  <2>3. /\ y.pc = s.next /\ y.todo = s.todo /\ y.next = s.next
        /\ y.req = s.req /\ y.src = s.src /\ y.why = s.why
    BY DEF Before, IsStep, Fields
  <2> HIDE DEF y
  <2>4. IsStep' /\ z = y /\ OthersKept(m)
    BY <2>1, <2>2, StepFacts DEF Before, OthersKept
  <2> HIDE DEF t, s, z
  <2>5. \A f \in TreeFiles : t[f] = s.img[f]
    BY <2>1 DEF MountInv, UntarInv
  <2>6. s.next = "adopt" => t[".kbf-stamp"] = None /\ Whole(t, t[".kbf-stamp.seed"])
    BY <2>1, <2>5, WholeKept DEF MountInv, UntarInv, WholeFiles, TreeFiles
  <2>7. MountType(t, y)
    BY <2>1, <2>3 DEF MountType
  <2>8. MountInv(t, y)
    BY <2>1, <2>3, <2>5, <2>6 DEF MountInv, SourceInv, UntarInv, ConfigInv,
       CompileInv, Configuring, Compiling
  <2> QED
    BY <2>1, <2>4, <2>7, <2>8 DEF After, t, s, z
<1>11. CASE UntarSeedFails(m)
  <2> DEFINE y == [s EXCEPT !.pc = "nuke", !.next = "failed", !.img = None,
                            !.todo = {}, !.why = "seed"]
  <2>1. /\ s.pc = "untar" /\ MountType(t, s) /\ MountInv(t, s)
        /\ mount' = mount /\ IsMount'
    BY <1>11, KeepFacts DEF UntarSeedFails, At, Before, KeepsMount
  <2>2. IsRecord(y) /\ step' = [step EXCEPT ![m] = y]
    BY <1>11 DEF UntarSeedFails, Before, IsStep, IsRecord, Fields
  <2>3. /\ y.pc = "nuke" /\ y.todo = {} /\ y.next = "failed"
        /\ y.req = s.req /\ y.src = s.src /\ y.why = "seed"
    BY DEF Before, IsStep, Fields
  <2> HIDE DEF y
  <2>4. IsStep' /\ z = y /\ OthersKept(m)
    BY <2>1, <2>2, StepFacts DEF Before, OthersKept
  <2> HIDE DEF t, s, z
  <2>5. MountType(t, y) /\ MountInv(t, y)
    BY <2>1, <2>3 DEF MountType, Locations, Causes, MountInv, SourceInv,
       UntarInv, ConfigInv, CompileInv, Configuring, Compiling
  <2> QED
    BY <2>1, <2>4, <2>5 DEF After, t, s, z
<1>12. CASE AdoptSeed(m)
  <2>1. IsMount' /\ IsStep' /\ OthersKept(m)
    BY <1>12, PutFacts, GotoFacts, NukeFacts DEF AdoptSeed, Before,
       OthersKept, Files, TreeFiles
  <2>2. /\ s.pc = "adopt" /\ Wrote(u, t, ".kbf-stamp.seed", None)
        /\ \/ Moved(z, s, "bless") /\ t[".kbf-stamp.seed"] = StampWant(s.req)
           \/ z.pc = "nuke" /\ z.next = "source" /\ z.why = s.why /\ SameJob(z, s)
    BY <1>12, PutFacts, GotoFacts, NukeFacts DEF AdoptSeed, At, Before, Files,
       TreeFiles
  <2>3. MountType(t, s) /\ MountInv(t, s)
    BY DEF Before
  <2> HIDE DEF t, s, u, z
  <2>4. MountType(u, z)
    BY <2>2, <2>3 DEF MountType, Moved, SameJob, Locations, Wrote, Files,
       TreeFiles
  <2>5. u[".kbf-stamp"] = None /\ Whole(u, u[".kbf-stamp"])
    BY <2>2, <2>3, NoClaim, ConstantsAssumption DEF MountInv, UntarInv, Wrote,
       Files, TreeFiles
  <2>6. Whole(u, t[".kbf-stamp.seed"])
    BY <2>2, <2>3, WholeKept DEF MountInv, UntarInv, Wrote, WholeFiles, Files,
       TreeFiles, SrcFiles
  <2>7. MountInv(u, z)
    BY <2>2, <2>3, <2>5, <2>6 DEF MountInv, SourceInv, UntarInv, ConfigInv,
       CompileInv, Configuring, Compiling, SameJob, Moved, Wrote, Files,
       TreeFiles
  <2> QED
    BY <2>1, <2>4, <2>7 DEF After, t, s, u, z
<1>13. CASE NeedSource(m)
  <2>1. mount' = mount /\ IsMount' /\ IsStep' /\ OthersKept(m)
    BY <1>13, GotoFacts, KeepFacts DEF NeedSource, KeepsMount, Before,
       OthersKept
  <2>2. /\ s.pc = "source"
        /\ \/ Moved(z, s, "configure") /\ TreePresent(t)
           \/ Moved(z, s, "acquire") /\ ~TreePresent(t)
           \/ Moved(z, s, "extract") /\ ~TreePresent(t) /\ s.src # None
    BY <1>13, GotoFacts DEF NeedSource, At, Before
  <2>3. MountType(t, s) /\ MountInv(t, s)
    BY DEF Before
  <2> HIDE DEF t, s, z
  <2>4. MountType(t, z)
    BY <2>2, <2>3 DEF MountType, Moved, SameJob, Locations, Causes
  <2>5. MountInv(t, z)
    BY <2>2, <2>3 DEF MountInv, SourceInv, UntarInv, ConfigInv, CompileInv,
       Configuring, Compiling, SameJob, Moved
  <2> QED
    BY <2>1, <2>4, <2>5 DEF After, t, s, z
<1>14. CASE Acquire(m)
  <2>1. /\ s.pc = "acquire" /\ MountType(t, s) /\ MountInv(t, s)
        /\ mount' = mount /\ IsMount'
    BY <1>14, KeepFacts DEF Acquire, At, Before, KeepsMount
  <2>2. \/ Goto(m, "download") /\ s.req.kind # "local"
        \/ Acquired(m, "local") /\ s.req.kind = "local"
        \/ Acquired(m, "cached") /\ s.req.kind = "pinned" /\ t[".kbf-src.tar"] = s.req.sum
    BY <1>14 DEF Acquire
  <2>3. CASE Goto(m, "download") /\ s.req.kind # "local"
    <3>1. IsStep' /\ Moved(z, s, "download") /\ OthersKept(m)
      BY <2>1, <2>3, GotoFacts DEF Before, OthersKept
    <3> HIDE DEF t, s, z
    <3>2. MountType(t, z) /\ MountInv(t, z)
      BY <2>1, <2>3, <3>1 DEF MountType, Locations, MountInv, SourceInv,
         UntarInv, ConfigInv, CompileInv, Configuring, Compiling, Moved,
         SameJob
    <3> QED
      BY <2>1, <3>1, <3>2 DEF After, t, s, z
  <2>4. ASSUME NEW src \in {"local", "cached"}, Acquired(m, src),
               src = "local" => s.req.kind = "local",
               src = "cached" => t[".kbf-src.tar"] \in Sources(s.req)
        PROVE  After(m)
    <3>1. /\ IsStep' /\ OthersKept(m)
          /\ GotSource(z, s, t, src)
      BY <2>1, <2>4, AcquiredFacts DEF Before, OthersKept
    <3> HIDE DEF t, s, z
    <3>2. MountType(t, z)
      BY <2>1, <3>1 DEF MountType, Locations, GotSource
    <3>3. MountInv(t, z)
      BY <2>1, <2>4, <3>1, ConstantsAssumption DEF MountInv, SourceInv,
         UntarInv, ConfigInv, CompileInv, Configuring, Compiling, GotSource
    <3> QED
      BY <2>1, <3>1, <3>2, <3>3 DEF After, t, s, z
  <2> QED
    BY <2>2, <2>3, <2>4 DEF Sources
<1>15. CASE Download(m)
  <2>1. IsMount' /\ IsStep' /\ OthersKept(m)
    BY <1>15, PutFacts, GotoFacts DEF Download, Before, OthersKept, Files,
       TreeFiles, SrcFiles
  <2>2. /\ s.pc = "download"
        /\ Wrote(u, t, ".kbf-src.tar.part", Torn)
        /\ Moved(z, s, "receive")
    BY <1>15, PutFacts, GotoFacts DEF Download, At, Before, Files, TreeFiles,
       SrcFiles
  <2>3. MountType(t, s) /\ MountInv(t, s)
    BY DEF Before
  <2> HIDE DEF t, s, u, z
  <2>4. MountType(u, z)
    BY <2>2, <2>3 DEF MountType, Moved, SameJob, Wrote, Locations, Causes,
       Files, TreeFiles
  <2>5. Whole(u, u[".kbf-stamp"]) /\ SourceOf(u) = SourceOf(t)
    BY <2>2, <2>3, WholeKept DEF MountInv, Wrote, WholeFiles, Files,
       TreeFiles, SrcFiles
  <2>6. MountInv(u, z)
    BY <2>2, <2>3, <2>5 DEF MountInv, SourceInv, UntarInv, ConfigInv,
       CompileInv, Configuring, Compiling, SameJob, Moved, Wrote, Files,
       TreeFiles, SrcFiles, TreePresent, Bare
  <2> QED
    BY <2>1, <2>4, <2>6 DEF After, t, s, u, z
<1>16. CASE Receive(m)
  <2>1. IsMount' /\ IsStep' /\ OthersKept(m)
    BY <1>16, PutFacts, GotoFacts DEF Receive, Before, OthersKept, Files,
       TreeFiles, SrcFiles
  <2>2. /\ s.pc = "receive"
        /\ Wrote(u, t, ".kbf-src.tar.part", served[s.req.url])
        /\ Moved(z, s, "verify")
    BY <1>16, PutFacts, GotoFacts DEF Receive, At, Before, Files, TreeFiles,
       SrcFiles
  <2>3. MountType(t, s) /\ MountInv(t, s)
    BY DEF Before
  <2> HIDE DEF t, s, u, z
  <2>4. MountType(u, z)
    BY <2>2, <2>3, ConstantsAssumption DEF MountType, Moved, SameJob, Wrote,
       Locations, Causes, Files, TreeFiles, RequestType
  <2>5. Whole(u, u[".kbf-stamp"]) /\ SourceOf(u) = SourceOf(t)
    BY <2>2, <2>3, WholeKept DEF MountInv, Wrote, WholeFiles, Files,
       TreeFiles, SrcFiles
  <2>6. served[s.req.url] \in Tarballs
    BY <2>2, <2>3, ConstantsAssumption DEF MountType, RequestType
  <2>7. MountInv(u, z)
    BY <2>2, <2>3, <2>5, <2>6 DEF MountInv, SourceInv, UntarInv, ConfigInv,
       CompileInv, Configuring, Compiling, SameJob, Moved, Wrote, Files,
       TreeFiles, SrcFiles, TreePresent, Bare
  <2> QED
    BY <2>1, <2>4, <2>7 DEF After, t, s, u, z
<1>17. CASE Verify(m)
  <2> DEFINE got == t[".kbf-src.tar.part"]
  <2>1. s.pc = "verify" /\ MountType(t, s) /\ MountInv(t, s)
    BY <1>17 DEF Verify, At, Before
  <2>2. \/ /\ Put(m, ".kbf-src.tar.part", None)
           /\ Fail(m, "sha")
        \/ /\ s.req.kind = "pinned" => got = s.req.sum
           /\ mount' = [mount EXCEPT ![m][".kbf-src.tar"] = got,
                                     ![m][".kbf-src.tar.part"] = None]
           /\ Acquired(m, "cached")
    BY <1>17 DEF Verify
  <2>3. CASE Put(m, ".kbf-src.tar.part", None) /\ Fail(m, "sha")
    <3>1. /\ IsMount' /\ IsStep' /\ OthersKept(m)
          /\ Wrote(u, t, ".kbf-src.tar.part", None)
          /\ z.pc = "failed" /\ z.next = s.next /\ z.why = "sha" /\ SameJob(z, s)
      BY <2>3, PutFacts, FailFacts DEF Before, OthersKept, Files
    <3> HIDE DEF t, s, u, z
    <3>2. MountType(u, z)
      BY <2>1, <3>1 DEF MountType, Locations, Causes, SameJob, Wrote, Files,
         TreeFiles
    <3>3. Whole(u, u[".kbf-stamp"])
      BY <2>1, <3>1, WholeKept DEF MountInv, Wrote, WholeFiles, Files,
         TreeFiles, SrcFiles
    <3>4. MountInv(u, z)
      BY <2>1, <3>1, <3>3 DEF MountInv, SourceInv, UntarInv, ConfigInv,
         CompileInv, Configuring, Compiling, SameJob, Wrote, Files
    <3> QED
      BY <3>1, <3>2, <3>4 DEF After, t, s, u, z
  <2>4. CASE /\ s.req.kind = "pinned" => got = s.req.sum
             /\ mount' = [mount EXCEPT ![m][".kbf-src.tar"] = got,
                                       ![m][".kbf-src.tar.part"] = None]
             /\ Acquired(m, "cached")
    <3>1. /\ IsMount' /\ u[".kbf-src.tar"] = got /\ u[".kbf-src.tar.part"] = None
          /\ \A g \in TreeFiles : u[g] = t[g]
          /\ \A n \in Mounts \ {m} : mount'[n] = mount[n]
      <4> DEFINE v == [t EXCEPT ![".kbf-src.tar"] = got, ![".kbf-src.tar.part"] = None]
      <4>1. t = [f \in Files |-> t[f]]
        BY DEF Before, IsMount
      <4>2. mount' = [n \in Mounts |-> IF n = m THEN v ELSE mount[n]]
        BY <2>4 DEF Before, IsMount
      <4>3. /\ v = [f \in Files |-> v[f]]
            /\ v[".kbf-src.tar"] = got /\ v[".kbf-src.tar.part"] = None
            /\ \A g \in TreeFiles : v[g] = t[g]
        BY <4>1 DEF Files, TreeFiles, SrcFiles
      <4> HIDE DEF v
      <4>4. IsMount'
        BY <4>2, <4>3 DEF Before, IsMount
      <4> QED
        BY <4>2, <4>3, <4>4
    <3>2. /\ IsStep' /\ OthersKept(m) /\ GotSource(z, s, t, "cached")
      BY <2>4, <3>1, AcquiredFacts DEF Before, OthersKept
    <3>3. s.req \in Requests /\ got \in Tarballs /\ s.req.kind \in {"pinned", "url"}
      BY <2>1, ConstantsAssumption DEF MountType, MountInv, SourceInv,
         RequestType
    <3>4. got \in Sources(s.req)
      BY <2>4, <3>3 DEF Sources
    <3> HIDE DEF t, s, u, z, got
    <3>5. MountType(u, z)
      BY <2>1, <3>1, <3>2, <3>3 DEF MountType, Locations, GotSource, TreeFiles
    <3>6. Whole(u, u[".kbf-stamp"])
      BY <2>1, <3>1, WholeKept DEF MountInv, WholeFiles, TreeFiles, SrcFiles
    <3>7. MountInv(u, z)
      BY <2>1, <3>1, <3>2, <3>4, <3>6, ConstantsAssumption DEF MountInv,
         SourceInv, UntarInv, ConfigInv, CompileInv, Configuring, Compiling,
         GotSource, TreePresent, Bare, TreeFiles, SrcFiles
    <3> QED
      BY <3>1, <3>2, <3>5, <3>7 DEF After, t, s, u, z
  <2> QED
    BY <2>2, <2>3, <2>4
<1>18. CASE Extract(m)
  <2> DEFINE c == IF s.src = "local" THEN s.req.sum ELSE t[".kbf-src.tar"]
             y == [s EXCEPT !.pc = "untar", !.next = "patch", !.img = TarImage(c),
                            !.todo = SrcFiles]
  <2>1. /\ s.pc = "extract" /\ MountType(t, s) /\ MountInv(t, s)
        /\ mount' = mount /\ IsMount'
    BY <1>18, KeepFacts DEF Extract, At, Before, KeepsMount
  <2>2. c \in Sources(s.req)
    BY <2>1 DEF MountInv, SourceInv, MountType, Sources
  <2>3. c # None
    BY <2>1, <2>2, SourceType, ConstantsAssumption DEF MountType
  <2>4. IsRecord(y) /\ step' = [step EXCEPT ![m] = y]
    <3>1. step' = [step EXCEPT ![m].pc = "untar", ![m].next = "patch",
                               ![m].img = TarImage(c), ![m].todo = SrcFiles]
      BY <1>18, <2>3 DEF Extract
    <3>2. step' = [step EXCEPT ![m] = y]
      BY <3>1
    <3>3. IsRecord(s)
      BY DEF Before, IsStep, IsRecord
    <3>4. IsRecord(y)
      BY <3>3 DEF IsRecord, Fields
    <3> QED
      BY <3>2, <3>4
  <2>5. /\ y.pc = "untar" /\ y.todo = SrcFiles /\ y.next = "patch"
        /\ y.req = s.req /\ y.src = s.src /\ y.why = s.why /\ y.img = TarImage(c)
    BY DEF Before, IsStep, Fields
  <2> HIDE DEF y
  <2>6. IsStep' /\ z = y /\ OthersKept(m)
    BY <2>1, <2>4, StepFacts DEF Before, OthersKept
  <2> HIDE DEF t, s, z, c
  <2>7. MountType(t, y)
    BY <2>1, <2>5 DEF MountType, Locations, TreeFiles
  <2>8. Bare(t)
    BY <2>1 DEF MountInv, SourceInv
  <2>9. \A f \in TreeFiles : t[f] = IF f \in SrcFiles THEN None ELSE TarImage(c)[f]
    BY <2>8 DEF Bare, TarImage
  <2>10. TarImage(c)[".kbf-stamp"] = None
    BY DEF TarImage, TreeFiles, SrcFiles
  <2>11. MountInv(t, y)
    BY <2>1, <2>2, <2>5, <2>9, <2>10 DEF MountInv, SourceInv, UntarInv,
       ConfigInv, CompileInv, Configuring, Compiling
  <2> QED
    BY <2>1, <2>6, <2>7, <2>11 DEF After, t, s, z
<1>19. CASE ApplyPatches(m)
  <2>1. IsMount' /\ IsStep' /\ OthersKept(m)
    BY <1>19, PutFacts, GotoFacts DEF ApplyPatches, Before, OthersKept, Files,
       TreeFiles, SrcFiles
  <2>2. /\ s.pc = "patch"
        /\ Wrote(u, t, "arch", <<t["arch"][1], s.req.patch>>)
        /\ Moved(z, s, "bless")
    BY <1>19, PutFacts, GotoFacts DEF ApplyPatches, At, Before, Files,
       TreeFiles, SrcFiles
  <2>3. MountType(t, s) /\ MountInv(t, s)
    BY DEF Before
  <2> HIDE DEF t, s, u, z
  <2>4. MountType(u, z)
    BY <2>2, <2>3 DEF MountType, Moved, SameJob, Wrote, Locations, Causes,
       Files, TreeFiles
  <2>5. PICK c \in Sources(s.req) : \A f \in TreeFiles : t[f] = TarImage(c)[f]
    BY <2>2, <2>3 DEF MountInv, UntarInv
  <2>6. Whole(u, u[".kbf-stamp"]) /\ u[".kbf-stamp"] = None
    BY <2>2, <2>5, NoClaim, ConstantsAssumption DEF Wrote, TarImage, Files,
       TreeFiles, SrcFiles
  <2>7. SourceOf(u) = Extracted(c, s.req.patch)
    BY <2>2, <2>5 DEF SourceOf, Extracted, Wrote, TarImage, Files, TreeFiles,
       SrcFiles
  <2>8. \A f \in {".config", ".kbf-config-src", "kernel.o", "vmlinux"} : u[f] = None
    BY <2>2, <2>5 DEF Wrote, TarImage, Files, TreeFiles, SrcFiles
  <2>9. s.req \in Requests
    BY <2>2, <2>3 DEF MountType
  <2>10. Whole(u, StampWant(s.req))
    BY <2>5, <2>7, <2>8, <2>9, FreshWhole
  <2>11. MountInv(u, z)
    BY <2>2, <2>3, <2>5, <2>6, <2>7, <2>8, <2>9, <2>10 DEF MountInv,
       SourceInv, UntarInv, ConfigInv, CompileInv, Configuring, Compiling,
       SameJob, Moved, Wrote, Files, TreeFiles, SrcFiles
  <2> QED
    BY <2>1, <2>4, <2>11 DEF After, t, s, u, z
<1>20. CASE Bless(m)
  <2>1. IsMount' /\ IsStep' /\ OthersKept(m)
    BY <1>20, PutFacts, GotoFacts DEF Bless, Before, OthersKept, Files,
       TreeFiles, SrcFiles
  <2>2. /\ s.pc = "bless"
        /\ Wrote(u, t, ".kbf-stamp", Torn)
        /\ Moved(z, s, "stamped")
    BY <1>20, PutFacts, GotoFacts DEF Bless, At, Before, Files, TreeFiles,
       SrcFiles
  <2>3. MountType(t, s) /\ MountInv(t, s)
    BY DEF Before
  <2> HIDE DEF t, s, u, z
  <2>4. MountType(u, z)
    BY <2>2, <2>3 DEF MountType, Moved, SameJob, Wrote, Locations, Causes,
       Files, TreeFiles
  <2>5. Whole(u, u[".kbf-stamp"])
    BY <2>2, NoClaim, ConstantsAssumption DEF Wrote
  <2>6. Whole(u, StampWant(s.req))
    BY <2>2, <2>3, WholeKept DEF MountInv, UntarInv, Wrote, WholeFiles, Files,
       TreeFiles, SrcFiles
  <2>7. MountInv(u, z)
    BY <2>2, <2>3, <2>5, <2>6 DEF MountInv, SourceInv, UntarInv, ConfigInv,
       CompileInv, Configuring, Compiling, SameJob, Moved, Wrote, Files,
       TreeFiles, SrcFiles
  <2> QED
    BY <2>1, <2>4, <2>7 DEF After, t, s, u, z
<1>21. CASE Stamped(m)
  <2>1. IsMount' /\ IsStep' /\ OthersKept(m)
    BY <1>21, PutFacts, GotoFacts DEF Stamped, Before, OthersKept, Files,
       TreeFiles, SrcFiles
  <2>2. /\ s.pc = "stamped"
        /\ Wrote(u, t, ".kbf-stamp", StampWant(s.req))
        /\ Moved(z, s, "source")
    BY <1>21, PutFacts, GotoFacts DEF Stamped, At, Before, Files, TreeFiles,
       SrcFiles
  <2>3. MountType(t, s) /\ MountInv(t, s)
    BY DEF Before
  <2> HIDE DEF t, s, u, z
  <2>4. MountType(u, z)
    BY <2>2, <2>3 DEF MountType, Moved, SameJob, Wrote, Locations, Causes,
       Files, TreeFiles, Stamps
  <2>5. Whole(u, u[".kbf-stamp"])
    BY <2>2, <2>3, WholeKept DEF MountInv, UntarInv, Wrote, WholeFiles, Files,
       TreeFiles, SrcFiles
  <2>6. s.req \in Requests
    BY <2>2, <2>3 DEF MountType
  <2>7. TreePresent(u)
    BY <2>2, <2>5, <2>6, CleanPresent DEF Whole, Wrote
  <2>8. MountInv(u, z)
    BY <2>2, <2>3, <2>5, <2>6, <2>7 DEF MountInv, SourceInv, UntarInv,
       ConfigInv, CompileInv, Configuring, Compiling, SameJob, Moved, Wrote,
       Files, TreeFiles, SrcFiles
  <2> QED
    BY <2>1, <2>4, <2>8 DEF After, t, s, u, z
<1> QED
  BY <1>1, <1>2, <1>3, <1>4, <1>5, <1>6, <1>7, <1>8, <1>9, <1>10, <1>11,
     <1>12, <1>13, <1>14, <1>15, <1>16, <1>17, <1>18, <1>19, <1>20, <1>21 DEF
     Prepare

\* configure, from the comparison with the marker to the new marker, does.
LEMMA ConfigureKeeps ==
    ASSUME NEW m \in Mounts, Before(m), Configure(m)
    PROVE  After(m)
<1> DEFINE t == mount[m]
           s == step[m]
           u == mount'[m]
           z == step'[m]
<1>1. CASE CompareConfig(m)
  <2>1. mount' = mount /\ IsMount' /\ IsStep' /\ OthersKept(m)
    BY <1>1, GotoFacts, KeepFacts DEF CompareConfig, KeepsMount, Before,
       OthersKept
  <2>2. /\ s.pc = "configure"
        /\ \/ Moved(z, s, "expect") /\ t[".kbf-config-src"] = CfgId(s.req)
           \/ Moved(z, s, "unmark")
    BY <1>1, GotoFacts DEF CompareConfig, At, Before
  <2>3. MountType(t, s) /\ MountInv(t, s)
    BY DEF Before
  <2> HIDE DEF t, s, z
  <2>4. MountType(t, z)
    BY <2>2, <2>3 DEF MountType, Moved, SameJob, Locations, Causes
  <2>5. MountInv(t, z)
    BY <2>2, <2>3 DEF MountInv, SourceInv, UntarInv, ConfigInv, CompileInv,
       Configuring, Compiling, SameJob, Moved
  <2> QED
    BY <2>1, <2>4, <2>5 DEF After, t, s, z
<1>2. CASE Unmark(m)
  <2>1. IsMount' /\ IsStep' /\ OthersKept(m)
    BY <1>2, PutFacts, GotoFacts DEF Unmark, Before, OthersKept, Files,
       TreeFiles, SrcFiles
  <2>2. /\ s.pc = "unmark" /\ Wrote(u, t, ".kbf-config-src", None)
        /\ \/ Moved(z, s, "write") /\ s.req.base = None
           \/ Moved(z, s, "base") /\ s.req.base # None
    BY <1>2, PutFacts, GotoFacts DEF Unmark, At, Before, Files, TreeFiles,
       SrcFiles
  <2>3. MountType(t, s) /\ MountInv(t, s)
    BY DEF Before
  <2> HIDE DEF t, s, u, z
  <2>4. MountType(u, z)
    BY <2>2, <2>3 DEF MountType, Moved, SameJob, Locations, Causes, Wrote,
       Files, TreeFiles, SrcFiles
  <2>5. SourceOf(u) = SourceOf(t) /\ Objects(u) = Objects(t)
    BY <2>2 DEF SourceOf, Objects, Wrote, Files, TreeFiles, SrcFiles
  <2>6. Whole(u, u[".kbf-stamp"])
    BY <2>2, <2>3, <2>5, ConstantsAssumption DEF MountInv, Whole, Clean,
       CfgIds, Wrote, Files, TreeFiles
  <2>7. MountInv(u, z)
    BY <2>2, <2>3, <2>5, <2>6 DEF MountInv, SourceInv, UntarInv, ConfigInv,
       CompileInv, Configuring, Compiling, SameJob, Moved, Wrote, Files,
       TreeFiles, SrcFiles
  <2> QED
    BY <2>1, <2>4, <2>7 DEF After, t, s, u, z
<1>3. CASE BaseMake(m)
  <2>1. IsMount' /\ IsStep' /\ OthersKept(m)
    BY <1>3, PutFacts, GotoFacts DEF BaseMake, Before, OthersKept, Files,
       TreeFiles, SrcFiles
  <2>2. /\ s.pc = "base" /\ Moved(z, s, "append")
        /\ \E v : Wrote(u, t, ".config", v) /\ (s.req.base \notin MergeBases => v = Raw({s.req.base}))
    BY <1>3, PutFacts, GotoFacts DEF BaseMake, At, Before, Files, TreeFiles,
       SrcFiles
  <2>3. MountType(t, s) /\ MountInv(t, s)
    BY DEF Before
  <2>11. \E layers \in SUBSET Layers : Wrote(u, t, ".config", Raw(layers))
    <3> DEFINE kept == IF s.req.base \in MergeBases /\ Readable(t)
                       THEN t[".config"].layers ELSE {}
    <3>1. Wrote(u, t, ".config", Raw(kept \union {s.req.base}))
      BY <1>3, PutFacts DEF BaseMake, Before, Files, TreeFiles, SrcFiles
    <3>2. s.req \in Requests /\ s.req.base # None /\ t[".kbf-stamp"] = StampWant(s.req)
      BY <2>2, <2>3 DEF MountType, MountInv, ConfigInv, Configuring
    <3>3. s.req.base \in Layers
      BY <3>2, ConstantsAssumption DEF RequestType
    <3>4. Readable(t) => t[".config"].layers \subseteq Layers
      BY <2>3, <3>2, ConfigLayers DEF MountInv, Whole, Readable
    <3> HIDE DEF t, s, u
    <3>5. kept \union {s.req.base} \in SUBSET Layers
      BY <3>3, <3>4
    <3> QED
      BY <3>1, <3>5
  <2> HIDE DEF t, s, u, z
  <2>4. MountType(u, z)
    BY <2>2, <2>3 DEF MountType, Moved, SameJob, Locations, Causes, Wrote,
       Files, TreeFiles, SrcFiles
  <2>5. SourceOf(u) = SourceOf(t) /\ Objects(u) = Objects(t)
    BY <2>2 DEF SourceOf, Objects, Wrote, Files, TreeFiles, SrcFiles
  <2>6. u[".kbf-config-src"] \notin CfgIds
    BY <2>2, <2>3, ConstantsAssumption DEF MountInv, ConfigInv, Configuring,
       Wrote, Files, TreeFiles
  <2>12. u[".config"] \in Configs
    BY <2>11 DEF Wrote, Configs
  <2>7. Whole(u, u[".kbf-stamp"])
    BY <2>2, <2>3, <2>5, <2>6, <2>12 DEF MountInv, Whole, Clean, CfgIds, Wrote,
       Files, TreeFiles
  <2>8. NoMergeBase => u[".config"] = Raw({s.req.base})
    BY <2>2, <2>3 DEF NoMergeBase, MountType, Wrote
  <2>9. MountInv(u, z)
    BY <2>2, <2>3, <2>5, <2>6, <2>12, <2>7, <2>8 DEF MountInv, SourceInv, UntarInv,
       ConfigInv, CompileInv, Configuring, Compiling, SameJob, Moved, Wrote,
       Files, TreeFiles, SrcFiles
  <2> QED
    BY <2>1, <2>4, <2>9 DEF After, t, s, u, z
<1>4. CASE AppendFragment(m)
  <2>1. IsMount' /\ IsStep' /\ OthersKept(m)
    BY <1>4, PutFacts, GotoFacts DEF AppendFragment, Before, OthersKept,
       Files, TreeFiles, SrcFiles
  <2>2. /\ s.pc = "append"
        /\ Wrote(u, t, ".config", Raw(t[".config"].layers \union {s.req.frag}))
        /\ Moved(z, s, "olddefconfig")
    BY <1>4, PutFacts, GotoFacts DEF AppendFragment, At, Before, Files,
       TreeFiles, SrcFiles
  <2>3. MountType(t, s) /\ MountInv(t, s)
    BY DEF Before
  <2> HIDE DEF t, s, u, z
  <2>4. MountType(u, z)
    BY <2>2, <2>3 DEF MountType, Moved, SameJob, Wrote, Locations, Causes,
       Files, TreeFiles
  <2>5. SourceOf(u) = SourceOf(t) /\ Objects(u) = Objects(t)
    BY <2>2 DEF SourceOf, Objects, Wrote, Files, TreeFiles, SrcFiles
  <2>6. u[".kbf-config-src"] \notin CfgIds
    BY <2>2, <2>3, ConstantsAssumption DEF MountInv, ConfigInv, Configuring,
       Wrote, Files, TreeFiles
  <2>12. u[".config"] \in Configs
    <3>1. t[".config"].layers \subseteq Layers
      BY <2>2, <2>3, ConfigLayers DEF MountInv, ConfigInv
    <3>2. s.req.frag \in Layers \union {None}
      BY <2>2, <2>3, ConstantsAssumption DEF MountType, RequestType
    <3> QED
      BY <2>2, <3>1, <3>2, RawConfig DEF Wrote
  <2>7. Whole(u, u[".kbf-stamp"])
    BY <2>2, <2>3, <2>5, <2>6, <2>12 DEF MountInv, Whole, Clean, CfgIds, Wrote,
       Files, TreeFiles
  <2>8. NoMergeBase => t[".config"].layers = {s.req.base} \ {None}
    BY <2>2, <2>3 DEF MountInv, ConfigInv, Raw
  <2>9. NoMergeBase => u[".config"] = Raw(Asked(s.req))
    BY <2>2, <2>8 DEF Wrote, Raw, Asked
  <2>10. MountInv(u, z)
    BY <2>2, <2>3, <2>5, <2>6, <2>12, <2>7, <2>8, <2>9 DEF MountInv, SourceInv,
       UntarInv, ConfigInv, CompileInv, Configuring, Compiling, SameJob,
       Moved, Wrote, Files, TreeFiles, SrcFiles
  <2> QED
    BY <2>1, <2>4, <2>10 DEF After, t, s, u, z
<1>5. CASE TruncateConfig(m)
  <2>1. IsMount' /\ IsStep' /\ OthersKept(m)
    BY <1>5, PutFacts, GotoFacts DEF TruncateConfig, Before, OthersKept,
       Files, TreeFiles, SrcFiles
  <2>2. /\ s.pc = "write"
        /\ Wrote(u, t, ".config", Torn)
        /\ Moved(z, s, "written")
    BY <1>5, PutFacts, GotoFacts DEF TruncateConfig, At, Before, Files,
       TreeFiles, SrcFiles
  <2>3. MountType(t, s) /\ MountInv(t, s)
    BY DEF Before
  <2> HIDE DEF t, s, u, z
  <2>4. MountType(u, z)
    BY <2>2, <2>3 DEF MountType, Moved, SameJob, Wrote, Locations, Causes,
       Files, TreeFiles
  <2>5. SourceOf(u) = SourceOf(t) /\ Objects(u) = Objects(t)
    BY <2>2 DEF SourceOf, Objects, Wrote, Files, TreeFiles, SrcFiles
  <2>6. u[".kbf-config-src"] \notin CfgIds
    BY <2>2, <2>3, ConstantsAssumption DEF MountInv, ConfigInv, Configuring,
       Wrote, Files, TreeFiles
  <2>12. u[".config"] = Torn
    BY <2>2 DEF Wrote
  <2>7. Whole(u, u[".kbf-stamp"])
    BY <2>2, <2>3, <2>5, <2>6, <2>12 DEF MountInv, Whole, Clean, CfgIds, Wrote,
       Files, TreeFiles
  <2>8. MountInv(u, z)
    BY <2>2, <2>3, <2>5, <2>6, <2>12, <2>7 DEF MountInv, SourceInv, UntarInv,
       ConfigInv, CompileInv, Configuring, Compiling, SameJob, Moved, Wrote,
       Files, TreeFiles, SrcFiles
  <2> QED
    BY <2>1, <2>4, <2>8 DEF After, t, s, u, z
<1>6. CASE WriteConfig(m)
  <2>1. IsMount' /\ IsStep' /\ OthersKept(m)
    BY <1>6, PutFacts, GotoFacts DEF WriteConfig, Before, OthersKept, Files,
       TreeFiles, SrcFiles
  <2>2. /\ s.pc = "written"
        /\ Wrote(u, t, ".config", Raw({s.req.frag}))
        /\ Moved(z, s, "olddefconfig")
    BY <1>6, PutFacts, GotoFacts DEF WriteConfig, At, Before, Files,
       TreeFiles, SrcFiles
  <2>3. MountType(t, s) /\ MountInv(t, s)
    BY DEF Before
  <2> HIDE DEF t, s, u, z
  <2>4. MountType(u, z)
    BY <2>2, <2>3 DEF MountType, Moved, SameJob, Wrote, Locations, Causes,
       Files, TreeFiles
  <2>5. SourceOf(u) = SourceOf(t) /\ Objects(u) = Objects(t)
    BY <2>2 DEF SourceOf, Objects, Wrote, Files, TreeFiles, SrcFiles
  <2>6. u[".kbf-config-src"] \notin CfgIds
    BY <2>2, <2>3, ConstantsAssumption DEF MountInv, ConfigInv, Configuring,
       Wrote, Files, TreeFiles
  <2>12. u[".config"] \in Configs
    <3>1. s.req.frag \in Layers \union {None}
      BY <2>2, <2>3, ConstantsAssumption DEF MountType, RequestType
    <3> QED
      BY <2>2, <3>1, RawConfig DEF Wrote
  <2>7. Whole(u, u[".kbf-stamp"])
    BY <2>2, <2>3, <2>5, <2>6, <2>12 DEF MountInv, Whole, Clean, CfgIds, Wrote,
       Files, TreeFiles
  <2>8. MountInv(u, z)
    BY <2>2, <2>3, <2>5, <2>6, <2>12, <2>7 DEF MountInv, SourceInv, UntarInv,
       ConfigInv, CompileInv, Configuring, Compiling, SameJob, Moved, Wrote,
       Files, TreeFiles, SrcFiles, Raw, Asked
  <2> QED
    BY <2>1, <2>4, <2>8 DEF After, t, s, u, z
<1>7. CASE Olddefconfig(m)
  <2>1. IsMount' /\ IsStep' /\ OthersKept(m)
    BY <1>7, PutFacts, GotoFacts DEF Olddefconfig, Before, OthersKept, Files,
       TreeFiles, SrcFiles
  <2>2. /\ s.pc = "olddefconfig"
        /\ Wrote(u, t, ".config", Resolved(t[".config"].layers, SourceOf(t)))
        /\ Moved(z, s, "mark")
    BY <1>7, PutFacts, GotoFacts DEF Olddefconfig, At, Before, Files,
       TreeFiles, SrcFiles
  <2>3. MountType(t, s) /\ MountInv(t, s)
    BY DEF Before
  <2> HIDE DEF t, s, u, z
  <2>4. MountType(u, z)
    BY <2>2, <2>3 DEF MountType, Moved, SameJob, Wrote, Locations, Causes,
       Files, TreeFiles
  <2>5. SourceOf(u) = SourceOf(t) /\ Objects(u) = Objects(t)
    BY <2>2 DEF SourceOf, Objects, Wrote, Files, TreeFiles, SrcFiles
  <2>6. u[".kbf-config-src"] \notin CfgIds
    BY <2>2, <2>3, ConstantsAssumption DEF MountInv, ConfigInv, Configuring,
       Wrote, Files, TreeFiles
  <2>12. u[".config"] \in Configs
    <3>1. t[".config"].layers \subseteq Layers
      BY <2>2, <2>3, ConfigLayers DEF MountInv, ConfigInv
    <3>2. s.req \in Requests /\ t[".kbf-stamp"] = StampWant(s.req)
      BY <2>2, <2>3 DEF MountType, MountInv, ConfigInv, Configuring
    <3>3. SourceOf(t) \in Generations
      BY <2>3, <3>2, CleanSource DEF MountInv, Whole
    <3> QED
      BY <2>2, <3>1, <3>3 DEF Wrote, Configs
  <2>7. Whole(u, u[".kbf-stamp"])
    BY <2>2, <2>3, <2>5, <2>6, <2>12 DEF MountInv, Whole, Clean, CfgIds, Wrote,
       Files, TreeFiles
  <2>8. NoMergeBase => t[".config"].layers = Asked(s.req)
    BY <2>2, <2>3 DEF MountInv, ConfigInv, Raw, Asked
  <2>9. NoMergeBase => u[".config"] = Resolved(Asked(s.req), SourceOf(u))
    BY <2>2, <2>5, <2>8 DEF Wrote
  <2>10. MountInv(u, z)
    BY <2>2, <2>3, <2>5, <2>6, <2>12, <2>7, <2>8, <2>9 DEF MountInv, SourceInv,
       UntarInv, ConfigInv, CompileInv, Configuring, Compiling, SameJob,
       Moved, Wrote, Files, TreeFiles, SrcFiles
  <2> QED
    BY <2>1, <2>4, <2>10 DEF After, t, s, u, z
<1>8. CASE Mark(m)
  <2>1. IsMount' /\ IsStep' /\ OthersKept(m)
    BY <1>8, PutFacts, GotoFacts DEF Mark, Before, OthersKept, Files,
       TreeFiles, SrcFiles
  <2>2. /\ s.pc = "mark"
        /\ Wrote(u, t, ".kbf-config-src", Torn)
        /\ Moved(z, s, "marked")
    BY <1>8, PutFacts, GotoFacts DEF Mark, At, Before, Files, TreeFiles,
       SrcFiles
  <2>3. MountType(t, s) /\ MountInv(t, s)
    BY DEF Before
  <2> HIDE DEF t, s, u, z
  <2>4. MountType(u, z)
    BY <2>2, <2>3 DEF MountType, Moved, SameJob, Wrote, Locations, Causes,
       Files, TreeFiles
  <2>5. SourceOf(u) = SourceOf(t) /\ Objects(u) = Objects(t)
    BY <2>2 DEF SourceOf, Objects, Wrote, Files, TreeFiles, SrcFiles
  <2>6. u[".kbf-config-src"] \notin CfgIds
    BY <2>2, ConstantsAssumption DEF Wrote
  <2>7. Whole(u, u[".kbf-stamp"])
    BY <2>2, <2>3, <2>5, <2>6 DEF MountInv, Whole, Clean, CfgIds, Wrote,
       Files, TreeFiles
  <2>8. MountInv(u, z)
    BY <2>2, <2>3, <2>5, <2>6, <2>7 DEF MountInv, SourceInv, UntarInv,
       ConfigInv, CompileInv, Configuring, Compiling, SameJob, Moved, Wrote,
       Files, TreeFiles, SrcFiles
  <2> QED
    BY <2>1, <2>4, <2>8 DEF After, t, s, u, z
<1>9. CASE Marked(m)
  <2>1. IsMount' /\ IsStep' /\ OthersKept(m)
    BY <1>9, PutFacts, GotoFacts DEF Marked, Before, OthersKept, Files,
       TreeFiles, SrcFiles
  <2>2. /\ s.pc = "marked"
        /\ Wrote(u, t, ".kbf-config-src", CfgId(s.req))
        /\ Moved(z, s, "expect")
    BY <1>9, PutFacts, GotoFacts DEF Marked, At, Before, Files, TreeFiles,
       SrcFiles
  <2>3. MountType(t, s) /\ MountInv(t, s)
    BY DEF Before
  <2> HIDE DEF t, s, u, z
  <2>4. MountType(u, z)
    BY <2>2, <2>3 DEF MountType, Moved, SameJob, Wrote, Locations, Causes,
       Files, TreeFiles
  <2>5. SourceOf(u) = SourceOf(t) /\ Objects(u) = Objects(t)
    BY <2>2 DEF SourceOf, Objects, Wrote, Files, TreeFiles, SrcFiles
  <2>6. NoMergeBase => \A q \in Requests : CfgId(s.req) = CfgId(q) => Configured(u, q)
    BY <2>2, <2>3, <2>5 DEF MountInv, ConfigInv, Configured, Asked, CfgId,
       Wrote, Files, TreeFiles
  <2>7. Whole(u, u[".kbf-stamp"])
    BY <2>2, <2>3, <2>5, <2>6 DEF MountInv, Whole, Clean, Wrote, Files,
       TreeFiles
  <2>8. MountInv(u, z)
    BY <2>2, <2>3, <2>5, <2>6, <2>7 DEF MountInv, SourceInv, UntarInv,
       ConfigInv, CompileInv, Configuring, Compiling, SameJob, Moved, Wrote,
       Files, TreeFiles, SrcFiles
  <2> QED
    BY <2>1, <2>4, <2>8 DEF After, t, s, u, z
<1> QED
  BY <1>1, <1>2, <1>3, <1>4, <1>5, <1>6, <1>7, <1>8, <1>9 DEF Configure

\* So does the rest of run, from the expectation gate to the seed push.
LEMMA CompileKeeps ==
    ASSUME NEW m \in Mounts, Before(m), Compile(m)
    PROVE  After(m)
<1> DEFINE t == mount[m]
           s == step[m]
           u == mount'[m]
           z == step'[m]
<1>1. CASE ValidateExpectations(m)
  <2>1. mount' = mount /\ IsMount' /\ IsStep' /\ OthersKept(m)
    BY <1>1, GotoFacts, FailFacts, KeepFacts DEF ValidateExpectations,
       KeepsMount, Before, OthersKept
  <2>2. /\ s.pc = "expect"
        /\ \/ Moved(z, s, "version")
           \/ /\ z.pc = "failed" /\ z.next = s.next /\ z.why \in {"expect", "config"}
              /\ SameJob(z, s)
    BY <1>1, GotoFacts, FailFacts DEF ValidateExpectations, At, Before
  <2>3. MountType(t, s) /\ MountInv(t, s)
    BY DEF Before
  <2> HIDE DEF t, s, z
  <2>4. MountType(t, z)
    BY <2>2, <2>3 DEF MountType, Moved, SameJob, Locations, Causes
  <2>5. MountInv(t, z)
    BY <2>2, <2>3 DEF MountInv, SourceInv, UntarInv, ConfigInv, CompileInv,
       Configuring, Compiling, SameJob, Moved
  <2> QED
    BY <2>1, <2>4, <2>5 DEF After, t, s, z
<1>2. CASE ResetVersion(m)
  <2>1. IsMount' /\ IsStep' /\ OthersKept(m)
    BY <1>2, PutFacts, GotoFacts, FailFacts DEF ResetVersion, Before,
       OthersKept, Files, TreeFiles, SrcFiles
  <2>2. /\ s.pc = "version" /\ Wrote(u, t, ".version", None)
        /\ \/ Moved(z, s, "make")
           \/ Moved(z, s, "copy") /\ ~Makes(s.req)
           \/ /\ z.pc = "failed" /\ z.next = s.next /\ z.why \in {"modules", "config"}
              /\ SameJob(z, s)
    BY <1>2, PutFacts, GotoFacts, FailFacts DEF ResetVersion, At, Before,
       Files, TreeFiles, SrcFiles
  <2>3. MountType(t, s) /\ MountInv(t, s)
    BY DEF Before
  <2> HIDE DEF t, s, u, z
  <2>4. MountType(u, z)
    BY <2>2, <2>3 DEF MountType, Moved, SameJob, Locations, Causes, Wrote,
       Files, TreeFiles, SrcFiles
  <2>5. Whole(u, u[".kbf-stamp"]) /\ SourceOf(u) = SourceOf(t)
    BY <2>2, <2>3, WholeKept DEF MountInv, Wrote, WholeFiles, Files,
       TreeFiles, SrcFiles
  <2>6. MountInv(u, z)
    BY <2>2, <2>3, <2>5 DEF MountInv, SourceInv, UntarInv, ConfigInv,
       CompileInv, Configuring, Compiling, SameJob, Moved, Wrote, Files,
       TreeFiles, SrcFiles
  <2> QED
    BY <2>1, <2>4, <2>6 DEF After, t, s, u, z
<1>3. CASE Make(m)
  <2>1. IsMount' /\ IsStep' /\ OthersKept(m)
    BY <1>3, PutFacts, GotoFacts, FailFacts, KeepFacts DEF Make, Before,
       OthersKept, Files, TreeFiles, SrcFiles
  <2>2. /\ s.pc = "make"
        /\ \/ /\ Readable(t) /\ Moved(z, s, "link")
              /\ Wrote(u, t, "kernel.o", Objects(t) \union {SourceOf(t)})
           \/ /\ u = t /\ SameJob(z, s)
              /\ z.pc = "failed" /\ z.next = s.next /\ z.why = "config"
    BY <1>3, PutFacts, GotoFacts, FailFacts DEF Make, At, Before, Files,
       TreeFiles, SrcFiles
  <2>3. MountType(t, s) /\ MountInv(t, s)
    BY DEF Before
  <2> HIDE DEF t, s, u, z
  <2>4. MountType(u, z)
    BY <2>2, <2>3 DEF MountType, Moved, SameJob, Locations, Causes, Wrote,
       Files, TreeFiles, SrcFiles
  <2>5. s.req \in Requests /\ t[".kbf-stamp"] = StampWant(s.req)
    BY <2>2, <2>3 DEF MountType, MountInv, ConfigInv, Compiling
  <2>6. Objects(t) \subseteq {SourceOf(t)}
    BY <2>3, <2>5 DEF MountInv, Whole
  <2>7. CASE Readable(t) /\ Moved(z, s, "link")
             /\ Wrote(u, t, "kernel.o", Objects(t) \union {SourceOf(t)})
    <3>1. u["kernel.o"] = {SourceOf(t)}
      BY <2>6, <2>7 DEF Wrote
    <3>2. SourceOf(u) = SourceOf(t)
      BY <2>7 DEF SourceOf, Wrote, Files, TreeFiles, SrcFiles
    <3>3. Objects(u) \subseteq {SourceOf(u)}
      BY <3>1, <3>2 DEF Objects
    <3>4. Whole(u, u[".kbf-stamp"])
      BY <2>3, <2>7, <3>2, <3>3 DEF MountInv, Whole, Clean, Configured, Wrote,
         Files, TreeFiles
    <3>5. Readable(u)
      BY <2>7 DEF Readable, Wrote, Files, TreeFiles
    <3> QED
      BY <2>1, <2>2, <2>3, <2>4, <2>7, <3>1, <3>2, <3>4, <3>5 DEF After, t, s,
         u, z, MountInv, SourceInv, UntarInv, ConfigInv, CompileInv,
         Configuring, Compiling, SameJob, Moved, Wrote, Files, TreeFiles,
         SrcFiles
  <2>8. CASE u = t /\ SameJob(z, s) /\ z.pc = "failed"
    BY <2>1, <2>3, <2>4, <2>8 DEF After, t, s, u, z, MountInv, SourceInv,
       UntarInv, ConfigInv, CompileInv, Configuring, Compiling, SameJob
  <2> QED
    BY <2>2, <2>7, <2>8
<1>4. CASE Link(m)
  <2>1. IsMount' /\ IsStep' /\ OthersKept(m)
    BY <1>4, PutFacts, GotoFacts, KeepFacts DEF Link, Before, OthersKept,
       Files, TreeFiles, SrcFiles
  <2>2. /\ s.pc = "link" /\ t[".version"] = None
        /\ \/ Current(t) /\ u = t /\ Moved(z, s, "copy")
           \/ Wrote(u, t, ".version", 1) /\ Moved(z, s, "linked")
    BY <1>4, PutFacts, GotoFacts DEF Link, At, Before, MountInv, CompileInv,
       Files, TreeFiles, SrcFiles
  <2>3. MountType(t, s) /\ MountInv(t, s)
    BY DEF Before
  <2> HIDE DEF t, s, u, z
  <2>4. MountType(u, z)
    BY <2>2, <2>3 DEF MountType, Moved, SameJob, Locations, Causes, Wrote,
       Files, TreeFiles, SrcFiles
  <2>5. s.req \in Requests /\ t[".kbf-stamp"] = StampWant(s.req)
    BY <2>2, <2>3 DEF MountType, MountInv, ConfigInv, Compiling
  <2>6. CASE Current(t) /\ u = t /\ Moved(z, s, "copy")
    <3>1. /\ t["vmlinux"] = [objs |-> t["vmlinux"].objs,
                             config |-> t["vmlinux"].config, link |-> 1]
      BY <2>3, <2>5, <2>6 DEF MountInv, Whole, Current
    <3>2. Readable(t) /\ t["kernel.o"] = {SourceOf(t)}
      BY <2>2, <2>3 DEF MountInv, CompileInv
    <3>3. t["vmlinux"] = [objs |-> {SourceOf(t)}, config |-> t[".config"], link |-> 1]
      BY <2>6, <3>1, <3>2 DEF Current
    <3> QED
      BY <2>1, <2>2, <2>3, <2>4, <2>6, <3>2, <3>3 DEF After, t, s, u, z,
         MountInv, SourceInv, UntarInv, ConfigInv, CompileInv, Configuring,
         Compiling, SameJob, Moved
  <2>7. CASE Wrote(u, t, ".version", 1) /\ Moved(z, s, "linked")
    <3>1. Whole(u, u[".kbf-stamp"]) /\ SourceOf(u) = SourceOf(t)
      BY <2>3, <2>7, WholeKept DEF MountInv, Wrote, WholeFiles, Files,
         TreeFiles, SrcFiles
    <3>2. Readable(u) /\ u["kernel.o"] = {SourceOf(u)}
      BY <2>2, <2>3, <2>7, <3>1 DEF MountInv, CompileInv, Readable, Wrote,
         Files, TreeFiles
    <3> QED
      BY <2>1, <2>2, <2>3, <2>4, <2>7, <3>1, <3>2 DEF After, t, s, u, z,
         MountInv, SourceInv, UntarInv, ConfigInv, CompileInv, Configuring,
         Compiling, SameJob, Moved, Wrote, Files, TreeFiles, SrcFiles
  <2> QED
    BY <2>2, <2>6, <2>7
<1>5. CASE Linked(m)
  <2> DEFINE image == [objs |-> t["kernel.o"], config |-> t[".config"],
                       link |-> t[".version"]]
  <2>1. IsMount' /\ IsStep' /\ OthersKept(m)
    BY <1>5, PutFacts, GotoFacts DEF Linked, Before, OthersKept, Files,
       TreeFiles
  <2>2. s.pc = "linked" /\ Wrote(u, t, "vmlinux", image) /\ Moved(z, s, "copy")
    BY <1>5, PutFacts, GotoFacts DEF Linked, At, Before, Files, TreeFiles
  <2>3. MountType(t, s) /\ MountInv(t, s)
    BY DEF Before
  <2>4. /\ t[".version"] = 1 /\ Readable(t) /\ t["kernel.o"] = {SourceOf(t)}
    BY <2>2, <2>3 DEF MountInv, CompileInv
  <2>5. image = [objs |-> {SourceOf(t)}, config |-> t[".config"], link |-> 1]
    BY <2>4
  <2> HIDE DEF t, s, u, z, image
  <2>6. MountType(u, z)
    BY <2>2, <2>3 DEF MountType, Moved, SameJob, Locations, Causes, Wrote,
       Files, TreeFiles, SrcFiles
  <2>7. /\ SourceOf(u) = SourceOf(t) /\ Objects(u) = Objects(t)
        /\ Readable(u) /\ u["kernel.o"] = {SourceOf(u)}
    BY <2>2, <2>4 DEF SourceOf, Objects, Readable, Wrote, Files, TreeFiles,
       SrcFiles
  <2>8. u["vmlinux"] = [objs |-> {SourceOf(u)}, config |-> u[".config"], link |-> 1]
    BY <2>2, <2>5, <2>7 DEF Wrote, Files, TreeFiles
  <2>9. Whole(u, u[".kbf-stamp"])
    BY <2>2, <2>3, <2>7, <2>8 DEF MountInv, Whole, Clean, Configured, Wrote,
       Files, TreeFiles
  <2>10. MountInv(u, z)
    BY <2>2, <2>3, <2>7, <2>8, <2>9 DEF MountInv, SourceInv, UntarInv,
       ConfigInv, CompileInv, Configuring, Compiling, SameJob, Moved, Wrote,
       Files, TreeFiles, SrcFiles
  <2> QED
    BY <2>1, <2>6, <2>10 DEF After, t, s, u, z
<1>6. CASE CopyArtifacts(m)
  <2> DEFINE y == [s EXCEPT !.out = Artifacts(t, s.req.targets),
                            !.pc = IF Seeded(s.req) /\ s.req.cfgPush
                                   THEN "pack" ELSE "done"]
             refused == "config" \in s.req.targets /\ ~Readable(t)
  <2>1. IsRecord(y)
    BY DEF Before, IsStep, IsRecord, Fields
  <2>2. ~refused => step' = [step EXCEPT ![m] = y]
    BY <1>6 DEF CopyArtifacts, Before, IsStep
  <2>3. /\ y.pc \in {"pack", "done"} /\ y.out = Artifacts(t, s.req.targets)
        /\ y.req = s.req /\ y.src = s.src /\ y.next = s.next /\ y.why = s.why
        /\ y.todo = s.todo
    BY DEF Before, IsStep, Fields
  <2>4. s.pc = "copy" /\ MountType(t, s) /\ MountInv(t, s)
    BY <1>6 DEF Before, CopyArtifacts, At
  <2>5. mount' = mount /\ IsMount'
    BY <1>6, KeepFacts DEF CopyArtifacts, KeepsMount, Before
  <2>6. CASE refused
    <3>1. /\ IsStep' /\ z.pc = "failed" /\ z.next = s.next /\ z.why = "config"
          /\ SameJob(z, s) /\ OthersKept(m)
      BY <1>6, <2>5, <2>6, FailFacts DEF CopyArtifacts, Before, OthersKept
    <3> HIDE DEF t, s, z
    <3>2. MountType(t, z)
      BY <2>4, <3>1 DEF MountType, SameJob, Locations, Causes
    <3>3. MountInv(t, z)
      BY <2>4, <3>1 DEF MountInv, SourceInv, UntarInv, ConfigInv, CompileInv,
         Configuring, Compiling, SameJob
    <3> QED
      BY <2>5, <3>1, <3>2, <3>3 DEF After, t, s, z
  <2>7. CASE ~refused
    <3> HIDE DEF y
    <3>1. IsStep' /\ z = y /\ OthersKept(m)
      BY <2>1, <2>2, <2>5, <2>7, StepFacts DEF Before, OthersKept
    <3>2. s.req \in Requests /\ t[".kbf-stamp"] = StampWant(s.req)
      BY <2>4 DEF MountType, MountInv, ConfigInv, Compiling
    <3>3. PICK c \in Sources(s.req) : SourceOf(t) = Extracted(c, s.req.patch)
      BY <2>4, <3>2 DEF MountInv, Whole, Clean
    <3>4. NoMergeBase /\ Readable(t) => t[".config"] = Resolved(Asked(s.req), SourceOf(t))
      BY <2>4, <3>2 DEF MountInv, Whole, Configured, Readable, ConfigInv,
         Compiling
    <3>5. Makes(s.req) =>
            /\ Readable(t) /\ t["kernel.o"] = {SourceOf(t)}
            /\ t["vmlinux"] = [objs |-> {SourceOf(t)}, config |-> t[".config"], link |-> 1]
      BY <2>4 DEF MountInv, CompileInv
    <3>6. ("vmlinux" \in s.req.targets => Makes(s.req)) /\ ("modules" \in s.req.targets => Makes(s.req))
      BY DEF Makes
    <3>7. NoMergeBase => z.out = Golden(s.req, c)
      BY <2>3, <2>7, <3>1, <3>3, <3>4, <3>5, <3>6 DEF Artifacts,
         ModulesPack, KconfigBundle, Golden
    <3> HIDE DEF t, s, z
    <3>8. MountType(t, z)
      BY <2>3, <2>4, <3>1 DEF MountType, Locations
    <3>9. MountInv(t, z)
      BY <2>3, <2>4, <3>1, <3>3, <3>7 DEF MountInv, SourceInv, UntarInv,
         ConfigInv, CompileInv, Configuring, Compiling
    <3> QED
      BY <2>5, <3>1, <3>8, <3>9 DEF After, t, s, z
  <2> QED
    BY <2>6, <2>7
<1>7. CASE PackSeed(m)
  <2>1. IsMount' /\ IsStep' /\ OthersKept(m)
    BY <1>7, PutFacts, GotoFacts DEF PackSeed, Before, OthersKept, Files,
       TreeFiles, SrcFiles
  <2>2. /\ s.pc = "pack"
        /\ Wrote(u, t, ".kbf-seed.tmp", Torn)
        /\ Moved(z, s, "upload")
    BY <1>7, PutFacts, GotoFacts DEF PackSeed, At, Before, Files, TreeFiles,
       SrcFiles
  <2>3. MountType(t, s) /\ MountInv(t, s)
    BY DEF Before
  <2> HIDE DEF t, s, u, z
  <2>4. MountType(u, z)
    BY <2>2, <2>3 DEF MountType, Moved, SameJob, Wrote, Locations, Causes,
       Files, TreeFiles
  <2>5. Whole(u, u[".kbf-stamp"]) /\ SourceOf(u) = SourceOf(t)
    BY <2>2, <2>3, WholeKept DEF MountInv, Wrote, WholeFiles, Files,
       TreeFiles, SrcFiles
  <2>6. MountInv(u, z)
    BY <2>2, <2>3, <2>5 DEF MountInv, SourceInv, UntarInv, ConfigInv,
       CompileInv, Configuring, Compiling, SameJob, Moved, Wrote, Files,
       TreeFiles, SrcFiles
  <2> QED
    BY <2>1, <2>4, <2>6 DEF After, t, s, u, z
<1>8. CASE UploadSeed(m)
  <2>1. mount' = mount /\ IsMount' /\ IsStep' /\ OthersKept(m)
    BY <1>8, GotoFacts, KeepFacts DEF UploadSeed, KeepsMount, Before,
       OthersKept
  <2>2. /\ s.pc = "upload"
        /\ Moved(z, s, "unpack")
    BY <1>8, GotoFacts DEF UploadSeed, At, Before
  <2>3. MountType(t, s) /\ MountInv(t, s)
    BY DEF Before
  <2> HIDE DEF t, s, z
  <2>4. MountType(t, z)
    BY <2>2, <2>3 DEF MountType, Moved, SameJob, Locations, Causes
  <2>5. MountInv(t, z)
    BY <2>2, <2>3 DEF MountInv, SourceInv, UntarInv, ConfigInv, CompileInv,
       Configuring, Compiling, SameJob, Moved
  <2> QED
    BY <2>1, <2>4, <2>5 DEF After, t, s, z
<1>9. CASE UploadFails(m)
  <2>1. IsMount' /\ IsStep' /\ OthersKept(m)
    BY <1>9, PutFacts, FailFacts DEF UploadFails, Before, OthersKept, Files,
       TreeFiles, SrcFiles
  <2>2. /\ s.pc = "upload" /\ Wrote(u, t, ".kbf-seed.tmp", None)
        /\ z.pc = "failed" /\ z.next = s.next /\ z.why = "upload"
        /\ SameJob(z, s)
    BY <1>9, PutFacts, FailFacts DEF UploadFails, At, Before, Files,
       TreeFiles, SrcFiles
  <2>3. MountType(t, s) /\ MountInv(t, s)
    BY DEF Before
  <2> HIDE DEF t, s, u, z
  <2>4. MountType(u, z)
    BY <2>2, <2>3 DEF MountType, Moved, SameJob, Locations, Causes, Wrote,
       Files, TreeFiles, SrcFiles
  <2>5. Whole(u, u[".kbf-stamp"]) /\ SourceOf(u) = SourceOf(t)
    BY <2>2, <2>3, WholeKept DEF MountInv, Wrote, WholeFiles, Files,
       TreeFiles, SrcFiles
  <2>6. MountInv(u, z)
    BY <2>2, <2>3, <2>5 DEF MountInv, SourceInv, UntarInv, ConfigInv,
       CompileInv, Configuring, Compiling, SameJob, Wrote, Files, TreeFiles,
       SrcFiles
  <2> QED
    BY <2>1, <2>4, <2>6 DEF After, t, s, u, z
<1>10. CASE UnpackSeed(m)
  <2>1. IsMount' /\ IsStep' /\ OthersKept(m)
    BY <1>10, PutFacts, GotoFacts DEF UnpackSeed, Before, OthersKept, Files,
       TreeFiles, SrcFiles
  <2>2. /\ s.pc = "unpack"
        /\ Wrote(u, t, ".kbf-seed.tmp", None)
        /\ Moved(z, s, "done")
    BY <1>10, PutFacts, GotoFacts DEF UnpackSeed, At, Before, Files,
       TreeFiles, SrcFiles
  <2>3. MountType(t, s) /\ MountInv(t, s)
    BY DEF Before
  <2> HIDE DEF t, s, u, z
  <2>4. MountType(u, z)
    BY <2>2, <2>3 DEF MountType, Moved, SameJob, Wrote, Locations, Causes,
       Files, TreeFiles
  <2>5. Whole(u, u[".kbf-stamp"]) /\ SourceOf(u) = SourceOf(t)
    BY <2>2, <2>3, WholeKept DEF MountInv, Wrote, WholeFiles, Files,
       TreeFiles, SrcFiles
  <2>6. MountInv(u, z)
    BY <2>2, <2>3, <2>5 DEF MountInv, SourceInv, UntarInv, ConfigInv,
       CompileInv, Configuring, Compiling, SameJob, Moved, Wrote, Files,
       TreeFiles, SrcFiles
  <2> QED
    BY <2>1, <2>4, <2>6 DEF After, t, s, u, z
<1>11. CASE Finish(m)
  BY <1>11, ReleaseKeeps
<1> QED
  BY <1>1, <1>2, <1>3, <1>4, <1>5, <1>6, <1>7, <1>8, <1>9, <1>10, <1>11 DEF
     Compile

-----------------------------------------------------------------------------
(***************************************************************************)
(* The store, and the invariant of the whole system.                       *)
(***************************************************************************)
\* The other actions leave the store and the source server alone.
LEMMA StoreKept ==
    ASSUME NEW m \in Mounts, ~UploadSeed(m),
           Run(m) \/ Kill(m) \/ Evict(m) \/ \E r \in Requests : Start(m, r)
    PROVE  seed' = seed /\ served' = served
  BY DEF Run, Prepare, Configure, Compile, Kill, Evict, Start, Finish,
     Sweep, CompareStamp, Clear, NukeEntry, NukeDone, Hydrate, PullSeed,
     PullFails, UntarEntry, UntarDone, UntarSeedFails, AdoptSeed, NeedSource,
     Acquire, Download, Receive, Verify, Extract, ApplyPatches, Bless, Stamped,
     CompareConfig, Unmark, BaseMake, AppendFragment, TruncateConfig,
     WriteConfig, Olddefconfig, Mark, Marked, ValidateExpectations,
     ResetVersion, Make, Link, Linked, CopyArtifacts, PackSeed, UploadFails,
     UnpackSeed, KeepsMount, KeepsStore

\* Only an upload changes the seed object, and what it stores is a tree fit
\* for its stamp: packing leaves out no file that fitness depends on.
LEMMA SeedKept ==
    ASSUME NEW m \in Mounts, Before(m), SeedInv,
           Run(m) \/ Kill(m) \/ Evict(m) \/ \E r \in Requests : Start(m, r)
    PROVE  SeedInv' /\ served' = served
<1>1. CASE UploadSeed(m)
  <2> DEFINE t == mount[m]
             i == Packed(t)
  <2>1. seed' = {i} /\ served' = served /\ Whole(t, t[".kbf-stamp"])
    BY <1>1 DEF UploadSeed, Before, MountInv
  <2>2. i[".kbf-stamp"] = t[".kbf-stamp"] /\ \A f \in WholeFiles : i[f] = t[f]
    BY DEF Packed, WholeFiles, TreeFiles, SrcFiles
  <2> HIDE DEF t, i
  <2>3. Whole(i, i[".kbf-stamp"])
    BY <2>1, <2>2, WholeKept
  <2> QED
    BY <2>1, <2>3 DEF SeedInv
<1>2. CASE ~UploadSeed(m)
  BY <1>2, StoreKept DEF SeedInv
<1> QED
  BY <1>1, <1>2

\* The first state: empty mounts, no step, a seed that bears no known stamp.
LEMMA InitInv == Init => TreeInv
<1> SUFFICES ASSUME Init PROVE TreeInv
  OBVIOUS
<1>1. IsMount /\ IsStep
  BY DEF Init, IsMount, IsStep, Idle, Fields, Empty
<1>2. ASSUME NEW m \in Mounts
      PROVE  MountType(mount[m], step[m]) /\ MountInv(mount[m], step[m])
  <2>1. mount[m] = Empty /\ step[m] = Idle
    BY DEF Init
  <2>2. Empty[".kbf-stamp"] = None /\ Empty[".kbf-src.tar"] = None
        /\ Empty[".kbf-src.tar.part"] = None
    BY DEF Empty, Files, TreeFiles
  <2>3. Whole(Empty, Empty[".kbf-stamp"])
    BY <2>2, NoClaim, ConstantsAssumption
  <2>4. MountType(Empty, Idle)
    BY <2>2 DEF MountType, Idle, Locations, Causes
  <2>5. MountInv(Empty, Idle)
    BY <2>3, ConstantsAssumption DEF MountInv, SourceInv, UntarInv, ConfigInv,
       CompileInv, Configuring, Compiling, Idle
  <2> QED
    BY <2>1, <2>4, <2>5
<1>3. SeedInv
  BY NoClaim, ConstantsAssumption DEF Init, SeedInv
<1> QED
  BY <1>1, <1>2, <1>3 DEF TreeInv, TypeOK, Init, IsMount, IsStep

\* A step that keeps the invariant of its own mount keeps it everywhere.
LEMMA FrameInv ==
    ASSUME TreeInv, NEW m \in Mounts, After(m), SeedInv', served' = served
    PROVE  TreeInv'
<1>1. ASSUME NEW n \in Mounts
      PROVE  MountType(mount'[n], step'[n]) /\ MountInv(mount'[n], step'[n])
  <2>1. CASE n = m
    BY <2>1 DEF After
  <2>2. CASE n # m
    BY <2>2 DEF After, OthersKept, TreeInv, TypeOK
  <2> QED
    BY <2>1, <2>2
<1> QED
  BY <1>1 DEF TreeInv, TypeOK, After, IsMount, IsStep

\* Every step of every worker, every kill, eviction and re-roll keeps TreeInv.
LEMMA NextInv == TreeInv /\ [Next]_vars => TreeInv'
<1> SUFFICES ASSUME TreeInv, [Next]_vars PROVE TreeInv'
  OBVIOUS
<1>1. CASE UNCHANGED vars
  BY <1>1 DEF vars, TreeInv, TypeOK, SeedInv
<1>2. ASSUME NEW u \in Urls, ReRoll(u)
      PROVE  TreeInv'
  <2>1. served' \in [Urls -> Tarballs] /\ UNCHANGED <<mount, step, seed>>
    BY <1>2 DEF ReRoll, TreeInv, TypeOK
  <2> QED
    BY <2>1 DEF TreeInv, TypeOK, SeedInv
<1>3. ASSUME NEW m \in Mounts,
             Run(m) \/ Kill(m) \/ Evict(m) \/ \E r \in Requests : Start(m, r)
      PROVE  TreeInv'
  <2>1. Before(m) /\ SeedInv /\ served \in [Urls -> Tarballs]
    BY DEF TreeInv, TypeOK, Before, IsMount, IsStep
  <2>2. After(m)
    BY <1>3, <2>1, PrepareKeeps, ConfigureKeeps, CompileKeeps, ReleaseKeeps,
       EvictKeeps, StartKeeps DEF Run
  <2>3. SeedInv' /\ served' = served
    BY <1>3, <2>1, SeedKept
  <2> QED
    BY <2>2, <2>3, FrameInv
<1> QED
  BY <1>1, <1>2, <1>3 DEF Next

-----------------------------------------------------------------------------
(***************************************************************************)
(* The theorems.                                                           *)
(***************************************************************************)
\* The inductive invariant holds in every reachable state, whatever the
\* requests, the number of workers, the kills and the evictions.
THEOREM TreeInvariant == Spec => []TreeInv
  BY InitInv, NextInv, PTL DEF Spec

\* Type correctness of mounts, steps and source server.
THEOREM TypeCorrect == Spec => []TypeOK
<1>1. TreeInv => TypeOK
  BY DEF TreeInv
<1> QED
  BY <1>1, TreeInvariant, PTL

\* A stamp on a mount is never a lie: the tree prepareTree takes for warm is
\* complete, of the stamped source alone, with no foreign object in it.
THEOREM StampsAreSound == Spec => []StampSound
<1>1. TreeInv => StampSound
  BY DEF TreeInv, MountInv, StampSound, Blesses, Whole
<1> QED
  BY <1>1, TreeInvariant, PTL

\* The tarball that extractTarball opens is one the request accepts.
THEOREM SourceIsVerified == Spec => []VerifiedSource
<1>1. TreeInv => VerifiedSource
  BY DEF TreeInv, MountInv, SourceInv, VerifiedSource
<1> QED
  BY <1>1, TreeInvariant, PTL

\* As long as no BASE_MAKE target merges into an existing .config, the skip
\* marker of configure names the inputs of the .config it lets through.
THEOREM MarkersAreSound == ASSUME NoMergeBase PROVE Spec => []MarkerSound
<1>1. TreeInv => MarkerSound
  BY DEF TreeInv, MountInv, MarkerSound, Marks, Whole, Stamps
<1> QED
  BY <1>1, TreeInvariant, PTL

\* Under the same condition the seed object deserves the trust of a worker
\* that pulls it.
THEOREM SeedIsSound == ASSUME NoMergeBase PROVE Spec => []SeedSound
<1>1. TreeInv => SeedSound
  BY DEF TreeInv, SeedInv, SeedSound, Blesses, Marks, Whole, Stamps
<1> QED
  BY <1>1, TreeInvariant, PTL

\* And a build that succeeds delivers what a cold build of its request would.
THEOREM ArtifactsAreSound == ASSUME NoMergeBase PROVE Spec => []ArtifactSound
<1>1. TreeInv => ArtifactSound
  BY DEF TreeInv, MountInv, CompileInv, ArtifactSound, At
<1> QED
  BY <1>1, TreeInvariant, PTL
=============================================================================
