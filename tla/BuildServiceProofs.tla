------------------------- MODULE BuildServiceProofs -------------------------
(***************************************************************************)
(* Proofs about BuildService, for every set of workers and requests, every *)
(* sequence of digests and every state of the apt archive.                 *)
(***************************************************************************)
EXTENDS BuildService, TLAPS

-----------------------------------------------------------------------------
(***************************************************************************)
(* What an identity determines.                                            *)
(***************************************************************************)
\* The compiler that runs is named by the hash in the mount id.
LEMMA CompilerNamed ==
    ASSUME NEW s, NEW served \in 1..Archives
    PROVE  Named(Compiler(s, served), toolchainHash(s))
<1> DEFINE c == Compiler(s, served)
<1>1. c = [base |-> s.Base.digest, apt |-> c.apt, prefix |-> crossOrDefault(s)]
  BY DEF Compiler
<1>2. c.apt = IF s.ToolchainReady THEN 0 ELSE served
  BY DEF Compiler
<1>3. /\ toolchainHash(s)[1] = s.Base /\ toolchainHash(s)[2] = crossOrDefault(s)
      /\ toolchainHash(s)[3] = IF s.ToolchainReady THEN "ready" ELSE "apt"
  BY DEF toolchainHash, Mode
<1> HIDE DEF c
<1>4. c.apt \in 0..Archives /\ ((c.apt = 0) <=> (toolchainHash(s)[3] = "ready"))
  <2>1. Archives \in Nat /\ served \in 1..Archives
    BY ServiceAssumption
  <2>2. CASE s.ToolchainReady
    BY <1>2, <1>3, <2>1, <2>2
  <2>3. CASE ~s.ToolchainReady
    BY <1>2, <1>3, <2>1, <2>3
  <2> QED
    BY <2>2, <2>3
<1> QED
  BY <1>1, <1>3, <1>4 DEF Named, c

\* In ready mode the hash names exactly one compiler.
LEMMA ReadyObjects ==
    ASSUME NEW s, NEW objects, objects # {}, s.ToolchainReady,
           \A c \in objects : Named(c, toolchainHash(s))
    PROVE  objects = {Compiler(s, 0)}
<1>1. ASSUME NEW c \in objects PROVE c = Compiler(s, 0)
  BY <1>1 DEF Named, Compiler, toolchainHash, Mode
<1> QED
  BY <1>1

\* Builds with one compile key run the same action of the same artifacts:
\* what is right for the one is right for the other.
LEMMA SameKey ==
    ASSUME NEW s, NEW in, NEW a, NEW q, NEW on, NEW b, Sane(s, in), Sane(q, on),
           CompileKey(s, in, a) = CompileKey(q, on, b)
    PROVE  /\ a = b
           /\ s.SeedPush = q.SeedPush
           /\ \A art : Right(s, in, art) => Right(q, on, art)
<1>1. /\ ToolchainKey(s, in) = ToolchainKey(q, on) /\ MountId(s) = MountId(q)
      /\ Env(s, a) = Env(q, b) /\ Mounted(s, in) = Mounted(q, on)
  BY DEF CompileKey
<1>2. /\ a = b /\ s.SeedPush = q.SeedPush /\ s.SourceDateEpoch = q.SourceDateEpoch
      /\ Source(s) = Source(q) /\ archOrDefault(s) = archOrDefault(q)
      /\ targetsOrDefault(s) = targetsOrDefault(q) /\ s.BaseMake = q.BaseMake
  BY <1>1 DEF Env
<1>3. toolchainHash(s) = toolchainHash(q)
  BY <1>1 DEF MountId
<1>4. /\ s.Base = q.Base /\ crossOrDefault(s) = crossOrDefault(q)
      /\ s.ToolchainReady <=> q.ToolchainReady
  BY <1>3 DEF toolchainHash, Mode
<1>5. Compiler(s, 0) = Compiler(q, 0)
  BY <1>4 DEF Compiler
<1>6. /\ in.config = on.config
      /\ If(s.ExpectName # Unset, in.expect) = If(q.ExpectName # Unset, on.expect)
      /\ If(s.ApplyPatches, in.patches) = If(q.ApplyPatches, on.patches)
      /\ If(s.SourceLocalName # Unset, in.tarball) = If(q.SourceLocalName # Unset, on.tarball)
  BY <1>1 DEF Mounted
<1>7. /\ (s.SourceLocalName # Unset) <=> (q.SourceLocalName # Unset)
      /\ s.SourceLocalName = Unset => s.SourceSHA256 = q.SourceSHA256
  <2>1. /\ Source(s).url = Source(q).url /\ Source(s).sha = Source(q).sha
    BY <1>2
  <2>2. ASSUME NEW x PROVE <<>> # <<x>>
    OBVIOUS
  <2> QED
    BY <2>1, <2>2 DEF Source
<1>8. Stamp(s, in) = Stamp(q, on)
  BY <1>2, <1>6, <1>7 DEF Stamp, If
<1>9. ASSUME NEW tree PROVE Artifact(s, in, tree) = Artifact(q, on, tree)
  BY <1>2, <1>6 DEF Artifact
<1>10. (s.ExpectName # Unset => in.expect = "holds") =>
         (q.ExpectName # Unset => on.expect = "holds")
  BY <1>6 DEF If, Sane
<1> QED
  BY <1>2, <1>3, <1>4, <1>5, <1>8, <1>9, <1>10 DEF Right

\* Whoever is built has a toolchain of the request it comes from.
LEMMA AskedToolchain ==
    ASSUME NEW s, NEW seed, Asked(s, seed)
    PROVE  \E r \in Requests : seed = r.seed /\ toolchainHash(s) \in Toolchains(r)
  BY DEF Asked, Toolchains

-----------------------------------------------------------------------------
(***************************************************************************)
(* Frames: what a step does not touch keeps its part of the invariant.     *)
(***************************************************************************)
LEMMA BuildKept ==
    ASSUME NEW w, BuildInv(w), job'[w] = job[w],
           job[w].pc \in {"tree", "built", "pushed"} => mount'[w] = mount[w],
           builds \in Nat, builds' \in Nat, builds <= builds'
    PROVE  BuildInv(w)'
<1>1. 1..builds \subseteq 1..builds'
  OBVIOUS
<1> QED
  BY <1>1 DEF BuildInv

LEMMA EntryKept ==
    ASSUME NEW e, EntryInv(e), builds \in Nat, builds' \in Nat, builds <= builds'
    PROVE  EntryInv(e)'
<1>1. 1..builds \subseteq 1..builds'
  OBVIOUS
<1> QED
  BY <1>1 DEF EntryInv

\* A step of worker w about its own build and mount leaves the others alone.
LEMMA OthersKept ==
    ASSUME ServiceInv, NEW w \in Workers, builds' = builds, BuildInv(w)',
           \A v \in Workers \ {w} : job'[v] = job[v] /\ mount'[v] = mount[v]
    PROVE  \A v \in Workers : BuildInv(v)'
<1> TAKE v \in Workers
<1>1. CASE v = w
  BY <1>1
<1>2. CASE v # w
  <2>1. BuildInv(v) /\ job'[v] = job[v] /\ mount'[v] = mount[v] /\ builds \in Nat
    BY <1>2 DEF ServiceInv
  <2> QED
    BY <2>1, BuildKept
<1> QED
  BY <1>1, <1>2

\* The mounts after a new tree, its objects named by it, came under one id.
LEMMA MountNamed ==
    ASSUME ServiceInv, NEW w \in Workers, NEW s, NEW tree,
           mount' = [mount EXCEPT ![w] = Put(@, MountId(s), tree)],
           toolchainHash(s) \in OwnSeeds =>
              \A c \in tree.objects : Named(c, toolchainHash(s))
    PROVE  /\ mount' = [v \in Workers |-> mount'[v]]
           /\ \A v \in Workers \ {w} : mount'[v] = mount[v]
           /\ MountsInv'
           /\ MountId(s) \in DOMAIN mount'[w] /\ mount'[w][MountId(s)] = tree
<1>1. /\ mount'[w] = Put(mount[w], MountId(s), tree)
      /\ mount' = [v \in Workers |-> mount'[v]]
      /\ \A v \in Workers \ {w} : mount'[v] = mount[v]
  BY DEF ServiceInv
<1>2. MountId(s)[3] = toolchainHash(s)
  BY DEF MountId
<1> DEFINE id0 == MountId(s)
<1> HIDE DEF id0
<1>3. /\ DOMAIN mount'[w] = DOMAIN mount[w] \union {id0}
      /\ \A id \in DOMAIN mount[w] \union {id0} :
            mount'[w][id] = IF id = id0 THEN tree ELSE mount[w][id]
  BY <1>1 DEF Put, id0
<1>4. MountsInv
  BY DEF ServiceInv
<1>5. ASSUME NEW id \in DOMAIN mount'[w], id[3] \in OwnSeeds,
             NEW c \in mount'[w][id].objects
      PROVE  Named(c, id[3])
  <2>1. CASE id = id0
    BY <1>2, <1>3, <1>5, <2>1 DEF id0
  <2>2. CASE id # id0
    BY <1>3, <1>4, <1>5, <2>2 DEF MountsInv
  <2> QED
    BY <2>1, <2>2
<1>6. MountsInv'
  BY <1>1, <1>4, <1>5 DEF MountsInv
<1> QED
  BY <1>1, <1>3, <1>6 DEF id0

\* A worker without a build at work has no action to keep to itself.
LEMMA FreshKept ==
    ASSUME FreshActions, NEW w \in Workers, cache' \subseteq cache,
           \A v \in Workers \ {w} : job'[v] = job[v],
           job'[w].pc \in Working =>
              job[w].pc \in Working /\ job'[w].action = job[w].action
                /\ job'[w].spec = job[w].spec
    PROVE  FreshActions'
  BY DEF FreshActions, ActionOf

-----------------------------------------------------------------------------
(***************************************************************************)
(* The actions.                                                            *)
(***************************************************************************)
\* Fields of a Spec other than the base survive the pinning.
LEMMA PinKeeps ==
    ASSUME NEW s, IsSpec(s), NEW d
    PROVE  IsSpec(Pin(s, d)) /\ Pin(s, d).SeedPush = s.SeedPush
<1>1. "SeedPush" \in SpecFields /\ "Base" \in SpecFields
  BY DEF SpecFields, DefaultSpec
<1> QED
  BY <1>1 DEF IsSpec, Pin

LEMMA SubmitKeeps ==
    ASSUME ServiceInv, NEW w \in Workers, Submit(w)
    PROVE  ServiceInv'
<1>1. PICK r \in Requests :
        job' = [job EXCEPT ![w] =
            [pc |-> "solve", spec |-> Pin(r.spec, Digests[registry]), in |-> r.in,
             seed |-> r.seed, action |-> Action(r.spec)']]
  BY DEF Submit
<1> DEFINE spec == Pin(r.spec, Digests[registry])
<1>2. /\ IsSpec(spec) /\ spec.SeedPush = r.spec.SeedPush /\ r.in.expect # Unset
      /\ Asked(spec, r.seed)
  BY PinKeeps, ServiceAssumption DEF ServiceInv, Asked
<1> HIDE DEF spec
<1>3. /\ builds \in Nat /\ builds' = builds + 1
      /\ UNCHANGED <<registry, archive, cache, layer, mount, store>>
  BY DEF ServiceInv, Submit
<1>4. /\ job'[w].pc = "solve" /\ job'[w].in = r.in /\ job'[w].spec = spec
      /\ job'[w].seed = r.seed
      /\ job'[w].action = IF spec.SeedPush THEN builds' ELSE 0
      /\ job' = [v \in Workers |-> job'[v]]
      /\ \A v \in Workers \ {w} : job'[v] = job[v]
  BY <1>1, <1>2 DEF ServiceInv, Action, spec
<1>5. BuildInv(w)'
  <2>1. Sane(spec, r.in)
    BY <1>2 DEF Sane
  <2>2. job'[w].action \in IF spec.SeedPush THEN 1..builds' ELSE {0}
    BY <1>3, <1>4
  <2> QED
    BY <1>2, <1>4, <2>1, <2>2 DEF BuildInv, Working, Asked
<1>6. ASSUME NEW v \in Workers PROVE BuildInv(v)'
  <2>1. CASE v = w
    BY <1>5, <2>1
  <2>2. CASE v # w
    <3>1. /\ BuildInv(v) /\ job'[v] = job[v] /\ mount'[v] = mount[v]
          /\ builds' \in Nat /\ builds <= builds'
      BY <1>3, <1>4, <2>2 DEF ServiceInv
    <3> QED
      BY <1>3, <3>1, BuildKept
  <2> QED
    BY <2>1, <2>2
<1>7. \A e \in cache' : EntryInv(e)'
  BY <1>3, EntryKept DEF ServiceInv
<1>8. FreshActions'
  <2>1. ASSUME NEW v \in Workers \ {w}, job[v].pc \in Working
        PROVE  job[v].action # builds'
    <3>1. job[v].action \in 0..builds
      <4>1. BuildInv(v)
        BY DEF ServiceInv
      <4>2. job[v].action \in IF job[v].spec.SeedPush THEN 1..builds ELSE {0}
        BY <2>1, <4>1 DEF BuildInv
      <4> QED
        BY <1>3, <4>2
    <3> QED
      BY <1>3, <3>1
  <2>2. ASSUME NEW e \in cache PROVE ActionOf(e) # builds'
    BY <1>3, <2>2 DEF ServiceInv, EntryInv
  <2>3. ASSUME NEW v \in Workers \ {w}, job[v].pc \in Working, job[v].spec.SeedPush
        PROVE  job[v].action # job'[w].action
    <3>1. job[v].action \in 1..builds
      BY <2>3 DEF ServiceInv, BuildInv
    <3> QED
      BY <1>3, <1>4, <3>1
  <2> SUFFICES ASSUME NEW x \in Workers, job'[x].pc \in Working, job'[x].spec.SeedPush
               PROVE  /\ \A e \in cache : ActionOf(e) # job'[x].action
                      /\ \A v \in Workers \ {x} :
                            job'[v].pc \in Working => job'[v].action # job'[x].action
    BY <1>3 DEF FreshActions, ActionOf
  <2>4. CASE x = w
    BY <1>4, <2>1, <2>2, <2>4
  <2>5. CASE x # w
    BY <1>4, <2>3, <2>5 DEF ServiceInv, FreshActions
  <2> QED
    BY <2>4, <2>5
<1> QED
  BY <1>3, <1>4, <1>6, <1>7, <1>8 DEF ServiceInv, MountsInv, StoreInv

\* A result found under its key is right for whoever finds it, and no push
\* finds one.
LEMMA HitKeeps ==
    ASSUME ServiceInv, NEW w \in Workers, Hit(w)
    PROVE  ServiceInv'
<1>1. PICK e \in Found(w) : Answer(w, e.art, FALSE)
  BY DEF Hit
<1>2. e \in cache /\ e.key = CompileKey(job[w].spec, job[w].in, job[w].action)
  BY <1>1 DEF Found, Key
<1>3. EntryInv(e) /\ BuildInv(w) /\ job[w].pc = "solve"
  BY <1>2 DEF ServiceInv, Hit
<1>4. Sane(job[w].spec, job[w].in) /\ Sane(e.spec, e.in)
  BY <1>3 DEF BuildInv, EntryInv
<1>5. /\ ActionOf(e) = job[w].action
      /\ Right(job[w].spec, job[w].in, e.art)
  <2>1. /\ CompileKey(e.spec, e.in, ActionOf(e))
             = CompileKey(job[w].spec, job[w].in, job[w].action)
        /\ Right(e.spec, e.in, e.art)
    BY <1>2, <1>3 DEF EntryInv
  <2>2. \A art : Right(e.spec, e.in, art) => Right(job[w].spec, job[w].in, art)
    BY <1>4, <2>1, SameKey
  <2>3. ActionOf(e) = job[w].action
    BY <1>4, <2>1, SameKey
  <2> QED
    BY <2>1, <2>2, <2>3
<1>6. ~job[w].spec.SeedPush
  BY <1>2, <1>3, <1>5 DEF ServiceInv, FreshActions, Working
<1>7. /\ job'[w].pc = "done" /\ job'[w].spec = job[w].spec
      /\ job'[w].in = job[w].in /\ job'[w].art = e.art
      /\ job' = [v \in Workers |-> job'[v]]
      /\ \A v \in Workers \ {w} : job'[v] = job[v]
  BY <1>1 DEF ServiceInv, Answer
<1>8. /\ UNCHANGED <<registry, archive, cache, layer, mount, store, builds>>
      /\ builds \in Nat
  BY DEF Hit, ServiceInv
<1>9. BuildInv(w)'
  BY <1>4, <1>5, <1>6, <1>7 DEF BuildInv, Working
<1>10. \A v \in Workers : BuildInv(v)'
  BY <1>7, <1>8, <1>9, OthersKept
<1>11. \A x \in cache' : EntryInv(x)'
  BY <1>8, EntryKept DEF ServiceInv
<1>12. FreshActions'
  BY <1>7, <1>8, FreshKept DEF ServiceInv, Working
<1> QED
  BY <1>7, <1>8, <1>10, <1>11, <1>12 DEF ServiceInv, MountsInv, StoreInv

\* The compiler of a build is one its identities name, whether the toolchain
\* layer was found or made.
LEMMA StartKeeps ==
    ASSUME ServiceInv, NEW w \in Workers, Start(w)
    PROVE  ServiceInv'
<1> DEFINE s == job[w].spec
           k == ToolchainKey(s, job[w].in)
           served == IF k \in DOMAIN layer[w] /\ ~s.IgnoreCache THEN layer[w][k]
                     ELSE archive
<1>1. /\ job[w].pc = "solve"
      /\ layer' = [layer EXCEPT ![w] = IF s.ToolchainReady THEN @ ELSE Put(@, k, served)]
      /\ mount' = [mount EXCEPT ![w] = IF s.IgnoreCache THEN Drop(@, MountId(s)) ELSE @]
      /\ job' = [job EXCEPT ![w] =
             [pc |-> "step", spec |-> s, in |-> @.in, seed |-> @.seed,
              action |-> @.action, cc |-> Compiler(s, served)]]
      /\ UNCHANGED <<registry, archive, cache, store, builds>>
  BY DEF Start
<1>2. served \in 1..Archives
  BY DEF ServiceInv
<1>3. Named(Compiler(s, served), toolchainHash(s))
  BY <1>2, CompilerNamed
<1> HIDE DEF served, k
<1>4. /\ layer' = [v \in Workers |-> layer'[v]]
      /\ \A v \in Workers : \A x \in DOMAIN layer'[v] : layer'[v][x] \in 1..Archives
  <2>1. /\ layer'[w] = IF s.ToolchainReady THEN layer[w] ELSE Put(layer[w], k, served)
        /\ layer' = [v \in Workers |-> layer'[v]]
        /\ \A v \in Workers \ {w} : layer'[v] = layer[v]
    BY <1>1 DEF ServiceInv
  <2>2. \A x \in DOMAIN layer[w] : layer[w][x] \in 1..Archives
    BY DEF ServiceInv
  <2>3. \A x \in DOMAIN layer'[w] : layer'[w][x] \in 1..Archives
    <3>1. CASE s.ToolchainReady
      BY <2>1, <2>2, <3>1
    <3>2. CASE ~s.ToolchainReady
      BY <1>2, <2>1, <2>2, <3>2 DEF Put
    <3> QED
      BY <3>1, <3>2
  <2> QED
    BY <2>1, <2>3 DEF ServiceInv
<1>5. /\ mount' = [v \in Workers |-> mount'[v]]
      /\ \A v \in Workers \ {w} : mount'[v] = mount[v]
      /\ MountsInv'
  <2>1. /\ mount' = [v \in Workers |-> mount'[v]]
        /\ \A v \in Workers \ {w} : mount'[v] = mount[v]
        /\ mount'[w] = mount[w] \/ mount'[w] = Drop(mount[w], MountId(s))
    BY <1>1 DEF ServiceInv
  <2>2. \A v \in Workers :
          /\ DOMAIN mount'[v] \subseteq DOMAIN mount[v]
          /\ \A id \in DOMAIN mount'[v] : mount'[v][id] = mount[v][id]
    BY <2>1 DEF Drop
  <2>3. MountsInv'
    BY <2>2 DEF ServiceInv, MountsInv
  <2> QED
    BY <2>1, <2>3
<1>6. /\ job'[w] = [pc |-> "step", spec |-> s, in |-> job[w].in, seed |-> job[w].seed,
                    action |-> job[w].action, cc |-> Compiler(s, served)]
      /\ job' = [v \in Workers |-> job'[v]]
      /\ \A v \in Workers \ {w} : job'[v] = job[v]
  BY <1>1 DEF ServiceInv
<1>7. BuildInv(w)'
  <2>1. /\ Sane(s, job[w].in) /\ Asked(s, job[w].seed)
        /\ job[w].action \in IF s.SeedPush THEN 1..builds ELSE {0}
    BY <1>1 DEF ServiceInv, BuildInv, Working
  <2> HIDE DEF s
  <2> QED
    BY <1>1, <1>3, <1>6, <2>1 DEF BuildInv, Working
<1>8. \A v \in Workers : BuildInv(v)'
  BY <1>1, <1>5, <1>6, <1>7, OthersKept
<1>9. \A x \in cache' : EntryInv(x)'
  BY <1>1, EntryKept DEF ServiceInv
<1>10. FreshActions'
  BY <1>1, <1>6, FreshKept DEF ServiceInv, Working
<1> QED
  BY <1>1, <1>4, <1>5, <1>6, <1>8, <1>9, <1>10 DEF ServiceInv, StoreInv

\* A build that goes on to its next phase keeps all it was given.
LEMMA PhaseKeeps ==
    ASSUME ServiceInv, NEW w \in Workers, job[w].pc \in Working \ {"solve"},
           NEW p \in {"tree", "built", "pushed"},
           job' = [job EXCEPT ![w].pc = p], UNCHANGED <<cache, builds>>
    PROVE  /\ job'[w] = [pc |-> p, spec |-> job[w].spec, in |-> job[w].in,
                         seed |-> job[w].seed, action |-> job[w].action,
                         cc |-> job[w].cc]
           /\ job' = [v \in Workers |-> job'[v]]
           /\ \A v \in Workers \ {w} : job'[v] = job[v]
           /\ \A e \in cache' : EntryInv(e)'
           /\ FreshActions'
<1>1. /\ job[w] = [pc |-> job[w].pc, spec |-> job[w].spec, in |-> job[w].in,
                   seed |-> job[w].seed, action |-> job[w].action, cc |-> job[w].cc]
      /\ job'[w] = [job[w] EXCEPT !.pc = p]
      /\ job' = [v \in Workers |-> job'[v]]
      /\ \A v \in Workers \ {w} : job'[v] = job[v]
  BY DEF ServiceInv, BuildInv
<1>2. ASSUME NEW a, NEW b, NEW c, NEW d, NEW e, NEW f
      PROVE  [[pc |-> a, spec |-> b, in |-> c, seed |-> d, action |-> e, cc |-> f]
                 EXCEPT !.pc = p]
               = [pc |-> p, spec |-> b, in |-> c, seed |-> d, action |-> e, cc |-> f]
  OBVIOUS
<1>3. job'[w] = [pc |-> p, spec |-> job[w].spec, in |-> job[w].in,
                 seed |-> job[w].seed, action |-> job[w].action, cc |-> job[w].cc]
  BY <1>1, <1>2
<1>4. \A e \in cache' : EntryInv(e)'
  <2>1. builds \in Nat /\ builds' = builds /\ cache' = cache /\ \A e \in cache : EntryInv(e)
    BY DEF ServiceInv
  <2> QED
    BY <2>1, EntryKept
<1>5. FreshActions'
  <2>1. FreshActions /\ cache' \subseteq cache
    BY DEF ServiceInv
  <2>2. /\ job[w].pc \in Working /\ job'[w].action = job[w].action
        /\ job'[w].spec = job[w].spec
    BY <1>3
  <2> QED
    BY <1>1, <2>1, <2>2, FreshKept
<1> QED
  BY <1>1, <1>3, <1>4, <1>5

\* The tree found in a seed was compiled by the toolchain of whoever finds it,
\* if that has its seeds to itself; and it is taken for its stamp.
LEMMA TreeNamed ==
    ASSUME ServiceInv, NEW w \in Workers, job[w].pc = "step"
    PROVE  /\ Tree(w).stamp = Stamp(job[w].spec, job[w].in)
           /\ toolchainHash(job[w].spec) \in OwnSeeds =>
                \A c \in Tree(w).objects : Named(c, toolchainHash(job[w].spec))
<1> DEFINE s == job[w].spec
           id == MountId(s)
           at == job[w].seed.at
           want == Stamp(s, job[w].in)
           h == toolchainHash(s)
<1>1. PICK r \in Requests : job[w].seed = r.seed /\ h \in Toolchains(r)
  BY AskedToolchain DEF ServiceInv, BuildInv, Working
<1>2. id[3] = h
  BY DEF MountId
<1>3. Tree(w) = IF id \in DOMAIN mount[w] /\ mount[w][id].stamp = want THEN mount[w][id]
                ELSE IF at \in DOMAIN store /\ store[at].stamp = want THEN store[at]
                ELSE [stamp |-> want, objects |-> {}]
  BY DEF Tree
<1> HIDE DEF s, id, at, want, h
<1>4. CASE id \in DOMAIN mount[w] /\ mount[w][id].stamp = want
  BY <1>2, <1>3, <1>4 DEF ServiceInv, MountsInv, s, want, h
<1>5. CASE /\ ~(id \in DOMAIN mount[w] /\ mount[w][id].stamp = want)
           /\ at \in DOMAIN store /\ store[at].stamp = want
  <2>1. Tree(w) = store[at] /\ at = r.seed.at
    BY <1>1, <1>3, <1>5 DEF at
  <2> QED
    BY <1>1, <1>5, <2>1 DEF ServiceInv, StoreInv, s, want, h
<1>6. CASE /\ ~(id \in DOMAIN mount[w] /\ mount[w][id].stamp = want)
           /\ ~(at \in DOMAIN store /\ store[at].stamp = want)
  <2>1. Tree(w) = [stamp |-> want, objects |-> {}]
    BY <1>3, <1>6
  <2>2. Tree(w).stamp = want /\ Tree(w).objects = {}
    BY <2>1
  <2> QED
    BY <2>2 DEF s, want, h
<1> QED
  BY <1>4, <1>5, <1>6

LEMMA PrepareKeeps ==
    ASSUME ServiceInv, NEW w \in Workers, Prepare(w)
    PROVE  ServiceInv'
<1>1. /\ job[w].pc = "step" /\ job' = [job EXCEPT ![w].pc = "tree"]
      /\ job[w].spec.SeedPush => Pushes(job[w].seed)
      /\ mount' = [mount EXCEPT ![w] = Put(@, MountId(job[w].spec), Tree(w))]
      /\ UNCHANGED <<registry, archive, cache, layer, store, builds>>
  BY DEF Prepare
<1>2. /\ Tree(w).stamp = Stamp(job[w].spec, job[w].in)
      /\ toolchainHash(job[w].spec) \in OwnSeeds =>
            \A c \in Tree(w).objects : Named(c, toolchainHash(job[w].spec))
  BY <1>1, TreeNamed
<1>3. /\ job'[w] = [pc |-> "tree", spec |-> job[w].spec, in |-> job[w].in,
                    seed |-> job[w].seed, action |-> job[w].action, cc |-> job[w].cc]
      /\ job' = [v \in Workers |-> job'[v]]
      /\ \A v \in Workers \ {w} : job'[v] = job[v]
      /\ \A e \in cache' : EntryInv(e)'
      /\ FreshActions'
  <2>1. job[w].pc \in Working \ {"solve"} /\ UNCHANGED <<cache, builds>>
    BY <1>1 DEF Working
  <2>2. "tree" \in {"tree", "built", "pushed"}
    OBVIOUS
  <2> QED
    BY <1>1, <2>1, <2>2, PhaseKeeps
<1>4. /\ mount' = [v \in Workers |-> mount'[v]]
      /\ \A v \in Workers \ {w} : mount'[v] = mount[v]
      /\ MountsInv'
      /\ MountId(job[w].spec) \in DOMAIN mount'[w]
      /\ mount'[w][MountId(job[w].spec)] = Tree(w)
  <2>1. PICK s, tree : s = job[w].spec /\ tree = Tree(w)
    OBVIOUS
  <2>2. /\ mount' = [mount EXCEPT ![w] = Put(@, MountId(s), tree)]
        /\ toolchainHash(s) \in OwnSeeds =>
              \A c \in tree.objects : Named(c, toolchainHash(s))
    BY <1>1, <1>2, <2>1
  <2>3. /\ mount' = [v \in Workers |-> mount'[v]]
        /\ \A v \in Workers \ {w} : mount'[v] = mount[v]
        /\ MountsInv'
        /\ MountId(s) \in DOMAIN mount'[w] /\ mount'[w][MountId(s)] = tree
    BY <2>2, MountNamed, Zenon
  <2> QED
    BY <2>1, <2>3
<1>5. BuildInv(w)'
  <2>1. /\ Sane(job[w].spec, job[w].in) /\ Asked(job[w].spec, job[w].seed)
        /\ Named(job[w].cc, toolchainHash(job[w].spec))
        /\ job[w].action \in IF job[w].spec.SeedPush THEN 1..builds ELSE {0}
    BY <1>1 DEF ServiceInv, BuildInv, Working
  <2>2. mount'[w][MountId(job[w].spec)].stamp = Stamp(job[w].spec, job[w].in)
    BY <1>2, <1>4
  <2> DEFINE x == job'[w]
  <2>3. /\ x.pc = "tree" /\ x.spec = job[w].spec /\ x.in = job[w].in
        /\ x.seed = job[w].seed /\ x.action = job[w].action /\ x.cc = job[w].cc
    BY <1>3
  <2>4. x = [pc |-> x.pc, spec |-> x.spec, in |-> x.in, seed |-> x.seed,
             action |-> x.action, cc |-> x.cc]
    BY <1>3, <2>3
  <2>5. builds' = builds
    BY <1>1
  <2> QED
    BY <1>1, <1>4, <2>1, <2>2, <2>3, <2>4, <2>5 DEF BuildInv, Working
<1>6. \A v \in Workers : BuildInv(v)'
  <2>1. builds' = builds
    BY <1>1
  <2> QED
    BY <1>3, <1>4, <1>5, <2>1, OthersKept
<1> QED
  BY <1>1, <1>3, <1>4, <1>6 DEF ServiceInv, StoreInv

\* Whatever make recompiles, the objects are those of named compilers.
LEMMA CompileKeeps ==
    ASSUME ServiceInv, NEW w \in Workers, Compile(w)
    PROVE  ServiceInv'
<1> DEFINE s == job[w].spec
           old == mount[w][MountId(s)]
<1>1. PICK objects \in {{job[w].cc}, old.objects, old.objects \union {job[w].cc}} \ {{}} :
        mount' = [mount EXCEPT ![w] =
                    Put(@, MountId(s), [stamp |-> old.stamp, objects |-> objects])]
  BY DEF Compile
<1>2. /\ job[w].pc = "tree" /\ job' = [job EXCEPT ![w].pc = "built"]
      /\ s.ExpectName # Unset => job[w].in.expect = "holds"
      /\ UNCHANGED <<registry, archive, cache, layer, store, builds>>
  BY DEF Compile
<1>3. /\ Sane(s, job[w].in) /\ Asked(s, job[w].seed)
      /\ job[w].action \in IF s.SeedPush THEN 1..builds ELSE {0}
      /\ Named(job[w].cc, toolchainHash(s))
      /\ MountId(s) \in DOMAIN mount[w] /\ old.stamp = Stamp(s, job[w].in)
      /\ s.SeedPush => Pushes(job[w].seed)
  BY <1>2 DEF ServiceInv, BuildInv, Working
<1>4. toolchainHash(s) \in OwnSeeds => \A c \in old.objects : Named(c, toolchainHash(s))
  <2>1. MountId(s)[3] = toolchainHash(s)
    BY DEF MountId
  <2> QED
    BY <1>3, <2>1 DEF ServiceInv, MountsInv
<1>5. /\ objects # {}
      /\ toolchainHash(s) \in OwnSeeds => \A c \in objects : Named(c, toolchainHash(s))
  BY <1>3, <1>4
<1>6. /\ job'[w] = [pc |-> "built", spec |-> s, in |-> job[w].in,
                    seed |-> job[w].seed, action |-> job[w].action, cc |-> job[w].cc]
      /\ job' = [v \in Workers |-> job'[v]]
      /\ \A v \in Workers \ {w} : job'[v] = job[v]
      /\ \A e \in cache' : EntryInv(e)'
      /\ FreshActions'
  <2>1. job[w].pc \in Working \ {"solve"} /\ UNCHANGED <<cache, builds>>
    BY <1>2 DEF Working
  <2>2. "built" \in {"tree", "built", "pushed"}
    OBVIOUS
  <2> QED
    BY <1>2, <2>1, <2>2, PhaseKeeps
<1> HIDE DEF s, old
<1>7. /\ mount' = [v \in Workers |-> mount'[v]]
      /\ \A v \in Workers \ {w} : mount'[v] = mount[v]
      /\ MountsInv'
      /\ MountId(s) \in DOMAIN mount'[w]
      /\ mount'[w][MountId(s)].stamp = old.stamp
      /\ mount'[w][MountId(s)].objects = objects
  <2>1. PICK x, tree : x = s /\ tree = [stamp |-> old.stamp, objects |-> objects]
    OBVIOUS
  <2>2. mount' = [mount EXCEPT ![w] = Put(@, MountId(x), tree)]
    BY <1>1, <2>1
  <2>3. tree.stamp = old.stamp /\ tree.objects = objects
    BY <2>1
  <2>4. toolchainHash(x) \in OwnSeeds =>
          \A c \in tree.objects : Named(c, toolchainHash(x))
    BY <1>5, <2>1, <2>3
  <2>5. /\ mount' = [v \in Workers |-> mount'[v]]
        /\ \A v \in Workers \ {w} : mount'[v] = mount[v]
        /\ MountsInv'
        /\ MountId(x) \in DOMAIN mount'[w] /\ mount'[w][MountId(x)] = tree
    BY <2>2, <2>4, MountNamed, Zenon
  <2> QED
    BY <2>1, <2>3, <2>5
<1>8. BuildInv(w)'
  BY <1>2, <1>3, <1>5, <1>6, <1>7 DEF BuildInv, Working
<1>9. \A v \in Workers : BuildInv(v)'
  <2>1. builds' = builds
    BY <1>2
  <2> QED
    BY <1>6, <1>7, <1>8, <2>1, OthersKept
<1> QED
  BY <1>2, <1>6, <1>7, <1>9 DEF ServiceInv, StoreInv

\* Who pushes where a toolchain with seeds of its own pulls is of that
\* toolchain, and so are the objects on its mount.
LEMMA PushKeeps ==
    ASSUME ServiceInv, NEW w \in Workers, Push(w)
    PROVE  ServiceInv'
<1> DEFINE s == job[w].spec
           at == job[w].seed.at
           tree == mount[w][MountId(s)]
<1>1. /\ job[w].pc = "built" /\ Pushes(job[w].seed)
      /\ store' = Put(store, at, tree)
      /\ job' = [job EXCEPT ![w].pc = "pushed"]
      /\ UNCHANGED <<registry, archive, cache, layer, mount, builds>>
  BY DEF Push
<1>2. /\ Sane(s, job[w].in) /\ Asked(s, job[w].seed)
      /\ job[w].action \in IF s.SeedPush THEN 1..builds ELSE {0}
      /\ Named(job[w].cc, toolchainHash(s))
      /\ MountId(s) \in DOMAIN mount[w] /\ tree.stamp = Stamp(s, job[w].in)
      /\ s.SeedPush => Pushes(job[w].seed)
      /\ tree.objects # {}
      /\ s.ExpectName # Unset => job[w].in.expect = "holds"
  BY <1>1 DEF ServiceInv, BuildInv, Working
<1>3. PICK q \in Requests : job[w].seed = q.seed /\ toolchainHash(s) \in Toolchains(q)
  BY <1>2, AskedToolchain
<1>4. MountId(s)[3] = toolchainHash(s)
  BY DEF MountId
<1>5. /\ job'[w] = [pc |-> "pushed", spec |-> s, in |-> job[w].in,
                    seed |-> job[w].seed, action |-> job[w].action, cc |-> job[w].cc]
      /\ job' = [v \in Workers |-> job'[v]]
      /\ \A v \in Workers \ {w} : job'[v] = job[v]
      /\ \A e \in cache' : EntryInv(e)'
      /\ FreshActions'
  <2>1. job[w].pc \in Working \ {"solve"} /\ UNCHANGED <<cache, builds>>
    BY <1>1 DEF Working
  <2>2. "pushed" \in {"tree", "built", "pushed"}
    OBVIOUS
  <2> QED
    BY <1>1, <2>1, <2>2, PhaseKeeps
<1>6. StoreInv'
  <2> SUFFICES ASSUME NEW r \in Requests, r.seed.at \in DOMAIN store',
                      NEW h \in Toolchains(r), h \in OwnSeeds,
                      NEW c \in store'[r.seed.at].objects
               PROVE  Named(c, h)
    BY DEF StoreInv
  <2>1. CASE r.seed.at = at
    <3>1. Toolchains(q) = {h}
      BY <1>1, <1>3, <2>1 DEF OwnSeeds
    <3>2. toolchainHash(s) = h
      BY <1>3, <3>1
    <3>3. c \in tree.objects
      BY <1>1, <2>1 DEF Put
    <3> QED
      BY <1>2, <1>4, <3>2, <3>3 DEF ServiceInv, MountsInv
  <2>2. CASE r.seed.at # at
    <3>1. r.seed.at \in DOMAIN store /\ c \in store[r.seed.at].objects
      BY <1>1, <2>2 DEF Put
    <3> QED
      BY <3>1 DEF ServiceInv, StoreInv
  <2> QED
    BY <2>1, <2>2
<1>7. BuildInv(w)'
  <2> HIDE DEF s, tree
  <2>1. mount'[w][MountId(s)] = tree /\ MountId(s) \in DOMAIN mount'[w]
    BY <1>1, <1>2 DEF tree
  <2> DEFINE x == job'[w]
  <2>2. /\ x.pc = "pushed" /\ x.spec = s /\ x.in = job[w].in
        /\ x.seed = job[w].seed /\ x.action = job[w].action /\ x.cc = job[w].cc
    BY <1>5
  <2>3. x = [pc |-> x.pc, spec |-> x.spec, in |-> x.in, seed |-> x.seed,
             action |-> x.action, cc |-> x.cc]
    BY <1>5, <2>2
  <2>4. builds' = builds
    BY <1>1
  <2> QED
    BY <1>2, <2>1, <2>2, <2>3, <2>4 DEF BuildInv, Working
<1>8. \A v \in Workers : BuildInv(v)'
  <2>1. builds' = builds /\ mount' = mount
    BY <1>1
  <2> QED
    BY <1>5, <1>7, <2>1, OthersKept
<1> QED
  BY <1>1, <1>5, <1>6, <1>8 DEF ServiceInv, MountsInv

\* What is delivered and cached is made of the tree on the mount, and the
\* result enters the cache under an action that no other push has.
LEMMA FinishKeeps ==
    ASSUME ServiceInv, NEW w \in Workers, Finish(w)
    PROVE  ServiceInv'
<1> DEFINE s == job[w].spec
           in == job[w].in
           tree == mount[w][MountId(s)]
           art == Artifact(s, in, tree)
           entry == [key |-> Key(w), spec |-> s, in |-> in, art |-> art]
<1>1. /\ job[w].pc \in {"built", "pushed"}
      /\ Pushes(job[w].seed) => job[w].pc = "pushed"
      /\ cache' = cache \union {entry}
      /\ Answer(w, art, job[w].pc = "pushed")
      /\ UNCHANGED <<registry, archive, layer, mount, store, builds>>
  BY DEF Finish
<1>2. /\ BuildInv(w) /\ Sane(s, in) /\ builds \in Nat
      /\ job[w].action \in IF s.SeedPush THEN 1..builds ELSE {0}
      /\ MountId(s) \in DOMAIN mount[w] /\ tree.objects # {} /\ tree.stamp = Stamp(s, in)
      /\ s.SeedPush => Pushes(job[w].seed)
      /\ s.ExpectName # Unset => in.expect = "holds"
  BY <1>1 DEF ServiceInv, BuildInv, Working
<1>3. toolchainHash(s) \in OwnSeeds =>
        \A c \in tree.objects : Named(c, toolchainHash(s))
  <2>1. MountId(s)[3] = toolchainHash(s)
    BY DEF MountId
  <2> QED
    BY <1>2, <2>1 DEF ServiceInv, MountsInv
<1>4. Right(s, in, art)
  <2>1. art.compilers = tree.objects
    BY DEF Artifact
  <2>2. art = Artifact(s, in, [stamp |-> Stamp(s, in), objects |-> art.compilers])
    <3>1. ASSUME NEW x PROVE /\ [stamp |-> Stamp(s, in), objects |-> x].stamp = Stamp(s, in)
                             /\ [stamp |-> Stamp(s, in), objects |-> x].objects = x
      OBVIOUS
    <3> QED
      BY <1>2, <2>1, <3>1 DEF Artifact
  <2>3. (s.ToolchainReady /\ toolchainHash(s) \in OwnSeeds) =>
          tree.objects = {Compiler(s, 0)}
    <3> HIDE DEF tree, s
    <3> QED
      BY <1>2, <1>3, ReadyObjects
  <2> HIDE DEF art, tree
  <2> QED
    BY <1>2, <2>1, <2>2, <2>3 DEF Right
<1>5. /\ entry.key = CompileKey(s, in, job[w].action) /\ entry.spec = s
      /\ entry.in = in /\ entry.art = art
      /\ ActionOf(entry) = job[w].action
  <2>1. /\ entry.key = CompileKey(s, in, job[w].action) /\ entry.spec = s
        /\ entry.in = in /\ entry.art = art
    BY DEF Key
  <2>2. CompileKey(s, in, job[w].action)[3] = Env(s, job[w].action)
    BY DEF CompileKey
  <2>3. Env(s, job[w].action).SEED_ACTION = job[w].action
    BY DEF Env
  <2> QED
    BY <2>1, <2>2, <2>3 DEF ActionOf
<1>6. /\ job'[w].pc = "done" /\ job'[w].spec = s /\ job'[w].in = in
      /\ job'[w].art = art /\ (s.SeedPush => job'[w].pushed)
      /\ job' = [v \in Workers |-> job'[v]]
      /\ \A v \in Workers \ {w} : job'[v] = job[v]
  <2>1. job'[w] = [pc |-> "done", spec |-> s, in |-> in, art |-> art,
                   pushed |-> (job[w].pc = "pushed")]
    BY <1>1 DEF ServiceInv, Answer
  <2>2. s.SeedPush => job[w].pc = "pushed"
    BY <1>1, <1>2
  <2>3. /\ job' = [v \in Workers |-> job'[v]]
        /\ \A v \in Workers \ {w} : job'[v] = job[v]
    BY <1>1 DEF ServiceInv, Answer
  <2> HIDE DEF s, in, art
  <2>4. PICK done : done = (job[w].pc = "pushed")
    OBVIOUS
  <2>5. job'[w] = [pc |-> "done", spec |-> s, in |-> in, art |-> art, pushed |-> done]
    BY <2>1, <2>4, Zenon
  <2>6. /\ job'[w].pc = "done" /\ job'[w].spec = s /\ job'[w].in = in
        /\ job'[w].art = art /\ job'[w].pushed = done
    BY <2>5
  <2>7. s.SeedPush => job'[w].pushed
    BY <2>2, <2>4, <2>6, Zenon
  <2> QED
    BY <2>3, <2>6, <2>7
<1> HIDE DEF s, in, tree, art, entry
<1>7. EntryInv(entry)
  BY <1>2, <1>4, <1>5 DEF EntryInv
<1>8. \A x \in cache' : EntryInv(x)'
  <2>1. \A x \in cache' : EntryInv(x)
    BY <1>1, <1>7 DEF ServiceInv
  <2>2. builds' = builds /\ builds \in Nat
    BY <1>1, <1>2
  <2> QED
    BY <2>1, <2>2, EntryKept
<1>9. BuildInv(w)'
  BY <1>2, <1>4, <1>6 DEF BuildInv, Working
<1>10. \A v \in Workers : BuildInv(v)'
  <2>1. \A v \in Workers \ {w} : job'[v] = job[v] /\ mount'[v] = mount[v]
    BY <1>1, <1>6
  <2>2. builds' = builds
    BY <1>1
  <2> QED
    BY <1>9, <2>1, <2>2, OthersKept
<1>11. FreshActions'
  <2>1. SUFFICES ASSUME NEW x \in Workers \ {w}, job[x].pc \in Working,
                        job[x].spec.SeedPush
                 PROVE  /\ \A e \in cache \union {entry} : ActionOf(e) # job[x].action
                        /\ \A v \in Workers \ {x} :
                              job'[v].pc \in Working => job'[v].action # job[x].action
    BY <1>1, <1>6, <2>1 DEF FreshActions, ActionOf, Working
  <2>2. /\ \A e \in cache : ActionOf(e) # job[x].action
        /\ \A v \in Workers \ {x} :
              job[v].pc \in Working => job[v].action # job[x].action
    BY <2>1 DEF ServiceInv, FreshActions
  <2>3. ActionOf(entry) # job[x].action
    BY <1>1, <1>5, <2>2 DEF Working
  <2> QED
    BY <1>6, <2>2, <2>3 DEF Working
<1>12. UNCHANGED <<registry, archive, layer, mount, store, builds>>
  BY <1>1
<1> QED
  BY <1>6, <1>8, <1>10, <1>11, <1>12 DEF ServiceInv, MountsInv, StoreInv

LEMMA FailKeeps ==
    ASSUME ServiceInv, NEW w \in Workers, Fail(w)
    PROVE  ServiceInv'
<1>1. /\ job[w].pc \in {"step", "tree", "built", "pushed"}
      /\ UNCHANGED <<registry, archive, cache, layer, mount, store, builds>>
      /\ builds \in Nat /\ BuildInv(w)
  BY DEF Fail, ServiceInv
<1>2. /\ job'[w].pc = "idle"
      /\ job' = [v \in Workers |-> job'[v]]
      /\ \A v \in Workers \ {w} : job'[v] = job[v]
  BY DEF Fail, ServiceInv, Idle
<1>3. BuildInv(w)'
  BY <1>1, <1>2 DEF BuildInv, Working
<1>4. \A v \in Workers : BuildInv(v)'
  BY <1>1, <1>2, <1>3, OthersKept
<1>5. \A x \in cache' : EntryInv(x)'
  BY <1>1, EntryKept DEF ServiceInv
<1>6. FreshActions'
  BY <1>1, <1>2, FreshKept DEF ServiceInv, Working
<1> QED
  BY <1>1, <1>2, <1>4, <1>5, <1>6 DEF ServiceInv, MountsInv, StoreInv

\* Losing layers, mounts or results of an idle worker breaks no promise.
LEMMA LossKeeps ==
    ASSUME ServiceInv, NEW w \in Workers, Prune(w) \/ Collect(w)
    PROVE  ServiceInv'
<1>1. /\ job[w].pc \in {"idle", "done"}
      /\ layer' = [layer EXCEPT ![w] = Empty]
      /\ mount' = mount \/ mount' = [mount EXCEPT ![w] = Empty]
      /\ cache' = cache \/ cache' = {}
      /\ UNCHANGED <<registry, archive, store, job, builds>>
  BY DEF Prune, Collect
<1>2. /\ layer' = [v \in Workers |-> layer'[v]] /\ mount' = [v \in Workers |-> mount'[v]]
      /\ \A v \in Workers \ {w} : layer'[v] = layer[v] /\ mount'[v] = mount[v]
      /\ layer'[w] = Empty
      /\ mount'[w] = Empty \/ mount'[w] = mount[w]
  BY <1>1 DEF ServiceInv
<1>3. DOMAIN Empty = {}
  BY DEF Empty
<1>4. /\ \A v \in Workers : \A k \in DOMAIN layer'[v] : layer'[v][k] \in 1..Archives
      /\ MountsInv'
  <2>1. /\ \A v \in Workers : \A k \in DOMAIN layer[v] : layer[v][k] \in 1..Archives
        /\ MountsInv
    BY DEF ServiceInv
  <2>2. \A v \in Workers : mount'[v] = mount[v] \/ DOMAIN mount'[v] = {}
    BY <1>2, <1>3
  <2> QED
    BY <1>2, <1>3, <2>1, <2>2 DEF MountsInv
<1>5. BuildInv(w)'
  <2>1. BuildInv(w) /\ builds \in Nat
    BY DEF ServiceInv
  <2>2. /\ job'[w] = job[w] /\ job[w].pc \notin {"tree", "built", "pushed"}
        /\ builds' = builds
    BY <1>1
  <2>3. builds' \in Nat /\ builds <= builds'
    BY <2>1, <2>2
  <2> QED
    BY <2>1, <2>2, <2>3, BuildKept
<1>6. \A v \in Workers : BuildInv(v)'
  BY <1>1, <1>2, <1>5, OthersKept
<1>7. \A x \in cache' : EntryInv(x)'
  BY <1>1, EntryKept DEF ServiceInv
<1>8. FreshActions'
  BY <1>1 DEF ServiceInv, FreshActions, ActionOf
<1> QED
  BY <1>1, <1>2, <1>4, <1>6, <1>7, <1>8 DEF ServiceInv, StoreInv

LEMMA EnvironmentKeeps ==
    ASSUME ServiceInv, Retag \/ Upgrade \/ UNCHANGED vars
    PROVE  ServiceInv'
<1>1. /\ UNCHANGED <<cache, layer, mount, store, job, builds>>
      /\ archive' = archive \/ (archive < Archives /\ archive' = archive + 1)
      /\ registry' = registry \/ (registry < Len(Digests) /\ registry' = registry + 1)
  BY DEF Retag, Upgrade, vars
<1>2. archive' \in 1..Archives /\ registry' \in 1..Len(Digests)
  <2>1. /\ Archives \in Nat /\ archive \in 1..Archives
        /\ Len(Digests) \in Nat /\ registry \in 1..Len(Digests)
    BY ServiceAssumption DEF ServiceInv
  <2> QED
    BY <1>1, <2>1
<1>3. \A v \in Workers : BuildInv(v)'
  BY <1>1 DEF ServiceInv, BuildInv
<1>4. \A x \in cache' : EntryInv(x)'
  BY <1>1 DEF ServiceInv, EntryInv
<1>5. FreshActions'
  BY <1>1 DEF ServiceInv, FreshActions, ActionOf
<1> QED
  BY <1>1, <1>2, <1>3, <1>4, <1>5 DEF ServiceInv, MountsInv, StoreInv

\* The strengthened invariant of the builds, by client driver and gateway and
\* with any secrets: a result in the cache is what its key says, and what lies
\* on a mount or in the seed of a toolchain that shares no seed with another
\* is of that toolchain, after any history of builds, prunes, retags and
\* archive upgrades.
THEOREM ServiceInvariant == Spec => []ServiceInv
<1>1. Init => ServiceInv
  <2> SUFFICES ASSUME Init PROVE ServiceInv
    OBVIOUS
  <2>1. DOMAIN Empty = {}
    BY DEF Empty
  <2>2. \A w \in Workers : layer[w] = Empty /\ mount[w] = Empty /\ job[w].pc = "idle"
    BY DEF Init, Idle
  <2>3. /\ archive \in 1..Archives /\ registry \in 1..Len(Digests)
        /\ builds \in Nat /\ cache = {} /\ store = Empty
    <3>1. Archives \in Nat \ {0} /\ Len(Digests) \in Nat \ {0}
      BY ServiceAssumption
    <3> QED
      BY <3>1 DEF Init
  <2>4. /\ layer = [w \in Workers |-> layer[w]] /\ mount = [w \in Workers |-> mount[w]]
        /\ job = [w \in Workers |-> job[w]]
    BY DEF Init
  <2>5. \A w \in Workers : BuildInv(w)
    BY <2>2 DEF BuildInv, Working
  <2> QED
    BY <2>1, <2>2, <2>3, <2>4, <2>5 DEF ServiceInv, MountsInv, StoreInv,
       FreshActions, Working
<1>2. ServiceInv /\ [Next]_vars => ServiceInv'
  <2> SUFFICES ASSUME ServiceInv, [Next]_vars PROVE ServiceInv'
    OBVIOUS
  <2>1. CASE \E w \in Workers :
               \/ Submit(w) \/ Hit(w) \/ Start(w) \/ Prepare(w) \/ Compile(w)
               \/ Push(w) \/ Finish(w) \/ Fail(w) \/ Prune(w) \/ Collect(w)
    BY <2>1, SubmitKeeps, HitKeeps, StartKeeps, PrepareKeeps, CompileKeeps,
       PushKeeps, FinishKeeps, FailKeeps, LossKeeps
  <2>2. CASE Retag \/ Upgrade \/ UNCHANGED vars
    BY <2>2, EnvironmentKeeps
  <2> QED
    BY <2>1, <2>2 DEF Next
<1> QED
  BY <1>1, <1>2, PTL DEF Spec

-----------------------------------------------------------------------------
(***************************************************************************)
(* The properties.                                                         *)
(***************************************************************************)
\* Objects of two compilers share a tree only if they are two states of the
\* apt archive under one base and prefix, or if their toolchain pulls a seed
\* that builds of another may have pushed.
THEOREM OneCompilerHolds == Spec => []OneCompiler
<1>1. ASSUME NEW objects, NEW hash, \A c \in objects : Named(c, hash)
      PROVE  Alike(objects)
  <2> SUFFICES ASSUME NEW c \in objects, NEW d \in objects
               PROVE  /\ c.base = d.base /\ c.prefix = d.prefix
                      /\ c = d \/ 0 \notin {c.apt, d.apt}
    BY DEF Alike
  <2>1. /\ c = [base |-> hash[1].digest, apt |-> c.apt, prefix |-> hash[2]]
        /\ d = [base |-> hash[1].digest, apt |-> d.apt, prefix |-> hash[2]]
        /\ (c.apt = 0) <=> (d.apt = 0)
    BY <1>1 DEF Named
  <2> QED
    BY <2>1
<1>2. ServiceInv => OneCompiler
  <2> SUFFICES ASSUME ServiceInv PROVE OneCompiler
    OBVIOUS
  <2>1. ASSUME NEW w \in Workers, NEW id \in DOMAIN mount[w], id[3] \in OwnSeeds
        PROVE  Alike(mount[w][id].objects)
    BY <1>1, <2>1 DEF ServiceInv, MountsInv
  <2>2. ASSUME NEW r \in Requests, r.seed.at \in DOMAIN store,
               Toolchains(r) \intersect OwnSeeds # {}
        PROVE  Alike(store[r.seed.at].objects)
    <3>1. PICK h : h \in Toolchains(r) \intersect OwnSeeds
      BY <2>2
    <3> QED
      BY <1>1, <2>2, <3>1 DEF ServiceInv, StoreInv
  <2> QED
    BY <2>1, <2>2 DEF OneCompiler
<1> QED
  BY <1>2, ServiceInvariant, PTL

\* A build that succeeds, executed or found, delivers what its own Spec and
\* inputs determine, with whatever secrets; of the compilers it says so for a
\* ready toolchain that shares no seed with another.
THEOREM AnswersAreRight == Spec => []AnswersRight
<1>1. ServiceInv => AnswersRight
  BY DEF ServiceInv, BuildInv, AnswersRight
<1> QED
  BY <1>1, ServiceInvariant, PTL

\* A push that is reported done was done by that build.
THEOREM PushesHappen == Spec => []PushHappens
<1>1. ServiceInv => PushHappens
  BY DEF ServiceInv, BuildInv, PushHappens
<1> QED
  BY <1>1, ServiceInvariant, PTL

\* Proxies and the place of the seed are in no key.
LEMMA NeutralKey ==
    ASSUME NEW s, NEW q, NEW in, IsSpec(s), IsSpec(q), Neutral(s) = Neutral(q)
    PROVE  s.SeedPush = q.SeedPush /\ CompileKey(s, in, 0) = CompileKey(q, in, 0)
<1> DEFINE Kept == SpecFields \ NeutralFields
<1>1. DOMAIN s = SpecFields /\ DOMAIN q = SpecFields
  <2>1. s = [f \in SpecFields |-> s[f]] /\ q = [f \in SpecFields |-> q[f]]
    BY DEF IsSpec
  <2> QED
    BY <2>1
<1>2. \A f \in Kept : s[f] = q[f]
  <2>1. /\ Neutral(s) = [f \in Kept |-> s[f]] /\ Neutral(q) = [f \in Kept |-> q[f]]
    BY <1>1 DEF Neutral
  <2> HIDE DEF Kept
  <2> QED
    BY <2>1
<1>3. {"Base", "KernelVersion", "NetworkHost", "ToolchainReady", "ProxyCAFile",
       "SourceDateEpoch", "SourceLocalName", "SourceSHA256", "SourceURL", "Arch",
       "CrossCompile", "Targets", "ApplyPatches", "BaseMake", "ExpectName",
       "SeedPush"}
        \subseteq Kept
  BY DEF SpecFields, DefaultSpec, NeutralFields
<1> HIDE DEF Kept
<1>4. /\ s.Base = q.Base /\ s.KernelVersion = q.KernelVersion
      /\ s.NetworkHost = q.NetworkHost /\ s.ToolchainReady = q.ToolchainReady
      /\ s.ProxyCAFile = q.ProxyCAFile /\ s.SourceDateEpoch = q.SourceDateEpoch
      /\ s.SourceLocalName = q.SourceLocalName /\ s.SourceSHA256 = q.SourceSHA256
      /\ s.SourceURL = q.SourceURL /\ s.Arch = q.Arch
      /\ s.CrossCompile = q.CrossCompile /\ s.Targets = q.Targets
      /\ s.ApplyPatches = q.ApplyPatches /\ s.BaseMake = q.BaseMake
      /\ s.ExpectName = q.ExpectName
  BY <1>2, <1>3
<1>5. s.SeedPush = q.SeedPush
  BY <1>2, <1>3
<1>6. /\ archOrDefault(s) = archOrDefault(q) /\ crossOrDefault(s) = crossOrDefault(q)
      /\ targetsOrDefault(s) = targetsOrDefault(q) /\ Mode(s) = Mode(q)
      /\ Source(s) = Source(q)
  BY <1>4 DEF archOrDefault, crossOrDefault, targetsOrDefault, Mode, Source
<1>7. toolchainHash(s) = toolchainHash(q) /\ patchedSuffix(s) = patchedSuffix(q)
  BY <1>4, <1>6 DEF toolchainHash, patchedSuffix
<1>8. ToolchainKey(s, in) = ToolchainKey(q, in)
  BY <1>4, <1>6 DEF ToolchainKey
<1>9. MountId(s) = MountId(q)
  BY <1>4, <1>6, <1>7 DEF MountId
<1>10. Env(s, 0) = Env(q, 0)
  BY <1>4, <1>5, <1>6 DEF Env
<1>11. Mounted(s, in) = Mounted(q, in)
  BY <1>4 DEF Mounted
<1> QED
  BY <1>5, <1>8, <1>9, <1>10, <1>11 DEF CompileKey

\* Only Start executes a build, and only without a result under its key.
LEMMA RunNeeded ==
    ASSUME ServiceInv, Next, NEW w \in Workers,
           job[w].pc = "solve", job'[w].pc = "step"
    PROVE  job[w].spec.IgnoreCache \/ Found(w) = {}
<1>1. ASSUME NEW v \in Workers, Submit(v) \/ Hit(v) \/ Finish(v) \/ Fail(v) PROVE FALSE
  <2>1. /\ \A u \in Workers \ {v} : job'[u] = job[u]
        /\ job'[v].pc \in {"solve", "done", "idle"}
    <3>1. CASE Submit(v)
      BY <3>1 DEF ServiceInv, Submit
    <3>2. CASE \E art, pushed : Answer(v, art, pushed)
      BY <3>2 DEF ServiceInv, Answer
    <3>3. CASE Fail(v)
      BY <3>3 DEF ServiceInv, Fail, Idle
    <3> QED
      BY <1>1, <3>1, <3>2, <3>3 DEF Hit, Finish
  <2> QED
    BY <2>1
<1>2. ASSUME NEW v \in Workers, Prepare(v) \/ Compile(v) \/ Push(v) PROVE FALSE
  <2>1. \A u \in Workers \ {v} : job'[u] = job[u]
    BY <1>2 DEF ServiceInv, Prepare, Compile, Push
  <2>2. job[v].pc \in {"step", "tree", "built"}
    BY <1>2 DEF Prepare, Compile, Push
  <2> QED
    BY <2>1, <2>2
<1>3. ASSUME UNCHANGED job PROVE FALSE
  BY <1>3
<1>4. ASSUME NEW v \in Workers, Start(v)
      PROVE  job[w].spec.IgnoreCache \/ Found(w) = {}
  <2>1. /\ \A u \in Workers \ {v} : job'[u] = job[u]
        /\ job[v].spec.IgnoreCache \/ Found(v) = {}
    BY <1>4 DEF ServiceInv, Start
  <2> QED
    BY <2>1
<1>5. CASE \E v \in Workers :
             \/ Submit(v) \/ Hit(v) \/ Start(v) \/ Prepare(v) \/ Compile(v)
             \/ Push(v) \/ Finish(v) \/ Fail(v) \/ Prune(v) \/ Collect(v)
  BY <1>1, <1>2, <1>3, <1>4, <1>5 DEF Prune, Collect
<1>6. CASE Retag \/ Upgrade
  BY <1>3, <1>6 DEF Retag, Upgrade
<1> QED
  BY <1>5, <1>6 DEF Next

\* No build that is to push nothing is executed while the cache holds the
\* result of one that differs at most in proxies, in where the seed lies and
\* in the secret.
THEOREM RunsAreNeeded == Spec => NoNeedlessRun
<1>1. ASSUME ServiceInv, Next, NEW w \in Workers,
             job[w].pc = "solve", job'[w].pc = "step",
             ~job[w].spec.IgnoreCache, ~job[w].spec.SeedPush,
             NEW e \in cache, e.in = job[w].in,
             Neutral(e.spec) = Neutral(job[w].spec)
      PROVE  FALSE
  <2>1. BuildInv(w) /\ EntryInv(e)
    BY <1>1 DEF ServiceInv
  <2>2. /\ IsSpec(job[w].spec) /\ job[w].action = 0
    BY <1>1, <2>1 DEF BuildInv, Sane, Working
  <2>3. IsSpec(e.spec)
    BY <2>1 DEF EntryInv, Sane
  <2>4. /\ ~e.spec.SeedPush
        /\ CompileKey(e.spec, e.in, 0) = CompileKey(job[w].spec, e.in, 0)
    BY <1>1, <2>2, <2>3, NeutralKey
  <2>5. e.key = CompileKey(e.spec, e.in, 0)
    BY <2>1, <2>4 DEF EntryInv
  <2>6. e \in Found(w)
    BY <1>1, <2>2, <2>4, <2>5 DEF Found, Key
  <2> QED
    BY <1>1, <2>6, RunNeeded
<1>2. ServiceInv /\ [Next]_vars =>
        [\A w \in Workers :
          (job[w].pc = "solve" /\ job'[w].pc = "step") =>
            \/ job[w].spec.IgnoreCache \/ job[w].spec.SeedPush
            \/ \A e \in cache :
                  e.in # job[w].in \/ Neutral(e.spec) # Neutral(job[w].spec)]_vars
  BY <1>1
<1> QED
  BY <1>2, ServiceInvariant, PTL DEF Spec, NoNeedlessRun
=============================================================================
