---------------------------- MODULE BuildService ----------------------------
(***************************************************************************)
(* Builds of many Specs over time on several workers: the graph that       *)
(* KernelLLB makes of a Spec (llb.go), as BuildKit executes it.  What      *)
(* builds have in common is found by identities computed from the Spec:    *)
(* the key of the compile vertex and the id of the cache mount; and by the *)
(* place of the seed, which the step takes from the seed_cfg secret.  The  *)
(* client driver writes that secret from the Spec, the user of a gateway   *)
(* writes it by hand.  ObjectTree models what happens on one mount; here a *)
(* tree is reduced to its stamp and the compilers its objects came from.   *)
(***************************************************************************)
EXTENDS KernelSpec, FiniteSets

CONSTANTS
    Workers,       \* buildkitd instances, one build at a time on each
    Requests,      \* [spec, in, seed]: a Spec, its inputs, the seed_cfg secret
    Digests,       \* the images a tag comes to name, one after the other
    Archives,      \* the compilers the apt archive comes to serve: 1..n
    MaxBuilds      \* how many builds a behaviour has

ASSUME ServiceAssumption ==
    /\ Len(Digests) \in Nat \ {0}
    /\ \A i \in 1..Len(Digests) : Digests[i] # Unset
    /\ Archives \in Nat \ {0} /\ MaxBuilds \in Nat
    /\ \A r \in Requests : IsSpec(r.spec) /\ Validate(r.spec)
    \* Unset marks an input that is not mounted and is the content of none.
    /\ \A r \in Requests : r.in.expect # Unset
    \* What an unpinned source stands for is ObjectTree's subject.
    /\ \A r \in Requests : r.spec.SourceLocalName # Unset \/ r.spec.SourceSHA256 # Unset
    \* The secret is the client driver's or, in a gateway build, whose Spec
    \* never has a SeedURL, whatever the user wrote.
    /\ \A r \in Requests : r.seed = SeedCfg(r.spec) \/ r.spec.SeedURL = Unset

VARIABLES
    registry,      \* Digests[registry] is what every tag names
    archive,       \* the compiler in the apt archive
    cache,         \* results of compile vertices, shared by cache export
    layer,         \* layer[w]: results of toolchain vertices
    mount,         \* mount[w]: trees, [stamp, objects], by mount id
    store,         \* the trees in the seed objects, by their place
    job,           \* job[w]: the build that worker w executes
    builds         \* how many builds there have been

vars == <<registry, archive, cache, layer, mount, store, job, builds>>

Drop(f, k) == [x \in DOMAIN f \ {k} |-> f[x]]
Put(f, k, v) == [x \in DOMAIN f \union {k} |-> IF x = k THEN v ELSE f[x]]
Empty == [x \in {} |-> {}]

Idle == [pc |-> "idle"]

Init ==
    /\ registry = 1
    /\ archive = 1
    /\ cache = {}
    /\ layer = [w \in Workers |-> Empty]
    /\ mount = [w \in Workers |-> Empty]
    /\ store = Empty
    /\ job = [w \in Workers |-> Idle]
    /\ builds = 0

-----------------------------------------------------------------------------
(***************************************************************************)
(* The graph of a Spec.                                                    *)
(***************************************************************************)
\* The content of an input that is mounted only if its field is set.
If(set, content) == IF set THEN content ELSE Unset

\* The toolchain vertex depends on the base, its script, the network mode and
\* the CA file, by name and content.
ToolchainKey(s, in) ==
    <<s.Base, s.NetworkHost, Mode(s), s.ProxyCAFile, If(s.ProxyCAFile # Unset, in.ca)>>

\* Mutant of Env: the make base is handed over some other way.
Env_NoBase(s, action) ==
    [SOURCE_DATE_EPOCH |-> s.SourceDateEpoch,
     SRC |-> Source(s),
     KARCH |-> archOrDefault(s),
     CROSS_COMPILE |-> crossOrDefault(s),
     TARGETS |-> targetsOrDefault(s),
     APPLY_PATCHES |-> s.ApplyPatches,
     SEED_PUSH |-> s.SeedPush,
     SEED_ACTION |-> action]

\* Mutant of Env: a push has no action of its own.
Env_NoAction(s, action) ==
    [SOURCE_DATE_EPOCH |-> s.SourceDateEpoch,
     SRC |-> Source(s),
     KARCH |-> archOrDefault(s),
     CROSS_COMPILE |-> crossOrDefault(s),
     TARGETS |-> targetsOrDefault(s),
     APPLY_PATCHES |-> s.ApplyPatches,
     BASE_MAKE |-> s.BaseMake,
     SEED_PUSH |-> s.SeedPush]

\* Mutant of Env: the proxy is an ordinary variable.
Env_Proxy(s, action) ==
    [SOURCE_DATE_EPOCH |-> s.SourceDateEpoch,
     SRC |-> Source(s),
     KARCH |-> archOrDefault(s),
     CROSS_COMPILE |-> crossOrDefault(s),
     TARGETS |-> targetsOrDefault(s),
     APPLY_PATCHES |-> s.ApplyPatches,
     BASE_MAKE |-> s.BaseMake,
     SEED_PUSH |-> s.SeedPush,
     SEED_ACTION |-> action,
     HTTPS_PROXY |-> s.HTTPSProxy]

\* The environment of the compile vertex; proxies are not part of it.
Env(s, action) ==
    [SOURCE_DATE_EPOCH |-> s.SourceDateEpoch,
     SRC |-> Source(s),
     KARCH |-> archOrDefault(s),
     CROSS_COMPILE |-> crossOrDefault(s),
     TARGETS |-> targetsOrDefault(s),
     APPLY_PATCHES |-> s.ApplyPatches,
     BASE_MAKE |-> s.BaseMake,
     SEED_PUSH |-> s.SeedPush,
     SEED_ACTION |-> action]

\* What is mounted read-only, by content; the secrets are left out.
Mounted(s, in) ==
    [helper  |-> in.helper,
     config  |-> in.config,
     expect  |-> If(s.ExpectName # Unset, in.expect),
     patches |-> If(s.ApplyPatches, in.patches),
     src     |-> If(s.SourceLocalName # Unset, in.tarball)]

\* What the result of the compile vertex is cached under.
CompileKey(s, in, action) ==
    <<ToolchainKey(s, in), MountId(s), Env(s, action), Mounted(s, in)>>

\* SEED_ACTION is fresh for every push and absent otherwise.
Action(s) == IF s.SeedPush THEN builds ELSE 0

\* The compiler that runs: a tool of the image, by its prefix.  In apt mode
\* the image holds what the archive served.
Compiler(s, served) ==
    [base |-> s.Base.digest, apt |-> IF s.ToolchainReady THEN 0 ELSE served,
     prefix |-> crossOrDefault(s)]

\* What the tree must have been made from (stampWant): no toolchain in it.
Stamp(s, in) ==
    <<IF s.SourceLocalName # Unset THEN <<"local", in.tarball>> ELSE Source(s).id,
      If(s.ApplyPatches, in.patches)>>

\* The artifacts of a Spec and its inputs, made of a tree.
Artifact(s, in, tree) ==
    [source    |-> tree.stamp,
     epoch     |-> s.SourceDateEpoch,
     arch      |-> archOrDefault(s),
     targets   |-> targetsOrDefault(s),
     config    |-> <<s.BaseMake, in.config>>,
     compilers |-> tree.objects]

-----------------------------------------------------------------------------
(***************************************************************************)
(* A build.                                                                *)
(***************************************************************************)
Key(w) == CompileKey(job[w].spec, job[w].in, job[w].action)

Found(w) == {e \in cache : e.key = Key(w)}

\* What GatewaySolve makes of a Spec: it pins the base.
Pin(s, digest) == IF Pinned(s.Base) THEN s ELSE [s EXCEPT !.Base.digest = digest]

\* The secret has been made by then, of the Spec with the base as given.
Submit(w) ==
    /\ job[w].pc \in {"idle", "done"}
    /\ builds < MaxBuilds
    /\ builds' = builds + 1
    /\ \E r \in Requests :
          job' = [job EXCEPT ![w] =
            [pc |-> "solve", spec |-> Pin(r.spec, Digests[registry]), in |-> r.in,
             seed |-> r.seed, action |-> Action(r.spec)']]
    /\ UNCHANGED <<registry, archive, cache, layer, mount, store>>

Answer(w, art, pushed) ==
    job' = [job EXCEPT ![w] =
      [pc |-> "done", spec |-> @.spec, in |-> @.in, art |-> art, pushed |-> pushed]]

Hit(w) ==
    /\ job[w].pc = "solve"
    /\ ~job[w].spec.IgnoreCache
    /\ \E e \in Found(w) : Answer(w, e.art, FALSE)
    /\ UNCHANGED <<registry, archive, cache, layer, mount, store, builds>>

\* The toolchain vertex, executed or found, then the step on its mount,
\* which is a new and empty one for an ignore-cache build.
Start(w) ==
    LET s == job[w].spec
        k == ToolchainKey(s, job[w].in)
        served == IF k \in DOMAIN layer[w] /\ ~s.IgnoreCache THEN layer[w][k]
                  ELSE archive
    IN  /\ job[w].pc = "solve"
        /\ s.IgnoreCache \/ Found(w) = {}
        /\ layer' = [layer EXCEPT ![w] =
                       IF s.ToolchainReady THEN @ ELSE Put(@, k, served)]
        /\ mount' = [mount EXCEPT ![w] =
                       IF s.IgnoreCache THEN Drop(@, MountId(s)) ELSE @]
        /\ job' = [job EXCEPT ![w] =
             [pc |-> "step", spec |-> s, in |-> @.in, seed |-> @.seed,
              action |-> @.action, cc |-> Compiler(s, served)]]
        /\ UNCHANGED <<registry, archive, cache, store, builds>>

\* Mutant of Tree: the stamp of the seed is not compared.
Tree_AnySeed(w) ==
    LET id == MountId(job[w].spec)
        at == job[w].seed.at
        want == Stamp(job[w].spec, job[w].in)
    IN  IF id \in DOMAIN mount[w] /\ mount[w][id].stamp = want THEN mount[w][id]
        ELSE IF at \in DOMAIN store THEN store[at]
        ELSE [stamp |-> want, objects |-> {}]

\* The tree that prepareTree comes to: the one on the mount or in the seed,
\* if it has the right stamp, or a new one.
Tree(w) ==
    LET id == MountId(job[w].spec)
        at == job[w].seed.at
        want == Stamp(job[w].spec, job[w].in)
    IN  IF id \in DOMAIN mount[w] /\ mount[w][id].stamp = want THEN mount[w][id]
        ELSE IF at \in DOMAIN store /\ store[at].stamp = want THEN store[at]
        ELSE [stamp |-> want, objects |-> {}]

\* A push that was asked for and cannot be done ends the step before that.
Prepare(w) ==
    /\ job[w].pc = "step"
    /\ job[w].spec.SeedPush => Pushes(job[w].seed)
    /\ mount' = [mount EXCEPT ![w] = Put(@, MountId(job[w].spec), Tree(w))]
    /\ job' = [job EXCEPT ![w].pc = "tree"]
    /\ UNCHANGED <<registry, archive, cache, layer, store, builds>>

\* The gate passes and make recompiles what it takes to be out of date,
\* all there is in a new tree.
Compile(w) ==
    LET s == job[w].spec
        id == MountId(s)
        tree == mount[w][id]
    IN  /\ job[w].pc = "tree"
        /\ s.ExpectName # Unset => job[w].in.expect = "holds"
        /\ \E objects \in {{job[w].cc}, tree.objects, tree.objects \union {job[w].cc}} \ {{}} :
              mount' = [mount EXCEPT ![w] =
                          Put(@, id, [stamp |-> tree.stamp, objects |-> objects])]
        /\ job' = [job EXCEPT ![w].pc = "built"]
        /\ UNCHANGED <<registry, archive, cache, layer, store, builds>>

\* Whether the step publishes its tree, and where, is up to the secret.
Push(w) ==
    /\ job[w].pc = "built"
    /\ Pushes(job[w].seed)
    /\ store' = Put(store, job[w].seed.at, mount[w][MountId(job[w].spec)])
    /\ job' = [job EXCEPT ![w].pc = "pushed"]
    /\ UNCHANGED <<registry, archive, cache, layer, mount, builds>>

\* The step ends well, and its result goes into the cache.
Finish(w) ==
    LET s == job[w].spec
        art == Artifact(s, job[w].in, mount[w][MountId(s)])
    IN  /\ job[w].pc \in {"built", "pushed"}
        /\ Pushes(job[w].seed) => job[w].pc = "pushed"
        /\ cache' = cache \union
             {[key |-> Key(w), spec |-> s, in |-> job[w].in, art |-> art]}
        /\ Answer(w, art, job[w].pc = "pushed")
        /\ UNCHANGED <<registry, archive, layer, mount, store, builds>>

\* The gate, a failing command, a failed push or a cancelled build.
Fail(w) ==
    /\ job[w].pc \in {"step", "tree", "built", "pushed"}
    /\ job' = [job EXCEPT ![w] = Idle]
    /\ UNCHANGED <<registry, archive, cache, layer, mount, store, builds>>

-----------------------------------------------------------------------------
(***************************************************************************)
(* The environment.                                                        *)
(***************************************************************************)
Retag ==
    /\ registry < Len(Digests)
    /\ registry' = registry + 1
    /\ UNCHANGED <<archive, cache, layer, mount, store, job, builds>>

Upgrade ==
    /\ archive < Archives
    /\ archive' = archive + 1
    /\ UNCHANGED <<registry, cache, layer, mount, store, job, builds>>

\* Prune (client.go) wipes a worker; the cache may live on in a registry.
Prune(w) ==
    /\ job[w].pc \in {"idle", "done"}
    /\ layer' = [layer EXCEPT ![w] = Empty]
    /\ mount' = [mount EXCEPT ![w] = Empty]
    /\ cache' \in {cache, {}}
    /\ UNCHANGED <<registry, archive, store, job, builds>>

\* Garbage collection takes the toolchain layers and leaves the mounts.
Collect(w) ==
    /\ job[w].pc \in {"idle", "done"}
    /\ layer' = [layer EXCEPT ![w] = Empty]
    /\ UNCHANGED <<registry, archive, cache, mount, store, job, builds>>

Next ==
    \/ \E w \in Workers :
          \/ Submit(w) \/ Hit(w) \/ Start(w) \/ Prepare(w) \/ Compile(w)
          \/ Push(w) \/ Finish(w) \/ Fail(w) \/ Prune(w) \/ Collect(w)
    \/ Retag \/ Upgrade

Spec == Init /\ [][Next]_vars

-----------------------------------------------------------------------------
(***************************************************************************)
(* Properties.                                                             *)
(***************************************************************************)
\* The toolchains a request may be built with, as mount ids name them.
Toolchains(r) ==
    {toolchainHash(Pin(r.spec, Digests[i])) : i \in 1..Len(Digests)}

\* The toolchains that pull no seed but those of their own builds: of those
\* that push where one of its builds pulls, all have this toolchain, whatever
\* the tags come to name.
OwnSeeds ==
    {h \in UNION {Toolchains(r) : r \in Requests} :
        \A r, q \in Requests :
            (h \in Toolchains(r) /\ q.seed.at = r.seed.at /\ Pushes(q.seed)) =>
                Toolchains(q) = {h}}

\* At most one compiler, up to the states of the apt archive.
Alike(objects) ==
    \A c, d \in objects :
        /\ c.base = d.base /\ c.prefix = d.prefix
        /\ c = d \/ 0 \notin {c.apt, d.apt}

\* Objects of two compilers lie in one tree, on a mount or in the seed store,
\* only if they are two states of the apt archive under one base and prefix,
\* or if the toolchain shares a seed with another: of the mount id nothing
\* that selects the compiler is missing, and objects cross from a mount to
\* another by a shared seed only.
OneCompiler ==
    /\ \A w \in Workers : \A id \in DOMAIN mount[w] :
          id[3] \in OwnSeeds => Alike(mount[w][id].objects)
    /\ \A r \in Requests :
          (r.seed.at \in DOMAIN store /\ Toolchains(r) \intersect OwnSeeds # {}) =>
              Alike(store[r.seed.at].objects)

\* "Objects from different compilers cannot mix" (docs/operations.md).
CompilersApart ==
    \A w \in Workers : \A id \in DOMAIN mount[w] :
        Cardinality(mount[w][id].objects) <= 1

\* art is what Spec and inputs determine: the source and the patches of the
\* stamp and, with a ready toolchain and seeds of its own, one compiler.
Right(s, in, art) ==
    /\ art = Artifact(s, in, [stamp |-> Stamp(s, in), objects |-> art.compilers])
    /\ (s.ToolchainReady /\ toolchainHash(s) \in OwnSeeds) =>
          art.compilers = {Compiler(s, 0)}
    /\ s.ExpectName # Unset => in.expect = "holds"

\* A build that succeeds, executed or found in the cache, on whichever worker,
\* from whatever seed and after whatever other builds, delivers what its own
\* Spec and inputs determine, and never although its expectations fail.
AnswersRight ==
    \A w \in Workers :
        job[w].pc = "done" => Right(job[w].spec, job[w].in, job[w].art)

\* A push that was asked for and is reported done was done by that build: the
\* cache, which knows nothing of the seed, does not swallow it, and a secret
\* that is missing or does not push is not passed over.
PushHappens ==
    \A w \in Workers :
        (job[w].pc = "done" /\ job[w].spec.SeedPush) => job[w].pushed

\* A Spec without what has no effect on the artifacts.
NeutralFields ==
    {"HTTPSProxy", "HTTPProxy", "NoProxy", "SeedURL", "SeedRegion", "SeedPrefix"}

Neutral(s) == [f \in DOMAIN s \ NeutralFields |-> s[f]]

\* A build that is to push nothing is not executed, unless it is told to
\* ignore the cache, while that holds the result of one that differs at most
\* in proxies, in where the seed lies and in the secret.  Builds asked to push
\* always run, and their results serve no other build.
NoNeedlessRun ==
    [][\A w \in Workers :
        (job[w].pc = "solve" /\ job'[w].pc = "step") =>
            \/ job[w].spec.IgnoreCache \/ job[w].spec.SeedPush
            \/ \A e \in cache :
                  e.in # job[w].in \/ Neutral(e.spec) # Neutral(job[w].spec)]_vars

-----------------------------------------------------------------------------
(***************************************************************************)
(* The inductive invariant.                                                *)
(***************************************************************************)
Working == {"solve", "step", "tree", "built", "pushed"}

\* Compiler c is one that a toolchain hash names, up to the apt archive.
Named(c, hash) ==
    /\ c = [base |-> hash[1].digest, apt |-> c.apt, prefix |-> hash[2]]
    /\ c.apt \in 0..Archives
    /\ (c.apt = 0) <=> (hash[3] = "ready")

\* The compilers of a mount are those its id names; those of a seed are named
\* by the toolchain of whoever may pull it: each time for toolchains that
\* have their seeds to themselves.
MountsInv ==
    \A w \in Workers : \A id \in DOMAIN mount[w] :
        id[3] \in OwnSeeds => \A c \in mount[w][id].objects : Named(c, id[3])

StoreInv ==
    \A r \in Requests : r.seed.at \in DOMAIN store =>
        \A h \in Toolchains(r) \intersect OwnSeeds :
            \A c \in store[r.seed.at].objects : Named(c, h)

\* A Spec and inputs that may be in the making or have been made.
Sane(s, in) == IsSpec(s) /\ in.expect # Unset

\* A pinned Spec and a secret that came with it.
Asked(s, seed) ==
    \E r \in Requests, i \in 1..Len(Digests) :
        s = Pin(r.spec, Digests[i]) /\ seed = r.seed

BuildInv(w) ==
    LET j == job[w]
        s == j.spec
        id == MountId(s)
    IN  /\ j.pc \in {"idle", "done"} \union Working
        /\ j.pc # "idle" => Sane(s, j.in)
        /\ j.pc \in Working =>
              /\ Asked(s, j.seed)
              /\ j.action \in IF s.SeedPush THEN 1..builds ELSE {0}
        /\ j.pc \in Working \ {"solve"} =>
              /\ j = [pc |-> j.pc, spec |-> s, in |-> j.in, seed |-> j.seed,
                      action |-> j.action, cc |-> j.cc]
              /\ Named(j.cc, toolchainHash(s))
        /\ j.pc \in {"tree", "built", "pushed"} =>
              /\ id \in DOMAIN mount[w] /\ mount[w][id].stamp = Stamp(s, j.in)
              /\ s.SeedPush => Pushes(j.seed)
        /\ j.pc \in {"built", "pushed"} =>
              /\ mount[w][id].objects # {}
              /\ s.ExpectName # Unset => j.in.expect = "holds"
        /\ j.pc = "done" => Right(s, j.in, j.art) /\ (s.SeedPush => j.pushed)

ActionOf(e) == e.key[3].SEED_ACTION

EntryInv(e) ==
    /\ e.key = CompileKey(e.spec, e.in, ActionOf(e))
    /\ ActionOf(e) \in IF e.spec.SeedPush THEN 1..builds ELSE {0}
    /\ Sane(e.spec, e.in)
    /\ Right(e.spec, e.in, e.art)

\* The action of a push at work is its own: no result bears it yet.
FreshActions ==
    \A w \in Workers :
        (job[w].pc \in Working /\ job[w].spec.SeedPush) =>
            /\ \A e \in cache : ActionOf(e) # job[w].action
            /\ \A v \in Workers \ {w} :
                  job[v].pc \in Working => job[v].action # job[w].action

\* Identities vouch for what is found under them: the compilers of a tree,
\* the result under a compile key, the push behind an action.
ServiceInv ==
    /\ layer = [w \in Workers |-> layer[w]]
    /\ mount = [w \in Workers |-> mount[w]]
    /\ job = [w \in Workers |-> job[w]]
    /\ registry \in 1..Len(Digests)
    /\ archive \in 1..Archives /\ builds \in Nat
    /\ \A w \in Workers : \A k \in DOMAIN layer[w] : layer[w][k] \in 1..Archives
    /\ MountsInv
    /\ StoreInv
    /\ \A w \in Workers : BuildInv(w)
    /\ \A e \in cache : EntryInv(e)
    /\ FreshActions
=============================================================================
