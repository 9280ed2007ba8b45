----------------------------- MODULE ObjectTree -----------------------------
(***************************************************************************)
(* The compile step (cmd/kbuild-step) over the persistent object tree.     *)
(*                                                                         *)
(* BuildKit runs one step at a time per locked cache mount, may kill it    *)
(* between any two file-system effects, and may garbage-collect an idle    *)
(* mount.  Several workers, each with a mount of its own for one mount     *)
(* identity, share one seed object in an S3-compatible store and one       *)
(* source server whose files may be replaced ("re-rolled") at any time.    *)
(*                                                                         *)
(* A mount is a function from the file names the step tells apart to their *)
(* contents, None when absent, Torn when created but not yet written.      *)
(* "Makefile" and "arch" stand for the source tree (the patch series edits *)
(* "arch"), "kernel.o" for the object files: the set of source             *)
(* generations some object was compiled from.                              *)
(***************************************************************************)
EXTENDS Naturals, Sequences

CONSTANTS
    Mounts,       \* the workers' cache mounts for one mount identity
    Requests,     \* the builds that arrive, records of RequestType
    Tarballs,     \* source tarball contents (a sha256 names exactly one)
    Urls,         \* source URLs
    Patches,      \* contents of a patch series
    Layers,       \* config inputs: BASE_MAKE lists and context configs
    MergeBases,   \* the BASE_MAKE lists that only merge into an existing .config
    Modular,      \* the layers that switch CONFIG_MODULES on
    InitSeeds,    \* what the store may hold before the first build
    None,         \* no file, no value
    Torn          \* a file whose content was never completely written

VARIABLES
    mount,        \* mount[m][f]: content of file f on m's cache mount
    step,         \* step[m]: the kbuild-step process holding m's lock
    seed,         \* what the store holds under the seed key: an object or nothing
    served        \* served[u]: the tarball URL u serves now

vars == <<mount, step, seed, served>>

-----------------------------------------------------------------------------
(***************************************************************************)
(* Files.                                                                  *)
(***************************************************************************)
SrcFiles == {"Makefile", "arch"}

TreeFiles == SrcFiles \union
    {".config", ".kbf-config-src", ".kbf-seed.tmp", ".kbf-stamp",
     ".kbf-stamp.seed", ".version", "kernel.o", "vmlinux"}

Files == TreeFiles \union {".kbf-src.tar", ".kbf-src.tar.part"}

Empty == [f \in Files |-> None]

TreePresent(t) == t["Makefile"] # None

SourceOf(t) == [f \in SrcFiles |-> t[f]]

\* A .config put together from config inputs, and what olddefconfig makes of
\* it with the Kconfig of a source.
Raw(layers) == [layers |-> layers \ {None}, gen |-> None]

Resolved(layers, source) == [layers |-> layers, gen |-> source]

\* What extracting tarball c and applying patch series p leaves.
Extracted(c, p) ==
    [f \in SrcFiles |-> IF f = "arch" THEN <<c, p>> ELSE <<c, None>>]

\* Mutant of NukeOrder: the stamp is removed after the tree it vouches for.
NukeOrder_StampLast ==
    <<".config", ".kbf-config-src", ".kbf-seed.tmp", ".version", "Makefile",
      "arch", "kernel.o", "vmlinux", ".kbf-stamp.seed", ".kbf-stamp">>

\* Mutant of NukeOrder: the cached tarball is not spared.
NukeOrder_WithTarball ==
    <<".config", ".kbf-config-src", ".kbf-seed.tmp", ".kbf-src.tar",
      ".kbf-stamp", ".kbf-stamp.seed", ".version", "Makefile", "arch",
      "kernel.o", "vmlinux">>

\* os.ReadDir sorts: the order in which nukeTree removes the entries.
NukeOrder == <<".config", ".kbf-config-src", ".kbf-seed.tmp", ".kbf-stamp",
               ".kbf-stamp.seed", ".version", "Makefile", "arch", "kernel.o",
               "vmlinux">>

\* A file tree about to be extracted over the mount.
TarImage(c) ==
    [f \in TreeFiles |-> IF f \in SrcFiles THEN <<c, None>> ELSE None]

\* seedPush walks the tree and leaves out .kbf-seed-* and .kbf-src*.
Packed(t) ==
    [f \in TreeFiles |-> IF f = ".kbf-seed.tmp" THEN None ELSE t[f]]

\* Mutant of Quarantined: the seed's stamp is extracted under its own name.
Quarantined_Live(i) == i

\* untarSeed renames the stamp it meets, so that none is live.
Quarantined(i) ==
    [f \in TreeFiles |-> IF f = ".kbf-stamp.seed" THEN i[".kbf-stamp"]
                         ELSE IF f = ".kbf-stamp" THEN None
                         ELSE i[f]]

-----------------------------------------------------------------------------
(***************************************************************************)
(* Requests.  sum is the pinned sha256 ("pinned"), the content hash of the *)
(* local tarball ("local") or None ("url").  expect is the expectation     *)
(* file, if there is one: the config inputs that must ("y" or "=") or must *)
(* not ("n") have made it into .config, "?" for a line of no known form.   *)
(* secrets are the secrets mounted, cfgPush says that seed_cfg carries     *)
(* SEED_PUSH=1, push that the environment carries SEED_PUSH=1.             *)
(***************************************************************************)
Secrets == {"seed_cfg", "seed_access_key", "seed_secret_key"}

\* "vmlinux" stands for every image that make links, "image" included.
Targets == {"vmlinux", "modules", "config", "kconfigs"}

RequestType ==
    [kind : {"pinned", "url", "local"}, url : Urls,
     sum : Tarballs \union {None}, patch : Patches \union {None},
     base : Layers \union {None}, frag : Layers \union {None},
     expect : (SUBSET ({"y", "n", "=", "?"} \X Layers)) \union {None},
     targets : SUBSET Targets, secrets : SUBSET Secrets, cfgPush : BOOLEAN, push : BOOLEAN]

\* SRC_ID, and the content hash that replaces it for a local tarball.
SrcId(r) == <<r.kind, IF r.kind = "url" THEN r.url ELSE r.sum>>

\* Mutant of StampWant: the patch series is not part of the stamp.
StampWant_NoPatches(r) == [src |-> SrcId(r), patches |-> None]

StampWant(r) == [src |-> SrcId(r), patches |-> r.patch]

\* Mutant of CfgId: only the make base is compared.
CfgId_BaseOnly(r) == [base |-> r.base, frag |-> None]

CfgId(r) == [base |-> r.base, frag |-> r.frag]

\* The config inputs a build of r asks for, whatever the mount held before.
Asked(r) == {r.base, r.frag} \ {None}

\* The tarball contents a build of r may come from.
Sources(r) == IF r.kind = "url" THEN Tarballs ELSE {r.sum}

\* loadSeedCfg: all three secrets, or no seeding.
Seeded(r) == r.secrets = Secrets

Makes(r) == r.targets \intersect {"vmlinux", "modules"} # {}

Generations == {Extracted(c, p) : c \in Tarballs, p \in Patches \union {None}}

Configs ==
    {Raw(layers) : layers \in SUBSET Layers} \union
    {Resolved(layers, source) : layers \in SUBSET Layers, source \in Generations}

Image(source, config) == [objs |-> {source}, config |-> config, link |-> 1]

Stamps == {StampWant(r) : r \in Requests}
CfgIds == {CfgId(r) : r \in Requests}

ASSUME ConstantsAssumption ==
    /\ \A r \in Requests :
          /\ r \in RequestType
          /\ (r.sum = None) <=> (r.kind = "url")
          /\ r.push => r.kind # "url"
    /\ None \notin {Torn, "local", "cached"}
    /\ {None, Torn} \intersect Tarballs = {}
    /\ {None, Torn} \intersect Layers = {}
    /\ {None, Torn} \intersect Stamps = {}
    /\ {None, Torn} \intersect CfgIds = {}
    /\ MergeBases \subseteq Layers
    \* Contents built by the model are not the sentinels.
    /\ \A c \in Tarballs, p \in Patches \union {None} :
          <<c, p>> \notin {None, Torn}
    /\ {None, Torn} \intersect Configs = {}
    /\ \A source \in Generations, config \in Configs :
          None \notin {{source}, Image(source, config)}
    \* A mount identity is for patched builds or for unpatched ones.
    /\ \A r, q \in Requests : (r.patch = None) <=> (q.patch = None)
    \* Only what a successful build published, or a foreign object whose
    \* stamp is none of ours, lies under the seed key.
    /\ \A objects \in InitSeeds : \A i \in objects : i[".kbf-stamp"] \notin Stamps

-----------------------------------------------------------------------------
(***************************************************************************)
(* The process: pc, its request, the acquired source ("local", "cached" or *)
(* None), the files being extracted (img) and those still to write (todo), *)
(* where a nuke or an extraction returns to (next), the artifacts copied   *)
(* to /out, and the cause of a failure (why).                              *)
(***************************************************************************)
Idle == [pc |-> "idle", req |-> None, src |-> None, img |-> None,
         todo |-> {}, next |-> "idle", out |-> None, why |-> "none"]

Init ==
    /\ mount = [m \in Mounts |-> Empty]
    /\ step = [m \in Mounts |-> Idle]
    /\ seed \in InitSeeds
    /\ served \in [Urls -> Tarballs]

At(m, pc) == step[m].pc = pc

Goto(m, pc) == step' = [step EXCEPT ![m].pc = pc]

Fail(m, cause) == step' = [step EXCEPT ![m].pc = "failed", ![m].why = cause]

Nuke(m, next) == step' = [step EXCEPT ![m].pc = "nuke", ![m].next = next]

Put(m, f, v) == mount' = [mount EXCEPT ![m][f] = v]

KeepsMount == UNCHANGED <<mount, seed, served>>
KeepsStore == UNCHANGED <<seed, served>>

-----------------------------------------------------------------------------
(***************************************************************************)
(* run: the checks before any work, and the sweep of abandoned seed packs. *)
(***************************************************************************)
CheckSeedPush(r) == r.push => Seeded(r) /\ r.cfgPush

Start(m, r) ==
    /\ At(m, "idle")
    /\ step' = [step EXCEPT ![m] =
                  IF CheckSeedPush(r)
                  THEN [Idle EXCEPT !.pc = "sweep", !.req = r]
                  ELSE [Idle EXCEPT !.pc = "failed", !.req = r, !.why = "push"]]
    /\ KeepsMount

Sweep(m) ==
    /\ At(m, "sweep")
    /\ Put(m, ".kbf-seed.tmp", None)
    /\ Goto(m, "stamp")
    /\ KeepsStore

(***************************************************************************)
(* prepareTree.                                                            *)
(***************************************************************************)
\* Mutant of CompareStamp: the stale tree goes before its source is there.
CompareStamp_Eager(m) ==
    LET t == mount[m]
        stale == TreePresent(t) /\ t[".kbf-stamp"] # StampWant(step[m].req)
    IN  /\ At(m, "stamp")
        /\ IF stale THEN Nuke(m, "clear") ELSE Goto(m, "clear")
        /\ KeepsMount

CompareStamp(m) ==
    LET t == mount[m]
        stale == TreePresent(t) /\ t[".kbf-stamp"] # StampWant(step[m].req)
    IN  /\ At(m, "stamp")
        /\ Goto(m, IF stale THEN "acquire" ELSE "clear")
        /\ KeepsMount

\* An absent Makefile does not mean an empty mount: clear before hydrating.
Clear(m) ==
    /\ At(m, "clear")
    /\ IF TreePresent(mount[m]) THEN Goto(m, "source") ELSE Nuke(m, "hydrate")
    /\ KeepsMount

\* nukeTree removes the entries in ReadDir order and spares .kbf-src*.
Leftover(t) == {k \in 1..Len(NukeOrder) : t[NukeOrder[k]] # None}

NukeEntry(m) ==
    /\ At(m, "nuke")
    /\ \E k \in Leftover(mount[m]) :
          /\ \A j \in Leftover(mount[m]) : k <= j
          /\ Put(m, NukeOrder[k], None)
    /\ UNCHANGED step
    /\ KeepsStore

NukeDone(m) ==
    /\ At(m, "nuke")
    /\ Leftover(mount[m]) = {}
    /\ Goto(m, step[m].next)
    /\ KeepsMount

Hydrate(m) ==
    /\ At(m, "hydrate")
    /\ Goto(m, IF Seeded(step[m].req) THEN "pull" ELSE "source")
    /\ KeepsMount

\* seedPull: a missing object is not an error, anything else is.
PullSeed(m) ==
    /\ At(m, "pull")
    /\ \/ seed = {} /\ Goto(m, "source")
       \/ \E object \in seed :
             LET i == Quarantined(object)
             IN  step' = [step EXCEPT ![m].pc = "untar", ![m].next = "adopt",
                                      ![m].img = i,
                                      ![m].todo = {f \in TreeFiles : i[f] # None}]
    /\ KeepsMount

PullFails(m) ==
    /\ At(m, "pull")
    /\ Fail(m, "seed")
    /\ KeepsMount

\* The pool writes the entries of a tar stream in no particular order.
UntarEntry(m) ==
    /\ At(m, "untar")
    /\ \E f \in step[m].todo :
          /\ Put(m, f, step[m].img[f])
          /\ step' = [step EXCEPT ![m].todo = @ \ {f}]
    /\ KeepsStore

UntarDone(m) ==
    /\ At(m, "untar")
    /\ step[m].todo = {}
    /\ step' = [step EXCEPT ![m].pc = step[m].next, ![m].img = None]
    /\ KeepsMount

\* A seed stream that breaks is cleaned up eagerly and fails the build.
UntarSeedFails(m) ==
    /\ At(m, "untar")
    /\ step[m].next = "adopt"
    /\ step' = [step EXCEPT ![m].pc = "nuke", ![m].next = "failed",
                            ![m].img = None, ![m].todo = {}, ![m].why = "seed"]
    /\ KeepsMount

\* Mutant of AdoptSeed: after a mismatch the pull is tried again.
AdoptSeed_Retry(m) ==
    /\ At(m, "adopt")
    /\ Put(m, ".kbf-stamp.seed", None)
    /\ IF mount[m][".kbf-stamp.seed"] = StampWant(step[m].req)
       THEN Goto(m, "bless")
       ELSE Nuke(m, "hydrate")
    /\ KeepsStore

AdoptSeed(m) ==
    /\ At(m, "adopt")
    /\ Put(m, ".kbf-stamp.seed", None)
    /\ IF mount[m][".kbf-stamp.seed"] = StampWant(step[m].req)
       THEN Goto(m, "bless")
       ELSE Nuke(m, "source")
    /\ KeepsStore

\* The second half of prepareTree: extract unless a tree is there by now.
NeedSource(m) ==
    /\ At(m, "source")
    /\ Goto(m, IF TreePresent(mount[m]) THEN "configure"
               ELSE IF step[m].src = None THEN "acquire"
               ELSE "extract")
    /\ KeepsMount

(***************************************************************************)
(* acquireSource: the local mount, the cached tarball if it has the pinned *)
(* hash, or a download verified before it is renamed into place.           *)
(***************************************************************************)
Acquired(m, src) ==
    step' = [step EXCEPT
               ![m].src = src,
               ![m].pc = IF TreePresent(mount[m]) THEN "nuke" ELSE "extract",
               ![m].next = IF TreePresent(mount[m]) THEN "clear" ELSE @]

Acquire(m) ==
    LET r == step[m].req
    IN  /\ At(m, "acquire")
        /\ CASE r.kind = "local" -> Acquired(m, "local")
             [] r.kind = "pinned" /\ mount[m][".kbf-src.tar"] = r.sum ->
                  Acquired(m, "cached")
             [] OTHER -> Goto(m, "download")
        /\ KeepsMount

Download(m) ==
    /\ At(m, "download")
    /\ Put(m, ".kbf-src.tar.part", Torn)
    /\ Goto(m, "receive")
    /\ KeepsStore

Receive(m) ==
    /\ At(m, "receive")
    /\ Put(m, ".kbf-src.tar.part", served[step[m].req.url])
    /\ Goto(m, "verify")
    /\ KeepsStore

Verify(m) ==
    LET r == step[m].req
        got == mount[m][".kbf-src.tar.part"]
    IN  /\ At(m, "verify")
        /\ IF r.kind = "pinned" /\ got # r.sum
           THEN /\ Put(m, ".kbf-src.tar.part", None)
                /\ Fail(m, "sha")
           ELSE /\ mount' = [mount EXCEPT ![m][".kbf-src.tar"] = got,
                                          ![m][".kbf-src.tar.part"] = None]
                /\ Acquired(m, "cached")
        /\ KeepsStore

\* extractTarball opens the path that acquireSource returned.
Extract(m) ==
    LET c == IF step[m].src = "local" THEN step[m].req.sum
             ELSE mount[m][".kbf-src.tar"]
    IN  /\ At(m, "extract")
        /\ IF c = None
           THEN Fail(m, "source")
           ELSE step' = [step EXCEPT ![m].pc = "untar", ![m].next = "patch",
                                     ![m].img = TarImage(c),
                                     ![m].todo = SrcFiles]
        /\ KeepsMount

ApplyPatches(m) ==
    /\ At(m, "patch")
    /\ Put(m, "arch", <<mount[m]["arch"][1], step[m].req.patch>>)
    /\ Goto(m, "bless")
    /\ KeepsStore

\* os.WriteFile(".kbf-stamp"): created, then written.
Bless(m) ==
    /\ At(m, "bless")
    /\ Put(m, ".kbf-stamp", Torn)
    /\ Goto(m, "stamped")
    /\ KeepsStore

Stamped(m) ==
    /\ At(m, "stamped")
    /\ Put(m, ".kbf-stamp", StampWant(step[m].req))
    /\ Goto(m, "source")
    /\ KeepsStore

(***************************************************************************)
(* configure.  A .config records the inputs it was made of and, once       *)
(* olddefconfig has resolved it, the source whose Kconfig resolved it.     *)
(***************************************************************************)
Readable(t) == t[".config"] \notin {None, Torn}

CompareConfig(m) ==
    LET same == mount[m][".kbf-config-src"] = CfgId(step[m].req)
    IN  /\ At(m, "configure")
        /\ Goto(m, IF same THEN "expect" ELSE "unmark")
        /\ KeepsMount

\* Mutant of Unmark: the marker of the last config survives.
Unmark_Late(m) ==
    /\ At(m, "unmark")
    /\ Goto(m, IF step[m].req.base = None THEN "write" ELSE "base")
    /\ KeepsMount

Unmark(m) ==
    /\ At(m, "unmark")
    /\ Put(m, ".kbf-config-src", None)
    /\ Goto(m, IF step[m].req.base = None THEN "write" ELSE "base")
    /\ KeepsStore

\* make BASE_MAKE: a defconfig replaces .config, a *.config merges into it.
BaseMake(m) ==
    LET t == mount[m]
        b == step[m].req.base
        kept == IF b \in MergeBases /\ Readable(t) THEN t[".config"].layers
                ELSE {}
    IN  /\ At(m, "base")
        /\ Put(m, ".config", Raw(kept \union {b}))
        /\ Goto(m, "append")
        /\ KeepsStore

AppendFragment(m) ==
    /\ At(m, "append")
    /\ Put(m, ".config", Raw(mount[m][".config"].layers \union {step[m].req.frag}))
    /\ Goto(m, "olddefconfig")
    /\ KeepsStore

\* os.WriteFile(".config"): truncated, then written.
TruncateConfig(m) ==
    /\ At(m, "write")
    /\ Put(m, ".config", Torn)
    /\ Goto(m, "written")
    /\ KeepsStore

WriteConfig(m) ==
    /\ At(m, "written")
    /\ Put(m, ".config", Raw({step[m].req.frag}))
    /\ Goto(m, "olddefconfig")
    /\ KeepsStore

Olddefconfig(m) ==
    LET t == mount[m]
    IN  /\ At(m, "olddefconfig")
        /\ Put(m, ".config", Resolved(t[".config"].layers, SourceOf(t)))
        /\ Goto(m, "mark")
        /\ KeepsStore

\* os.WriteFile(".kbf-config-src"): created, then written.
Mark(m) ==
    /\ At(m, "mark")
    /\ Put(m, ".kbf-config-src", Torn)
    /\ Goto(m, "marked")
    /\ KeepsStore

Marked(m) ==
    /\ At(m, "marked")
    /\ Put(m, ".kbf-config-src", CfgId(step[m].req))
    /\ Goto(m, "expect")
    /\ KeepsStore

(***************************************************************************)
(* The rest of run: the expectation gate, the .version reset, make, the    *)
(* copies to /out and the seed push.                                       *)
(***************************************************************************)
\* Every line has to be of a known form and hold.
Satisfies(layers, expect) ==
    \A e \in expect :
        /\ e[1] # "?"
        /\ (e[1] = "n") <=> (e[2] \notin layers)

Meets(t, expect) == Readable(t) /\ Satisfies(t[".config"].layers, expect)

\* Mutant of ValidateExpectations: a violated expectation is only logged.
ValidateExpectations_Log(m) == At(m, "expect") /\ Goto(m, "version") /\ KeepsMount

ValidateExpectations(m) ==
    LET r == step[m].req
    IN  /\ At(m, "expect")
        /\ IF r.expect = None \/ Meets(mount[m], r.expect)
           THEN Goto(m, "version")
           ELSE Fail(m, IF Readable(mount[m]) THEN "expect" ELSE "config")
        /\ KeepsMount

\* Mutant of ResetVersion: the link counter of the mount is kept.
ResetVersion_Keep(m) ==
    /\ At(m, "version")
    /\ Goto(m, IF Makes(step[m].req) THEN "make" ELSE "copy")
    /\ KeepsMount

\* .version is removed before the modules check reads .config.
ResetVersion(m) ==
    LET t == mount[m]
        modules == "modules" \in step[m].req.targets
    IN  /\ At(m, "version")
        /\ Put(m, ".version", None)
        /\ IF modules /\ ~(Readable(t) /\ t[".config"].layers \intersect Modular # {})
           THEN Fail(m, IF Readable(t) THEN "modules" ELSE "config")
           ELSE Goto(m, IF Makes(step[m].req) THEN "make" ELSE "copy")
        /\ KeepsStore

\* make takes an object newer than its source for current, whatever source
\* it was compiled from; without a .config it fails.
Objects(t) == IF t["kernel.o"] = None THEN {} ELSE t["kernel.o"]

Make(m) ==
    LET t == mount[m]
    IN  /\ At(m, "make")
        /\ IF Readable(t)
           THEN /\ Put(m, "kernel.o", Objects(t) \union {SourceOf(t)})
                /\ Goto(m, "link")
           ELSE /\ Fail(m, "config")
                /\ UNCHANGED mount
        /\ KeepsStore

\* Every link increments .version and embeds it in the image.
Current(t) ==
    /\ t["vmlinux"] # None
    /\ t["vmlinux"].objs = t["kernel.o"]
    /\ t["vmlinux"].config = t[".config"]

Link(m) ==
    LET n == mount[m][".version"]
    IN  /\ At(m, "link")
        /\ IF Current(mount[m])
           THEN Goto(m, "copy") /\ UNCHANGED mount
           ELSE /\ Put(m, ".version", IF n = None THEN 1 ELSE n + 1)
                /\ Goto(m, "linked")
        /\ KeepsStore

Linked(m) ==
    LET t == mount[m]
    IN  /\ At(m, "linked")
        /\ Put(m, "vmlinux", [objs |-> t["kernel.o"], config |-> t[".config"],
                              link |-> t[".version"]])
        /\ Goto(m, "copy")
        /\ KeepsStore

\* packModules: modules_install from the compiled tree.
ModulesPack(t) == <<t["kernel.o"], t[".config"]>>

\* bundleKconfigs reads the sources only.
KconfigBundle(t) == SourceOf(t)

Artifacts(t, targets) ==
    [vmlinux  |-> IF "vmlinux" \in targets THEN t["vmlinux"] ELSE None,
     modules  |-> IF "modules" \in targets THEN ModulesPack(t) ELSE None,
     config   |-> IF "config" \in targets THEN t[".config"] ELSE None,
     kconfigs |-> IF "kconfigs" \in targets THEN KconfigBundle(t) ELSE None]

CopyArtifacts(m) ==
    LET r == step[m].req
    IN  /\ At(m, "copy")
        /\ IF "config" \in r.targets /\ ~Readable(mount[m])
           THEN Fail(m, "config")
           ELSE step' = [step EXCEPT
                           ![m].out = Artifacts(mount[m], r.targets),
                           ![m].pc = IF Seeded(r) /\ r.cfgPush THEN "pack" ELSE "done"]
        /\ KeepsMount

PackSeed(m) ==
    /\ At(m, "pack")
    /\ Put(m, ".kbf-seed.tmp", Torn)
    /\ Goto(m, "upload")
    /\ KeepsStore

UploadSeed(m) ==
    /\ At(m, "upload")
    /\ seed' = {Packed(mount[m])}
    /\ Goto(m, "unpack")
    /\ UNCHANGED <<mount, served>>

\* Mutant of UploadFails: a failed upload is only logged.
UploadFails_Logged(m) ==
    /\ At(m, "upload")
    /\ Put(m, ".kbf-seed.tmp", None)
    /\ Goto(m, "done")
    /\ KeepsStore

\* The deferred removal runs whether or not the upload succeeded.
UploadFails(m) ==
    /\ At(m, "upload")
    /\ Put(m, ".kbf-seed.tmp", None)
    /\ Fail(m, "upload")
    /\ KeepsStore

UnpackSeed(m) ==
    /\ At(m, "unpack")
    /\ Put(m, ".kbf-seed.tmp", None)
    /\ Goto(m, "done")
    /\ KeepsStore

\* BuildKit takes the result, or the error, and releases the mount.
Finish(m) ==
    /\ step[m].pc \in {"done", "failed"}
    /\ step' = [step EXCEPT ![m] = Idle]
    /\ KeepsMount

-----------------------------------------------------------------------------
(***************************************************************************)
(* The environment.                                                        *)
(***************************************************************************)
\* A cancelled solve, a dead daemon, or any I/O error the step returns.
Kill(m) ==
    /\ step[m].pc \notin {"idle", "done", "failed"}
    /\ step' = [step EXCEPT ![m] = Idle]
    /\ KeepsMount

\* BuildKit's garbage collection, or the new mount of an IgnoreCache build.
Evict(m) ==
    /\ At(m, "idle")
    /\ mount[m] # Empty
    /\ mount' = [mount EXCEPT ![m] = Empty]
    /\ UNCHANGED <<step, seed, served>>

ReRoll(u) ==
    /\ \E c \in Tarballs \ {served[u]} : served' = [served EXCEPT ![u] = c]
    /\ UNCHANGED <<mount, step, seed>>

Prepare(m) ==
    \/ Sweep(m) \/ CompareStamp(m) \/ Clear(m) \/ NukeEntry(m) \/ NukeDone(m)
    \/ Hydrate(m) \/ PullSeed(m) \/ PullFails(m)
    \/ UntarEntry(m) \/ UntarDone(m) \/ UntarSeedFails(m) \/ AdoptSeed(m)
    \/ NeedSource(m) \/ Acquire(m) \/ Download(m) \/ Receive(m) \/ Verify(m)
    \/ Extract(m) \/ ApplyPatches(m) \/ Bless(m) \/ Stamped(m)

Configure(m) ==
    \/ CompareConfig(m) \/ Unmark(m) \/ BaseMake(m) \/ AppendFragment(m)
    \/ TruncateConfig(m) \/ WriteConfig(m) \/ Olddefconfig(m)
    \/ Mark(m) \/ Marked(m)

Compile(m) ==
    \/ ValidateExpectations(m) \/ ResetVersion(m) \/ Make(m)
    \/ Link(m) \/ Linked(m) \/ CopyArtifacts(m)
    \/ PackSeed(m) \/ UploadSeed(m) \/ UploadFails(m) \/ UnpackSeed(m)
    \/ Finish(m)

Run(m) == Prepare(m) \/ Configure(m) \/ Compile(m)

Next ==
    \/ \E m \in Mounts :
          \/ \E r \in Requests : Start(m, r)
          \/ Run(m)
          \/ Kill(m)
          \/ Evict(m)
    \/ \E u \in Urls : ReRoll(u)

Spec == Init /\ [][Next]_vars

\* A running step keeps running: BuildKit neither suspends nor abandons it.
FairSpec == Spec /\ \A m \in Mounts : WF_vars(Run(m))

-----------------------------------------------------------------------------
(***************************************************************************)
(* Properties.                                                             *)
(***************************************************************************)
\* The sources of t are exactly a tarball r accepts with r's patches.
Clean(t, r) == \E c \in Sources(r) : SourceOf(t) = Extracted(c, r.patch)

\* The .config of t is what configure makes for r, or is absent.
Configured(t, r) ==
    t[".config"] \in {None, Resolved(Asked(r), SourceOf(t))}

\* What a build of r from tarball c alone, on an empty mount, delivers.
Golden(r, c) ==
    LET source == Extracted(c, r.patch)
        config == Resolved(Asked(r), source)
    IN  [vmlinux  |-> IF "vmlinux" \in r.targets
                      THEN [objs |-> {source}, config |-> config, link |-> 1]
                      ELSE None,
         modules  |-> IF "modules" \in r.targets
                      THEN <<{source}, config>> ELSE None,
         config   |-> IF "config" \in r.targets THEN config ELSE None,
         kconfigs |-> IF "kconfigs" \in r.targets THEN source ELSE None]

Locations ==
    {"idle", "sweep", "stamp", "clear", "nuke", "hydrate", "pull", "untar",
     "adopt", "source", "acquire", "download", "receive", "verify", "extract",
     "patch", "bless", "stamped", "configure", "unmark", "base", "append",
     "write", "written", "olddefconfig", "mark", "marked", "expect", "version",
     "make", "link", "linked", "copy", "pack", "upload", "unpack", "done",
     "failed"}

Causes == {"none", "push", "seed", "upload", "sha", "source", "expect",
           "modules", "config"}

Fields == {"pc", "req", "src", "img", "todo", "next", "out", "why"}

MountType(t, s) ==
    /\ t[".kbf-stamp"] \in Stamps \union {None, Torn}
    /\ t[".kbf-src.tar"] \in Tarballs \union {None}
    /\ t[".kbf-src.tar.part"] \in Tarballs \union {None, Torn}
    /\ s.pc \in Locations
    /\ s.next \in Locations
    /\ s.why \in Causes
    /\ s.src \in {None, "local", "cached"}
    /\ s.todo \subseteq TreeFiles
    /\ s.pc = "idle" \/ s.req \in Requests

\* The type invariant: mounts are file maps, steps are records.
TypeOK ==
    /\ mount = [m \in Mounts |-> [f \in Files |-> mount[m][f]]]
    /\ step = [m \in Mounts |-> [k \in Fields |-> step[m][k]]]
    /\ \A m \in Mounts : MountType(mount[m], step[m])
    /\ served \in [Urls -> Tarballs]

\* A tree that bears the stamp of a request is complete, holds the sources
\* of that request only, and no object of another source generation, on
\* every mount and whatever nuke, extraction or pull was killed on the way.
Blesses(t) ==
    \A r \in Requests : t[".kbf-stamp"] = StampWant(r) =>
        /\ Clean(t, r)
        /\ Objects(t) \subseteq {SourceOf(t)}

StampSound == \A m \in Mounts : Blesses(mount[m])

\* In a stamped tree the skip marker names the inputs of the .config that
\* lies beside it: skipping olddefconfig never compiles another config.
Marks(t) ==
    t[".kbf-stamp"] \in Stamps =>
        \A r \in Requests :
            t[".kbf-config-src"] = CfgId(r) => Configured(t, r)

MarkerSound == \A m \in Mounts : Marks(mount[m])

\* The seed object any worker may pull is as trustworthy as a local tree: if
\* its stamp is one a request wants, its sources, objects and config are too.
SeedSound == \A object \in seed : Blesses(object) /\ Marks(object)

\* A build that succeeds delivers what a cold build of the same request from
\* one tarball delivers: nothing of earlier requests, of killed steps, of an
\* unpinned fetch or of another worker's seed shows in /out, so caching the
\* result under the request's vertex key is sound.
ArtifactSound ==
    \A m \in Mounts :
        At(m, "done") =>
            \E c \in Sources(step[m].req) : step[m].out = Golden(step[m].req, c)

\* From acquireSource to extractTarball the tarball stays in place and, when
\* the request pins it, has the pinned content: the nuke in between spares it.
VerifiedSource ==
    \A m \in Mounts :
        step[m].src = "cached" =>
            mount[m][".kbf-src.tar"] \in Sources(step[m].req)

Loses(m) ==
    \E f \in {".config", ".kbf-stamp", "Makefile", "arch", "kernel.o", "vmlinux"} :
        mount[m][f] # None /\ mount'[m][f] = None

DiscardsVerified(m) ==
    (mount[m][".kbf-stamp"] \in Stamps /\ Loses(m)) =>
        \/ At(m, "idle")
        \/ /\ step[m].src # None
           /\ mount[m][".kbf-stamp"] # StampWant(step[m].req)

\* A tree with a live stamp loses files only to garbage collection or to a
\* step that wants other inputs and already holds a verified replacement: a
\* mistyped SHA256, a dead server or a kill before that leaves it intact.
TreeKept == [][\A m \in Mounts : DiscardsVerified(m)]_vars

Publishes(m) ==
    LET r == step[m].req
    IN  /\ At(m, "upload")
        /\ mount[m][".kbf-stamp"] = StampWant(r)
        /\ r.expect = None \/ Meets(mount[m], r.expect)

\* The store changes only by a step past its expectation gate, with a tree
\* bearing the stamp of its request.
PublishGated == [][seed' # seed => \E m \in Mounts : Publishes(m)]_vars

\* No seed is published from an unpinned URL, the rule that Spec.Validate
\* states for seeders, whichever way the push was requested.
PinnedSeed ==
    \A object \in seed, r \in Requests :
        r.kind = "url" => object[".kbf-stamp"] # StampWant(r)

\* Whether the request, or the store, gives the step its reason to fail; one
\* reason lies on the mount, a marker left without its .config.
OwnFault(t, s) ==
    LET r == s.req
    IN  CASE s.why = "push"    -> r.push
          [] s.why = "seed"    -> Seeded(r)
          [] s.why = "upload"  -> Seeded(r) /\ r.cfgPush
          [] s.why = "sha"     -> r.kind = "pinned"
          [] s.why = "expect"  -> ~Satisfies(Asked(r), r.expect)
          [] s.why = "modules" -> Asked(r) \intersect Modular = {}
          [] s.why = "config"  -> /\ t[".config"] = None
                                  /\ t[".kbf-config-src"] = CfgId(r)
          [] OTHER -> FALSE

\* A step that was not disturbed fails only for a cause of its own request or
\* of the store, never because of what earlier steps left on the mount; the
\* one exception is a marker left without its .config.
FailsForCause == \A m \in Mounts : At(m, "failed") => OwnFault(mount[m], step[m])

\* Every step that starts ends (the mount is idle again and again): no nuke,
\* extraction or retry goes on forever.
Terminates == \A m \in Mounts : []<>At(m, "idle")

\* When configure returns, .config is the resolved config of the request.
ConfigureProducesConfig ==
    \A m \in Mounts :
        At(m, "expect") =>
            mount[m][".config"] = Resolved(Asked(step[m].req), SourceOf(mount[m]))

-----------------------------------------------------------------------------
(***************************************************************************)
(* The abstraction: everything between the start of a step and its end is  *)
(* one running build, and of the seed object only its stamp is seen.       *)
(***************************************************************************)
\* The requests a cold build could satisfy: the push can be performed, the
\* expectations follow from the config inputs, modules are switched on.
Feasible(r) ==
    /\ CheckSeedPush(r)
    /\ r.expect = None \/ Satisfies(Asked(r), r.expect)
    /\ "modules" \in r.targets => Asked(r) \intersect Modular # {}

Stage(pc) ==
    CASE pc = "unpack" -> "published"
      [] pc \in {"idle", "done", "failed"} -> pc
      [] OTHER -> "running"

\* The requests whose tree goes to the store, and what may answer a request.
Publishers == {r \in Requests : Seeded(r) /\ r.cfgPush}

Answers ==
    [r \in Requests |-> IF Feasible(r) THEN {Golden(r, c) : c \in Sources(r)} ELSE {}]

StampOf == [r \in Requests |-> StampWant(r)]

BuildOf(s) == [state |-> Stage(s.pc), req |-> s.req,
               out |-> IF s.pc = "done" THEN s.out ELSE None]

Builds == [m \in Mounts |-> BuildOf(step[m])]

Published == {object[".kbf-stamp"] : object \in seed}

Service == INSTANCE CompileService WITH build <- Builds, published <- Published

\* Through every kill, eviction, re-roll and foreign or stale seed the compile
\* step behaves as the service: it answers a feasible request with a cold
\* build's artifacts and no other request at all, publishes only for requests
\* it will answer, and answers a publishing request only after its upload.
ImplementsService == Service!Spec

-----------------------------------------------------------------------------
(***************************************************************************)
(* The inductive invariant behind StampSound, MarkerSound, SeedSound and   *)
(* ArtifactSound, in terms of one mount t and the step s that holds it.    *)
(***************************************************************************)
\* No request's base target merges into whatever .config it finds.
NoMergeBase == \A r \in Requests : r.base \notin MergeBases

Bare(t) == \A f \in TreeFiles : t[f] = None

\* t is fit to be stamped with w: sources, objects, image and skip marker.
Whole(t, w) ==
    \A r \in Requests : w = StampWant(r) =>
        /\ Clean(t, r)
        /\ Objects(t) \subseteq {SourceOf(t)}
        /\ t[".config"] \in Configs \union {None, Torn}
        /\ t["vmlinux"] # None =>
              t["vmlinux"] = [objs |-> t["vmlinux"].objs,
                              config |-> t["vmlinux"].config, link |-> 1]
        /\ NoMergeBase =>
              \A q \in Requests :
                  t[".kbf-config-src"] = CfgId(q) => Configured(t, q)

\* The steps of the source and of the extraction that follows it.
SourceInv(t, s) ==
    /\ s.pc = "idle" => s.src = None
    /\ s.src = "cached" => t[".kbf-src.tar"] \in Sources(s.req)
    /\ s.src = "local" => s.req.kind = "local"
    /\ s.pc \in {"download", "receive", "verify"} => s.req.kind # "local"
    /\ s.pc = "verify" => t[".kbf-src.tar.part"] \in Tarballs
    /\ s.pc = "extract" => s.src # None
    /\ s.pc = "nuke" => s.next \in {"clear", "hydrate", "source", "failed"}
    /\ s.pc \in {"hydrate", "pull", "extract"} => Bare(t)
    /\ s.pc \in {"source", "acquire", "download", "receive", "verify"} =>
          TreePresent(t) \/ Bare(t)
    /\ s.pc \in {"clear", "source"} =>
          ~TreePresent(t) \/ t[".kbf-stamp"] = StampWant(s.req)

\* What has been extracted so far, and that none of it bears a live stamp.
UntarInv(t, s) ==
    /\ s.pc = "untar" =>
          /\ s.next \in {"patch", "adopt"}
          /\ \A f \in TreeFiles : t[f] = IF f \in s.todo THEN None ELSE s.img[f]
          /\ s.img[".kbf-stamp"] = None
          /\ s.next = "patch" => \E c \in Sources(s.req) : s.img = TarImage(c)
          /\ s.next = "adopt" => Whole(s.img, s.img[".kbf-stamp.seed"])
    /\ s.pc = "patch" =>
          \E c \in Sources(s.req) : \A f \in TreeFiles : t[f] = TarImage(c)[f]
    /\ s.pc = "adopt" =>
          t[".kbf-stamp"] = None /\ Whole(t, t[".kbf-stamp.seed"])
    /\ s.pc \in {"bless", "stamped"} =>
          t[".kbf-stamp"] \in {None, Torn} /\ Whole(t, StampWant(s.req))

Configuring == {"base", "append", "write", "written", "olddefconfig", "mark",
                "marked"}

Compiling == {"expect", "version", "make", "link", "linked", "copy", "pack",
              "upload", "unpack", "done"}

\* The marker is gone while .config is in the making, and names it after.
ConfigInv(t, s) ==
    /\ s.pc \in {"configure", "unmark"} \union Configuring \union Compiling =>
          t[".kbf-stamp"] = StampWant(s.req)
    /\ s.pc \in Configuring => t[".kbf-config-src"] \in {None, Torn}
    /\ s.pc \in {"base", "append"} => s.req.base # None
    /\ s.pc \in {"write", "written"} => s.req.base = None
    /\ s.pc \in {"append", "olddefconfig", "mark", "marked"} => t[".config"] \in Configs
    /\ NoMergeBase =>
          /\ s.pc = "append" => t[".config"] = Raw({s.req.base})
          /\ s.pc = "olddefconfig" => t[".config"] = Raw(Asked(s.req))
          /\ s.pc \in {"mark", "marked"} =>
                t[".config"] = Resolved(Asked(s.req), SourceOf(t))
    /\ s.pc \in Compiling => t[".kbf-config-src"] = CfgId(s.req)

\* What make leaves is what the artifacts are copied from.
CompileInv(t, s) ==
    /\ s.pc \in {"make", "link"} => t[".version"] = None
    /\ s.pc = "linked" => t[".version"] = 1
    /\ s.pc \in {"link", "linked"} =>
          Readable(t) /\ t["kernel.o"] = {SourceOf(t)}
    /\ s.pc = "copy" /\ Makes(s.req) =>
          /\ Readable(t)
          /\ t["kernel.o"] = {SourceOf(t)}
          /\ t["vmlinux"] = [objs |-> {SourceOf(t)}, config |-> t[".config"],
                             link |-> 1]
    /\ NoMergeBase /\ s.pc \in {"pack", "upload", "unpack", "done"} =>
          \E c \in Sources(s.req) : s.out = Golden(s.req, c)

MountInv(t, s) ==
    /\ Whole(t, t[".kbf-stamp"])
    /\ SourceInv(t, s)
    /\ UntarInv(t, s)
    /\ ConfigInv(t, s)
    /\ CompileInv(t, s)

SeedInv == \A object \in seed : Whole(object, object[".kbf-stamp"])

\* Every mount, at every point of the step that holds it, is either fit for
\* the stamp it bears or bears none; so is the seed object.
TreeInv ==
    /\ TypeOK
    /\ \A m \in Mounts : MountInv(mount[m], step[m])
    /\ SeedInv

(***************************************************************************)
(* The invariant of the step, on top of TreeInv: what it may still remove, *)
(* which checks it has passed and why it fails.                            *)
(***************************************************************************)
\* With the old tree still there, its replacement is not the same again, and
\* a nuke meets a live stamp only with the replacement at hand.
ReplaceInv(t, s) ==
    /\ (s.pc \in {"acquire", "download", "receive", "verify"} /\ TreePresent(t)) =>
          t[".kbf-stamp"] # StampWant(s.req)
    /\ (s.pc = "nuke" /\ t[".kbf-stamp"] \in Stamps) =>
          s.src # None /\ t[".kbf-stamp"] # StampWant(s.req)

\* The checks of run hold from where they were made to the end of the step.
GateInv(t, s) ==
    /\ s.pc \notin {"idle", "failed"} => CheckSeedPush(s.req)
    /\ s.pc \in Compiling \ {"expect"} =>
          s.req.expect = None \/ Meets(t, s.req.expect)
    /\ (s.pc \in Compiling \ {"expect", "version"} /\ "modules" \in s.req.targets) =>
          Readable(t) /\ t[".config"].layers \intersect Modular # {}
    /\ s.pc \in {"pack", "upload", "unpack"} => Seeded(s.req) /\ s.req.cfgPush

\* A failure has a cause; a broken seed is cleaned up before it is reported.
FaultInv(t, s) ==
    /\ s.pc = "pull" \/ (s.pc = "untar" /\ s.next = "adopt") => Seeded(s.req)
    /\ (s.pc = "nuke" /\ s.next = "failed") => s.why = "seed" /\ Seeded(s.req)
    /\ (NoMergeBase /\ s.pc = "failed") => OwnFault(t, s)

JobInv(t, s) ==
    /\ s.pc = "idle" => s = Idle
    /\ ReplaceInv(t, s)
    /\ GateInv(t, s)
    /\ FaultInv(t, s)

\* At every point of every step: it destroys nothing it cannot replace, has
\* passed the checks that come before, and fails for a cause of its own.
StepInv == \A m \in Mounts : JobInv(mount[m], step[m])
=============================================================================
