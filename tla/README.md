# A TLA+ model of kernelbuild-buildkit

`kernelbuild-buildkit` is a BuildKit frontend that builds Linux kernels over a
persistent object tree. These modules model it from the invocation to the
artifact: how a Kernelfile, options and flags become a `Spec` and a solve, which
builds share a cache entry, a mount or a seed, what the client driver does while
the daemon works, and the compile step (`cmd/kbuild-step`) over the tree it
keeps on its cache mount, with source download, parallel extraction and the seed
object that workers share through S3.

## Inventory

| component | source | state | operations | hard behaviour |
|---|---|---|---|---|
| tree preparation | `cmd/kbuild-step/main.go` `run`, `prepareTree`, `nukeTree`, `acquireSource`, `applyPatches` | the files of the cache mount, `.kbf-stamp` | compare stamp, nuke, hydrate, extract, patch, stamp | killed between any two effects; next build may want other inputs |
| configure | `configure` | `.config`, `.kbf-config-src` | skip, unmark, make base, append, write, olddefconfig, mark | marker and config are two files |
| expectation gate | `expect.go` `validateExpectations` | none | pass or fail | must precede compile and push |
| compile and artifacts | `run`, `packModules`, `bundleKconfigs` | objects, `.version`, `vmlinux`, `/out` | reset, make, copy | warm result must equal a cold one |
| seed | `loadSeedCfg`, `seedPull`, `untarSeed`, `seedPush` | the seed object, `.kbf-stamp.seed`, `.kbf-seed-*.tmp` | pull, adopt or discard, pack, upload | shared by workers; foreign objects; broken streams |
| download | `acquireSource`, `download`, `parseRetryAfter` | `.kbf-src.tar`, `.part`, attempt, backoff | request, resume, restart, retry, verify, rename | re-rolled files, dropped connections, ignored ranges |
| extraction | `untarFiltered`, `writeEntry`, `untarpool.go` | directory, channels, counter, buffers, first error | dispatch, flush, inline entries, write, close | reader and workers interleave; faults; drain |
| Spec | `spec.go` | none (pure) | defaults, validation, derived URL | rules that depend on each other's fields |
| graph and identities | `llb.go` | none (pure); BuildKit's caches are found by its keys | environment, mounts, secrets, mount id, seed key | two builds sharing what they must not, or not sharing what they could |
| Kernelfile parser | `step.go` | a `Spec` under construction, keys seen | scan lines, decide URL and pin after EOF | order of keys |
| gateway frontend | `cmd/kbuild-frontend` | the same `Spec` | subrequest, fetch file, layer options, validate, cache imports | order of layers; a failed fetch |
| gateway solve | `gateway.go` | the same `Spec` | resolve base, check context, make graph, solve | moving tags; early returns |
| client driver | `client.go`, `cmd/kbuildctl` | temp dir, span, connection, channel, transcript | flags, stage helper, dial, solve, collect status, prune | early returns; one goroutine and an unbuffered channel |
| llbdump | `cmd/llbdump` | none | print a graph | none |

How they interact: the frontend turns a Kernelfile and options into a `Spec`,
`KernelLLB` turns that into a graph whose compile vertex runs `kbuild-step` with
an environment, secrets and a locked cache mount. BuildKit serialises the steps
of one mount, may cancel a step at any time and may evict an idle mount. Workers
with separate mounts meet in the seed object, in an exported vertex cache and at
the source server. `kbuildctl` takes the same path from `GatewaySolve` on.

What correctness means, component by component:

* tree: a stamp vouches for the whole tree; a warm tree is given up only for a
  verified replacement; nothing an earlier build left shows in an artifact;
* configure: the marker names the inputs of the `.config` beside it;
* seed: what is published is as good as a stamped tree, and nothing that failed
  its gate is published; what does not match is not adopted;
* download: a pinned tarball is exact, a resumed one is not spliced, a fetch
  neither gives up early nor waits for ever;
* extraction: the result is that of the serial loop, and nothing writes after it
  has returned;
* frontend: what is solved is what the invocation says, in whatever order and
  layer it says it, and nothing else is refused or built;
* identities: one tree, one compiler, as long as toolchains do not share a seed;
  one key, one artifact; a push is never answered from the cache; proxies and the
  seed's place cost no cache entry;
* client driver: every way out gives back what was acquired, and the report is
  complete.

## Modules

| module | models |
|---|---|
| `ObjectTree` | the compile step over its mount, with seed store and source server |
| `MCObjectTree` | the builds and constants of the `tree_*` runs |
| `ObjectTreeProofs` | its inductive invariant and what follows for stamps, markers, seeds and artifacts |
| `ObjectTreeService` | proofs of what a step promises: replacement, gates, causes of failure, and that it implements `CompileService` |
| `SourceFetch`, `MCSourceFetch`, `SourceFetchProofs` | `acquireSource` and `download` in detail |
| `TarTree` | what extracting entries one by one leaves (pure operators) |
| `UntarPool`, `MCUntarPool`, `UntarPoolProofs` | the reader loop and the write pool |
| `UntarSerialProofs` | that the pool extracts what the serial loop would, and implements `AtomicUntar` |
| `AtomicUntar` | what an extraction promises: it fails, or it leaves the serial result, in one step |
| `CompileService` | what the compile step promises: answer with a cold build's artifacts, fail, or be aborted; publish only what is answered |
| `KernelSpec` | `Spec`: defaults, `Validate`, mount id, seed key and `seed_cfg` secret, source identity (pure operators) |
| `Frontend`, `MCFrontend`, `FrontendProofs` | Kernelfile, options, flags, `GatewaySolve` |
| `BuildService`, `MCBuildService`, `BuildServiceProofs` | the graph of a `Spec` and BuildKit executing many of them on several workers |
| `ClientDriver`, `MCClientDriver`, `ClientDriverProofs` | `Build` and `Prune` with the status goroutine |

Three modules meet at the compile step: `BuildService` says which builds share a
mount, a seed or a cached result and reduces the mount to its stamp and the
compilers of its objects; `ObjectTree` takes one mount identity and says what happens on it;
`CompileService` is the promise between them. `KernelSpec` is shared by
`Frontend` and `BuildService`.

### ObjectTree

`mount[m]` is a function from file names to contents; `None` is an absent file,
`Torn` one created or truncated but not yet written. Two names, `Makefile` and
`arch`, stand for the source tree, because `treePresent` looks at the first and
patches change others; `kernel.o` stands for the objects and holds the set of
source generations some object was compiled from, because `make` cannot tell an
object of another source apart. A `.config` records the inputs that went into it
and the source whose Kconfig resolved it. `step[m]` is the process: its `pc` has
one value for each file-system effect that a kill can follow, so `os.WriteFile`
is two steps and a nuke one step per entry, in `ReadDir` order.

The phases are the functions of the code: `Prepare` is `prepareTree` (with
`Nuke...`, `Untar...`, `Acquire`/`Download`/`Receive`/`Verify` for what it calls),
`Configure` is `configure`, `Compile` the rest of `run`. `Kill`, `Evict`, `ReRoll`
and the linker's use of `.version` are the environment.

Abstractions: `Kill` also stands for every local I/O error, a patch that does
not apply, a failing `make` and a corrupt tarball, since each returns with the
mount as it is. The named failures, whose cause a property looks at, are actions
of their own. The patch series is one action: a tree killed within it has no
stamp, as one killed just before it. `Receive` delivers some tarball the server
served; that a pinned download is exactly that is what `SourceFetch` shows. An
unpinned download across a re-roll may be a splice of two tarballs; the
decompressor's checksum then fails the extraction, which is again `Kill`.
The S3 object is read and replaced atomically, as S3 promises; `seed` is the set
of the objects under the key, empty or of one.

Requests carry what the compile vertex's environment, mounts and secrets carry.
`ConstantsAssumption` says what the code guarantees of them: only unpinned URL
builds lack a sum, a requested push is pinned (`Spec.Validate`), patched and
unpatched builds never share a mount (`patchedSuffix`), and an object already
under the seed key does not bear a stamp of ours without being ours. It also says
that the sentinels `None` and `Torn` are no contents of a file. An
expectation file is a set of lines of its three forms, about the config inputs,
or of no known form.

`ImplementsService` maps a step to the abstract build of `CompileService`: all
locations between start and end are one running build, except that between the
upload and the end it has published; of the seed only the stamp is seen. The
answers a request may get are its golden artifacts, none if it cannot be
satisfied (`Feasible`).

### SourceFetch

A tarball is a sequence of chunks marked with version and position. The server
may replace the file at any time, answer a range with the whole file, break a
body off, even after its last chunk, or end it early with a clean EOF. `server`
remembers whether it did something no client could notice (`"unsteady"`). That
a 206 answer starts where the range asked is taken from the protocol: the code
does not look at `Content-Range`. Local extensions (`.gz`, `.xz`, `.zst`) are one
cache file here.

### UntarPool

Reader and workers take one step per `os.Root` call. `shard` is an arbitrary
function from names to workers, which covers every hash. If `faults` is chosen
at the start, any call may fail and the stream may break. `sync.Pool` is the set `free` of buffers, one
per entry at most. `TarTree` gives each call as the set of trees it may leave,
empty on failure, so the same operators make up the interleaved and the serial
extraction. Symbolic links point to directories of the tree; modes and times are
left out. Streams in which two names reach one file through a symbolic link to a
directory are not among the instances: jobs are sharded by name, so such a pair
lands in either order (`untarpool.go:104`) and `SerialResult` fails. Nor are
streams with a directory of the name of an earlier small file. The reader makes
directories without a flush (`main.go:852`), so for `a` as a file and then as a
directory TLC finds a behaviour in which the directory overtakes the write: the
worker removes the empty directory, creates the file, and the extraction succeeds
where the entries in order would fail. The comment in `untarpool.go:20` counts
directories among what stays behind the barrier; the one in `main.go:850` says why
an archive of a tree does not need it. Kernel tarballs and packed trees hold
neither kind of stream; for archives of a tree (`TreeShaped`, which excludes both)
the property is proved.

### KernelSpec and Frontend

A `Spec` is a record with the fields of the Go struct. A value is an atom of its
class: what the code compares or passes on stays apart, `Bad` stands for all that
the pattern of a field rejects, `Unset` for the empty string, and a version, a URL and an image reference are
records of the parts the code looks at. `Frontend` has one action per phase:
`Subrequest`, `Fetched`, `ScanLine` (the next line of the file is chosen when it
is read), `EndOfFile`, `ApplyOpts`, `CheckSpec`, and for `kbuildctl` `Flags`,
`CheckDriver`, `Attach`; then `ResolveBase`, `CheckContext`, `SolveGraph`, common
to both. The daemon's answers are free, and `trouble` records that a call
failed. The reference (`Means`, `Sensible`) says what an invocation asks for
without looking at any order. An option map lacks the keys that are empty, as
`applyOpts` treats them alike. `targets=","` is read as no targets, hence as the
arch's default, by the option layer, while the Kernelfile and `kbuildctl` refuse
it; the reference follows the code there.

### BuildService

`CompileKey` is what BuildKit hashes of the compile vertex: the toolchain vertex
below it, environment, mount id and the content of the read-only mounts; secrets
and proxies are not in it. `Submit` pins the base, `Hit` answers from the cache,
`Start`, `Prepare`, `Compile`, `Push` and `Finish` are an execution, which may
`Fail` in between, `Retag` and `Upgrade` move the registry and the apt archive,
`Prune` and `Collect` empty a worker. A worker executes one build at a time, which
the locked mount enforces for builds that share one. The cache is common to the
workers, as if always exported and imported. Sources are pinned here; unpinned
ones are `ObjectTree`'s subject. `Compile` may recompile everything, nothing or a
part of what lies on the mount, since which objects `make` takes for stale depends
on the configs.

A request is a `Spec`, the content of its inputs and the `seed_cfg` secret. From
where a step pulls a seed and whether and where it publishes one is up to the
secret alone (`loadSeedCfg`), not to the `Spec`. `kbuildctl` makes the secret from
the `Spec` it was given (`SeedCfg`), before `GatewaySolve` pins the base; a user of
the gateway, whose `Spec` never has a `SeedURL`, writes it by hand, so any place,
any `SEED_PUSH` and no secret at all are among the requests. `Prepare` is
`checkSeedPush` and `prepareTree`: a push that was asked for and that the secret
does not allow ends the step, otherwise the tree becomes the one on the mount or
in the seed whose stamp is the wanted one, or a new one. The stamp names source
and patches and no toolchain, as in the code.

`OwnSeeds` are the toolchains that have their seeds to themselves: whoever pushes
where one of their builds pulls is of the same toolchain, whatever tags come to
name. It is a condition on the requests, and one that cannot be done without:
`seed_tag` shows compilers that mix outside of it.

### ClientDriver

`defers` is Go's stack of deferred calls. The daemon's client is external: it
sends packets while the goroutine receives, `client.Build` closes the channel when
it returns, `client.Prune` does not. The checks before the dial are one step each
that passes or fails; `Frontend` says when. Callbacks of the configuration
(`OnStatus`, `Progress`) are assumed to return.

## Runs

| run | instance | question | distinct states |
|---|---|---|---|
| `tree_local` | one mount, two tarballs behind one URL, five builds | stamps, markers, artifacts and verified sources through kills, evictions and re-rolls; what a step may fail for | 69,154 |
| `tree_seed` | one mount, one tarball under two patches, four builds, empty store or foreign object | refinement of `CompileService`, publish gate, adoption, termination | 124,188 |
| `tree_team` | two mounts, two configs of one local source, symmetric | interleavings through the seed | 409,339 |
| `pool` | three workers, one-slot channels, eight streams, with and without faults | serial result, refinement of `AtomicUntar`, no false alarm, counter, buffers, drain, termination | 203,280 |
| `fetch` | tarballs of two and three chunks, five attempts | exactness, resume, patience, termination | 174,224 |
| `frontend` | files of up to three lines out of fourteen, 34 option maps, 17 flag maps, two digests, four contexts | what is solved, what is refused, which pin | 295,860 |
| `service` | two workers, three builds out of nine requests, two digests of a tag, two archives | identities, cache keys and seed secrets | 1,996,719 |
| `client` | `Build` and `Prune`, four kinds of packets, up to four of them | clean exits, transcript, return | 56,292 |
| `tree_wedge`, `tree_merge`, `seed_unpinned`, `seed_tag` | see Findings | violated | |

Why the bounds are enough. Two sources (two tarballs, in `tree_seed` two patches
of one) and two configs are the least with which a tree can be mixed up, and
every file is a name of its own, so that each order of removal and extraction
occurs; no counter is cut off, so the runs cover behaviours of any length. A
second mount matters only through the seed. One-slot channels block after two
jobs of a worker, as four-slot ones do after five. The streams are chosen for a
repeated name, a link to a queued file, a link that is moved under a write, more
files than a channel holds, and names that conflict. Tarballs of different
length are needed for the 416 answer; five attempts is the code's own number.
Three lines hold `KERNEL`, `SOURCE_URL` and `SHA256` together, the keys that
interact, in every order and with one of them doubled or replaced by a line of
another kind; each other key is independent of the rest. Three builds are the
least in which one can fill a mount or the store, a second replace it and a third
use it. The requests differ in what an identity must, or must not, depend on; four are
the client driver's, with and without a seed, five the gateway's, with a key of
their own, a key that two toolchains share, or no secret. Four packets let
both vertices be mentioned, updated and finished in any order.

Fairness. `ObjectTree!FairSpec` is weak fairness of a running step as a whole:
nothing in it waits for another process. `UntarPool` has weak fairness of each
goroutine, which the Go scheduler gives. In `SourceFetch` every request is
answered or times out: the client's 30-minute limit covers the whole transfer,
the dialer has its own, and the backoff is a timer. `ClientDriver` has weak
fairness of the two goroutines and assumes that the daemon's client returns in
the end, since what it checks is that nothing else can keep the call. Kills,
re-rolls and new builds are never assumed to happen.

## Properties

`StampSound`, `MarkerSound` and `SeedSound` are about what lies on a mount or in
the store; `ArtifactSound` is what they are for: `/out` equals what a build of the
same request on an empty mount delivers (`Golden`), which is what allows BuildKit
to cache it under the request alone. `VerifiedSource` and `TreeKept` are the
promise of `prepareTree`'s comment that a wrong digest costs nothing. `PublishGated`
constrains every change of the store: gate passed, tree stamped for the request. `FailsForCause` says that an undisturbed
step fails only because of its own request or the store, with the one exception
of the first finding. `Terminates`, `Returns` and `Ends` are the liveness
properties. The pool's `PendingExact`, `BufferOwned`, `BarrierHolds` and
`QuietAfterReturn` are what its comments claim of the counter, the buffers, the
flush and the deferred close. `ImplementsService` puts the promises of the step
into one abstract machine, and adds that a publishing build succeeds only after
its upload.

`BuildsWhatIsAsked` and `RefusedForCause` are the two directions of one statement:
an invocation is solved as it is meant if it describes a build, and refused only
if it does not or a call failed. `PinFits` states the rule about pins by itself,
because it is what keeps a stale digest from failing, or vouching for, another
tarball. `OneCompiler` says that the objects of a tree have one compiler, up to
the states of the apt archive, if the toolchain is one of `OwnSeeds`: the mount id
names all that selects a compiler, and a shared seed is the only way by which
objects get from one toolchain to another. `AnswersRight` says that a build gets
what its own `Spec` and inputs determine: source, patches and settings in any
case, the one compiler for a ready toolchain in `OwnSeeds`. `PushHappens` says that
neither the vertex cache nor a secret that does not push swallows a push that was
asked for. `NoNeedlessRun` says that the vertex key does not hold too much. It is
about builds that are not asked to push: those run each time and, by their action,
share no results.

Next to the definitions stand variants of them with a plausible mistake (a
dropped guard, a swapped order, a missing reset), commented as mutants;
`PROJECT.json` says which property each of them must violate.

## Proofs

Eight modules hold proofs. Each theorem holds for every value of the constants that
satisfies the named assumption of its module; TLC evaluates the assumptions in
the runs. The inductive invariants were checked by TLC on the runs' instances
before they were proved; `TreeInv`, `StepInv`, `FetchInv` and `PoolInv` are
invariants of the runs, the others follow the same pattern.

### The compile step

`ObjectTreeProofs` proves, for every set of workers, requests, tarballs and
patches, that `TreeInv` is an invariant, and from it `TypeOK`, `StampSound` and
`VerifiedSource`; if moreover no request's make base only merges
(`NoMergeBase`, the second finding), `MarkerSound`, `SeedSound` and
`ArtifactSound`.

None of these is inductive alone. That a stamp may be written is known only
because the tree was bare when the extraction began and everything since came
from one tarball (`SourceInv`, `UntarInv`); that a seed may be adopted, because
the seed object is itself fit for the stamp in it (`SeedInv`) and the image under
extraction keeps that; that a skipped configure is harmless, because the marker
is gone while `.config` is being made (`ConfigInv`); that the copied artifacts are
golden, because after the reset a link is always the first (`CompileInv`, and in
`Whole` that an image on the mount has link count 1, which is why not relinking is
right too). `Whole(t, w)` puts together what a tree must be to bear stamp `w`. The
invariant speaks of one mount and its step; `PrepareKeeps`, `ConfigureKeeps` and
`CompileKeeps` have one case per action, `SeedKept` treats the store, `FrameInv`
the mounts that do not move.

`ObjectTreeService` adds `StepInv`, again one mount and its step at a time:
`ReplaceInv` (while a replacement is sought the tree does not bear the wanted
stamp, and a nuke of a stamped tree has the replacement in hand), `GateInv` (the
expectations and the modules check still hold of the `.config` at every later
location, because nothing after the gate writes it) and `FaultInv` (a location
that leads to a failure carries its cause). From `TreeInv` and `StepInv` follow
`FailsForCause`, the action properties `TreeKept` and `PublishGated`, and
`ImplementsService`: `ServiceInit` maps the initial states, and for each action a
lemma says which action of `CompileService` it is under the mapping `Builds`,
`Published`, or that it changes neither. The answer of a finished build is one
the service may give by `ArtifactSound`'s argument, what it publishes bears the
stamp of its request by `PublishGated`'s. `FailsForCause` and the refinement
assume `NoMergeBase`; the rest does not.

### Source download

`SourceFetchProofs` proves `FetchInv` for any versions, sizes and delays, and from
it `PinnedExact`, `ResumeExact`, `SteadyWhole`, `Patience` and the action property
`CacheKept`. The invariant adds that during a copy from a steady server the body
stands exactly at the end of the partial file, and that the time slept follows
the schedule.

### Extraction

`UntarPoolProofs` proves `PoolInv` for any number of workers, any capacity, every
stream and every hash, and from it `TypeOK`, `PendingExact`, `BufferOwned`,
`BarrierHolds` and the action property `QuietAfterReturn`. The invariant looks at
a worker's jobs as one line, the job in hand first and then its channel, so that
taking a job changes nothing, sending appends and finishing drops the head
(`LineTake`, `LineSend`, `LineDone`). All jobs in all lines are of different
entries (`LinesInv`); therefore their number is the cardinality of `Outstanding`,
which the counter follows (`PendingExact`), and the buffer given back by one is
not that of another. A zero counter then means empty lines (`NothingPending`),
which is what the barrier and the return rest on. `PoolAssumption` says of a
stream that its links point to paths of the tree, and of the paths that they are
closed under following a link.

`UntarSerialProofs` proves `SerialResult`, `NoFalseAlarm` and `ImplementsAtomic`
for every stream that is `TreeShaped`: a name that is a directory for one entry
(an entry of its own, or what lies above another entry or above the target of a
hard link) is no file and no link for another. Walking a directory tree without
following links, which is how `seedPush` and the makers of kernel tarballs write
an archive, puts nothing else into it. Names may repeat; links, hard links, large
files and skipped entries may stand anywhere. Without the hypothesis the theorems
are false, as the two kinds of streams named under `UntarPool` above show.

The argument compares the directory on disk with the serial loop's at the same
entry (`After(stream)[Through]`). `Agrees(s, t, f, W)` says how they differ while
the entries `W` (`Waiting`) are queued or in hand and not yet in their places: a
name that some of them write holds in the serial tree the file of the last of
them; every other name holds the same in both; a directory is in the serial tree
exactly if it is on disk or one of them will make it. Each operation has a lemma:
a job sent adds to `W` (`AgreesSend`), `MkdirAll` and `Remove` of a worker change
nothing that `W` does not excuse, the creation takes its entry out of `W`
(`AgreesCreate`), which is right only because what else waits for that name is
younger. That holds because a name has one worker and a worker's line is in
stream order (`OrderInv`), which is what sharding by the path is for. Behind the
barrier `W` is empty, so the directories are equal (`AgreesSame`), and the
reader's own calls on a link or a large file are the serial loop's
(`StageInv`). `CallOK` keeps what a worker's last call left for its next one: no
other worker, and no directory made inline, touches the name. `WrittenInv` adds
that a file in its place has its content or someone about to write it, and
`SerialInv` that once something has failed, without faults, the serial loop fails
as well, because a tree-shaped stream fails nowhere but at a hard link whose
target is missing or a directory. `Serial` is recursive; that its function exists and satisfies
its equations (`GrowthExists`, `AfterIs`), and that a failed prefix stays failed
(`EmptyStays`), come from the least-number principle (`LeastIndex`) rather than
from an induction theorem. TLC checked `SerialInv` on the streams of `pool` before
it was proved.

### From an invocation to a solve

`FrontendProofs` proves `FrontendInv` for files of any length and every option
map, flag map, context and answer of the resolver, and from it
`BuildsWhatIsAsked`, `RefusedForCause` and `PinFits`. The invariant says for every
location which part of the meaning the `Spec` already is: while the file is
scanned, the defaults and what its lines have said so far (`Said`), and the keys
seen are those of its pairs; after the end of the file `FileMeans`; after options
or flags `Means`; after the resolver `Means` with a digest (`LayerInv`). With it go
the checks passed by then (`CheckInv`), so that a solve is of a sensible invocation
and a refusal has its cause.

The lemmas carry the argument. A well written file says one thing about a key
(`SaysOnce`), so a line more adds one key and leaves the others (`SaysMore`,
`TakenIsSaid`), and a line that is refused makes the file one that is not well
written (`LostWritten`). `EndIsMeant`, `OptsAreMeant` and `FlagsAreMeant` compare,
field by field, the order in which the code derives URL and pin with the reference
that knows no order; `PinKeeps` says that neither `Validate` nor the files of the
context depend on the digest. `FrontendAssumption` says that a line is blank, bare
or a pair, that what stands for a base is a name and a digest, that the resolver
returns no empty digest (`GatewaySolve` refuses one, which is `ResolveFails`), and
that `kbuildctl` has no flag for the URL.

### Identities

`BuildServiceProofs` proves `ServiceInv` for every set of workers, requests,
digests and archives, and from it `OneCompiler`, `AnswersRight`, `PushHappens` and
the action property `NoNeedlessRun`. The compilers on a mount are those that the
toolchain hash within the mount id names, up to the archive, and the compilers of
a seed are those named by every toolchain that may pull it, each time for
toolchains in `OwnSeeds` (`MountsInv`, `StoreInv`). The two hold each other up: a
mount takes over a seed's objects, and a seed is a mount's tree, published by a
build that, by the definition of `OwnSeeds`, has the same toolchain as the one
that pulls. A build at work carries a secret that came with its `Spec` (`Asked`)
and from `Prepare` on has the wanted stamp on its mount (`BuildInv`); an entry of
the cache bears the key of its own `Spec`, inputs and action, and holds what these
determine (`EntryInv`), so that a hit for another build of the same key is right
because the key holds every field that the artifact depends on (`SameKey` compares
them field by field); the action of a push at work occurs in no entry
(`FreshActions`).

`ServiceAssumption` says that a request's `Spec` has the fields of the struct and
has been validated, that its source is pinned or local, that a tag names some
image, and that the secret is the client driver's for this `Spec` or, if the `Spec`
has no `SeedURL`, anything. Nothing is assumed about which requests share a seed:
that is the hypothesis of the compiler clauses, in the properties themselves.

### Client driver

`ClientDriverProofs` proves `DriverInv` and with it `NothingLeft`: what is held has
its release on the stack of deferred calls exactly once (`HeldInv`), and the
goroutine lives as long as its channel is open (`ChannelInv`). `TranscriptInv`,
and with it `TranscriptWhole`, holds for streams of any length and packets of any
size: what was collected sums up (`SumsUp`) the updates sent so far, less those
still in the goroutine's hands. The lemmas say what one more update does to the
last time, the first mention and the order of the vertices; where they need the
first or last index of a set, its existence comes from `Least`, the least-number
principle, not from an induction over sequences.

### Only model-checked

The liveness properties `Terminates`, `Returns`, `Ends` and `BuildReturns`, which
are out of the prover's reach. `SerialResult`, `NoFalseAlarm` and
`ImplementsAtomic` are only model-checked for streams that are not tree-shaped,
where they hold of the run's `Relinked` and `Conflicts` and not in general.

## Findings

1. `tree_wedge`. A nuke removes `.config` before the skip marker and the stamp. A
   step killed in between leaves a tree that is warm for the old request, with a
   marker that makes `configure` skip and no `.config`: that request fails until
   another config or source has been built on the mount. Nothing wrong is ever
   built. Removing the stamp first would close the gap.
2. `tree_merge`. A `BASE_MAKE` of merge targets only, such as `kvm_guest.config`,
   merges into the `.config` of the previous build, so the artifact depends on
   whether the mount was warm. The documented use, a defconfig first, is not
   affected.
3. `seed_unpinned`. Whether a step publishes is decided by `SEED_PUSH` in the
   `seed_cfg` secret; that a seeder's source is pinned is checked only for a build
   whose `Spec` asks for the push. A gateway build with such a secret and without
   a SHA256 publishes a tree of whatever the URL served. Its stamp is the URL, so
   only unpinned builds of that URL adopt it.
4. `seed_tag`. `Build` makes the secret with the seed key (`client.go:150`) before
   `GatewaySolve` pins the base, and that pins its own copy of the `Spec`. With a
   base given by tag the seed is therefore keyed by the tag and the mount by the
   digest. After the tag has moved, a cold mount of the new digest adopts the seed
   made by the old image's compiler, because the stamp holds no toolchain, and
   goes on with the new one. The comment on `GatewaySolve` says that a moving tag
   must never get there, the operations guide that objects of different compilers
   cannot mix. Rendering the secret from the pinned `Spec`, or putting the
   toolchain hash into the stamp, would close the gap. The latter would also cover
   the gateway, where a `seed.env` with one `SEED_KEY` used for two base images or
   prefixes has the same effect. Builds with a base given by digest and seeds of
   the client driver are not affected unless somebody writes their key by hand: their
   toolchains are in `OwnSeeds`, for which `OneCompiler` is proved.

That an upgrade of the apt archive puts two compilers into one tree is no finding:
`SECURITY.md:66-68` and the comment on `toolchainHash` concede it, and `OneCompiler`
allows for it.

## Not modelled

Regular expressions of `Spec.Validate`, the splitting of a Kernelfile line into
key, value and comment, CSV and JSON syntax, time formatting, log redaction,
address vetting, trace export, the printing and exit code of `kbuildctl`, the
frontend's panic handler and `llbdump` are pure data or I/O. BuildKit, kbuild, S3,
the registry and `os.Root` appear as the code uses them. The resolver sets the
digest of a base and keeps its name; a source policy of the daemon that rewrites
the name (`gateway.go:65-83`) is not modelled, nor is what it would do to
identities, which contain the name as the resolver returned it.

## Plan

Done, in this order: `ObjectTree`, because the artifacts' correctness rests on it;
`UntarPool` with `TarTree` and its abstraction `AtomicUntar`; `SourceFetch`; the
invariant proofs of the first and the third; `KernelSpec` and `Frontend`;
`BuildService`; `ClientDriver`; `CompileService` and its refinement; the proofs of
the step's promises and the refinement, of the identities, of the client driver,
of the pool and of the frontend; the serial result of the pool and its refinement.

What is left is out of the prover's reach: the liveness properties. The theorems
about the extraction end at tree-shaped archives because beyond them they are
false.
