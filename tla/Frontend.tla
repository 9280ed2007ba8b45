------------------------------ MODULE Frontend ------------------------------
(***************************************************************************)
(* From an invocation to a solve: ParseKernelfile (step.go), the gateway   *)
(* entry point and its option layer (cmd/kbuild-frontend), the flags of    *)
(* kbuildctl with the checks at the head of kbuild.Build (client.go), and  *)
(* GatewaySolve (gateway.go) up to the solve request.                      *)
(*                                                                         *)
(* The Kernelfile is read line by line; what the daemon answers (the file, *)
(* the digest of a tag, the build context) is chosen when it is asked for. *)
(***************************************************************************)
EXTENDS KernelSpec, FiniteSets

CONSTANTS
    GatewayOpts,   \* option maps of gateway invocations
    CtlFlags,      \* flag maps of kbuildctl invocations
    Lines,         \* the lines a Kernelfile is written in
    MaxLines,      \* its greatest length
    Contexts,      \* build contexts: files present, patches present or not
    Digests        \* what the resolver may find behind a tag

ASSUME FrontendAssumption ==
    /\ MaxLines \in Nat
    /\ Unset \notin Digests
    /\ \A l \in Lines :
          /\ l.form \in {"blank", "bare", "pair"}
          /\ (l.form = "pair" /\ l.key = "BASE") => IsReference(l.val)
    /\ \A o \in GatewayOpts \union CtlFlags :
          "base" \in DOMAIN o => IsReference(o["base"])
    \* kbuildctl has no flag for the URL.
    /\ \A o \in CtlFlags : "source-url" \notin DOMAIN o

VARIABLES
    pc,
    via,           \* "gateway" or "kbuildctl"
    opts,          \* the option or flag map: a key that is absent is not set
    file,          \* the lines of the Kernelfile read so far
    seen,          \* the keys among them
    spec,          \* the Spec under construction
    trouble,       \* whether a call to the daemon or the scanner failed
    context,       \* the build context as last looked at, <<>> before
    reply          \* what became of the invocation

vars == <<pc, via, opts, file, seen, spec, trouble, context, reply>>

NoReply == [kind |-> "none"]
Refused == [kind |-> "refused"]
Described == [kind |-> "described"]
Solve(s, imports) == [kind |-> "solve", spec |-> s, imports |-> imports]

Init ==
    /\ pc = "start"
    /\ \/ via = "gateway" /\ opts \in GatewayOpts
       \/ via = "kbuildctl" /\ opts \in CtlFlags
    /\ file = <<>>
    /\ seen = {}
    /\ spec = DefaultSpec
    /\ trouble = FALSE
    /\ context = <<>>
    /\ reply = NoReply

Has(k) == k \in DOMAIN opts

Goto(l) == pc' = l

Reply(r) == pc' = "done" /\ reply' = r

\* Go on with l if ok, refuse the invocation otherwise.
Unless(ok, l) ==
    IF ok THEN Goto(l) /\ UNCHANGED reply ELSE Reply(Refused)

Fails == Reply(Refused) /\ trouble' = TRUE

-----------------------------------------------------------------------------
(***************************************************************************)
(* build, up to the Kernelfile.                                            *)
(***************************************************************************)
Subrequest ==
    /\ pc = "start" /\ via = "gateway" /\ Has("requestid")
    /\ Reply(IF opts["requestid"] = "describe" THEN Described ELSE Refused)
    /\ UNCHANGED <<via, opts, file, seen, spec, trouble, context>>

BuildRequest ==
    /\ pc = "start" /\ via = "gateway" /\ ~Has("requestid")
    /\ spec' = IF Has("source") THEN [spec EXCEPT !.HelperRef = opts["source"]]
               ELSE spec
    /\ Goto(IF Has("filename") THEN "fetch" ELSE "opts")
    /\ UNCHANGED <<via, opts, file, seen, trouble, context, reply>>

\* readKernelfile: the solve, or the read of the file, fails.
FetchFails ==
    /\ pc = "fetch"
    /\ Fails
    /\ UNCHANGED <<via, opts, file, seen, spec, context>>

Fetched ==
    /\ pc = "fetch"
    /\ Goto("scan")
    /\ UNCHANGED <<via, opts, file, seen, spec, trouble, context, reply>>

-----------------------------------------------------------------------------
(***************************************************************************)
(* ParseKernelfile.                                                        *)
(***************************************************************************)
\* The key of each field, and the fields written as a word.
FileKey ==
    [KernelVersion |-> "KERNEL", SourceURL |-> "SOURCE_URL",
     SourceSHA256 |-> "SHA256", SourceDateEpoch |-> "EPOCH",
     ConfigName |-> "CONFIG", ExpectName |-> "EXPECT", BaseMake |-> "BASE_MAKE",
     ApplyPatches |-> "PATCHES", Arch |-> "ARCH", CrossCompile |-> "CROSS_COMPILE",
     Targets |-> "TARGETS", ProxyCAFile |-> "PROXY_CA", Base |-> "BASE",
     ToolchainReady |-> "TOOLCHAIN"]

FileKeys == {FileKey[f] : f \in DOMAIN FileKey}

Words == [PATCHES   |-> [on |-> TRUE, off |-> FALSE],
          TOOLCHAIN |-> [ready |-> TRUE, apt |-> FALSE]]

\* Whether the value of a line is one its key can take at all.
Readable(l) ==
    /\ l.key \in FileKeys
    /\ l.key \in DOMAIN Words => l.val \in DOMAIN Words[l.key]
    /\ l.key = "TARGETS" => l.val # <<>>

Value(l) == IF l.key \in DOMAIN Words THEN Words[l.key][l.val] ELSE l.val

Acceptable(l) == l.form = "pair" /\ l.key \notin seen /\ Readable(l)

\* Mutant of SetField: a KERNEL line derives the URL on the spot.
SetField_Inline(l) ==
    [f \in DOMAIN spec |->
        IF f \in DOMAIN FileKey /\ FileKey[f] = l.key THEN Value(l)
        ELSE IF f = "SourceURL" /\ l.key = "KERNEL" THEN SourceURLFor(l.val)
        ELSE spec[f]]

SetField(l) ==
    [f \in DOMAIN spec |->
        IF f \in DOMAIN FileKey /\ FileKey[f] = l.key THEN Value(l) ELSE spec[f]]

SkipLine(l) ==
    /\ l.form = "blank"
    /\ UNCHANGED <<pc, seen, spec, reply>>

TakeLine(l) ==
    /\ l.form # "blank" /\ Acceptable(l)
    /\ seen' = seen \union {l.key}
    /\ spec' = SetField(l)
    /\ UNCHANGED <<pc, reply>>

RejectLine(l) ==
    /\ l.form # "blank" /\ ~Acceptable(l)
    /\ Reply(Refused)
    /\ UNCHANGED <<seen, spec>>

ScanLine ==
    /\ pc = "scan"
    /\ Len(file) < MaxLines
    /\ \E l \in Lines :
          /\ file' = Append(file, l)
          /\ SkipLine(l) \/ TakeLine(l) \/ RejectLine(l)
    /\ UNCHANGED <<via, opts, trouble, context>>

\* sc.Err(): a line longer than the scanner's buffer.
ScanFails ==
    /\ pc = "scan"
    /\ Fails
    /\ UNCHANGED <<via, opts, file, seen, spec, context>>

\* Mutant of EndOfFile: only a KERNEL line drops the default pin.
EndOfFile_KernelOnly ==
    /\ pc = "scan"
    /\ spec' = [spec EXCEPT
         !.SourceURL = IF "KERNEL" \in seen /\ "SOURCE_URL" \notin seen
                       THEN SourceURLFor(spec.KernelVersion) ELSE @,
         !.SourceSHA256 = IF "KERNEL" \in seen /\ "SHA256" \notin seen
                          THEN Unset ELSE @]
    /\ Goto("opts")
    /\ UNCHANGED <<via, opts, file, seen, trouble, context, reply>>

\* Mutant of EndOfFile: the file is validated before the options are seen.
EndOfFile_Early ==
    /\ pc = "scan"
    /\ spec' = [spec EXCEPT
         !.SourceURL = IF "KERNEL" \in seen /\ "SOURCE_URL" \notin seen
                       THEN SourceURLFor(spec.KernelVersion) ELSE @,
         !.SourceSHA256 = IF seen \intersect {"KERNEL", "SOURCE_URL"} # {}
                             /\ "SHA256" \notin seen
                          THEN Unset ELSE @]
    /\ Unless(Validate(spec'), "opts")
    /\ UNCHANGED <<via, opts, file, seen, trouble, context>>

EndOfFile ==
    /\ pc = "scan"
    /\ spec' = [spec EXCEPT
         !.SourceURL = IF "KERNEL" \in seen /\ "SOURCE_URL" \notin seen
                       THEN SourceURLFor(spec.KernelVersion) ELSE @,
         !.SourceSHA256 = IF seen \intersect {"KERNEL", "SOURCE_URL"} # {}
                             /\ "SHA256" \notin seen
                          THEN Unset ELSE @]
    /\ Goto("opts")
    /\ UNCHANGED <<via, opts, file, seen, trouble, context, reply>>

ParseKernelfile == ScanLine \/ ScanFails \/ EndOfFile

-----------------------------------------------------------------------------
(***************************************************************************)
(* applyOpts and the rest of build.                                        *)
(***************************************************************************)
\* The option that replaces each field as it is.
OptKey ==
    [SourceSHA256 |-> "source-sha256", SourceDateEpoch |-> "source-date-epoch",
     ConfigName |-> "config", ExpectName |-> "expect", BaseMake |-> "base-make",
     ProxyCAFile |-> "proxy-ca", HelperRef |-> "helper-ref",
     SourceLocalName |-> "src-name", Base |-> "base", Arch |-> "arch",
     CrossCompile |-> "cross-compile", Targets |-> "targets"]

\* The options that are true or false.
BoolKey ==
    [ToolchainReady |-> "toolchain-ready", ApplyPatches |-> "apply-patches",
     SeedPush |-> "seed-push"]

\* The two spellings of a proxy, the first of which wins.
ProxyKeys ==
    [HTTPSProxy |-> <<"https_proxy", "HTTPS_PROXY">>,
     HTTPProxy  |-> <<"http_proxy", "HTTP_PROXY">>,
     NoProxy    |-> <<"no_proxy", "NO_PROXY">>]

Override(s, key) ==
    [f \in DOMAIN s |->
        IF f \in DOMAIN key /\ Has(key[f]) THEN opts[key[f]] ELSE s[f]]

optBools(s) ==
    [f \in DOMAIN s |->
        IF f \in DOMAIN BoolKey /\ Has(BoolKey[f])
        THEN opts[BoolKey[f]] = "true" ELSE s[f]]

optProxies(s) ==
    [f \in DOMAIN s |->
        IF f \notin DOMAIN ProxyKeys THEN s[f]
        ELSE IF Has(ProxyKeys[f][1]) THEN opts[ProxyKeys[f][1]]
        ELSE IF Has(ProxyKeys[f][2]) THEN opts[ProxyKeys[f][2]]
        ELSE s[f]]

\* A platform is the list of platforms it names, each an OS and an arch.
archForPlatform(p) ==
    IF p = <<[os |-> "linux", arch |-> "arm64"]>> THEN "arm64" ELSE "x86_64"

PlatformOK(p) ==
    Len(p) = 1 /\ p[1].os = "linux" /\ p[1].arch \in {"amd64", "arm64"}

OptsOK ==
    /\ \A f \in DOMAIN BoolKey :
          Has(BoolKey[f]) => opts[BoolKey[f]] \in {"true", "false"}
    /\ Has("platform") => PlatformOK(opts["platform"])

optVersion(s) ==
    IF Has("kernel-version") /\ opts["kernel-version"] # s.KernelVersion
    THEN [s EXCEPT !.KernelVersion = opts["kernel-version"],
                   !.SourceURL = SourceURLFor(opts["kernel-version"]),
                   !.SourceSHA256 = Unset]
    ELSE s

optURL(s) ==
    IF Has("source-url") /\ opts["source-url"] # s.SourceURL
    THEN [s EXCEPT !.SourceURL = opts["source-url"], !.SourceSHA256 = Unset]
    ELSE s

applyOpts(s) ==
    LET t == optBools(optProxies(Override(optURL(optVersion(s)), OptKey)))
    IN  [t EXCEPT
           !.NetworkHost = @ \/ (Has("force-network-mode")
                                 /\ opts["force-network-mode"] = "host"),
           !.Arch = IF Has("platform") THEN archForPlatform(opts["platform"]) ELSE @,
           !.IgnoreCache = @ \/ Has("no-cache")]

ApplyOpts ==
    /\ pc = "opts"
    /\ spec' = IF OptsOK THEN applyOpts(spec) ELSE spec
    /\ Unless(OptsOK, "validate")
    /\ UNCHANGED <<via, opts, file, seen, trouble, context>>

\* cache-imports is JSON that parses or not; blanks in cache-from are dropped.
ImportsOK == Has("cache-imports") => opts["cache-imports"].json

Registry(ref) == [type |-> "registry", ref |-> ref, keyed |-> FALSE]

parseCacheImports ==
    LET named(r) == r # Unset
        refs == IF Has("cache-from") THEN SelectSeq(opts["cache-from"], named)
                ELSE <<>>
    IN  (IF Has("cache-imports") THEN opts["cache-imports"].list ELSE <<>>)
        \o [i \in 1..Len(refs) |-> Registry(refs[i])]

\* The helper check, Validate and the cache imports, before any resolver.
CheckSpec ==
    /\ pc = "validate" /\ via = "gateway"
    /\ Unless(spec.HelperRef # Unset /\ Validate(spec) /\ ImportsOK, "resolve")
    /\ UNCHANGED <<via, opts, file, seen, spec, trouble, context>>

-----------------------------------------------------------------------------
(***************************************************************************)
(* kbuildctl: flags, then the head of kbuild.Build.                        *)
(***************************************************************************)
FlagKey ==
    [SourceSHA256 |-> "sha256", ConfigName |-> "config", ExpectName |-> "expect",
     BaseMake |-> "base-make", Base |-> "base", Arch |-> "arch",
     CrossCompile |-> "cross-compile", HTTPSProxy |-> "https-proxy",
     HTTPProxy |-> "http-proxy", NoProxy |-> "no-proxy", Targets |-> "targets",
     SeedURL |-> "seed-url", SeedPrefix |-> "seed-prefix",
     SeedRegion |-> "seed-region", ProxyCAFile |-> "proxy-ca",
     SourceLocalName |-> "src-name", ToolchainReady |-> "toolchain-ready",
     ApplyPatches |-> "apply-patches", SeedPush |-> "seed-push",
     IgnoreCache |-> "no-cache"]

\* A version on the command line drops the pin even if it is the default's.
flagVersion(s) ==
    IF Has("kernel-version")
    THEN [s EXCEPT !.KernelVersion = opts["kernel-version"],
                   !.SourceURL = SourceURLFor(opts["kernel-version"]),
                   !.SourceSHA256 = Unset]
    ELSE s

\* S3CacheURL refuses what is not https://host/bucket.
Flags ==
    /\ pc = "start" /\ via = "kbuildctl"
    /\ spec' = Override(flagVersion(spec), FlagKey)
    /\ Unless(/\ spec'.SeedPush => spec'.SeedURL # Unset
              /\ Has("cache-s3") => opts["cache-s3"] # Bad, "validate")
    /\ UNCHANGED <<via, opts, file, seen, trouble, context>>

\* The files that the graph mounts out of the context by name.
contextFiles(s) ==
    {s.ConfigName} \union ({s.ExpectName, s.ProxyCAFile} \ {Unset})

InContext(s, ctx) ==
    contextFiles(s) \subseteq ctx.files /\ (s.ApplyPatches => ctx.patches)

\* Build: the Spec and the context on disk are checked before the dial.
CheckDriver ==
    /\ pc = "validate" /\ via = "kbuildctl"
    /\ \E c \in Contexts : context' = <<c>>
    /\ Unless(/\ spec.SeedPush => spec.SeedURL # Unset
              /\ Validate(spec)
              /\ InContext(spec, context'[1]), "attach")
    /\ UNCHANGED <<via, opts, file, seen, spec, trouble>>

\* The entry that a bucket URL, and the region, expand to.
S3CacheURL(bucket) == [type |-> "s3", ref |-> bucket, keyed |-> FALSE]

\* The cache entries of the command line, -cache-s3 expanded at their end.
CacheEntries ==
    (IF Has("import-cache") THEN opts["import-cache"] ELSE <<>>)
    \o (IF Has("cache-s3") THEN <<S3CacheURL(opts["cache-s3"])>> ELSE <<>>)

\* An s3 entry without credentials of its own is given the driver's.
ParseCacheEntry(e) ==
    [e EXCEPT !.keyed = @ \/ (e.type = "s3" /\ Has("credentials"))]

\* Build, after the dial: the seed secrets and the cache entries.  Unset is
\* the type of an entry that does not parse or names no type.
Attach ==
    /\ pc = "attach"
    /\ Unless(/\ spec.SeedURL # Unset => Has("credentials")
              /\ \A i \in 1..Len(CacheEntries) : CacheEntries[i].type # Unset,
              "resolve")
    /\ UNCHANGED <<via, opts, file, seen, spec, trouble, context>>

Imports ==
    IF via = "gateway" THEN parseCacheImports
    ELSE [i \in 1..Len(CacheEntries) |-> ParseCacheEntry(CacheEntries[i])]

-----------------------------------------------------------------------------
(***************************************************************************)
(* GatewaySolve, the one path both take.                                   *)
(***************************************************************************)
\* A reference that has a digest is taken as it is, a tag is resolved.  The
\* resolver hands back the name with the digest; a source policy of the daemon
\* that rewrites the name is not modelled.
ResolveBase ==
    /\ pc = "resolve"
    /\ IF ~Validate(spec) THEN Reply(Refused) /\ UNCHANGED spec
       ELSE /\ IF Pinned(spec.Base) THEN UNCHANGED spec
               ELSE \E d \in Digests : spec' = [spec EXCEPT !.Base.digest = d]
            /\ Goto("context")
            /\ UNCHANGED reply
    /\ UNCHANGED <<via, opts, file, seen, trouble, context>>

\* The resolver fails, or returns no digest.
ResolveFails ==
    /\ pc = "resolve"
    /\ ~Pinned(spec.Base)
    /\ Fails
    /\ UNCHANGED <<via, opts, file, seen, spec, context>>

CheckContext ==
    /\ pc = "context"
    /\ \E c \in Contexts : context' = <<c>>
    /\ Unless(InContext(spec, context'[1]), "graph")
    /\ UNCHANGED <<via, opts, file, seen, spec, trouble>>

\* The small solve that fetches the files fails.
CheckContextFails ==
    /\ pc = "context"
    /\ Fails
    /\ UNCHANGED <<via, opts, file, seen, spec, context>>

\* KernelLLB validates and refuses a base without digest; then the solve.
SolveGraph ==
    /\ pc = "graph"
    /\ Reply(IF Validate(spec) /\ Pinned(spec.Base)
             THEN Solve(spec, Imports) ELSE Refused)
    /\ UNCHANGED <<via, opts, file, seen, spec, trouble, context>>

GatewaySolve ==
    ResolveBase \/ ResolveFails \/ CheckContext \/ CheckContextFails \/ SolveGraph

Done == pc = "done" /\ UNCHANGED vars

Next ==
    \/ Subrequest \/ BuildRequest \/ FetchFails \/ Fetched
    \/ ParseKernelfile \/ ApplyOpts \/ CheckSpec
    \/ Flags \/ CheckDriver \/ Attach \/ GatewaySolve \/ Done

Spec == Init /\ [][Next]_vars

-----------------------------------------------------------------------------
(***************************************************************************)
(* What an invocation means, said without the order in which the code      *)
(* reads it.                                                               *)
(***************************************************************************)
Pairs == {file[i] : i \in {j \in 1..Len(file) : file[j].form = "pair"}}

FileSays(k) == \E l \in Pairs : l.key = k
FileValue(k) == Value(CHOOSE l \in Pairs : l.key = k)

\* A file is well written if every line is KEY VALUE and no key comes twice.
WellWritten ==
    /\ \A i \in 1..Len(file) : file[i].form # "bare"
    /\ \A l \in Pairs : Readable(l)
    /\ \A i, j \in 1..Len(file) :
          (/\ i # j
           /\ file[i].form = "pair" /\ file[j].form = "pair") =>
              file[i].key # file[j].key

\* What the file asks for, the defaults filling in: an explicit URL before
\* the version's own, an explicit pin before none, the default pin only for
\* the default tarball.
FileMeans ==
    [f \in DOMAIN DefaultSpec |->
        IF f \in DOMAIN FileKey /\ FileSays(FileKey[f]) THEN FileValue(FileKey[f])
        ELSE IF f = "SourceURL" /\ FileSays("KERNEL")
             THEN SourceURLFor(FileValue("KERNEL"))
        ELSE IF f = "SourceSHA256" /\ (FileSays("KERNEL") \/ FileSays("SOURCE_URL"))
             THEN Unset
        ELSE IF f = "HelperRef" /\ Has("source") THEN opts["source"]
        ELSE DefaultSpec[f]]

\* The source that options over base ask for: a version that is not the one
\* below brings its own URL, and no pin outlives the URL it was given for.
SourceMeans(base, newVersion, sumKey) ==
    LET url == IF Has("source-url") THEN opts["source-url"]
               ELSE IF newVersion THEN SourceURLFor(opts["kernel-version"])
               ELSE base.SourceURL
    IN  [KernelVersion |-> IF newVersion THEN opts["kernel-version"]
                           ELSE base.KernelVersion,
         SourceURL     |-> url,
         SourceSHA256  |-> IF Has(sumKey) THEN opts[sumKey]
                           ELSE IF newVersion \/ url # base.SourceURL THEN Unset
                           ELSE base.SourceSHA256]

\* The options decide over the file, --platform over arch.  A targets option
\* without a target asks for the default of the arch.
GatewayMeans ==
    LET src == SourceMeans(FileMeans,
                           Has("kernel-version")
                             /\ opts["kernel-version"] # FileMeans.KernelVersion,
                           "source-sha256")
    IN  [f \in DOMAIN DefaultSpec |->
            CASE f \in DOMAIN src -> src[f]
              [] f = "Arch" /\ Has("platform") -> archForPlatform(opts["platform"])
              [] f = "NetworkHost" -> Has("force-network-mode")
                                        /\ opts["force-network-mode"] = "host"
              [] f = "IgnoreCache" -> Has("no-cache")
              [] OTHER -> optBools(optProxies(Override(FileMeans, OptKey)))[f]]

CtlMeans ==
    LET src == SourceMeans(DefaultSpec, Has("kernel-version"), "sha256")
    IN  [f \in DOMAIN DefaultSpec |->
            IF f \in DOMAIN src THEN src[f] ELSE Override(DefaultSpec, FlagKey)[f]]

Means == IF via = "gateway" THEN GatewayMeans ELSE CtlMeans

\* Whether the invocation, by itself, describes a build.
Sensible ==
    /\ IF via = "gateway"
       THEN /\ ~Has("requestid")
            /\ WellWritten /\ OptsOK /\ ImportsOK
            /\ Means.HelperRef # Unset
       ELSE /\ Means.SeedPush => Means.SeedURL # Unset
            /\ Means.SeedURL # Unset => Has("credentials")
            /\ Has("cache-s3") => opts["cache-s3"] # Bad
            /\ \A i \in 1..Len(CacheEntries) : CacheEntries[i].type # Unset
    /\ Validate(Means)

-----------------------------------------------------------------------------
(***************************************************************************)
(* Properties.                                                             *)
(***************************************************************************)
\* What is solved is exactly what the invocation means, whatever the order
\* of the lines and the layering of file, options and flags, with the base
\* pinned and every mounted file in the context; never the defaults after a
\* failed call, never a build in answer to a subrequest.
BuildsWhatIsAsked ==
    reply.kind = "solve" =>
        /\ Sensible /\ ~trouble
        /\ Pinned(reply.spec.Base)
        /\ reply.spec = IF Pinned(Means.Base) THEN Means
                        ELSE [Means EXCEPT !.Base.digest = reply.spec.Base.digest]
        /\ InContext(reply.spec, context[1])

\* An invocation is refused only because it does not describe a build, its
\* context lacks a file it names, or a call failed: neither the order of the
\* lines nor a layer that another overrides can cost a build.
RefusedForCause ==
    reply.kind = "refused" =>
        \/ trouble \/ ~Sensible
        \/ context # <<>> /\ ~InContext(Means, context[1])

\* A solved pin is one that was given for the solved URL: by the options, by
\* a file whose source the options left alone, or by the defaults for the
\* default tarball.
PinFits ==
    (reply.kind = "solve" /\ reply.spec.SourceSHA256 # Unset) =>
        \/ Has("source-sha256") \/ Has("sha256")
        \/ /\ FileSays("SHA256")
           /\ reply.spec.SourceSHA256 = FileValue("SHA256")
           /\ reply.spec.SourceURL = FileMeans.SourceURL
        \/ /\ reply.spec.SourceSHA256 = DefaultSpec.SourceSHA256
           /\ reply.spec.SourceURL = DefaultSpec.SourceURL

-----------------------------------------------------------------------------
(***************************************************************************)
(* The inductive invariant.                                                *)
(***************************************************************************)
\* The defaults, and over them what the file has said so far.
Started ==
    [f \in SpecFields |->
        IF f = "HelperRef" /\ Has("source") THEN opts["source"] ELSE DefaultSpec[f]]

Said ==
    [f \in SpecFields |->
        IF f \in DOMAIN FileKey /\ FileSays(FileKey[f]) THEN FileValue(FileKey[f])
        ELSE Started[f]]

\* What has been checked of an invocation when its Spec is complete.
Accepted ==
    IF via = "gateway" THEN ~Has("requestid") /\ WellWritten /\ OptsOK
    ELSE /\ Means.SeedPush => Means.SeedURL # Unset
         /\ Has("cache-s3") => opts["cache-s3"] # Bad

\* s is what is meant, with its base pinned.
MeantPinned(s) ==
    /\ Pinned(s.Base)
    /\ s = IF Pinned(Means.Base) THEN Means
           ELSE [Means EXCEPT !.Base.digest = s.Base.digest]

LayerInv ==
    /\ pc = "start" => spec = DefaultSpec
    /\ pc \in {"start", "fetch"} => file = <<>> /\ seen = {}
    /\ pc \in {"fetch", "scan"} => spec = Said
    /\ pc = "scan" => seen = {l.key : l \in Pairs}
    /\ pc \in {"scan", "opts"} => WellWritten
    /\ pc = "opts" => spec = FileMeans

CheckInv ==
    /\ pc \in {"fetch", "scan", "opts"} => via = "gateway" /\ ~Has("requestid")
    /\ pc \in {"validate", "attach"} => spec = Means /\ Accepted
    /\ pc = "attach" => via = "kbuildctl" /\ Validate(Means)
    /\ pc \in {"resolve", "context", "graph"} => Sensible
    /\ pc = "resolve" => spec = Means
    /\ pc \in {"context", "graph"} => MeantPinned(spec)
    /\ pc = "graph" => InContext(spec, context[1])

\* At every location the Spec under construction is that part of what is
\* meant which has been read by then, and every check made so far holds of it.
FrontendInv ==
    /\ \/ via = "gateway" /\ opts \in GatewayOpts
       \/ via = "kbuildctl" /\ opts \in CtlFlags
    /\ pc \in {"start", "fetch", "scan", "opts", "validate", "attach", "resolve",
               "context", "graph", "done"}
    /\ file \in Seq(Lines)
    /\ pc # "done" => reply = NoReply /\ ~trouble
    /\ LayerInv /\ CheckInv
    /\ BuildsWhatIsAsked /\ RefusedForCause
=============================================================================
