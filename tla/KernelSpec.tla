----------------------------- MODULE KernelSpec -----------------------------
(***************************************************************************)
(* The Spec of a build (spec.go) and what the graph derives from it        *)
(* (llb.go): validation, the identity of the object tree and of the seed,  *)
(* and the cache key of the compile vertex.                                *)
(*                                                                         *)
(* A Spec is a record with the fields of the Go struct.  Values are atoms; *)
(* Bad stands for every value that the pattern of its field rejects, Unset *)
(* for the empty string of a field that is not set.                        *)
(***************************************************************************)
EXTENDS Integers, Sequences

Bad == "bad"
Unset == ""

\* A version is split into what SourceURLFor looks at.
Version(major, rest, rc) == [major |-> major, rest |-> rest, rc |-> rc]

\* Release candidates are git snapshots, releases lie in the directory of
\* their major version.
SourceURLFor(v) ==
    [scheme |-> "https",
     host   |-> IF v.rc THEN "git.kernel.org" ELSE "cdn.kernel.org",
     dir    |-> IF v.rc THEN 0 ELSE v.major,
     name   |-> v,
     ext    |-> "tar.gz"]

\* References are a name and a digest, Unset for a reference by tag.
IsReference(base) == base = [name |-> base.name, digest |-> base.digest]

Pinned(base) == base.digest # Unset

DefaultSpec ==
    LET v == Version(6, "18.20", FALSE)
    IN  [Base            |-> [name |-> "ubuntu:24.04", digest |-> "pin"],
         KernelVersion   |-> v,
         SourceURL       |-> SourceURLFor(v),
         SourceSHA256    |-> "default sum",
         SourceLocalName |-> Unset,
         SourceDateEpoch |-> "1785542400",
         ConfigName      |-> "kernel.config",
         ExpectName      |-> Unset,
         BaseMake        |-> Unset,
         ApplyPatches    |-> FALSE,
         HTTPSProxy      |-> Unset,
         HTTPProxy       |-> Unset,
         NoProxy         |-> Unset,
         ToolchainReady  |-> FALSE,
         Arch            |-> Unset,
         CrossCompile    |-> Unset,
         Targets         |-> <<>>,
         ProxyCAFile     |-> Unset,
         HelperRef       |-> Unset,
         NetworkHost     |-> FALSE,
         IgnoreCache     |-> FALSE,
         SeedURL         |-> Unset,
         SeedRegion      |-> Unset,
         SeedPrefix      |-> "kbuild-seed",
         SeedPush        |-> FALSE]

SpecFields == DOMAIN DefaultSpec

\* The shape of a Spec, as far as the identities need it.
IsSpec(s) == s = [f \in SpecFields |-> s[f]] /\ s.SeedPush \in BOOLEAN

-----------------------------------------------------------------------------
archOrDefault(s) == IF s.Arch = Unset THEN "x86_64" ELSE s.Arch

crossOrDefault(s) ==
    IF s.CrossCompile # Unset \/ archOrDefault(s) = "x86_64" THEN s.CrossCompile
    ELSE IF archOrDefault(s) = "arm64" THEN "aarch64-linux-gnu-" ELSE Unset

targetsOrDefault(s) ==
    IF s.Targets # <<>> THEN s.Targets
    ELSE IF archOrDefault(s) = "arm64" THEN <<"vmlinux", "image">>
    ELSE <<"vmlinux">>

TargetTokens == {"vmlinux", "image", "modules", "config", "kconfigs"}

SourceExt(ext) == ext \in {"tar.gz", "tar.xz", "tar.zst"}

\* "far" is a second after the year 9999, which Timestamp rejects.
Timestamp(epoch) == epoch # "far"

\* The fields whose value, if any, must match a pattern.
Patterned ==
    {"ConfigName", "ExpectName", "BaseMake", "SourceLocalName", "SourceDateEpoch",
     "SourceSHA256", "HTTPSProxy", "HTTPProxy", "NoProxy", "ProxyCAFile",
     "HelperRef", "CrossCompile"}

Validate(s) ==
    /\ s.KernelVersion.rest # Bad
    /\ s.ConfigName # Unset /\ s.SourceDateEpoch # Unset
    /\ \A f \in Patterned : s[f] # Bad
    /\ Timestamp(s.SourceDateEpoch)
    /\ IF s.SourceLocalName = Unset
       THEN s.SourceURL.scheme = "https" /\ SourceExt(s.SourceURL.ext)
       ELSE s.SourceLocalName # "linux.zip"
    /\ s.SeedPush => s.SourceLocalName # Unset \/ s.SourceSHA256 # Unset
    /\ s.SeedURL # Unset =>
          /\ Bad \notin {s.SeedURL, s.SeedPrefix, s.SeedRegion}
          /\ s.SeedPrefix # Unset
    /\ s.Base.name # Bad
    /\ archOrDefault(s) \in {"x86_64", "arm64"}
    /\ archOrDefault(s) = "arm64" => s.ToolchainReady
    /\ \A i \in 1..Len(s.Targets) : s.Targets[i] \in TargetTokens

-----------------------------------------------------------------------------
(***************************************************************************)
(* Identities.                                                             *)
(***************************************************************************)
Mode(s) == IF s.ToolchainReady THEN "ready" ELSE "apt"

\* Mutant of toolchainHash: the toolchain mode is left out.
toolchainHash_NoMode(s) == <<s.Base, crossOrDefault(s)>>

\* The compiler as far as it can be named before it runs.
toolchainHash(s) == <<s.Base, crossOrDefault(s), Mode(s)>>

patchedSuffix(s) == s.ApplyPatches

MountId(s) ==
    <<s.KernelVersion, archOrDefault(s), toolchainHash(s), patchedSuffix(s)>>

SeedKey(s) ==
    <<s.SeedPrefix, s.KernelVersion, archOrDefault(s), toolchainHash(s),
      patchedSuffix(s)>>

\* The seed_cfg secret, of which a step makes nothing without URL and key: the
\* place of the seed, <<>> without one, and whether to push there.
SeedCfg(s) ==
    IF s.SeedURL = Unset THEN [at |-> <<>>, push |-> FALSE]
    ELSE [at |-> <<s.SeedURL, SeedKey(s)>>, push |-> s.SeedPush]

Pushes(seed) == seed.at # <<>> /\ seed.push

\* In local mode what is left of the default URL and pin is dropped.
Source(s) ==
    IF s.SourceLocalName # Unset
    THEN [id |-> <<"local", s.SourceLocalName>>, url |-> <<>>, sha |-> Unset]
    ELSE [id  |-> IF s.SourceSHA256 = Unset THEN <<"url", s.SourceURL>>
                  ELSE <<"sha", s.SourceSHA256>>,
          url |-> <<s.SourceURL>>,
          sha |-> s.SourceSHA256]
=============================================================================
