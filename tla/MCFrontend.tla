----------------------------- MODULE MCFrontend -----------------------------
(***************************************************************************)
(* Invocations for TLC.  The keys that decide the source meet in every     *)
(* combination; the others are taken a few at a time.                      *)
(***************************************************************************)
EXTENDS Frontend, TLC

Default == DefaultSpec.KernelVersion
Other == Version(7, "1-rc3", TRUE)
Mirror == [scheme |-> "https", host |-> "mirror", dir |-> 0, name |-> Other,
           ext |-> "tar.xz"]
Plain == [Mirror EXCEPT !.scheme = "http"]
Tag == [name |-> "toolchain:latest", digest |-> ""]

Blank == [form |-> "blank"]
Bare == [form |-> "bare"]
Line(k, v) == [form |-> "pair", key |-> k, val |-> v]

\* Lines about the source, and one of each other kind of line.
SourceLines ==
    {Line("KERNEL", Default), Line("KERNEL", Other), Line("SOURCE_URL", Mirror),
     Line("SHA256", "file sum")}
OtherLines ==
    {Blank, Bare, Line("KERNAL", ""), Line("PATCHES", "on"), Line("PATCHES", "yes"),
     Line("TOOLCHAIN", "ready"), Line("ARCH", "arm64"), Line("TARGETS", <<>>),
     Line("CONFIG", "my.config"), Line("BASE", Tag)}
MCLines == SourceLines \union OtherLines

Self == "source" :> "frontend" @@ "filename" :> "Kernelfile"

SourceOpts ==
    {Self @@ ("kernel-version" :> v @@ "source-url" :> u @@ "source-sha256" :> h) :
        v \in {Default, Other}, u \in {Mirror, SourceURLFor(Other)},
        h \in {"opt sum"}}
    \union {Self @@ ("kernel-version" :> v @@ "source-url" :> u) :
        v \in {Default, Other}, u \in {Mirror, SourceURLFor(Other), Plain}}
    \union {Self @@ ("kernel-version" :> v) : v \in {Default, Other}}
    \union {Self @@ ("source-url" :> u) : u \in {Mirror, SourceURLFor(Other)}}
    \union {Self, Self @@ "source-sha256" :> "opt sum"}

Arm == <<[os |-> "linux", arch |-> "arm64"]>>
Amd == <<[os |-> "linux", arch |-> "amd64"]>>

OtherOpts ==
    {Self @@ o : o \in {
        "platform" :> Arm @@ "toolchain-ready" :> "true",
        "platform" :> Amd @@ "arch" :> "arm64",
        "platform" :> Arm \o Amd,
        "platform" :> <<[os |-> "windows", arch |-> "amd64"]>>,
        "apply-patches" :> "1",
        "apply-patches" :> "true" @@ "proxy-ca" :> "ca.crt" @@ "expect" :> "gate",
        "seed-push" :> "true",
        "targets" :> <<>> @@ "no-cache" :> "",
        "https_proxy" :> "p" @@ "HTTPS_PROXY" :> "q" @@ "NO_PROXY" :> "mirror",
        "cache-imports" :> [json |-> FALSE, list |-> <<>>],
        "cache-imports" :> [json |-> TRUE, list |-> <<Registry("r1")>>]
          @@ "cache-from" :> <<"", "r2">>,
        "src-name" :> "linux.zip",
        "force-network-mode" :> "host" @@ "base" :> Tag}}

\* No file, no helper, and requests that are not builds.
DirectOpts ==
    {"kernel-version" :> Other, "helper-ref" :> "frontend",
     "helper-ref" :> Bad, "requestid" :> "describe", "requestid" :> "outline"}

MCGatewayOpts == SourceOpts \union OtherOpts \union DirectOpts

MCCtlFlags ==
    {<<>>} \union {"kernel-version" :> v : v \in {Default, Other}}
    \union {"kernel-version" :> Other @@ "sha256" :> "opt sum",
     "seed-push" :> TRUE,
     "seed-push" :> TRUE @@ "seed-url" :> "s3" @@ "credentials" :> "",
     "seed-push" :> TRUE @@ "seed-url" :> "s3" @@ "credentials" :> ""
       @@ "kernel-version" :> Default,
     "seed-url" :> "s3",
     "cache-s3" :> Bad,
     "cache-s3" :> "bucket" @@ "credentials" :> "",
     "import-cache" :> <<Registry("r1"), S3CacheURL("b")>>,
     "import-cache" :> <<[Registry("r1") EXCEPT !.type = ""]>>,
     "src-name" :> "linux.tar.gz" @@ "seed-url" :> "s3" @@ "seed-push" :> TRUE
       @@ "credentials" :> "",
     "targets" :> <<"", "">>,
     "targets" :> <<"image", "config">> @@ "arch" :> "arm64"
       @@ "toolchain-ready" :> TRUE @@ "base" :> Tag,
     "apply-patches" :> TRUE @@ "config" :> "my.config",
     "no-cache" :> TRUE @@ "proxy-ca" :> "ca.crt"}

MCContexts ==
    [files : {{"kernel.config"}, {"kernel.config", "my.config", "ca.crt", "gate"}},
     patches : BOOLEAN]
=============================================================================
