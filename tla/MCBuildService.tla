--------------------------- MODULE MCBuildService ---------------------------
(***************************************************************************)
(* Requests for TLC: one build, and others that differ from it in one of   *)
(* the things an identity must, or must not, depend on.                    *)
(***************************************************************************)
EXTENDS BuildService, TLC

Inputs ==
    [config |-> "config", expect |-> "fails", patches |-> "series",
     helper |-> "step", tarball |-> "tar", ca |-> "cert"]

\* Builds by the client driver, and by a gateway with a secret of its user's.
Client(s) == [spec |-> s, in |-> Inputs, seed |-> SeedCfg(s)]
Gateway(s, seed) == [spec |-> s, in |-> Inputs, seed |-> seed]

NoSecret == [at |-> <<>>, push |-> FALSE]
SeedEnv(key, push) == [at |-> <<"s3", <<key>>>>, push |-> push]

Ready == [DefaultSpec EXCEPT !.ToolchainReady = TRUE,
                             !.Base = [name |-> "toolchain", digest |-> "d1"]]
Seeded == [Ready EXCEPT !.SeedURL = "s3"]
Moving == [Ready EXCEPT !.Base = [name |-> "moving", digest |-> Unset]]

MCRequests ==
    {Client(s) : s \in {
        Seeded,
        [Seeded EXCEPT !.SeedPush = TRUE],
        [Seeded EXCEPT !.SeedPush = TRUE, !.ToolchainReady = FALSE],
        [Ready EXCEPT !.ExpectName = "gate", !.SourceSHA256 = "other sum"]}}
    \union
    {Gateway([Ready EXCEPT !.SeedPush = TRUE], NoSecret),
     Gateway([Ready EXCEPT !.HTTPSProxy = "proxy"], SeedEnv("own", FALSE)),
     Gateway([Ready EXCEPT !.BaseMake = "defconfig"], SeedEnv("own", TRUE)),
     Gateway([Ready EXCEPT !.CrossCompile = "other-", !.IgnoreCache = TRUE,
                           !.SourceLocalName = "linux.tar.gz"], SeedEnv("shared", FALSE)),
     Gateway(Moving, SeedEnv("shared", TRUE))}

MCDigests == <<"d1", "d2">>

Symmetry == Permutations(Workers)

\* Builds with one image tag by the client driver, with and without a push.
TagRequests ==
    {Client(s) : s \in {[Moving EXCEPT !.SeedURL = "s3"],
                        [Moving EXCEPT !.SeedURL = "s3", !.SeedPush = TRUE]}}
=============================================================================
