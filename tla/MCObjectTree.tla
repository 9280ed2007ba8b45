---------------------------- MODULE MCObjectTree ----------------------------
(***************************************************************************)
(* Instances of ObjectTree for TLC.                                        *)
(***************************************************************************)
EXTENDS ObjectTree, TLC

CONSTANTS c1, c2, u, p1, p2, defconfig, fragment, k1, k2

Plain ==
    [kind |-> "pinned", url |-> u, sum |-> c1, patch |-> None, base |-> None,
     frag |-> k1, expect |-> None, targets |-> {"vmlinux"}, secrets |-> {},
     cfgPush |-> FALSE, push |-> FALSE]

Unpinned == [Plain EXCEPT !.kind = "url", !.sum = None]

\* One worker without a seed: two pinned sources, the URL unpinned, a plain
\* config and one over a make base, every kind of target, half a credential
\* pair, an expectation not met, and a push that cannot be performed.
LocalRequests ==
    {Plain,
     [Plain EXCEPT !.sum = c2, !.base = defconfig,
                   !.targets = {"config", "kconfigs"}],
     [Unpinned EXCEPT !.targets = {"vmlinux", "modules"},
                      !.secrets = Secrets \ {"seed_secret_key"}],
     [Plain EXCEPT !.frag = k2, !.expect = {<<"y", k1>>}],
     [Plain EXCEPT !.push = TRUE]}

\* Seeders and pulling workers of a patched tree: a local tarball, a seed_cfg
\* that says push although the build did not ask for it, and expectations
\* that hold but for a line that is none.
Patched == [Plain EXCEPT !.patch = p1, !.secrets = Secrets]

SeedRequests ==
    {[Patched EXCEPT !.cfgPush = TRUE, !.push = TRUE,
                     !.expect = {<<"y", k1>>, <<"=", k1>>, <<"n", k2>>}],
     [Patched EXCEPT !.patch = p2, !.cfgPush = TRUE],
     [Patched EXCEPT !.kind = "local", !.frag = k2],
     [Patched EXCEPT !.cfgPush = TRUE, !.frag = k2, !.targets = {"config"},
                     !.expect = {<<"=", k2>>, <<"n", k1>>, <<"?", k1>>}]}

\* Two workers of the same tree: one publishes, one hydrates and configures.
TeamRequests ==
    {[Plain EXCEPT !.kind = "local", !.secrets = Secrets, !.cfgPush = TRUE,
                   !.push = TRUE, !.targets = {"config"}],
     [Plain EXCEPT !.kind = "local", !.secrets = Secrets, !.frag = k2,
                   !.targets = {"config"}]}

Workers == Permutations(Mounts)

NoSeeds == {{}}

\* A foreign object under the seed key: the unpatched tree, with its own stamp.
ForeignSeed ==
    [f \in TreeFiles |->
        CASE f \in SrcFiles -> <<c1, None>>
          [] f = "kernel.o" -> {Extracted(c1, None)}
          [] f = ".kbf-stamp" -> Torn
          [] OTHER -> None]

StoredSeeds == {{}, {ForeignSeed}}

\* A merge target as the whole base, after a build that configured the tree.
MergeRequests ==
    {[Plain EXCEPT !.targets = {"config"}],
     [Plain EXCEPT !.base = fragment, !.frag = k2, !.targets = {"config"}]}

\* A build from an unpinned URL that did not ask for a push, given a seed_cfg
\* that carries one.
UnpinnedRequests ==
    {[Unpinned EXCEPT !.secrets = Secrets, !.cfgPush = TRUE,
                      !.targets = {"config"}]}
=============================================================================
