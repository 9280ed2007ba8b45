------------------------------ MODULE TarTree ------------------------------
(***************************************************************************)
(* What extracting a tar stream into a directory leaves, one entry after   *)
(* the other: the file-system effects that untarFiltered, writeEntry and   *)
(* writeFileBytes are made of, and their serial composition.               *)
(*                                                                         *)
(* A path is a sequence of one or two names.  A file is known by the       *)
(* position in the stream of the entry that created it, so that a hard     *)
(* link shares it; modes and times are left out.                           *)
(***************************************************************************)
EXTENDS Naturals, Sequences

CONSTANTS
    Paths,        \* the paths of the directory
    None          \* nothing at a path

Dir == [kind |-> "dir", ref |-> None]
File(k) == [kind |-> "file", ref |-> k]
Sym(p) == [kind |-> "sym", ref |-> p]

Bare == [p \in Paths |-> None]

Is(t, p, kind) == t[p] # None /\ t[p].kind = kind

-----------------------------------------------------------------------------
(***************************************************************************)
(* The operations of os.Root.  Each returns the set of trees it may leave: *)
(* none when it fails.                                                     *)
(***************************************************************************)
Parent(p) == SubSeq(p, 1, 1)

\* Whether the name p, or the symbolic link there, is a directory.
DirAt(t, p) ==
    Is(t, p, "dir") \/ (Is(t, p, "sym") /\ Is(t, t[p].ref, "dir"))

HasParent(t, p) == Len(p) = 1 \/ DirAt(t, Parent(p))

\* The path that p names once a symbolic link above it is followed.
Resolve(t, p) ==
    IF Len(p) = 2 /\ Is(t, Parent(p), "sym")
    THEN t[Parent(p)].ref \o SubSeq(p, 2, 2)
    ELSE p

Mkdir(t, p) ==
    IF DirAt(t, p) THEN {t}
    ELSE IF t[p] = None THEN {[t EXCEPT ![p] = Dir]}
    ELSE {}

\* root.MkdirAll(filepath.Dir(p))
MkdirParent(t, p) == IF Len(p) = 1 THEN {t} ELSE Mkdir(t, Parent(p))

\* root.MkdirAll(p)
MkdirAll(t, p) == UNION {Mkdir(x, Resolve(x, p)) : x \in MkdirParent(t, p)}

Below(t, p) == {q \in Paths : Len(q) = 2 /\ Parent(q) = p /\ t[q] # None}

\* root.Remove(p); that nothing is there, or above it, is not an error.
Remove(t, p) ==
    LET q == Resolve(t, p)
    IN  IF Len(p) = 2 /\ t[Parent(p)] = None THEN {t}
        ELSE IF ~HasParent(t, p) \/ Below(t, q) # {} THEN {}
        ELSE {[t EXCEPT ![q] = None]}

\* O_EXCL, and likewise symlink and link: the name must be free.
Create(t, p, node) ==
    LET q == Resolve(t, p)
    IN  IF HasParent(t, p) /\ t[q] = None THEN {[t EXCEPT ![q] = node]} ELSE {}

\* root.Link(from, p)
Link(t, p, from) ==
    LET q == Resolve(t, from)
    IN  IF HasParent(t, from) /\ t[q] # None /\ ~Is(t, q, "dir")
        THEN Create(t, p, t[q])
        ELSE {}

-----------------------------------------------------------------------------
(***************************************************************************)
(* Entries: "file" (small enough for the pool), "big", "dir", "sym" and    *)
(* "link" with what they point to, and "skip" for an entry that            *)
(* stripComponents or the seed's rename drops.                             *)
(***************************************************************************)
EntryType ==
    [type : {"file", "big", "dir", "sym", "link", "skip"},
     path : Paths, to : Paths \union {None}]

\* The last operation of entry e, the k-th of its stream.
Place(t, e, k) ==
    CASE e.type \in {"file", "big"} -> Create(t, e.path, File(k))
      [] e.type = "sym" -> Create(t, e.path, Sym(e.to))
      [] e.type = "link" -> Link(t, e.path, e.to)

\* Entry e extracted alone.
Apply(t, e, k) ==
    CASE e.type = "skip" -> {t}
      [] e.type = "dir" -> MkdirAll(t, e.path)
      [] OTHER -> UNION {UNION {Place(y, e, k) : y \in Remove(x, e.path)} :
                            x \in MkdirParent(t, e.path)}

\* The trees that the first k entries leave in an empty directory: one, or
\* none if they cannot be extracted.
After(stream) ==
    LET after[k \in 0..Len(stream)] ==
            IF k = 0 THEN {Bare}
            ELSE UNION {Apply(t, stream[k], k) : t \in after[k - 1]}
    IN  after

Serial(stream) == After(stream)[Len(stream)]
=============================================================================
