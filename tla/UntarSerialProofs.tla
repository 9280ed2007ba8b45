------------------------- MODULE UntarSerialProofs -------------------------
(***************************************************************************)
(* Proofs that the pool extracts what the serial loop would, for archives  *)
(* of a tree: streams of any length, any number of workers, every          *)
(* distribution of the paths and every interleaving.                       *)
(***************************************************************************)
EXTENDS UntarPoolProofs, NaturalsInduction, WellFoundedInduction

-----------------------------------------------------------------------------
(***************************************************************************)
(* The serial result, whose definition is recursive.                       *)
(***************************************************************************)
LEMMA LeastIndex ==
    ASSUME NEW T, T \subseteq Nat, T # {}
    PROVE  \E x \in T : \A y \in T : x <= y
<1> DEFINE R == OpToRel(<, Nat)
<1>1. IsWellFoundedOn(R, Nat)
  BY NatLessThanWellFounded
<1>2. \A x, y \in Nat : y < x => <<y, x>> \in R
  BY DEF OpToRel
<1> HIDE DEF R
<1>3. PICK x \in T : \A y \in T : ~(<<y, x>> \in R)
  BY <1>1, WFMin
<1>4. ASSUME NEW y \in T PROVE x <= y
  <2>1. x \in Nat /\ y \in Nat /\ ~(y < x)
    BY <1>2, <1>3
  <2> QED
    BY <2>1
<1> QED
  BY <1>4

\* One entry more: what it makes of the trees before it.
Grown(s, k, trees) == UNION {Apply(t, s[k], k) : t \in trees}

\* f says what the first m entries of s leave, each from the one before.
Grows(s, f, m) ==
    \A k \in 0..m : f[k] = IF k = 0 THEN {Bare} ELSE Grown(s, k, f[k - 1])

LEMMA GrowthExists ==
    ASSUME NEW s, Len(s) \in Nat
    PROVE  \E f : f = [k \in 0..Len(s) |-> f[k]] /\ Grows(s, f, Len(s))
<1> DEFINE n == Len(s)
           Lacking == {m \in 0..n : ~\E f : f = [k \in 0..n |-> f[k]] /\ Grows(s, f, m)}
<1>1. SUFFICES ASSUME Lacking # {} PROVE FALSE
  OBVIOUS
<1>2. PICK m \in Lacking : \A l \in Lacking : m <= l
  <2>1. Lacking \subseteq Nat
    OBVIOUS
  <2> HIDE DEF Lacking
  <2> QED
    BY <1>1, <2>1, LeastIndex
<1>3. m \in 0..n /\ ~\E f : f = [k \in 0..n |-> f[k]] /\ Grows(s, f, m)
  OBVIOUS
<1>4. m # 0
  <2> SUFFICES ASSUME m = 0 PROVE FALSE
    OBVIOUS
  <2> DEFINE f == [k \in 0..n |-> {Bare}]
  <2>1. Grows(s, f, 0)
    BY DEF Grows
  <2>2. f = [k \in 0..n |-> f[k]]
    OBVIOUS
  <2> QED
    BY <1>3, <2>1, <2>2
<1>5. m - 1 \in 0..n /\ m - 1 \notin Lacking
  BY <1>2, <1>3, <1>4
<1>6. PICK f : f = [k \in 0..n |-> f[k]] /\ Grows(s, f, m - 1)
  BY <1>5
<1> DEFINE next == Grown(s, m, f[m - 1])
           g == [k \in 0..n |-> IF k = m THEN next ELSE f[k]]
<1>7. Grows(s, g, m)
  <2> SUFFICES ASSUME NEW k \in 0..m
               PROVE  g[k] = IF k = 0 THEN {Bare} ELSE Grown(s, k, g[k - 1])
    BY DEF Grows
  <2>1. CASE k = m
    <3>1. g[k] = next /\ g[k - 1] = f[m - 1]
      BY <1>3, <1>4, <2>1
    <3> QED
      BY <1>4, <2>1, <3>1
  <2>2. CASE k # m
    <3>1. k \in 0..m - 1 /\ k \in 0..n /\ (k # 0 => k - 1 \in 0..n /\ k - 1 # m)
      BY <1>3, <2>2
    <3>2. g[k] = f[k] /\ (k # 0 => g[k - 1] = f[k - 1])
      BY <2>2, <3>1
    <3> HIDE DEF g, next
    <3> QED
      BY <1>6, <3>1, <3>2 DEF Grows
  <2> QED
    BY <2>1, <2>2
<1>8. g = [k \in 0..n |-> g[k]]
  OBVIOUS
<1> HIDE DEF g
<1> QED
  BY <1>3, <1>7, <1>8

LEMMA AfterIs ==
    ASSUME NEW s, Len(s) \in Nat
    PROVE  /\ After(s)[0] = {Bare}
           /\ \A k \in 1..Len(s) : After(s)[k] = Grown(s, k, After(s)[k - 1])
<1> DEFINE G(f) == [k \in 0..Len(s) |->
                      IF k = 0 THEN {Bare}
                      ELSE UNION {Apply(t, s[k], k) : t \in f[k - 1]}]
<1>1. PICK f : f = [k \in 0..Len(s) |-> f[k]] /\ Grows(s, f, Len(s))
  BY GrowthExists
<1>2. f = G(f)
  BY <1>1 DEF Grows, Grown
<1>3. After(s) = CHOOSE g : g = G(g)
  BY DEF After
<1>4. After(s) = G(After(s))
  BY <1>2, <1>3
<1> DEFINE a == After(s)
<1>5. a = [k \in 0..Len(s) |-> IF k = 0 THEN {Bare} ELSE Grown(s, k, a[k - 1])]
  BY <1>4 DEF Grown
<1> HIDE DEF a
<1>6. \A k \in 0..Len(s) : a[k] = IF k = 0 THEN {Bare} ELSE Grown(s, k, a[k - 1])
  BY <1>5
<1>7. 0 \in 0..Len(s) /\ \A k \in 1..Len(s) : k \in 0..Len(s) /\ k # 0
  OBVIOUS
<1>8. a[0] = {Bare} /\ \A k \in 1..Len(s) : a[k] = Grown(s, k, a[k - 1])
  BY <1>6, <1>7
<1> QED
  BY <1>8 DEF a

\* What could not be extracted so far cannot be extracted.
LEMMA EmptyStays ==
    ASSUME NEW s, Len(s) \in Nat, NEW k \in 0..Len(s), After(s)[k] = {}
    PROVE  Serial(s) = {}
<1> DEFINE T == {m \in k..Len(s) : After(s)[m] # {}}
<1>1. SUFFICES ASSUME T # {} PROVE FALSE
  <2>1. Len(s) \in k..Len(s)
    OBVIOUS
  <2> QED
    BY <2>1 DEF Serial
<1>2. PICK m \in T : \A l \in T : m <= l
  <2>1. T \subseteq Nat
    OBVIOUS
  <2> HIDE DEF T
  <2> QED
    BY <1>1, <2>1, LeastIndex
<1>3. m \in k..Len(s) /\ After(s)[m] # {} /\ m # k
  OBVIOUS
<1>4. m \in 1..Len(s) /\ m - 1 \in k..Len(s) /\ m - 1 \notin T
  BY <1>2, <1>3
<1>5. After(s)[m - 1] = {}
  BY <1>4
<1>6. After(s)[m] = Grown(s, m, {})
  BY <1>4, <1>5, AfterIs
<1> QED
  BY <1>3, <1>6 DEF Grown

-----------------------------------------------------------------------------
(***************************************************************************)
(* Archives of a tree.                                                     *)
(***************************************************************************)
\* The names that the stream s takes for directories.
IsFolder(s, d) ==
    \E k \in 1..Len(s) :
        \/ s[k].type = "dir" /\ s[k].path = d
        \/ s[k].type # "skip" /\ Len(s[k].path) = 2 /\ Parent(s[k].path) = d
        \/ s[k].type = "link" /\ Len(s[k].to) = 2 /\ Parent(s[k].to) = d

\* A name that is a directory for one entry is nothing else for another: what
\* walking a directory tree, without following links, puts in an archive.
TreeShaped(s) ==
    \A k \in 1..Len(s) :
        s[k].type \in {"file", "big", "sym", "link"} => ~IsFolder(s, s[k].path)

\* What is above p is a directory.
Rooted(s, p) == p \in Paths /\ (Len(p) = 2 => IsFolder(s, Parent(p)))

\* A directory that holds nothing but entries of an archive of a tree.
Shaped(s, t) ==
    \A p \in Paths :
        /\ IF IsFolder(s, p) THEN t[p] \in {None, Dir} ELSE t[p] # Dir
        /\ t[p] # None => Rooted(s, p)

\* The directory t once p can be created.
Made(t, p) == IF Len(p) = 2 THEN [t EXCEPT ![Parent(p)] = Dir] ELSE t

LEMMA ParentIs ==
    ASSUME NEW p \in Paths
    PROVE  Parent(p) \in Paths /\ Len(Parent(p)) = 1 /\ (Len(p) = 1 \/ Len(p) = 2)
<1>1. p \in Seq(STRING) /\ Len(p) \in {1, 2} /\ Parent(p) \in Paths
  BY PoolAssumption
<1>2. Len(SubSeq(p, 1, 1)) = 1
  BY <1>1
<1> QED
  BY <1>1, <1>2 DEF Parent

LEMMA EntryIs ==
    ASSUME stream \in Streams, NEW k \in Entries
    PROVE  /\ Len(stream) \in Nat /\ stream[k].path \in Paths
           /\ stream[k].type \in {"file", "big", "dir", "sym", "link", "skip"}
           /\ stream[k].type # "skip" => Rooted(stream, stream[k].path)
           /\ stream[k].type = "dir" => IsFolder(stream, stream[k].path)
           /\ stream[k].type \in {"sym", "link"} => stream[k].to \in Paths
           /\ stream[k].type = "sym" => Len(stream[k].to) = 1
           /\ stream[k].type = "link" => Rooted(stream, stream[k].to)
<1>1. stream \in Seq(EntryType)
  BY PoolAssumption
<1>2. stream[k] \in EntryType /\ Len(stream) \in Nat
  BY <1>1, ElementOfSeq DEF Entries
<1>3. stream[k].path \in Paths /\ stream[k].type \in {"file", "big", "dir", "sym", "link", "skip"}
  BY <1>2 DEF EntryType
<1>4. /\ stream[k].type \in {"sym", "link"} => stream[k].to \in Paths
      /\ stream[k].type = "sym" => Len(stream[k].to) = 1
  BY PoolAssumption DEF Entries
<1>5. /\ stream[k].type # "skip" => Rooted(stream, stream[k].path)
      /\ stream[k].type = "dir" => IsFolder(stream, stream[k].path)
  BY <1>3 DEF Rooted, IsFolder, Entries
<1>6. stream[k].type = "link" => Rooted(stream, stream[k].to)
  BY <1>4 DEF Rooted, IsFolder, Entries
<1> QED
  BY <1>2, <1>3, <1>4, <1>5, <1>6

\* At the name of a directory there is a directory or nothing.
LEMMA FolderIs ==
    ASSUME NEW s, NEW t, Shaped(s, t), NEW d \in Paths, IsFolder(s, d)
    PROVE  /\ t[d] = None \/ t[d] = Dir
           /\ DirAt(t, d) <=> t[d] = Dir
           /\ ~Is(t, d, "sym")
<1>1. t[d] = None \/ t[d] = Dir
  BY DEF Shaped
<1>2. Dir.kind = "dir" /\ None # Dir
  BY PoolAssumption DEF Dir
<1> QED
  BY <1>1, <1>2 DEF DirAt, Is

LEMMA ResolveIs ==
    ASSUME NEW s, NEW t, Shaped(s, t), NEW p, Rooted(s, p)
    PROVE  /\ Resolve(t, p) = p
           /\ HasParent(t, p) <=> (Len(p) = 2 => t[Parent(p)] = Dir)
<1>1. p \in Paths /\ (Len(p) = 2 => IsFolder(s, Parent(p)))
  BY DEF Rooted
<1>2. Parent(p) \in Paths /\ (Len(p) = 1 \/ Len(p) = 2)
  BY <1>1, ParentIs
<1>3. Len(p) = 2 => ~Is(t, Parent(p), "sym") /\ (DirAt(t, Parent(p)) <=> t[Parent(p)] = Dir)
  BY <1>1, <1>2, FolderIs
<1> QED
  BY <1>2, <1>3 DEF Resolve, HasParent

LEMMA PutDir ==
    ASSUME NEW s, NEW t \in [Paths -> Nodes], Shaped(s, t),
           NEW d \in Paths, IsFolder(s, d), Rooted(s, d)
    PROVE  [t EXCEPT ![d] = Dir] \in [Paths -> Nodes] /\ Shaped(s, [t EXCEPT ![d] = Dir])
<1> DEFINE x == [t EXCEPT ![d] = Dir]
<1>1. Dir \in Nodes
  BY DEF Nodes
<1>2. x \in [Paths -> Nodes] /\ x[d] = Dir /\ \A q \in Paths \ {d} : x[q] = t[q]
  BY <1>1
<1> HIDE DEF x
<1>3. Shaped(s, x)
  BY <1>2 DEF Shaped
<1> QED
  BY <1>2, <1>3 DEF x

LEMMA PutLeaf ==
    ASSUME NEW s, NEW t \in [Paths -> Nodes], Shaped(s, t),
           NEW p, Rooted(s, p), ~IsFolder(s, p), NEW n \in Nodes, n # Dir
    PROVE  [t EXCEPT ![p] = n] \in [Paths -> Nodes] /\ Shaped(s, [t EXCEPT ![p] = n])
<1> DEFINE x == [t EXCEPT ![p] = n]
<1>1. p \in Paths
  BY DEF Rooted
<1>2. x \in [Paths -> Nodes] /\ x[p] = n /\ \A q \in Paths \ {p} : x[q] = t[q]
  BY <1>1
<1> HIDE DEF x
<1>3. Shaped(s, x)
  BY <1>1, <1>2 DEF Shaped
<1> QED
  BY <1>2, <1>3 DEF x

\* root.MkdirAll of what is above p succeeds.
LEMMA MkdirParentIs ==
    ASSUME NEW s, NEW t \in [Paths -> Nodes], Shaped(s, t), NEW p, Rooted(s, p)
    PROVE  /\ MkdirParent(t, p) = {Made(t, p)}
           /\ Made(t, p) \in [Paths -> Nodes] /\ Shaped(s, Made(t, p))
           /\ Len(p) = 2 => Made(t, p)[Parent(p)] = Dir
           /\ \A q \in Paths :
                 Made(t, p)[q] = IF Len(p) = 2 /\ q = Parent(p) THEN Dir ELSE t[q]
<1>1. p \in Paths /\ (Len(p) = 2 => IsFolder(s, Parent(p)))
  BY DEF Rooted
<1>2. Parent(p) \in Paths /\ Len(Parent(p)) = 1 /\ (Len(p) = 1 \/ Len(p) = 2)
  BY <1>1, ParentIs
<1>3. CASE Len(p) = 1
  BY <1>3 DEF MkdirParent, Made
<1>4. CASE Len(p) = 2
  <2> DEFINE d == Parent(p)
             x == [t EXCEPT ![d] = Dir]
  <2>1. /\ d \in Paths /\ IsFolder(s, d) /\ Rooted(s, d)
        /\ MkdirParent(t, p) = Mkdir(t, d) /\ Made(t, p) = x
    BY <1>1, <1>2, <1>4 DEF Rooted, MkdirParent, Made
  <2> HIDE DEF d
  <2>2. x \in [Paths -> Nodes] /\ Shaped(s, x)
    BY <2>1, PutDir
  <2>3. x[d] = Dir /\ \A q \in Paths \ {d} : x[q] = t[q]
    BY <2>1
  <2>4. /\ t[d] = None \/ t[d] = Dir
        /\ DirAt(t, d) <=> t[d] = Dir
    BY <2>1, FolderIs
  <2>5. Mkdir(t, d) = {x}
    <3>1. CASE t[d] = Dir
      <4>1. x = t
        BY <3>1
      <4> QED
        BY <2>4, <3>1, <4>1 DEF Mkdir
    <3>2. CASE t[d] # Dir
      BY <2>4, <3>2 DEF Mkdir
    <3> QED
      BY <3>1, <3>2
  <2> HIDE DEF x
  <2>6. /\ Made(t, p) = x /\ d = Parent(p) /\ MkdirParent(t, p) = {x}
    BY <2>1, <2>5 DEF d
  <2> QED
    BY <1>4, <2>1, <2>2, <2>3, <2>6
<1> QED
  BY <1>2, <1>3, <1>4

\* root.MkdirAll of a directory's name succeeds.
LEMMA MkdirAllIs ==
    ASSUME NEW s, NEW t \in [Paths -> Nodes], Shaped(s, t),
           NEW p, Rooted(s, p), IsFolder(s, p)
    PROVE  LET x == [Made(t, p) EXCEPT ![p] = Dir]
           IN  /\ MkdirAll(t, p) = {x} /\ x \in [Paths -> Nodes] /\ Shaped(s, x)
               /\ x[p] = Dir
               /\ \A q \in Paths :
                     x[q] = IF q = p \/ (Len(p) = 2 /\ q = Parent(p)) THEN Dir ELSE t[q]
<1> DEFINE y == Made(t, p)
           x == [y EXCEPT ![p] = Dir]
<1>1. p \in Paths /\ (Len(p) = 2 => IsFolder(s, Parent(p)))
  BY DEF Rooted
<1>2. /\ MkdirParent(t, p) = {y} /\ y \in [Paths -> Nodes] /\ Shaped(s, y)
      /\ \A q \in Paths : y[q] = IF Len(p) = 2 /\ q = Parent(p) THEN Dir ELSE t[q]
  BY MkdirParentIs
<1> HIDE DEF y
<1>3. /\ y[p] = None \/ y[p] = Dir
      /\ DirAt(y, p) <=> y[p] = Dir
  BY <1>1, <1>2, FolderIs
<1>4. Resolve(y, p) = p
  BY <1>2, ResolveIs
<1>5. Mkdir(y, p) = {x}
  <2>1. CASE y[p] = Dir
    <3>1. x = y
      BY <1>2, <2>1
    <3> QED
      BY <1>3, <2>1, <3>1 DEF Mkdir
  <2>2. CASE y[p] # Dir
    BY <1>3, <2>2 DEF Mkdir
  <2> QED
    BY <2>1, <2>2
<1>6. MkdirAll(t, p) = {x}
  BY <1>2, <1>4, <1>5 DEF MkdirAll
<1>7. x \in [Paths -> Nodes] /\ Shaped(s, x)
  BY <1>1, <1>2, PutDir
<1>8. x[p] = Dir /\ \A q \in Paths : q # p => x[q] = y[q]
  BY <1>1, <1>2
<1> HIDE DEF x
<1>9. \A q \in Paths :
        x[q] = IF q = p \/ (Len(p) = 2 /\ q = Parent(p)) THEN Dir ELSE t[q]
  BY <1>1, <1>2, <1>8
<1> QED
  BY <1>6, <1>7, <1>8, <1>9 DEF x, y

\* Below the name of a file or a link there is nothing: root.Remove succeeds.
LEMMA RemoveIs ==
    ASSUME NEW s, NEW t \in [Paths -> Nodes], Shaped(s, t), NEW p, Rooted(s, p),
           ~IsFolder(s, p), Len(p) = 2 => t[Parent(p)] = Dir
    PROVE  LET x == [t EXCEPT ![p] = None]
           IN  /\ Remove(t, p) = {x} /\ x \in [Paths -> Nodes] /\ Shaped(s, x)
               /\ x[p] = None /\ \A q \in Paths \ {p} : x[q] = t[q]
<1> DEFINE x == [t EXCEPT ![p] = None]
<1>1. p \in Paths /\ Resolve(t, p) = p /\ HasParent(t, p)
  BY ResolveIs DEF Rooted
<1>2. Below(t, p) = {}
  BY DEF Shaped, Rooted, Below
<1>3. ~(Len(p) = 2 /\ t[Parent(p)] = None)
  BY PoolAssumption
<1>4. Remove(t, p) = {x}
  BY <1>1, <1>2, <1>3 DEF Remove
<1>5. None \in Nodes /\ None # Dir
  BY PoolAssumption DEF Nodes
<1>6. x \in [Paths -> Nodes] /\ Shaped(s, x)
  BY <1>5, PutLeaf
<1>7. x[p] = None /\ \A q \in Paths \ {p} : x[q] = t[q]
  BY <1>1
<1> QED
  BY <1>4, <1>6, <1>7

\* O_EXCL succeeds at a free name.
LEMMA CreateIs ==
    ASSUME NEW s, NEW t \in [Paths -> Nodes], Shaped(s, t), NEW p, Rooted(s, p),
           ~IsFolder(s, p), Len(p) = 2 => t[Parent(p)] = Dir, t[p] = None,
           NEW n \in Nodes, n # Dir
    PROVE  LET x == [t EXCEPT ![p] = n]
           IN  /\ Create(t, p, n) = {x} /\ x \in [Paths -> Nodes] /\ Shaped(s, x)
               /\ x[p] = n /\ \A q \in Paths \ {p} : x[q] = t[q]
<1> DEFINE x == [t EXCEPT ![p] = n]
<1>1. p \in Paths /\ Resolve(t, p) = p /\ HasParent(t, p)
  BY ResolveIs DEF Rooted
<1>2. Create(t, p, n) = {x}
  BY <1>1 DEF Create
<1>3. x \in [Paths -> Nodes] /\ Shaped(s, x)
  BY PutLeaf
<1>4. x[p] = n /\ \A q \in Paths \ {p} : x[q] = t[q]
  BY <1>1
<1> QED
  BY <1>2, <1>3, <1>4

\* The directory t once p can be created and nothing is there.
Cleared(t, p) == [Made(t, p) EXCEPT ![p] = None]

LeafTypes == {"file", "big", "sym", "link"}

\* A file or a link comes down to its last operation.
LEMMA ApplyLeaf ==
    ASSUME NEW s, NEW t \in [Paths -> Nodes], Shaped(s, t), NEW e, e.type \in LeafTypes,
           Rooted(s, e.path), ~IsFolder(s, e.path), NEW k
    PROVE  LET x == Cleared(t, e.path)
           IN  /\ Apply(t, e, k) = Place(x, e, k)
               /\ Remove(Made(t, e.path), e.path) = {x}
               /\ x \in [Paths -> Nodes] /\ Shaped(s, x) /\ x[e.path] = None
               /\ Len(e.path) = 2 => x[Parent(e.path)] = Dir
               /\ \A q \in Paths : q # e.path =>
                     \/ x[q] = t[q]
                     \/ Len(e.path) = 2 /\ q = Parent(e.path) /\ x[q] = Dir
<1> DEFINE p == e.path
           y == Made(t, p)
           x == [y EXCEPT ![p] = None]
<1> HIDE DEF p
<1>1. Rooted(s, p) /\ ~IsFolder(s, p) /\ p \in Paths
  BY DEF p, Rooted
<1>2. /\ MkdirParent(t, p) = {y} /\ y \in [Paths -> Nodes] /\ Shaped(s, y)
      /\ Len(p) = 2 => y[Parent(p)] = Dir
      /\ \A q \in Paths : y[q] = IF Len(p) = 2 /\ q = Parent(p) THEN Dir ELSE t[q]
  BY <1>1, MkdirParentIs
<1>3. Parent(p) \in Paths /\ (Len(p) = 2 => Parent(p) # p)
  BY <1>1, ParentIs
<1> HIDE DEF y
<1>4. /\ Remove(y, p) = {x} /\ x \in [Paths -> Nodes] /\ Shaped(s, x)
      /\ x[p] = None /\ \A q \in Paths \ {p} : x[q] = y[q]
  BY <1>1, <1>2, RemoveIs
<1> HIDE DEF x
<1>5. Apply(t, e, k) = UNION {UNION {Place(z, e, k) : z \in Remove(v, p)} :
                                 v \in MkdirParent(t, p)}
  BY DEF Apply, LeafTypes, p
<1>6. Apply(t, e, k) = Place(x, e, k)
  BY <1>2, <1>4, <1>5
<1>7. Cleared(t, e.path) = x /\ Made(t, e.path) = y /\ e.path = p
  BY DEF Cleared, x, y, p
<1>8. /\ Len(p) = 2 => x[Parent(p)] = Dir
      /\ \A q \in Paths : q # p => x[q] = t[q] \/ (Len(p) = 2 /\ q = Parent(p) /\ x[q] = Dir)
  BY <1>2, <1>3, <1>4
<1> QED
  BY <1>4, <1>6, <1>7, <1>8

LEMMA NodeIs ==
    /\ None \in Nodes /\ Dir \in Nodes /\ None # Dir
    /\ \A k \in Entries : File(k) \in Nodes /\ File(k) # Dir
    /\ \A k, l \in Entries : File(k) = File(l) => k = l
    /\ \A q \in Paths : Len(q) = 1 => Sym(q) \in Nodes
    /\ \A q : Sym(q) # Dir /\ \A k : Sym(q) # File(k)
<1>1. \A k : File(k).kind = "file" /\ File(k).ref = k
  BY DEF File
<1>2. \A q : Sym(q).kind = "sym"
  BY DEF Sym
<1>3. Dir.kind = "dir"
  BY DEF Dir
<1>4. None # Dir
  BY PoolAssumption
<1>5. None \in Nodes /\ Dir \in Nodes
  BY DEF Nodes
<1>6. \A k \in Entries : File(k) \in Nodes
  BY DEF Nodes
<1>7. \A q \in Paths : Len(q) = 1 => Sym(q) \in Nodes
  BY DEF Nodes
<1> QED
  BY <1>1, <1>2, <1>3, <1>4, <1>5, <1>6, <1>7

\* The directory y is x with the k-th entry in its place: its own file, a link,
\* or the file linked to.
NodeIn(s, k, x, y) ==
    LET p == s[k].path
    IN  /\ Shaped(s, y)
        /\ \A q \in Paths : q # p => y[q] = x[q]
        /\ \A l \in 1..Len(s) : y[p] = File(l) =>
              \/ l = k /\ s[k].type \in {"file", "big"}
              \/ \E q \in Paths : x[q] = File(l)

\* The last operation of a file or a link where its name is free.
LEMMA PlaceIs ==
    ASSUME stream \in Streams, TreeShaped(stream), NEW k \in Entries,
           stream[k].type \in LeafTypes,
           NEW x \in [Paths -> Nodes], Shaped(stream, x), x[stream[k].path] = None,
           Len(stream[k].path) = 2 => x[Parent(stream[k].path)] = Dir
    PROVE  /\ stream[k].type \in {"file", "big"} =>
                 Place(x, stream[k], k) = {[x EXCEPT ![stream[k].path] = File(k)]}
           /\ \A y \in Place(x, stream[k], k) :
                /\ Place(x, stream[k], k) = {y}
                /\ y \in [Paths -> Nodes] /\ NodeIn(stream, k, x, y)
<1> DEFINE p == stream[k].path
           trees == Place(x, stream[k], k)
           Good(y) == /\ y \in [Paths -> Nodes] /\ Shaped(stream, y)
                      /\ \A q \in Paths : q # p => y[q] = x[q]
<1>1. Rooted(stream, p) /\ ~IsFolder(stream, p) /\ p \in Paths
  BY EntryIs DEF TreeShaped, LeafTypes, Entries
<1>2. ASSUME NEW n \in Nodes, n # Dir
      PROVE  /\ Create(x, p, n) = {[x EXCEPT ![p] = n]}
             /\ Good([x EXCEPT ![p] = n]) /\ [x EXCEPT ![p] = n][p] = n
  <2> HIDE DEF p
  <2>1. x[p] = None /\ (Len(p) = 2 => x[Parent(p)] = Dir)
    BY DEF p
  <2> DEFINE y == [x EXCEPT ![p] = n]
  <2>2. /\ Create(x, p, n) = {y} /\ y \in [Paths -> Nodes] /\ Shaped(stream, y)
        /\ y[p] = n /\ \A q \in Paths \ {p} : y[q] = x[q]
    BY <1>1, <1>2, <2>1, CreateIs
  <2> HIDE DEF y
  <2>3. Create(x, p, n) = {y} /\ Good(y) /\ y[p] = n
    BY <2>2
  <2> QED
    BY <2>3 DEF y
<1>3. CASE stream[k].type \in {"file", "big"}
  <2>1. File(k) \in Nodes /\ File(k) # Dir /\ \A l \in Entries : File(k) = File(l) => k = l
    BY NodeIs
  <2>2. trees = Create(x, p, File(k))
    BY <1>3 DEF Place
  <2>3. /\ trees = {[x EXCEPT ![p] = File(k)]} /\ Good([x EXCEPT ![p] = File(k)])
        /\ [x EXCEPT ![p] = File(k)][p] = File(k)
    BY <1>2, <2>1, <2>2
  <2> HIDE DEF trees, p
  <2>4. ASSUME NEW y \in trees
        PROVE  trees = {y} /\ Good(y) /\ \A l \in Entries : y[p] = File(l) => l = k
    <3>1. y = [x EXCEPT ![p] = File(k)]
      BY <2>3
    <3> QED
      BY <2>1, <2>3, <3>1
  <2> QED
    BY <1>3, <2>3, <2>4 DEF trees, p, NodeIn, Entries
<1>4. CASE stream[k].type = "sym"
  <2> DEFINE n == Sym(stream[k].to)
  <2>1. n \in Nodes /\ n # Dir /\ \A l : n # File(l)
    BY <1>4, EntryIs, NodeIs
  <2>2. trees = Create(x, p, n)
    BY <1>4 DEF Place
  <2> HIDE DEF n
  <2>3. /\ trees = {[x EXCEPT ![p] = n]} /\ Good([x EXCEPT ![p] = n])
        /\ [x EXCEPT ![p] = n][p] = n
    BY <1>2, <2>1, <2>2
  <2> HIDE DEF trees, p
  <2>4. ASSUME NEW y \in trees
        PROVE  trees = {y} /\ Good(y) /\ \A l \in Entries : y[p] # File(l)
    <3>1. y = [x EXCEPT ![p] = n]
      BY <2>3
    <3> QED
      BY <2>1, <2>3, <3>1
  <2> QED
    BY <1>4, <2>4 DEF trees, p, NodeIn, Entries
<1>5. CASE stream[k].type = "link"
  <2> DEFINE q == stream[k].to
             n == x[q]
  <2>1. q \in Paths /\ Rooted(stream, q)
    BY <1>5, EntryIs
  <2>2. trees = Link(x, p, q)
    BY <1>5 DEF Place
  <2> HIDE DEF q
  <2>3. Resolve(x, q) = q
    BY <2>1, ResolveIs
  <2>4. trees = {} \/ (n # Dir /\ trees = Create(x, p, n))
    <3>1. ~Is(x, q, "dir") /\ n # None => n # Dir
      BY DEF Is, Dir
    <3> QED
      BY <2>2, <2>3, <3>1 DEF Link
  <2>5. n \in Nodes
    BY <2>1
  <2> HIDE DEF n
  <2>6. \/ trees = {}
        \/ /\ trees = {[x EXCEPT ![p] = n]} /\ Good([x EXCEPT ![p] = n])
           /\ [x EXCEPT ![p] = n][p] = n
    BY <1>2, <2>4, <2>5
  <2> HIDE DEF trees, p
  <2>7. ASSUME NEW y \in trees
        PROVE  trees = {y} /\ Good(y) /\ y[p] = x[q]
    <3>1. y = [x EXCEPT ![p] = n]
      BY <2>6
    <3> QED
      BY <2>6, <3>1 DEF n
  <2> QED
    BY <1>5, <2>1, <2>7 DEF trees, p, NodeIn, Entries
<1> QED
  BY <1>3, <1>4, <1>5 DEF LeafTypes

\* The directory x is t with the k-th entry's small file, and what is above it.
FileIn(s, k, t, x) ==
    LET p == s[k].path
    IN  /\ Shaped(s, x) /\ x[p] = File(k)
        /\ Len(p) = 2 => x[Parent(p)] = Dir
        /\ \A q \in Paths : q # p =>
              x[q] = t[q] \/ (Len(p) = 2 /\ q = Parent(p) /\ x[q] = Dir)

LEMMA ApplyFile ==
    ASSUME stream \in Streams, TreeShaped(stream), NEW k \in Entries,
           stream[k].type = "file", NEW t \in [Paths -> Nodes], Shaped(stream, t)
    PROVE  \E x \in [Paths -> Nodes] :
              Apply(t, stream[k], k) = {x} /\ FileIn(stream, k, t, x)
<1> DEFINE p == stream[k].path
           y == Cleared(t, p)
           x == [y EXCEPT ![p] = File(k)]
<1>1. Rooted(stream, p) /\ ~IsFolder(stream, p) /\ p \in Paths
  BY EntryIs DEF TreeShaped, Entries
<1>2. stream[k].type \in LeafTypes
  BY DEF LeafTypes
<1>3. /\ Apply(t, stream[k], k) = Place(y, stream[k], k)
      /\ y \in [Paths -> Nodes] /\ Shaped(stream, y) /\ y[p] = None
      /\ Len(p) = 2 => y[Parent(p)] = Dir
      /\ \A q \in Paths : q # p =>
            y[q] = t[q] \/ (Len(p) = 2 /\ q = Parent(p) /\ y[q] = Dir)
  BY <1>1, <1>2, ApplyLeaf
<1> HIDE DEF y
<1>4. Place(y, stream[k], k) = {x} /\ x \in [Paths -> Nodes] /\ Shaped(stream, x)
  <2>1. Place(y, stream[k], k) = {x}
    BY <1>2, <1>3, PlaceIs
  <2>2. \A z \in Place(y, stream[k], k) : z \in [Paths -> Nodes] /\ NodeIn(stream, k, y, z)
    BY <1>2, <1>3, PlaceIs
  <2> HIDE DEF x
  <2> QED
    BY <2>1, <2>2 DEF NodeIn
<1>5. x[p] = File(k) /\ \A q \in Paths : q # p => x[q] = y[q]
  BY <1>1, <1>3
<1>6. Parent(p) \in Paths /\ (Len(p) = 2 => Parent(p) # p)
  BY <1>1, ParentIs
<1> HIDE DEF x, p
<1>7. Len(p) = 2 => x[Parent(p)] = Dir
  BY <1>3, <1>5, <1>6
<1>8. \A q \in Paths : q # p =>
            x[q] = t[q] \/ (Len(p) = 2 /\ q = Parent(p) /\ x[q] = Dir)
  BY <1>3, <1>5
<1>9. FileIn(stream, k, t, x)
  BY <1>4, <1>5, <1>7, <1>8 DEF p, FileIn
<1> QED
  BY <1>3, <1>4, <1>9

-----------------------------------------------------------------------------
(***************************************************************************)
(* The directory f of the pool, with the files of the entries W yet to be  *)
(* put in their places, and the directory t of the serial loop.            *)
(***************************************************************************)
Needs(s, k, d) == Len(s[k].path) = 2 /\ Parent(s[k].path) = d

Agrees(s, t, f, W) ==
    \A p \in Paths :
        IF IsFolder(s, p)
        THEN t[p] = Dir <=> (f[p] = Dir \/ \E k \in W : Needs(s, k, p))
        ELSE \/ f[p] = t[p] /\ \A k \in W : s[k].path # p
             \/ \E k \in W : /\ s[k].path = p /\ t[p] = File(k)
                             /\ \A l \in W : s[l].path = p => l <= k

LEMMA AgreesSelf ==
    ASSUME NEW s, NEW t
    PROVE  Agrees(s, t, t, {})
  BY DEF Agrees

\* With nothing left to write the directories are the same.
LEMMA AgreesSame ==
    ASSUME NEW s, NEW t \in [Paths -> Nodes], NEW f \in [Paths -> Nodes],
           Shaped(s, t), Shaped(s, f), Agrees(s, t, f, {})
    PROVE  f = t
<1>1. ASSUME NEW p \in Paths PROVE f[p] = t[p]
  <2>1. CASE IsFolder(s, p)
    <3>1. t[p] = Dir <=> f[p] = Dir
      BY <2>1 DEF Agrees
    <3>2. t[p] \in {None, Dir} /\ f[p] \in {None, Dir}
      BY <2>1 DEF Shaped
    <3> QED
      BY <3>1, <3>2
  <2>2. CASE ~IsFolder(s, p)
    BY <2>2 DEF Agrees
  <2> QED
    BY <2>1, <2>2
<1> QED
  BY <1>1

\* A directory made by both.
LEMMA AgreesDir ==
    ASSUME NEW s, NEW t, NEW f, NEW W, Agrees(s, t, f, W),
           NEW p, Rooted(s, p), IsFolder(s, p), NEW x, NEW y,
           \A q \in Paths : x[q] = IF q = p \/ (Len(p) = 2 /\ q = Parent(p)) THEN Dir ELSE t[q],
           \A q \in Paths : y[q] = IF q = p \/ (Len(p) = 2 /\ q = Parent(p)) THEN Dir ELSE f[q]
    PROVE  Agrees(s, x, y, W)
<1> SUFFICES ASSUME NEW q \in Paths
             PROVE  IF IsFolder(s, q)
                    THEN x[q] = Dir <=> (y[q] = Dir \/ \E k \in W : Needs(s, k, q))
                    ELSE \/ y[q] = x[q] /\ \A k \in W : s[k].path # q
                         \/ \E k \in W : /\ s[k].path = q /\ x[q] = File(k)
                                         /\ \A l \in W : s[l].path = q => l <= k
  BY DEF Agrees
<1>1. CASE q = p \/ (Len(p) = 2 /\ q = Parent(p))
  BY <1>1 DEF Rooted
<1>2. CASE ~(q = p \/ (Len(p) = 2 /\ q = Parent(p)))
  <2>1. x[q] = t[q] /\ y[q] = f[q]
    BY <1>2
  <2> QED
    BY <2>1 DEF Agrees
<1> QED
  BY <1>1, <1>2

\* A small file, done by the one and left for later by the other.
LEMMA AgreesSend ==
    ASSUME NEW s, NEW t, NEW f, NEW W, Agrees(s, t, f, W), NEW k, NEW x,
           Rooted(s, s[k].path), ~IsFolder(s, s[k].path), k <= k, \A l \in W : l <= k,
           FileIn(s, k, t, x)
    PROVE  Agrees(s, x, f, W \union {k})
<1> DEFINE p == s[k].path
           V == W \union {k}
<1>0. /\ x[p] = File(k)
      /\ Len(p) = 2 => x[Parent(p)] = Dir
      /\ \A q \in Paths : q # p =>
            x[q] = t[q] \/ (Len(p) = 2 /\ q = Parent(p) /\ x[q] = Dir)
  BY DEF FileIn
<1> SUFFICES ASSUME NEW q \in Paths
             PROVE  IF IsFolder(s, q)
                    THEN x[q] = Dir <=> (f[q] = Dir \/ \E l \in V : Needs(s, l, q))
                    ELSE \/ f[q] = x[q] /\ \A l \in V : s[l].path # q
                         \/ \E l \in V : /\ s[l].path = q /\ x[q] = File(l)
                                         /\ \A m \in V : s[m].path = q => m <= l
  BY DEF Agrees
<1>1. CASE IsFolder(s, q)
  <2>1. q # p
    BY <1>1
  <2>2. CASE Needs(s, k, q)
    BY <1>0, <1>1, <2>2 DEF Needs
  <2>3. CASE ~Needs(s, k, q)
    <3>1. x[q] = t[q]
      BY <1>0, <2>1, <2>3 DEF Needs
    <3>2. t[q] = Dir <=> (f[q] = Dir \/ \E l \in W : Needs(s, l, q))
      BY <1>1 DEF Agrees
    <3> QED
      BY <1>1, <2>3, <3>1, <3>2
  <2> QED
    BY <2>2, <2>3
<1>2. CASE ~IsFolder(s, q) /\ q = p
  BY <1>0, <1>2
<1>3. CASE ~IsFolder(s, q) /\ q # p
  <2>1. x[q] = t[q]
    BY <1>0, <1>3 DEF Rooted
  <2>2. \/ f[q] = t[q] /\ \A l \in W : s[l].path # q
        \/ \E l \in W : /\ s[l].path = q /\ t[q] = File(l)
                        /\ \A m \in W : s[m].path = q => m <= l
    BY <1>3 DEF Agrees
  <2> QED
    BY <1>3, <2>1, <2>2
<1> QED
  BY <1>1, <1>2, <1>3

\* The calls of a job.
LEMMA AgreesMkdir ==
    ASSUME NEW s, NEW t, NEW f, NEW W, Agrees(s, t, f, W), NEW k \in W, NEW y,
           Rooted(s, s[k].path),
           \A q \in Paths :
              y[q] = IF Len(s[k].path) = 2 /\ q = Parent(s[k].path) THEN Dir ELSE f[q]
    PROVE  Agrees(s, t, y, W)
<1> SUFFICES ASSUME NEW q \in Paths
             PROVE  IF IsFolder(s, q)
                    THEN t[q] = Dir <=> (y[q] = Dir \/ \E l \in W : Needs(s, l, q))
                    ELSE \/ y[q] = t[q] /\ \A l \in W : s[l].path # q
                         \/ \E l \in W : /\ s[l].path = q /\ t[q] = File(l)
                                         /\ \A m \in W : s[m].path = q => m <= l
  BY DEF Agrees
<1>1. CASE Needs(s, k, q)
  <2>1. IsFolder(s, q)
    BY <1>1 DEF Needs, Rooted
  <2>2. t[q] = Dir
    BY <1>1, <2>1 DEF Agrees
  <2> QED
    BY <1>1, <2>1, <2>2
<1>2. CASE ~Needs(s, k, q)
  <2>1. y[q] = f[q]
    BY <1>2 DEF Needs
  <2> QED
    BY <2>1 DEF Agrees
<1> QED
  BY <1>1, <1>2

LEMMA AgreesRemove ==
    ASSUME NEW s, NEW t, NEW f, NEW W, Agrees(s, t, f, W), NEW k \in W, NEW y,
           ~IsFolder(s, s[k].path), \A q \in Paths : q # s[k].path => y[q] = f[q]
    PROVE  Agrees(s, t, y, W)
<1> SUFFICES ASSUME NEW q \in Paths
             PROVE  IF IsFolder(s, q)
                    THEN t[q] = Dir <=> (y[q] = Dir \/ \E l \in W : Needs(s, l, q))
                    ELSE \/ y[q] = t[q] /\ \A l \in W : s[l].path # q
                         \/ \E l \in W : /\ s[l].path = q /\ t[q] = File(l)
                                         /\ \A m \in W : s[m].path = q => m <= l
  BY DEF Agrees
<1>1. CASE q = s[k].path
  BY <1>1 DEF Agrees
<1>2. CASE q # s[k].path
  <2>1. y[q] = f[q]
    BY <1>2
  <2> QED
    BY <2>1 DEF Agrees
<1> QED
  BY <1>1, <1>2

LEMMA AgreesCreate ==
    ASSUME NEW s, NEW t, NEW f, NEW W, Agrees(s, t, f, W), NEW k \in W, NEW y,
           ~IsFolder(s, s[k].path), Len(s[k].path) = 2 => f[Parent(s[k].path)] = Dir,
           \A l \in W : s[l].path = s[k].path /\ l # k => ~(l <= k),
           y[s[k].path] = File(k), \A q \in Paths : q # s[k].path => y[q] = f[q]
    PROVE  Agrees(s, t, y, W \ {k})
<1> DEFINE V == W \ {k}
<1> SUFFICES ASSUME NEW q \in Paths
             PROVE  IF IsFolder(s, q)
                    THEN t[q] = Dir <=> (y[q] = Dir \/ \E l \in V : Needs(s, l, q))
                    ELSE \/ y[q] = t[q] /\ \A l \in V : s[l].path # q
                         \/ \E l \in V : /\ s[l].path = q /\ t[q] = File(l)
                                         /\ \A m \in V : s[m].path = q => m <= l
  BY DEF Agrees
<1>1. CASE IsFolder(s, q)
  <2>1. y[q] = f[q] /\ (t[q] = Dir <=> (f[q] = Dir \/ \E l \in W : Needs(s, l, q)))
    BY <1>1 DEF Agrees
  <2>2. CASE Needs(s, k, q)
    <3>1. f[q] = Dir
      BY <2>2 DEF Needs
    <3> QED
      BY <1>1, <2>1, <3>1
  <2>3. CASE ~Needs(s, k, q)
    BY <1>1, <2>1, <2>3
  <2> QED
    BY <2>2, <2>3
<1>2. CASE ~IsFolder(s, q) /\ q = s[k].path
  <2>1. PICK l \in W : /\ s[l].path = q /\ t[q] = File(l)
                       /\ \A m \in W : s[m].path = q => m <= l
    BY <1>2 DEF Agrees
  <2>2. CASE l = k
    BY <1>2, <2>1, <2>2
  <2>3. CASE l # k
    BY <1>2, <2>1, <2>3
  <2> QED
    BY <2>2, <2>3
<1>3. CASE ~IsFolder(s, q) /\ q # s[k].path
  <2>1. y[q] = f[q]
    BY <1>3
  <2>2. \/ f[q] = t[q] /\ \A l \in W : s[l].path # q
        \/ \E l \in W : /\ s[l].path = q /\ t[q] = File(l)
                        /\ \A m \in W : s[m].path = q => m <= l
    BY <1>3 DEF Agrees
  <2> QED
    BY <1>3, <2>1, <2>2
<1> QED
  BY <1>1, <1>2, <1>3

-----------------------------------------------------------------------------
(***************************************************************************)
(* The inductive invariant.                                                *)
(***************************************************************************)
\* Whether the file of the job in hand is in its place.
Placed(w) == worker[w].pc \in {"write", "put"}

\* The entries whose files have yet to be put in their places.
WaitsIn(w) == {i \in 1..Len(Line(w)) : Placed(w) => i # 1}
Waits(w) == {Line(w)[i].k : i \in WaitsIn(w)}
Waiting == UNION {Waits(w) : w \in Workers}

\* A worker's jobs are files of its own paths, in the order of the stream.
IsJob(j, w) ==
    stream[j.k].type = "file" /\ j.path = stream[j.k].path /\ shard[j.path] = w

OrderInv ==
    \A w \in Workers :
        /\ \A i \in 1..Len(Line(w)) : IsJob(Line(w)[i], w)
        /\ \A i, j \in 1..Len(Line(w)) : i < j => Line(w)[i].k < Line(w)[j].k

\* The entries that the reader is through with.
Through == IF reader.pc \in Handlers \ {"copy"} THEN reader.k - 1 ELSE reader.k

\* The serial loop's directory after these entries, call by call while the
\* reader handles one of its own.
StageInv ==
    \E t \in [Paths -> Nodes] :
        /\ After(stream)[Through] = {t} /\ Shaped(stream, t)
        /\ reader.pc = "remove" => fs = Made(t, Entry.path)
        /\ reader.pc = "place" => fs = Cleared(t, Entry.path)
        /\ reader.pc \notin {"remove", "place"} => Agrees(stream, t, fs, Waiting)

\* What the calls of a worker leave is there for the next.
CallOK(w) ==
    /\ worker[w].pc \in {"remove", "create"} /\ Len(Job(w).path) = 2 =>
          fs[Parent(Job(w).path)] = Dir
    /\ worker[w].pc = "create" => fs[Job(w).path] = None

\* The content of the file of entry k is there, or about to be.
WrittenOK(k) ==
    \/ data[k] = k
    \/ \E w \in Workers : worker[w].pc = "write" /\ Job(w).k = k
    \/ reader.pc = "copy" /\ reader.k = k

WrittenInv == \A p \in Paths : \A k \in Entries : fs[p] = File(k) => WrittenOK(k)

Clean == ~failed /\ ~reader.err

CleanInv ==
    /\ OrderInv /\ Shaped(stream, fs) /\ StageInv /\ WrittenInv
    /\ \A w \in Workers : CallOK(w)
    /\ reader.pc \in {"close", "stop", "returned"} => reader.k = Len(stream)

\* While nothing has failed the pool is where the serial loop would be, but for
\* the jobs that wait; without faults of the machine it fails only where the
\* serial loop would; and it does not lose the workers' error.
SerialInv ==
    TreeShaped(stream) =>
        /\ Clean => CleanInv
        /\ ~Clean /\ ~faults => Serial(stream) = {}
        /\ reader.pc = "returned" /\ failed => reader.err

-----------------------------------------------------------------------------
(***************************************************************************)
(* The jobs in line.                                                       *)
(***************************************************************************)
LEMMA LineFirst ==
    ASSUME WorkersInv, NEW w \in Workers, Busy(w)
    PROVE  1 \in 1..Len(Line(w)) /\ Line(w)[1] = Job(w) /\ Job(w) \in JobType
<1> DEFINE q == queue[w]
           h == <<Job(w)>>
<1>1. q \in Seq(JobType) /\ Job(w) \in JobType
  BY DEF WorkersInv, Job
<1>2. h \in Seq(JobType) /\ Len(h) = 1 /\ h[1] = Job(w)
  BY <1>1
<1>3. Line(w) = h \o q
  BY DEF Line
<1> HIDE DEF q, h
<1>4. /\ Len(h \o q) = Len(h) + Len(q) /\ Len(q) \in Nat
      /\ \A i \in 1..Len(h) + Len(q) :
            (h \o q)[i] = IF i <= Len(h) THEN h[i] ELSE q[i - Len(h)]
  <2>1. h \in Seq(JobType) /\ q \in Seq(JobType)
    BY <1>1, <1>2
  <2>2. Len(q) \in Nat
    BY <2>1, LenProperties
  <2> QED
    BY <2>1, <2>2, ConcatProperties, Zenon
<1>5. 1 \in 1..Len(h) + Len(q) /\ 1 <= Len(h)
  BY <1>2, <1>4
<1> QED
  BY <1>1, <1>2, <1>3, <1>4, <1>5

\* The job in hand is a file of the archive.
LEMMA JobIs ==
    ASSUME PoolInv, OrderInv, TreeShaped(stream), NEW w \in Workers, Busy(w)
    PROVE  /\ Job(w).k \in Entries /\ IsJob(Job(w), w)
           /\ Rooted(stream, Job(w).path) /\ ~IsFolder(stream, Job(w).path)
<1>1. WorkersInv /\ stream \in Streams
  BY DEF PoolInv
<1>2. 1 \in 1..Len(Line(w)) /\ Line(w)[1] = Job(w) /\ Job(w) \in JobType
  BY <1>1, LineFirst
<1>3. IsJob(Job(w), w)
  BY <1>2 DEF OrderInv
<1>4. Job(w).k \in Entries
  BY <1>2 DEF JobType
<1>5. stream[Job(w).k].type = "file" /\ Job(w).path = stream[Job(w).k].path
  BY <1>3 DEF IsJob
<1>6. Rooted(stream, stream[Job(w).k].path)
  BY <1>1, <1>4, <1>5, EntryIs
<1>7. ~IsFolder(stream, stream[Job(w).k].path)
  BY <1>4, <1>5 DEF TreeShaped, Entries
<1> QED
  BY <1>3, <1>4, <1>5, <1>6, <1>7

\* Workers in hand of different jobs touch different paths.
LEMMA JobsApart ==
    ASSUME PoolInv, OrderInv, TreeShaped(stream), NEW w \in Workers, NEW v \in Workers,
           Busy(w), Busy(v), v # w
    PROVE  Job(v).path # Job(w).path
  BY JobIs DEF IsJob

LEMMA WaitingIs ==
    ASSUME PoolInv, NEW k \in Waiting
    PROVE  k \in Entries /\ k <= reader.k
<1>1. PICK w \in Workers : \E i \in WaitsIn(w) : k = Line(w)[i].k
  BY DEF Waiting, Waits
<1>2. PICK i \in 1..Len(Line(w)) : k = Line(w)[i].k
  BY <1>1 DEF WaitsIn
<1>3. WorkersInv /\ LinesInv
  BY DEF PoolInv
<1>4. Line(w)[i] \in JobType
  BY <1>3, LineIs
<1> QED
  BY <1>2, <1>3, <1>4 DEF JobType, LinesInv

LEMMA WaitingEmpty ==
    ASSUME PoolInv, pending = 0
    PROVE  Waiting = {} /\ \A w \in Workers : ~Busy(w)
<1>1. \A w \in Workers : queue[w] = <<>> /\ ~Busy(w)
  BY NothingPending
<1>2. \A w \in Workers : Line(w) = <<>>
  BY <1>1 DEF Line
<1>3. \A w \in Workers : Len(Line(w)) = 0
  BY <1>2
<1>4. \A w \in Workers : WaitsIn(w) = {}
  BY <1>3 DEF WaitsIn
<1> QED
  BY <1>1, <1>4 DEF Waiting, Waits

\* Before its file is in its place the job in hand waits.
LEMMA JobWaits ==
    ASSUME PoolInv, NEW w \in Workers, Busy(w), ~Placed(w)
    PROVE  Job(w).k \in Waiting
<1>1. 1 \in 1..Len(Line(w)) /\ Line(w)[1] = Job(w)
  BY LineFirst DEF PoolInv
<1>2. 1 \in WaitsIn(w)
  BY <1>1 DEF WaitsIn
<1> QED
  BY <1>1, <1>2 DEF Waiting, Waits

\* The jobs that wait change only with the lines.
LEMMA WaitingKept ==
    ASSUME \A w \in Workers : Line(w)' = Line(w) /\ (Placed(w)' <=> Placed(w))
    PROVE  Waiting' = Waiting
<1>1. \A w \in Workers : Waits(w)' = Waits(w)
  BY DEF WaitsIn, Waits
<1> QED
  BY <1>1 DEF Waiting

LEMMA OrderKept ==
    ASSUME OrderInv, \A w \in Workers : Line(w)' = Line(w), stream' = stream, shard' = shard
    PROVE  OrderInv'
<1>1. \A w \in Workers : \A j : IsJob(j, w)' <=> IsJob(j, w)
  BY DEF IsJob
<1> QED
  BY <1>1 DEF OrderInv, IsJob

-----------------------------------------------------------------------------
(***************************************************************************)
(* The steps of the reader.                                                *)
(***************************************************************************)
\* A step keeps the invariant, or fails where it may.
Kept ==
    /\ Clean' => CleanInv'
    /\ ~Clean' /\ ~faults => Serial(stream) = {}

LEMMA StaysClean ==
    ASSUME Clean, failed' = failed, reader'.err = reader.err, CleanInv'
    PROVE  Kept
<1>1. Clean'
  BY DEF Clean
<1> QED
  BY <1>1 DEF Kept

LEMMA BreakFails ==
    ASSUME ReaderInv, Break
    PROVE  ~Clean'
<1>1. ASSUME NEW a, NEW b, NEW c
      PROVE  [[pc |-> a, k |-> b, err |-> c] EXCEPT !.pc = "close", !.err = TRUE].err = TRUE
  OBVIOUS
<1>2. reader'.err = TRUE
  BY <1>1 DEF Break, ReaderInv
<1> QED
  BY <1>2 DEF Clean

\* A step of the reader that leaves the workers and their jobs alone.
LEMMA ReaderFrame ==
    ASSUME OrderInv, UNCHANGED <<stream, shard, queue, worker>>
    PROVE  OrderInv' /\ Waiting' = Waiting
<1>1. \A w \in Workers : Line(w)' = Line(w)
  BY LineKept
<1>2. \A w \in Workers : Placed(w)' <=> Placed(w)
  BY DEF Placed
<1> QED
  BY <1>1, <1>2, OrderKept, WaitingKept

\* A step of the reader that leaves the directory alone, too.
LEMMA StillFrame ==
    ASSUME CleanInv, UNCHANGED <<stream, shard, queue, worker, fs, data>>,
           reader.pc \notin {"remove", "place", "copy"},
           reader'.pc \notin {"remove", "place"},
           After(stream)[Through'] = After(stream)[Through],
           reader'.pc \in {"close", "stop", "returned"} => reader'.k = Len(stream)
    PROVE  CleanInv'
<1>1. OrderInv' /\ Waiting' = Waiting
  BY ReaderFrame DEF CleanInv
<1>2. Nodes' = Nodes /\ Entries' = Entries
  BY DEF Nodes, Entries
<1>3. Shaped(stream, fs)'
  BY DEF CleanInv
<1>4. StageInv'
  <2>1. PICK t \in [Paths -> Nodes] :
          /\ After(stream)[Through] = {t} /\ Shaped(stream, t)
          /\ Agrees(stream, t, fs, Waiting)
    BY DEF CleanInv, StageInv
  <2>2. /\ t \in [Paths -> Nodes'] /\ After(stream')[Through'] = {t} /\ Shaped(stream', t)
        /\ Agrees(stream', t, fs', Waiting')
    BY <1>1, <1>2, <2>1
  <2> QED
    BY <2>2 DEF StageInv
<1>5. WrittenInv'
  <2> SUFFICES ASSUME NEW p \in Paths, NEW k \in Entries, fs[p] = File(k)
               PROVE  WrittenOK(k)'
    BY <1>2 DEF WrittenInv
  <2>1. WrittenOK(k)
    BY DEF CleanInv, WrittenInv
  <2> QED
    BY <2>1 DEF WrittenOK, Job
<1>6. \A w \in Workers : CallOK(w)'
  BY DEF CleanInv, CallOK, Job
<1> QED
  BY <1>1, <1>3, <1>4, <1>5, <1>6 DEF CleanInv

LEMMA HeaderSerial ==
    ASSUME PoolInv, TreeShaped(stream), Clean, CleanInv, ReadHeader
    PROVE  Kept
<1>1. /\ reader.pc = "next" /\ UNCHANGED <<stream, shard, queue, worker, fs, data, failed>>
  BY DEF ReadHeader, input, poolVars
<1>2. ReaderInv /\ stream \in Streams
  BY DEF PoolInv
<1>3. Len(stream) \in Nat /\ reader.k \in 0..Len(stream)
  BY <1>2, PoolAssumption DEF ReaderInv
<1>4. Through = reader.k
  BY <1>1 DEF Through, Handlers
<1>5. CASE reader.k = Len(stream)
  <2>1. Goto("close")
    BY <1>5 DEF ReadHeader, Goto
  <2>2. reader'.pc = "close" /\ reader'.k = reader.k /\ reader'.err = reader.err
    BY <1>2, <2>1, GotoIs
  <2>3. Through' = reader.k
    BY <2>2 DEF Through, Handlers
  <2>4. CleanInv'
    BY <1>1, <1>4, <1>5, <2>2, <2>3, StillFrame
  <2> QED
    BY <1>1, <2>2, <2>4, StaysClean
<1>6. CASE reader.k # Len(stream)
  <2> DEFINE k1 == reader.k + 1
             h == Handling(stream[k1])
  <2>1. reader' = [pc |-> h, k |-> k1, err |-> reader.err]
    BY <1>2, <1>6, HeaderIs
  <2>2. k1 \in Entries /\ k1 \in 1..Len(stream) /\ k1 - 1 = reader.k
    BY <1>3, <1>6 DEF Entries
  <2>3. stream[k1].type \in {"file", "big", "dir", "sym", "link", "skip"}
    BY <1>2, <2>2, EntryIs
  <2>4. /\ h \in {"next", "mkdirall", "dispatch", "flush"}
        /\ h = "next" => stream[k1].type = "skip"
    BY <2>3 DEF Handling
  <2> HIDE DEF h, k1
  <2>5. reader'.pc = h /\ reader'.k = k1 /\ reader'.err = reader.err
    BY <2>1
  <2>6. After(stream)[Through'] = After(stream)[Through]
    <3>1. CASE h = "next"
      <4>1. Through' = k1
        BY <2>5, <3>1 DEF Through, Handlers
      <4>2. PICK t \in [Paths -> Nodes] : After(stream)[Through] = {t}
        BY DEF CleanInv, StageInv
      <4>3. After(stream)[k1] = Grown(stream, k1, {t})
        <5>1. After(stream)[k1] = Grown(stream, k1, After(stream)[k1 - 1])
          BY <1>3, <2>2, AfterIs
        <5> QED
          BY <1>4, <2>2, <4>2, <5>1
      <4>4. Apply(t, stream[k1], k1) = {t}
        BY <2>4, <3>1 DEF Apply
      <4>5. Grown(stream, k1, {t}) = {t}
        BY <4>4 DEF Grown
      <4> QED
        BY <1>4, <4>1, <4>2, <4>3, <4>5
    <3>2. CASE h # "next"
      <4>1. Through' = k1 - 1
        BY <2>4, <2>5, <3>2 DEF Through, Handlers
      <4> QED
        BY <1>4, <2>2, <4>1
    <3> QED
      BY <3>1, <3>2
  <2>7. CleanInv'
    BY <1>1, <2>4, <2>5, <2>6, StillFrame
  <2> QED
    BY <1>1, <2>5, <2>7, StaysClean
<1> QED
  BY <1>5, <1>6

LEMMA StillSerial ==
    ASSUME PoolInv, TreeShaped(stream), Clean, CleanInv,
           ReadFails \/ Dispatch \/ Flush \/ Close \/ Return
    PROVE  Kept
<1>1. ReaderInv /\ ~failed
  BY DEF PoolInv, Clean
<1>2. CASE ReadFails
  <2>1. faults /\ Break
    BY <1>2 DEF ReadFails
  <2> QED
    BY <1>1, <2>1, BreakFails DEF Kept
<1>3. ASSUME NEW pc, NEW next, reader.pc = pc, Goto(next),
             UNCHANGED <<stream, shard, queue, worker, fs, data, failed>>,
             \/ pc = "dispatch" /\ next = "send"
             \/ pc = "flush" /\ next = "mkdir"
             \/ pc = "close" /\ next = "stop"
      PROVE  Kept
  <2>1. reader'.pc = next /\ reader'.k = reader.k /\ reader'.err = reader.err
    BY <1>1, <1>3, GotoIs
  <2>2. Through' = Through
    BY <1>3, <2>1 DEF Through, Handlers
  <2>3. next = "stop" => reader.k = Len(stream)
    BY <1>3 DEF CleanInv
  <2>4. CleanInv'
    BY <1>3, <2>1, <2>2, <2>3, StillFrame
  <2> QED
    BY <1>3, <2>1, <2>4, StaysClean
<1>4. CASE Dispatch
  <2>1. /\ reader.pc = "dispatch" /\ Goto("send")
        /\ UNCHANGED <<stream, shard, queue, worker, fs, data, failed>>
    BY <1>1, <1>4 DEF Dispatch, input
  <2> QED
    BY <1>3, <2>1
<1>5. CASE Flush
  <2>1. /\ reader.pc = "flush" /\ Goto("mkdir")
        /\ UNCHANGED <<stream, shard, queue, worker, fs, data, failed>>
    BY <1>1, <1>5 DEF Flush, input, poolVars
  <2> QED
    BY <1>3, <2>1
<1>6. CASE Close
  <2>1. /\ reader.pc = "close" /\ Goto("stop")
        /\ UNCHANGED <<stream, shard, queue, worker, fs, data, failed>>
    BY <1>6 DEF Close, input, poolVars
  <2> QED
    BY <1>3, <2>1
<1>7. CASE Return
  <2>1. /\ reader.pc = "stop"
        /\ UNCHANGED <<stream, shard, queue, worker, fs, data, failed>>
    BY <1>7 DEF Return, input, poolVars
  <2>2. reader' = [pc |-> "returned", k |-> reader.k, err |-> reader.err \/ failed]
    BY <1>1, <1>7, ReturnIs
  <2>3. reader'.pc = "returned" /\ reader'.k = reader.k /\ reader'.err = (reader.err \/ failed)
    BY <2>2
  <2>4. Through' = Through
    BY <2>1, <2>3 DEF Through, Handlers
  <2>5. reader.k = Len(stream)
    BY <2>1 DEF CleanInv
  <2>6. CleanInv'
    BY <2>1, <2>3, <2>4, <2>5, StillFrame
  <2>7. ~reader'.err /\ ~failed'
    BY <2>1, <2>3 DEF Clean
  <2> QED
    BY <2>6, <2>7 DEF Kept, Clean
<1> QED
  BY <1>2, <1>4, <1>5, <1>6, <1>7

\* The job joins those that wait, and the entry is done for the serial loop.
LEMMA SendSerial ==
    ASSUME PoolInv, TreeShaped(stream), Clean, CleanInv, Send
    PROVE  Kept
<1>0. PICK w, b, job : /\ w = shard[Entry.path]
                       /\ b = CHOOSE x \in Bufs \ free : buf[x] = reader.k
                       /\ job = [k |-> reader.k, path |-> Entry.path, buf |-> b]
  OBVIOUS
<1>1. /\ ReaderInv /\ WorkersInv /\ LinesInv /\ stream \in Streams
      /\ shard \in [{stream[k].path : k \in {i \in Entries : stream[i].type = "file"}}
                    -> Workers]
  BY DEF PoolInv
<1>2. /\ reader.pc = "send" /\ Goto("next")
      /\ queue' = [queue EXCEPT ![w] = Append(queue[w], job)]
      /\ UNCHANGED <<stream, shard, worker, fs, data, failed>>
  BY <1>0 DEF Send, input
<1>3. reader.k \in Entries /\ Entry = stream[reader.k] /\ stream[reader.k].type = "file"
  BY <1>1, <1>2 DEF ReaderInv, Handlers, Entry
<1>4. w \in Workers
  BY <1>0, <1>1, <1>3
<1>5. b \in Bufs
  <2>1. \E x \in Bufs \ free : buf[x] = reader.k
    BY <1>1, <1>2 DEF LinesInv
  <2> QED
    BY <2>1, <1>0
<1>6. Len(stream) \in Nat /\ stream[reader.k].path \in Paths
  BY <1>1, <1>3, EntryIs
<1>7. job \in JobType /\ job.k = reader.k /\ IsJob(job, w)
  BY <1>0, <1>3, <1>5, <1>6 DEF JobType, IsJob
<1>8. reader'.pc = "next" /\ reader'.k = reader.k /\ reader'.err = reader.err
  BY <1>1, <1>2, GotoIs
<1>9. /\ queue'[w] = Append(queue[w], job)
      /\ \A v \in Workers \ {w} : queue'[v] = queue[v]
  BY <1>1, <1>2, <1>4 DEF WorkersInv
<1>10. Line(w)' = Append(Line(w), job)
  BY <1>1, <1>2, <1>4, <1>7, <1>9, LineSend
<1>11. \A v \in Workers \ {w} : Line(v)' = Line(v)
  BY <1>2, <1>9, LineKept
<1> DEFINE n == Len(Line(w))
<1>12. /\ n \in Nat /\ Len(Line(w)') = n + 1 /\ Line(w)'[n + 1] = job
       /\ \A i \in 1..n : Line(w)'[i] = Line(w)[i]
  <2>1. Line(w) \in Seq(JobType)
    BY <1>1, <1>4, LineIs
  <2> QED
    BY <1>7, <1>10, <2>1
<1> HIDE DEF n
<1>13. \A v \in Workers : \A i \in 1..Len(Line(v)) : Line(v)[i].k \in Nat /\ Line(v)[i].k < reader.k
  <2> SUFFICES ASSUME NEW v \in Workers, NEW i \in 1..Len(Line(v))
               PROVE  Line(v)[i].k \in Nat /\ Line(v)[i].k < reader.k
    OBVIOUS
  <2>1. Line(v)[i].k \in Entries
    BY <1>1, LineIs DEF JobType
  <2>2. Line(v)[i].k <= reader.k /\ Line(v)[i].k # reader.k
    BY <1>1, <1>2 DEF LinesInv
  <2> QED
    BY <1>3, <1>6, <2>1, <2>2 DEF Entries
<1>14. OrderInv'
  <2> SUFFICES ASSUME NEW v \in Workers
               PROVE  /\ \A i \in 1..Len(Line(v)') : IsJob(Line(v)'[i], v)
                      /\ \A i, j \in 1..Len(Line(v)') : i < j => Line(v)'[i].k < Line(v)'[j].k
    BY <1>2 DEF OrderInv, IsJob
  <2>1. /\ \A i \in 1..Len(Line(v)) : IsJob(Line(v)[i], v)
        /\ \A i, j \in 1..Len(Line(v)) : i < j => Line(v)[i].k < Line(v)[j].k
    BY DEF CleanInv, OrderInv
  <2>2. CASE v # w
    BY <1>11, <2>1, <2>2
  <2>3. CASE v = w
    <3>1. ASSUME NEW i \in 1..n + 1
          PROVE  IsJob(Line(w)'[i], w)
      <4>1. CASE i \in 1..n
        BY <1>12, <2>1, <2>3, <4>1 DEF n
      <4>2. CASE i = n + 1
        BY <1>7, <1>12, <4>2
      <4> QED
        BY <1>12, <4>1, <4>2
    <3>2. ASSUME NEW i \in 1..n + 1, NEW j \in 1..n + 1, i < j
          PROVE  Line(w)'[i].k < Line(w)'[j].k
      <4>1. i \in 1..n /\ (j \in 1..n \/ j = n + 1)
        BY <1>12, <3>2
      <4>2. CASE j \in 1..n
        BY <1>12, <2>1, <2>3, <3>2, <4>1, <4>2 DEF n
      <4>3. CASE j = n + 1
        BY <1>4, <1>7, <1>12, <1>13, <4>1, <4>3 DEF n
      <4> QED
        BY <4>1, <4>2, <4>3
    <3> QED
      BY <1>12, <2>3, <3>1, <3>2
  <2> QED
    BY <2>2, <2>3
<1>15. Waiting' = Waiting \union {reader.k}
  <2>1. \A v \in Workers : Placed(v)' <=> Placed(v)
    BY <1>2 DEF Placed
  <2>2. \A v \in Workers \ {w} : Waits(v)' = Waits(v)
    BY <1>11, <2>1 DEF WaitsIn, Waits
  <2>3. n + 1 \in WaitsIn(w)' /\ \A i \in WaitsIn(w) : i \in 1..n /\ i \in WaitsIn(w)'
    <3>1. Placed(w) => n # 0
      <4>1. Placed(w) => Busy(w)
        BY DEF Placed, Busy
      <4> QED
        BY <1>1, <1>4, <1>12, <4>1, LineFirst DEF n
    <3> QED
      BY <1>12, <2>1, <1>4, <3>1 DEF WaitsIn, n
  <2>4. \A i \in WaitsIn(w)' : i = n + 1 \/ (i \in 1..n /\ i \in WaitsIn(w))
    BY <1>4, <1>12, <2>1 DEF WaitsIn, n
  <2>5. ASSUME NEW k \in Waiting' PROVE k \in Waiting \/ k = reader.k
    <3>1. PICK v \in Workers : k \in Waits(v)'
      BY DEF Waiting
    <3>2. CASE v # w
      BY <2>2, <3>1, <3>2 DEF Waiting
    <3>3. CASE v = w
      <4>1. PICK i \in WaitsIn(w)' : k = Line(w)'[i].k
        BY <3>1, <3>3 DEF Waits
      <4>2. CASE i = n + 1
        BY <1>7, <1>12, <4>1, <4>2
      <4>3. CASE i \in 1..n /\ i \in WaitsIn(w)
        BY <1>4, <1>12, <4>1, <4>3 DEF Waiting, Waits
      <4> QED
        BY <2>4, <4>2, <4>3
    <3> QED
      BY <3>2, <3>3
  <2>6. ASSUME NEW k \in Waiting PROVE k \in Waiting'
    <3>1. PICK v \in Workers : k \in Waits(v)
      BY DEF Waiting
    <3>2. CASE v # w
      BY <2>2, <3>1, <3>2 DEF Waiting
    <3>3. CASE v = w
      <4>1. PICK i \in WaitsIn(w) : k = Line(w)[i].k
        BY <3>1, <3>3 DEF Waits
      <4>2. i \in WaitsIn(w)' /\ Line(w)'[i] = Line(w)[i]
        BY <1>12, <2>3
      <4> QED
        BY <1>4, <4>1, <4>2 DEF Waiting, Waits
    <3> QED
      BY <3>2, <3>3
  <2>7. reader.k \in Waiting'
    BY <1>4, <1>7, <1>12, <2>3 DEF Waiting, Waits
  <2> QED
    BY <2>5, <2>6, <2>7
<1>16. Nodes' = Nodes /\ Entries' = Entries
  BY <1>2 DEF Nodes, Entries
<1>17. StageInv'
  <2>1. PICK t \in [Paths -> Nodes] :
          /\ After(stream)[Through] = {t} /\ Shaped(stream, t)
          /\ Agrees(stream, t, fs, Waiting)
    BY <1>2 DEF CleanInv, StageInv
  <2>2. Through = reader.k - 1 /\ Through' = reader.k
    BY <1>2, <1>8 DEF Through, Handlers
  <2> DEFINE p == stream[reader.k].path
  <2>3. PICK x \in [Paths -> Nodes] :
          /\ Apply(t, stream[reader.k], reader.k) = {x}
          /\ FileIn(stream, reader.k, t, x)
    BY <1>1, <1>3, <2>1, ApplyFile
  <2>4. After(stream)[reader.k] = {x}
    <3>1. After(stream)[reader.k] = Grown(stream, reader.k, After(stream)[reader.k - 1])
      BY <1>3, <1>6, AfterIs DEF Entries
    <3> QED
      BY <2>1, <2>2, <2>3, <3>1 DEF Grown
  <2>5. Rooted(stream, p) /\ ~IsFolder(stream, p)
    BY <1>1, <1>3, EntryIs DEF TreeShaped, Entries
  <2>6. reader.k <= reader.k /\ \A l \in Waiting : l <= reader.k
    BY <1>3, <1>6, WaitingIs DEF Entries
  <2>7. Agrees(stream, x, fs, Waiting \union {reader.k})
    BY <2>1, <2>3, <2>5, <2>6, AgreesSend
  <2>8. /\ x \in [Paths -> Nodes'] /\ After(stream')[Through'] = {x} /\ Shaped(stream', x)
        /\ Agrees(stream', x, fs', Waiting')
    BY <1>2, <1>15, <1>16, <2>2, <2>3, <2>4, <2>7 DEF FileIn
  <2> QED
    BY <1>8, <2>8 DEF StageInv
<1>18. WrittenInv'
  <2> SUFFICES ASSUME NEW p \in Paths, NEW k \in Entries, fs[p] = File(k)
               PROVE  WrittenOK(k)'
    BY <1>2, <1>16 DEF WrittenInv
  <2>1. WrittenOK(k)
    BY DEF CleanInv, WrittenInv
  <2> QED
    BY <1>2, <2>1 DEF WrittenOK, Job
<1>19. \A v \in Workers : CallOK(v)'
  BY <1>2 DEF CleanInv, CallOK, Job
<1>20. Shaped(stream, fs)'
  BY <1>2 DEF CleanInv
<1>21. CleanInv'
  BY <1>8, <1>14, <1>17, <1>18, <1>19, <1>20 DEF CleanInv
<1> QED
  BY <1>2, <1>8, <1>21, StaysClean

\* A call of the reader fails for no reason of its own, or as the serial
\* loop's would.
LEMMA InlineSplit ==
    ASSUME ReaderInv, Clean, NEW pc, NEW trees, NEW next, Inline(pc, trees, next),
           trees = {} => Serial(stream) = {},
           fs' \in trees /\ Goto(next) => CleanInv'
    PROVE  Kept
<1>1. CASE fs' \in trees /\ Goto(next)
  <2>1. reader'.err = reader.err
    BY <1>1, GotoIs
  <2>2. failed' = failed
    BY DEF Inline, poolVars
  <2> QED
    BY <1>1, <2>1, <2>2, StaysClean
<1>2. CASE (trees = {} \/ faults) /\ Break
  <2>1. ~Clean'
    BY <1>2, BreakFails
  <2> QED
    BY <1>2, <2>1 DEF Kept
<1>3. \/ fs' \in trees /\ Goto(next)
      \/ (trees = {} \/ faults) /\ Break
  BY DEF Inline
<1> QED
  BY <1>1, <1>2, <1>3

LEMMA CallFrame ==
    ASSUME PoolInv, CleanInv, NEW v \in Workers, worker'[v] = worker[v],
           \A q \in Paths : fs[q] = Dir => fs'[q] = Dir,
           Busy(v) => fs'[Job(v).path] = fs[Job(v).path]
    PROVE  CallOK(v)'
<1>1. CallOK(v) /\ WorkersInv /\ Job(v)' = Job(v)
  BY DEF CleanInv, PoolInv, Job
<1>2. CASE Busy(v)
  <2>1. Job(v).path \in Paths
    BY <1>1, <1>2, LineFirst DEF JobType
  <2>2. Parent(Job(v).path) \in Paths
    BY <2>1, ParentIs
  <2> QED
    BY <1>1, <1>2, <2>2 DEF CallOK
<1>3. CASE ~Busy(v)
  BY <1>3 DEF CallOK, Busy
<1> QED
  BY <1>2, <1>3

LEMMA WrittenFrame ==
    ASSUME CleanInv, stream' = stream,
           \A p \in Paths : \A k \in Entries : fs'[p] = File(k) =>
              (\E q \in Paths : fs[q] = File(k)) \/ WrittenOK(k)',
           \A k \in Entries : WrittenOK(k) => WrittenOK(k)'
    PROVE  WrittenInv'
<1>1. Entries' = Entries
  BY DEF Entries
<1> SUFFICES ASSUME NEW p \in Paths, NEW k \in Entries, fs'[p] = File(k)
             PROVE  WrittenOK(k)'
  BY <1>1 DEF WrittenInv
<1>2. CASE \E q \in Paths : fs[q] = File(k)
  BY <1>2 DEF CleanInv, WrittenInv
<1>3. CASE WrittenOK(k)'
  BY <1>3
<1> QED
  BY <1>2, <1>3

\* The steps of the reader that call on the directory.
LEMMA InlineDirSerial ==
    ASSUME PoolInv, TreeShaped(stream), Clean, CleanInv, InlineDir
    PROVE  Kept
<1> DEFINE p == Entry.path
<1>1. /\ reader.pc = "mkdirall" /\ Inline("mkdirall", MkdirAll(fs, p), "next")
      /\ UNCHANGED <<stream, shard, queue, worker, data>>
  BY DEF InlineDir, Inline, input, poolVars
<1>2. ReaderInv /\ stream \in Streams /\ fs \in [Paths -> Nodes] /\ Shaped(stream, fs)
  BY DEF PoolInv, CleanInv
<1>3. reader.k \in Entries /\ Entry = stream[reader.k] /\ stream[reader.k].type = "dir"
  BY <1>1, <1>2 DEF ReaderInv, Handlers, Entry
<1>4. Rooted(stream, p) /\ IsFolder(stream, p) /\ Len(stream) \in Nat
  BY <1>2, <1>3, EntryIs
<1> DEFINE y == [Made(fs, p) EXCEPT ![p] = Dir]
<1>5. /\ MkdirAll(fs, p) = {y} /\ y \in [Paths -> Nodes] /\ Shaped(stream, y)
      /\ \A q \in Paths :
            y[q] = IF q = p \/ (Len(p) = 2 /\ q = Parent(p)) THEN Dir ELSE fs[q]
  <2> HIDE DEF p
  <2> QED
    BY <1>2, <1>4, MkdirAllIs
<1> HIDE DEF y
<1>6. ASSUME fs' = y, Goto("next") PROVE CleanInv'
  <2>1. reader'.pc = "next" /\ reader'.k = reader.k
    BY <1>2, <1>6, GotoIs
  <2>2. OrderInv' /\ Waiting' = Waiting
    BY <1>1, ReaderFrame DEF CleanInv
  <2>3. Nodes' = Nodes
    BY <1>1 DEF Nodes, Entries
  <2>4. StageInv'
    <3>1. PICK t \in [Paths -> Nodes] :
            /\ After(stream)[Through] = {t} /\ Shaped(stream, t)
            /\ Agrees(stream, t, fs, Waiting)
      BY <1>1 DEF CleanInv, StageInv
    <3>2. Through = reader.k - 1 /\ Through' = reader.k
      BY <1>1, <2>1 DEF Through, Handlers
    <3> DEFINE x == [Made(t, p) EXCEPT ![p] = Dir]
    <3>3. /\ MkdirAll(t, p) = {x} /\ x \in [Paths -> Nodes] /\ Shaped(stream, x)
          /\ \A q \in Paths :
                x[q] = IF q = p \/ (Len(p) = 2 /\ q = Parent(p)) THEN Dir ELSE t[q]
      <4>1. Shaped(stream, t) /\ Rooted(stream, p) /\ IsFolder(stream, p)
        BY <1>4, <3>1
      <4> HIDE DEF p
      <4> QED
        BY <4>1, MkdirAllIs
    <3> HIDE DEF x
    <3>4. Apply(t, stream[reader.k], reader.k) = {x}
      <4>1. \A e, k : e.type = "dir" => Apply(t, e, k) = MkdirAll(t, e.path)
        BY DEF Apply
      <4> QED
        BY <1>3, <3>3, <4>1
    <3>5. After(stream)[reader.k] = {x}
      <4>1. After(stream)[reader.k] = Grown(stream, reader.k, After(stream)[reader.k - 1])
        BY <1>3, <1>4, AfterIs DEF Entries
      <4> QED
        BY <3>1, <3>2, <3>4, <4>1 DEF Grown
    <3>6. Agrees(stream, x, y, Waiting)
      <4> HIDE DEF p
      <4> QED
        BY <1>4, <1>5, <3>1, <3>3, AgreesDir
    <3>7. /\ x \in [Paths -> Nodes'] /\ After(stream')[Through'] = {x} /\ Shaped(stream', x)
          /\ Agrees(stream', x, fs', Waiting')
      BY <1>1, <1>6, <2>2, <2>3, <3>2, <3>3, <3>5, <3>6
    <3> QED
      BY <2>1, <3>7 DEF StageInv
  <2>5. WrittenInv'
    <3>1. \A q \in Paths : \A k \in Entries : y[q] = File(k) => fs[q] = File(k)
      BY <1>5, NodeIs
    <3>2. \A k \in Entries : WrittenOK(k) => WrittenOK(k)'
      BY <1>1 DEF WrittenOK, Job
    <3> QED
      BY <1>1, <1>6, <3>1, <3>2, WrittenFrame
  <2>6. ASSUME NEW v \in Workers PROVE CallOK(v)'
    <3>1. \A q \in Paths : fs[q] = Dir => y[q] = Dir
      BY <1>5
    <3>2. Busy(v) => y[Job(v).path] = fs[Job(v).path]
      <4> SUFFICES ASSUME Busy(v) PROVE y[Job(v).path] = fs[Job(v).path]
        OBVIOUS
      <4>1. Job(v).path \in Paths /\ ~IsFolder(stream, Job(v).path)
        BY JobIs DEF CleanInv, Rooted
      <4> QED
        BY <1>4, <1>5, <4>1 DEF Rooted
    <3> QED
      BY <1>1, <1>6, <3>1, <3>2, CallFrame
  <2>7. Shaped(stream, fs)'
    BY <1>1, <1>5, <1>6
  <2> QED
    BY <2>1, <2>2, <2>4, <2>5, <2>6, <2>7 DEF CleanInv
<1>7. MkdirAll(fs, p) # {} /\ \A z \in MkdirAll(fs, p) : z = y
  BY <1>5
<1> QED
  BY <1>1, <1>2, <1>6, <1>7, InlineSplit

\* Behind the barrier the workers are idle and nothing waits.
LEMMA BehindBarrier ==
    ASSUME PoolInv, OrderInv, reader.pc \in {"mkdir", "remove", "place", "copy"},
           UNCHANGED <<stream, shard, queue, worker>>
    PROVE  /\ Waiting = {} /\ Waiting' = {} /\ OrderInv'
           /\ \A w \in Workers : CallOK(w)'
<1>1. pending = 0
  BY DEF PoolInv, BarrierInv
<1>2. Waiting = {} /\ \A w \in Workers : ~Busy(w)
  BY <1>1, WaitingEmpty
<1>3. Waiting' = Waiting /\ OrderInv'
  BY ReaderFrame
<1>4. \A w \in Workers : CallOK(w)'
  BY <1>2 DEF CallOK, Busy
<1> QED
  BY <1>2, <1>3, <1>4

LEMMA InlineMkdirSerial ==
    ASSUME PoolInv, TreeShaped(stream), Clean, CleanInv, InlineMkdir
    PROVE  Kept
<1> DEFINE p == Entry.path
           y == Made(fs, p)
<1>1. /\ reader.pc = "mkdir" /\ Inline("mkdir", MkdirParent(fs, p), "remove")
      /\ UNCHANGED <<stream, shard, queue, worker, data>>
  BY DEF InlineMkdir, Inline, input, poolVars
<1>2. ReaderInv /\ stream \in Streams /\ fs \in [Paths -> Nodes] /\ Shaped(stream, fs)
  BY DEF PoolInv, CleanInv
<1>3. /\ reader.k \in Entries /\ Entry = stream[reader.k]
      /\ stream[reader.k].type \in {"big", "sym", "link"}
  BY <1>1, <1>2 DEF ReaderInv, Handlers, Entry
<1>4. Rooted(stream, p)
  BY <1>2, <1>3, EntryIs
<1>5. /\ MkdirParent(fs, p) = {y} /\ Shaped(stream, y)
      /\ \A q \in Paths : y[q] = IF Len(p) = 2 /\ q = Parent(p) THEN Dir ELSE fs[q]
  <2> HIDE DEF p
  <2> QED
    BY <1>2, <1>4, MkdirParentIs
<1>6. /\ Waiting = {} /\ OrderInv'
      /\ \A w \in Workers : CallOK(w)'
  BY <1>1, BehindBarrier DEF CleanInv
<1>7. ASSUME fs' = y, Goto("remove") PROVE CleanInv'
  <2>1. reader'.pc = "remove" /\ reader'.k = reader.k
    BY <1>2, <1>7, GotoIs
  <2>2. Nodes' = Nodes /\ Entry' = Entry /\ Through' = Through
    BY <1>1, <2>1 DEF Nodes, Entries, Entry, Through, Handlers
  <2>3. StageInv'
    <3>1. PICK t \in [Paths -> Nodes] :
            /\ After(stream)[Through] = {t} /\ Shaped(stream, t)
            /\ Agrees(stream, t, fs, Waiting)
      BY <1>1 DEF CleanInv, StageInv
    <3>2. fs = t
      BY <1>2, <1>6, <3>1, AgreesSame
    <3>3. /\ t \in [Paths -> Nodes'] /\ After(stream')[Through'] = {t} /\ Shaped(stream', t)
          /\ fs' = Made(t, Entry'.path)
      BY <1>1, <1>7, <2>2, <3>1, <3>2
    <3> QED
      BY <2>1, <3>3 DEF StageInv
  <2> HIDE DEF y, p
  <2>4. WrittenInv'
    <3>1. \A q \in Paths : \A k \in Entries : y[q] = File(k) => fs[q] = File(k)
      BY <1>5, NodeIs
    <3>2. \A k \in Entries : WrittenOK(k) => WrittenOK(k)'
      BY <1>1 DEF WrittenOK, Job
    <3> QED
      BY <1>1, <1>7, <3>1, <3>2, WrittenFrame
  <2>5. Shaped(stream, fs)'
    BY <1>1, <1>5, <1>7
  <2> QED
    BY <1>6, <2>1, <2>3, <2>4, <2>5 DEF CleanInv
<1> HIDE DEF y
<1>8. MkdirParent(fs, p) # {} /\ \A z \in MkdirParent(fs, p) : z = y
  BY <1>5
<1> QED
  BY <1>1, <1>2, <1>7, <1>8, InlineSplit

LEMMA InlineRemoveSerial ==
    ASSUME PoolInv, TreeShaped(stream), Clean, CleanInv, InlineRemove
    PROVE  Kept
<1> DEFINE p == Entry.path
<1>1. /\ reader.pc = "remove" /\ Inline("remove", Remove(fs, p), "place")
      /\ UNCHANGED <<stream, shard, queue, worker, data>>
  BY DEF InlineRemove, Inline, input, poolVars
<1>2. ReaderInv /\ stream \in Streams
  BY DEF PoolInv
<1>3. /\ reader.k \in Entries /\ Entry = stream[reader.k]
      /\ stream[reader.k].type \in {"big", "sym", "link"}
  BY <1>1, <1>2 DEF ReaderInv, Handlers, Entry
<1>4. Rooted(stream, p) /\ ~IsFolder(stream, p) /\ Entry.type \in LeafTypes /\ p \in Paths
  BY <1>2, <1>3, EntryIs DEF TreeShaped, Entries, LeafTypes
<1>5. PICK t \in [Paths -> Nodes] :
        After(stream)[Through] = {t} /\ Shaped(stream, t) /\ fs = Made(t, p)
  BY <1>1 DEF CleanInv, StageInv
<1> DEFINE y == Cleared(t, p)
<1>6. Remove(fs, p) = {y} /\ Shaped(stream, y)
  BY <1>4, <1>5, ApplyLeaf
<1>7. /\ Waiting = {} /\ OrderInv'
      /\ \A w \in Workers : CallOK(w)'
  BY <1>1, BehindBarrier DEF CleanInv
<1>8. ASSUME fs' = y, Goto("place") PROVE CleanInv'
  <2>1. reader'.pc = "place" /\ reader'.k = reader.k
    BY <1>2, <1>8, GotoIs
  <2>2. Nodes' = Nodes /\ Entry' = Entry /\ Through' = Through
    BY <1>1, <2>1 DEF Nodes, Entries, Entry, Through, Handlers
  <2>3. StageInv'
    <3>1. /\ t \in [Paths -> Nodes'] /\ After(stream')[Through'] = {t} /\ Shaped(stream', t)
          /\ fs' = Cleared(t, Entry'.path)
      BY <1>1, <1>5, <1>8, <2>2
    <3> QED
      BY <2>1, <3>1 DEF StageInv
  <2>4. WrittenInv'
    <3>1. fs \in [Paths -> Nodes] /\ y = [fs EXCEPT ![p] = None]
      BY <1>5 DEF PoolInv, Cleared
    <3>2. \A k \in Entries : None # File(k)
      BY <1>2, PoolAssumption DEF Entries
    <3> HIDE DEF y, p
    <3>3. \A q \in Paths : \A k \in Entries : y[q] = File(k) => fs[q] = File(k)
      BY <3>1, <3>2
    <3>4. \A k \in Entries : WrittenOK(k) => WrittenOK(k)'
      BY <1>1 DEF WrittenOK, Job
    <3> QED
      BY <1>1, <1>8, <3>3, <3>4, WrittenFrame
  <2>5. Shaped(stream, fs)'
    BY <1>1, <1>6, <1>8
  <2> QED
    BY <1>7, <2>1, <2>3, <2>4, <2>5 DEF CleanInv
<1> HIDE DEF y
<1>9. Remove(fs, p) # {} /\ \A z \in Remove(fs, p) : z = y
  BY <1>6
<1> QED
  BY <1>1, <1>2, <1>8, <1>9, InlineSplit

\* The last call of the entry: where it fails the serial loop's fails.
LEMMA InlinePlaceSerial ==
    ASSUME PoolInv, TreeShaped(stream), Clean, CleanInv, InlinePlace
    PROVE  Kept
<1> DEFINE p == Entry.path
           trees == Place(fs, Entry, reader.k)
           next == IF Entry.type = "big" THEN "copy" ELSE "next"
<1>1. /\ reader.pc = "place" /\ Inline("place", trees, next)
      /\ UNCHANGED <<stream, shard, queue, worker, data>>
  BY DEF InlinePlace, Inline, input, poolVars
<1>2. ReaderInv /\ stream \in Streams
  BY DEF PoolInv
<1>3. /\ reader.k \in Entries /\ Entry = stream[reader.k]
      /\ stream[reader.k].type \in {"big", "sym", "link"}
  BY <1>1, <1>2 DEF ReaderInv, Handlers, Entry
<1>4. /\ Rooted(stream, p) /\ ~IsFolder(stream, p) /\ Entry.type \in LeafTypes
      /\ p \in Paths /\ Len(stream) \in Nat
  BY <1>2, <1>3, EntryIs DEF TreeShaped, Entries, LeafTypes
<1>5. PICK t \in [Paths -> Nodes] :
        After(stream)[Through] = {t} /\ Shaped(stream, t) /\ fs = Cleared(t, p)
  BY <1>1 DEF CleanInv, StageInv
<1>6. /\ Apply(t, Entry, reader.k) = trees
      /\ fs \in [Paths -> Nodes] /\ Shaped(stream, fs) /\ fs[p] = None
      /\ Len(p) = 2 => fs[Parent(p)] = Dir
  BY <1>4, <1>5, ApplyLeaf
<1>7. After(stream)[reader.k] = trees
  <2>1. Through = reader.k - 1
    BY <1>1 DEF Through, Handlers
  <2>2. After(stream)[reader.k] = Grown(stream, reader.k, After(stream)[reader.k - 1])
    BY <1>3, <1>4, AfterIs DEF Entries
  <2> HIDE DEF trees
  <2> QED
    BY <1>3, <1>5, <1>6, <2>1, <2>2 DEF Grown
<1>8. trees = {} => Serial(stream) = {}
  <2>1. reader.k \in 0..Len(stream)
    BY <1>3, <1>4 DEF Entries
  <2> HIDE DEF trees
  <2> QED
    BY <1>4, <1>7, <2>1, EmptyStays
<1>9. \A y \in trees :
        /\ trees = {y} /\ y \in [Paths -> Nodes] /\ Shaped(stream, y)
        /\ \A q \in Paths : q # p => y[q] = fs[q]
        /\ \A l \in Entries : y[p] = File(l) =>
              \/ l = reader.k /\ Entry.type = "big"
              \/ \E q \in Paths : fs[q] = File(l)
  <2>1. \A y \in trees :
          trees = {y} /\ y \in [Paths -> Nodes] /\ NodeIn(stream, reader.k, fs, y)
    BY <1>2, <1>3, <1>4, <1>6, PlaceIs
  <2> HIDE DEF trees
  <2> QED
    BY <1>3, <2>1 DEF NodeIn, Entries
<1>10. /\ Waiting' = {} /\ OrderInv'
       /\ \A w \in Workers : CallOK(w)'
  BY <1>1, BehindBarrier DEF CleanInv
<1> HIDE DEF trees
<1>11. ASSUME fs' \in trees, Goto(next) PROVE CleanInv'
  <2>1. reader'.pc = next /\ reader'.k = reader.k
    <3> HIDE DEF next
    <3> QED
      BY <1>2, <1>11, GotoIs
  <2>2. Nodes' = Nodes /\ Through' = reader.k /\ reader'.pc \notin {"remove", "place"}
    BY <1>1, <2>1 DEF Nodes, Entries, Through, Handlers
  <2>3. StageInv'
    <3>1. Agrees(stream, fs', fs', {})
      BY AgreesSelf
    <3>2. /\ fs' \in [Paths -> Nodes'] /\ After(stream')[Through'] = {fs'}
          /\ Shaped(stream', fs') /\ Agrees(stream', fs', fs', Waiting')
      BY <1>1, <1>7, <1>9, <1>10, <1>11, <2>2, <3>1
    <3> QED
      BY <2>2, <3>2 DEF StageInv
  <2>4. WrittenInv'
    <3>1. ASSUME NEW q \in Paths, NEW k \in Entries, fs'[q] = File(k)
          PROVE  (\E r \in Paths : fs[r] = File(k)) \/ WrittenOK(k)'
      <4>1. CASE q # p
        BY <1>9, <1>11, <3>1, <4>1
      <4>2. CASE q = p
        <5>1. \/ k = reader.k /\ Entry.type = "big"
              \/ \E r \in Paths : fs[r] = File(k)
          BY <1>9, <1>11, <3>1, <4>2
        <5>2. CASE k = reader.k /\ Entry.type = "big"
          BY <2>1, <5>2 DEF WrittenOK
        <5> QED
          BY <5>1, <5>2
      <4> QED
        BY <4>1, <4>2
    <3>2. \A k \in Entries : WrittenOK(k) => WrittenOK(k)'
      BY <1>1 DEF WrittenOK, Job
    <3> QED
      BY <1>1, <3>1, <3>2, WrittenFrame
  <2>5. Shaped(stream, fs)'
    BY <1>1, <1>9, <1>11
  <2>6. reader'.pc \notin {"close", "stop", "returned"}
    BY <2>1
  <2> QED
    BY <1>10, <2>3, <2>4, <2>5, <2>6 DEF CleanInv
<1> HIDE DEF next
<1> QED
  BY <1>1, <1>2, <1>8, <1>11, InlineSplit

LEMMA InlineCopySerial ==
    ASSUME PoolInv, TreeShaped(stream), Clean, CleanInv, InlineCopy
    PROVE  Kept
<1>1. /\ reader.pc = "copy" /\ UNCHANGED <<stream, shard, queue, worker, fs, failed>>
  BY DEF InlineCopy, input, poolVars
<1>2. /\ ReaderInv /\ stream \in Streams /\ data \in [Entries -> Entries \union {None}]
  BY DEF PoolInv
<1>3. CASE faults /\ Break
  BY <1>2, <1>3, BreakFails DEF Kept
<1>4. CASE data' = [data EXCEPT ![reader.k] = reader.k] /\ Goto("next")
  <2>1. reader'.pc = "next" /\ reader'.k = reader.k /\ reader'.err = reader.err
    BY <1>2, <1>4, GotoIs
  <2>2. /\ Waiting = {} /\ Waiting' = {} /\ OrderInv'
        /\ \A w \in Workers : CallOK(w)'
    BY <1>1, BehindBarrier DEF CleanInv
  <2>3. Nodes' = Nodes /\ Through' = Through
    BY <1>1, <2>1 DEF Nodes, Entries, Through, Handlers
  <2>4. StageInv'
    <3>1. PICK t \in [Paths -> Nodes] :
            /\ After(stream)[Through] = {t} /\ Shaped(stream, t)
            /\ Agrees(stream, t, fs, Waiting)
      BY <1>1 DEF CleanInv, StageInv
    <3>2. /\ t \in [Paths -> Nodes'] /\ After(stream')[Through'] = {t} /\ Shaped(stream', t)
          /\ Agrees(stream', t, fs', Waiting')
      BY <1>1, <2>2, <2>3, <3>1
    <3> QED
      BY <2>1, <3>2 DEF StageInv
  <2>5. WrittenInv'
    <3>1. reader.k \in Entries
      BY <1>1, <1>2 DEF ReaderInv, Handlers
    <3>2. ASSUME NEW k \in Entries, WrittenOK(k) PROVE WrittenOK(k)'
      <4>1. CASE k = reader.k
        <5>1. data'[k] = k
          BY <1>2, <1>4, <3>1, <4>1
        <5> QED
          BY <5>1 DEF WrittenOK
      <4>2. CASE k # reader.k
        <5>1. data'[k] = data[k]
          BY <1>2, <1>4, <4>2
        <5> QED
          BY <1>1, <3>2, <4>2, <5>1 DEF WrittenOK, Job
      <4> QED
        BY <4>1, <4>2
    <3> QED
      BY <1>1, <3>2, WrittenFrame
  <2>6. Shaped(stream, fs)'
    BY <1>1 DEF CleanInv
  <2>7. CleanInv'
    BY <2>1, <2>2, <2>4, <2>5, <2>6 DEF CleanInv
  <2> QED
    BY <1>1, <2>1, <2>7, StaysClean
<1> QED
  BY <1>3, <1>4 DEF InlineCopy

-----------------------------------------------------------------------------
(***************************************************************************)
(* The steps of the workers.                                               *)
(***************************************************************************)
\* A worker that has something to do holds the barrier up.
LEMMA BeforeBarrier ==
    ASSUME PoolInv, NEW w \in Workers, Busy(w) \/ queue[w] # <<>>
    PROVE  reader.pc \notin {"mkdir", "remove", "place", "copy", "stop", "returned"}
<1>1. pending # 0
  BY NothingPending
<1> QED
  BY <1>1 DEF PoolInv, BarrierInv

\* A step of a worker on the directory's side.
LEMMA WorkerFrame ==
    ASSUME CleanInv, UNCHANGED <<stream, shard, reader>>,
           reader.pc \notin {"remove", "place"}, OrderInv', Shaped(stream, fs'),
           \A t \in [Paths -> Nodes] : Agrees(stream, t, fs, Waiting) =>
              Agrees(stream, t, fs', Waiting'),
           \A p \in Paths : \A k \in Entries : fs'[p] = File(k) =>
              (\E q \in Paths : fs[q] = File(k)) \/ WrittenOK(k)',
           \A k \in Entries : WrittenOK(k) => WrittenOK(k)',
           \A v \in Workers : CallOK(v)'
    PROVE  CleanInv'
<1>1. Nodes' = Nodes /\ Through' = Through
  BY DEF Nodes, Entries, Through
<1>2. StageInv'
  <2>1. PICK t \in [Paths -> Nodes] :
          /\ After(stream)[Through] = {t} /\ Shaped(stream, t)
          /\ Agrees(stream, t, fs, Waiting)
    BY DEF CleanInv, StageInv
  <2>2. Agrees(stream, t, fs', Waiting')
    BY <2>1
  <2>3. /\ t \in [Paths -> Nodes'] /\ After(stream')[Through'] = {t} /\ Shaped(stream', t)
        /\ Agrees(stream', t, fs', Waiting') /\ reader'.pc \notin {"remove", "place"}
    BY <1>1, <2>1, <2>2
  <2> QED
    BY <2>3 DEF StageInv
<1>3. WrittenInv'
  BY WrittenFrame
<1>4. Shaped(stream, fs)'
  OBVIOUS
<1>5. reader'.pc \in {"close", "stop", "returned"} => reader'.k = Len(stream')
  BY DEF CleanInv
<1> QED
  BY <1>2, <1>3, <1>4, <1>5 DEF CleanInv

\* A step of a worker that leaves the directory and the job's place alone.
LEMMA QuietFrame ==
    ASSUME PoolInv, CleanInv, NEW w \in Workers, UNCHANGED <<stream, shard, reader, fs>>,
           reader.pc \notin {"remove", "place"},
           OrderInv', Waiting' = Waiting,
           \A v \in Workers \ {w} : worker'[v] = worker[v],
           worker'[w].pc \notin {"remove", "create"},
           \A k \in Entries : WrittenOK(k) => WrittenOK(k)'
    PROVE  CleanInv'
<1>1. ASSUME NEW v \in Workers PROVE CallOK(v)'
  <2>1. CASE v = w
    BY <2>1 DEF CallOK
  <2>2. CASE v # w
    BY <2>2, CallFrame
  <2> QED
    BY <2>1, <2>2
<1>2. Shaped(stream, fs')
  BY DEF CleanInv
<1> QED
  BY <1>1, <1>2, WorkerFrame

\* What is written stays written, whatever a worker does that is not writing.
LEMMA WrittenKept ==
    ASSUME NEW w \in Workers, worker[w].pc # "write", UNCHANGED <<reader, data>>,
           \A v \in Workers \ {w} : worker'[v] = worker[v]
    PROVE  \A k \in Entries : WrittenOK(k) => WrittenOK(k)'
<1> SUFFICES ASSUME NEW k \in Entries, WrittenOK(k) PROVE WrittenOK(k)'
  OBVIOUS
<1>1. CASE \E v \in Workers : worker[v].pc = "write" /\ Job(v).k = k
  <2>1. PICK v \in Workers : worker[v].pc = "write" /\ Job(v).k = k
    BY <1>1
  <2>2. worker'[v] = worker[v]
    BY <2>1
  <2>3. worker'[v].pc = "write" /\ Job(v)'.k = k
    BY <2>1, <2>2 DEF Job
  <2> QED
    BY <2>3 DEF WrittenOK
<1>2. CASE data[k] = k \/ (reader.pc = "copy" /\ reader.k = k)
  BY <1>2 DEF WrittenOK
<1> QED
  BY <1>1, <1>2 DEF WrittenOK

\* A step on the job in hand.
LEMMA StepLines ==
    ASSUME PoolInv, NEW w \in Workers, Busy(w), NEW pc, Step(w, pc),
           pc \in {"mkdir", "remove", "create", "write", "put"}, queue' = queue
    PROVE  /\ \A v \in Workers : Line(v)' = Line(v)
           /\ worker'[w].pc = pc /\ Job(w)' = Job(w)
           /\ \A v \in Workers \ {w} : worker'[v] = worker[v]
<1>1. WorkersInv
  BY DEF PoolInv
<1>2. /\ worker'[w].pc = pc /\ Job(w)' = Job(w)
      /\ \A v \in Workers \ {w} : worker'[v] = worker[v]
  BY <1>1, StepIs
<1>3. Busy(w)'
  BY <1>2 DEF Busy
<1>4. Line(w)' = Line(w)
  BY <1>2, <1>3 DEF Line
<1>5. \A v \in Workers : Line(v)' = Line(v)
  BY <1>2, <1>4, LineKept
<1> QED
  BY <1>2, <1>5

LEMMA TakeSerial ==
    ASSUME PoolInv, TreeShaped(stream), Clean, CleanInv, NEW w \in Workers, Take(w)
    PROVE  Kept
<1>1. WorkersInv
  BY DEF PoolInv
<1>2. /\ worker[w].pc = "idle" /\ queue[w] # <<>>
      /\ worker' = [worker EXCEPT ![w] = [pc |-> "check", job |-> Head(queue[w])]]
      /\ queue' = [queue EXCEPT ![w] = Tail(queue[w])]
      /\ UNCHANGED <<stream, shard, reader, fs, data, failed>>
  BY DEF Take, input
<1>3. /\ worker'[w].pc = "check"
      /\ \A v \in Workers \ {w} : worker'[v] = worker[v] /\ queue'[v] = queue[v]
  BY <1>1, <1>2 DEF WorkersInv
<1>4. \A v \in Workers : Line(v)' = Line(v)
  <2>1. Line(w)' = Line(w)
    BY <1>1, LineTake
  <2> QED
    BY <1>3, <2>1, LineKept
<1>5. \A v \in Workers : Placed(v)' <=> Placed(v)
  BY <1>2, <1>3 DEF Placed
<1>6. OrderInv' /\ Waiting' = Waiting
  BY <1>2, <1>4, <1>5, OrderKept, WaitingKept DEF CleanInv
<1>7. reader.pc \notin {"remove", "place"}
  BY <1>2, BeforeBarrier
<1>8. \A k \in Entries : WrittenOK(k) => WrittenOK(k)'
  BY <1>2, <1>3, WrittenKept
<1>9. CleanInv'
  BY <1>2, <1>3, <1>6, <1>7, <1>8, QuietFrame
<1> QED
  BY <1>2, <1>9, StaysClean

LEMMA CheckSerial ==
    ASSUME PoolInv, TreeShaped(stream), Clean, CleanInv, NEW w \in Workers, Check(w)
    PROVE  Kept
<1>1. /\ worker[w].pc = "check" /\ Busy(w) /\ Step(w, "mkdir") /\ queue' = queue
      /\ UNCHANGED <<stream, shard, reader, fs, data, failed>>
  BY DEF Check, Busy, Clean, input
<1>2. /\ \A v \in Workers : Line(v)' = Line(v)
      /\ worker'[w].pc = "mkdir"
      /\ \A v \in Workers \ {w} : worker'[v] = worker[v]
  BY <1>1, StepLines
<1>3. \A v \in Workers : Placed(v)' <=> Placed(v)
  BY <1>1, <1>2 DEF Placed
<1>4. OrderInv' /\ Waiting' = Waiting
  BY <1>1, <1>2, <1>3, OrderKept, WaitingKept DEF CleanInv
<1>5. reader.pc \notin {"remove", "place"}
  BY <1>1, BeforeBarrier
<1>6. \A k \in Entries : WrittenOK(k) => WrittenOK(k)'
  BY <1>1, <1>2, WrittenKept
<1>7. CleanInv'
  BY <1>1, <1>2, <1>4, <1>5, <1>6, QuietFrame
<1> QED
  BY <1>1, <1>7, StaysClean

LEMMA WriteSerial ==
    ASSUME PoolInv, TreeShaped(stream), Clean, CleanInv, NEW w \in Workers, WorkerWrite(w)
    PROVE  Kept
<1>1. /\ worker[w].pc = "write" /\ Busy(w) /\ Step(w, "put") /\ queue' = queue
      /\ UNCHANGED <<stream, shard, reader, fs>>
  BY DEF WorkerWrite, Busy, input
<1>2. CASE faults /\ failed' = TRUE
  BY <1>2 DEF Kept, Clean
<1>3. CASE data' = [data EXCEPT ![Job(w).k] = buf[Job(w).buf]] /\ failed' = failed
  <2>1. /\ \A v \in Workers : Line(v)' = Line(v)
        /\ worker'[w].pc = "put"
        /\ \A v \in Workers \ {w} : worker'[v] = worker[v]
    BY <1>1, StepLines
  <2>2. \A v \in Workers : Placed(v)' <=> Placed(v)
    BY <1>1, <2>1 DEF Placed
  <2>3. OrderInv' /\ Waiting' = Waiting
    BY <1>1, <2>1, <2>2, OrderKept, WaitingKept DEF CleanInv
  <2>4. reader.pc \notin {"remove", "place"}
    BY <1>1, BeforeBarrier
  <2>5. Job(w).k \in Entries /\ buf[Job(w).buf] = Job(w).k
    <3>1. WorkersInv /\ LinesInv
      BY DEF PoolInv
    <3>2. 1 \in 1..Len(Line(w)) /\ Line(w)[1] = Job(w) /\ Job(w) \in JobType
      BY <1>1, <3>1, LineFirst
    <3> QED
      BY <3>1, <3>2 DEF LinesInv, JobType
  <2>6. /\ data'[Job(w).k] = Job(w).k
        /\ \A k \in Entries : k # Job(w).k => data'[k] = data[k]
    <3>1. data \in [Entries -> Entries \union {None}]
      BY DEF PoolInv
    <3> QED
      BY <1>3, <2>5, <3>1
  <2>7. ASSUME NEW k \in Entries, WrittenOK(k) PROVE WrittenOK(k)'
    <3>1. CASE k = Job(w).k
      BY <2>6, <3>1 DEF WrittenOK
    <3>2. CASE k # Job(w).k
      <4>1. CASE \E v \in Workers : worker[v].pc = "write" /\ Job(v).k = k
        <5>1. PICK v \in Workers : worker[v].pc = "write" /\ Job(v).k = k
          BY <4>1
        <5>2. worker'[v] = worker[v]
          BY <2>1, <3>2, <5>1
        <5>3. worker'[v].pc = "write" /\ Job(v)'.k = k
          BY <5>1, <5>2 DEF Job
        <5> QED
          BY <5>3 DEF WrittenOK
      <4>2. CASE data[k] = k \/ (reader.pc = "copy" /\ reader.k = k)
        BY <1>1, <2>6, <3>2, <4>2 DEF WrittenOK
      <4> QED
        BY <2>7, <4>1, <4>2 DEF WrittenOK
    <3> QED
      BY <3>1, <3>2
  <2>8. CleanInv'
    BY <1>1, <2>1, <2>3, <2>4, <2>7, QuietFrame
  <2> QED
    BY <1>1, <1>3, <2>8, StaysClean
<1> QED
  BY <1>2, <1>3 DEF WorkerWrite

LEMMA ExitSerial ==
    ASSUME PoolInv, TreeShaped(stream), Clean, CleanInv, NEW w \in Workers, Exit(w)
    PROVE  Kept
<1>1. /\ worker[w].pc = "idle" /\ reader.pc = "stop" /\ Step(w, "exited") /\ queue' = queue
      /\ UNCHANGED <<stream, shard, reader, fs, data, failed>>
  BY DEF Exit, input
<1>2. /\ worker'[w].pc = "exited"
      /\ \A v \in Workers \ {w} : worker'[v] = worker[v]
  BY <1>1, StepIs DEF PoolInv
<1>3. \A v \in Workers : Line(v)' = Line(v)
  <2>1. ~Busy(w) /\ ~Busy(w)'
    BY <1>1, <1>2 DEF Busy
  <2>2. Line(w)' = Line(w)
    BY <1>1, <2>1 DEF Line
  <2> QED
    BY <1>1, <1>2, <2>2, LineKept
<1>4. \A v \in Workers : Placed(v)' <=> Placed(v)
  BY <1>1, <1>2 DEF Placed
<1>5. OrderInv' /\ Waiting' = Waiting
  BY <1>1, <1>3, <1>4, OrderKept, WaitingKept DEF CleanInv
<1>6. \A k \in Entries : WrittenOK(k) => WrittenOK(k)'
  BY <1>1, <1>2, WrittenKept
<1>7. CleanInv'
  BY <1>1, <1>2, <1>5, <1>6, QuietFrame
<1> QED
  BY <1>1, <1>7, StaysClean

\* A job that is done was no longer waiting.
LEMMA DoneSerial ==
    ASSUME PoolInv, TreeShaped(stream), Clean, CleanInv, NEW w \in Workers, Done(w)
    PROVE  Kept
<1>1. WorkersInv
  BY DEF PoolInv
<1>2. /\ worker[w].pc = "put" /\ worker' = [worker EXCEPT ![w] = Idle] /\ queue' = queue
      /\ UNCHANGED <<stream, shard, reader, fs, data, failed>>
  BY DEF Done, input
<1>3. /\ worker'[w] = Idle /\ worker'[w].pc = "idle"
      /\ \A v \in Workers \ {w} : worker'[v] = worker[v]
  <2>1. worker = [v \in Workers |-> worker[v]]
    BY <1>1 DEF WorkersInv
  <2> QED
    BY <1>2, <2>1 DEF Idle
<1>4. Busy(w) /\ ~Busy(w)' /\ Placed(w) /\ ~Placed(w)'
  BY <1>2, <1>3 DEF Busy, Placed
<1> DEFINE n == Len(Line(w)')
<1>5. /\ n \in Nat /\ Len(Line(w)) = n + 1
      /\ \A i \in 1..n : Line(w)'[i] = Line(w)[i + 1]
  BY <1>1, <1>2, <1>4, LineDone
<1>6. \A v \in Workers \ {w} : Line(v)' = Line(v) /\ Waits(v)' = Waits(v)
  <2>1. \A v \in Workers \ {w} : Line(v)' = Line(v) /\ (Placed(v)' <=> Placed(v))
    BY <1>2, <1>3, LineKept DEF Placed
  <2> QED
    BY <2>1 DEF Waits, WaitsIn
<1> HIDE DEF n
<1>7. OrderInv'
  <2> SUFFICES ASSUME NEW v \in Workers
               PROVE  /\ \A i \in 1..Len(Line(v)') : IsJob(Line(v)'[i], v)
                      /\ \A i, j \in 1..Len(Line(v)') : i < j => Line(v)'[i].k < Line(v)'[j].k
    BY <1>2 DEF OrderInv, IsJob
  <2>1. /\ \A i \in 1..Len(Line(v)) : IsJob(Line(v)[i], v)
        /\ \A i, j \in 1..Len(Line(v)) : i < j => Line(v)[i].k < Line(v)[j].k
    BY DEF CleanInv, OrderInv
  <2>2. CASE v # w
    BY <1>6, <2>1, <2>2
  <2>3. CASE v = w
    <3>1. \A i \in 1..n : i + 1 \in 1..Len(Line(w)) /\ Line(w)'[i] = Line(w)[i + 1]
      BY <1>5
    <3>2. \A i \in 1..n : IsJob(Line(w)'[i], w)
      BY <2>1, <2>3, <3>1
    <3>3. ASSUME NEW i \in 1..n, NEW j \in 1..n, i < j PROVE Line(w)'[i].k < Line(w)'[j].k
      <4>1. i + 1 < j + 1
        BY <3>3
      <4> QED
        BY <2>1, <2>3, <3>1, <4>1
    <3> QED
      BY <2>3, <3>2, <3>3 DEF n
  <2> QED
    BY <2>2, <2>3
<1>8. Waits(w)' = Waits(w)
  <2>1. WaitsIn(w)' = 1..n
    BY <1>4 DEF WaitsIn, n
  <2>2. WaitsIn(w) = 2..n + 1
    BY <1>4, <1>5 DEF WaitsIn
  <2>3. ASSUME NEW k \in Waits(w)' PROVE k \in Waits(w)
    <3>1. PICK i \in 1..n : k = Line(w)'[i].k
      BY <2>1 DEF Waits
    <3>2. i + 1 \in 2..n + 1 /\ Line(w)'[i] = Line(w)[i + 1]
      BY <1>5
    <3> QED
      BY <2>2, <3>1, <3>2 DEF Waits
  <2>4. ASSUME NEW k \in Waits(w) PROVE k \in Waits(w)'
    <3>1. PICK i \in 2..n + 1 : k = Line(w)[i].k
      BY <2>2 DEF Waits
    <3>2. i - 1 \in 1..n /\ (i - 1) + 1 = i
      BY <1>5
    <3>3. Line(w)'[i - 1] = Line(w)[i]
      BY <1>5, <3>2
    <3> QED
      BY <2>1, <3>1, <3>2, <3>3 DEF Waits
  <2> QED
    BY <2>3, <2>4
<1>9. Waiting' = Waiting
  <2>1. \A v \in Workers : Waits(v)' = Waits(v)
    BY <1>6, <1>8
  <2> QED
    BY <2>1 DEF Waiting
<1>10. reader.pc \notin {"remove", "place"}
  BY <1>4, BeforeBarrier
<1>11. \A k \in Entries : WrittenOK(k) => WrittenOK(k)'
  BY <1>2, <1>3, WrittenKept
<1>12. CleanInv'
  BY <1>2, <1>3, <1>7, <1>9, <1>10, <1>11, QuietFrame
<1> QED
  BY <1>2, <1>12, StaysClean

\* A call of a worker that cannot fail does so for no reason of its own.
LEMMA CallSplit ==
    ASSUME Clean, NEW w \in Workers, NEW pc, NEW trees, NEW next,
           Call(w, pc, trees, next), trees # {},
           fs' \in trees /\ Step(w, next) => CleanInv'
    PROVE  Kept
<1>1. CASE fs' \in trees /\ Step(w, next) /\ failed' = failed
  <2>1. reader'.err = reader.err
    BY DEF Call
  <2> QED
    BY <1>1, <2>1, StaysClean
<1>2. CASE faults /\ failed' = TRUE
  BY <1>2 DEF Kept, Clean
<1>3. \/ fs' \in trees /\ Step(w, next) /\ failed' = failed
      \/ faults /\ failed' = TRUE
  BY DEF Call
<1> QED
  BY <1>1, <1>2, <1>3

LEMMA MkdirSerial ==
    ASSUME PoolInv, TreeShaped(stream), Clean, CleanInv, NEW w \in Workers, WorkerMkdir(w)
    PROVE  Kept
<1> DEFINE p == Job(w).path
           y == Made(fs, p)
<1>1. /\ worker[w].pc = "mkdir" /\ Call(w, "mkdir", MkdirParent(fs, p), "remove")
      /\ UNCHANGED <<stream, shard, reader, data, queue>>
  BY DEF WorkerMkdir, Call, input
<1>2. Busy(w) /\ ~Placed(w)
  BY <1>1 DEF Busy, Placed
<1>3. /\ Job(w).k \in Entries /\ IsJob(Job(w), w)
      /\ Rooted(stream, p) /\ ~IsFolder(stream, p)
  BY <1>2, JobIs DEF CleanInv
<1>4. fs \in [Paths -> Nodes] /\ Shaped(stream, fs) /\ OrderInv
  BY DEF PoolInv, CleanInv
<1>5. /\ MkdirParent(fs, p) = {y} /\ Shaped(stream, y)
      /\ Len(p) = 2 => y[Parent(p)] = Dir
      /\ \A q \in Paths : y[q] = IF Len(p) = 2 /\ q = Parent(p) THEN Dir ELSE fs[q]
  <2> HIDE DEF p
  <2> QED
    BY <1>3, <1>4, MkdirParentIs
<1> HIDE DEF y
<1>6. ASSUME fs' = y, Step(w, "remove") PROVE CleanInv'
  <2>1. /\ \A v \in Workers : Line(v)' = Line(v)
        /\ worker'[w].pc = "remove" /\ Job(w)' = Job(w)
        /\ \A v \in Workers \ {w} : worker'[v] = worker[v]
    BY <1>1, <1>2, <1>6, StepLines
  <2>2. \A v \in Workers : Placed(v)' <=> Placed(v)
    BY <1>1, <2>1 DEF Placed
  <2>3. OrderInv' /\ Waiting' = Waiting
    BY <1>1, <1>4, <2>1, <2>2, OrderKept, WaitingKept
  <2>4. reader.pc \notin {"remove", "place"}
    BY <1>2, BeforeBarrier
  <2>5. ASSUME NEW t \in [Paths -> Nodes], Agrees(stream, t, fs, Waiting)
        PROVE  Agrees(stream, t, fs', Waiting')
    <3>1. Job(w).k \in Waiting
      BY <1>2, JobWaits
    <3>2. p = stream[Job(w).k].path
      BY <1>3 DEF IsJob
    <3> HIDE DEF p
    <3>3. Agrees(stream, t, y, Waiting)
      BY <1>3, <1>5, <2>5, <3>1, <3>2, AgreesMkdir
    <3> QED
      BY <1>6, <2>3, <3>3
  <2>6. \A q \in Paths : \A k \in Entries : y[q] = File(k) => fs[q] = File(k)
    <3> HIDE DEF p
    <3> QED
      BY <1>5, NodeIs
  <2>7. \A k \in Entries : WrittenOK(k) => WrittenOK(k)'
    BY <1>1, <2>1, WrittenKept
  <2>8. ASSUME NEW v \in Workers PROVE CallOK(v)'
    <3>1. CASE v = w
      BY <1>5, <1>6, <2>1, <3>1 DEF CallOK
    <3>2. CASE v # w
      <4>1. \A q \in Paths : fs[q] = Dir => fs'[q] = Dir
        BY <1>5, <1>6
      <4>2. Busy(v) => fs'[Job(v).path] = fs[Job(v).path]
        <5> SUFFICES ASSUME Busy(v) PROVE y[Job(v).path] = fs[Job(v).path]
          BY <1>6
        <5>1. Job(v).path \in Paths /\ ~IsFolder(stream, Job(v).path)
          BY <1>4, JobIs DEF Rooted
        <5> QED
          BY <1>3, <1>5, <5>1 DEF Rooted
      <4> QED
        BY <2>1, <3>2, <4>1, <4>2, CallFrame
    <3> QED
      BY <3>1, <3>2
  <2> QED
    BY <1>1, <1>5, <1>6, <2>3, <2>4, <2>5, <2>6, <2>7, <2>8, WorkerFrame
<1>7. MkdirParent(fs, p) # {} /\ \A z \in MkdirParent(fs, p) : z = y
  BY <1>5
<1> QED
  BY <1>1, <1>6, <1>7, CallSplit

LEMMA RemoveSerial ==
    ASSUME PoolInv, TreeShaped(stream), Clean, CleanInv, NEW w \in Workers, WorkerRemove(w)
    PROVE  Kept
<1> DEFINE p == Job(w).path
           y == [fs EXCEPT ![p] = None]
<1>1. /\ worker[w].pc = "remove" /\ Call(w, "remove", Remove(fs, p), "create")
      /\ UNCHANGED <<stream, shard, reader, data, queue>>
  BY DEF WorkerRemove, Call, input
<1>2. Busy(w) /\ ~Placed(w)
  BY <1>1 DEF Busy, Placed
<1>3. /\ Job(w).k \in Entries /\ IsJob(Job(w), w)
      /\ Rooted(stream, p) /\ ~IsFolder(stream, p)
  BY <1>2, JobIs DEF CleanInv
<1>4. /\ fs \in [Paths -> Nodes] /\ Shaped(stream, fs) /\ OrderInv /\ stream \in Streams
      /\ Len(p) = 2 => fs[Parent(p)] = Dir
  BY <1>1 DEF PoolInv, CleanInv, CallOK
<1>5. /\ Remove(fs, p) = {y} /\ y \in [Paths -> Nodes] /\ Shaped(stream, y)
      /\ y[p] = None /\ \A q \in Paths \ {p} : y[q] = fs[q]
  <2>1. /\ fs \in [Paths -> Nodes] /\ Shaped(stream, fs) /\ Rooted(stream, p)
        /\ ~IsFolder(stream, p) /\ (Len(p) = 2 => fs[Parent(p)] = Dir)
    BY <1>3, <1>4
  <2> HIDE DEF p
  <2> QED
    BY <2>1, RemoveIs
<1> HIDE DEF y
<1>6. ASSUME fs' = y, Step(w, "create") PROVE CleanInv'
  <2>1. /\ \A v \in Workers : Line(v)' = Line(v)
        /\ worker'[w].pc = "create" /\ Job(w)' = Job(w)
        /\ \A v \in Workers \ {w} : worker'[v] = worker[v]
    BY <1>1, <1>2, <1>6, StepLines
  <2>2. \A v \in Workers : Placed(v)' <=> Placed(v)
    BY <1>1, <2>1 DEF Placed
  <2>3. OrderInv' /\ Waiting' = Waiting
    BY <1>1, <1>4, <2>1, <2>2, OrderKept, WaitingKept
  <2>4. reader.pc \notin {"remove", "place"}
    BY <1>2, BeforeBarrier
  <2>5. ASSUME NEW t \in [Paths -> Nodes], Agrees(stream, t, fs, Waiting)
        PROVE  Agrees(stream, t, fs', Waiting')
    <3>1. Job(w).k \in Waiting
      BY <1>2, JobWaits
    <3>2. p = stream[Job(w).k].path
      BY <1>3 DEF IsJob
    <3> HIDE DEF p
    <3>3. Agrees(stream, t, y, Waiting)
      BY <1>3, <1>5, <2>5, <3>1, <3>2, AgreesRemove
    <3> QED
      BY <1>6, <2>3, <3>3
  <2>6. \A q \in Paths : \A k \in Entries : y[q] = File(k) => fs[q] = File(k)
    <3>1. \A k \in Entries : None # File(k)
      BY <1>4, PoolAssumption DEF Entries
    <3> HIDE DEF p
    <3> QED
      BY <1>5, <3>1
  <2>7. \A k \in Entries : WrittenOK(k) => WrittenOK(k)'
    BY <1>1, <2>1, WrittenKept
  <2>8. \A q \in Paths : fs[q] = Dir => fs'[q] = Dir
    <3>1. fs[p] # Dir
      BY <1>3, <1>4 DEF Shaped, Rooted
    <3> HIDE DEF p
    <3> QED
      BY <1>5, <1>6, <3>1
  <2>9. ASSUME NEW v \in Workers PROVE CallOK(v)'
    <3>1. CASE v = w
      <4>1. Parent(p) \in Paths
        BY <1>3, ParentIs DEF Rooted
      <4> QED
        BY <1>4, <1>5, <1>6, <2>1, <2>8, <3>1, <4>1 DEF CallOK
    <3>2. CASE v # w
      <4>1. Busy(v) => fs'[Job(v).path] = fs[Job(v).path]
        <5> SUFFICES ASSUME Busy(v) PROVE y[Job(v).path] = fs[Job(v).path]
          BY <1>6
        <5>1. Job(v).path \in Paths /\ Job(v).path # p
          BY <1>2, <1>4, <3>2, JobIs, JobsApart DEF Rooted
        <5> QED
          BY <1>5, <5>1
      <4> QED
        BY <2>1, <2>8, <3>2, <4>1, CallFrame
    <3> QED
      BY <3>1, <3>2
  <2> QED
    BY <1>1, <1>5, <1>6, <2>3, <2>4, <2>5, <2>6, <2>7, <2>9, WorkerFrame
<1>7. Remove(fs, p) # {} /\ \A z \in Remove(fs, p) : z = y
  BY <1>5
<1> QED
  BY <1>1, <1>6, <1>7, CallSplit


\* The entry of a job no longer waits once its file is in its place.
LEMMA WaitingPlaced ==
    ASSUME PoolInv, NEW w \in Workers, Busy(w), ~Placed(w), Placed(w)',
           \A v \in Workers : Line(v)' = Line(v),
           \A v \in Workers \ {w} : Placed(v)' <=> Placed(v)
    PROVE  Waiting' = Waiting \ {Job(w).k}
<1> DEFINE k == Job(w).k
<1>1. LinesInv /\ 1 \in 1..Len(Line(w)) /\ Line(w)[1].k = k
  BY LineFirst DEF PoolInv
<1>2. ASSUME NEW v \in Workers, v # w PROVE Waits(v)' = Waits(v) /\ k \notin Waits(v)
  <2>1. Waits(v)' = Waits(v)
    BY <1>2 DEF Waits, WaitsIn
  <2>2. \A i \in 1..Len(Line(v)) : Line(v)[i].k # k
    BY <1>1, <1>2 DEF LinesInv
  <2> QED
    BY <2>1, <2>2 DEF Waits, WaitsIn
<1>3. Waits(w)' = Waits(w) \ {k}
  <2> DEFINE L == Line(w)
  <2>1. WaitsIn(w) = 1..Len(L) /\ WaitsIn(w)' = {i \in 1..Len(L) : i # 1}
    BY DEF WaitsIn
  <2>2. \A i \in 1..Len(L) : i # 1 => L[i].k # k
    BY <1>1 DEF LinesInv
  <2>3. Waits(w) = {L[i].k : i \in 1..Len(L)}
    BY <2>1 DEF Waits
  <2>4. Waits(w)' = {L[i].k : i \in {j \in 1..Len(L) : j # 1}}
    BY <2>1 DEF Waits
  <2>5. 1 \in 1..Len(L) /\ L[1].k = k
    BY <1>1
  <2> HIDE DEF L, k
  <2> QED
    BY <2>2, <2>3, <2>4, <2>5
<1> HIDE DEF k
<1>4. Waiting' = Waiting \ {k}
  <2>1. Waiting = UNION {Waits(v) : v \in Workers}
    BY DEF Waiting
  <2>2. Waiting' = UNION {Waits(v)' : v \in Workers}
    BY DEF Waiting
  <2> QED
    BY <1>2, <1>3, <2>1, <2>2
<1> QED
  BY <1>4 DEF k

\* Whatever waits to be written to the path of the job in hand comes after it.
LEMMA JobFirst ==
    ASSUME PoolInv, OrderInv, TreeShaped(stream), NEW w \in Workers, Busy(w),
           NEW l \in Waiting, stream[l].path = Job(w).path, l # Job(w).k
    PROVE  ~(l <= Job(w).k)
<1> DEFINE k == Job(w).k
<1>1. 1 \in 1..Len(Line(w)) /\ Line(w)[1].k = k
  BY LineFirst DEF PoolInv
<1>2. k \in Entries /\ IsJob(Job(w), w)
  BY JobIs
<1>3. PICK v \in Workers : \E i \in 1..Len(Line(v)) : l = Line(v)[i].k
  BY DEF Waiting, Waits, WaitsIn
<1>4. PICK i \in 1..Len(Line(v)) : l = Line(v)[i].k
  BY <1>3
<1>5. IsJob(Line(v)[i], v)
  BY DEF OrderInv
<1>6. v = w
  BY <1>2, <1>4, <1>5 DEF IsJob
<1>7. i # 1 /\ i \in 1..Len(Line(w))
  BY <1>1, <1>4, <1>6
<1>8. Len(Line(w)) \in Nat
  <2>1. Line(w) \in Seq(JobType)
    BY LineIs DEF PoolInv
  <2> QED
    BY <2>1
<1>9. 1 < i
  BY <1>7, <1>8
<1>10. k < l
  BY <1>1, <1>4, <1>6, <1>7, <1>9 DEF OrderInv
<1>11. k \in Nat /\ l \in Nat
  BY <1>2, WaitingIs DEF Entries
<1> QED
  BY <1>10, <1>11

LEMMA CreateSerial ==
    ASSUME PoolInv, TreeShaped(stream), Clean, CleanInv, NEW w \in Workers, WorkerCreate(w)
    PROVE  Kept
<1> DEFINE p == Job(w).path
           k == Job(w).k
           y == [fs EXCEPT ![p] = File(k)]
<1>1. /\ worker[w].pc = "create" /\ Call(w, "create", Create(fs, p, File(k)), "write")
      /\ UNCHANGED <<stream, shard, reader, data, queue>>
  BY DEF WorkerCreate, Call, input
<1>2. Busy(w) /\ ~Placed(w)
  BY <1>1 DEF Busy, Placed
<1>3. /\ k \in Entries /\ IsJob(Job(w), w)
      /\ Rooted(stream, p) /\ ~IsFolder(stream, p)
  BY <1>2, JobIs DEF CleanInv
<1>4. /\ fs \in [Paths -> Nodes] /\ Shaped(stream, fs) /\ OrderInv /\ stream \in Streams
      /\ Len(p) = 2 => fs[Parent(p)] = Dir
      /\ fs[p] = None
  BY <1>1 DEF PoolInv, CleanInv, CallOK
<1>5. /\ Create(fs, p, File(k)) = {y} /\ y \in [Paths -> Nodes] /\ Shaped(stream, y)
      /\ y[p] = File(k) /\ \A q \in Paths \ {p} : y[q] = fs[q]
  <2>1. /\ fs \in [Paths -> Nodes] /\ Shaped(stream, fs) /\ Rooted(stream, p)
        /\ ~IsFolder(stream, p) /\ (Len(p) = 2 => fs[Parent(p)] = Dir) /\ fs[p] = None
    BY <1>3, <1>4
  <2>2. File(k) \in Nodes /\ File(k) # Dir
    BY <1>3, NodeIs
  <2> HIDE DEF p, k
  <2> QED
    BY <2>1, <2>2, CreateIs
<1> HIDE DEF y
<1>6. ASSUME fs' = y, Step(w, "write") PROVE CleanInv'
  <2>1. /\ \A v \in Workers : Line(v)' = Line(v)
        /\ worker'[w].pc = "write" /\ Job(w)' = Job(w)
        /\ \A v \in Workers \ {w} : worker'[v] = worker[v]
    BY <1>1, <1>2, <1>6, StepLines
  <2>2. Placed(w)' /\ \A v \in Workers \ {w} : Placed(v)' <=> Placed(v)
    BY <2>1 DEF Placed
  <2>3. OrderInv'
    BY <1>1, <1>4, <2>1, OrderKept
  <2>4. Waiting' = Waiting \ {k}
    BY <1>2, <2>1, <2>2, WaitingPlaced
  <2>5. reader.pc \notin {"remove", "place"}
    BY <1>2, BeforeBarrier
  <2>6. ASSUME NEW t \in [Paths -> Nodes], Agrees(stream, t, fs, Waiting)
        PROVE  Agrees(stream, t, fs', Waiting')
    <3>1. k \in Waiting
      BY <1>2, JobWaits
    <3>2. p = stream[k].path
      BY <1>3 DEF IsJob
    <3>3. \A l \in Waiting : stream[l].path = stream[k].path /\ l # k => ~(l <= k)
      BY <1>2, <1>4, <3>2, JobFirst
    <3> HIDE DEF p, k
    <3>4. Agrees(stream, t, y, Waiting \ {k})
      BY <1>3, <1>4, <1>5, <2>6, <3>1, <3>2, <3>3, AgreesCreate
    <3> QED
      BY <1>6, <2>4, <3>4
  <2>7. ASSUME NEW q \in Paths, NEW l \in Entries, fs'[q] = File(l)
        PROVE  (\E r \in Paths : fs[r] = File(l)) \/ WrittenOK(l)'
    <3>1. CASE q = p
      <4>1. l = k
        BY <1>3, <1>5, <1>6, <2>7, <3>1, NodeIs
      <4>2. worker'[w].pc = "write" /\ Job(w)'.k = l
        BY <2>1, <4>1
      <4> QED
        BY <4>2 DEF WrittenOK
    <3>2. CASE q # p
      <4>1. fs[q] = File(l)
        BY <1>5, <1>6, <2>7, <3>2
      <4> QED
        BY <4>1
    <3> QED
      BY <3>1, <3>2
  <2>8. \A l \in Entries : WrittenOK(l) => WrittenOK(l)'
    BY <1>1, <2>1, WrittenKept
  <2>9. \A q \in Paths : fs[q] = Dir => fs'[q] = Dir
    <3>1. fs[p] # Dir
      BY <1>4, NodeIs
    <3> HIDE DEF p, k
    <3> QED
      BY <1>5, <1>6, <3>1
  <2>10. ASSUME NEW v \in Workers PROVE CallOK(v)'
    <3>1. CASE v = w
      BY <2>1, <3>1 DEF CallOK
    <3>2. CASE v # w
      <4>1. Busy(v) => fs'[Job(v).path] = fs[Job(v).path]
        <5> SUFFICES ASSUME Busy(v) PROVE y[Job(v).path] = fs[Job(v).path]
          BY <1>6
        <5>1. Job(v).path \in Paths /\ Job(v).path # p
          BY <1>2, <1>4, <3>2, JobIs, JobsApart DEF Rooted
        <5> QED
          BY <1>5, <5>1
      <4> QED
        BY <2>1, <2>9, <3>2, <4>1, CallFrame
    <3> QED
      BY <3>1, <3>2
  <2>11. Shaped(stream, fs')
    BY <1>5, <1>6
  <2> QED
    BY <1>1, <2>3, <2>5, <2>6, <2>7, <2>8, <2>10, <2>11, WorkerFrame
<1>7. Create(fs, p, File(k)) # {} /\ \A z \in Create(fs, p, File(k)) : z = y
  BY <1>5
<1> QED
  BY <1>1, <1>6, <1>7, CallSplit


-----------------------------------------------------------------------------
(***************************************************************************)
(* The invariant holds.                                                    *)
(***************************************************************************)
LEMMA InitSerial == Init => SerialInv
<1> SUFFICES ASSUME Init, TreeShaped(stream)
             PROVE  CleanInv /\ Clean /\ reader.pc # "returned"
  BY DEF SerialInv
<1>1. PoolInv
  BY InitPool
<1>2. /\ fs = Bare /\ reader.pc = "next" /\ reader.k = 0 /\ ~reader.err /\ ~failed
      /\ pending = 0 /\ stream \in Streams
  BY DEF Init
<1>3. Waiting = {} /\ \A w \in Workers : ~Busy(w)
  BY <1>1, <1>2, WaitingEmpty
<1>4. \A w \in Workers : queue[w] = <<>> /\ Line(w) = <<>> /\ Len(Line(w)) = 0
  BY <1>3 DEF Init, Line
<1>5. OrderInv
  BY <1>4 DEF OrderInv
<1>6. \A p \in Paths : fs[p] = None
  BY <1>2 DEF Bare
<1>7. Shaped(stream, fs)
  BY <1>6, NodeIs DEF Shaped
<1>8. StageInv
  <2>1. Through = 0
    BY <1>2 DEF Through, Handlers
  <2>2. Len(stream) \in Nat
    BY <1>2, PoolAssumption
  <2>3. After(stream)[0] = {fs}
    BY <1>2, <2>2, AfterIs
  <2>4. fs \in [Paths -> Nodes] /\ Agrees(stream, fs, fs, Waiting)
    BY <1>1, <1>3, AgreesSelf DEF PoolInv
  <2> QED
    BY <1>2, <1>7, <2>1, <2>3, <2>4 DEF StageInv
<1>9. WrittenInv
  <2>1. \A k \in Entries : None # File(k)
    BY <1>2, PoolAssumption DEF Entries
  <2> QED
    BY <1>6, <2>1 DEF WrittenInv
<1>10. \A w \in Workers : CallOK(w)
  BY <1>3 DEF CallOK, Busy
<1> QED
  BY <1>2, <1>5, <1>7, <1>8, <1>9, <1>10 DEF CleanInv, Clean

\* The archive, and whether calls may fail, do not change.
LEMMA InputStays ==
    ASSUME [Next]_vars
    PROVE  UNCHANGED <<stream, faults>>
<1>1. CASE Reader
  BY <1>1 DEF Reader, ReadHeader, ReadFails, InlineDir, Dispatch, Send, Flush,
        InlineMkdir, InlineRemove, InlinePlace, InlineCopy, Close, Return, Inline, input
<1>2. ASSUME NEW w \in Workers, Worker(w) PROVE UNCHANGED <<stream, faults>>
  BY <1>2 DEF Worker, Take, Check, WorkerMkdir, WorkerRemove, WorkerCreate,
        WorkerWrite, Done, Exit, Call, input
<1>3. CASE UNCHANGED vars
  BY <1>3 DEF vars
<1> QED
  BY <1>1, <1>2, <1>3 DEF Next, Returned

\* Every step of the reader but the last is a Goto, a Break or a header.
LEMMA ReaderMoves ==
    ASSUME ReaderInv, Reader
    PROVE  /\ failed' = failed
           /\ \/ Break
              \/ \E pc \in Handlers \union {"next", "close", "stop"} : Goto(pc)
              \/ ReadHeader /\ reader.k # Len(stream)
              \/ Return
<1> DEFINE Moves == \E pc \in Handlers \union {"next", "close", "stop"} : Goto(pc)
<1>1. failed' = failed
  BY DEF Reader, ReadHeader, ReadFails, InlineDir, Dispatch, Send, Flush,
     InlineMkdir, InlineRemove, InlinePlace, InlineCopy, Close, Return, Inline, poolVars
<1>2. CASE ReadHeader /\ reader.k = Len(stream)
  <2>1. Goto("close")
    BY <1>2 DEF ReadHeader, Goto
  <2> QED
    BY <1>1, <2>1
<1>3. CASE InlineDir \/ InlineMkdir \/ InlineRemove \/ InlinePlace
  <2>1. Break \/ Goto("next") \/ Goto("remove") \/ Goto("place") \/ Goto("copy")
    BY <1>3 DEF InlineDir, InlineMkdir, InlineRemove, InlinePlace, Inline
  <2> QED
    BY <1>1, <2>1 DEF Handlers
<1>4. CASE ReadFails \/ Dispatch \/ Flush
  <2>1. Break \/ Goto("send") \/ Goto("mkdir")
    BY <1>4 DEF ReadFails, Dispatch, Flush
  <2> QED
    BY <1>1, <2>1 DEF Handlers
<1>5. CASE Send \/ InlineCopy \/ Close
  <2>1. Break \/ Goto("next") \/ Goto("stop")
    BY <1>5 DEF Send, InlineCopy, Close
  <2> QED
    BY <1>1, <2>1
<1> QED
  BY <1>1, <1>2, <1>3, <1>4, <1>5 DEF Reader

\* An error is not forgotten, and Return takes over that of the workers.
LEMMA ErrorsStay ==
    ASSUME PoolInv, [Next]_vars, reader.pc = "returned" /\ failed => reader.err
    PROVE  /\ Clean' => Clean
           /\ reader'.pc = "returned" /\ failed' => reader'.err
<1>1. CASE Reader
  <2>1. ReaderInv
    BY DEF PoolInv
  <2>2. /\ failed' = failed
        /\ \/ Break
           \/ \E pc \in Handlers \union {"next", "close", "stop"} : Goto(pc)
           \/ ReadHeader /\ reader.k # Len(stream)
           \/ Return
    BY <1>1, <2>1, ReaderMoves
  <2>3. CASE Break
    <3>1. reader'.pc = "close"
      BY <2>1, <2>3, BreakIs
    <3> QED
      BY <2>1, <2>3, <3>1, BreakFails
  <2>4. CASE \E pc \in Handlers \union {"next", "close", "stop"} : Goto(pc)
    <3>1. PICK pc \in Handlers \union {"next", "close", "stop"} : Goto(pc)
      BY <2>4
    <3>2. reader' = [pc |-> pc, k |-> reader.k, err |-> reader.err]
      BY <2>1, <3>1, GotoIs
    <3>3. reader'.pc = pc /\ reader'.err = reader.err /\ pc # "returned"
      BY <3>2 DEF Handlers
    <3> QED
      BY <2>2, <3>3 DEF Clean
  <2>5. CASE ReadHeader /\ reader.k # Len(stream)
    <3>1. reader' = [pc |-> Handling(stream[reader.k + 1]), k |-> reader.k + 1,
                     err |-> reader.err]
      BY <2>1, <2>5, HeaderIs
    <3>2. Handling(stream[reader.k + 1]) # "returned"
      BY DEF Handling
    <3>3. reader'.pc # "returned" /\ reader'.err = reader.err
      BY <3>1, <3>2
    <3> QED
      BY <2>2, <3>3 DEF Clean
  <2>6. CASE Return
    <3>1. reader' = [pc |-> "returned", k |-> reader.k, err |-> reader.err \/ failed]
      BY <2>1, <2>6, ReturnIs
    <3>2. reader'.err = (reader.err \/ failed)
      BY <3>1
    <3> QED
      BY <2>2, <3>2 DEF Clean
  <2> QED
    BY <2>2, <2>3, <2>4, <2>5, <2>6
<1>2. ASSUME NEW w \in Workers, Worker(w)
      PROVE  reader' = reader /\ (failed => failed') /\ reader.pc # "returned"
  <2>1. reader' = reader /\ (failed => failed')
    BY <1>2 DEF Worker, Take, Check, WorkerMkdir, WorkerRemove, WorkerCreate,
          WorkerWrite, Done, Exit, Call
  <2>2. worker[w].pc # "exited"
    BY <1>2 DEF Worker, Take, Check, WorkerMkdir, WorkerRemove, WorkerCreate,
          WorkerWrite, Done, Exit, Call
  <2> QED
    BY <2>1, <2>2 DEF PoolInv, WorkersInv
<1>3. CASE UNCHANGED vars
  BY <1>3 DEF vars, Clean
<1>4. ASSUME NEW w \in Workers, Worker(w)
      PROVE  /\ Clean' => Clean
             /\ reader'.pc = "returned" /\ failed' => reader'.err
  BY <1>2, <1>4 DEF Clean
<1> QED
  BY <1>1, <1>3, <1>4 DEF Next, Returned


LEMMA SerialStep == PoolInv /\ SerialInv /\ [Next]_vars => SerialInv'
<1> SUFFICES ASSUME PoolInv, SerialInv, [Next]_vars, TreeShaped(stream)'
             PROVE  /\ Clean' => CleanInv'
                    /\ ~Clean' /\ ~faults' => Serial(stream') = {}
                    /\ reader'.pc = "returned" /\ failed' => reader'.err
  BY DEF SerialInv
<1>1. stream' = stream /\ faults' = faults
  BY InputStays
<1>2. TreeShaped(stream)
  BY <1>1
<1>3. /\ Clean => CleanInv
      /\ ~Clean /\ ~faults => Serial(stream) = {}
      /\ reader.pc = "returned" /\ failed => reader.err
  BY <1>2 DEF SerialInv
<1>4. /\ Clean' => Clean
      /\ reader'.pc = "returned" /\ failed' => reader'.err
  BY <1>3, ErrorsStay
<1>5. CASE ~Clean
  BY <1>1, <1>3, <1>4, <1>5
<1>6. CASE Clean
  <2>1. CleanInv
    BY <1>3, <1>6
  <2>2. ASSUME Reader PROVE Kept
    <3>1. CASE ReadHeader
      BY <1>2, <1>6, <2>1, <3>1, HeaderSerial
    <3>2. CASE ReadFails \/ Dispatch \/ Flush \/ Close \/ Return
      BY <1>2, <1>6, <2>1, <3>2, StillSerial
    <3>3. CASE Send
      BY <1>2, <1>6, <2>1, <3>3, SendSerial
    <3>4. CASE InlineDir
      BY <1>2, <1>6, <2>1, <3>4, InlineDirSerial
    <3>5. CASE InlineMkdir
      BY <1>2, <1>6, <2>1, <3>5, InlineMkdirSerial
    <3>6. CASE InlineRemove
      BY <1>2, <1>6, <2>1, <3>6, InlineRemoveSerial
    <3>7. CASE InlinePlace
      BY <1>2, <1>6, <2>1, <3>7, InlinePlaceSerial
    <3>8. CASE InlineCopy
      BY <1>2, <1>6, <2>1, <3>8, InlineCopySerial
    <3> QED
      BY <2>2, <3>1, <3>2, <3>3, <3>4, <3>5, <3>6, <3>7, <3>8 DEF Reader
  <2>3. ASSUME NEW w \in Workers, Worker(w) PROVE Kept
    <3>1. CASE Take(w)
      BY <1>2, <1>6, <2>1, <3>1, TakeSerial
    <3>2. CASE Check(w)
      BY <1>2, <1>6, <2>1, <3>2, CheckSerial
    <3>3. CASE WorkerMkdir(w)
      BY <1>2, <1>6, <2>1, <3>3, MkdirSerial
    <3>4. CASE WorkerRemove(w)
      BY <1>2, <1>6, <2>1, <3>4, RemoveSerial
    <3>5. CASE WorkerCreate(w)
      BY <1>2, <1>6, <2>1, <3>5, CreateSerial
    <3>6. CASE WorkerWrite(w)
      BY <1>2, <1>6, <2>1, <3>6, WriteSerial
    <3>7. CASE Done(w)
      BY <1>2, <1>6, <2>1, <3>7, DoneSerial
    <3>8. CASE Exit(w)
      BY <1>2, <1>6, <2>1, <3>8, ExitSerial
    <3> QED
      BY <2>3, <3>1, <3>2, <3>3, <3>4, <3>5, <3>6, <3>7, <3>8 DEF Worker
  <2>4. CASE UNCHANGED vars
    <3>1. CleanInv'
      <4>1. /\ UNCHANGED <<stream, shard, queue, worker, fs, data, reader>>
        BY <2>4 DEF vars
      <4>2. OrderInv' /\ Waiting' = Waiting
        BY <2>1, <4>1, ReaderFrame DEF CleanInv
      <4>3. Nodes' = Nodes /\ Entries' = Entries /\ Through' = Through /\ Entry' = Entry
        BY <4>1 DEF Nodes, Entries, Through, Entry
      <4>4. StageInv'
        BY <2>1, <4>1, <4>2, <4>3 DEF CleanInv, StageInv
      <4>5. WrittenInv' /\ \A w \in Workers : CallOK(w)'
        BY <2>1, <4>1, <4>3 DEF CleanInv, WrittenInv, WrittenOK, CallOK, Job
      <4> QED
        BY <2>1, <4>1, <4>2, <4>4, <4>5 DEF CleanInv
    <3>2. failed' = failed /\ reader' = reader
      BY <2>4 DEF vars
    <3> QED
      BY <1>4, <1>6, <3>1, <3>2 DEF Clean
  <2> QED
    BY <1>1, <1>4, <2>2, <2>3, <2>4 DEF Next, Returned, Kept
<1> QED
  BY <1>5, <1>6

\* For an archive of a tree the pool is at every moment where the serial loop
\* would be, but for the files that wait in the workers' channels, whatever
\* the interleaving of the reader and the workers of untarFiltered: the
\* inductive invariant of the theorems below.
THEOREM SerialInvariant == Spec => []SerialInv
<1>1. Init => SerialInv
  BY InitSerial
<1>2. PoolInv /\ SerialInv /\ [Next]_vars => SerialInv'
  BY SerialStep
<1> QED
  BY <1>1, <1>2, PoolInvariant, PTL DEF Spec

\* What has been said of a pool that has returned without an error.
LEMMA DoneIsSerial ==
    ASSUME PoolInv, SerialInv, TreeShaped(stream), reader.pc = "returned", ~reader.err
    PROVE  /\ Serial(stream) = {fs}
           /\ \A p \in Paths : Is(fs, p, "file") => data[fs[p].ref] = fs[p].ref
<1>1. CleanInv
  BY DEF SerialInv, Clean
<1>2. ReaderInv /\ WorkersInv /\ fs \in [Paths -> Nodes] /\ pending = 0
  BY DEF PoolInv, BarrierInv
<1>3. Waiting = {} /\ \A w \in Workers : ~Busy(w)
  BY <1>2, WaitingEmpty
<1>4. Through = Len(stream)
  BY <1>1 DEF CleanInv, Through, Handlers
<1>5. PICK t \in [Paths -> Nodes] :
        /\ After(stream)[Len(stream)] = {t} /\ Shaped(stream, t)
        /\ Agrees(stream, t, fs, {})
  BY <1>1, <1>3, <1>4 DEF CleanInv, StageInv
<1>6. fs = t
  BY <1>1, <1>2, <1>5, AgreesSame DEF CleanInv
<1>7. Serial(stream) = {fs}
  BY <1>5, <1>6 DEF Serial
<1>8. ASSUME NEW p \in Paths, Is(fs, p, "file") PROVE data[fs[p].ref] = fs[p].ref
  <2>1. fs[p] \in Nodes /\ fs[p] # None /\ fs[p].kind = "file"
    BY <1>2, <1>8 DEF Is
  <2>2. PICK k \in Entries : fs[p] = File(k)
    BY <2>1 DEF Nodes, Dir, Sym, File
  <2>3. WrittenOK(k)
    BY <1>1, <2>2 DEF CleanInv, WrittenInv
  <2>4. data[k] = k
    BY <1>3, <2>3 DEF WrittenOK, Busy
  <2>5. fs[p].ref = k
    BY <2>2 DEF File
  <2> QED
    BY <2>4, <2>5
<1> QED
  BY <1>7, <1>8

\* An extraction of an archive of a tree that succeeds leaves the tree of the
\* serial loop, every file with its own content: any number of workers, any
\* hash of the paths to them, any interleaving of their file-system calls.
THEOREM SerialResultHolds == Spec => [](TreeShaped(stream) => SerialResult)
<1>1. PoolInv /\ SerialInv => (TreeShaped(stream) => SerialResult)
  BY DoneIsSerial DEF SerialResult
<1> QED
  BY <1>1, PoolInvariant, SerialInvariant, PTL

\* Without a fault of the machine the pool fails on an archive of a tree only
\* if the serial loop fails on it: the workers of untarpool.go never trip
\* over each other or over the reader's inline entries.
THEOREM NoFalseAlarmHolds == Spec => [](TreeShaped(stream) => NoFalseAlarm)
<1>1. SerialInv => (TreeShaped(stream) => NoFalseAlarm)
  BY DEF SerialInv, NoFalseAlarm, Clean
<1> QED
  BY <1>1, SerialInvariant, PTL


-----------------------------------------------------------------------------
(***************************************************************************)
(* The pool implements an extraction in one step.                          *)
(***************************************************************************)
LEMMA AtomicSerial ==
    ASSUME NEW s
    PROVE  Atomic!Serial(s) = Serial(s)
  BY Zenon DEF Atomic!Serial, Serial, Atomic!After, After, Atomic!Bare, Bare,
     Atomic!Apply, Apply, Atomic!MkdirAll, MkdirAll, Atomic!MkdirParent, MkdirParent,
     Atomic!Mkdir, Mkdir, Atomic!DirAt, DirAt, Atomic!Is, Is, Atomic!Resolve, Resolve,
     Atomic!Remove, Remove, Atomic!Create, Create, Atomic!Place, Place, Atomic!Link, Link,
     Atomic!HasParent, HasParent, Atomic!Below, Below, Atomic!Parent, Parent,
     Atomic!Dir, Dir, Atomic!File, File, Atomic!Sym, Sym

\* For every archive of a tree untarFiltered with its pool of workers implements
\* the extraction in one step that its callers rely on: it is running until it
\* returns, then it has failed, or the directory is the serial loop's.
THEOREM PoolImplementsAtomic == Spec /\ TreeShaped(stream) => ImplementsAtomic
<1> DEFINE tree == IF Outcome = "done" THEN fs ELSE None
<1>1. Init => Atomic!Init
  <2> SUFFICES ASSUME Init PROVE Outcome = "running"
    BY DEF Atomic!Init
  <2> QED
    BY DEF Init, Outcome
<1>2. TreeShaped(stream) /\ [Next]_vars => TreeShaped(stream)'
  BY InputStays
<1>3. ASSUME PoolInv, (TreeShaped(stream) => SerialResult)', TreeShaped(stream), [Next]_vars
      PROVE  [Atomic!Next]_<<stream, tree, Outcome>>
  <2>1. stream' = stream /\ TreeShaped(stream)'
    BY <1>3, InputStays
  <2>2. CASE reader.pc = "returned"
    <3>1. UNCHANGED <<reader, fs>>
      <4>1. \A w \in Workers : worker[w].pc = "exited"
        BY <1>3, <2>2 DEF PoolInv, WorkersInv
      <4>2. ~Reader
        BY <2>2 DEF Reader, ReadHeader, ReadFails, InlineDir, Dispatch, Send, Flush,
              InlineMkdir, InlineRemove, InlinePlace, InlineCopy, Close, Return, Inline
      <4>3. ASSUME NEW w \in Workers, Worker(w) PROVE FALSE
        BY <4>1, <4>3 DEF Worker, Take, Check, WorkerMkdir, WorkerRemove, WorkerCreate,
              WorkerWrite, Done, Exit, Call
      <4>4. UNCHANGED vars
        BY <1>3, <4>2, <4>3 DEF Next, Returned
      <4> QED
        BY <4>4 DEF vars
    <3> QED
      BY <2>1, <3>1 DEF Outcome
  <2>3. CASE reader.pc # "returned" /\ reader'.pc # "returned"
    BY <2>1, <2>3 DEF Outcome
  <2>4. CASE reader.pc # "returned" /\ reader'.pc = "returned" /\ reader'.err
    <3>1. Outcome = "running" /\ Outcome' = "failed" /\ tree' = tree
      BY <2>4 DEF Outcome
    <3> QED
      BY <2>1, <3>1 DEF Atomic!Next, Atomic!Fail
  <2>5. CASE reader.pc # "returned" /\ reader'.pc = "returned" /\ ~reader'.err
    <3>1. Outcome = "running" /\ Outcome' = "done" /\ tree' = fs'
      BY <2>5 DEF Outcome
    <3>2. Serial(stream') = {fs'}
      BY <1>3, <2>1, <2>5 DEF SerialResult
    <3>3. tree' \in Atomic!Serial(stream)
      BY <2>1, <3>1, <3>2, AtomicSerial
    <3> QED
      BY <2>1, <3>1, <3>3 DEF Atomic!Next, Atomic!Succeed
  <2> QED
    BY <2>2, <2>3, <2>4, <2>5
<1> QED
  BY <1>1, <1>2, <1>3, PoolInvariant, SerialResultHolds, PTL
     DEF Spec, ImplementsAtomic, Atomic!Spec
=============================================================================
