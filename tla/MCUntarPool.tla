---------------------------- MODULE MCUntarPool ----------------------------
(***************************************************************************)
(* Instances of UntarPool for TLC: workers with one-slot channels and      *)
(* streams chosen for what the barrier, the sharding and the exclusive     *)
(* creation are there for.                                                 *)
(***************************************************************************)
EXTENDS UntarPool

a == <<"a">>
b == <<"b">>
c == <<"c">>
ax == <<"a", "x">>
bx == <<"b", "x">>
cx == <<"c", "x">>

MCPaths == {a, b, c, ax, bx, cx}

On(type, p) == [type |-> type, path |-> p, to |-> None]
To(type, p, q) == [type |-> type, path |-> p, to |-> q]

\* A name written twice, hard-linked, and written again.
Repeated ==
    <<On("file", ax), On("file", ax), To("link", b, ax), On("file", ax)>>

\* A write through a link that is then moved, and a large file.
Relinked ==
    <<On("dir", a), On("dir", c), To("sym", b, a), On("file", bx),
      To("sym", b, c), On("big", bx)>>

\* A queued write of the name that a large file then takes.
Outgrown == <<On("file", ax), On("big", ax)>>

\* Three independent files, more than a channel holds, and a link.
Plain ==
    <<On("skip", a), On("file", a), On("file", bx), On("file", cx),
      To("link", c, a)>>

\* Names that cannot be both a file and a directory, either way round, and
\* a link to a file the stream does not have.
Conflicts ==
    {<<On("file", a), On("file", ax)>>,
     <<On("file", ax), On("file", a)>>,
     <<On("file", ax), To("sym", a, b)>>,
     <<On("file", b), To("link", a, c), On("file", c)>>}

MCStreams == {Repeated, Relinked, Outgrown, Plain} \union Conflicts
=============================================================================
