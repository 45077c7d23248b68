----------------------------- MODULE MCRsyncUpload -----------------------------
(* A file both sides have, one in a subdirectory, one only the server has. *)
EXTENDS RsyncUpload
CONSTANTS a, s, x

V1 == File("h1", "t1", 2, "day1", "rw")
V2 == File("h1", "t2", 2, "day2", "rwx")    \* one block in common with V1
V3 == File("h3", "t3", 2, "day2", "rw")     \* none
V4 == File("h3", "t3", 3, "day3", "rw")

Paths == {a, s, x}
NestedNames == {s}
Tree(fa, fs, fx) == [n \in Paths |-> CASE n = a -> fa [] n = s -> fs [] n = x -> fx]
LocalTrees == {Tree(V2, V1, None), Tree(V3, None, V1), Tree(V4, V2, None)}
RemoteTrees == {Tree(None, None, None), Tree(V1, None, V1), Tree(V1, V1, None), Tree(V2, V3, V4)}
SavedFiles == {V3}
TheirFile == V4
AllOptions ==
  {Opts(d, r, c, e) : d \in BOOLEAN, r \in BOOLEAN, c \in BOOLEAN, e \in {{}, {s}}}
==============================================================================
