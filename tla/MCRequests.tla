---------------------------- MODULE MCRequests ----------------------------
(***************************************************************************)
(* A small site for Requests: a page in a folder and a page at the root.   *)
(***************************************************************************)
EXTENDS Requests, TLC

Parents == "/" :> "/" @@ "/tmp.yaml" :> "/" @@ "/index.md" :> "/"
           @@ "/a" :> "/" @@ "/a/a.md" :> "/a" @@ "/b.md" :> "/" @@ "/c.md" :> "/"

MCParentOf == [p \in Paths |-> Parents[p]]

MCKindOf == [p \in Paths |->
    CASE p \in {"/", "/a"} -> "directory"
      [] p = "/tmp.yaml" -> "config"
      [] OTHER -> "page"]

MCAbove == [p \in Paths |->
    IF p = "/" THEN {} ELSE IF p = "/a/a.md" THEN {"/", "/a"} ELSE {"/"}]

MCRenderedOf == [p \in Paths |->
    CASE p = "/index.md" -> "/index" [] p = "/a/a.md" -> "/a/a"
      [] p = "/b.md" -> "/b" [] p = "/c.md" -> "/c" [] OTHER -> p]

MCAccepted == [p \in Paths |->
    CASE MCKindOf[p] = "directory" -> {}
      [] p = "/tmp.yaml" -> {"yaml"}
      [] p = "/index.md" -> {"index"}
      [] OTHER -> Contents \ {"yaml", "index"}]

MCSizeOf == [c \in Contents |-> 1]
MCEmbeds == [c \in Contents |-> {}]
MCRelinked(c, p, q) == c
MCKeyHolder == [k \in Keys |-> Null]
\* What a page says matters only by being the same as before or not.
Interchangeable == Permutations(Contents \ {"yaml", "index"})
=============================================================================
