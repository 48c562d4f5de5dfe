---------------------------- MODULE MCPlacement ----------------------------
(***************************************************************************)
(* A small site for Placement: the inbox and a folder, with a name or two  *)
(* for the document in each, and a page at the root.                       *)
(***************************************************************************)
EXTENDS Placement, TLC

Parents == "/" :> "/" @@ "/tmp.yaml" :> "/" @@ "/index.md" :> "/"
           @@ "/inbox" :> "/" @@ "/inbox/n.md" :> "/inbox"
           @@ "/a" :> "/" @@ "/a/n.md" :> "/a" @@ "/a/n-2.md" :> "/a" @@ "/b.md" :> "/"

MCParentOf == [p \in Paths |-> Parents[p]]

MCKindOf == [p \in Paths |->
    CASE p \in {"/", "/inbox", "/a"} -> "directory"
      [] p = "/tmp.yaml" -> "config"
      [] OTHER -> "page"]

MCAbove == [p \in Paths |->
    CASE p = "/" -> {}
      [] OTHER -> {"/", Parents[p]}]

MCRenderedOf == [p \in Paths |->
    CASE p = "/index.md" -> "/index"
      [] p = "/a/n.md" -> "/a/n"
      [] OTHER -> p]

MCAccepted == [p \in Paths |->
    CASE MCKindOf[p] = "directory" -> {}
      [] p = "/tmp.yaml" -> {"yaml"}
      [] p = "/index.md" -> {"index"}
      [] OTHER -> Contents \ {"yaml", "index"}]

MCSizeOf == [c \in Contents |-> 1]
MCEmbeds == [c \in Contents |-> {}]
MCRelinked(c, p, q) == c
MCKeyHolder == [k \in Keys |-> Null]
MCSlots == "/inbox" :> <<"/inbox/n.md">> @@ "/a" :> <<"/a/n.md", "/a/n-2.md">>

\* A call that leaves the location to tmp, and two that name a path: of a new
\* page, and of one that the caller has seen there.
MCAsks == {[at |-> Null, text |-> t, expected |-> 0] : t \in Texts}
          \cup [at : {"/b.md"}, text : Texts, expected : 0..1]
Interchangeable == Permutations(Handlers)
=============================================================================
