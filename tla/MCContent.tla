----------------------------- MODULE MCContent -----------------------------
(***************************************************************************)
(* Small sites for Content: the cfg picks the paths, contents, grants and   *)
(* keys of a run; the tables below say what each path and content is.      *)
(***************************************************************************)
EXTENDS Content, TLC

CONSTANTS HeldByLink    \* the keys that a link's requests carry

PageParent == [p \in {"/a.md", "/b.md", "/index.md"} |-> "/"]
              @@ [p \in {"/a/a.md", "/a/b.md"} |-> "/a"]
              @@ ("/a/b/c.md" :> "/a/b")

DirectoryParent == "/" :> "/" @@ "/a" :> "/" @@ "/b" :> "/" @@ "/a/b" :> "/a"

FileParent == "/tmp.yaml" :> "/" @@ "/a/d.csv" :> "/a"

AssetParent == "/i.png" :> "/" @@ "/j.png" :> "/" @@ "/a/i.png" :> "/a"

Parents == PageParent @@ DirectoryParent @@ FileParent @@ AssetParent

MCParentOf == [p \in Paths |-> Parents[p]]

MCKindOf == [p \in Paths |->
    CASE p = "/tmp.yaml" -> "config"
      [] p \in DOMAIN PageParent -> "page"
      [] p \in DOMAIN AssetParent -> "asset"
      [] p \in DOMAIN DirectoryParent -> "directory"
      [] OTHER -> "file"]

MCAbove ==
    LET up[p \in Paths] == IF p = Root THEN {} ELSE {Parents[p]} \cup up[Parents[p]]
    IN  [p \in Paths |-> up[p]]

Stems == "/a.md" :> "/a" @@ "/b.md" :> "/b" @@ "/index.md" :> "/index"
         @@ "/a/a.md" :> "/a/a" @@ "/a/b.md" :> "/a/b" @@ "/a/b/c.md" :> "/a/b/c"

MCRenderedOf == [p \in Paths |-> IF MCKindOf[p] = "page" THEN Stems[p] ELSE p]

\* Sources: "text", "more", and "linked", whose relative link reads "relinked"
\* after a move to another directory; images: "png" and "jpg"; "yaml".
MCAccepted == [p \in Paths |->
    CASE MCKindOf[p] = "directory" -> {}
      [] MCKindOf[p] = "config" -> Contents \cap {"yaml"}
      [] MCKindOf[p] = "asset" -> Contents \cap {"png", "jpg"}
      [] MCKindOf[p] = "file" -> Contents \cap {"text"}
      [] OTHER -> Contents \ {"yaml", "png", "jpg"}]

MCSizeOf == [c \in Contents |-> IF c \in {"more", "relinked", "jpg"} THEN 2 ELSE 1]

\* "shows" embeds /i.png, "both" embeds /i.png and /j.png.
MCEmbeds == [c \in Contents |->
    CASE c = "shows" -> {"/i.png"} \cap Paths
      [] c = "both" -> {"/i.png", "/j.png"} \cap Paths
      [] OTHER -> {}]

MCRelinked(c, p, q) ==
    IF c = "linked" /\ Parents[p] # Parents[q] /\ "relinked" \in Contents
    THEN "relinked" ELSE c

MCKeyHolder == [k \in Keys |-> IF k \in HeldByLink THEN CHOOSE g \in Grants : TRUE ELSE Null]

Interchangeable == Permutations(Grants)
=============================================================================
