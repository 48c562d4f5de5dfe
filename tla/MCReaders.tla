----------------------------- MODULE MCReaders -----------------------------
(***************************************************************************)
(* A small site for Readers: pages and an image that move between the root  *)
(* and a folder.                                                           *)
(***************************************************************************)
EXTENDS Site, TLC

Parents == "/" :> "/" @@ "/tmp.yaml" :> "/" @@ "/index.md" :> "/"
           @@ "/a" :> "/" @@ "/a/a.md" :> "/a"
           @@ "/i.png" :> "/" @@ "/a/i.png" :> "/a"

MCParentOf == [p \in Paths |-> Parents[p]]

MCKindOf == [p \in Paths |->
    CASE p \in {"/", "/a"} -> "directory"
      [] p = "/tmp.yaml" -> "config"
      [] p \in {"/i.png", "/a/i.png"} -> "asset"
      [] OTHER -> "page"]

MCAbove == [p \in Paths |->
    IF p = "/" THEN {} ELSE IF Parents[p] = "/a" THEN {"/", "/a"} ELSE {"/"}]

MCRenderedOf == [p \in Paths |->
    CASE p = "/index.md" -> "/index" [] p = "/a/a.md" -> "/a/a"
      [] OTHER -> p]

MCAccepted == [p \in Paths |->
    CASE MCKindOf[p] = "directory" -> {}
      [] MCKindOf[p] = "config" -> {"yaml"}
      [] MCKindOf[p] = "asset" -> {"png"}
      [] OTHER -> {"index", "often"}]

MCSizeOf == [c \in Contents |-> 1]
MCEmbeds == [c \in Contents |-> {}]
MCRelinked(c, p, q) == c
MCKeyHolder == [k \in Keys |-> Null]

MCPageAt == "/" :> "/index.md" @@ "/a/" :> Null @@ "/a" :> Null
            @@ "/a/a" :> "/a/a.md" @@ "/i.png" :> Null @@ "/a/i.png" :> Null
MCOtherAt == "/" :> "/" @@ "/a/" :> "/a" @@ "/a" :> "/a" @@ "/a/a" :> Null
             @@ "/i.png" :> "/i.png" @@ "/a/i.png" :> "/a/i.png"
MCIsDirURL == [a \in Addresses |-> a \in {"/", "/a/"}]
MCSlashForm == [a \in Addresses |-> IF a = "/a" THEN "/a/" ELSE Null]
MCAddressOf == [p \in Paths |->
    CASE p = "/index.md" -> "/" [] p = "/" -> "/" [] p = "/a" -> "/a/"
      [] p = "/a/a.md" -> "/a/a" [] p = "/tmp.yaml" -> Null [] OTHER -> p]
MCPlaceOf == "/a" :> 1 @@ "/" :> 2 @@ "/a/a.md" :> 3 @@ "/a/i.png" :> 4
             @@ "/i.png" :> 5 @@ "/index.md" :> 6 @@ "/tmp.yaml" :> 7
\* The query is "a", a word of one source and a part of some paths.
MCRankOf == [c \in Contents |-> IF c = "often" THEN 1 ELSE 0]
MCMatching == {"/tmp.yaml", "/a", "/a/a.md", "/a/i.png"}
MCReservedRoot == {<<"search", "">>}
=============================================================================
