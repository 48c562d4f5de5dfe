----------------------------- MODULE Addressing ----------------------------
(***************************************************************************)
(* Path grammar and addresses (internal/models/paths.go, entry.go) and the  *)
(* order in which controllers/content.go tries what an address may mean.   *)
(* Nothing here changes: every operator is a function of a spelling.       *)
(*                                                                         *)
(* A spelling is its directories, the stem and extension of its last        *)
(* segment, and whether it ends with a slash; ext "" is no extension.       *)
(***************************************************************************)
EXTENDS Integers, Sequences, SequencesExt, FiniteSets

CONSTANTS
    PlainStems,         \* stems that validSegment accepts
    OtherStems,         \* upper case, dots, a colon: those it does not
    ReservedRoot,       \* reservedRoot, as <<stem, extension>>
    TextExtensions, BinaryExtensions, OtherExtensions,
    MaxPathDepth

\* A segment has characters; assetExtensions and fileExtensions have nothing in
\* common with each other or with pages; and the search page is reserved.
ASSUME GrammarAssumption ==
    /\ MaxPathDepth \in Nat
    /\ "" \notin PlainStems
    /\ {"", "md"} \cap (TextExtensions \cup BinaryExtensions) = {}
    /\ TextExtensions \cap BinaryExtensions = {}
    /\ {"json", "yaml"} \subseteq TextExtensions
    /\ <<"search", "">> \in ReservedRoot

Stems == PlainStems \cup OtherStems
Extensions == {"", "md"} \cup TextExtensions \cup BinaryExtensions \cup OtherExtensions

Spelling(dirs, stem, ext, slash) ==
    [dirs |-> dirs, stem |-> stem, ext |-> ext, slash |-> slash]

RootSpelling == Spelling(<<>>, "", "", TRUE)
ConfigSpelling == Spelling(<<>>, "tmp", "yaml", FALSE)

Spellings ==
    {RootSpelling} \cup
    [dirs : UNION {[1..n -> Stems] : n \in 0..MaxPathDepth},
     stem : Stems, ext : Extensions, slash : BOOLEAN]

-----------------------------------------------------------------------------
\* ValidatePath.

Kind(s) ==
    CASE s.ext = "" -> "directory"
      [] s.ext = "md" -> "page"
      [] s = ConfigSpelling -> "config"
      [] s.ext \in TextExtensions /\ s # ConfigSpelling -> "file"
      [] s.ext \in BinaryExtensions -> "asset"
      [] OTHER -> "none"

\* Wrong: a page takes up only the path it is spelled with.
RenderedAsSpelled(s) == s

\* PathInfo.Rendered.
Rendered(s) == IF Kind(s) = "page" THEN [s EXCEPT !.ext = ""] ELSE s

FirstSegment(s) == IF s.dirs = <<>> THEN <<s.stem, s.ext>> ELSE <<s.dirs[1], "">>

\* Wrong: looks at the name alone.
IsReservedName(s) == <<s.stem, s.ext>> \in ReservedRoot

IsReserved(s) ==
    \/ FirstSegment(s) \in ReservedRoot
    \/ FirstSegment(Rendered(s)) \in ReservedRoot

ValidatePath(s) ==
    \/ s = RootSpelling
    \/ /\ Len(s.dirs) < MaxPathDepth
       /\ Range(s.dirs) \cup {s.stem} \subseteq PlainStems
       /\ Kind(s) # "none"
       /\ s.slash => s.ext = ""
       /\ ~IsReserved(s)
       /\ FirstSegment(s) = <<"tmp", "yaml">> => Kind(s) = "config"

\* PathInfo.Path: a directory is known without the slash.
Canonical(s) == IF s = RootSpelling THEN s ELSE [s EXCEPT !.slash = FALSE]

ValidPaths == {Canonical(s) : s \in {t \in Spellings : ValidatePath(t)}}

\* The directory of the first n segments.
Directory(dirs, n) ==
    IF n = 0 THEN RootSpelling
    ELSE Spelling(SubSeq(dirs, 1, n - 1), dirs[n], "", FALSE)

Ancestors(p) ==
    IF p = RootSpelling THEN {} ELSE {Directory(p.dirs, n) : n \in 0..Len(p.dirs)}

-----------------------------------------------------------------------------
\* Where an entry is found.

WithSlash(d) == IF d = RootSpelling THEN d ELSE [d EXCEPT !.slash = TRUE]
InDirectory(d, stem, ext) ==
    IF d = RootSpelling THEN Spelling(<<>>, stem, ext, FALSE)
    ELSE Spelling(Append(d.dirs, d.stem), stem, ext, FALSE)

IsIndexPage(p) == Kind(p) = "page" /\ p.stem = "index"

HTMLPath(p) ==
    CASE IsIndexPage(p) -> WithSlash(Directory(p.dirs, Len(p.dirs)))
      [] Kind(p) = "page" /\ ~IsIndexPage(p) -> [p EXCEPT !.ext = ""]
      [] Kind(p) = "directory" -> WithSlash(p)
      [] OTHER -> p

\* Files and assets have none.
JSONPath(p) ==
    IF Kind(p) = "directory" THEN InDirectory(p, "index", "json")
    ELSE [p EXCEPT !.ext = "json"]

-----------------------------------------------------------------------------
\* What answers an address when site is the set of live paths: an entry, the
\* search, or nothing.

\* RenderedToCandidates.
PageCandidate(a) ==
    IF a.slash THEN {InDirectory(Canonical(a), "index", "md")}
    ELSE IF a.ext = "" THEN {[a EXCEPT !.ext = "md"]} ELSE {}

\* Resolve, redirects followed.
Resolve(a, site) ==
    LET found == PageCandidate(a) \cap site
        index == PageCandidate(WithSlash(a)) \cap site
        other == {Canonical(a)} \cap site
    IN  CASE found # {} -> found
          [] found = {} /\ other # {} /\ Kind(a) = "directory" ->
                IF index # {} THEN index ELSE other
          [] found = {} /\ other # {} /\ Kind(a) # "directory" /\ ~a.slash -> other
          [] OTHER -> {}

\* serveJSON strips the suffix and takes index for the directory.
WithoutJSON(a) ==
    IF a.stem = "index" THEN WithSlash(Directory(a.dirs, Len(a.dirs)))
    ELSE [a EXCEPT !.ext = ""]

SearchPages == {Spelling(<<>>, "search", ext, FALSE) : ext \in {"", "json"}}

\* serveContent: the order in which an address is understood.
Answers(a, site) ==
    IF a \in SearchPages THEN SearchPages
    ELSE IF a = ConfigSpelling THEN {a} \cap site
    ELSE IF a.ext \in TextExtensions /\ a \in site THEN {a}
    ELSE IF a.ext = "json" THEN Resolve(WithoutJSON(a), site)
    ELSE IF a.ext \in {"md"} \cup BinaryExtensions THEN {a} \cap site
    ELSE Resolve(a, site)

-----------------------------------------------------------------------------
\* The directories above a valid path are valid paths.
ValidAbove ==
    \A p \in ValidPaths : \A d \in Ancestors(p) :
        d \in ValidPaths /\ Kind(d) = "directory"

\* The site that holds two paths, if nothing in it renders alike.
SiteOf(p, q) == {p, q} \cup Ancestors(p) \cup Ancestors(q)
MayCoexist(p, q) ==
    \A x, y \in SiteOf(p, q) : Rendered(x) = Rendered(y) => x = y

\* Each of two paths answers at its path, at its HTML address and, unless a file
\* of that name is there, at its JSON address; a directory gives way to its
\* index page.  Left out is the one file the search page covers, /search.json.
AnswerWhereTheyLive ==
    \A p, q \in ValidPaths \ SearchPages : MayCoexist(p, q) =>
        LET site == SiteOf(p, q)
            opened == IF Kind(p) = "directory" /\ q = InDirectory(p, "index", "md")
                      THEN {q} ELSE {p}
        IN  /\ Answers(p, site) = opened
            /\ Answers(HTMLPath(p), site) = opened
            /\ Kind(p) \in {"page", "directory"} /\ JSONPath(p) \notin site =>
                  Answers(JSONPath(p), site) = opened
=============================================================================
