------------------------------ MODULE Readers ------------------------------
(***************************************************************************)
(* Readers of the filesystem: an address is resolved and shown             *)
(* (controllers/content.go over Resolve, ResolveRaw and Read of fs_read.go) *)
(* and a listing, a search or a history is read page by page (List, Search, *)
(* History).                                                               *)
(*                                                                         *)
(* Readers take no lock and run at READ COMMITTED, so each statement sees   *)
(* the store as it is at that moment, and a writer may commit between any   *)
(* two: every statement is a step.  Between the pages of a crawl the client *)
(* holds only a cursor.                                                    *)
(***************************************************************************)
EXTENDS Content

CONSTANTS
    Readers,
    Addresses,          \* the request paths that readers ask for
    PageAt, OtherAt,    \* RenderedToCandidates: the page and the other path
    IsDirURL,           \* the address ends with a slash
    SlashForm,          \* the address with a slash appended
    AddressOf,          \* Entry.HTMLPath of a path
    PlaceOf,            \* the order of List: directories first, then by path
    RankOf, BestRank,   \* ts_rank of a source for the query, 0 if no match
    Matching, PathRank, \* the paths that contain the query, and their advance
    Limit               \* rows in a page of a crawl

ASSUME AddressAssumption ==
    /\ PageAt \in [Addresses -> Paths \cup {Null}]
    /\ OtherAt \in [Addresses -> Paths \cup {Null}]
    /\ IsDirURL \in [Addresses -> BOOLEAN]
    /\ SlashForm \in [Addresses -> Addresses \cup {Null}]
    /\ AddressOf \in [Paths -> Addresses \cup {Null}]
    /\ PlaceOf \in [Paths -> Nat \ {0}]
    /\ BestRank \in Nat /\ RankOf \in [Contents -> 0..BestRank]
    /\ PathRank \in Nat /\ Matching \subseteq Paths
    /\ Limit \in Nat \ {0}
    /\ Null \notin Addresses

\* RenderedToCandidates: beside a page, and for a slash, the other path is a
\* directory, which the slash form of the address lists.  Entry.HTMLPath: only
\* the configuration has no address that these readers ask for.
ASSUME CandidateAssumption ==
    /\ \A a \in Addresses :
          /\ PageAt[a] # Null => KindOf[PageAt[a]] = "page"
          /\ (PageAt[a] # Null \/ IsDirURL[a]) /\ OtherAt[a] # Null =>
                KindOf[OtherAt[a]] = "directory"
          /\ ~IsDirURL[a] /\ OtherAt[a] \in Directories => SlashForm[a] \in Addresses
    /\ \A p \in Paths : AddressOf[p] = Null => KindOf[p] = "config"

VARIABLES
    view,       \* a request for an address, between two statements
    shown,      \* the last answer: the document read and the entity tag sent
    crawl       \* a listing, search or history read page by page

readerVars == <<view, shown, crawl>>
readersVars == <<path, parent, live, bytes, hist, lastId, alias, retained,
                 grantOf, revoked, allowed, receipt, view, shown, crawl>>

NoView == [step |-> "idle", at |-> Null, n |-> 0, doc |-> 0, from |-> Null,
           tag |-> 0, steady |-> FALSE]
NoAnswer == [doc |-> 0, rev |-> 0, of |-> 0, tag |-> 0]
NoCrawl == [does |-> "none", at |-> Null, after |-> 0,
            seen |-> {}, twice |-> {}, kept |-> {}]

ReadersInit ==
    /\ Init
    /\ view = [r \in Readers |-> NoView]
    /\ shown = [r \in Readers |-> NoAnswer]
    /\ crawl = [r \in Readers |-> NoCrawl]

StoreUnchanged == UNCHANGED <<entryVars, grantVars, receipt>>
Idle(r) == view[r].step = "idle" /\ crawl[r].does = "none"

-----------------------------------------------------------------------------
\* Resolving an address.

\* Wrong: asks for a redirect first.
LookupsAliasFirst(a) ==
    IF IsDirURL[a] THEN <<"pageAlias", "page", "other">>
    ELSE <<"pageAlias", "otherAlias", "page", "other">>

\* The statements of Resolve, in order.
Lookups(a) ==
    IF IsDirURL[a] THEN <<"page", "other", "pageAlias">>
    ELSE <<"page", "other", "pageAlias", "otherAlias">>

\* RenderedToCandidates, for the statement at hand.
Candidate(a, lookup) ==
    IF lookup \in {"page", "pageAlias"} THEN PageAt[a] ELSE OtherAt[a]

\* liveEntryByPath and aliasByPath.
LiveAt(p) == {i \in Used : live[i] /\ path[i] = p}
RowsAt(p) == {i \in Used : path[i] = p}
Leads(p) == IF p = Null THEN {} ELSE {alias[p]} \ {0}

\* The documents that live at an address, and those it opens.
LivingAt(a) == LiveAt(PageAt[a]) \cup LiveAt(OtherAt[a])
Opens(a) == LivingAt(a) \cup {i \in Leads(PageAt[a]) \cup Leads(OtherAt[a]) : live[i]}

Begin(r, a) ==
    view' = [view EXCEPT ![r] =
                [NoView EXCEPT !.step = "lookup", !.at = a, !.n = 1,
                               !.steady = Opens(a) # {}]]

Request(r, a) ==
    /\ Idle(r)
    /\ Begin(r, a)
    /\ shown' = [shown EXCEPT ![r] = NoAnswer]
    /\ StoreUnchanged /\ UNCHANGED crawl

\* The statement found nothing: the next one, or 404.
FoundNothing(r) ==
    LET v == view[r]
    IN  view' = [view EXCEPT ![r] =
                    IF v.n < Len(Lookups(v.at)) THEN [v EXCEPT !.n = v.n + 1]
                    ELSE [v EXCEPT !.step = "missing"]]

\* What a live row at the address answers: a page, file or asset is shown; a
\* directory is listed, or redirected to the address that lists it.
Found(r, e) ==
    IF KindOf[path[e]] # "directory"
    THEN view' = [view EXCEPT ![r] = [@ EXCEPT !.step = "body", !.doc = e,
                                               !.from = path[e],
                                               !.tag = CurrentRevision(e)]]
    ELSE IF IsDirURL[view[r].at] THEN view' = [view EXCEPT ![r] = NoView]
    ELSE Begin(r, SlashForm[view[r].at])

\* A slash asks for a directory or its index page only.
Serves(r, e) == IsDirURL[view[r].at] => KindOf[path[e]] \in {"page", "directory"}

Statement(r) ==
    /\ view[r].step = "lookup"
    /\ LET lookup == Lookups(view[r].at)[view[r].n]
           p == Candidate(view[r].at, lookup)
           rows == {e \in LiveAt(p) : Serves(r, e)}
       IN  IF lookup \in {"pageAlias", "otherAlias"}
           THEN IF Leads(p) # {}
                THEN view' = [view EXCEPT ![r] =
                                [@ EXCEPT !.step = "target", !.doc = alias[p]]]
                ELSE FoundNothing(r)
           ELSE IF rows # {} THEN \E e \in rows : Found(r, e)
           ELSE FoundNothing(r)
    /\ StoreUnchanged /\ UNCHANGED <<shown, crawl>>

\* Wrong: sends the reader back to the address that redirects.
RedirectInPlace(r) ==
    /\ view[r].step = "target"
    /\ LET e == view[r].doc
       IN  IF live[e] THEN Begin(r, view[r].at)
           ELSE view' = [view EXCEPT ![r].step = "missing"]
    /\ StoreUnchanged /\ UNCHANGED <<shown, crawl>>

\* aliasTarget: the reader is sent to where the document lives now.
Redirect(r) ==
    /\ view[r].step = "target"
    /\ LET e == view[r].doc
       IN  IF live[e] /\ AddressOf[path[e]] # Null THEN Begin(r, AddressOf[path[e]])
           ELSE view' = [view EXCEPT ![r].step = "missing"]
    /\ StoreUnchanged /\ UNCHANGED <<shown, crawl>>

Answer(r, e, rev, of, tag) ==
    /\ shown' = [shown EXCEPT ![r] = [doc |-> e, rev |-> rev, of |-> of, tag |-> tag]]
    /\ view' = [view EXCEPT ![r] = NoView]

\* Wrong: takes the tag from the row once the body has been rendered.
BodyThenTag(r) ==
    /\ view[r].step = "body"
    /\ IF live[view[r].doc]
       THEN Answer(r, view[r].doc, view[r].tag,
                   view[r].doc, CurrentRevision(view[r].doc))
       ELSE view' = [view EXCEPT ![r].step = "moved"] /\ UNCHANGED shown
    /\ StoreUnchanged /\ UNCHANGED crawl

\* serveHTML and serveFile: the source is read by the path the entry had (a
\* tombstone there is read as well) and goes out with the tag of the entry that
\* was resolved; an image is sent from the resolved row.
Body(r) ==
    /\ view[r].step = "body"
    /\ LET e == view[r].doc
           rows == IF KindOf[view[r].from] = "asset" THEN {e} ELSE RowsAt(view[r].from)
       IN  IF rows = {}
           THEN view' = [view EXCEPT ![r].step = "moved"] /\ UNCHANGED shown
           ELSE \E i \in rows :
                   Answer(r, i, IF i = e /\ KindOf[view[r].from] = "asset"
                                THEN view[r].tag ELSE CurrentRevision(i),
                          e, view[r].tag)
    /\ StoreUnchanged /\ UNCHANGED crawl

\* A 404 is delivered.
NotFound(r) ==
    /\ view[r].step \in {"missing", "moved"}
    /\ view' = [view EXCEPT ![r] = NoView]
    /\ StoreUnchanged /\ UNCHANGED <<shown, crawl>>

-----------------------------------------------------------------------------
\* Reading page by page.

\* The rows of the query, each with the key it is ordered by.
Children(d) ==
    {[id |-> i, key |-> PlaceOf[path[i]]] :
        i \in {j \in Used : live[j] /\ path[j] # d /\
                            \E e \in LiveAt(d) : parent[j] = e}}

\* Search: below a directory, the sources and the paths that match, best first.
Rank(i) ==
    RankOf[CurrentContent(i)] + (IF path[i] \in Matching THEN PathRank ELSE 0)
Hits(d) ==
    {[id |-> i, key |-> (BestRank + PathRank - Rank(i)) * MaxEntries + i] :
        i \in {j \in LiveOf("page") \cup LiveOf("file") :
                  d \in Above[path[j]]
                  /\ (RankOf[CurrentContent(j)] > 0 \/ path[j] \in Matching)}}

\* Newest first, of the row at the path now, a tombstone too.
Revised(p) ==
    {[id |-> i, key |-> MaxRevisions + 1 - n] :
        i \in RowsAt(p), n \in {m \in 1..MaxRevisions : \E e \in RowsAt(p) : m <= Len(hist[e])}}

Items(does, at) ==
    CASE does = "list" -> Children(at)
      [] does = "search" -> Hits(at)
      [] does = "history" -> Revised(at)
      [] OTHER -> {}

Crawls == {"list", "search", "history"}

\* List wants a live directory, History a row.
Readable(does, at) ==
    CASE does = "list" -> LiveAt(at) # {}
      [] does = "history" -> RowsAt(at) # {}
      [] OTHER -> TRUE

StartCrawl(r, does, at) ==
    /\ Idle(r)
    /\ does \in {"list", "search"} => KindOf[at] = "directory"
    /\ Readable(does, at)
    /\ crawl' = [crawl EXCEPT ![r] =
                    [NoCrawl EXCEPT !.does = does, !.at = at, !.kept = Items(does, at)]]
    /\ StoreUnchanged /\ UNCHANGED <<view, shown>>

\* The query of one page: the rows after the cursor, by key, and whether the
\* row beyond the limit came back.
After(r) == {i \in Items(crawl[r].does, crawl[r].at) : i.key > crawl[r].after}
FirstOf(rows) ==
    {i \in rows : Cardinality({j \in rows : j.key < i.key}) < Limit}

\* Wrong: the cursor names the row beyond the page, which the next one skips.
CursorBeyond(rows) == Min({i.key : i \in rows \ FirstOf(rows)})

\* The cursor names the last row of the page.
Cursor(rows) == Max({i.key : i \in FirstOf(rows)})

CrawlPage(r) ==
    /\ crawl[r].does \in Crawls
    /\ IF ~Readable(crawl[r].does, crawl[r].at)
       THEN crawl' = [crawl EXCEPT ![r] = NoCrawl]
       ELSE LET c == crawl[r]
                rows == After(r)
                page == FirstOf(rows)
            IN  crawl' = [crawl EXCEPT ![r] =
                   [c EXCEPT !.seen = c.seen \cup page,
                             !.twice = c.twice \cup (c.seen \cap page),
                             !.does = IF rows = page THEN "done" ELSE c.does,
                             !.after = IF rows = page THEN c.after ELSE Cursor(rows)]]
    /\ StoreUnchanged /\ UNCHANGED <<view, shown>>

EndCrawl(r) ==
    /\ crawl[r].does = "done"
    /\ crawl' = [crawl EXCEPT ![r] = NoCrawl]
    /\ StoreUnchanged /\ UNCHANGED <<view, shown>>

-----------------------------------------------------------------------------
\* Writers.  A ghost follows each reader: whether the address it asks for has
\* opened a document all along with none arriving there, and which rows of a
\* crawl have been there, unchanged in place, all along.

OpenNow == [a \in Addresses |-> Opens(a)]
LivingNow == [a \in Addresses |-> LivingAt(a)]
ItemsNow == [c \in Crawls \X Paths |-> Items(c[1], c[2])]

Watched ==
    /\ view' = [r \in Readers |->
                  LET a == view[r].at
                  IN  IF a = Null THEN view[r]
                      ELSE [view[r] EXCEPT !.steady =
                              /\ @
                              /\ OpenNow'[a] # {}
                              /\ LivingNow'[a] \subseteq LivingNow[a]]]
    /\ crawl' = [r \in Readers |->
                   LET c == crawl[r]
                   IN  IF c.does \notin Crawls THEN c
                       ELSE [c EXCEPT !.kept = @ \cap ItemsNow'[<<c.does, c.at>>]]]

Write ==
    /\ Next
    /\ Watched
    /\ UNCHANGED shown

Reading(r) == Statement(r) \/ Redirect(r) \/ Body(r) \/ NotFound(r)
Crawling(r) == CrawlPage(r) \/ EndCrawl(r)

ReadersNext ==
    \/ \E r \in Readers :
          \/ \E a \in Addresses : Request(r, a)
          \/ \E does \in Crawls, p \in Paths : StartCrawl(r, does, p)
          \/ Reading(r) \/ Crawling(r)
    \/ Write

\* A handler that has begun goes on, and a client that has a cursor asks for
\* the next page.  Nothing obliges a writer to write or a reader to come.
ReadersSpec ==
    /\ ReadersInit
    /\ [][ReadersNext]_readersVars
    /\ \A r \in Readers : WF_readersVars(Reading(r)) /\ WF_readersVars(Crawling(r))

-----------------------------------------------------------------------------
\* A document that is moved away while its address is being looked up is found
\* at its old place or through the redirect, never missed between the two: the
\* lookup answers 404 only if the address opened nothing at some moment, or a
\* document came to it meanwhile (the order of the statements of Resolve).
LookupsMissNothing ==
    \A r \in Readers : view[r].step = "missing" => ~view[r].steady

\* Whoever sends back the entity tag of a page while it is still the tag of a
\* live document was shown that very revision: the tag is read before the body,
\* in another transaction, and the body by path (serveHTML, serveFile).
TagIsOfWhatWasShown ==
    \A r \in Readers : LET a == shown[r] IN
        a.of # 0 /\ live[a.of] /\ CurrentRevision(a.of) = a.tag =>
            a.doc = a.of /\ a.rev = a.tag

\* Reading page by page shows every row that was there all along, and shows it
\* once, whatever was created, edited, moved or deleted between two pages
\* (the cursors of List, Search and History).  A row stays while its key does:
\* a hit that is edited or moved may rank, and so may be listed, elsewhere.
CrawlsAreComplete ==
    \A r \in Readers :
        /\ crawl[r].does = "done" => crawl[r].kept \subseteq crawl[r].seen
        /\ crawl[r].kept \cap crawl[r].twice = {}

\* Every request is answered, through however many redirects, and every crawl
\* comes to its last page (once the writers pause: MaxRevisions).
RequestsEnd == \A r \in Readers : ~Idle(r) ~> Idle(r)
=============================================================================
