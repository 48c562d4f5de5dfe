------------------------------ MODULE Content ------------------------------
(***************************************************************************)
(* The versioned filesystem of one tenant: internal/models/fs_write.go,    *)
(* fs_change.go, asset.go and the grant operations of share.go.            *)
(*                                                                         *)
(* Every mutation of the code runs inside db.WithTenantSerialized, which   *)
(* holds the tenant's advisory lock until commit, so each is one action.   *)
(* A refused request rolls back and is a stuttering step.  What remains of *)
(* concurrency is in the arguments: a request carries a path, a revision   *)
(* number or a grant that was read at any earlier time.                    *)
(*                                                                         *)
(* A table is a function per column from row ids; an id is used once and   *)
(* a tombstone keeps its row.  Null stands for SQL NULL, 0 for a null id.  *)
(***************************************************************************)
EXTENDS Integers, Sequences, FiniteSets, FiniteSetsExt

CONSTANTS
    Paths,              \* the canonical source paths that requests name
    Root, ConfigPath, IndexPath,   \* "/", "/tmp.yaml", "/index.md"
    KindOf,             \* PathInfo.Kind
    ParentOf,           \* PathInfo.Parent
    Above,              \* Ancestors(p): the directories above p
    RenderedOf,         \* PathInfo.Rendered
    Contents,           \* page and file sources, image bytes
    SeedConfig, SeedIndex,         \* the contents a new tenant starts with
    Accepted,           \* per path, the contents its kind's validators pass
    SizeOf,             \* bytes of a content
    Embeds,             \* the local images a content shows, as paths
    Relinked(_, _, _),  \* RewriteRelativeLinks(content, from, to)
    Grants,             \* share_grant rows
    Keys,               \* (principal, request id) pairs that may be sent again
    KeyHolder,          \* the principal of a key: a grant, or Null for the owner
    MaxPages, MaxDirectories, MaxRetainedBytes, MaxCurrentAssetBytes,
    MaxEntries,         \* bound: rows of the entry table
    MaxRevisions        \* bound: rows of the revision table

Null == "null"
Kinds == {"directory", "page", "config", "file", "asset"}
TextKinds == {"page", "config", "file"}
Operations == {"create", "update", "restore", "move", "delete"}

Ids == 1..MaxEntries
Directories == {p \in Paths : KindOf[p] = "directory"}

Revisions == [op : Operations, path : Paths, content : Contents \cup {Null},
              by : Grants \cup {Null}, key : Keys \cup {Null}]

\* ValidatePath decides kind, parent and rendered path from the spelling alone.
ASSUME PathAssumption ==
    /\ Null \notin Paths \cup Contents \cup Keys \cup Grants
    /\ {Root, ConfigPath, IndexPath} \subseteq Paths
    /\ KindOf \in [Paths -> Kinds]
    /\ KindOf[Root] = "directory"
    /\ KindOf[ConfigPath] = "config"
    /\ KindOf[IndexPath] = "page"
    /\ ParentOf \in [Paths -> Directories]
    /\ Above \in [Paths -> SUBSET Directories]
    /\ IsFiniteSet(Paths)
    /\ ParentOf[Root] = Root /\ Above[Root] = {}
    /\ ParentOf[ConfigPath] = Root /\ ParentOf[IndexPath] = Root
    /\ \A p \in Paths \ {Root} : Above[p] = Above[ParentOf[p]] \cup {ParentOf[p]}
    /\ \A p \in Paths : \A d \in Above[p] : Above[d] \subseteq Above[p]

\* Only a page differs from its rendered path, by the suffix it drops.
ASSUME RenderedAssumption ==
    /\ DOMAIN RenderedOf = Paths
    /\ \A p, q \in Paths :
          KindOf[p] = KindOf[q] /\ RenderedOf[p] = RenderedOf[q] => p = q
    /\ \A p \in Paths : \A d \in Above[p] : RenderedOf[d] # RenderedOf[p]
    /\ RenderedOf[ConfigPath] # RenderedOf[IndexPath]

ASSUME ContentAssumption ==
    /\ Accepted \in [Paths -> SUBSET Contents]
    /\ SeedConfig \in Contents /\ SeedIndex \in Contents
    /\ SizeOf \in [Contents -> Nat]
    /\ Embeds \in [Contents -> SUBSET Paths]
    /\ \A c \in Contents, p, q \in Paths : Relinked(c, p, q) \in Contents
    /\ KeyHolder \in [Keys -> Grants \cup {Null}]

ASSUME BoundAssumption ==
    /\ MaxPages \in Nat /\ MaxPages >= 1   \* /index.md
    /\ MaxDirectories \in Nat
    /\ MaxRetainedBytes \in Nat /\ MaxCurrentAssetBytes \in Nat
    /\ MaxEntries \in Nat /\ MaxEntries >= 3
    /\ MaxRevisions \in Nat

VARIABLES
    path,       \* entry.path, Null where no row was inserted yet
    parent,     \* entry.parent_id
    live,       \* the row exists and deleted_at is NULL
    bytes,      \* entry.size_bytes
    hist,       \* the revisions of an entry, by seq
    lastId,     \* the id sequence of the entry table
    alias,      \* path_alias: the entry an old path leads to, or 0
    retained,   \* SUM(revision.size_bytes) + SUM(asset_blob.size_bytes)
    grantOf,    \* share_grant.entry_id, 0 where no row was inserted yet
    revoked,    \* share_grant.revoked_at is set
    allowed,    \* share_grant_asset: the entries a grant may show
    receipt     \* mutation_receipt of a key: "none", "live" or "expired"

entryVars == <<path, parent, live, bytes, hist, lastId, alias, retained>>
grantVars == <<grantOf, revoked, allowed>>
vars == <<path, parent, live, bytes, hist, lastId, alias, retained,
          grantOf, revoked, allowed, receipt>>

-----------------------------------------------------------------------------
\* Reading the tables.

Used == {i \in Ids : path[i] # Null}
LiveOf(kind) == {i \in Ids : live[i] /\ KindOf[path[i]] = kind}
LivePaths == {path[i] : i \in {j \in Ids : live[j]}}
TakenPaths == {path[i] : i \in Used}

CurrentRevision(e) == Len(hist[e])
CurrentContent(e) == hist[e][Len(hist[e])].content
PathsHeld(e) == {hist[e][n].path : n \in 1..Len(hist[e])}

RowAt(column, p) == CHOOSE i \in Ids : column[i] = p

TotalRevisions == Cardinality(UNION {{i} \X DOMAIN hist[i] : i \in Ids})

CurrentAssetBytes ==
    LET size(i) == bytes[i] IN MapThenSumSet(size, LiveOf("asset"))

-----------------------------------------------------------------------------
\* Checks and helpers shared by the mutations.

\* ensureParents: the directories a path still needs, created or revived.
MissingAbove(p) == Above[p] \ LivePaths

\* Wrong: asks for one directory, though several may be revived.
CheckDirectoryQuotaOnce(dirs) ==
    dirs # {} => Cardinality(LiveOf("directory")) - 1 < MaxDirectories

CheckDirectoryQuota(dirs) ==
    dirs # {} => Cardinality(LiveOf("directory")) - 1 + Cardinality(dirs)
                    <= MaxDirectories

CheckPageQuota(p) ==
    KindOf[p] = "page" => Cardinality(LiveOf("page")) < MaxPages

CheckRetainedQuota(adding) == retained + adding <= MaxRetainedBytes

\* Wrong: takes the place of a tombstone that may yet be restored.
CheckRenderedFreeOfLive(ps) ==
    \A p \in ps, i \in Used : live[i] => RenderedOf[path[i]] # RenderedOf[p]

\* checkRenderedFree, its query: no row, tombstones included, renders there.
CheckRenderedFree(ps) ==
    \A p \in ps, i \in Used : RenderedOf[path[i]] # RenderedOf[p]

\* Wrong: clears only the redirects of the very same source path.
ReleasedByPath(ps) == [q \in Paths |-> IF q \in ps THEN 0 ELSE alias[q]]

\* checkRenderedFree, its DELETE: redirects give way to the paths now taken.
\* Equal paths render alike, so the rendered path covers both columns.
Released(ps) ==
    [q \in Paths |-> IF \E p \in ps : RenderedOf[p] = RenderedOf[q]
                     THEN 0 ELSE alias[q]]

\* The next ids of the sequence, given to new rows from the root downward.
NewRows(ps) ==
    {new \in [(lastId + 1)..(lastId + Cardinality(ps)) -> ps] :
        /\ lastId + Cardinality(ps) <= MaxEntries
        /\ \A p \in ps : \E i \in DOMAIN new : new[i] = p
        /\ \A i, j \in DOMAIN new :
              i < j => new[j] \notin Above[new[i]] \cup {new[i]}}

PathsOf(new) == {new[i] : i \in DOMAIN new}

HistoryRoom(n) == TotalRevisions + n <= MaxRevisions

Revision(op, p, c, by, k) ==
    [op |-> op, path |-> p, content |-> c, by |-> by, key |-> k]

\* loadReceipt lets the mutation run: there is no receipt, or it has expired.
LoadReceipt(k) == k # Null => receipt[k] # "live"

\* Wrong: takes the place of the expired row.
SaveReceiptOver(k) ==
    IF k = Null THEN UNCHANGED receipt
    ELSE receipt' = [receipt EXCEPT ![k] = "live"]

\* saveReceipt inserts; UNIQUE (tenant_id, principal_key, request_id) fails the
\* whole transaction while an expired row is still there.
SaveReceipt(k) ==
    IF k = Null THEN UNCHANGED receipt
    ELSE /\ receipt[k] = "none"
         /\ receipt' = [receipt EXCEPT ![k] = "live"]

SentBy(by, k) == k # Null => KeyHolder[k] = by

\* Entry e comes to be live at p with a new revision; the directories missing
\* above p are inserted (new) or revived, each with a revision of its own.
Publish(e, p, new, rev, size) ==
    LET dirs == MissingAbove(p)
        inserted == [i \in Ids |-> IF i \in DOMAIN new THEN new[i] ELSE path[i]]
        dirRevision(i) ==
            Revision(IF i \in DOMAIN new THEN "create" ELSE "restore",
                     path'[i], Null, Null, rev.key)
    IN  /\ HistoryRoom(Cardinality(dirs) + 1)
        /\ CheckDirectoryQuota(dirs)
        /\ CheckRenderedFree(PathsOf(new))
        /\ path' = [inserted EXCEPT ![e] = p]
        /\ live' = [i \in Ids |-> live[i] \/ path'[i] \in dirs \cup {p}]
        /\ parent' = [i \in Ids |->
                        IF path'[i] \in dirs \cup {p}
                        THEN RowAt(path', ParentOf[path'[i]]) ELSE parent[i]]
        /\ hist' = [i \in Ids |->
                        CASE i = e -> Append(hist[i], rev)
                          [] i # e /\ path'[i] \in dirs ->
                                Append(hist[i], dirRevision(i))
                          [] OTHER -> hist[i]]
        /\ bytes' = [bytes EXCEPT ![e] = size]
        /\ lastId' = lastId + Cardinality(DOMAIN new)

\* Wrong: squashes a save into the revision before it.
AmendInPlace(e, rev, size) ==
    /\ HistoryRoom(1)
    /\ hist' = [hist EXCEPT ![e][CurrentRevision(e)] = rev]
    /\ bytes' = [bytes EXCEPT ![e] = size]
    /\ UNCHANGED <<path, parent, live, lastId, alias>>

\* A revision of a live entry that keeps its place in the tree.
Amend(e, rev, size) ==
    /\ HistoryRoom(1)
    /\ hist' = [hist EXCEPT ![e] = Append(@, rev)]
    /\ bytes' = [bytes EXCEPT ![e] = size]
    /\ UNCHANGED <<path, parent, live, lastId, alias>>

-----------------------------------------------------------------------------
\* Write: create, replace or revive a page, a file or the configuration.

WriteCreate(k, p, c) ==
    /\ LoadReceipt(k) /\ SentBy(Null, k)
    /\ KindOf[p] \in TextKinds /\ p \notin TakenPaths
    /\ c \in Accepted[p]
    /\ CheckPageQuota(p)
    /\ CheckRetainedQuota(SizeOf[c])
    /\ \E new \in NewRows((MissingAbove(p) \cup {p}) \ TakenPaths) :
          \E e \in DOMAIN new :
             /\ new[e] = p
             /\ Publish(e, p, new, Revision("create", p, c, Null, k), SizeOf[c])
             /\ alias' = Released(PathsOf(new))
    /\ retained' = retained + SizeOf[c]
    /\ SaveReceipt(k)
    /\ UNCHANGED grantVars

WriteRevive(k, e, c, expected) ==
    /\ LoadReceipt(k) /\ SentBy(Null, k)
    /\ e \in Used /\ ~live[e] /\ KindOf[path[e]] \in TextKinds
    /\ expected \in {0, CurrentRevision(e)}
    /\ c \in Accepted[path[e]]
    /\ CheckPageQuota(path[e])
    /\ CheckRetainedQuota(SizeOf[c])
    /\ \E new \in NewRows(MissingAbove(path[e]) \ TakenPaths) :
          /\ Publish(e, path[e], new,
                     Revision("restore", path[e], c, Null, k), SizeOf[c])
          /\ alias' = Released(PathsOf(new))
    /\ retained' = retained + SizeOf[c]
    /\ SaveReceipt(k)
    /\ UNCHANGED grantVars

\* Wrong: trusts the path that was resolved before the tenant lock was held.
ShareMayWriteAnywhere(g, p) ==
    /\ grantOf[g] # 0 /\ ~revoked[g]
    /\ live[grantOf[g]]

\* The recheck of a grant inside Write.  The path is the one the request read
\* when it resolved the token, so any path the document has had.
ShareMayWrite(g, p) ==
    /\ grantOf[g] # 0 /\ ~revoked[g]
    /\ live[grantOf[g]] /\ path[grantOf[g]] = p

\* Wrong: an edit brings the allowlists of the document up to date.
WriteUpdateRefreshing(by, k, p, c, expected) ==
    /\ LoadReceipt(k) /\ SentBy(by, k)
    /\ by # Null => ShareMayWrite(by, p)
    /\ \E e \in Ids :
          /\ live[e] /\ path[e] = p /\ KindOf[p] = "page"
          /\ expected = CurrentRevision(e) /\ c \in Accepted[p]
          /\ Amend(e, Revision("update", p, c, by, k), SizeOf[c])
          /\ allowed' = [g \in Grants |->
                IF grantOf[g] # e THEN allowed[g]
                ELSE {a \in LiveOf("asset") : path[a] \in Embeds[c]}]
    /\ SaveReceipt(k)
    /\ UNCHANGED <<retained, grantOf, revoked>>

\* Replacing a live text; saving what is already there appends nothing.
WriteUpdate(by, k, p, c, expected) ==
    /\ LoadReceipt(k) /\ SentBy(by, k)
    /\ by # Null => ShareMayWrite(by, p) /\ KindOf[p] # "config"
    /\ \E e \in Ids :
          /\ live[e] /\ path[e] = p /\ KindOf[p] \in TextKinds
          /\ expected = CurrentRevision(e)
          /\ c \in Accepted[p]
          /\ \/ /\ c = CurrentContent(e)
                /\ UNCHANGED entryVars
             \/ /\ c # CurrentContent(e)
                /\ CheckRetainedQuota(SizeOf[c])
                /\ Amend(e, Revision("update", p, c, by, k), SizeOf[c])
                /\ retained' = retained + SizeOf[c]
    /\ SaveReceipt(k)
    /\ UNCHANGED grantVars

-----------------------------------------------------------------------------
\* Mkdir, Move, Delete, Restore.

\* A directory that is already live is reported, not changed.
Mkdir(k, d) ==
    /\ LoadReceipt(k) /\ SentBy(Null, k)
    /\ KindOf[d] = "directory"
    /\ \/ /\ d \in LivePaths
          /\ UNCHANGED entryVars
       \/ /\ d \notin LivePaths
          /\ CheckDirectoryQuota(MissingAbove(d) \cup {d})
          /\ \E new \in NewRows((MissingAbove(d) \cup {d}) \ TakenPaths), e \in Ids :
                /\ IF d \in TakenPaths THEN path[e] = d
                   ELSE e \in DOMAIN new /\ new[e] = d
                /\ Publish(e, d, new,
                           Revision(IF d \in TakenPaths THEN "restore" ELSE "create",
                                    d, Null, Null, k), 0)
                /\ alias' = Released(PathsOf(new))
          /\ UNCHANGED retained
    /\ SaveReceipt(k)
    /\ UNCHANGED grantVars

\* The destination must have no row, not even a tombstone.  A page's relative
\* links are rewritten; size_bytes becomes the length of the rewritten source,
\* which for an asset, having none, is 0.  No retained-bytes check.
Move(k, e, q, expected) ==
    LET p == path[e]
        c == IF KindOf[q] = "page" THEN Relinked(CurrentContent(e), p, q)
             ELSE CurrentContent(e)
        size == IF KindOf[q] = "page" THEN SizeOf[c] ELSE 0
    IN  /\ LoadReceipt(k) /\ SentBy(Null, k)
        /\ e \in Used /\ live[e] /\ KindOf[p] \in {"page", "asset"}
        /\ KindOf[q] = KindOf[p] /\ q # p
        /\ expected = CurrentRevision(e)
        /\ q \notin TakenPaths
        /\ CheckRenderedFree({q})
        /\ KindOf[q] = "page" => c \in Accepted[q]
        /\ \E new \in NewRows(MissingAbove(q) \ TakenPaths) :
              /\ Publish(e, q, new, Revision("move", q, c, Null, k), size)
              /\ alias' = [Released(PathsOf(new) \cup {q}) EXCEPT ![p] = e]
        /\ retained' = retained + size
        /\ SaveReceipt(k)
        /\ UNCHANGED grantVars

\* Wrong: the history goes with the document.
BuryWithHistory(e, k) ==
    /\ hist' = [hist EXCEPT ![e] = <<>>]
    /\ live' = [live EXCEPT ![e] = FALSE]
    /\ UNCHANGED retained

\* Wrong: records the deletion and leaves the row live.
BuryInHistoryOnly(e, k) ==
    /\ hist' = [hist EXCEPT ![e] =
                  Append(@, Revision("delete", path[e], CurrentContent(e), Null, k))]
    /\ UNCHANGED <<live, retained>>

\* A soft delete: the row stays, and the current source is copied into a last
\* revision, unchecked by the retained quota.
Bury(e, k) ==
    /\ hist' = [hist EXCEPT ![e] =
                  Append(@, Revision("delete", path[e], CurrentContent(e), Null, k))]
    /\ live' = [live EXCEPT ![e] = FALSE]
    /\ retained' = retained + (IF KindOf[path[e]] \in TextKinds
                               THEN SizeOf[CurrentContent(e)] ELSE 0)

\* Wrong: leaves the links of a deleted document to the reader's check.
RevokeGrantsLater(e) == UNCHANGED revoked

RevokeGrantsOf(e) == revoked' = [g \in Grants |-> revoked[g] \/ grantOf[g] = e]

\* Wrong: looks for directories only.
ChildlessOfDirectories(e) == \A i \in LiveOf("directory") : parent[i] # e

Childless(e) == \A i \in Ids : ~(live[i] /\ parent[i] = e)

Delete(k, e, expected) ==
    /\ LoadReceipt(k) /\ SentBy(Null, k)
    /\ e \in Used /\ live[e]
    /\ path[e] # Root /\ KindOf[path[e]] # "config"
    /\ expected = CurrentRevision(e)
    /\ KindOf[path[e]] = "directory" => Childless(e)
    /\ HistoryRoom(1)
    /\ Bury(e, k)
    /\ RevokeGrantsOf(e)
    /\ SaveReceipt(k)
    /\ UNCHANGED <<path, parent, bytes, lastId, alias, grantOf, allowed>>

\* Restore re-publishes revision n of a live entry or of a tombstone.  Only a
\* text counts against the retained quota, and nothing against the current
\* asset quota.
Restore(k, e, n, expected) ==
    LET c == hist[e][n].content
        text == KindOf[path[e]] \in TextKinds
        rev == Revision("restore", path[e], c, Null, k)
    IN  /\ LoadReceipt(k) /\ SentBy(Null, k)
        /\ e \in Used /\ KindOf[path[e]] # "directory"
        /\ expected = CurrentRevision(e)
        /\ n \in 1..Len(hist[e]) /\ c # Null
        /\ text => c \in Accepted[path[e]] /\ CheckRetainedQuota(SizeOf[c])
        /\ \/ /\ live[e]
              /\ Amend(e, rev, SizeOf[c])
           \/ /\ ~live[e]
              /\ CheckPageQuota(path[e])
              /\ \E new \in NewRows(MissingAbove(path[e]) \ TakenPaths) :
                    /\ Publish(e, path[e], new, rev, SizeOf[c])
                    /\ alias' = Released(PathsOf(new))
        /\ retained' = retained + (IF text THEN SizeOf[c] ELSE 0)
        /\ SaveReceipt(k)
        /\ UNCHANGED grantVars

-----------------------------------------------------------------------------
\* PutAsset: the blob's bytes are stored once in asset_blob and once more in
\* the size of the revision that introduces it.

AssetRoom(c) ==
    /\ CurrentAssetBytes + SizeOf[c] <= MaxCurrentAssetBytes
    /\ CheckRetainedQuota(SizeOf[c])

PutAssetNew(k, p, c) ==
    /\ LoadReceipt(k) /\ SentBy(Null, k)
    /\ KindOf[p] = "asset" /\ c \in Accepted[p]
    /\ p \notin {path[i] : i \in LiveOf("asset")}
    /\ AssetRoom(c)
    /\ \E new \in NewRows((MissingAbove(p) \cup {p}) \ TakenPaths), e \in Ids :
          /\ IF p \in TakenPaths THEN path[e] = p
             ELSE e \in DOMAIN new /\ new[e] = p
          /\ Publish(e, p, new, Revision("create", p, c, Null, k), SizeOf[c])
          /\ alias' = Released(PathsOf(new))
    /\ retained' = retained + 2 * SizeOf[c]
    /\ SaveReceipt(k)
    /\ UNCHANGED grantVars

PutAssetReplace(k, e, c, expected) ==
    /\ LoadReceipt(k) /\ SentBy(Null, k)
    /\ e \in LiveOf("asset") /\ c \in Accepted[path[e]]
    /\ expected = CurrentRevision(e)
    /\ AssetRoom(c)
    /\ Amend(e, Revision("update", path[e], c, Null, k), SizeOf[c])
    /\ retained' = retained + 2 * SizeOf[c]
    /\ SaveReceipt(k)
    /\ UNCHANGED grantVars

-----------------------------------------------------------------------------
\* Sharing links.

\* refreshGrantAssets: the live images the current source embeds.
EmbeddedAssets(e) ==
    {a \in LiveOf("asset") : path[a] \in Embeds[CurrentContent(e)]}

\* Wrong: a new link for the document reuses a revoked row.
CreateShareGrantAgain(g, e) ==
    /\ grantOf[g] = 0 \/ revoked[g]
    /\ e \in LiveOf("page")
    /\ grantOf' = [grantOf EXCEPT ![g] = e]
    /\ revoked' = [revoked EXCEPT ![g] = FALSE]
    /\ allowed' = [allowed EXCEPT ![g] = EmbeddedAssets(e)]
    /\ UNCHANGED <<entryVars, receipt>>

CreateShareGrant(g, e) ==
    /\ grantOf[g] = 0
    /\ e \in LiveOf("page")
    /\ grantOf' = [grantOf EXCEPT ![g] = e]
    /\ allowed' = [allowed EXCEPT ![g] = EmbeddedAssets(e)]
    /\ UNCHANGED <<entryVars, revoked, receipt>>

RefreshShareGrantAssets(g) ==
    /\ grantOf[g] # 0 /\ ~revoked[g] /\ live[grantOf[g]]
    /\ allowed' = [allowed EXCEPT ![g] = EmbeddedAssets(grantOf[g])]
    /\ UNCHANGED <<entryVars, grantOf, revoked, receipt>>

RevokeShareGrant(g) ==
    /\ grantOf[g] # 0
    /\ revoked' = [revoked EXCEPT ![g] = TRUE]
    /\ UNCHANGED <<entryVars, grantOf, allowed, receipt>>

\* Twenty-four hours pass: the row stays, loadReceipt no longer answers from it.
ExpireReceipt(k) ==
    /\ receipt[k] = "live"
    /\ receipt' = [receipt EXCEPT ![k] = "expired"]
    /\ UNCHANGED <<entryVars, grantVars>>

-----------------------------------------------------------------------------
\* initialFilesystem gives a new tenant its root, /tmp.yaml and /index.md.
Init ==
    LET seed == <<Root, ConfigPath, IndexPath>>
        text == <<Null, SeedConfig, SeedIndex>>
    IN  /\ path = [i \in Ids |-> IF i <= 3 THEN seed[i] ELSE Null]
        /\ parent = [i \in Ids |-> IF i \in {2, 3} THEN 1 ELSE 0]
        /\ live = [i \in Ids |-> i <= 3]
        /\ bytes = [i \in Ids |-> IF i \in {2, 3} THEN SizeOf[text[i]] ELSE 0]
        /\ hist = [i \in Ids |->
                     IF i <= 3
                     THEN <<Revision("create", seed[i], text[i], Null, Null)>>
                     ELSE <<>>]
        /\ lastId = 3
        /\ alias = [p \in Paths |-> 0]
        /\ retained = SizeOf[SeedConfig] + SizeOf[SeedIndex]
        /\ grantOf = [g \in Grants |-> 0]
        /\ revoked = [g \in Grants |-> FALSE]
        /\ allowed = [g \in Grants |-> {}]
        /\ receipt = [k \in Keys |-> "none"]

\* What a client asks of entry e, whose revision x and whose path it read at
\* some time before; x = 0 asks for an entry that is not there.
MutationOf(k, e, x) ==
    \/ \E c \in Contents : WriteRevive(k, e, c, x)
    \/ \E c \in Contents, p \in PathsHeld(e) : WriteUpdate(Null, k, p, c, x)
    \/ \E c \in Contents, p \in PathsHeld(e), g \in Grants :
          grantOf[g] = e /\ WriteUpdate(g, k, p, c, x)
    \/ \E q \in Paths : Move(k, e, q, x)
    \/ Delete(k, e, x)
    \/ \E n \in 1..CurrentRevision(e) : Restore(k, e, n, x)
    \/ \E c \in Contents : PutAssetReplace(k, e, c, x)

Mutation(k) ==
    \/ \E p \in Paths, c \in Contents : WriteCreate(k, p, c) \/ PutAssetNew(k, p, c)
    \/ \E d \in Directories : Mkdir(k, d)
    \/ \E e \in Used : \E x \in 0..CurrentRevision(e) : MutationOf(k, e, x)

Next ==
    \/ \E k \in Keys \cup {Null} : Mutation(k)
    \/ \E g \in Grants, e \in Ids : CreateShareGrant(g, e)
    \/ \E g \in Grants : RefreshShareGrantAssets(g) \/ RevokeShareGrant(g)
    \/ \E k \in Keys : ExpireReceipt(k)

Spec == Init /\ [][Next]_vars

-----------------------------------------------------------------------------
\* What the tables must always satisfy.

\* Every column has its type; a row that was never inserted is blank, and of
\* the others the directories, and they alone, have no source.
TypeOK ==
    /\ path \in [Ids -> Paths \cup {Null}]
    /\ parent \in [Ids -> Ids \cup {0}]
    /\ live \in [Ids -> BOOLEAN]
    /\ bytes \in [Ids -> Nat]
    /\ hist \in [Ids -> Seq(Revisions)]
    /\ lastId \in 3..MaxEntries
    /\ alias \in [Paths -> Ids \cup {0}]
    /\ retained \in Nat
    /\ grantOf \in [Grants -> Ids \cup {0}]
    /\ revoked \in [Grants -> BOOLEAN]
    /\ allowed \in [Grants -> SUBSET Ids]
    /\ receipt \in [Keys -> {"none", "live", "expired"}]
    /\ \A i \in Ids :
          IF i <= lastId
          THEN /\ path[i] # Null /\ hist[i] # <<>>
               /\ CurrentContent(i) = Null <=> KindOf[path[i]] = "directory"
          ELSE path[i] = Null /\ hist[i] = <<>> /\ ~live[i]

\* No two rows, tombstones included, share a rendered path, so none share a
\* path: the checks of Write, Move, Mkdir and PutAsset, together with reviving
\* a tombstone in place, keep the UNIQUE constraints of the entry table from
\* ever refusing a row they let through (fs_write.go checkRenderedFree).
NamespaceUnique ==
    \A i, j \in Used : i # j => RenderedOf[path[i]] # RenderedOf[path[j]]

\* The live entries are a tree: whatever order documents were moved, deleted
\* and revived in, a live entry hangs from the live directory its path names
\* (ensureParents, and the parent_id test of Delete).
LiveTree ==
    \A i \in Ids : live[i] /\ path[i] # Root =>
        /\ parent[i] \in Ids
        /\ live[parent[i]]
        /\ path[parent[i]] = ParentOf[path[i]]

\* A redirect never shadows an entry: no row has the rendered path, and so the
\* path, that an alias answers for (checkRenderedFree deletes such aliases, and
\* Move's insert relies on there being none at the path it leaves).
RedirectsYield ==
    \A q \in Paths : alias[q] # 0 =>
        \A i \in Used : RenderedOf[path[i]] # RenderedOf[q]

\* The row of an entry is what its last revision says: same path, live unless
\* that revision deleted it.  Every handler appends the revision and updates
\* the row in separate statements.
RowFollowsHistory ==
    \A e \in Used :
        LET last == hist[e][Len(hist[e])]
        IN  path[e] = last.path /\ (live[e] <=> last.op # "delete")

\* Live pages and directories stay within their quotas, the root not counted,
\* although one request may revive several directories and a page at once.
TreeWithinQuota ==
    /\ Cardinality(LiveOf("page")) <= MaxPages
    /\ Cardinality(LiveOf("directory")) - 1 <= MaxDirectories

\* A link that works always opens a live page: deleting the document ends its
\* links, and neither restoring nor moving it leaves one dangling.
GrantsOpenLivePages ==
    \A g \in Grants : grantOf[g] # 0 /\ ~revoked[g] =>
        grantOf[g] \in LiveOf("page")

-----------------------------------------------------------------------------
\* What a step may never do.

Appended(i) == Len(hist[i]) + 1 .. Len(hist'[i])

\* A link edits its own document and nothing else, however stale the path its
\* request carries: not a page since created at the document's old path, and
\* nothing once the link is revoked.  It never deletes, moves or revives.
LinksEditTheirDocument ==
    [][\A i \in Ids : \A n \in Appended(i) :
          LET g == hist'[i][n].by
          IN  g # Null => /\ grantOf[g] = i /\ ~revoked[g]
                          /\ hist'[i][n].op = "update"
                          /\ path'[i] = path[i]]_vars

\* Revocation is permanent and a link never changes documents: restoring a
\* deleted page reactivates none of its links.
RevocationIsFinal ==
    [][\A g \in Grants :
          /\ revoked[g] => revoked'[g]
          /\ grantOf[g] # 0 => grantOf'[g] = grantOf[g]]_vars

\* A link holder cannot enlarge the allowlist: a step that appends a revision
\* made through a link, or any edit of the document, approves no new image.
OnlyOwnersApproveAssets ==
    [][hist' # hist => \A g \in Grants : allowed'[g] \subseteq allowed[g]]_vars

\* A request takes effect at most once: a key that already made a revision
\* never makes another, even when its receipt has expired and the document was
\* moved, deleted or restored in the meantime (docs/MCP.md: a duplicate
\* revision cannot result).
AtMostOnce ==
    [][\A k \in Keys :
          (\E i \in Ids : \E n \in Appended(i) : hist'[i][n].key = k) =>
          (\A i \in Ids : \A n \in 1..Len(hist[i]) : hist[i][n].key # k)]_vars

-----------------------------------------------------------------------------
\* The abstract store: an address opens the row that renders there, tombstone
\* or not, or else the entry a redirect leads to (RenderedToCandidates,
\* entryByPath and aliasByPath, in the order the readers try them).

Renderings == {RenderedOf[p] : p \in Paths}

Opened(a) ==
    LET rows == {i \in Used : RenderedOf[path[i]] = a}
        redirects == {q \in Paths : alias[q] # 0 /\ RenderedOf[q] = a}
    IN  IF rows # {} THEN CHOOSE i \in rows : TRUE
        ELSE IF redirects # {} THEN alias[CHOOSE q \in redirects : TRUE]
        ELSE 0

Store == INSTANCE VersionStore WITH
            Documents <- Ids,
            Addresses <- Renderings,
            AddressOf <- RenderedOf,
            log <- hist,
            opens <- [a \in Renderings |-> Opened(a)]

\* Every handler implements the store's promise: history only grows, by one
\* legal operation at a time, no operation following one it cannot follow; and
\* no address a document ever had goes dead (docs/API.md: old paths left by
\* moves redirect), however moves, deletions and new entries interleave.
StoreImplemented == Store!Spec

=============================================================================
