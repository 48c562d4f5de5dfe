------------------------------ MODULE Requests ------------------------------
(***************************************************************************)
(* The requests that reach the filesystem: the browser's editor and forms  *)
(* (controllers/ops.go), the REST interface (api.go), the tools of the MCP *)
(* server (mcp/server.go) and the sharing links (controllers/share.go).    *)
(*                                                                         *)
(* A client keeps what it was shown (held) and sends it back later.  The   *)
(* handler of a mutation looks something up in a transaction of its own,   *)
(* then calls one operation of Content, which takes the tenant lock: two   *)
(* steps, between which any other request may run.  The clients of interest *)
(* are followed one by one, all others are the step Others.                *)
(***************************************************************************)
EXTENDS Content

CONSTANTS
    Clients,        \* browser tabs, agents, holders of a link
    Named,          \* the paths that requests ask for
    Asked           \* those that the clients followed here ask for unprompted

ASSUME ClientAssumption == Named \subseteq Paths /\ Asked \subseteq Named

VARIABLES
    held,           \* what a client was last shown, and through which link
    job,            \* its request between two transactions
    chosen,         \* the rows selected in a listing: path and shown revision
    todo            \* those a bulk request has not come to yet

clientVars == <<held, job, chosen, todo>>
requestVars == <<path, parent, live, bytes, hist, lastId, alias, retained,
                 grantOf, revoked, allowed, receipt, held, job, chosen, todo>>

\* A client is shown the path and the revision of an entry, and a source: that
\* revision's ("current"), that of an earlier revision or of what was read by
\* path afterwards ("page"), or the text it sent itself ("refused").
Nothing == [doc |-> 0, at |-> Null, rev |-> 0, as |-> "current", src |-> 0, seq |-> 0,
            text |-> Null, link |-> Null]
Idle == [step |-> "idle", does |-> Null, at |-> Null, doc |-> 0, rev |-> 0]

Forms == {"edit", "form", "page"}
Writes == {"save", "put"}   \* of a form, which is shown again; of a program
Mutations == Writes \cup {"move", "delete", "restore", "share"}

Shown == [doc : Ids \cup {0}, at : Paths \cup {Null}, rev : Nat,
          as : {"current", "page", "refused"}, src : Ids \cup {0}, seq : Nat,
          text : Contents \cup {Null}, link : Grants \cup {Null}]
Jobs == [step : {"idle", "following", "reading", "locking"},
         does : Forms \cup Mutations \cup {Null},
         at : Paths \cup {Null}, doc : Ids \cup {0}, rev : Nat]
Rows == [at : Paths, rev : Nat]

RequestsInit ==
    /\ Init
    /\ held = [c \in Clients |-> Nothing]
    /\ job = [c \in Clients |-> Idle]
    /\ chosen = [c \in Clients |-> {}]
    /\ todo = [c \in Clients |-> {}]

-----------------------------------------------------------------------------
\* Lookups.

\* Read finds the row of a path, a tombstone too.
RowsOf(p) == {i \in Used : path[i] = p}
LiveAt(p) == {i \in Used : live[i] /\ path[i] = p}

\* Resolve: the live entry that the address of p opens, or the live target of
\* a redirect there.
Rendering(p) == {i \in Used : live[i] /\ RenderedOf[path[i]] = RenderedOf[p]}
Redirecting(p) ==
    {i \in Used : live[i] /\ \E q \in Paths :
        RenderedOf[q] = RenderedOf[p] /\ alias[q] = i}

\* What a read of row e shows; Then, of the state after a step.
Showing(e, link) ==
    [doc |-> e, at |-> path[e], rev |-> CurrentRevision(e), as |-> "current",
     src |-> e, seq |-> CurrentRevision(e), text |-> CurrentContent(e), link |-> link]
ShowingThen(e) ==
    [doc |-> e, at |-> path'[e], rev |-> Len(hist'[e]), as |-> "current",
     src |-> e, seq |-> Len(hist'[e]), text |-> hist'[e][Len(hist'[e])].content,
     link |-> Null]

GoesWith(c, step, does, at, doc, rev) ==
    job' = [job EXCEPT ![c] =
               [step |-> step, does |-> does, at |-> at, doc |-> doc, rev |-> rev]]
Goes(c, step, does, at, doc) == GoesWith(c, step, does, at, doc, 0)

\* A link is made for the entry that was looked up, by its id; all other
\* operations find theirs again, by path.
Known(does, e) == IF does = "share" THEN e ELSE 0

\* A client does one thing at a time; a listing is a tab of its own.
Free(c) == job[c].step = "idle" /\ chosen[c] = {}

StoreUnchanged == UNCHANGED <<entryVars, grantVars, receipt>>
OnlyJob == StoreUnchanged /\ UNCHANGED <<held, chosen, todo>>
Finish(c) == job' = [job EXCEPT ![c] = Idle] /\ UNCHANGED <<chosen, todo>>

\* opEntry: the address of a form becomes the path of the entry that answers
\* it now; a redirect sends the same request to the entry's new address.  The
\* move and share forms show what was resolved; EditPage, HistoryPage and the
\* page itself read by its path once more; a mutation goes on with the path.
OpEntry(c, p, does) ==
    /\ \/ \E e \in Rendering(p) :
             /\ does = "form"
             /\ held' = [held EXCEPT ![c] = Showing(e, Null)] /\ Finish(c)
       \/ \E e \in Rendering(p) :
             /\ \/ /\ does = "edit" /\ KindOf[path[e]] \in TextKinds
                   /\ Goes(c, "reading", does, path[e], e)
                \/ /\ does = "page" /\ KindOf[path[e]] # "directory"
                   /\ GoesWith(c, "reading", does, path[e], e, CurrentRevision(e))
                \/ does \in Mutations /\ Goes(c, "locking", does, path[e], Known(does, e))
             /\ UNCHANGED <<held, chosen, todo>>
       \/ /\ Rendering(p) = {}
          /\ \E e \in Redirecting(p) : Goes(c, "following", does, path[e], 0)
          /\ UNCHANGED <<held, chosen, todo>>
    /\ StoreUnchanged

Follow(c) == job[c].step = "following" /\ OpEntry(c, job[c].at, job[c].does)

\* Any error, of the lookup, the operation or the connection: the client is
\* told and keeps what it had.
Fail(c) ==
    /\ job[c].step # "idle"
    /\ Finish(c)
    /\ UNCHANGED held
    /\ StoreUnchanged

-----------------------------------------------------------------------------
\* The browser.  Its forms name a document by address and its revision by
\* number; the address is resolved again when the form comes back.

ShowForm(c, p) == Free(c) /\ OpEntry(c, p, "form")

\* EditPage resolves the entry, then reads source and revision by its path: by
\* then another entry may live there, or the entry may be a tombstone.
EditPage(c, p) == Free(c) /\ OpEntry(c, p, "edit")

\* Wrong: takes the form for one of the entry that was resolved.
EditorShownAsResolved(c) ==
    /\ job[c].step = "reading" /\ job[c].does = "edit"
    /\ \E e \in RowsOf(job[c].at) :
          held' = [held EXCEPT ![c] = [Showing(e, Null) EXCEPT !.doc = job[c].doc]]
    /\ Finish(c)
    /\ StoreUnchanged

EditorShown(c) ==
    /\ job[c].step = "reading" /\ job[c].does = "edit"
    /\ \E e \in RowsOf(job[c].at) :
          held' = [held EXCEPT ![c] = Showing(e, Null)]
    /\ Finish(c)
    /\ StoreUnchanged

\* HistoryPage, and a page with its forms (serveHTML): path and revision are the
\* resolved entry's, the sources those of the row that is at the path later, a
\* tombstone too; HistoryPage shows any revision of it.
ShowPage(c, p) == Free(c) /\ OpEntry(c, p, "page")

PageShown(c) ==
    LET j == job[c] IN
    /\ j.step = "reading" /\ j.does = "page"
    /\ \E f \in RowsOf(j.at) : \E n \in 1..CurrentRevision(f) :
          held' = [held EXCEPT ![c] =
             [doc |-> j.doc, at |-> j.at, rev |-> j.rev, as |-> "page",
              src |-> f, seq |-> n, text |-> hist[f][n].content, link |-> Null]]
    /\ Finish(c)
    /\ StoreUnchanged

\* A form comes back: SaveEdit, MoveEntry, DeleteEntry, RestoreEntry and
\* ShareAction all begin with opEntry.
SubmitForm(c, does) ==
    /\ Free(c)
    /\ held[c].doc # 0 /\ held[c].link = Null
    /\ does # "put" /\ OpEntry(c, held[c].at, does)

\* The trash lists tombstones with their revision; its form carries the path
\* itself, and TrashRestore resolves nothing.
TrashPage(c) ==
    /\ Free(c)
    /\ \E e \in Used : ~live[e] /\ held' = [held EXCEPT ![c] = Showing(e, Null)]
    /\ Finish(c)
    /\ StoreUnchanged

TrashRestore(c) ==
    /\ Free(c)
    /\ held[c].doc # 0 /\ held[c].link = Null
    /\ \E e \in RowsOf(held[c].at) : Restore(Null, e, held[c].rev, held[c].rev)
    /\ UNCHANGED clientVars

-----------------------------------------------------------------------------
\* REST.  An ETag names the entry and its revision.

\* Read, and with it the ETag: the source of the current revision, or of the
\* one asked for, beside the current path and ETag.  tmp_read does the same.
ShowingRevision(e, n) ==
    [doc |-> e, at |-> path[e], rev |-> CurrentRevision(e), as |-> "page",
     src |-> e, seq |-> n, text |-> hist[e][n].content, link |-> Null]

APIGetEntry(c, p) ==
    /\ Free(c)
    /\ \E e \in RowsOf(p) :
          \/ held' = [held EXCEPT ![c] = Showing(e, Null)]
          \/ \E n \in 1..(CurrentRevision(e) - 1) :
                held' = [held EXCEPT ![c] = ShowingRevision(e, n)]
    /\ Finish(c)
    /\ StoreUnchanged

\* checkETagEntry reads the path in a transaction of its own and compares the
\* identity; the revision is compared by the operation, under the lock.
CheckETagEntry(c, does) ==
    /\ Free(c)
    /\ held[c].doc # 0 /\ held[c].link = Null
    /\ held[c].doc \in RowsOf(held[c].at)
    /\ does # "save"
    /\ Goes(c, "locking", does, held[c].at, Known(does, held[c].doc))
    /\ OnlyJob

-----------------------------------------------------------------------------
\* The tools.  tmp_move, tmp_delete and tmp_restore pass on what the caller
\* says; tmp_write looks first whether the page is there.

ToolCall(c, does) ==
    /\ Free(c)
    /\ held[c].doc # 0 /\ held[c].link = Null
    /\ does \notin {"share", "save"}
    /\ does = "put" => LiveAt(held[c].at) # {}
    /\ Goes(c, "locking", does, held[c].at, 0)
    /\ OnlyJob

-----------------------------------------------------------------------------
\* Sharing links.

\* ResolveShareToken: the grant works and its document is live.
Works(g) == grantOf[g] # 0 /\ ~revoked[g] /\ live[grantOf[g]]

\* ShareHTML, ShareRaw, ShareJSON and ShareEdit show what was resolved.
ShareShow(c, g) ==
    /\ Free(c)
    /\ Works(g)
    /\ held' = [held EXCEPT ![c] = Showing(grantOf[g], g)]
    /\ Finish(c)
    /\ StoreUnchanged

\* SharePutRaw and ShareEditPost resolve the token again, and the write names
\* the document by the path it then has.
SharePut(c, does) ==
    /\ Free(c) /\ does \in Writes
    /\ held[c].link # Null /\ Works(held[c].link)
    /\ held[c].doc = grantOf[held[c].link]
    /\ Goes(c, "locking", does, path[held[c].doc], 0)
    /\ OnlyJob

-----------------------------------------------------------------------------
\* The operation a mutation comes to, at the path and with the revision the
\* request carries; the answer shows the client what it wrote.

Locking(c, ones) == job[c].step = "locking" /\ job[c].does \in ones

Learns(c, e) == held' = [held EXCEPT ![c] = ShowingThen(e)] /\ Finish(c)

\* Wrong: expects whatever revision the entry has by now.
SaveOver(c, e, t) ==
    /\ Locking(c, Writes) /\ e \in RowsOf(job[c].at)
    /\ \/ WriteUpdate(held[c].link, Null, job[c].at, t, CurrentRevision(e))
       \/ held[c].link = Null /\ WriteRevive(Null, e, t, held[c].rev)
    /\ Learns(c, e)

\* Write: SaveEdit, APIPutEntry with If-Match, tmp_write of a page that is
\* there, SharePutRaw and ShareEditPost.
Save(c, e, t) ==
    /\ Locking(c, Writes) /\ e \in RowsOf(job[c].at)
    /\ \/ WriteUpdate(held[c].link, Null, job[c].at, t, held[c].rev)
       \/ held[c].link = Null /\ WriteRevive(Null, e, t, held[c].rev)
    /\ Learns(c, e)

\* SaveEdit and ShareEditPost show a refused text once more, with the revision
\* it was sent with, under the path that its address opened now.
RefuseSave(c) ==
    /\ Locking(c, {"save"})
    /\ held' = [held EXCEPT ![c] =
          [held[c] EXCEPT !.at = job[c].at, !.as = "refused", !.src = held[c].doc,
                          !.seq = held[c].rev, !.text = Null]]
    /\ Finish(c)
    /\ StoreUnchanged

\* MoveEntry, APIMove, tmp_move.
MoveEntry(c, e, q) ==
    /\ Locking(c, {"move"}) /\ e \in RowsOf(job[c].at)
    /\ Move(Null, e, q, held[c].rev)
    /\ Learns(c, e)

\* DeleteEntry, APIDeleteEntry, tmp_delete.
DeleteEntry(c, e) ==
    /\ Locking(c, {"delete"}) /\ e \in RowsOf(job[c].at)
    /\ Delete(Null, e, held[c].rev)
    /\ Learns(c, e)

\* RestoreEntry, APIRestore, tmp_restore.
RestoreEntry(c, e, n) ==
    /\ Locking(c, {"restore"}) /\ e \in RowsOf(job[c].at)
    /\ Restore(Null, e, n, held[c].rev)
    /\ Learns(c, e)

\* ShareAction and APIShareCreate.
ShareAction(c, g) ==
    /\ Locking(c, {"share"})
    /\ CreateShareGrant(g, job[c].doc)
    /\ Finish(c)
    /\ UNCHANGED held

-----------------------------------------------------------------------------
\* BulkEntry: the rows ticked in a listing, each with the revision it showed,
\* deepest first and each in a transaction of its own.

Listed(e) == [at |-> path[e], rev |-> CurrentRevision(e)]
Selectable == {e \in Used : live[e] /\ path[e] \in Named
                              /\ path[e] # Root /\ KindOf[path[e]] # "config"}

\* The listing and the ticks in it.
Tick(c, es) ==
    /\ Free(c) /\ held[c] = Nothing /\ es # {}
    /\ chosen' = [chosen EXCEPT ![c] = {Listed(e) : e \in es}]
    /\ UNCHANGED <<held, job, todo>>
    /\ StoreUnchanged

BulkDelete(c) ==
    /\ chosen[c] # {} /\ todo[c] = {}
    /\ todo' = [todo EXCEPT ![c] = chosen[c]]
    /\ UNCHANGED <<held, job, chosen>>
    /\ StoreUnchanged

Depth(p) == Cardinality(Above[p])

\* Wrong: a folder before what is in it.
ShallowestFirst(rows) == {r \in rows : \A s \in rows : Depth(r.at) <= Depth(s.at)}

DeepestFirst(rows) == {r \in rows : \A s \in rows : Depth(r.at) >= Depth(s.at)}

\* The last row ends the request and clears the selection.
Cross(c, r) ==
    /\ todo' = [todo EXCEPT ![c] = @ \ {r}]
    /\ chosen' = [chosen EXCEPT ![c] = IF todo[c] = {r} THEN {} ELSE @]
    /\ UNCHANGED <<held, job>>

BulkOne(c) ==
    \E r \in DeepestFirst(todo[c]) :
       /\ \E e \in LiveAt(r.at) : Delete(Null, e, r.rev)
       /\ Cross(c, r)

\* The error Delete returns is counted and the run goes on.
BulkOneFails(c) ==
    \E r \in DeepestFirst(todo[c]) :
       /\ \A e \in LiveAt(r.at) :
             \/ CurrentRevision(e) # r.rev
             \/ KindOf[r.at] = "directory" /\ ~Childless(e)
       /\ Cross(c, r)
       /\ StoreUnchanged

-----------------------------------------------------------------------------
\* Everyone else's requests: any operation of Content, those that carry nothing
\* from an earlier request (CreateEntry, Mkdir, revoking a link) among them.
Others ==
    /\ \/ \E p \in Named, t \in Contents : WriteCreate(Null, p, t)
       \/ \E d \in Named : Mkdir(Null, d)
       \/ \E e \in Used : path[e] \in Named /\ MutationOf(Null, e, CurrentRevision(e))
       \/ \E g \in Grants : RevokeShareGrant(g) \/ RefreshShareGrantAssets(g)
    /\ UNCHANGED clientVars

Browser(c) ==
    \/ \E p \in Asked : ShowForm(c, p) \/ EditPage(c, p) \/ ShowPage(c, p)
    \/ EditorShown(c) \/ PageShown(c) \/ Follow(c) \/ TrashPage(c) \/ TrashRestore(c)
    \/ \E does \in Mutations : SubmitForm(c, does)
    \/ \E es \in SUBSET Selectable : Tick(c, es)
    \/ BulkDelete(c) \/ BulkOne(c) \/ BulkOneFails(c)

Programs(c) ==
    \/ \E p \in Asked : APIGetEntry(c, p)
    \/ \E does \in Mutations : CheckETagEntry(c, does) \/ ToolCall(c, does) \/ SharePut(c, does)
    \/ \E g \in Grants : ShareShow(c, g)

Operation(c) ==
    \/ \E e \in Ids, t \in Contents : Save(c, e, t)
    \/ RefuseSave(c)
    \/ \E e \in Ids, q \in Named : MoveEntry(c, e, q)
    \/ \E e \in Ids : DeleteEntry(c, e)
    \/ \E e \in Ids : \E n \in 1..CurrentRevision(e) : RestoreEntry(c, e, n)
    \/ \E g \in Grants : ShareAction(c, g)

RequestsNext ==
    \/ \E c \in Clients : Browser(c) \/ Programs(c) \/ Operation(c) \/ Fail(c)
    \/ Others

RequestsSpec == RequestsInit /\ [][RequestsNext]_requestVars
-----------------------------------------------------------------------------
\* What must always hold.

RequestsTypeOK ==
    /\ TypeOK
    /\ held \in [Clients -> Shown]
    /\ job \in [Clients -> Jobs]
    /\ chosen \in [Clients -> SUBSET Rows]
    /\ todo \in [Clients -> SUBSET Rows]

MovedSince(h) ==
    \E n \in 1..Len(hist[h.doc]) : n > h.rev /\ hist[h.doc][n].op = "move"

\* The path and the revision that a form, a reply or an ETag shows together were
\* one state of one document, and so was the source of an editor, of a link and
\* of a plain read, although EditPage resolves an entry in one transaction and
\* reads by its path in another.  Beside an old revision that was asked for, and
\* on a page that reads again, the source is some revision of that document.
\* Another document's source, or another's path beside a text that was refused,
\* is shown only when the document was moved away meanwhile.
ShownTogetherWasTogether ==
    \A c \in Clients : held[c].doc # 0 =>
        LET h == held[c]
        IN  /\ h.rev \in 1..Len(hist[h.doc])
            /\ hist[h.doc][h.rev].path = h.at \/ (h.as = "refused" /\ MovedSince(h))
            /\ h.src = h.doc \/ (h.as = "page" /\ MovedSince(h))
            /\ h.seq \in 1..Len(hist[h.src])
            /\ hist[h.src][h.seq].content = h.text \/ h.as = "refused"
            /\ h.as = "current" => h.seq = h.rev

\* No request changes a document at a revision other than the one its client
\* was shown, and not another document, unless the one it was shown has been
\* moved away meanwhile: a form and a tool name a document by address and
\* revision number only, and the identity in an ETag is compared before the
\* lock is taken.  A link changes the document it showed, always.
Performs(c, e) ==
    /\ job[c].step = "locking" /\ job'[c] = Idle
    /\ path[e] = job[c].at /\ hist'[e] # hist[e]

ChangesReplaceWhatWasShown ==
    [][\A c \in Clients, e \in Ids : Performs(c, e) =>
          /\ CurrentRevision(e) = held[c].rev
          /\ \/ held[c].doc = e
             \/ held[c].link = Null /\ MovedSince(held[c])]_requestVars

\* A bulk request never refuses a row, still as it was shown, because of
\* another row that the same request has yet to remove.
BulkStandsInItsOwnWay ==
    [][\A c \in Clients : \A r \in todo[c] \ todo'[c] : \A e \in LiveAt(r.at) :
          hist' = hist /\ CurrentRevision(e) = r.rev =>
             \A i \in {j \in Used : live[j] /\ parent[j] = e} :
                Listed(i) \notin todo[c]]_requestVars
=============================================================================
