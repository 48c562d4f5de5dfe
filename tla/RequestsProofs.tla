--------------------------- MODULE RequestsProofs ---------------------------
(***************************************************************************)
(* Theorems about Requests, for any number of clients and any paths:        *)
(* whatever the handlers look up beforehand, every request is a step of     *)
(* Content or leaves the tables alone, so what is proved of Content holds   *)
(* here; and what a client was shown is what its request changes.           *)
(***************************************************************************)
EXTENDS Requests, ContentProofs

-----------------------------------------------------------------------------
\* Every request is a step of Content, or changes no table.

LEMMA Mutates ==
    ASSUME NEW e \in Used, NEW x \in 0..CurrentRevision(e), MutationOf(Null, e, x)
    PROVE  Next
<1>1. Mutation(Null)
    BY DEF Mutation
<1> QED BY <1>1 DEF Next

LEMMA SaveMutates ==
    ASSUME TreeInv, RequestsTypeOK, NEW c \in Clients, NEW e \in Ids, NEW t \in Contents,
           Save(c, e, t)
    PROVE  Next
<1>1. /\ TypeOK /\ e \in Used /\ held[c].link \in Grants \cup {Null}
    BY DEF TreeInv, RequestsTypeOK, Shown, Save, RowsOf
<1>2. CASE WriteUpdate(held[c].link, Null, job[c].at, t, held[c].rev)
    <2>1. PICK f \in Ids : live[f] /\ path[f] = job[c].at /\ held[c].rev = CurrentRevision(f)
        BY <1>2 DEF WriteUpdate
    <2>2. f \in Used
        BY <1>1, <2>1, RowFacts
    <2>3. held[c].rev \in 0..CurrentRevision(f) /\ job[c].at \in PathsHeld(f)
        BY <1>1, <2>1, <2>2, RevisionNamed, PathHeld
    <2>4. held[c].link \in Grants => grantOf[held[c].link] = f
        <3> SUFFICES ASSUME held[c].link \in Grants PROVE grantOf[held[c].link] = f
            OBVIOUS
        <3> DEFINE d == grantOf[held[c].link]
        <3>1. d # 0 /\ live[d] /\ path[d] = job[c].at
            BY <1>2, PathAssumption DEF WriteUpdate, ShareMayWrite
        <3>2. d \in Ids
            BY <1>1, <3>1 DEF TypeOK
        <3> HIDE DEF d
        <3>3. d \in Used
            BY <1>1, <3>1, <3>2, RowFacts
        <3>4. d = f
            BY <2>1, <2>2, <3>1, <3>3, OneRowAPath
        <3> QED BY <3>4 DEF d
    <2>5. MutationOf(Null, f, held[c].rev)
        BY <1>1, <1>2, <2>3, <2>4 DEF MutationOf
    <2> QED BY <2>2, <2>3, <2>5, Mutates
<1>3. CASE WriteRevive(Null, e, t, held[c].rev)
    <2>1. held[c].rev \in 0..CurrentRevision(e)
        BY <1>1, <1>3, RevisionNamed DEF WriteRevive
    <2>2. MutationOf(Null, e, held[c].rev)
        BY <1>3 DEF MutationOf
    <2> QED BY <1>1, <2>1, <2>2, Mutates
<1> QED BY <1>2, <1>3 DEF Save

LEMMA ChangesMutate ==
    ASSUME TypeOK, NEW e, NEW q \in Paths, NEW n, NEW x,
           Move(Null, e, q, x) \/ Delete(Null, e, x) \/ Restore(Null, e, n, x)
    PROVE  Next
<1>1. e \in Used /\ x = CurrentRevision(e)
    BY DEF Move, Delete, Restore
<1>2. x \in 0..CurrentRevision(e)
    BY <1>1, RevisionNamed
<1>3. MutationOf(Null, e, x)
    BY DEF MutationOf, Restore, CurrentRevision
<1> QED BY <1>1, <1>2, <1>3, Mutates

LEMMA SharesMutate ==
    ASSUME NEW g \in Grants, NEW d, CreateShareGrant(g, d)
    PROVE  Next
<1>1. d \in Ids
    BY DEF CreateShareGrant, LiveOf
<1> QED BY <1>1 DEF Next

LEMMA OthersMutate ==
    ASSUME TypeOK, Others
    PROVE  Next
<1>1. ASSUME NEW p \in Named, NEW t \in Contents, WriteCreate(Null, p, t) PROVE Next
    <2>1. Mutation(Null)
        BY <1>1, ClientAssumption DEF Mutation
    <2> QED BY <2>1 DEF Next
<1>2. ASSUME NEW d \in Named, Mkdir(Null, d) PROVE Next
    <2>1. d \in Directories
        BY <1>2, ClientAssumption DEF Mkdir, Directories
    <2>2. Mutation(Null)
        BY <1>2, <2>1 DEF Mutation
    <2> QED BY <2>2 DEF Next
<1>3. ASSUME NEW e \in Used, MutationOf(Null, e, CurrentRevision(e)) PROVE Next
    BY <1>3, RevisionNamed, Mutates
<1> QED BY <1>1, <1>2, <1>3 DEF Others, Next

\* Looking something up, a form, a listing, a tick: nothing is written.
LEMMA LookupsLeaveTheStore ==
    ASSUME NEW c \in Clients,
           \/ \E p \in Asked : ShowForm(c, p) \/ EditPage(c, p) \/ ShowPage(c, p)
           \/ EditorShown(c) \/ PageShown(c) \/ Follow(c) \/ TrashPage(c)
           \/ \E does \in Mutations : SubmitForm(c, does)
           \/ \E es \in SUBSET Selectable : Tick(c, es)
           \/ BulkDelete(c) \/ BulkOneFails(c)
           \/ Programs(c) \/ RefuseSave(c) \/ Fail(c)
    PROVE  UNCHANGED vars
<1>1. StoreUnchanged
    BY DEF ShowForm, EditPage, ShowPage, EditorShown, PageShown, Follow, TrashPage, SubmitForm,
           Tick, BulkDelete, BulkOneFails, Programs, APIGetEntry, CheckETagEntry, ToolCall,
           ShareShow, SharePut, RefuseSave, Fail, OpEntry, OnlyJob
<1> QED BY <1>1 DEF StoreUnchanged, entryVars, grantVars, vars

LEMMA StepsAreContentSteps ==
    ASSUME TreeInv, RequestsTypeOK, [RequestsNext]_requestVars
    PROVE  [Next]_vars
<1>0. TypeOK
    BY DEF TreeInv
<1>1. ASSUME NEW c \in Clients, Browser(c) PROVE [Next]_vars
    <2>1. CASE TrashRestore(c)
        BY <1>0, <2>1, ChangesMutate, PathAssumption DEF TrashRestore
    <2>2. CASE BulkOne(c)
        BY <1>0, <2>2, ChangesMutate, PathAssumption DEF BulkOne
    <2> QED BY <1>1, <2>1, <2>2, LookupsLeaveTheStore DEF Browser
<1>2. ASSUME NEW c \in Clients, Operation(c) PROVE [Next]_vars
    <2>1. ASSUME NEW e \in Ids, NEW t \in Contents, Save(c, e, t) PROVE Next
        BY <2>1, SaveMutates
    <2>2. ASSUME NEW e \in Ids, NEW q \in Named, MoveEntry(c, e, q) PROVE Next
        BY <1>0, <2>2, ChangesMutate, ClientAssumption DEF MoveEntry
    <2>3. ASSUME NEW e \in Ids, DeleteEntry(c, e) PROVE Next
        BY <1>0, <2>3, ChangesMutate, PathAssumption DEF DeleteEntry
    <2>4. ASSUME NEW e \in Ids, NEW n, RestoreEntry(c, e, n) PROVE Next
        BY <1>0, <2>4, ChangesMutate, PathAssumption DEF RestoreEntry
    <2>5. ASSUME NEW g \in Grants, ShareAction(c, g) PROVE Next
        BY <2>5, SharesMutate DEF ShareAction
    <2> QED BY <1>2, <2>1, <2>2, <2>3, <2>4, <2>5, LookupsLeaveTheStore DEF Operation
<1>3. CASE Others
    BY <1>0, <1>3, OthersMutate
<1>4. CASE UNCHANGED requestVars
    BY <1>4 DEF requestVars, vars
<1> QED BY <1>1, <1>2, <1>3, <1>4, LookupsLeaveTheStore DEF RequestsNext

-----------------------------------------------------------------------------
-----------------------------------------------------------------------------
\* What is known of one client: it holds one revision of one document, through
\* a link to that document; a mutation it has under way goes to the path it was
\* shown, unless the document was moved since; and a page it is about to be
\* shown is one of an entry as it was at its path.
Shows(h) ==
    h.doc # 0 =>
        /\ h.at \in Paths
        /\ h.rev \in 1..Len(hist[h.doc])
        /\ hist[h.doc][h.rev].path = h.at \/ (h.as = "refused" /\ MovedSince(h))
        /\ h.src \in Ids /\ (h.src = h.doc \/ (h.as = "page" /\ MovedSince(h)))
        /\ h.seq \in 1..Len(hist[h.src])
        /\ hist[h.src][h.seq].content = h.text \/ h.as = "refused"
        /\ h.as = "current" => h.seq = h.rev

Linked(h) == h.link # Null => h.doc # 0 /\ grantOf[h.link] = h.doc

WillShow(j) ==
    j.step = "reading" /\ j.does = "page" =>
        /\ j.doc \in Ids /\ j.rev \in 1..Len(hist[j.doc])
        /\ hist[j.doc][j.rev].path = j.at

Aims(h, j) ==
    /\ j.step # "idle" => j.at \in Paths
    /\ j.does \in Mutations =>
          /\ j.step \in {"following", "locking"} =>
                h.doc # 0 /\ (j.at = h.at \/ MovedSince(h))
          /\ j.step = "following" => h.link = Null
          /\ j.step = "locking" /\ h.link # Null => j.does \in Writes

ClientOK(c) == Shows(held[c]) /\ Linked(held[c]) /\ Aims(held[c], job[c]) /\ WillShow(job[c])

\* What was shown stays what a revision says, whatever runs meanwhile.
LEMMA ShownStays ==
    ASSUME TypeOK, [Next]_vars, NEW h \in Shown, Shows(h), Linked(h)
    PROVE  Shows(h)' /\ Linked(h)' /\ (h.doc # 0 /\ MovedSince(h) => MovedSince(h)')
<1>1. h.doc \in Ids \cup {0} /\ h.link \in Grants \cup {Null}
    BY DEF Shown
<1>2. \A d \in Ids :
        /\ Len(hist[d]) \in Nat /\ Len(hist'[d]) \in Nat
        /\ \A n \in 1..Len(hist[d]) :
              n \in 1..Len(hist'[d]) /\ hist'[d][n] = hist[d][n]
    BY HistoriesGrow, RevisionsStay
<1>3. h.doc # 0 /\ MovedSince(h) => MovedSince(h)'
    BY <1>1, <1>2 DEF MovedSince
<1>4. Shows(h)'
    <2> SUFFICES ASSUME h.doc # 0 PROVE Shows(h)'
        BY DEF Shows
    <2>1. h.doc \in Ids /\ h.src \in Ids
        BY <1>1 DEF Shows
    <2>2. h.rev \in 1..Len(hist'[h.doc]) /\ hist'[h.doc][h.rev] = hist[h.doc][h.rev]
        BY <1>2, <2>1 DEF Shows
    <2>3. h.seq \in 1..Len(hist'[h.src]) /\ hist'[h.src][h.seq] = hist[h.src][h.seq]
        BY <1>2, <2>1 DEF Shows
    <2> QED BY <1>3, <2>1, <2>2, <2>3 DEF Shows
<1>5. Linked(h)'
    <2>1. \A g \in Grants : grantOf[g] # 0 => grantOf'[g] = grantOf[g]
        BY NextShaped, ShapedKeepsRevocation
    <2> QED BY <1>1, <2>1 DEF Linked
<1> QED BY <1>3, <1>4, <1>5

LEMMA JobStays ==
    ASSUME TypeOK, [Next]_vars, NEW j, WillShow(j)
    PROVE  WillShow(j)'
<1>1. \A d \in Ids : \A n \in 1..Len(hist[d]) :
        n \in 1..Len(hist'[d]) /\ hist'[d][n] = hist[d][n]
    BY HistoriesGrow, RevisionsStay
<1> QED BY <1>1 DEF WillShow

LEMMA ClientBecomes ==
    ASSUME NEW c, NEW h, NEW j, held'[c] = h, job'[c] = j,
           Shows(h)', Linked(h)', Aims(h, j)', WillShow(j)'
    PROVE  ClientOK(c)'
BY DEF ClientOK, Shows, Linked, Aims, WillShow, MovedSince

\* A client that does nothing, or whose request ends.
LEMMA ClientStays ==
    ASSUME TypeOK, RequestsTypeOK, [Next]_vars, NEW c \in Clients, ClientOK(c),
           held'[c] = held[c], job'[c] \in {job[c], Idle}
    PROVE  ClientOK(c)'
<1>1. PICK h \in Shown : h = held[c]
    BY DEF RequestsTypeOK
<1>2. PICK j : j = job'[c]
    OBVIOUS
<1>3. Shows(h) /\ Linked(h) /\ Aims(h, job[c]) /\ WillShow(job[c])
    BY <1>1 DEF ClientOK
<1>4. Shows(h)' /\ Linked(h)' /\ (h.doc # 0 /\ MovedSince(h) => MovedSince(h)')
    BY <1>3, ShownStays
<1>5. Aims(h, j)'
    <2>1. CASE j = job[c]
        BY <1>3, <1>4, <2>1 DEF Aims
    <2>2. CASE j = Idle
        BY <2>2, PathAssumption DEF Aims, Idle
    <2> QED BY <1>2, <2>1, <2>2
<1>6. WillShow(j)'
    <2>1. CASE j = job[c]
        <3>1. WillShow(j)
            BY <1>3, <2>1
        <3> QED BY <3>1, JobStays
    <2>2. CASE j = Idle
        BY <2>2 DEF WillShow, Idle
    <2> QED BY <1>2, <2>1, <2>2
<1> QED BY <1>1, <1>2, <1>4, <1>5, <1>6, ClientBecomes

-----------------------------------------------------------------------------
\* A step of one client concerns what it holds and does, and nobody else's.
OthersKeep(c) ==
    \A d \in Clients \ {c} : held'[d] = held[d] /\ job'[d] = job[d]

Turn(c) ==
    /\ held' \in [Clients -> Shown] /\ job' \in [Clients -> Jobs]
    /\ OthersKeep(c) /\ ClientOK(c)'

LEMMA IdleTyped ==
    /\ Nothing \in Shown /\ Idle \in Jobs
    /\ \A h : Aims(h, Idle) /\ WillShow(Idle)
BY PathAssumption DEF Nothing, Idle, Shown, Jobs, Aims, WillShow, Mutations, Writes

\* What a read shows is the last revision of a row.
LEMMA ShowingTyped ==
    ASSUME TypeOK, RowFollowsHistory, NEW e \in Used, NEW link \in Grants \cup {Null},
           link # Null => grantOf[link] = e
    PROVE  /\ Showing(e, link) \in Shown
           /\ Shows(Showing(e, link)) /\ Linked(Showing(e, link))
<1> DEFINE h == Showing(e, link)
<1>1. /\ e \in Ids /\ e # 0 /\ path[e] \in Paths /\ CurrentContent(e) \in Contents \cup {Null}
      /\ Len(hist[e]) \in Nat /\ Len(hist[e]) \in 1..Len(hist[e])
    <2>1. e \in Ids /\ path[e] \in Paths /\ hist[e] \in Seq(Revisions) /\ hist[e] # <<>>
        BY RowFacts
    <2>2. CurrentContent(e) \in Contents \cup {Null}
        BY RowFacts
    <2> QED BY <2>1, <2>2, BoundAssumption DEF Ids
<1>2. /\ h.doc = e /\ h.at = path[e] /\ h.rev = Len(hist[e]) /\ h.src = e
      /\ h.seq = Len(hist[e]) /\ h.text = hist[e][Len(hist[e])].content /\ h.link = link
    BY DEF Showing, CurrentRevision, CurrentContent
<1>3. h \in Shown
    BY <1>1 DEF Showing, Shown, CurrentRevision
<1>4. path[e] = hist[e][Len(hist[e])].path
    BY DEF RowFollowsHistory
<1> HIDE DEF h
<1>5. Shows(h) /\ Linked(h)
    BY <1>1, <1>2, <1>4 DEF Shows, Linked
<1> QED BY <1>3, <1>5 DEF h

LEMMA ShowingRevisionTyped ==
    ASSUME TypeOK, RowFollowsHistory, NEW e \in Used, NEW n \in 1..CurrentRevision(e)
    PROVE  /\ ShowingRevision(e, n) \in Shown
           /\ Shows(ShowingRevision(e, n)) /\ Linked(ShowingRevision(e, n))
<1> DEFINE h == ShowingRevision(e, n)
<1>1. /\ e \in Ids /\ e # 0 /\ path[e] \in Paths /\ Len(hist[e]) \in 1..Len(hist[e])
      /\ n \in 1..Len(hist[e]) /\ hist[e][n] \in Revisions
    <2>1. e \in Ids /\ path[e] \in Paths /\ hist[e] \in Seq(Revisions) /\ hist[e] # <<>>
        BY RowFacts
    <2> QED BY <2>1, BoundAssumption DEF Ids, CurrentRevision
<1>2. h = [doc |-> e, at |-> path[e], rev |-> Len(hist[e]), as |-> "page", src |-> e,
           seq |-> n, text |-> hist[e][n].content, link |-> Null]
    BY DEF ShowingRevision, CurrentRevision
<1> HIDE DEF h
<1>3. h \in Shown
    BY <1>1, <1>2 DEF Shown, Revisions
<1>4. path[e] = hist[e][Len(hist[e])].path
    BY DEF RowFollowsHistory
<1>5. Shows(h) /\ Linked(h)
    BY <1>1, <1>2, <1>4 DEF Shows, Linked
<1> QED BY <1>3, <1>5 DEF h

\* A request that ends and shows something, nothing being written.
LEMMA TurnDisplays ==
    ASSUME RequestsTypeOK, NEW c \in Clients, NEW h \in Shown, Shows(h), Linked(h),
           held' = [held EXCEPT ![c] = h], Finish(c), StoreUnchanged
    PROVE  Turn(c)
<1>1. /\ job' = [job EXCEPT ![c] = Idle]
      /\ held \in [Clients -> Shown] /\ job \in [Clients -> Jobs]
    BY DEF Finish, RequestsTypeOK
<1>2. held' \in [Clients -> Shown] /\ job' \in [Clients -> Jobs] /\ OthersKeep(c)
    BY <1>1, IdleTyped DEF OthersKeep
<1>3. held'[c] = h /\ job'[c] = Idle
    BY <1>1
<1>4. Shows(h)' /\ Linked(h)'
    BY DEF Shows, Linked, MovedSince, StoreUnchanged, entryVars, grantVars
<1>5. Aims(h, Idle)' /\ WillShow(Idle)'
    BY PathAssumption DEF Aims, Idle, WillShow, Mutations, Writes
<1> QED BY <1>2, <1>3, <1>4, <1>5, ClientBecomes DEF Turn

LEMMA TurnShows ==
    ASSUME TreeInv, RequestsTypeOK, NEW c \in Clients, NEW e \in Used,
           NEW link \in Grants \cup {Null}, link # Null => grantOf[link] = e,
           held' = [held EXCEPT ![c] = Showing(e, link)], Finish(c), StoreUnchanged
    PROVE  Turn(c)
<1>1. PICK h : h = Showing(e, link)
    OBVIOUS
<1>2. h \in Shown /\ Shows(h) /\ Linked(h)
    BY <1>1, ShowingTyped DEF TreeInv
<1>3. held' = [held EXCEPT ![c] = h]
    BY <1>1
<1> QED BY <1>2, <1>3, TurnDisplays

\* The answer to a mutation shows the revision it wrote.
LEMMA TurnLearns ==
    ASSUME RequestsTypeOK, TypeOK', RowFollowsHistory', NEW c \in Clients, NEW e \in Used',
           Learns(c, e)
    PROVE  Turn(c)
<1>1. PICK h : h = ShowingThen(e)
    OBVIOUS
<1>2. h = [doc |-> e, at |-> path'[e], rev |-> Len(hist'[e]), as |-> "current", src |-> e,
           seq |-> Len(hist'[e]), text |-> hist'[e][Len(hist'[e])].content, link |-> Null]
    BY <1>1 DEF ShowingThen
<1>3. /\ e \in Ids /\ e # 0 /\ path'[e] \in Paths
      /\ hist'[e] \in Seq(Revisions) /\ hist'[e] # <<>>
    BY BoundAssumption DEF TypeOK, Used, Ids
<1>4. Len(hist'[e]) \in Nat /\ Len(hist'[e]) \in 1..Len(hist'[e])
    BY <1>3
<1>5. hist'[e][Len(hist'[e])] \in Revisions
    BY <1>3, <1>4
<1>6. h \in Shown
    BY <1>2, <1>3, <1>4, <1>5 DEF Shown, Revisions
<1>7. path'[e] = hist'[e][Len(hist'[e])].path
    BY DEF RowFollowsHistory
<1>8. Shows(h)' /\ Linked(h)'
    BY <1>2, <1>3, <1>4, <1>7 DEF Shows, Linked
<1>9. /\ held' = [held EXCEPT ![c] = h] /\ job' = [job EXCEPT ![c] = Idle]
      /\ held \in [Clients -> Shown] /\ job \in [Clients -> Jobs]
    BY <1>1 DEF Learns, Finish, RequestsTypeOK
<1>10. held' \in [Clients -> Shown] /\ job' \in [Clients -> Jobs] /\ OthersKeep(c)
    BY <1>6, <1>9, IdleTyped DEF OthersKeep
<1>11. held'[c] = h /\ job'[c] = Idle
    BY <1>9
<1>12. Aims(h, Idle)' /\ WillShow(Idle)'
    BY PathAssumption DEF Aims, Idle, WillShow, Mutations, Writes
<1> QED BY <1>8, <1>10, <1>11, <1>12, ClientBecomes DEF Turn

\* A request that goes on to its second transaction.
LEMMA TurnGoes ==
    ASSUME RequestsTypeOK, NEW c \in Clients, ClientOK(c),
           NEW step \in {"following", "reading", "locking"},
           NEW does \in Forms \cup Mutations \cup {Null}, NEW at \in Paths,
           NEW doc \in Ids \cup {0}, NEW rev \in Nat, NEW j,
           j = [step |-> step, does |-> does, at |-> at, doc |-> doc, rev |-> rev],
           GoesWith(c, step, does, at, doc, rev), UNCHANGED held, StoreUnchanged,
           Aims(held[c], j), WillShow(j)
    PROVE  Turn(c)
<1>1. PICK h \in Shown : h = held[c]
    BY DEF RequestsTypeOK
<1>3. j \in Jobs
    BY DEF Jobs
<1>4. Shows(h) /\ Linked(h) /\ Aims(h, j)
    BY <1>1 DEF ClientOK
<1>5. Shows(h)' /\ Linked(h)' /\ Aims(h, j)' /\ WillShow(j)'
    BY <1>4 DEF Shows, Linked, Aims, WillShow, MovedSince, StoreUnchanged, entryVars, grantVars
<1>6. job' = [job EXCEPT ![c] = j] /\ job \in [Clients -> Jobs] /\ held \in [Clients -> Shown]
    BY DEF GoesWith, RequestsTypeOK
<1>7. held' \in [Clients -> Shown] /\ job' \in [Clients -> Jobs] /\ OthersKeep(c)
    BY <1>3, <1>6 DEF OthersKeep
<1>8. held'[c] = h /\ job'[c] = j
    BY <1>1, <1>6
<1> QED BY <1>5, <1>7, <1>8, ClientBecomes DEF Turn

\* A request that ends and shows nothing new.
LEMMA TurnEnds ==
    ASSUME TypeOK, RequestsTypeOK, [Next]_vars, NEW c \in Clients, ClientOK(c),
           UNCHANGED held, UNCHANGED job \/ Finish(c)
    PROVE  Turn(c)
<1>1. held'[c] = held[c] /\ job'[c] \in {job[c], Idle}
    BY DEF Finish, RequestsTypeOK
<1>2. held' \in [Clients -> Shown] /\ job' \in [Clients -> Jobs] /\ OthersKeep(c)
    BY IdleTyped DEF Finish, RequestsTypeOK, OthersKeep
<1> QED BY <1>1, <1>2, ClientStays DEF Turn

-----------------------------------------------------------------------------
\* The steps of a client, one by one.

\* The document a client was shown is where it was, or was moved since.
LEMMA StillThere ==
    ASSUME TypeOK, PathsKept, NEW h \in Shown, Shows(h), h.doc # 0
    PROVE  h.doc \in Used /\ (path[h.doc] = h.at \/ MovedSince(h))
<1>1. /\ h.doc \in Ids /\ h.rev \in 1..Len(hist[h.doc])
      /\ hist[h.doc][h.rev].path = h.at \/ MovedSince(h)
    BY DEF Shown, Shows
<1>2. hist[h.doc] \in Seq(Revisions) /\ hist[h.doc] # <<>>
    BY <1>1 DEF TypeOK
<1>3. h.doc \in Used
    BY <1>1, <1>2 DEF TypeOK, Used
<1> QED BY <1>1, <1>3 DEF PathsKept, MovedSince

\* A page shows the revision of the entry that was resolved beside what is at
\* its path when it is read.
LEMMA TurnPage ==
    ASSUME TreeInv, PathsKept, RequestsTypeOK, NEW c \in Clients, ClientOK(c), PageShown(c)
    PROVE  Turn(c)
<1>0. TypeOK /\ Finish(c) /\ StoreUnchanged
    BY DEF TreeInv, PageShown
<1>1. PICK j \in Jobs : j = job[c]
    BY DEF RequestsTypeOK
<1>2. /\ j.doc \in Ids /\ j.rev \in 1..Len(hist[j.doc])
      /\ hist[j.doc][j.rev].path = j.at /\ j.at \in Paths
    BY <1>1 DEF PageShown, ClientOK, WillShow, Aims
<1>9. PICK f \in RowsOf(j.at) : \E n \in 1..CurrentRevision(f) :
         held' = [held EXCEPT ![c] =
            [doc |-> j.doc, at |-> j.at, rev |-> j.rev, as |-> "page",
             src |-> f, seq |-> n, text |-> hist[f][n].content, link |-> Null]]
    BY <1>1 DEF PageShown
<1>3. PICK n \in 1..CurrentRevision(f) :
         held' = [held EXCEPT ![c] =
            [doc |-> j.doc, at |-> j.at, rev |-> j.rev, as |-> "page",
             src |-> f, seq |-> n, text |-> hist[f][n].content, link |-> Null]]
    BY <1>9
<1>4. PICK h : h = [doc |-> j.doc, at |-> j.at, rev |-> j.rev, as |-> "page",
                    src |-> f, seq |-> n, text |-> hist[f][n].content, link |-> Null]
    OBVIOUS
<1>5. /\ f \in Used /\ f \in Ids /\ path[f] = j.at
      /\ n \in 1..Len(hist[f]) /\ hist[f][n] \in Revisions
    <2>1. f \in Used /\ path[f] = j.at
        BY DEF RowsOf
    <2>2. f \in Ids /\ hist[f] \in Seq(Revisions)
        BY <1>0, <2>1, RowFacts
    <2> QED BY <2>1, <2>2 DEF CurrentRevision
<1>6. h \in Shown
    <2>1. j.rev \in Nat
        BY DEF Jobs
    <2> QED BY <1>2, <1>4, <1>5, <2>1 DEF Shown, Revisions
<1>7. h.src = h.doc \/ MovedSince(h)
    <2>1. j.doc \in Used
        BY <1>0, <1>2 DEF TypeOK, Used
    <2>2. path[j.doc] = j.at \/ MovedSince(h)
        BY <1>2, <1>4, <2>1 DEF PathsKept, MovedSince
    <2>3. path[j.doc] = path[f] => j.doc = f
        BY <1>5, <2>1, OneRowAPath, <1>0
    <2> QED BY <1>4, <1>5, <2>2, <2>3
<1>8. Shows(h) /\ Linked(h)
    BY <1>2, <1>4, <1>5, <1>7 DEF Shows, Linked
<1>10. held' = [held EXCEPT ![c] = h]
    BY <1>3, <1>4
<1> QED BY <1>0, <1>6, <1>8, <1>10, TurnDisplays

\* A refused text is shown again under the path its address opened.
LEMMA TurnRefuses ==
    ASSUME RequestsTypeOK, NEW c \in Clients, ClientOK(c), RefuseSave(c)
    PROVE  Turn(c)
<1>1. PICK g \in Shown : g = held[c]
    BY DEF RequestsTypeOK
<1>2. PICK at \in Paths : at = job[c].at /\ g.doc # 0 /\ (at = g.at \/ MovedSince(g))
    BY <1>1 DEF RefuseSave, Locking, ClientOK, Aims, Mutations, Writes
<1>3. PICK h : h = [g EXCEPT !.at = at, !.as = "refused", !.src = g.doc, !.seq = g.rev,
                             !.text = Null]
    OBVIOUS
<1>4. /\ h.doc = g.doc /\ h.at = at /\ h.rev = g.rev /\ h.as = "refused"
      /\ h.src = g.doc /\ h.seq = g.rev /\ h.link = g.link
    BY <1>3 DEF Shown
<1>5. h \in Shown
    BY <1>3 DEF Shown
<1>6. Shows(g) /\ Linked(g)
    BY <1>1 DEF ClientOK
<1>7. MovedSince(g) => MovedSince(h)
    BY <1>4 DEF MovedSince
<1>8. g.doc \in Ids
    BY <1>2 DEF Shown
<1>9. Shows(h) /\ Linked(h)
    BY <1>2, <1>4, <1>6, <1>7, <1>8 DEF Shows, Linked
<1>10. held' = [held EXCEPT ![c] = h] /\ Finish(c) /\ StoreUnchanged
    BY <1>1, <1>2, <1>3 DEF RefuseSave
<1> QED BY <1>5, <1>9, <1>10, TurnDisplays

LEMMA TurnOpEntry ==
    ASSUME TreeInv, PathsKept, RequestsTypeOK, NEW c \in Clients, ClientOK(c),
           NEW p \in Paths, NEW does \in Forms \cup Mutations \cup {Null},
           OpEntry(c, p, does),
           does \in Mutations => /\ held[c].doc # 0 /\ held[c].link = Null
                                 /\ p = held[c].at \/ MovedSince(held[c])
    PROVE  Turn(c)
<1>1. StoreUnchanged /\ TypeOK /\ ClientOK(c)
    BY DEF OpEntry, TreeInv
<1>2. PICK h \in Shown : h = held[c]
    BY DEF RequestsTypeOK
<1>3. does \in Mutations /\ ~MovedSince(h) =>
        h.doc \in Used /\ path[h.doc] = h.at /\ p = h.at
    BY <1>1, <1>2, StillThere DEF ClientOK
<1>4. does \in Mutations => does \notin Forms /\ h.doc # 0 /\ h.link = Null
    BY <1>2 DEF Mutations, Writes, Forms
<1>5. ASSUME NEW e \in Rendering(p)
      PROVE  /\ e \in Used /\ e \in Ids /\ path[e] \in Paths
             /\ CurrentRevision(e) \in 1..Len(hist[e])
             /\ hist[e][CurrentRevision(e)].path = path[e]
    <2>1. /\ e \in Used /\ e \in Ids /\ path[e] \in Paths
          /\ hist[e] \in Seq(Revisions) /\ hist[e] # <<>>
        BY <1>1, RowFacts DEF Rendering
    <2>2. hist[e][Len(hist[e])].path = path[e]
        BY <2>1 DEF TreeInv, RowFollowsHistory
    <2> QED BY <2>1, <2>2 DEF CurrentRevision
<1>6. ASSUME NEW e \in Rendering(p), does = "form",
             held' = [held EXCEPT ![c] = Showing(e, Null)], Finish(c)
      PROVE  Turn(c)
    BY <1>1, <1>5, <1>6, TurnShows
<1>7. ASSUME NEW e \in Rendering(p), does \in Forms, UNCHANGED held, NEW rev,
             (rev = 0 /\ does = "edit") \/ rev = CurrentRevision(e),
             GoesWith(c, "reading", does, path[e], e, rev)
      PROVE  Turn(c)
    <2>1. PICK j : j = [step |-> "reading", does |-> does, at |-> path[e], doc |-> e, rev |-> rev]
        OBVIOUS
    <2>2. rev \in Nat /\ e \in Ids /\ e \in Ids \cup {0} /\ path[e] \in Paths
        BY <1>5, <1>7
    <2>3. Aims(h, j)
        BY <1>4, <1>7, <2>1, <2>2 DEF Aims, Mutations, Writes, Forms
    <2>4. WillShow(j)
        BY <1>5, <1>7, <2>1 DEF WillShow
    <2> QED BY <1>1, <1>2, <1>7, <2>1, <2>2, <2>3, <2>4, TurnGoes
<1>8. ASSUME NEW e \in Rendering(p), does \in Mutations, UNCHANGED held,
             Goes(c, "locking", does, path[e], Known(does, e))
      PROVE  Turn(c)
    <2>1. PICK doc \in Ids \cup {0} : doc = Known(does, e)
        BY <1>5 DEF Known
    <2>2. PICK j : j = [step |-> "locking", does |-> does, at |-> path[e], doc |-> doc, rev |-> 0]
        OBVIOUS
    <2>3. path[e] = h.at \/ MovedSince(h)
        <3>1. ~MovedSince(h) => e = h.doc
            BY <1>3, <1>5, <1>8 DEF Rendering, TreeInv, NamespaceUnique
        <3> QED BY <1>3, <1>8, <3>1
    <2>4. Aims(h, j) /\ WillShow(j)
        BY <1>4, <1>5, <1>8, <2>2, <2>3 DEF Aims, WillShow
    <2>5. GoesWith(c, "locking", does, path[e], doc, 0) /\ path[e] \in Paths
        BY <1>5, <1>8, <2>1 DEF Goes
    <2> QED BY <1>1, <1>2, <1>8, <2>2, <2>4, <2>5, TurnGoes
<1>9. ASSUME NEW e \in Redirecting(p), UNCHANGED held,
             Goes(c, "following", does, path[e], 0)
      PROVE  Turn(c)
    <2>1. e \in Used /\ e \in Ids /\ e # 0 /\ path[e] \in Paths
        BY <1>1, RowFacts, BoundAssumption DEF Redirecting, Ids, Used
    <2>2. PICK j : j = [step |-> "following", does |-> does, at |-> path[e], doc |-> 0,
                        rev |-> 0]
        OBVIOUS
    <2>3. does \in Mutations => MovedSince(h)
        <3> SUFFICES ASSUME does \in Mutations, ~MovedSince(h) PROVE FALSE
            OBVIOUS
        <3>1. h.doc \in Used /\ path[h.doc] = p
            BY <1>3
        <3>2. PICK q \in Paths : RenderedOf[q] = RenderedOf[p] /\ alias[q] = e
            BY DEF Redirecting
        <3> QED BY <2>1, <3>1, <3>2 DEF TreeInv, RedirectsYield
    <2>4. j.does = does /\ j.at = path[e] /\ j.step = "following"
        BY <2>2
    <2>5. Aims(h, j) /\ WillShow(j)
        BY <1>4, <2>1, <2>3, <2>4 DEF Aims, WillShow
    <2>6. GoesWith(c, "following", does, path[e], 0, 0)
        BY <1>9 DEF Goes
    <2> QED BY <1>1, <1>2, <1>9, <2>1, <2>2, <2>5, <2>6, TurnGoes
<1>10. "edit" \in Forms /\ "page" \in Forms
    BY DEF Forms
<1> QED BY <1>6, <1>7, <1>8, <1>9, <1>10 DEF OpEntry, Goes

\* What the store and the clients are known to satisfy.
ClientsOK == PathsKept /\ \A c \in Clients : ClientOK(c)

LEMMA BrowserTurns ==
    ASSUME TreeInv, ClientsOK, RequestsTypeOK, [Next]_vars, NEW c \in Clients, Browser(c)
    PROVE  Turn(c)
<1>0. TypeOK /\ PathsKept /\ ClientOK(c) /\ Asked \subseteq Paths
    BY ClientAssumption DEF TreeInv, ClientsOK
<1>1. ASSUME NEW p \in Asked, ShowForm(c, p) PROVE Turn(c)
    <2>1. "form" \in Forms /\ "form" \notin Mutations /\ OpEntry(c, p, "form")
        BY <1>1 DEF Forms, Mutations, Writes, ShowForm
    <2> QED BY <1>0, <2>1, TurnOpEntry
<1>2. ASSUME NEW p \in Asked, EditPage(c, p) PROVE Turn(c)
    <2>1. "edit" \in Forms /\ "edit" \notin Mutations /\ OpEntry(c, p, "edit")
        BY <1>2 DEF Forms, Mutations, Writes, EditPage
    <2> QED BY <1>0, <2>1, TurnOpEntry
<1>3. CASE EditorShown(c)
    <2>1. PICK e \in RowsOf(job[c].at) : held' = [held EXCEPT ![c] = Showing(e, Null)]
        BY <1>3 DEF EditorShown
    <2>2. e \in Used /\ Finish(c) /\ StoreUnchanged
        BY <1>3 DEF EditorShown, RowsOf
    <2> QED BY <2>1, <2>2, TurnShows
<1>4. CASE Follow(c)
    <2>1. /\ job[c].step = "following" /\ OpEntry(c, job[c].at, job[c].does)
          /\ job[c].does \in Forms \cup Mutations \cup {Null}
          /\ Aims(held[c], job[c])
        BY <1>0, <1>4 DEF Follow, RequestsTypeOK, Jobs, ClientOK
    <2>2. job[c].at \in Paths
        BY <2>1 DEF Aims
    <2> QED BY <1>0, <2>1, <2>2, TurnOpEntry DEF Aims
<1>5. CASE TrashPage(c)
    <2>1. PICK e \in Used : held' = [held EXCEPT ![c] = Showing(e, Null)]
        BY <1>5 DEF TrashPage
    <2>2. Finish(c) /\ StoreUnchanged
        BY <1>5 DEF TrashPage
    <2> QED BY <2>1, <2>2, TurnShows
<1>6. CASE TrashRestore(c)
    BY <1>0, <1>6, TurnEnds DEF TrashRestore, clientVars
<1>7. ASSUME NEW does \in Mutations, SubmitForm(c, does) PROVE Turn(c)
    <2>1. held[c].doc # 0 /\ held[c].link = Null /\ OpEntry(c, held[c].at, does)
        BY <1>7 DEF SubmitForm
    <2>2. held[c].at \in Paths
        BY <1>0, <2>1 DEF ClientOK, Shows
    <2> QED BY <1>0, <2>1, <2>2, TurnOpEntry
<1>8. ASSUME NEW es \in SUBSET Selectable, Tick(c, es) PROVE Turn(c)
    BY <1>0, <1>8, TurnEnds DEF Tick
<1>9. CASE BulkDelete(c)
    BY <1>0, <1>9, TurnEnds DEF BulkDelete
<1>10. CASE BulkOne(c) \/ BulkOneFails(c)
    BY <1>0, <1>10, TurnEnds DEF BulkOne, BulkOneFails, Cross
<1>11. ASSUME NEW p \in Asked, ShowPage(c, p) PROVE Turn(c)
    <2>1. "page" \in Forms /\ "page" \notin Mutations /\ OpEntry(c, p, "page")
        BY <1>11 DEF Forms, Mutations, Writes, ShowPage
    <2> QED BY <1>0, <2>1, TurnOpEntry
<1>12. CASE PageShown(c)
    BY <1>0, <1>12, TurnPage
<1> QED BY <1>1, <1>2, <1>3, <1>4, <1>5, <1>6, <1>7, <1>8, <1>9, <1>10, <1>11, <1>12 DEF Browser

\* A request that carries what its client was shown to the operation.
LEMMA TurnLocks ==
    ASSUME TypeOK, PathsKept, RequestsTypeOK, NEW c \in Clients, ClientOK(c),
           NEW does \in Mutations, NEW at, NEW doc \in Ids \cup {0},
           held[c].doc # 0, held[c].link # Null => does \in Writes,
           at = held[c].at \/ at = path[held[c].doc],
           Goes(c, "locking", does, at, doc), UNCHANGED held, StoreUnchanged
    PROVE  Turn(c)
<1>1. PICK h \in Shown : h = held[c]
    BY DEF RequestsTypeOK
<1>2. Shows(h) /\ h.doc # 0
    BY <1>1 DEF ClientOK
<1>3. h.doc \in Used /\ (path[h.doc] = h.at \/ MovedSince(h))
    BY <1>2, StillThere
<1>4. at \in Paths
    <2>1. path[h.doc] \in Paths
        BY <1>3, RowFacts
    <2> QED BY <1>1, <1>2, <2>1 DEF Shows
<1>5. PICK j : j = [step |-> "locking", does |-> does, at |-> at, doc |-> doc, rev |-> 0]
    OBVIOUS
<1>6. j.does = does /\ j.at = at /\ j.step = "locking"
    BY <1>5
<1>7. Aims(h, j) /\ WillShow(j)
    BY <1>1, <1>2, <1>3, <1>4, <1>6 DEF Aims, WillShow
<1>8. GoesWith(c, "locking", does, at, doc, 0)
    BY DEF Goes
<1> QED BY <1>1, <1>4, <1>5, <1>7, <1>8, TurnGoes

LEMMA ProgramsTurn ==
    ASSUME TreeInv, ClientsOK, RequestsTypeOK, NEW c \in Clients, Programs(c)
    PROVE  Turn(c)
<1>0. TypeOK /\ PathsKept /\ ClientOK(c) /\ held[c] \in Shown
    BY DEF TreeInv, ClientsOK, RequestsTypeOK
<1>1. ASSUME NEW p \in Asked, APIGetEntry(c, p) PROVE Turn(c)
    <2>0. Finish(c) /\ StoreUnchanged
        BY <1>1 DEF APIGetEntry
    <2>1. ASSUME NEW e \in RowsOf(p), held' = [held EXCEPT ![c] = Showing(e, Null)]
          PROVE  Turn(c)
        BY <2>0, <2>1, TurnShows DEF RowsOf
    <2>2. ASSUME NEW e \in RowsOf(p), NEW n \in 1..(CurrentRevision(e) - 1),
                 held' = [held EXCEPT ![c] = ShowingRevision(e, n)]
          PROVE  Turn(c)
        <3>1. PICK h : h = ShowingRevision(e, n)
            OBVIOUS
        <3>2. e \in Used /\ CurrentRevision(e) \in Nat
            BY <1>0, RowFacts DEF RowsOf, CurrentRevision
        <3>3. n \in 1..CurrentRevision(e)
            BY <3>2
        <3>4. h \in Shown /\ Shows(h) /\ Linked(h)
            BY <1>0, <3>1, <3>2, <3>3, ShowingRevisionTyped DEF TreeInv
        <3>5. held' = [held EXCEPT ![c] = h]
            BY <2>2, <3>1
        <3> QED BY <2>0, <3>4, <3>5, TurnDisplays
    <2> QED BY <1>1, <2>1, <2>2 DEF APIGetEntry
<1>2. ASSUME NEW does \in Mutations, CheckETagEntry(c, does) PROVE Turn(c)
    <2>1. PICK doc \in Ids \cup {0} : doc = Known(does, held[c].doc)
        BY <1>0 DEF Shown, Known
    <2>2. Goes(c, "locking", does, held[c].at, doc) /\ UNCHANGED held /\ StoreUnchanged
        BY <1>2, <2>1 DEF CheckETagEntry, OnlyJob
    <2> QED BY <1>0, <1>2, <2>2, TurnLocks DEF CheckETagEntry
<1>3. ASSUME NEW does \in Mutations, ToolCall(c, does) PROVE Turn(c)
    BY <1>0, <1>3, TurnLocks DEF ToolCall, OnlyJob
<1>4. ASSUME NEW g \in Grants, ShareShow(c, g) PROVE Turn(c)
    <2>1. grantOf[g] \in Used
        <3>1. grantOf[g] \in Ids /\ live[grantOf[g]]
            BY <1>0, <1>4 DEF ShareShow, Works, TypeOK
        <3> QED BY <1>0, <3>1, RowFacts
    <2>2. held' = [held EXCEPT ![c] = Showing(grantOf[g], g)] /\ Finish(c) /\ StoreUnchanged
        BY <1>4 DEF ShareShow
    <2> QED BY <2>1, <2>2, TurnShows
<1>5. ASSUME NEW does \in Mutations, SharePut(c, does) PROVE Turn(c)
    <2>1. /\ held[c].doc # 0 /\ does \in Writes
          /\ Goes(c, "locking", does, path[held[c].doc], 0)
          /\ UNCHANGED held /\ StoreUnchanged
        BY <1>0, <1>5 DEF SharePut, Works, OnlyJob, Shown
    <2> QED BY <1>0, <2>1, TurnLocks
<1> QED BY <1>1, <1>2, <1>3, <1>4, <1>5 DEF Programs

LEMMA OperationTurns ==
    ASSUME TreeInv, TreeInv', ClientsOK, RequestsTypeOK, [Next]_vars, NEW c \in Clients,
           Operation(c)
    PROVE  Turn(c)
<1>0. TypeOK /\ TypeOK' /\ RowFollowsHistory' /\ ClientOK(c)
    BY DEF TreeInv, ClientsOK
<1>1. ASSUME NEW e \in RowsOf(job[c].at), Learns(c, e) PROVE Turn(c)
    <2>1. e \in Used'
        BY <1>0, UsedStays DEF RowsOf
    <2> QED BY <1>0, <1>1, <2>1, TurnLearns
<1>2. ASSUME NEW g \in Grants, ShareAction(c, g) PROVE Turn(c)
    BY <1>0, <1>2, TurnEnds DEF ShareAction
<1>3. CASE RefuseSave(c)
    BY <1>0, <1>3, TurnRefuses
<1> QED BY <1>1, <1>2, <1>3 DEF Operation, Save, MoveEntry, DeleteEntry, RestoreEntry

LEMMA ClientsOKPreserved ==
    ASSUME TreeInv, TreeInv', ClientsOK, RequestsTypeOK, [Next]_vars,
           [RequestsNext]_requestVars
    PROVE  /\ held' \in [Clients -> Shown] /\ job' \in [Clients -> Jobs]
           /\ ClientsOK'
<1>0. TypeOK /\ TypeOK' /\ RowFollowsHistory' /\ PathsKept /\ \A c \in Clients : ClientOK(c)
    BY DEF TreeInv, ClientsOK
<1>1. PathsKept'
    BY <1>0, PathsKeptPreserved
<1>2. ASSUME NEW c \in Clients, Turn(c)
      PROVE  /\ held' \in [Clients -> Shown] /\ job' \in [Clients -> Jobs]
             /\ \A d \in Clients : ClientOK(d)'
    <2>1. ASSUME NEW d \in Clients, d # c PROVE ClientOK(d)'
        BY <1>0, <1>2, <2>1, ClientStays DEF Turn, OthersKeep
    <2> QED BY <1>2, <2>1 DEF Turn
<1>3. ASSUME UNCHANGED <<held, job>>
      PROVE  /\ held' \in [Clients -> Shown] /\ job' \in [Clients -> Jobs]
             /\ \A d \in Clients : ClientOK(d)'
    BY <1>0, <1>3, ClientStays DEF RequestsTypeOK
<1>4. ASSUME NEW c \in Clients, Fail(c) PROVE Turn(c)
    BY <1>0, <1>4, TurnEnds DEF Fail
<1>5. /\ held' \in [Clients -> Shown] /\ job' \in [Clients -> Jobs]
      /\ \A d \in Clients : ClientOK(d)'
    BY <1>2, <1>3, <1>4, BrowserTurns, ProgramsTurn, OperationTurns
       DEF RequestsNext, Others, clientVars, requestVars
<1> QED BY <1>1, <1>5 DEF ClientsOK

-----------------------------------------------------------------------------
\* The rows of listings.
Selections ==
    /\ chosen \in [Clients -> SUBSET Rows]
    /\ todo \in [Clients -> SUBSET Rows]

LEMMA SelectionsPreserved ==
    ASSUME TypeOK, Selections, [RequestsNext]_requestVars
    PROVE  Selections'
<1>1. ASSUME NEW c \in Clients, NEW es \in SUBSET Selectable, Tick(c, es) PROVE Selections'
    <2>1. \A e \in es : Listed(e) \in Rows
        BY RowFacts DEF Selectable, Listed, Rows, CurrentRevision
    <2> QED BY <1>1, <2>1 DEF Tick, Selections
<1>2. ASSUME NEW c \in Clients, BulkDelete(c) PROVE Selections'
    BY <1>2 DEF BulkDelete, Selections
<1>3. ASSUME NEW c \in Clients, BulkOne(c) \/ BulkOneFails(c) PROVE Selections'
    BY <1>3 DEF BulkOne, BulkOneFails, Cross, Selections
<1>4. CASE UNCHANGED <<chosen, todo>>
    BY <1>4 DEF Selections
<1>5. ASSUME NEW c \in Clients, NEW p, NEW does, OpEntry(c, p, does)
      PROVE  UNCHANGED <<chosen, todo>>
    BY <1>5 DEF OpEntry, Finish
<1>6. ASSUME NEW c \in Clients, Browser(c) PROVE Selections'
    BY <1>1, <1>2, <1>3, <1>4, <1>5, <1>6
       DEF Browser, ShowForm, EditPage, ShowPage, EditorShown, PageShown, Follow, TrashPage,
           TrashRestore, SubmitForm, Finish, clientVars
<1>7. ASSUME NEW c \in Clients, Programs(c) \/ Operation(c) \/ Fail(c) PROVE Selections'
    BY <1>4, <1>7
       DEF Programs, APIGetEntry, CheckETagEntry, ToolCall, ShareShow, SharePut, OnlyJob,
           Operation, Save, MoveEntry, DeleteEntry, RestoreEntry, ShareAction, Learns,
           RefuseSave, Fail, Finish
<1> QED BY <1>4, <1>6, <1>7 DEF RequestsNext, Others, clientVars, requestVars

-----------------------------------------------------------------------------
\* The inductive invariant.
IInv == TreeInv /\ RequestsTypeOK /\ ClientsOK

LEMMA InitHolds == RequestsInit => IInv
<1> SUFFICES ASSUME RequestsInit PROVE IInv
    OBVIOUS
<1>1. TreeInv /\ TypeOK
    BY InitTree DEF RequestsInit, TreeInv
<1>2. RequestsTypeOK
    BY <1>1, IdleTyped DEF RequestsInit, RequestsTypeOK
<1>3. ASSUME NEW c \in Clients PROVE ClientOK(c)
    <2>1. held[c] = Nothing /\ job[c] = Idle
        BY DEF RequestsInit
    <2> QED BY <2>1, PathAssumption
            DEF ClientOK, Shows, Linked, Aims, WillShow, Nothing, Idle
<1>4. PathsKept
    BY PathsKeptInitially DEF RequestsInit
<1> QED BY <1>1, <1>2, <1>3, <1>4 DEF IInv, ClientsOK

LEMMA StepHolds == IInv /\ [RequestsNext]_requestVars => IInv'
<1> SUFFICES ASSUME IInv, [RequestsNext]_requestVars PROVE IInv'
    OBVIOUS
<1>1. TreeInv /\ RequestsTypeOK /\ ClientsOK /\ TypeOK /\ Selections
    BY DEF IInv, TreeInv, RequestsTypeOK, Selections
<1>2. [Next]_vars
    BY <1>1, StepsAreContentSteps
<1>3. TreeInv' /\ TypeOK'
    BY <1>1, <1>2, TreeInvPreserved DEF TreeInv
<1>4. held' \in [Clients -> Shown] /\ job' \in [Clients -> Jobs] /\ ClientsOK'
    BY <1>1, <1>2, <1>3, ClientsOKPreserved
<1>5. Selections'
    BY <1>1, SelectionsPreserved
<1> QED BY <1>3, <1>4, <1>5 DEF IInv, RequestsTypeOK, Selections

\* The tables, the clients and what they were shown fit together in every
\* reachable state, whatever runs between a lookup and its operation.
THEOREM InvariantHolds == RequestsSpec => []IInv
BY InitHolds, StepHolds, PTL DEF RequestsSpec

\* Whatever the handlers of the browser, the API, the tools and the links look
\* up first, they do to the tables only what Content allows: every theorem of
\* ContentProofs holds of the whole.
THEOREM RequestsImplementContent == RequestsSpec => Spec
<1>1. RequestsInit => Init
    BY DEF RequestsInit
<1>2. IInv /\ [RequestsNext]_requestVars => [Next]_vars
    BY StepsAreContentSteps DEF IInv
<1> QED BY <1>1, <1>2, InvariantHolds, PTL DEF RequestsSpec, Spec

\* Clients, their requests and their selections keep their types.
THEOREM RequestsTypeCorrect == RequestsSpec => []RequestsTypeOK
<1>1. IInv => RequestsTypeOK
    BY DEF IInv
<1> QED BY <1>1, InvariantHolds, PTL

\* What a form, a reply or an ETag shows together was one revision of one
\* document (EditPage, Read).
THEOREM WhatIsShownWas == RequestsSpec => []ShownTogetherWasTogether
<1>1. IInv => ShownTogetherWasTogether
    BY DEF IInv, ClientsOK, ClientOK, Shows, ShownTogetherWasTogether
<1> QED BY <1>1, InvariantHolds, PTL

-----------------------------------------------------------------------------
\* What a request changes is what its client was shown.

\* A request that reaches its operation is its client's.
LEMMA PerformedByItsClient ==
    ASSUME IInv, RequestsNext, NEW c \in Clients, NEW e \in Ids, Performs(c, e)
    PROVE  Operation(c)
<1>0. TreeInv /\ TypeOK /\ ClientsOK /\ RequestsTypeOK /\ [Next]_vars /\ TreeInv'
    BY StepsAreContentSteps, TreeInvPreserved DEF IInv, TreeInv
<1>1. job[c].step = "locking" /\ job'[c].step = "idle" /\ hist' # hist /\ job'[c] # job[c]
    BY DEF Performs, Idle
<1>2. ~Others
    BY <1>1 DEF Others, clientVars
<1>3. ASSUME NEW d \in Clients, Browser(d) \/ Programs(d) \/ Operation(d) \/ Fail(d)
      PROVE  d = c
    <2>1. TypeOK /\ ClientOK(d)
        BY <1>0 DEF ClientsOK
    <2>2. Turn(d)
        BY <1>0, <1>3, <2>1, BrowserTurns, ProgramsTurn, OperationTurns, TurnEnds DEF Fail
    <2> QED BY <1>1, <2>2 DEF Turn, OthersKeep
<1>4. Browser(c) \/ Programs(c) \/ Operation(c) \/ Fail(c)
    BY <1>2, <1>3 DEF RequestsNext
<1>5. ~TrashRestore(c) /\ ~BulkOne(c)
    BY <1>1 DEF TrashRestore, Free, BulkOne, Cross
<1>6. UNCHANGED vars => hist' = hist
    BY DEF vars
<1> QED BY <1>1, <1>4, <1>5, <1>6, LookupsLeaveTheStore DEF Browser

LEMMA ChangedWasShown ==
    ASSUME IInv, RequestsNext, NEW c \in Clients, NEW e \in Ids, Performs(c, e)
    PROVE  /\ CurrentRevision(e) = held[c].rev
           /\ \/ held[c].doc = e
              \/ held[c].link = Null /\ MovedSince(held[c])
<1>0. TreeInv /\ TypeOK /\ ClientOK(c) /\ PathsKept /\ held[c] \in Shown
    BY DEF IInv, TreeInv, ClientsOK, RequestsTypeOK
<1>1. job[c].step = "locking" /\ path[e] = job[c].at /\ hist'[e] # hist[e]
    BY DEF Performs
<1>2. PICK h \in Shown : h = held[c]
    BY <1>0
<1>3. Shows(h) /\ Linked(h) /\ Aims(h, job[c])
    BY <1>0, <1>2 DEF ClientOK
<1>4. e \in Used
    BY <1>0, <1>1, <1>3, RowFacts DEF Aims
<1>5. ASSUME job[c].does \in Mutations, h.link = Null
      PROVE  h.doc = e \/ MovedSince(h)
    <2>1. h.doc # 0 /\ (job[c].at = h.at \/ MovedSince(h))
        BY <1>1, <1>3, <1>5 DEF Aims
    <2>2. h.doc \in Used /\ (path[h.doc] = h.at \/ MovedSince(h))
        BY <1>0, <1>3, <2>1, StillThere
    <2> QED BY <1>0, <1>1, <1>4, <2>1, <2>2, OneRowAPath
<1>6. h.doc # 0 /\ job[c].does \in Mutations => h.rev # 0
    BY <1>3 DEF Shows
<1>7. ASSUME NEW d \in Ids, NEW t \in Contents, Save(c, d, t)
      PROVE  CurrentRevision(e) = h.rev /\ (h.doc = e \/ (h.link = Null /\ MovedSince(h)))
    <2>1. job[c].does \in Writes /\ job[c].does \in Mutations /\ d \in Used /\ path[d] = job[c].at
        BY <1>7 DEF Save, Locking, Mutations, Writes, RowsOf
    <2>2. CASE WriteUpdate(h.link, Null, job[c].at, t, h.rev)
        <3>1. PICK f \in Ids :
                 /\ live[f] /\ path[f] = job[c].at /\ h.rev = CurrentRevision(f)
                 /\ hist' = hist \/ hist' = [hist EXCEPT ![f] =
                       Append(@, Revision("update", job[c].at, t, h.link, Null))]
            BY <2>2 DEF WriteUpdate, Amend, entryVars
        <3>2. f = e
            BY <1>0, <1>1, <3>1 DEF TypeOK
        <3>3. h.link # Null => h.doc = e
            <4>1. h.link # Null => path[grantOf[h.link]] = job[c].at /\ h.doc # 0
                                   /\ grantOf[h.link] = h.doc
                BY <1>3, <2>2 DEF WriteUpdate, ShareMayWrite, Linked
            <4>2. h.doc # 0 => h.doc \in Used
                BY <1>0, <1>3, StillThere
            <4> QED BY <1>0, <1>1, <1>4, <4>1, <4>2, OneRowAPath
        <3> QED BY <1>5, <2>1, <3>1, <3>2, <3>3
    <2>3. CASE h.link = Null /\ WriteRevive(Null, d, t, h.rev)
        <3>1. d = e
            BY <1>0, <1>1, <1>4, <2>1, OneRowAPath
        <3>2. h.rev = 0 \/ h.rev = CurrentRevision(e)
            BY <2>3, <3>1 DEF WriteRevive
        <3>3. h.doc # 0
            BY <1>1, <1>3, <2>1 DEF Aims
        <3> QED BY <1>5, <1>6, <2>1, <2>3, <3>2, <3>3
    <2> QED BY <1>2, <1>7, <2>2, <2>3 DEF Save
<1>8. ASSUME NEW d \in RowsOf(job[c].at), NEW q, NEW n,
             job[c].does \in {"move", "delete", "restore"},
             \/ Move(Null, d, q, h.rev) \/ Delete(Null, d, h.rev) \/ Restore(Null, d, n, h.rev)
      PROVE  CurrentRevision(e) = h.rev /\ h.link = Null /\ (h.doc = e \/ MovedSince(h))
    <2>1. d = e
        BY <1>0, <1>1, <1>4, OneRowAPath DEF RowsOf
    <2>2. job[c].does \in Mutations /\ job[c].does \notin Writes
        BY <1>8 DEF Mutations, Writes
    <2>3. h.link = Null
        BY <1>1, <1>3, <2>2 DEF Aims
    <2>4. CurrentRevision(e) = h.rev
        BY <1>8, <2>1 DEF Move, Delete, Restore
    <2> QED BY <1>5, <2>2, <2>3, <2>4
<1>9. ASSUME NEW g \in Grants, ShareAction(c, g) PROVE FALSE
    BY <1>1, <1>9 DEF ShareAction, CreateShareGrant, entryVars
<1>14. ASSUME RefuseSave(c) PROVE FALSE
    BY <1>1, <1>14 DEF RefuseSave, StoreUnchanged, entryVars
<1>10. Operation(c)
    BY PerformedByItsClient
<1>11. CASE \E d \in Ids, q \in Named : MoveEntry(c, d, q)
    BY <1>2, <1>8, <1>11 DEF MoveEntry, Locking
<1>12. CASE \E d \in Ids : DeleteEntry(c, d)
    BY <1>2, <1>8, <1>12 DEF DeleteEntry, Locking
<1>13. CASE \E d \in Ids : \E n \in 1..CurrentRevision(d) : RestoreEntry(c, d, n)
    BY <1>2, <1>8, <1>13 DEF RestoreEntry, Locking
<1> QED BY <1>2, <1>7, <1>9, <1>14, <1>10, <1>11, <1>12, <1>13 DEF Operation

\* No request changes a document at a revision other than the one its client
\* was shown (checkETagEntry, opEntry, the tools and SharePutRaw, with the
\* check of the revision under the lock).
THEOREM ChangesAreOfWhatWasShown == RequestsSpec => ChangesReplaceWhatWasShown
<1>1. IInv /\ [RequestsNext]_requestVars =>
        [\A c \in Clients, e \in Ids : Performs(c, e) =>
            /\ CurrentRevision(e) = held[c].rev
            /\ \/ held[c].doc = e
               \/ held[c].link = Null /\ MovedSince(held[c])]_requestVars
    BY ChangedWasShown
<1> QED BY <1>1, InvariantHolds, PTL DEF RequestsSpec, ChangesReplaceWhatWasShown

-----------------------------------------------------------------------------
\* A bulk request and its own rows.

\* The root is in no listing.
RootUnticked == \A c \in Clients : \A r \in chosen[c] \cup todo[c] : r.at # Root

LEMMA RootUntickedPreserved ==
    ASSUME Selections, RootUnticked, [RequestsNext]_requestVars
    PROVE  RootUnticked'
<1>1. ASSUME NEW c \in Clients, NEW es \in SUBSET Selectable, Tick(c, es)
      PROVE  RootUnticked'
    <2>1. \A r \in {Listed(e) : e \in es} : r.at # Root
        BY DEF Selectable, Listed
    <2> QED BY <1>1, <2>1 DEF Tick, Selections, RootUnticked
<1>2. ASSUME NEW c \in Clients, BulkDelete(c) PROVE RootUnticked'
    BY <1>2 DEF BulkDelete, Selections, RootUnticked
<1>3. ASSUME NEW c \in Clients, BulkOne(c) \/ BulkOneFails(c) PROVE RootUnticked'
    BY <1>3 DEF BulkOne, BulkOneFails, Cross, Selections, RootUnticked
<1>4. CASE UNCHANGED <<chosen, todo>>
    BY <1>4 DEF RootUnticked
<1>5. ASSUME NEW c \in Clients, NEW p, NEW does, OpEntry(c, p, does)
      PROVE  UNCHANGED <<chosen, todo>>
    BY <1>5 DEF OpEntry, Finish
<1>6. ASSUME NEW c \in Clients, Browser(c) PROVE RootUnticked'
    BY <1>1, <1>2, <1>3, <1>4, <1>5, <1>6
       DEF Browser, ShowForm, EditPage, ShowPage, EditorShown, PageShown, Follow, TrashPage,
           TrashRestore, SubmitForm, Finish, clientVars
<1>7. ASSUME NEW c \in Clients, Programs(c) \/ Operation(c) \/ Fail(c) PROVE RootUnticked'
    BY <1>4, <1>7
       DEF Programs, APIGetEntry, CheckETagEntry, ToolCall, ShareShow, SharePut, OnlyJob,
           Operation, Save, MoveEntry, DeleteEntry, RestoreEntry, ShareAction, Learns,
           RefuseSave, Fail, Finish
<1> QED BY <1>4, <1>6, <1>7 DEF RequestsNext, Others, clientVars, requestVars

\* What lies in a directory lies deeper.
LEMMA ChildrenAreDeeper ==
    ASSUME NEW p \in Paths \ {Root}
    PROVE  Depth(p) > Depth(ParentOf[p])
<1>1. ParentOf[p] \in Paths /\ Above[p] = Above[ParentOf[p]] \cup {ParentOf[p]}
    BY PathAssumption DEF Directories
<1>2. ParentOf[p] \notin Above[ParentOf[p]]
    BY <1>1, NotAboveItself
<1>3. Above[ParentOf[p]] \subseteq Paths /\ IsFiniteSet(Paths)
    BY <1>1, PathAssumption DEF Directories
<1>4. IsFiniteSet(Above[ParentOf[p]])
    BY <1>3, FS_Subset
<1>5. Cardinality(Above[p]) = Cardinality(Above[ParentOf[p]]) + 1
    BY <1>1, <1>2, <1>4, FS_AddElement
<1>6. Cardinality(Above[ParentOf[p]]) \in Nat
    BY <1>4, FS_CardinalityType
<1> QED BY <1>5, <1>6 DEF Depth

\* Rows leave a bulk request one by one, each when it is tried.
LEMMA CrossedWhenTried ==
    ASSUME Selections, RequestsNext, NEW c \in Clients, NEW r \in todo[c] \ todo'[c]
    PROVE  r \in DeepestFirst(todo[c])
<1>1. ASSUME NEW d \in Clients, NEW p, NEW does, OpEntry(d, p, does)
      PROVE  UNCHANGED todo
    BY <1>1 DEF OpEntry, Finish
<1>2. ASSUME NEW d \in Clients, NEW es \in SUBSET Selectable, Tick(d, es)
      PROVE  UNCHANGED todo
    BY <1>2 DEF Tick
<1>3. ASSUME NEW d \in Clients, BulkDelete(d) PROVE FALSE
    BY <1>3 DEF BulkDelete, Selections
<1>4. ASSUME NEW d \in Clients, NEW s, Cross(d, s) PROVE d = c /\ s = r
    BY <1>4 DEF Cross, Selections
<1>5. ASSUME NEW d \in Clients, BulkOne(d) \/ BulkOneFails(d)
      PROVE  r \in DeepestFirst(todo[c])
    BY <1>4, <1>5 DEF BulkOne, BulkOneFails
<1>6. todo' # todo
    OBVIOUS
<1>7. ASSUME NEW d \in Clients, Browser(d) PROVE BulkOne(d) \/ BulkOneFails(d)
    BY <1>1, <1>2, <1>3, <1>6, <1>7
       DEF Browser, ShowForm, EditPage, ShowPage, EditorShown, PageShown, Follow, TrashPage,
           TrashRestore, SubmitForm, Finish, clientVars
<1>8. ASSUME NEW d \in Clients, Programs(d) \/ Operation(d) \/ Fail(d) PROVE UNCHANGED todo
    BY <1>8
       DEF Programs, APIGetEntry, CheckETagEntry, ToolCall, ShareShow, SharePut, OnlyJob,
           Operation, Save, MoveEntry, DeleteEntry, RestoreEntry, ShareAction, Learns,
           RefuseSave, Fail, Finish
<1> QED BY <1>5, <1>6, <1>7, <1>8 DEF RequestsNext, Others, clientVars

LEMMA BulkGoesBottomUp ==
    ASSUME IInv, RootUnticked, RequestsNext, NEW c \in Clients,
           NEW r \in todo[c] \ todo'[c], NEW e \in LiveAt(r.at),
           NEW i \in {j \in Used : live[j] /\ parent[j] = e}
    PROVE  Listed(i) \notin todo[c]
<1>0. TypeOK /\ LiveTree /\ TreeInv /\ Selections
    BY DEF IInv, TreeInv, RequestsTypeOK, Selections
<1>1. r \in DeepestFirst(todo[c])
    BY <1>0, CrossedWhenTried
<1>2. i \in Ids /\ live[i] /\ parent[i] = e /\ path[e] = r.at /\ path[i] \in Paths
    BY <1>0, RowFacts DEF LiveAt
<1>3. SUFFICES ASSUME Listed(i) \in todo[c] PROVE FALSE
    OBVIOUS
<1>4. path[i] # Root
    BY <1>3 DEF RootUnticked, Listed
<1>5. path[e] = ParentOf[path[i]]
    BY <1>0, <1>2, <1>4 DEF LiveTree
<1>6. Depth(path[i]) > Depth(r.at)
    BY <1>2, <1>4, <1>5, ChildrenAreDeeper
<1>7. Depth(r.at) >= Depth(path[i])
    BY <1>1, <1>3 DEF DeepestFirst, Listed
<1>8. Depth(path[i]) \in Nat /\ Depth(r.at) \in Nat
    <2>1. ASSUME NEW p \in Paths PROVE Depth(p) \in Nat
        <3>1. Above[p] \subseteq Paths /\ IsFiniteSet(Paths)
            BY PathAssumption DEF Directories
        <3>2. IsFiniteSet(Above[p])
            BY <3>1, FS_Subset
        <3> QED BY <3>2, FS_CardinalityType DEF Depth
    <2>2. r.at \in Paths
        BY <1>0 DEF Selections, Rows
    <2> QED BY <1>2, <2>1, <2>2
<1> QED BY <1>6, <1>7, <1>8

\* A bulk request never refuses a row because of another it has yet to remove:
\* what is in a folder is tried before the folder (BulkEntry sorts its rows).
THEOREM BulkNeverBlocksItself == RequestsSpec => BulkStandsInItsOwnWay
<1>1. RequestsInit => RootUnticked
    BY DEF RequestsInit, RootUnticked
<1>2. IInv => Selections
    BY DEF IInv, RequestsTypeOK, Selections
<1>3. IInv /\ RootUnticked /\ [RequestsNext]_requestVars => RootUnticked'
    BY <1>2, RootUntickedPreserved
<1>4. IInv /\ RootUnticked /\ [RequestsNext]_requestVars =>
        [\A c \in Clients : \A r \in todo[c] \ todo'[c] : \A e \in LiveAt(r.at) :
          hist' = hist /\ CurrentRevision(e) = r.rev =>
             \A i \in {j \in Used : live[j] /\ parent[j] = e} :
                Listed(i) \notin todo[c]]_requestVars
    BY BulkGoesBottomUp
<1> QED BY <1>1, <1>3, <1>4, InvariantHolds, PTL DEF RequestsSpec, BulkStandsInItsOwnWay
=============================================================================
