----------------------------- MODULE Placement -----------------------------
(***************************************************************************)
(* Where documents are filed: models/organize.go and its callers, the tool *)
(* tmp_write (mcp/server.go), QuickAdd and refiling (controllers/ops.go).  *)
(*                                                                         *)
(* A location is decided in one transaction, a model is asked outside any, *)
(* and the document is written or moved in another.  A client that hears   *)
(* nothing sends the same call again under the same request id, perhaps    *)
(* while the first is still running.                                       *)
(***************************************************************************)
EXTENDS Content

CONSTANTS
    Handlers,       \* requests being served
    Folders,        \* the directories that a suggestion may name
    Slots,          \* per folder, the document's name there, then numbered ones
    Guesses,        \* paths that callers name, and documents to be refiled
    Texts,          \* what is sent to be filed
    Asks,           \* calls of tmp_write: path or Null for auto, text, revision
    AIMaxCallsPerHour

ASSUME PlacementAssumption ==
    /\ Folders \subseteq Directories \ {Root}
    /\ Slots \in [Folders -> Seq(Paths) \ {<<>>}]
    /\ \A d \in Folders : \A n \in 1..Len(Slots[d]) : ParentOf[Slots[d][n]] = d
    /\ IsFiniteSet(Handlers)
    /\ Guesses \subseteq Paths /\ Texts \subseteq Contents
    /\ Asks \subseteq [at : Guesses \cup {Null}, text : Texts, expected : Nat]
    /\ AIMaxCallsPerHour \in Nat \ {0}

Drafts == Contents \ (Texts \cup {SeedConfig, SeedIndex})   \* what others write

VARIABLES
    work,           \* what a handler has in its local variables
    asks,           \* the call that goes by a request id
    filed,          \* mutation_receipt: digest and result of the write
    calls           \* the ai_call rows of the last hour, by outcome

filingVars == <<work, asks, filed, calls>>
placementVars == <<path, parent, live, bytes, hist, lastId, alias, retained,
                   grantOf, revoked, allowed, receipt, work, asks, filed, calls>>

Resting == [step |-> "idle", does |-> Null, key |-> Null, at |-> Null, doc |-> 0,
            expected |-> 0, text |-> Null, to |-> Null, decided |-> FALSE,
            again |-> FALSE]
Unsaid == [at |-> Null, text |-> Null, expected |-> 0]

Works == [step : {"idle", "prior", "exists", "placing", "asking", "answering", "writing",
                  "reading"},
          does : {"write", "create", "refile", Null}, key : Keys \cup {Null},
          at : Paths \cup {Null}, doc : Ids \cup {0}, expected : Nat,
          text : Contents \cup {Null}, to : Paths \cup {Null},
          decided : BOOLEAN, again : BOOLEAN]
Sendings == [at : Paths \cup {Null}, text : Contents \cup {Null}, expected : Nat]
Outcomes == [ok : Nat, error : Nat]

StoreUnchanged == UNCHANGED <<entryVars, grantVars, receipt>>
Turn(h, row) == work' = [work EXCEPT ![h] = row]
Rest(h) == Turn(h, Resting)
At(h, step) == work[h].step = step

-----------------------------------------------------------------------------
\* tmp_write.  The path may be "auto" (Null), a guess or a page to replace.

\* A fresh call, or the identical one again.
SendWrite(h, k, ask) ==
    /\ At(h, "idle")
    /\ asks[k] \in {Unsaid, ask}
    /\ asks' = [asks EXCEPT ![k] = ask]
    /\ Turn(h, [Resting EXCEPT !.step = "prior", !.does = "write", !.key = k,
                   !.at = ask.at, !.text = ask.text, !.expected = ask.expected])
    /\ UNCHANGED <<filed, calls>>
    /\ StoreUnchanged

\* Wrong: a retry is placed like any other call.
PriorPathForgotten(h) == work[h].at

\* The path in the receipt of a write that is not expired.
PriorPath(h) ==
    IF receipt[work[h].key] = "live" THEN filed[work[h].key].at ELSE work[h].at

PriorWritePath(h) ==
    /\ At(h, "prior")
    /\ Turn(h, [work[h] EXCEPT
                   !.step = IF PriorPath(h) = Null THEN "placing" ELSE "exists",
                   !.at = PriorPath(h),
                   !.again = (receipt[work[h].key] = "live")])
    /\ UNCHANGED <<asks, filed, calls>>
    /\ StoreUnchanged

\* A path that is not there is a hint, and tmp decides.
PageExists(h) ==
    /\ At(h, "exists")
    /\ Turn(h, [work[h] EXCEPT
                   !.step = IF work[h].at \in LivePaths THEN "writing" ELSE "placing",
                   !.to = work[h].at])
    /\ UNCHANGED <<asks, filed, calls>>
    /\ StoreUnchanged

-----------------------------------------------------------------------------
\* SuggestPlacement.

\* Tree: the live entries, without the document that is being refiled.
Snapshot(h) == LivePaths \ (IF work[h].does = "refile" THEN {work[h].at} ELSE {})

\* finishPlacement and UniquePlacementPath: the name itself, else the first
\* numbered name that is free, else the name after all.
UniquePlacementPath(d, snap) ==
    LET free == {n \in 1..Len(Slots[d]) : Slots[d][n] \notin snap}
    IN  IF free = {} THEN Slots[d][1]
        ELSE Slots[d][CHOOSE n \in free : \A m \in free : n <= m]

\* Wrong: the revision that the caller named for the path it asked for.
ExpectedAsAsked(h) == work[h].expected

\* A location tmp decides is for a new document.
ExpectedWhenDecided(h) == 0

\* The snapshot of one transaction decides where.  The model may name any folder,
\* the heuristic one that is there or the inbox: either way, any of Folders.
SuggestPlacement(h, d) ==
    /\ At(h, "placing")
    /\ LET to == UniquePlacementPath(d, Snapshot(h))
           placed == [work[h] EXCEPT !.step = "asking", !.to = to]
       IN  Turn(h, IF work[h].does = "refile" THEN placed
                   ELSE [placed EXCEPT !.at = to, !.decided = TRUE,
                            !.expected = ExpectedWhenDecided(h)])
    /\ UNCHANGED <<asks, filed, calls>>
    /\ StoreUnchanged

\* Wrong: calls that failed are free.
OverBudgetOfAnswers == calls.ok >= AIMaxCallsPerHour

\* aiOverBudget counts the rows of calls that were made.
AIOverBudget == calls.ok + calls.error >= AIMaxCallsPerHour

\* A document that stays in its folder is left alone.
Settled(h) ==
    IF work[h].does = "refile" /\ ParentOf[work[h].to] = ParentOf[work[h].at]
    THEN Resting ELSE [work[h] EXCEPT !.step = "writing"]

\* No model configured or wanted, or its budget spent: the heuristic answers.
NoModel(h) ==
    /\ At(h, "asking")
    /\ Turn(h, Settled(h))
    /\ UNCHANGED <<asks, filed, calls>>
    /\ StoreUnchanged

\* The budget is read before the call and its row inserted after.
AskModel(h) ==
    /\ At(h, "asking")
    /\ ~AIOverBudget
    /\ Turn(h, [work[h] EXCEPT !.step = "answering"])
    /\ UNCHANGED <<asks, filed, calls>>
    /\ StoreUnchanged

\* An answer, or an error or a reply that names no folder: the heuristic then.
RecordAICall(h, outcome) ==
    /\ At(h, "answering")
    /\ calls' = [calls EXCEPT ![outcome] = @ + 1]
    /\ Turn(h, Settled(h))
    /\ UNCHANGED <<asks, filed>>
    /\ StoreUnchanged

\* An hour after a call its row no longer counts.
HourPasses(outcome) ==
    /\ calls[outcome] > 0
    /\ calls' = [calls EXCEPT ![outcome] = @ - 1]
    /\ UNCHANGED <<work, asks, filed>>
    /\ StoreUnchanged

-----------------------------------------------------------------------------
\* QuickAdd, tmp_organize and APIOrganize only suggest; the caller then creates
\* the document there under a request id of its own.
Suggest(h, t) ==
    /\ At(h, "idle")
    /\ Turn(h, [Resting EXCEPT !.step = "placing", !.does = "create", !.text = t])
    /\ UNCHANGED <<asks, filed, calls>>
    /\ StoreUnchanged

\* RefileEntry and a bulk refile: the entry as it was looked up,
RefileEntry(h, e) ==
    /\ At(h, "idle")
    /\ live[e] /\ path[e] \in Guesses
    /\ Turn(h, [Resting EXCEPT !.step = "reading", !.does = "refile", !.at = path[e],
                   !.doc = e, !.expected = CurrentRevision(e)])
    /\ UNCHANGED <<asks, filed, calls>>
    /\ StoreUnchanged

\* and its text, read by path in another transaction.
RefileRead(h) ==
    /\ At(h, "reading")
    /\ \E e \in Used :
          /\ path[e] = work[h].at
          /\ Turn(h, [work[h] EXCEPT !.step = "placing", !.text = CurrentContent(e)])
    /\ UNCHANGED <<asks, filed, calls>>
    /\ StoreUnchanged

\* Wrong: moves whatever revision is there by now.
RefileMoveAnyway(h, e) ==
    /\ At(h, "writing") /\ work[h].does = "refile"
    /\ path[e] = work[h].at
    /\ Move(Null, e, work[h].to, CurrentRevision(e))
    /\ Rest(h)
    /\ UNCHANGED <<asks, filed, calls>>

RefileMove(h, e) ==
    /\ At(h, "writing") /\ work[h].does = "refile"
    /\ path[e] = work[h].at
    /\ Move(Null, e, work[h].to, work[h].expected)
    /\ Rest(h)
    /\ UNCHANGED <<asks, filed, calls>>

-----------------------------------------------------------------------------
\* Write, under the tenant lock.

Digest(h) == [at |-> work[h].to, text |-> work[h].text, expected |-> work[h].expected]

\* The first time: the receipt keeps the digest.
FileDocument(h) ==
    LET w == work[h]
    IN  /\ At(h, "writing") /\ w.does # "refile"
        /\ \/ w.expected = 0 /\ WriteCreate(w.key, w.to, w.text)
           \/ \E e \in Ids : WriteRevive(w.key, e, w.text, w.expected) /\ path[e] = w.to
           \/ WriteUpdate(Null, w.key, w.to, w.text, w.expected)
        /\ filed' = IF w.key = Null THEN filed
                    ELSE [filed EXCEPT ![w.key] = Digest(h)]
        /\ Rest(h)
        /\ UNCHANGED <<asks, calls>>

\* Again: answered from the receipt, or refused when the digest differs.
AnswerFromReceipt(h) ==
    /\ At(h, "writing") /\ work[h].key # Null
    /\ receipt[work[h].key] = "live"
    /\ Rest(h)
    /\ UNCHANGED <<asks, filed, calls>>
    /\ StoreUnchanged

\* Any error, of a lookup or the operation, or the connection lost: a model
\* call that is cut off with its request leaves no row.
Abandon(h) ==
    /\ ~At(h, "idle")
    /\ Rest(h)
    /\ UNCHANGED <<asks, filed, calls>>
    /\ StoreUnchanged

-----------------------------------------------------------------------------
\* Everyone else, and time.
Others ==
    /\ \/ \E p \in Guesses, t \in Drafts : WriteCreate(Null, p, t)
       \/ \E e \in Used, t \in Drafts :
             WriteUpdate(Null, Null, path[e], t, CurrentRevision(e))
       \/ \E e \in LiveOf("page") :
             path[e] # IndexPath /\ Delete(Null, e, CurrentRevision(e))
       \/ \E k \in Keys : ExpireReceipt(k)
    /\ UNCHANGED filingVars

PlacementInit ==
    /\ Init
    /\ work = [h \in Handlers |-> Resting]
    /\ asks = [k \in Keys |-> Unsaid]
    /\ filed = [k \in Keys |-> Unsaid]
    /\ calls = [ok |-> 0, error |-> 0]

Serving(h) ==
    \/ \E k \in Keys, ask \in Asks : SendWrite(h, k, ask)
    \/ PriorWritePath(h) \/ PageExists(h)
    \/ \E d \in Folders : SuggestPlacement(h, d)
    \/ NoModel(h) \/ AskModel(h)
    \/ \E outcome \in {"ok", "error"} : RecordAICall(h, outcome)
    \/ \E t \in Drafts : Suggest(h, t)
    \/ \E e \in Ids : RefileEntry(h, e) \/ RefileMove(h, e)
    \/ RefileRead(h)
    \/ FileDocument(h) \/ AnswerFromReceipt(h) \/ Abandon(h)

PlacementNext ==
    \/ \E h \in Handlers : Serving(h)
    \/ \E outcome \in {"ok", "error"} : HourPasses(outcome)
    \/ Others

PlacementSpec == PlacementInit /\ [][PlacementNext]_placementVars
-----------------------------------------------------------------------------
\* What must always hold.

PlacementTypeOK ==
    /\ TypeOK
    /\ work \in [Handlers -> Works]
    /\ asks \in [Keys -> Sendings]
    /\ filed \in [Keys -> Sendings]
    /\ calls \in Outcomes

\* The revisions of documents, not of directories, that a key made.
MadeUnder(k) ==
    {r \in Ids \X (1..MaxRevisions) :
        /\ r[2] <= Len(hist[r[1]])
        /\ hist[r[1]][r[2]].key = k /\ hist[r[1]][r[2]].content # Null}

\* However often and however concurrently a call is sent, and although tmp may
\* decide another location each time, it makes one revision of one document
\* (docs/MCP.md: a retry "is not filed a second time"), even when its receipt
\* has expired.
OneDocumentPerRequest == \A k \in Keys : Cardinality(MadeUnder(k)) <= 1

\* A retry that began after the first attempt committed, and whose page is
\* still there, comes to Write with the digest of the first attempt and is
\* answered, not refused, unless tmp had set the revision that it named to 0.
RetriesReachTheFirst ==
    \A h \in Handlers :
        LET k == work[h].key
        IN  At(h, "writing") /\ work[h].again /\ ~work[h].decided
            /\ asks[k].expected = filed[k].expected
            => Digest(h) = filed[k]

\* The budget is overshot by no more than the calls that are under way, whatever
\* their outcomes (docs/SETUP.md, AI_MAX_CALLS_PER_HOUR).
BudgetOvershoot ==
    calls.ok + calls.error <= AIMaxCallsPerHour + Cardinality(Handlers) - 1

\* A location that tmp decided never overwrites: between the snapshot and the
\* write others may file a document under the very name, and the caller may
\* have named a revision (docs/MCP.md: "It never overwrites").
FilingNeverOverwrites ==
    [][\A h \in Handlers :
          At(h, "writing") /\ work[h].does # "refile" /\ work[h].decided
          /\ work'[h] = Resting =>
             \A e \in Ids : live[e] => hist'[e] = hist[e]]_placementVars

MovedSince(e, n) == \E m \in 1..Len(hist[e]) : m > n /\ hist[e][m].op = "move"

\* Refiling moves the text it was decided for: lookup, read and move are three
\* transactions, yet the document moved is the one looked up, with the text
\* that was read, unless it was moved away by others meanwhile.
RefileMovesWhatItRead ==
    [][\A h \in Handlers, e \in Ids :
          At(h, "writing") /\ work[h].does = "refile" /\ work'[h] = Resting
          /\ path[e] = work[h].at /\ hist'[e] # hist[e] =>
             \/ work[h].doc = e /\ work[h].text = CurrentContent(e)
             \/ MovedSince(work[h].doc, work[h].expected)]_placementVars
=============================================================================
