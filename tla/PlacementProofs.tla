--------------------------- MODULE PlacementProofs ---------------------------
(***************************************************************************)
(* Theorems about Placement, for any number of handlers, keys and folders:  *)
(* every request is a step of Content or leaves the tables alone, a location *)
(* that tmp decided never overwrites, a request makes one document, and the  *)
(* budget is overshot by no more than the calls under way.                 *)
(***************************************************************************)
EXTENDS Placement, ContentProofs

\* What a handler has in its local variables fits the step it is at.
Steady(h) ==
    /\ At(h, "asking") \/ At(h, "answering") \/ At(h, "writing") => work[h].to \in Paths
    /\ ~At(h, "idle") /\ work[h].does # "refile" => work[h].text \in Contents
    /\ At(h, "reading") \/ (~At(h, "idle") /\ work[h].does = "refile") =>
          work[h].does = "refile" /\ work[h].at \in Paths
    /\ At(h, "prior") \/ At(h, "exists") => work[h].does = "write"
    /\ IF work[h].does = "write" THEN work[h].key \in Keys ELSE work[h].key = Null
    /\ At(h, "idle") => work[h] = Resting

\* A location that tmp decided is expected to be free.
Deciding(h) ==
    /\ work[h].decided => work[h].expected = 0
    /\ At(h, "asking") \/ At(h, "answering") =>
          work[h].does = "refile" \/ work[h].decided

\* The call that goes by a key is one call, and what was filed under it is that
\* call's text.
Called(h) ==
    work[h].does = "write" =>
        /\ work[h].text = asks[work[h].key].text
        /\ ~work[h].decided => work[h].expected = asks[work[h].key].expected

FiledAsCalled ==
    \A k \in Keys : receipt[k] # "none" =>
        filed[k].at \in Paths /\ filed[k].text = asks[k].text /\ asks[k].text \in Contents

\* A retry that found the receipt goes to the path in it.
Retrying(h) ==
    work[h].again =>
        /\ work[h].does = "write" /\ receipt[work[h].key] # "none"
        /\ At(h, "exists") => work[h].at = filed[work[h].key].at
        /\ At(h, "writing") /\ ~work[h].decided => work[h].to = filed[work[h].key].at

\* A document to be refiled was at the path, in the revision looked up; and the
\* text read is of that revision, unless it has later ones by now.
Refiling(h) ==
    work[h].does = "refile" =>
        LET w == work[h]
        IN  /\ w.doc \in Used /\ w.expected \in 1..Len(hist[w.doc])
            /\ hist[w.doc][w.expected].path = w.at
            /\ ~At(h, "reading") => \/ Len(hist[w.doc]) > w.expected
                                    \/ w.text = hist[w.doc][w.expected].content

HandlerOK(h) == Steady(h) /\ Deciding(h) /\ Called(h) /\ Retrying(h) /\ Refiling(h)

IInv ==
    /\ TreeInv /\ PathsKept /\ PlacementTypeOK
    /\ FiledAsCalled
    /\ \A h \in Handlers : HandlerOK(h)

\* Rows of ai_call, with those of the calls under way.
Answering == {h \in Handlers : At(h, "answering")}
Budgeted ==
    calls.ok + calls.error + Cardinality(Answering)
        <= AIMaxCallsPerHour + Cardinality(Handlers) - 1

-----------------------------------------------------------------------------
\* The name that is chosen is one of the folder's.

LEMMA NameOfTheFolder ==
    ASSUME NEW d \in Folders, NEW snap
    PROVE  UniquePlacementPath(d, snap) \in Paths
<1> DEFINE free == {n \in 1..Len(Slots[d]) : Slots[d][n] \notin snap}
<1>1. Slots[d] \in Seq(Paths) /\ Slots[d] # <<>>
    BY PlacementAssumption
<1>2. Slots[d][1] \in Paths
    BY <1>1
<1>3. ASSUME free # {} PROVE (CHOOSE n \in free : \A m \in free : n <= m) \in free
    <2>1. free \in SUBSET Nat
        BY <1>1
    <2> HIDE DEF free
    <2> QED BY <1>3, <2>1, Least
<1>4. \A n \in free : Slots[d][n] \in Paths
    BY <1>1
<1> QED BY <1>2, <1>3, <1>4 DEF UniquePlacementPath

-----------------------------------------------------------------------------
\* Every request is a step of Content, or changes no table.

LEMMA NamedMutates ==
    ASSUME NEW k \in Keys \cup {Null}, NEW e \in Used, NEW x \in 0..CurrentRevision(e),
           MutationOf(k, e, x)
    PROVE  Next
<1>1. Mutation(k)
    BY DEF Mutation
<1> QED BY <1>1 DEF Next

LEMMA UpdateMutates ==
    ASSUME TreeInv, NEW k \in Keys \cup {Null}, NEW p, NEW c \in Contents, NEW x,
           WriteUpdate(Null, k, p, c, x)
    PROVE  Next
<1>1. PICK f \in Ids : live[f] /\ path[f] = p /\ x = CurrentRevision(f)
    BY DEF WriteUpdate
<1>2. TypeOK /\ f \in Used
    BY <1>1, RowFacts DEF TreeInv
<1>3. x \in 0..CurrentRevision(f) /\ p \in PathsHeld(f)
    BY <1>1, <1>2, RevisionNamed, PathHeld
<1>4. MutationOf(k, f, x)
    BY <1>3 DEF MutationOf
<1> QED BY <1>2, <1>3, <1>4, NamedMutates

LEMMA FilingMutates ==
    ASSUME IInv, NEW h \in Handlers, FileDocument(h)
    PROVE  Next
<1> DEFINE w == work[h]
<1>1. TreeInv /\ TypeOK /\ w \in Works /\ Steady(h)
    BY DEF IInv, TreeInv, PlacementTypeOK, HandlerOK
<1>2. w.key \in Keys \cup {Null} /\ w.to \in Paths /\ w.text \in Contents
    BY <1>1 DEF FileDocument, Steady, Works, At
<1>3. CASE WriteCreate(w.key, w.to, w.text)
    <2>1. Mutation(w.key)
        BY <1>2, <1>3 DEF Mutation
    <2> QED BY <1>2, <2>1 DEF Next
<1>4. ASSUME NEW e \in Ids, WriteRevive(w.key, e, w.text, w.expected) PROVE Next
    <2>1. e \in Used /\ w.expected \in 0..CurrentRevision(e)
        BY <1>1, <1>4, RevisionNamed DEF WriteRevive
    <2>2. MutationOf(w.key, e, w.expected)
        BY <1>2, <1>4 DEF MutationOf
    <2> QED BY <1>2, <2>1, <2>2, NamedMutates
<1>5. CASE WriteUpdate(Null, w.key, w.to, w.text, w.expected)
    <2> HIDE DEF w
    <2> QED BY <1>1, <1>2, <1>5, UpdateMutates
<1> QED BY <1>3, <1>4, <1>5 DEF FileDocument

LEMMA RefilingMutates ==
    ASSUME IInv, NEW h \in Handlers, NEW e \in Ids, RefileMove(h, e)
    PROVE  Next
<1>1. TypeOK /\ Steady(h)
    BY DEF IInv, TreeInv, HandlerOK
<1>2. work[h].to \in Paths
    BY <1>1 DEF RefileMove, Steady
<1>3. e \in Used /\ work[h].expected = CurrentRevision(e)
    BY DEF RefileMove, Move
<1>4. work[h].expected \in 0..CurrentRevision(e)
    BY <1>1, <1>3, RevisionNamed
<1>5. MutationOf(Null, e, work[h].expected)
    BY <1>2 DEF RefileMove, MutationOf
<1> QED BY <1>3, <1>4, <1>5, NamedMutates

LEMMA OthersMutate ==
    ASSUME IInv, Others
    PROVE  Next
<1>1. TreeInv /\ TypeOK /\ Drafts \subseteq Contents
    BY DEF IInv, TreeInv, Drafts
<1>2. ASSUME NEW p \in Guesses, NEW t \in Drafts, WriteCreate(Null, p, t) PROVE Next
    <2>1. Mutation(Null)
        BY <1>1, <1>2, PlacementAssumption DEF Mutation
    <2> QED BY <2>1 DEF Next
<1>3. ASSUME NEW e \in Used, NEW t \in Drafts,
             WriteUpdate(Null, Null, path[e], t, CurrentRevision(e))
      PROVE  Next
    BY <1>1, <1>3, UpdateMutates
<1>4. ASSUME NEW e \in LiveOf("page"), Delete(Null, e, CurrentRevision(e)) PROVE Next
    <2>1. e \in Used
        BY <1>4 DEF Delete
    <2>2. CurrentRevision(e) \in 0..CurrentRevision(e)
        BY <1>1, <2>1, RevisionNamed
    <2>3. MutationOf(Null, e, CurrentRevision(e))
        BY <1>4 DEF MutationOf
    <2> QED BY <2>1, <2>2, <2>3, NamedMutates
<1>5. ASSUME NEW k \in Keys, ExpireReceipt(k) PROVE Next
    BY <1>5 DEF Next
<1> QED BY <1>2, <1>3, <1>4, <1>5 DEF Others

\* The other steps of a handler write nothing.
LEMMA LookingLeavesTheStore ==
    ASSUME NEW h \in Handlers, Serving(h), ~FileDocument(h), \A e \in Ids : ~RefileMove(h, e)
    PROVE  StoreUnchanged
BY DEF Serving, SendWrite, PriorWritePath, PageExists, SuggestPlacement, NoModel, AskModel,
       RecordAICall, Suggest, RefileEntry, RefileRead, AnswerFromReceipt, Abandon

LEMMA StepsAreContentSteps ==
    ASSUME IInv, [PlacementNext]_placementVars
    PROVE  [Next]_vars
<1>1. StoreUnchanged => UNCHANGED vars
    BY DEF StoreUnchanged, entryVars, grantVars, vars
<1>2. ASSUME NEW h \in Handlers, Serving(h) PROVE [Next]_vars
    BY <1>1, <1>2, FilingMutates, RefilingMutates, LookingLeavesTheStore
<1>3. UNCHANGED placementVars => UNCHANGED vars
    BY DEF placementVars, vars
<1> QED BY <1>1, <1>2, <1>3, OthersMutate DEF PlacementNext, HourPasses

-----------------------------------------------------------------------------
\* Keys: a call and what was filed for it stay as they are.
Kept ==
    \A k \in Keys :
        /\ asks[k].text \in Contents => asks'[k] = asks[k]
        /\ receipt[k] # "none" => filed'[k] = filed[k]

\* A handler that does nothing stays as it was, whatever others do.
LEMMA HandlerStays ==
    ASSUME IInv, [Next]_vars, TypeOK', Kept, NEW h \in Handlers, work'[h] = work[h]
    PROVE  HandlerOK(h)'
<1> DEFINE w == work[h]
<1>0. TypeOK /\ TreeInv /\ HandlerOK(h) /\ w \in Works
    BY DEF IInv, TreeInv, PlacementTypeOK
<1>1. Steady(h)' /\ Deciding(h)'
    BY <1>0 DEF HandlerOK, Steady, Deciding, At
<1>2. w.does = "write" => w.key \in Keys /\ asks'[w.key] = asks[w.key]
    <2>1. w.does = "write" => ~At(h, "idle")
        BY <1>0 DEF HandlerOK, Steady, Resting, Null
    <2>2. w.does = "write" => w.key \in Keys /\ w.text \in Contents
        BY <1>0, <2>1 DEF HandlerOK, Steady
    <2> QED BY <1>0, <2>2 DEF HandlerOK, Called, Kept
<1>3. Called(h)'
    BY <1>0, <1>2 DEF HandlerOK, Called
<1>4. Retrying(h)'
    <2>1. w.again => /\ w.key \in Keys /\ receipt[w.key] # "none"
                     /\ receipt'[w.key] # "none" /\ filed'[w.key] = filed[w.key]
        BY <1>0, <1>2, ReceiptsStay DEF HandlerOK, Retrying, Kept
    <2> QED BY <1>0, <2>1 DEF HandlerOK, Retrying, At
<1>5. Refiling(h)'
    <2>1. ASSUME w.does = "refile"
          PROVE  /\ w.doc \in Used' /\ w.expected \in 1..Len(hist'[w.doc])
                 /\ hist'[w.doc][w.expected] = hist[w.doc][w.expected]
                 /\ Len(hist'[w.doc]) >= Len(hist[w.doc])
                 /\ Len(hist[w.doc]) \in Nat /\ Len(hist'[w.doc]) \in Nat
        <3>1. w.doc \in Used /\ w.doc \in Ids /\ w.expected \in 1..Len(hist[w.doc])
            BY <1>0, <2>1 DEF HandlerOK, Refiling, Used
        <3>2. Grows(w.doc) /\ hist[w.doc] \in Seq(Revisions)
            BY <1>0, <3>1, HistoriesGrow DEF TypeOK
        <3>3. Len(hist'[w.doc]) >= Len(hist[w.doc])
            BY <3>2 DEF Grows
        <3> QED BY <1>0, <3>1, <3>2, <3>3, UsedStays, RevisionsStay
    <2>2. w.does = "refile" => w.expected \in Nat
        BY <1>0 DEF Works
    <2> QED BY <1>0, <2>1, <2>2 DEF HandlerOK, Refiling, At
<1> QED BY <1>1, <1>3, <1>4, <1>5 DEF HandlerOK

\* A handler that is done.
LEMMA HandlerRests ==
    ASSUME NEW h \in Handlers, work'[h] = Resting
    PROVE  HandlerOK(h)'
BY DEF HandlerOK, Steady, Deciding, Called, Retrying, Refiling, At, Resting, Null

LEMMA RestingTyped == Resting \in Works /\ Unsaid \in Sendings
BY DEF Resting, Works, Unsaid, Sendings

\* What a step of one handler leaves of the invariant to show.
Advances(h) ==
    /\ work' \in [Handlers -> Works]
    /\ \A g \in Handlers \ {h} : work'[g] = work[g]
    /\ HandlerOK(h)'

LEMMA TurnTaken ==
    ASSUME PlacementTypeOK, NEW h \in Handlers, NEW row \in Works, Turn(h, row)
    PROVE  /\ work' \in [Handlers -> Works] /\ work'[h] = row
           /\ \A g \in Handlers \ {h} : work'[g] = work[g]
BY DEF Turn, PlacementTypeOK

LEMMA Rests ==
    ASSUME PlacementTypeOK, NEW h \in Handlers, Rest(h)
    PROVE  Advances(h)
<1>1. work' \in [Handlers -> Works] /\ work'[h] = Resting
      /\ \A g \in Handlers \ {h} : work'[g] = work[g]
    BY RestingTyped, TurnTaken DEF Rest
<1> QED BY <1>1, HandlerRests DEF Advances

\* tmp_write.
LEMMA SendAdvances ==
    ASSUME IInv, NEW h \in Handlers, NEW k \in Keys, NEW ask \in Asks, SendWrite(h, k, ask)
    PROVE  Advances(h) /\ Kept /\ asks' \in [Keys -> Sendings]
<1> DEFINE row == [Resting EXCEPT !.step = "prior", !.does = "write", !.key = k,
                     !.at = ask.at, !.text = ask.text, !.expected = ask.expected]
<1>0. PlacementTypeOK
    BY DEF IInv
<1>1. /\ ask.at \in Paths \cup {Null} /\ ask.text \in Contents /\ ask.expected \in Nat
      /\ ask \in Sendings
    BY PlacementAssumption DEF Sendings
<1>2. row \in Works
    BY <1>1 DEF Resting, Works
<1>3. Turn(h, row) /\ asks' = [asks EXCEPT ![k] = ask]
    BY DEF SendWrite
<1>4. asks' \in [Keys -> Sendings] /\ asks'[k] = ask
    BY <1>0, <1>1, <1>3 DEF PlacementTypeOK
<1>5. Kept
    <2>1. Unsaid.text \notin Contents
        BY PathAssumption DEF Unsaid
    <2>2. asks[k].text \in Contents => asks[k] = ask
        BY <2>1 DEF SendWrite
    <2> QED BY <1>0, <1>3, <2>2 DEF Kept, PlacementTypeOK, SendWrite
<1>6. /\ work' \in [Handlers -> Works] /\ work'[h] = row
      /\ \A g \in Handlers \ {h} : work'[g] = work[g]
    <2> HIDE DEF row
    <2> QED BY <1>0, <1>2, <1>3, TurnTaken
<1>7. HandlerOK(h)'
    BY <1>1, <1>4, <1>6
       DEF HandlerOK, Steady, Deciding, Called, Retrying, Refiling, At, Resting
<1> QED BY <1>4, <1>5, <1>6, <1>7 DEF Advances

\* A step of one handler that turns to another row and writes nothing.
Looks(h) == StoreUnchanged /\ UNCHANGED <<asks, filed>>

LEMMA LooksKeep == ASSUME NEW h, Looks(h) PROVE Kept
BY DEF Looks, Kept

LEMMA PriorAdvances ==
    ASSUME IInv, NEW h \in Handlers, PriorWritePath(h)
    PROVE  Advances(h)
<1> DEFINE step == IF PriorPath(h) = Null THEN "placing" ELSE "exists"
           at == PriorPath(h)
           again == (receipt[work[h].key] = "live")
           row == [work[h] EXCEPT !.step = step, !.at = at, !.again = again]
<1>0. PlacementTypeOK /\ work[h] \in Works /\ HandlerOK(h) /\ FiledAsCalled
    BY DEF IInv, PlacementTypeOK
<1>1. /\ work[h].step = "prior" /\ work[h].does = "write" /\ work[h].key \in Keys
      /\ work[h].text \in Contents
    BY <1>0 DEF PriorWritePath, HandlerOK, Steady, At
<1>2. /\ at \in Paths \cup {Null} /\ step \in {"placing", "exists"}
      /\ again \in BOOLEAN
    BY <1>0, <1>1 DEF PriorPath, PlacementTypeOK, Works, Sendings
<1>4. Turn(h, row) /\ StoreUnchanged /\ UNCHANGED <<asks, filed>>
    BY DEF PriorWritePath
<1>7. again => at = filed[work[h].key].at /\ receipt[work[h].key] # "none"
    BY DEF PriorPath
<1> HIDE DEF step, at, again
<1>3. row \in Works
    BY <1>0, <1>2 DEF Works
<1>5. /\ work' \in [Handlers -> Works] /\ work'[h] = row
      /\ \A g \in Handlers \ {h} : work'[g] = work[g]
    <2> HIDE DEF row
    <2> QED BY <1>0, <1>3, <1>4, TurnTaken
<1>6. /\ row.step \in {"placing", "exists"} /\ row.does = "write" /\ row.key = work[h].key
      /\ row.text = work[h].text /\ row.decided = work[h].decided
      /\ row.expected = work[h].expected /\ row.at = at /\ row.again = again
    BY <1>0, <1>1, <1>2 DEF Works
<1> HIDE DEF row
<1>8. Steady(h)'
    BY <1>1, <1>5, <1>6 DEF Steady, At
<1>9. Deciding(h)' /\ Called(h)' /\ Refiling(h)'
    BY <1>0, <1>1, <1>4, <1>5, <1>6 DEF HandlerOK, Deciding, Called, Refiling, At
<1>10. Retrying(h)'
    BY <1>1, <1>4, <1>5, <1>6, <1>7 DEF Retrying, At, StoreUnchanged
<1> QED BY <1>5, <1>8, <1>9, <1>10 DEF Advances, HandlerOK

LEMMA ExistsAdvances ==
    ASSUME IInv, NEW h \in Handlers, PageExists(h)
    PROVE  Advances(h)
<1> DEFINE row == [work[h] EXCEPT
                     !.step = IF work[h].at \in LivePaths THEN "writing" ELSE "placing",
                     !.to = work[h].at]
<1>0. PlacementTypeOK /\ work[h] \in Works /\ HandlerOK(h)
    BY DEF IInv, PlacementTypeOK
<1>1. /\ work[h].step = "exists" /\ work[h].does = "write" /\ work[h].key \in Keys
      /\ work[h].text \in Contents
    BY <1>0 DEF PageExists, HandlerOK, Steady, At
<1>2. row \in Works
    BY <1>0 DEF Works
<1>3. Turn(h, row) /\ StoreUnchanged /\ UNCHANGED <<asks, filed>>
    BY DEF PageExists
<1>4. /\ work' \in [Handlers -> Works] /\ work'[h] = row
      /\ \A g \in Handlers \ {h} : work'[g] = work[g]
    <2> HIDE DEF row
    <2> QED BY <1>0, <1>2, <1>3, TurnTaken
<1>5. /\ row.step \in {"placing", "writing"} /\ row.does = "write" /\ row.key = work[h].key
      /\ row.text = work[h].text /\ row.decided = work[h].decided
      /\ row.expected = work[h].expected /\ row.to = work[h].at
      /\ row.again = work[h].again
    BY <1>0, <1>1 DEF Works
<1>6. row.step = "writing" => row.to \in Paths
    <2>1. \A i \in Ids : live[i] => path[i] \in Paths
        BY <1>0, RowFacts DEF PlacementTypeOK
    <2> QED BY <1>0, <2>1 DEF Works, LivePaths
<1> HIDE DEF row
<1>7. Steady(h)'
    BY <1>1, <1>4, <1>5, <1>6 DEF Steady, At
<1>8. Deciding(h)' /\ Called(h)' /\ Refiling(h)'
    BY <1>0, <1>1, <1>3, <1>4, <1>5 DEF HandlerOK, Deciding, Called, Refiling, At
<1>9. Retrying(h)'
    BY <1>0, <1>1, <1>3, <1>4, <1>5 DEF HandlerOK, Retrying, At, StoreUnchanged
<1> QED BY <1>4, <1>7, <1>8, <1>9 DEF Advances, HandlerOK

\* Where the document is to go.
LEMMA PlacingAdvances ==
    ASSUME IInv, NEW h \in Handlers, NEW d \in Folders, SuggestPlacement(h, d)
    PROVE  Advances(h)
<1> DEFINE to == UniquePlacementPath(d, Snapshot(h))
           placed == [work[h] EXCEPT !.step = "asking", !.to = to]
           row == IF work[h].does = "refile" THEN placed
                  ELSE [placed EXCEPT !.at = to, !.decided = TRUE,
                          !.expected = ExpectedWhenDecided(h)]
<1>0. PlacementTypeOK /\ work[h] \in Works /\ HandlerOK(h) /\ work[h].step = "placing"
    BY DEF IInv, PlacementTypeOK, SuggestPlacement, At
<1>1. to \in Paths
    BY NameOfTheFolder
<1>2. Turn(h, row) /\ StoreUnchanged /\ UNCHANGED <<asks, filed>>
    BY DEF SuggestPlacement
<1> HIDE DEF to
<1>3. row \in Works
    BY <1>0, <1>1 DEF Works, ExpectedWhenDecided
<1>4. /\ work' \in [Handlers -> Works] /\ work'[h] = row
      /\ \A g \in Handlers \ {h} : work'[g] = work[g]
    <2> HIDE DEF row
    <2> QED BY <1>0, <1>2, <1>3, TurnTaken
<1>5. /\ row.step = "asking" /\ row.does = work[h].does /\ row.key = work[h].key
      /\ row.text = work[h].text /\ row.to \in Paths /\ row.again = work[h].again
      /\ row.doc = work[h].doc
      /\ row.does = "refile" => /\ row.at = work[h].at /\ row.expected = work[h].expected
                                /\ row.decided = work[h].decided
      /\ row.does # "refile" => row.decided /\ row.expected = 0
    BY <1>0, <1>1 DEF Works, ExpectedWhenDecided
<1> HIDE DEF row
<1>6. Steady(h)'
    BY <1>0, <1>4, <1>5 DEF HandlerOK, Steady, At
<1>7. Deciding(h)'
    BY <1>0, <1>4, <1>5 DEF HandlerOK, Deciding, At
<1>8. Called(h)'
    BY <1>0, <1>2, <1>4, <1>5 DEF HandlerOK, Called
<1>9. Retrying(h)'
    BY <1>0, <1>2, <1>4, <1>5 DEF HandlerOK, Retrying, At, StoreUnchanged
<1>10. Refiling(h)'
    BY <1>0, <1>2, <1>4, <1>5
       DEF HandlerOK, Refiling, At, StoreUnchanged, entryVars, Used
<1> QED BY <1>4, <1>6, <1>7, <1>8, <1>9, <1>10 DEF Advances, HandlerOK

\* A handler that only goes on, to ask a model, or to write what was decided.
LEMMA GoesOn ==
    ASSUME IInv, NEW h \in Handlers, NEW step \in {"answering", "writing"},
           At(h, "asking") \/ At(h, "answering"),
           Turn(h, [work[h] EXCEPT !.step = step]), StoreUnchanged, UNCHANGED <<asks, filed>>
    PROVE  Advances(h)
<1> DEFINE row == [work[h] EXCEPT !.step = step]
<1>0. PlacementTypeOK /\ work[h] \in Works /\ HandlerOK(h)
    BY DEF IInv, PlacementTypeOK
<1>1. row \in Works
    BY <1>0 DEF Works
<1>2. /\ work' \in [Handlers -> Works] /\ work'[h] = row
      /\ \A g \in Handlers \ {h} : work'[g] = work[g]
    <2>1. Turn(h, row)
        OBVIOUS
    <2> HIDE DEF row
    <2> QED BY <1>0, <1>1, <2>1, TurnTaken
<1>3. /\ row.step = step /\ row.does = work[h].does /\ row.key = work[h].key
      /\ row.text = work[h].text /\ row.to = work[h].to /\ row.again = work[h].again
      /\ row.doc = work[h].doc /\ row.at = work[h].at /\ row.expected = work[h].expected
      /\ row.decided = work[h].decided
    BY <1>0 DEF Works
<1> HIDE DEF row
<1>4. Steady(h)'
    BY <1>0, <1>2, <1>3 DEF HandlerOK, Steady, At
<1>5. Deciding(h)'
    BY <1>0, <1>2, <1>3 DEF HandlerOK, Deciding, At
<1>6. Called(h)'
    BY <1>0, <1>2, <1>3 DEF HandlerOK, Called
<1>7. Retrying(h)'
    BY <1>0, <1>2, <1>3 DEF HandlerOK, Retrying, Deciding, At, StoreUnchanged
<1>8. Refiling(h)'
    BY <1>0, <1>2, <1>3
       DEF HandlerOK, Refiling, At, StoreUnchanged, entryVars, Used
<1> QED BY <1>2, <1>4, <1>5, <1>6, <1>7, <1>8 DEF Advances, HandlerOK

LEMMA SettledAdvances ==
    ASSUME IInv, NEW h \in Handlers, At(h, "asking") \/ At(h, "answering"),
           Turn(h, Settled(h)), StoreUnchanged, UNCHANGED <<asks, filed>>
    PROVE  Advances(h)
<1>1. CASE Settled(h) = Resting
    BY <1>1, Rests DEF Rest, IInv
<1>2. CASE Settled(h) = [work[h] EXCEPT !.step = "writing"]
    <2>1. Turn(h, [work[h] EXCEPT !.step = "writing"])
        BY <1>2
    <2> QED BY <2>1, GoesOn
<1> QED BY <1>1, <1>2 DEF Settled

LEMMA ModelAdvances ==
    ASSUME IInv, NEW h \in Handlers,
           \/ NoModel(h) \/ AskModel(h)
           \/ \E outcome \in {"ok", "error"} : RecordAICall(h, outcome)
    PROVE  Advances(h)
BY GoesOn, SettledAdvances DEF NoModel, AskModel, RecordAICall

\* Suggestions, and the look-ups before a document is refiled.
LEMMA SuggestAdvances ==
    ASSUME IInv, NEW h \in Handlers, NEW t \in Drafts, Suggest(h, t)
    PROVE  Advances(h)
<1> DEFINE row == [Resting EXCEPT !.step = "placing", !.does = "create", !.text = t]
<1>0. PlacementTypeOK /\ t \in Contents
    BY DEF IInv, Drafts
<1>1. row \in Works
    BY <1>0 DEF Resting, Works
<1>2. Turn(h, row)
    BY DEF Suggest
<1>3. /\ work' \in [Handlers -> Works] /\ work'[h] = row
      /\ \A g \in Handlers \ {h} : work'[g] = work[g]
    <2> HIDE DEF row
    <2> QED BY <1>0, <1>1, <1>2, TurnTaken
<1>4. HandlerOK(h)'
    BY <1>0, <1>3
       DEF HandlerOK, Steady, Deciding, Called, Retrying, Refiling, At, Resting
<1> QED BY <1>3, <1>4 DEF Advances

LEMMA RefileEntryAdvances ==
    ASSUME IInv, NEW h \in Handlers, NEW e \in Ids, RefileEntry(h, e)
    PROVE  Advances(h)
<1> DEFINE row == [Resting EXCEPT !.step = "reading", !.does = "refile", !.at = path[e],
                     !.doc = e, !.expected = CurrentRevision(e)]
<1>0. PlacementTypeOK /\ TypeOK /\ RowFollowsHistory /\ live[e]
    BY DEF IInv, TreeInv, RefileEntry
<1>1. /\ e \in Used /\ path[e] \in Paths /\ CurrentRevision(e) \in Nat
      /\ CurrentRevision(e) \in 1..Len(hist[e])
      /\ hist[e][CurrentRevision(e)].path = path[e]
    <2>1. e \in Used /\ path[e] \in Paths /\ hist[e] \in Seq(Revisions) /\ hist[e] # <<>>
        BY <1>0, RowFacts
    <2>2. Len(hist[e]) \in Nat /\ Len(hist[e]) \in 1..Len(hist[e])
        BY <2>1
    <2> QED BY <1>0, <2>1, <2>2 DEF CurrentRevision, RowFollowsHistory
<1>2. row \in Works
    BY <1>1 DEF Resting, Works
<1>3. Turn(h, row) /\ StoreUnchanged
    BY DEF RefileEntry
<1>4. /\ work' \in [Handlers -> Works] /\ work'[h] = row
      /\ \A g \in Handlers \ {h} : work'[g] = work[g]
    <2> HIDE DEF row
    <2> QED BY <1>0, <1>2, <1>3, TurnTaken
<1>5. /\ row.step = "reading" /\ row.does = "refile" /\ row.at = path[e] /\ row.doc = e
      /\ row.expected = CurrentRevision(e) /\ row.key = Null /\ ~row.decided /\ ~row.again
    BY DEF Resting
<1> HIDE DEF row
<1>6. Steady(h)' /\ Deciding(h)' /\ Called(h)' /\ Retrying(h)'
    BY <1>1, <1>4, <1>5 DEF Steady, Deciding, Called, Retrying, At
<1>7. Refiling(h)'
    BY <1>1, <1>3, <1>4, <1>5 DEF Refiling, At, StoreUnchanged, entryVars, Used
<1> QED BY <1>4, <1>6, <1>7 DEF Advances, HandlerOK

LEMMA RefileReadAdvances ==
    ASSUME IInv, NEW h \in Handlers, RefileRead(h)
    PROVE  Advances(h)
<1>0. PlacementTypeOK /\ TypeOK /\ TreeInv /\ work[h] \in Works /\ HandlerOK(h)
    BY DEF IInv, TreeInv, PlacementTypeOK
<1>1. PICK e \in Used :
         /\ path[e] = work[h].at
         /\ Turn(h, [work[h] EXCEPT !.step = "placing", !.text = CurrentContent(e)])
    BY DEF RefileRead
<1> DEFINE row == [work[h] EXCEPT !.step = "placing", !.text = CurrentContent(e)]
<1>2. CurrentContent(e) \in Contents \cup {Null}
    BY <1>0, RowFacts
<1>3. row \in Works
    BY <1>0, <1>2 DEF Works
<1>4. Turn(h, row) /\ StoreUnchanged /\ UNCHANGED <<asks, filed>>
    BY <1>1 DEF RefileRead
<1>5. /\ work' \in [Handlers -> Works] /\ work'[h] = row
      /\ \A g \in Handlers \ {h} : work'[g] = work[g]
    <2> HIDE DEF row
    <2> QED BY <1>0, <1>3, <1>4, TurnTaken
<1>6. /\ row.step = "placing" /\ row.does = work[h].does /\ row.key = work[h].key
      /\ row.text = CurrentContent(e) /\ row.to = work[h].to /\ row.again = work[h].again
      /\ row.doc = work[h].doc /\ row.at = work[h].at /\ row.expected = work[h].expected
      /\ row.decided = work[h].decided
    BY <1>0 DEF Works
<1> HIDE DEF row
<1>7. At(h, "reading") /\ work[h].does = "refile"
    BY <1>0 DEF RefileRead, HandlerOK, Steady
<1>8. Steady(h)' /\ Deciding(h)' /\ Called(h)' /\ Retrying(h)'
    BY <1>0, <1>5, <1>6, <1>7
       DEF HandlerOK, Steady, Deciding, Called, Retrying, At
<1>9. Refiling(h)'
    <2> DEFINE i == work[h].doc
               x == work[h].expected
    <2>1. i \in Used /\ x \in 1..Len(hist[i]) /\ hist[i][x].path = path[e]
        BY <1>0, <1>1, <1>7 DEF HandlerOK, Refiling
    <2>2. hist[i] \in Seq(Revisions)
        BY <1>0, <2>1, RowFacts
    <2>3. Len(hist[i]) > x \/ CurrentContent(e) = hist[i][x].content
        <3>1. CASE hist[i][x].path = path[i]
            <4>1. i = e
                BY <1>0, <2>1, <3>1, OneRowAPath
            <4> QED BY <2>1, <2>2, <4>1 DEF CurrentContent
        <3>2. CASE \E m \in 1..Len(hist[i]) : m > x /\ hist[i][m].op = "move"
            BY <2>1, <2>2, <3>2
        <3>3. PathsKept
            BY DEF IInv
        <3> QED BY <2>1, <3>1, <3>2, <3>3 DEF PathsKept
    <2> QED BY <1>1, <1>4, <1>5, <1>6, <2>1, <2>3
            DEF Refiling, At, StoreUnchanged, entryVars, Used
<1> QED BY <1>5, <1>8, <1>9 DEF Advances, HandlerOK

-----------------------------------------------------------------------------
\* What the operations do to keys and handlers.

\* Keys and what was filed under them, after a step.
KeysAdvance ==
    /\ Kept /\ FiledAsCalled'
    /\ asks' \in [Keys -> Sendings] /\ filed' \in [Keys -> Sendings]

\* Receipts that are only answered from, or expire.
LEMMA KeysStay ==
    ASSUME IInv, Kept, asks' \in [Keys -> Sendings], filed' \in [Keys -> Sendings],
           \A k \in Keys : receipt'[k] # "none" => receipt[k] # "none"
    PROVE  KeysAdvance
BY DEF IInv, Kept, FiledAsCalled, KeysAdvance

LEMMA FilingAdvances ==
    ASSUME IInv, NEW h \in Handlers, FileDocument(h)
    PROVE  Advances(h) /\ KeysAdvance
<1> DEFINE w == work[h]
<1>0. /\ PlacementTypeOK /\ w \in Works /\ HandlerOK(h) /\ FiledAsCalled /\ TypeOK
      /\ At(h, "writing") /\ w.does # "refile" /\ ~At(h, "idle")
    BY DEF IInv, TreeInv, PlacementTypeOK, FileDocument, At
<1>1. Advances(h) /\ asks' = asks
    BY <1>0, Rests DEF FileDocument
<1>2. SaveReceipt(w.key)
    BY DEF FileDocument, WriteCreate, WriteRevive, WriteUpdate
<1>3. CASE w.key = Null
    <2>1. filed' = filed /\ receipt' = receipt
        BY <1>2, <1>3 DEF FileDocument, SaveReceipt
    <2> QED BY <1>0, <1>1, <2>1 DEF KeysAdvance, Kept, FiledAsCalled, PlacementTypeOK
<1>4. CASE w.key # Null
    <2>1. /\ w.key \in Keys /\ w.text = asks[w.key].text /\ w.text \in Contents
          /\ w.to \in Paths /\ w.expected \in Nat
        BY <1>0, <1>4 DEF HandlerOK, Steady, Called, Works
    <2>2. /\ receipt[w.key] = "none"
          /\ receipt' = [receipt EXCEPT ![w.key] = "live"]
          /\ filed' = [filed EXCEPT ![w.key] = Digest(h)]
        BY <1>2, <1>4 DEF FileDocument, SaveReceipt
    <2>3. Digest(h) \in Sendings /\ Digest(h).at = w.to /\ Digest(h).text = w.text
        BY <2>1 DEF Digest, Sendings
    <2>4. Kept
        BY <1>0, <1>1, <2>2 DEF Kept, PlacementTypeOK
    <2>5. filed' \in [Keys -> Sendings]
        BY <1>0, <2>2, <2>3 DEF PlacementTypeOK
    <2>6. FiledAsCalled'
        <3>1. ASSUME NEW k \in Keys, receipt'[k] # "none", k # w.key
              PROVE  receipt[k] # "none" /\ filed'[k] = filed[k]
            BY <1>0, <2>2, <3>1 DEF TypeOK, PlacementTypeOK
        <3>2. filed'[w.key] = Digest(h)
            BY <1>0, <2>1, <2>2 DEF PlacementTypeOK
        <3> QED BY <1>0, <1>1, <2>1, <2>3, <3>1, <3>2 DEF FiledAsCalled
    <2> QED BY <1>0, <1>1, <2>4, <2>5, <2>6 DEF KeysAdvance, PlacementTypeOK
<1> QED BY <1>1, <1>3, <1>4

LEMMA RefilingAdvances ==
    ASSUME IInv, NEW h \in Handlers, NEW e \in Ids, RefileMove(h, e)
    PROVE  Advances(h) /\ KeysAdvance
<1>0. PlacementTypeOK
    BY DEF IInv
<1>1. Advances(h)
    BY <1>0, Rests DEF RefileMove
<1>2. receipt' = receipt /\ asks' = asks /\ filed' = filed
    BY DEF RefileMove, Move, SaveReceipt
<1> QED BY <1>0, <1>1, <1>2, KeysStay DEF Kept, PlacementTypeOK

\* Every step of a handler.
LEMMA ServingAdvances ==
    ASSUME IInv, NEW h \in Handlers, Serving(h)
    PROVE  Advances(h) /\ KeysAdvance
<1>0. PlacementTypeOK
    BY DEF IInv
<1>1. ASSUME Looks(h) PROVE KeysAdvance
    BY <1>0, <1>1, KeysStay, LooksKeep DEF Looks, StoreUnchanged, PlacementTypeOK
<1>2. ASSUME NEW k \in Keys, NEW ask \in Asks, SendWrite(h, k, ask)
      PROVE  Advances(h) /\ KeysAdvance
    <2>1. Advances(h) /\ Kept /\ asks' \in [Keys -> Sendings]
        BY <1>2, SendAdvances
    <2>2. filed' = filed /\ receipt' = receipt
        BY <1>2 DEF SendWrite, StoreUnchanged
    <2> QED BY <1>0, <2>1, <2>2, KeysStay DEF PlacementTypeOK
<1>3. CASE PriorWritePath(h)
    BY <1>1, <1>3, PriorAdvances DEF PriorWritePath, Looks
<1>4. CASE PageExists(h)
    BY <1>1, <1>4, ExistsAdvances DEF PageExists, Looks
<1>5. ASSUME NEW d \in Folders, SuggestPlacement(h, d) PROVE Advances(h) /\ KeysAdvance
    BY <1>1, <1>5, PlacingAdvances DEF SuggestPlacement, Looks
<1>6. CASE \/ NoModel(h) \/ AskModel(h)
           \/ \E outcome \in {"ok", "error"} : RecordAICall(h, outcome)
    BY <1>1, <1>6, ModelAdvances DEF NoModel, AskModel, RecordAICall, Looks
<1>7. ASSUME NEW t \in Drafts, Suggest(h, t) PROVE Advances(h) /\ KeysAdvance
    BY <1>1, <1>7, SuggestAdvances DEF Suggest, Looks
<1>8. ASSUME NEW e \in Ids, RefileEntry(h, e) PROVE Advances(h) /\ KeysAdvance
    BY <1>1, <1>8, RefileEntryAdvances DEF RefileEntry, Looks
<1>9. CASE RefileRead(h)
    BY <1>1, <1>9, RefileReadAdvances DEF RefileRead, Looks
<1>10. CASE AnswerFromReceipt(h) \/ Abandon(h)
    BY <1>0, <1>1, <1>10, Rests DEF AnswerFromReceipt, Abandon, Looks
<1> QED BY <1>2, <1>3, <1>4, <1>5, <1>6, <1>7, <1>8, <1>9, <1>10, FilingAdvances,
           RefilingAdvances DEF Serving

LEMMA OthersKeepKeys ==
    ASSUME IInv, Others
    PROVE  KeysAdvance
<1>0. PlacementTypeOK /\ TypeOK
    BY DEF IInv, TreeInv
<1>1. asks' = asks /\ filed' = filed
    BY DEF Others, filingVars
<1>2. receipt' = receipt \/ \E k \in Keys : ExpireReceipt(k)
    BY DEF Others, WriteCreate, WriteUpdate, Delete, SaveReceipt
<1>3. \A k \in Keys : receipt'[k] # "none" => receipt[k] # "none"
    BY <1>0, <1>2 DEF ExpireReceipt, TypeOK
<1> QED BY <1>0, <1>1, <1>3, KeysStay DEF Kept, PlacementTypeOK

-----------------------------------------------------------------------------
\* The invariant.

LEMMA InitHolds == PlacementInit => IInv
<1> SUFFICES ASSUME PlacementInit PROVE IInv
    OBVIOUS
<1>1. TreeInv /\ TypeOK /\ PathsKept
    BY InitTree, PathsKeptInitially DEF PlacementInit, TreeInv
<1>2. PlacementTypeOK
    BY <1>1, RestingTyped DEF PlacementInit, PlacementTypeOK, Outcomes
<1>3. FiledAsCalled
    BY DEF PlacementInit, Init, FiledAsCalled
<1>4. ASSUME NEW h \in Handlers PROVE HandlerOK(h)
    BY DEF PlacementInit, HandlerOK, Steady, Deciding, Called, Retrying, Refiling, At,
           Resting, Null
<1> QED BY <1>1, <1>2, <1>3, <1>4 DEF IInv

LEMMA CountsTyped ==
    ASSUME IInv, [PlacementNext]_placementVars
    PROVE  calls' \in Outcomes
<1>0. calls \in Outcomes /\ calls.ok \in Nat /\ calls.error \in Nat
    BY DEF IInv, PlacementTypeOK, Outcomes
<1>1. ASSUME NEW h \in Handlers, NEW outcome \in {"ok", "error"}, RecordAICall(h, outcome)
      PROVE  calls' \in Outcomes
    BY <1>0, <1>1 DEF RecordAICall, Outcomes
<1>2. ASSUME NEW h \in Handlers, Serving(h),
             \A outcome \in {"ok", "error"} : ~RecordAICall(h, outcome)
      PROVE  calls' = calls
    BY <1>2 DEF Serving, SendWrite, PriorWritePath, PageExists, SuggestPlacement, NoModel,
           AskModel, Suggest, RefileEntry, RefileRead, RefileMove, FileDocument,
           AnswerFromReceipt, Abandon
<1>3. ASSUME NEW outcome \in {"ok", "error"}, HourPasses(outcome) PROVE calls' \in Outcomes
    BY <1>0, <1>3 DEF HourPasses, Outcomes
<1>4. CASE Others \/ UNCHANGED placementVars
    BY <1>0, <1>4 DEF Others, filingVars, placementVars
<1> QED BY <1>0, <1>1, <1>2, <1>3, <1>4 DEF PlacementNext

LEMMA StepHolds == IInv /\ [PlacementNext]_placementVars => IInv'
<1> SUFFICES ASSUME IInv, [PlacementNext]_placementVars PROVE IInv'
    OBVIOUS
<1>1. TreeInv /\ PathsKept /\ PlacementTypeOK /\ TypeOK
    BY DEF IInv, TreeInv, PlacementTypeOK
<1>2. [Next]_vars
    BY StepsAreContentSteps
<1>3. TreeInv' /\ TypeOK' /\ PathsKept'
    BY <1>1, <1>2, TreeInvPreserved, PathsKeptPreserved DEF TreeInv
<1>4. KeysAdvance /\ work' \in [Handlers -> Works] /\ \A h \in Handlers : HandlerOK(h)'
    <2>1. ASSUME NEW h \in Handlers, Serving(h)
          PROVE  KeysAdvance /\ work' \in [Handlers -> Works]
                 /\ \A g \in Handlers : HandlerOK(g)'
        <3>1. Advances(h) /\ KeysAdvance
            BY <2>1, ServingAdvances
        <3>2. ASSUME NEW g \in Handlers, g # h PROVE HandlerOK(g)'
            <4>1. work'[g] = work[g] /\ Kept
                BY <3>1, <3>2 DEF Advances, KeysAdvance
            <4> QED BY <1>2, <1>3, <4>1, HandlerStays
        <3> QED BY <3>1, <3>2 DEF Advances
    <2>2. ASSUME work' = work, KeysAdvance
          PROVE  KeysAdvance /\ work' \in [Handlers -> Works]
                 /\ \A g \in Handlers : HandlerOK(g)'
        <3>1. ASSUME NEW g \in Handlers PROVE HandlerOK(g)'
            BY <1>2, <1>3, <2>2, HandlerStays DEF KeysAdvance
        <3> QED BY <1>1, <2>2, <3>1 DEF PlacementTypeOK
    <2>3. CASE Others
        BY <2>2, <2>3, OthersKeepKeys DEF Others, filingVars
    <2>4. ASSUME UNCHANGED <<asks, filed, receipt>> PROVE KeysAdvance
        BY <1>1, <2>4, KeysStay DEF Kept, PlacementTypeOK
    <2>5. ASSUME NEW outcome \in {"ok", "error"}, HourPasses(outcome)
          PROVE  KeysAdvance /\ work' = work
        BY <2>4, <2>5 DEF HourPasses, StoreUnchanged
    <2>6. UNCHANGED placementVars => KeysAdvance /\ work' = work
        BY <2>4 DEF placementVars
    <2> QED BY <2>1, <2>2, <2>3, <2>5, <2>6 DEF PlacementNext
<1>5. PlacementTypeOK'
    BY <1>3, <1>4, CountsTyped DEF PlacementTypeOK, KeysAdvance
<1> QED BY <1>3, <1>4, <1>5 DEF IInv, KeysAdvance

\* The strengthened invariant holds throughout.
THEOREM InvariantHolds == PlacementSpec => []IInv
<1>1. UNCHANGED placementVars => [PlacementNext]_placementVars
    OBVIOUS
<1> QED BY InitHolds, StepHolds, PTL DEF PlacementSpec

\* However documents come to be filed or refiled, the tables change only as
\* Content allows: every theorem of ContentProofs holds of the whole.
THEOREM PlacementImplementsContent == PlacementSpec => Spec
<1>1. PlacementInit => Init
    BY DEF PlacementInit
<1>2. IInv /\ [PlacementNext]_placementVars => [Next]_vars
    BY StepsAreContentSteps
<1> QED BY <1>1, <1>2, InvariantHolds, PTL DEF PlacementSpec, Spec

\* Handlers, calls and receipts keep their types.
THEOREM PlacementTypeCorrect == PlacementSpec => []PlacementTypeOK
<1>1. IInv => PlacementTypeOK
    BY DEF IInv
<1> QED BY <1>1, InvariantHolds, PTL

\* A retry that began after the first attempt committed is answered, not refused
\* (Write, its digest against the receipt's).
THEOREM RetriesAreAnswered == PlacementSpec => []RetriesReachTheFirst
<1>1. IInv => RetriesReachTheFirst
    <2> SUFFICES ASSUME IInv, NEW h \in Handlers, NEW k, k = work[h].key,
                        At(h, "writing"), work[h].again, ~work[h].decided,
                        asks[k].expected = filed[k].expected
                 PROVE  Digest(h) = filed[k]
        BY DEF RetriesReachTheFirst
    <2>1. /\ work[h] \in Works /\ HandlerOK(h) /\ FiledAsCalled
          /\ filed \in [Keys -> Sendings]
        BY DEF IInv, PlacementTypeOK
    <2>2. /\ work[h].does = "write" /\ k \in Keys /\ receipt[k] # "none"
          /\ work[h].to = filed[k].at
        BY <2>1 DEF HandlerOK, Steady, Retrying
    <2>3. work[h].text = filed[k].text /\ work[h].expected = filed[k].expected
        BY <2>1, <2>2 DEF HandlerOK, Called, FiledAsCalled
    <2>4. filed[k] \in Sendings
        BY <2>1, <2>2
    <2> QED BY <2>2, <2>3, <2>4 DEF Digest, Sendings
<1> QED BY <1>1, InvariantHolds, PTL

-----------------------------------------------------------------------------
\* The step that ends a handler's turn at the store is its own.
LEMMA OwnTurn ==
    ASSUME IInv, [PlacementNext]_placementVars, NEW h \in Handlers,
           At(h, "writing"), work'[h] = Resting
    PROVE  Serving(h)
<1>1. work'[h] # work[h]
    BY DEF At, Resting
<1>2. ASSUME NEW g \in Handlers, g # h, Serving(g) PROVE FALSE
    <2>1. Advances(g)
        BY <1>2, ServingAdvances
    <2> QED BY <1>1, <1>2, <2>1 DEF Advances
<1> QED BY <1>1, <1>2 DEF PlacementNext, HourPasses, Others, filingVars, placementVars

\* A document that is new, or comes back, leaves the live ones alone.
LEMMA PublishSparesTheLive ==
    ASSUME TypeOK, NEW e \in Ids, ~live[e], NEW p, NEW ps \in SUBSET Paths,
           NEW new \in NewRows(ps), NEW rev, NEW size, Publish(e, p, new, rev, size)
    PROVE  \A i \in Ids : live[i] => hist'[i] = hist[i]
<1> SUFFICES ASSUME NEW i \in Ids, live[i] PROVE hist'[i] = hist[i]
    OBVIOUS
<1>1. path[i] \in Paths /\ path[i] \in LivePaths /\ i # e
    BY RowFacts DEF LivePaths
<1>2. i \notin DOMAIN new
    BY <1>1, NewRowsType, PathAssumption
<1>3. path'[i] = path[i]
    BY <1>1, <1>2 DEF Publish, TypeOK
<1>4. path'[i] \notin MissingAbove(p)
    BY <1>1, <1>3 DEF MissingAbove
<1> QED BY <1>1, <1>4 DEF Publish

LEMMA CreatingSparesTheLive ==
    ASSUME TypeOK, NEW k, NEW p \in Paths, NEW c, WriteCreate(k, p, c)
    PROVE  \A i \in Ids : live[i] => hist'[i] = hist[i]
<1> DEFINE ps == (MissingAbove(p) \cup {p}) \ TakenPaths
<1>1. PICK new \in NewRows(ps) : \E e \in DOMAIN new :
          Publish(e, p, new, Revision("create", p, c, Null, k), SizeOf[c])
    BY DEF WriteCreate
<1>2. PICK e \in DOMAIN new :
          Publish(e, p, new, Revision("create", p, c, Null, k), SizeOf[c])
    BY <1>1
<1>3. ps \in SUBSET Paths
    BY PathAssumption DEF MissingAbove, Directories
<1> HIDE DEF ps
<1>4. e \in Ids /\ path[e] = Null
    BY <1>3, NewRowsType
<1>5. ~live[e]
    BY <1>4, RowFacts DEF Used
<1> QED BY <1>2, <1>3, <1>4, <1>5, PublishSparesTheLive

LEMMA RevivingSparesTheLive ==
    ASSUME TypeOK, NEW k, NEW e \in Ids, NEW c, NEW x, WriteRevive(k, e, c, x)
    PROVE  \A i \in Ids : live[i] => hist'[i] = hist[i]
<1> DEFINE p == path[e]
           ps == MissingAbove(p) \ TakenPaths
<1>1. PICK new \in NewRows(ps) :
          Publish(e, p, new, Revision("restore", p, c, Null, k), SizeOf[c])
    BY DEF WriteRevive
<1>2. ps \in SUBSET Paths
    <2>1. p \in Paths
        BY RowFacts DEF WriteRevive
    <2> QED BY <2>1, PathAssumption DEF MissingAbove, Directories
<1>3. ~live[e]
    BY DEF WriteRevive
<1> HIDE DEF ps, p
<1> QED BY <1>1, <1>2, <1>3, PublishSparesTheLive

\* What a location that tmp decided is used for.
LEMMA DecidedIsNew ==
    ASSUME IInv, NEW h \in Handlers, FileDocument(h), work[h].decided
    PROVE  \A i \in Ids : live[i] => hist'[i] = hist[i]
<1> DEFINE w == work[h]
<1>1. TypeOK /\ w.expected = 0 /\ w.to \in Paths
    BY DEF IInv, TreeInv, HandlerOK, Deciding, Steady, FileDocument, At
<1>2. ~WriteUpdate(Null, w.key, w.to, w.text, w.expected)
    <2>1. ASSUME NEW e \in Ids, live[e] PROVE CurrentRevision(e) # 0
        <3>1. hist[e] \in Seq(Revisions) /\ hist[e] # <<>>
            BY <1>1, <2>1, RowFacts
        <3> QED BY <3>1 DEF CurrentRevision
    <2> QED BY <1>1, <2>1 DEF WriteUpdate
<1> QED BY <1>1, <1>2, CreatingSparesTheLive, RevivingSparesTheLive DEF FileDocument

\* A location that tmp decided never overwrites a document that is there, though
\* the snapshot it was decided from is another transaction's (SuggestPlacement).
THEOREM FilingSparesTheLive == PlacementSpec => FilingNeverOverwrites
<1>1. IInv /\ [PlacementNext]_placementVars =>
        [\A h \in Handlers :
          At(h, "writing") /\ work[h].does # "refile" /\ work[h].decided
          /\ work'[h] = Resting =>
             \A e \in Ids : live[e] => hist'[e] = hist[e]]_placementVars
    <2> SUFFICES ASSUME IInv, [PlacementNext]_placementVars, NEW h \in Handlers,
                        At(h, "writing"), work[h].does # "refile", work[h].decided,
                        work'[h] = Resting
                 PROVE  \A e \in Ids : live[e] => hist'[e] = hist[e]
        OBVIOUS
    <2>1. Serving(h)
        BY OwnTurn
    <2>2. CASE FileDocument(h)
        BY <2>2, DecidedIsNew
    <2>3. CASE ~FileDocument(h)
        <3>1. \A e \in Ids : ~RefileMove(h, e)
            BY DEF RefileMove
        <3>2. StoreUnchanged
            BY <2>1, <2>3, <3>1, LookingLeavesTheStore
        <3> QED BY <3>2 DEF StoreUnchanged, entryVars
    <2> QED BY <2>2, <2>3
<1> QED BY <1>1, InvariantHolds, PTL DEF PlacementSpec, FilingNeverOverwrites

\* A document that is moved was the one looked up, with the text that was read.
LEMMA RefiledAsRead ==
    ASSUME IInv, NEW h \in Handlers, NEW e \in Ids, RefileMove(h, e)
    PROVE  \/ work[h].doc = e /\ work[h].text = CurrentContent(e)
           \/ MovedSince(work[h].doc, work[h].expected)
<1> DEFINE i == work[h].doc
           x == work[h].expected
<1>1. TypeOK /\ TreeInv /\ PathsKept /\ HandlerOK(h)
    BY DEF IInv, TreeInv
<1>2. At(h, "writing") /\ work[h].does = "refile"
    BY DEF RefileMove
<1>3. /\ i \in Used /\ x \in 1..Len(hist[i]) /\ hist[i][x].path = work[h].at
      /\ Len(hist[i]) > x \/ work[h].text = hist[i][x].content
    BY <1>1, <1>2 DEF HandlerOK, Refiling, At
<1>4. e \in Used /\ path[e] = work[h].at /\ x = Len(hist[e])
    BY DEF RefileMove, Move, CurrentRevision
<1>5. CASE path[i] = work[h].at
    <2>1. i = e
        BY <1>1, <1>3, <1>4, <1>5, OneRowAPath
    <2>2. hist[e] \in Seq(Revisions)
        BY <1>1, <1>4, RowFacts
    <2> QED BY <1>3, <1>4, <2>1, <2>2 DEF CurrentContent
<1>6. CASE path[i] # work[h].at
    <2>1. \E m \in 1..Len(hist[i]) : m > x /\ hist[i][m].op = "move"
        BY <1>1, <1>3, <1>6 DEF PathsKept
    <2> QED BY <2>1 DEF MovedSince
<1> QED BY <1>5, <1>6

\* Refiling moves the document it looked up with the text its location was
\* decided for, unless that document was moved away meanwhile (RefileEntry).
THEOREM RefilingMovesWhatItRead == PlacementSpec => RefileMovesWhatItRead
<1>1. IInv /\ [PlacementNext]_placementVars =>
        [\A h \in Handlers, e \in Ids :
          At(h, "writing") /\ work[h].does = "refile" /\ work'[h] = Resting
          /\ path[e] = work[h].at /\ hist'[e] # hist[e] =>
             \/ work[h].doc = e /\ work[h].text = CurrentContent(e)
             \/ MovedSince(work[h].doc, work[h].expected)]_placementVars
    <2> SUFFICES ASSUME IInv, [PlacementNext]_placementVars, NEW h \in Handlers,
                        NEW e \in Ids, At(h, "writing"), work[h].does = "refile",
                        work'[h] = Resting, path[e] = work[h].at, hist'[e] # hist[e]
                 PROVE  \/ work[h].doc = e /\ work[h].text = CurrentContent(e)
                        \/ MovedSince(work[h].doc, work[h].expected)
        OBVIOUS
    <2>1. Serving(h)
        BY OwnTurn
    <2>2. ~FileDocument(h)
        BY DEF FileDocument
    <2>3. PICK f \in Ids : RefileMove(h, f)
        <3>1. ~StoreUnchanged
            BY DEF StoreUnchanged, entryVars
        <3> QED BY <2>1, <2>2, <3>1, LookingLeavesTheStore
    <2>4. f = e
        <3>1. TypeOK /\ TreeInv /\ f \in Used /\ path[f] = path[e]
            BY <2>3 DEF IInv, TreeInv, RefileMove, Move
        <3>2. e \in Used
            BY <3>1, RowFacts
        <3> QED BY <3>1, <3>2, OneRowAPath
    <2> QED BY <2>3, <2>4, RefiledAsRead
<1> QED BY <1>1, InvariantHolds, PTL DEF PlacementSpec, RefileMovesWhatItRead

-----------------------------------------------------------------------------
\* One document for each key.

LEMMA OneUnder ==
    ASSUME TypeOK, SourcedOnce, NEW k \in Keys
    PROVE  Cardinality(MadeUnder(k)) <= 1
<1>1. \A r, s \in MadeUnder(k) : r = s
    <2> SUFFICES ASSUME NEW r \in MadeUnder(k), NEW s \in MadeUnder(k) PROVE r = s
        OBVIOUS
    <2>1. /\ r = <<r[1], r[2]>> /\ r[1] \in Ids /\ r[2] \in 1..Len(hist[r[1]])
          /\ hist[r[1]][r[2]].key = k /\ hist[r[1]][r[2]].content # Null
        BY BoundAssumption DEF MadeUnder, TypeOK
    <2>2. /\ s = <<s[1], s[2]>> /\ s[1] \in Ids /\ s[2] \in 1..Len(hist[s[1]])
          /\ hist[s[1]][s[2]].key = k /\ hist[s[1]][s[2]].content # Null
        BY BoundAssumption DEF MadeUnder, TypeOK
    <2>3. r[1] = s[1] /\ r[2] = s[2]
        BY <2>1, <2>2 DEF SourcedOnce
    <2> QED BY <2>1, <2>2, <2>3
<1>2. CASE MadeUnder(k) = {}
    <2>1. Cardinality(MadeUnder(k)) = 0
        BY <1>2, FS_EmptySet
    <2> QED BY <2>1
<1>3. ASSUME NEW r \in MadeUnder(k) PROVE Cardinality(MadeUnder(k)) <= 1
    <2>1. MadeUnder(k) = {r}
        BY <1>1
    <2>2. Cardinality({r}) = 1
        BY FS_Singleton
    <2>3. Cardinality(MadeUnder(k)) = 1
        BY <2>1, <2>2
    <2> QED BY <2>3
<1> QED BY <1>2, <1>3

\* However often a call is sent, and wherever tmp decides to file it, it makes
\* one revision of one document (docs/MCP.md; Write, saveReceipt).
THEOREM RequestsFileOneDocument == PlacementSpec => []OneDocumentPerRequest
<1>1. KeysInv => OneDocumentPerRequest
    BY OneUnder DEF KeysInv, TreeInv, OneDocumentPerRequest
<1> QED BY <1>1, PlacementImplementsContent, KeysInvariant, PTL

-----------------------------------------------------------------------------
\* The budget.

LEMMA AnsweringCounted ==
    /\ IsFiniteSet(Answering)
    /\ Cardinality(Answering) \in Nat /\ Cardinality(Handlers) \in Nat
    /\ Cardinality(Answering) <= Cardinality(Handlers)
BY PlacementAssumption, FS_Subset, FS_CardinalityType DEF Answering

LEMMA BudgetedInitially == PlacementInit => Budgeted
<1> SUFFICES ASSUME PlacementInit PROVE Budgeted
    OBVIOUS
<1>1. Answering = {}
    BY DEF PlacementInit, Answering, At, Resting
<1>2. Cardinality(Answering) = 0
    BY <1>1, FS_EmptySet
<1>3. AIMaxCallsPerHour >= 1 /\ AIMaxCallsPerHour \in Nat /\ Cardinality(Handlers) \in Nat
    BY PlacementAssumption, AnsweringCounted
<1> QED BY <1>2, <1>3 DEF PlacementInit, Budgeted

\* A step that begins no call of the model and counts none.
LEMMA BudgetedKept ==
    ASSUME Budgeted, IInv, calls' \in Outcomes,
           calls'.ok + calls'.error <= calls.ok + calls.error,
           \A g \in Handlers : At(g, "answering")' => At(g, "answering")
    PROVE  Budgeted'
<1>1. Answering' \in SUBSET Answering
    BY DEF Answering
<1>2. IsFiniteSet(Answering') /\ Cardinality(Answering') <= Cardinality(Answering)
    BY <1>1, AnsweringCounted, FS_Subset
<1>3. Cardinality(Answering') \in Nat /\ Cardinality(Answering) \in Nat
      /\ Cardinality(Handlers) \in Nat
    BY <1>2, AnsweringCounted, FS_CardinalityType
<1>4. calls.ok \in Nat /\ calls.error \in Nat /\ calls'.ok \in Nat /\ calls'.error \in Nat
    BY DEF IInv, PlacementTypeOK, Outcomes
<1>5. AIMaxCallsPerHour \in Nat
    BY PlacementAssumption
<1> QED BY <1>2, <1>3, <1>4, <1>5 DEF Budgeted

\* A call begins below the budget, whatever other calls are under way.
LEMMA AskingBudgeted ==
    ASSUME IInv, NEW h \in Handlers, AskModel(h), Advances(h)
    PROVE  Budgeted'
<1>1. Answering' \in SUBSET Handlers
    BY DEF Answering
<1>2. IsFiniteSet(Answering') /\ Cardinality(Answering') <= Cardinality(Handlers)
    BY <1>1, PlacementAssumption, FS_Subset
<1>3. Cardinality(Answering') \in Nat /\ Cardinality(Handlers) \in Nat
    BY <1>2, PlacementAssumption, FS_CardinalityType
<1>4. /\ calls.ok \in Nat /\ calls.error \in Nat /\ AIMaxCallsPerHour \in Nat
      /\ calls' = calls /\ ~(calls.ok + calls.error >= AIMaxCallsPerHour)
    BY PlacementAssumption DEF IInv, PlacementTypeOK, Outcomes, AskModel, AIOverBudget
<1> QED BY <1>2, <1>3, <1>4 DEF Budgeted

\* Its row is counted when it is no longer under way.
LEMMA RecordingBudgeted ==
    ASSUME Budgeted, IInv, NEW h \in Handlers, NEW outcome \in {"ok", "error"},
           RecordAICall(h, outcome), Advances(h)
    PROVE  Budgeted'
<1>0. PlacementTypeOK /\ work[h] \in Works
    BY DEF IInv, PlacementTypeOK
<1>1. h \in Answering
    BY DEF RecordAICall, Answering
<1>2. work'[h].step # "answering"
    BY <1>0 DEF RecordAICall, Turn, Settled, Resting, PlacementTypeOK, Works
<1>3. Answering' = Answering \ {h}
    BY <1>1, <1>2 DEF Advances, Answering, At
<1>4. Cardinality(Answering') = Cardinality(Answering) - 1
    BY <1>1, <1>3, AnsweringCounted, FS_RemoveElement
<1>5. /\ calls.ok \in Nat /\ calls.error \in Nat
      /\ calls'.ok + calls'.error = calls.ok + calls.error + 1
    BY <1>0 DEF PlacementTypeOK, Outcomes, RecordAICall
<1>6. Cardinality(Answering) \in Nat /\ Cardinality(Handlers) \in Nat
      /\ AIMaxCallsPerHour \in Nat
    BY AnsweringCounted, PlacementAssumption
<1> QED BY <1>4, <1>5, <1>6 DEF Budgeted

LEMMA BudgetedPreserved ==
    IInv /\ Budgeted /\ [PlacementNext]_placementVars => Budgeted'
<1> SUFFICES ASSUME IInv, Budgeted, [PlacementNext]_placementVars PROVE Budgeted'
    OBVIOUS
<1>0. /\ calls \in Outcomes /\ calls.ok \in Nat /\ calls.error \in Nat /\ calls' \in Outcomes
      /\ PlacementTypeOK
    BY CountsTyped DEF IInv, PlacementTypeOK, Outcomes
<1>1. ASSUME NEW h \in Handlers, Serving(h) PROVE Budgeted'
    <2>1. Advances(h)
        BY <1>1, ServingAdvances
    <2>2. CASE AskModel(h) \/ \E outcome \in {"ok", "error"} : RecordAICall(h, outcome)
        BY <2>1, <2>2, AskingBudgeted, RecordingBudgeted
    <2>3. CASE /\ ~AskModel(h)
               /\ \A outcome \in {"ok", "error"} : ~RecordAICall(h, outcome)
        <3>1. calls' = calls
            BY <1>1, <2>3 DEF Serving, SendWrite, PriorWritePath, PageExists,
               SuggestPlacement, NoModel, Suggest, RefileEntry, RefileRead, RefileMove,
               FileDocument, AnswerFromReceipt, Abandon
        <3>2. work'[h].step # "answering"
            <4>1. work \in [Handlers -> Works] /\ work[h] \in Works
                BY <1>0 DEF PlacementTypeOK
            <4>2. ASSUME Rest(h) PROVE work'[h].step # "answering"
                BY <4>1, <4>2 DEF Rest, Turn, Resting
            <4>3. ASSUME NEW k \in Keys, NEW ask \in Asks, SendWrite(h, k, ask)
                  PROVE  work'[h].step # "answering"
                BY <4>1, <4>3 DEF SendWrite, Turn, Resting
            <4>4. CASE PriorWritePath(h)
                <5> DEFINE step == IF PriorPath(h) = Null THEN "placing" ELSE "exists"
                           at == PriorPath(h)
                           again == (receipt[work[h].key] = "live")
                           row == [work[h] EXCEPT !.step = step, !.at = at, !.again = again]
                <5>1. Turn(h, row)
                    BY <4>4 DEF PriorWritePath
                <5>2. step # "answering"
                    OBVIOUS
                <5> HIDE DEF step, at, again
                <5>3. row.step = step
                    BY <4>1 DEF Works
                <5> HIDE DEF row
                <5> QED BY <4>1, <5>1, <5>2, <5>3 DEF Turn
            <4>12. CASE PageExists(h)
                BY <4>1, <4>12 DEF PageExists, Turn, Works
            <4>5. ASSUME NEW d \in Folders, SuggestPlacement(h, d)
                  PROVE  work'[h].step # "answering"
                BY <4>1, <4>5 DEF SuggestPlacement, Turn, Works
            <4>6. CASE NoModel(h)
                BY <4>1, <4>6 DEF NoModel, Settled, Turn, Resting, Works
            <4>7. ASSUME NEW t \in Drafts, Suggest(h, t) PROVE work'[h].step # "answering"
                BY <4>1, <4>7 DEF Suggest, Turn, Resting
            <4>8. ASSUME NEW e \in Ids, RefileEntry(h, e)
                  PROVE  work'[h].step # "answering"
                BY <4>1, <4>8 DEF RefileEntry, Turn, Resting
            <4>9. CASE RefileRead(h)
                BY <4>1, <4>9 DEF RefileRead, Turn, Works
            <4>10. ASSUME NEW e \in Ids, RefileMove(h, e) PROVE Rest(h)
                BY <4>10 DEF RefileMove
            <4>11. FileDocument(h) \/ AnswerFromReceipt(h) \/ Abandon(h) => Rest(h)
                BY DEF FileDocument, AnswerFromReceipt, Abandon
            <4> QED BY <1>1, <2>3, <4>2, <4>3, <4>4, <4>5, <4>6, <4>7, <4>8, <4>9, <4>10,
                       <4>11, <4>12 DEF Serving
        <3>3. \A g \in Handlers : At(g, "answering")' => At(g, "answering")
            BY <2>1, <3>2 DEF Advances, At
        <3> QED BY <1>0, <3>1, <3>3, BudgetedKept
    <2> QED BY <2>2, <2>3
<1>2. ASSUME NEW outcome \in {"ok", "error"}, HourPasses(outcome) PROVE Budgeted'
    <2>1. calls'.ok + calls'.error <= calls.ok + calls.error
        BY <1>0, <1>2 DEF HourPasses, Outcomes
    <2>2. \A g \in Handlers : At(g, "answering")' => At(g, "answering")
        BY <1>2 DEF HourPasses, At
    <2> QED BY <1>0, <2>1, <2>2, BudgetedKept
<1>3. CASE Others \/ UNCHANGED placementVars
    <2>1. work' = work /\ calls' = calls
        BY <1>3 DEF Others, filingVars, placementVars
    <2>2. \A g \in Handlers : At(g, "answering")' => At(g, "answering")
        BY <2>1 DEF At
    <2> QED BY <1>0, <2>1, <2>2, BudgetedKept
<1> QED BY <1>1, <1>2, <1>3 DEF PlacementNext

\* The hourly budget of model calls, read before a call and counted after it, is
\* overshot by no more than the other calls under way (aiOverBudget).
THEOREM OvershootIsBounded == PlacementSpec => []BudgetOvershoot
<1>1. IInv /\ Budgeted => BudgetOvershoot
    <2> SUFFICES ASSUME IInv, Budgeted PROVE BudgetOvershoot
        OBVIOUS
    <2>1. calls.ok \in Nat /\ calls.error \in Nat
        BY DEF IInv, PlacementTypeOK, Outcomes
    <2>2. Cardinality(Answering) \in Nat /\ Cardinality(Handlers) \in Nat
          /\ AIMaxCallsPerHour \in Nat
        BY AnsweringCounted, PlacementAssumption
    <2> QED BY <2>1, <2>2 DEF Budgeted, BudgetOvershoot
<1> QED BY <1>1, BudgetedInitially, BudgetedPreserved, InvariantHolds, PTL
        DEF PlacementSpec
=============================================================================
