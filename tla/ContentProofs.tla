--------------------------- MODULE ContentProofs ---------------------------
(***************************************************************************)
(* Invariants of Content, and that its tables implement VersionStore,      *)
(* proved for every set of paths, contents, grants and keys and for every  *)
(* quota.                                                                  *)
(***************************************************************************)
EXTENDS Content, FiniteSetTheorems, WellFoundedInduction, TLAPS

-----------------------------------------------------------------------------
\* Sets of numbers and images of sets.

\* A nonempty set of numbers has a least one: strict inclusion among the finite
\* sets is well-founded, and 1..i grows with i.
LEMMA Least ==
    ASSUME NEW S \in SUBSET Nat, S # {}
    PROVE  \E i \in S : \A j \in S : i <= j
<1> DEFINE UpTo == {1..i : i \in S \ {0}}
<1>1. CASE 0 \in S
    <2>1. \A j \in S : 0 <= j
        OBVIOUS
    <2> QED BY <1>1, <2>1
<1>2. CASE 0 \notin S
    <2>1. UpTo # {}
        BY <1>2
    <2>2. UpTo \subseteq FiniteSubsetsOf(Nat)
        <3>1. ASSUME NEW i \in S PROVE IsFiniteSet(1..i) /\ 1..i \subseteq Nat
            BY FS_Interval
        <3> QED BY <3>1 DEF FiniteSubsetsOf
    <2>3. PICK b \in UpTo : \A c \in UpTo : <<c, b>> \notin StrictSubsetOrdering(Nat)
        BY <2>1, <2>2, WFMin, FS_StrictSubsetOrderingWellFounded
    <2>4. PICK i \in S \ {0} : b = 1..i
        BY <2>3
    <2>5. ASSUME NEW j \in S PROVE i <= j
        <3>1. CASE j < i
            <4>1. 1..j \in SUBSET Nat /\ 1..i \in SUBSET Nat
                OBVIOUS
            <4>2. 1..j \subseteq 1..i
                BY <3>1
            <4>3. i \in 1..i /\ i \notin 1..j
                BY <3>1
            <4>4. <<1..j, 1..i>> \in StrictSubsetOrdering(Nat)
                BY <4>1, <4>2, <4>3 DEF StrictSubsetOrdering
            <4> QED BY <1>2, <2>3, <2>4, <4>4
        <3> QED BY <3>1
    <2> QED BY <2>5
<1> QED BY <1>1, <1>2

\* And a finite one has a greatest, which leaves none above it.
LEMMA Greatest ==
    ASSUME NEW S \in SUBSET Nat, IsFiniteSet(S), S # {}
    PROVE  Max(S) \in S /\ \A j \in S : j <= Max(S)
<1> DEFINE Beyond(i) == {j \in S : j > i}
           Rest == {Beyond(i) : i \in S}
<1>1. Rest # {}
    OBVIOUS
<1>2. Rest \subseteq FiniteSubsetsOf(S)
    <2>1. ASSUME NEW i \in S PROVE IsFiniteSet(Beyond(i)) /\ Beyond(i) \subseteq S
        BY FS_Subset
    <2> QED BY <2>1 DEF FiniteSubsetsOf
<1>3. PICK b \in Rest : \A c \in Rest : <<c, b>> \notin StrictSubsetOrdering(S)
    BY <1>1, <1>2, WFMin, FS_StrictSubsetOrderingWellFounded
<1>4. PICK i \in S : b = Beyond(i)
    BY <1>3
<1>5. ASSUME NEW j \in S, j > i PROVE FALSE
    <2>1. Beyond(j) \subseteq Beyond(i) /\ j \in Beyond(i) /\ j \notin Beyond(j)
        <3>1. i \in Nat /\ j \in Nat
            OBVIOUS
        <3>2. ASSUME NEW x \in S, x > j PROVE x > i
            BY <1>5, <3>1, <3>2
        <3>3. j \in Beyond(i)
            BY <1>5
        <3>4. j \notin Beyond(j)
            BY <3>1
        <3> QED BY <3>2, <3>3, <3>4
    <2>2. <<Beyond(j), Beyond(i)>> \in StrictSubsetOrdering(S)
        BY <2>1 DEF StrictSubsetOrdering
    <2> QED BY <1>3, <1>4, <2>2
<1>6. \A j \in S : i >= j
    BY <1>5
<1>7. Max(S) \in S /\ \A j \in S : Max(S) >= j
    BY <1>6 DEF Max
<1> QED BY <1>7

\* The image of a finite set is finite.
LEMMA FiniteImage ==
    ASSUME NEW S, IsFiniteSet(S), NEW T, NEW f \in [S -> T]
    PROVE  IsFiniteSet({f[x] : x \in S})
<1>1. f \in [S -> {f[x] : x \in S}]
    OBVIOUS
<1>2. f \in Surjection(S, {f[x] : x \in S})
    BY <1>1 DEF Surjection
<1> QED BY <1>2, FS_Surjection

-----------------------------------------------------------------------------
\* The rows given to new paths are the next ids, one for each path.
LEMMA NewRowsType ==
    ASSUME TypeOK,
           NEW ps \in SUBSET Paths, NEW new \in NewRows(ps)
    PROVE  /\ Cardinality(ps) \in Nat
           /\ lastId + Cardinality(ps) <= MaxEntries
           /\ DOMAIN new = (lastId + 1)..(lastId + Cardinality(ps))
           /\ DOMAIN new \subseteq Ids
           /\ Cardinality(DOMAIN new) = Cardinality(ps)
           /\ \A i \in DOMAIN new : new[i] \in ps /\ path[i] = Null
           /\ \A i, j \in DOMAIN new : i # j => new[i] # new[j]
           /\ \A p \in ps : \E i \in DOMAIN new : new[i] = p
           /\ PathsOf(new) = ps
<1>1. IsFiniteSet(ps) /\ Cardinality(ps) \in Nat
  BY FS_Subset, FS_CardinalityType, PathAssumption DEF PathAssumption
<1>2. /\ lastId \in Nat /\ MaxEntries \in Nat
      /\ lastId + Cardinality(ps) <= MaxEntries
      /\ new \in [(lastId + 1)..(lastId + Cardinality(ps)) -> ps]
  BY BoundAssumption DEF TypeOK, NewRows, BoundAssumption
<1>3. \A p \in ps : \E i \in DOMAIN new : new[i] = p
  BY DEF NewRows
<1>4. \A i, j \in DOMAIN new : i < j => new[j] # new[i]
  BY DEF NewRows
<1>5. Cardinality(DOMAIN new) = Cardinality(ps)
  BY <1>1, <1>2, FS_Interval
<1>6. \A i \in DOMAIN new : i \in Ids /\ i > lastId
  BY <1>1, <1>2 DEF Ids
<1>7. \A i \in DOMAIN new : path[i] = Null
  BY <1>2, <1>6 DEF TypeOK, Ids
<1>8. \A i, j \in DOMAIN new : i # j => new[i] # new[j]
  BY <1>1, <1>2, <1>4
<1>9. PathsOf(new) = ps
  BY <1>2, <1>3 DEF PathsOf
<1> QED
  BY <1>1, <1>2, <1>3, <1>5, <1>6, <1>7, <1>8, <1>9

-----------------------------------------------------------------------------
\* The shapes a step can have, as far as the tree and the links can tell.

\* A revision has a source unless it is a directory's.
Sourced(rev) == rev \in Revisions /\ (rev.content = Null <=> KindOf[rev.path] = "directory")

\* Row e is to be live at p, and ps are the paths inserted for that.
Placed(e, p, ps, new) ==
    /\ e \in Ids /\ p \in Paths /\ ps \in SUBSET Paths
    /\ new \in NewRows(ps)
    /\ MissingAbove(p) \ TakenPaths \subseteq ps
    /\ ps \subseteq (MissingAbove(p) \cup {p}) \ TakenPaths
    /\ IF p \in ps THEN e \in DOMAIN new /\ new[e] = p ELSE e \in Used

\* What the first revision of a row, or of a tombstone that comes back, may be.
Begins(e, rev) ==
    ~live[e] /\ rev.op \in {"create", "restore"} /\ (e \notin Used => rev.op = "create")

\* The quotas have room for it; Publish asks for the directories above.
Afforded(p) ==
    /\ CheckPageQuota(p)
    /\ KindOf[p] = "directory" => CheckDirectoryQuota(MissingAbove(p) \cup {p})

\* A row is created or revived at p.
Settling(e, p, ps, new, rev, size) ==
    /\ Placed(e, p, ps, new)
    /\ Sourced(rev) /\ rev.path = p /\ rev.op # "delete" /\ size \in Nat
    /\ Publish(e, p, new, rev, size)
    /\ Begins(e, rev) /\ Afforded(p)
    /\ e \in Used => path[e] = p
    /\ alias' = Released(PathsOf(new))
    /\ UNCHANGED grantVars

\* A live page or asset goes to a free path of its own kind.
Moving(e, p, ps, new, rev, size) ==
    /\ Placed(e, p, ps, new)
    /\ Sourced(rev) /\ rev.path = p /\ rev.op = "move" /\ size \in Nat
    /\ Publish(e, p, new, rev, size)
    /\ e \in Used /\ live[e] /\ path[e] # p
    /\ KindOf[path[e]] = KindOf[p] /\ KindOf[p] \in {"page", "asset"}
    /\ p \notin TakenPaths /\ CheckRenderedFree({p})
    /\ alias' = [Released(PathsOf(new) \cup {p}) EXCEPT ![path[e]] = e]
    /\ UNCHANGED grantVars

\* A row becomes a tombstone.
Burying(e, rev) ==
    /\ e \in Used /\ live[e] /\ Sourced(rev)
    /\ rev.path = path[e] /\ rev.op = "delete"
    /\ KindOf[path[e]] = "directory" => Childless(e)
    /\ hist' = [hist EXCEPT ![e] = Append(@, rev)]
    /\ live' = [live EXCEPT ![e] = FALSE]
    /\ RevokeGrantsOf(e)
    /\ UNCHANGED <<path, parent, bytes, lastId, alias, grantOf, allowed>>

\* A live row gets a revision where it is.
Amending(e, rev, size) ==
    /\ e \in Used /\ live[e] /\ Sourced(rev) /\ size \in Nat
    /\ rev.path = path[e] /\ rev.op \in {"update", "restore"}
    /\ Amend(e, rev, size)
    /\ UNCHANGED grantVars

\* The tree stays as it is; links are created, refreshed or revoked.
Linking ==
    /\ UNCHANGED entryVars
    /\ allowed' \in [Grants -> SUBSET Ids]
    /\ \/ UNCHANGED <<grantOf, revoked>>
       \/ \E g \in Grants, e \in LiveOf("page") :
             /\ grantOf[g] = 0 /\ grantOf' = [grantOf EXCEPT ![g] = e]
             /\ UNCHANGED revoked
       \/ \E g \in Grants :
             /\ revoked' = [revoked EXCEPT ![g] = TRUE]
             /\ UNCHANGED grantOf

Shaped ==
    \/ \E e, p, ps, new, rev, size : Settling(e, p, ps, new, rev, size)
    \/ \E e, p, ps, new, rev, size : Moving(e, p, ps, new, rev, size)
    \/ \E e, rev : Burying(e, rev)
    \/ \E e, rev, size : Amending(e, rev, size)
    \/ Linking

CountersTyped == retained' \in Nat /\ receipt' \in [Keys -> {"none", "live", "expired"}]

\* Facts about the rows that every step lemma uses.
LEMMA RowFacts ==
    ASSUME TypeOK
    PROVE  /\ Used = 1..lastId /\ Used \subseteq Ids
           /\ \A i \in Used :
                 /\ path[i] \in Paths /\ hist[i] \in Seq(Revisions) /\ hist[i] # <<>>
                 /\ CurrentContent(i) \in Contents \cup {Null}
                 /\ CurrentContent(i) = Null <=> KindOf[path[i]] = "directory"
           /\ \A i \in Ids : live[i] => i \in Used
           /\ TakenPaths \subseteq Paths
           /\ LiveOf("asset") \subseteq Ids /\ LiveOf("page") \subseteq Ids
           /\ \A i \in Ids : i \in Used <=> path[i] \in Paths
<1>1. Used = 1..lastId
  BY BoundAssumption DEF TypeOK, Used, Ids, BoundAssumption
<1>2. \A i \in Used : /\ i \in Ids /\ path[i] \in Paths /\ hist[i] \in Seq(Revisions)
                      /\ hist[i] # <<>>
  BY <1>1 DEF TypeOK, Used, Ids
<1>3. \A i \in Used : CurrentContent(i) \in Contents \cup {Null}
  <2> SUFFICES ASSUME NEW i \in Used PROVE CurrentContent(i) \in Contents \cup {Null}
    OBVIOUS
  <2>1. hist[i][Len(hist[i])] \in Revisions
    BY <1>2
  <2> QED BY <2>1 DEF CurrentContent, Revisions
<1>4. \A i \in Ids : live[i] => i \in Used
  BY <1>1, BoundAssumption DEF TypeOK, Ids, BoundAssumption
<1>5. \A i \in Ids : i \in Used <=> path[i] \in Paths
  BY <1>1, <1>2, PathAssumption DEF TypeOK, Used, Ids, PathAssumption
<1> QED
  BY <1>1, <1>2, <1>3, <1>4, <1>5 DEF TakenPaths, LiveOf, Used, TypeOK

\* Revision builds rows of the revision table.
LEMMA RevisionType ==
    ASSUME NEW op \in Operations, NEW p \in Paths, NEW c \in Contents \cup {Null},
           NEW by \in Grants \cup {Null}, NEW k \in Keys \cup {Null}
    PROVE  /\ Revision(op, p, c, by, k) \in Revisions
           /\ Revision(op, p, c, by, k).path = p
           /\ Revision(op, p, c, by, k).op = op
BY DEF Revision, Revisions

\* A path is never above itself.
LEMMA NotAboveItself == \A p \in Paths : p \notin Above[p] /\ p \notin MissingAbove(p)
BY RenderedAssumption DEF RenderedAssumption, MissingAbove

\* What saveReceipt does to the receipts.
LEMMA ReceiptType ==
    ASSUME TypeOK, NEW k, SaveReceipt(k)
    PROVE  receipt' \in [Keys -> {"none", "live", "expired"}]
BY DEF TypeOK, SaveReceipt

-----------------------------------------------------------------------------
\* Every action has one of the shapes, one lemma per action.

\* A write at a new path settles an entry there.
LEMMA WriteCreateShaped ==
    ASSUME TypeOK, NEW k \in Keys \cup {Null}, NEW p \in Paths, NEW c \in Contents,
           WriteCreate(k, p, c)
    PROVE  Shaped /\ CountersTyped
<1> DEFINE ps == (MissingAbove(p) \cup {p}) \ TakenPaths
           rev == Revision("create", p, c, Null, k)
<1>1. PICK new \in NewRows(ps) : \E e \in DOMAIN new :
             /\ new[e] = p
             /\ Publish(e, p, new, rev, SizeOf[c])
             /\ alias' = Released(PathsOf(new))
  BY DEF WriteCreate
<1>2. PICK e \in DOMAIN new :
             /\ new[e] = p
             /\ Publish(e, p, new, rev, SizeOf[c])
             /\ alias' = Released(PathsOf(new))
  BY <1>1
<1>3. ps \in SUBSET Paths /\ p \in ps
  BY PathAssumption DEF PathAssumption, MissingAbove, Directories, WriteCreate
<1>4. e \in Ids /\ path[e] = Null
  BY <1>3, NewRowsType
<1>5. Sourced(rev) /\ rev.path = p /\ rev.op # "delete"
  BY RevisionType, PathAssumption
     DEF Sourced, Revision, Operations, WriteCreate, TextKinds, PathAssumption
<1>6. SizeOf[c] \in Nat /\ retained' \in Nat
  BY ContentAssumption DEF ContentAssumption, WriteCreate, TypeOK
<1>8. Begins(e, rev) /\ Afforded(p)
  BY <1>4, RowFacts DEF Begins, Used, Revision, Afforded, WriteCreate, TextKinds
<1>7. Settling(e, p, ps, new, rev, SizeOf[c])
  BY <1>2, <1>3, <1>4, <1>5, <1>6, <1>8 DEF Settling, Placed, Used, WriteCreate
<1> QED
  BY <1>6, <1>7, ReceiptType DEF Shaped, CountersTyped, WriteCreate

\* A write over a tombstone settles that entry where it was.
LEMMA WriteReviveShaped ==
    ASSUME TypeOK, NEW k \in Keys \cup {Null}, NEW e \in Ids, NEW c \in Contents, NEW x,
           WriteRevive(k, e, c, x)
    PROVE  Shaped /\ CountersTyped
<1> DEFINE p == path[e]
           ps == MissingAbove(p) \ TakenPaths
           rev == Revision("restore", p, c, Null, k)
<1>1. PICK new \in NewRows(ps) : /\ Publish(e, p, new, rev, SizeOf[c])
                                 /\ alias' = Released(PathsOf(new))
  BY DEF WriteRevive
<1>2. e \in Used /\ p \in Paths /\ KindOf[p] \in TextKinds /\ p \notin ps
  BY RowFacts DEF WriteRevive, TakenPaths
<1>3. ps \in SUBSET Paths
  BY <1>2, PathAssumption DEF PathAssumption, MissingAbove, Directories
<1>5. Sourced(rev) /\ rev.path = p /\ rev.op # "delete"
  BY <1>2, RevisionType, PathAssumption
     DEF Sourced, Revision, Operations, TextKinds, PathAssumption
<1>6. SizeOf[c] \in Nat /\ retained' \in Nat
  BY ContentAssumption DEF ContentAssumption, WriteRevive, TypeOK
<1>8. Begins(e, rev) /\ Afforded(p)
  BY <1>2 DEF Begins, Revision, WriteRevive, Afforded, TextKinds
<1>7. Settling(e, p, ps, new, rev, SizeOf[c])
  BY <1>1, <1>2, <1>3, <1>5, <1>6, <1>8 DEF Settling, Placed, WriteRevive
<1> QED
  BY <1>6, <1>7, ReceiptType DEF Shaped, CountersTyped, WriteRevive

\* A write over a live text amends it, or changes nothing but the receipt.
LEMMA WriteUpdateShaped ==
    ASSUME TypeOK, NEW k \in Keys \cup {Null}, NEW by \in Grants \cup {Null},
           NEW p \in Paths, NEW c \in Contents, NEW x,
           WriteUpdate(by, k, p, c, x)
    PROVE  Shaped /\ CountersTyped
<1> DEFINE rev == Revision("update", p, c, by, k)
<1>1. PICK e \in Ids :
          /\ live[e] /\ path[e] = p /\ KindOf[p] \in TextKinds
          /\ \/ UNCHANGED entryVars
             \/ /\ Amend(e, rev, SizeOf[c])
                /\ retained' = retained + SizeOf[c]
  BY DEF WriteUpdate
<1>2. UNCHANGED grantVars /\ SaveReceipt(k)
  BY DEF WriteUpdate
<1>3. CASE UNCHANGED entryVars
  <2>1. Linking /\ retained' \in Nat
    BY <1>2, <1>3 DEF Linking, entryVars, grantVars, TypeOK
  <2> QED
    BY <1>2, <2>1, ReceiptType DEF Shaped, CountersTyped
<1>4. CASE /\ Amend(e, rev, SizeOf[c])
           /\ retained' = retained + SizeOf[c]
  <2>1. Sourced(rev) /\ rev.path = p /\ rev.op = "update"
    BY <1>1, RevisionType, PathAssumption
       DEF Sourced, Revision, Operations, TextKinds, PathAssumption
  <2>2. SizeOf[c] \in Nat /\ retained' \in Nat
    BY <1>4, ContentAssumption DEF ContentAssumption, TypeOK
  <2>3. Amending(e, rev, SizeOf[c])
    BY <1>1, <1>2, <1>4, <2>1, <2>2, RowFacts DEF Amending
  <2> QED
    BY <1>2, <2>2, <2>3, ReceiptType DEF Shaped, CountersTyped
<1> QED
  BY <1>1, <1>3, <1>4

\* Mkdir settles a directory, or changes nothing but the receipt.
LEMMA MkdirShaped ==
    ASSUME TypeOK, NEW k \in Keys \cup {Null}, NEW d \in Directories, Mkdir(k, d)
    PROVE  Shaped /\ CountersTyped
<1> DEFINE ps == (MissingAbove(d) \cup {d}) \ TakenPaths
           op == IF d \in TakenPaths THEN "restore" ELSE "create"
           rev == Revision(op, d, Null, Null, k)
<1>1. UNCHANGED grantVars /\ SaveReceipt(k)
  BY DEF Mkdir
<1>2. CASE UNCHANGED entryVars
  <2>1. Linking /\ retained' \in Nat
    BY <1>1, <1>2 DEF Linking, entryVars, grantVars, TypeOK
  <2> QED
    BY <1>1, <2>1, ReceiptType DEF Shaped, CountersTyped
<1>3. CASE ~UNCHANGED entryVars
  <2>1. PICK new \in NewRows(ps), e \in Ids :
           /\ IF d \in TakenPaths THEN path[e] = d
              ELSE e \in DOMAIN new /\ new[e] = d
           /\ Publish(e, d, new, rev, 0)
           /\ alias' = Released(PathsOf(new))
    BY <1>3 DEF Mkdir
  <2>2. retained' \in Nat
    BY <1>3 DEF Mkdir, TypeOK
  <2>3. d \in Paths /\ KindOf[d] = "directory" /\ ps \in SUBSET Paths /\ d # Null
    BY PathAssumption DEF PathAssumption, MissingAbove, Directories
  <2>4. Sourced(rev) /\ rev.path = d /\ rev.op # "delete"
    BY <2>3, RevisionType DEF Sourced, Revision, Operations
  <2>5. Placed(e, d, ps, new) /\ (e \in Used => path[e] = d)
    BY <2>1, <2>3, NewRowsType DEF Placed, Used
  <2>7. Begins(e, rev) /\ Afforded(d)
    <3>4. Afforded(d)
      BY <1>3, <2>3 DEF Mkdir, Afforded, CheckPageQuota
    <3>1. d \notin LivePaths
      BY <1>3 DEF Mkdir
    <3>2. ~live[e]
      BY <2>1, <2>3, <3>1, NewRowsType, RowFacts DEF LivePaths, Used
    <3>3. e \notin Used => d \notin TakenPaths
      BY <2>1, <2>3 DEF Used
    <3> QED
      BY <3>2, <3>3, <3>4 DEF Begins, Revision
  <2>6. Settling(e, d, ps, new, rev, 0)
    BY <1>1, <2>1, <2>4, <2>5, <2>7 DEF Settling
  <2> QED
    BY <1>1, <2>2, <2>6, ReceiptType DEF Shaped, CountersTyped
<1> QED
  BY <1>2, <1>3

\* Move has the moving shape.
LEMMA MoveShaped ==
    ASSUME TypeOK, NEW k \in Keys \cup {Null}, NEW e \in Ids, NEW q \in Paths, NEW x,
           Move(k, e, q, x)
    PROVE  Shaped /\ CountersTyped
<1> DEFINE p == path[e]
           c == IF KindOf[q] = "page" THEN Relinked(CurrentContent(e), p, q)
                ELSE CurrentContent(e)
           size == IF KindOf[q] = "page" THEN SizeOf[c] ELSE 0
           ps == MissingAbove(q) \ TakenPaths
           rev == Revision("move", q, c, Null, k)
<1>1. PICK new \in NewRows(ps) :
         /\ Publish(e, q, new, rev, size)
         /\ alias' = [Released(PathsOf(new) \cup {q}) EXCEPT ![p] = e]
  BY DEF Move
<1>2. /\ e \in Used /\ live[e] /\ KindOf[p] \in {"page", "asset"}
      /\ KindOf[q] = KindOf[p] /\ q # p /\ q \notin TakenPaths
      /\ CheckRenderedFree({q})
      /\ retained' = retained + size
      /\ SaveReceipt(k) /\ UNCHANGED grantVars
  BY DEF Move
<1>3. p \in Paths /\ q \notin ps /\ ps \in SUBSET Paths
  BY <1>2, RowFacts, NotAboveItself, PathAssumption
     DEF PathAssumption, MissingAbove, Directories
<1>4. CurrentContent(e) \in Contents
  <2>1. /\ CurrentContent(e) \in Contents \cup {Null}
        /\ CurrentContent(e) = Null <=> KindOf[path[e]] = "directory"
    BY <1>2, RowFacts
  <2>2. KindOf[path[e]] # "directory"
    BY <1>2
  <2> QED
    BY <2>1, <2>2
<1>5. c \in Contents /\ c # Null
  <2>1. \A t \in Contents : Relinked(t, p, q) \in Contents
    BY <1>3, ContentAssumption DEF ContentAssumption
  <2>2. Relinked(CurrentContent(e), p, q) \in Contents
    BY <1>4, <2>1
  <2>3. c \in Contents
    BY <1>4, <2>2
  <2> QED
    BY <2>3, PathAssumption DEF PathAssumption
<1>6. size \in Nat /\ retained' \in Nat
  <2>1. SizeOf[c] \in Nat
    BY <1>5, ContentAssumption DEF ContentAssumption
  <2> HIDE DEF c
  <2> QED
    BY <1>2, <2>1 DEF TypeOK
<1>7. rev \in Revisions /\ rev.path = q /\ rev.op = "move" /\ rev.content = c
  BY <1>5 DEF Revision, Revisions, Operations
<1>8. Sourced(rev)
  BY <1>2, <1>5, <1>7 DEF Sourced
<1>9. Placed(e, q, ps, new)
  BY <1>2, <1>3 DEF Placed
<1>10. Moving(e, q, ps, new, rev, size)
  BY <1>1, <1>2, <1>6, <1>7, <1>8, <1>9 DEF Moving
<1> QED
  BY <1>2, <1>6, <1>10, ReceiptType DEF Shaped, CountersTyped

\* Delete has the burying shape.
LEMMA DeleteShaped ==
    ASSUME TypeOK, NEW k \in Keys \cup {Null}, NEW e \in Ids, NEW x, Delete(k, e, x)
    PROVE  Shaped /\ CountersTyped
<1> DEFINE c == CurrentContent(e)
           rev == Revision("delete", path[e], c, Null, k)
<1>1. /\ e \in Used /\ path[e] \in Paths /\ c \in Contents \cup {Null}
      /\ c = Null <=> KindOf[path[e]] = "directory"
  BY RowFacts DEF Delete
<1>2. Sourced(rev) /\ rev.path = path[e] /\ rev.op = "delete"
  BY <1>1 DEF Sourced, Revision, Revisions, Operations
<1>3. retained' \in Nat
  BY <1>1, ContentAssumption DEF ContentAssumption, Delete, Bury, TextKinds, TypeOK
<1>4. Burying(e, rev)
  BY <1>1, <1>2 DEF Burying, Delete, Bury
<1> QED
  BY <1>3, <1>4, ReceiptType DEF Shaped, CountersTyped, Delete

\* Restore amends a live entry and settles a tombstone.
LEMMA RestoreShaped ==
    ASSUME TypeOK, NEW k \in Keys \cup {Null}, NEW e \in Ids, NEW x,
           NEW n \in 1..CurrentRevision(e), Restore(k, e, n, x)
    PROVE  Shaped /\ CountersTyped
<1> DEFINE c == hist[e][n].content
           p == path[e]
           ps == MissingAbove(p) \ TakenPaths
           rev == Revision("restore", p, c, Null, k)
<1>1. /\ e \in Used /\ p \in Paths /\ KindOf[p] # "directory" /\ c # Null
      /\ p \notin ps /\ ps \in SUBSET Paths
      /\ SaveReceipt(k) /\ UNCHANGED grantVars
  BY RowFacts, PathAssumption
     DEF Restore, TakenPaths, MissingAbove, PathAssumption, Directories
<1>2. c \in Contents
  <2>1. hist[e][n] \in Revisions
    BY <1>1, RowFacts DEF CurrentRevision
  <2> QED
    BY <1>1, <2>1 DEF Revisions
<1>3. Sourced(rev) /\ rev.path = p /\ rev.op = "restore"
  BY <1>1, <1>2 DEF Sourced, Revision, Revisions, Operations
<1>4. SizeOf[c] \in Nat /\ retained' \in Nat
  <2>1. SizeOf[c] \in Nat
    BY <1>2, ContentAssumption
  <2>2. retained' = retained \/ retained' = retained + SizeOf[c]
    <3> HIDE DEF c
    <3>1. retained' = retained + (IF KindOf[p] \in TextKinds THEN SizeOf[c] ELSE 0)
      BY DEF Restore, c
    <3>2. retained \in Nat
      BY DEF TypeOK
    <3> QED
      BY <3>1, <3>2
  <2>3. retained \in Nat
    BY DEF TypeOK
  <2> QED
    BY <2>1, <2>2, <2>3
<1>5. CASE live[e]
  <2>1. Amend(e, rev, SizeOf[c])
    BY <1>5 DEF Restore
  <2>2. Amending(e, rev, SizeOf[c])
    BY <1>1, <1>3, <1>4, <1>5, <2>1 DEF Amending
  <2> QED
    BY <1>1, <1>4, <2>2, ReceiptType DEF Shaped, CountersTyped
<1>6. CASE ~live[e]
  <2>1. PICK new \in NewRows(ps) : /\ Publish(e, p, new, rev, SizeOf[c])
                                   /\ alias' = Released(PathsOf(new))
    BY <1>6 DEF Restore
  <2>3. Afforded(p)
    BY <1>1, <1>6 DEF Restore, Afforded
  <2>2. Settling(e, p, ps, new, rev, SizeOf[c])
    BY <1>1, <1>3, <1>4, <1>6, <2>1, <2>3 DEF Settling, Placed, Begins
  <2> QED
    BY <1>1, <1>4, <2>2, ReceiptType DEF Shaped, CountersTyped
<1> QED
  BY <1>5, <1>6

\* A first upload, or one over a tombstone, settles an asset.
LEMMA PutAssetNewShaped ==
    ASSUME TypeOK, NEW k \in Keys \cup {Null}, NEW p \in Paths, NEW c \in Contents,
           PutAssetNew(k, p, c)
    PROVE  Shaped /\ CountersTyped
<1> DEFINE ps == (MissingAbove(p) \cup {p}) \ TakenPaths
           rev == Revision("create", p, c, Null, k)
<1>1. PICK new \in NewRows(ps), e \in Ids :
         /\ IF p \in TakenPaths THEN path[e] = p
            ELSE e \in DOMAIN new /\ new[e] = p
         /\ Publish(e, p, new, rev, SizeOf[c])
         /\ alias' = Released(PathsOf(new))
  BY DEF PutAssetNew
<1>2. /\ KindOf[p] = "asset" /\ ps \in SUBSET Paths /\ p # Null
      /\ SaveReceipt(k) /\ UNCHANGED grantVars
  BY PathAssumption DEF PathAssumption, MissingAbove, Directories, PutAssetNew
<1>3. Sourced(rev) /\ rev.path = p /\ rev.op # "delete"
  BY <1>2, RevisionType, PathAssumption DEF Sourced, Revision, Operations, PathAssumption
<1>4. SizeOf[c] \in Nat /\ retained' \in Nat
  <2>1. SizeOf[c] \in Nat
    BY ContentAssumption
  <2>2. retained' = retained + 2 * SizeOf[c] /\ retained \in Nat
    BY DEF PutAssetNew, TypeOK
  <2> QED
    BY <2>1, <2>2
<1>5. Placed(e, p, ps, new) /\ (e \in Used => path[e] = p)
  BY <1>1, <1>2, NewRowsType DEF Placed, Used
<1>7. Begins(e, rev) /\ Afforded(p)
  <2>2. Afforded(p)
    BY <1>2 DEF Afforded, CheckPageQuota
  <2>1. ~live[e]
    BY <1>1, <1>2, NewRowsType, RowFacts DEF Used, LiveOf, PutAssetNew
  <2> QED
    BY <2>1, <2>2 DEF Begins, Revision
<1>6. Settling(e, p, ps, new, rev, SizeOf[c])
  BY <1>1, <1>2, <1>3, <1>4, <1>5, <1>7 DEF Settling
<1> QED
  BY <1>2, <1>4, <1>6, ReceiptType DEF Shaped, CountersTyped

\* An upload over a live asset amends it.
LEMMA PutAssetReplaceShaped ==
    ASSUME TypeOK, NEW k \in Keys \cup {Null}, NEW e \in Ids, NEW c \in Contents, NEW x,
           PutAssetReplace(k, e, c, x)
    PROVE  Shaped /\ CountersTyped
<1> DEFINE rev == Revision("update", path[e], c, Null, k)
<1>1. live[e] /\ KindOf[path[e]] = "asset" /\ e \in Used /\ path[e] \in Paths
  BY RowFacts DEF PutAssetReplace, LiveOf
<1>2. Sourced(rev) /\ rev.path = path[e] /\ rev.op = "update"
  BY <1>1, RevisionType, PathAssumption DEF Sourced, Revision, Operations, PathAssumption
<1>3. SizeOf[c] \in Nat /\ retained' \in Nat
  BY ContentAssumption DEF ContentAssumption, PutAssetReplace, TypeOK
<1>4. Amending(e, rev, SizeOf[c])
  BY <1>1, <1>2, <1>3 DEF Amending, PutAssetReplace
<1> QED
  BY <1>3, <1>4, ReceiptType DEF Shaped, CountersTyped, PutAssetReplace

\* The operations on grants leave the tree alone.
LEMMA GrantStepsShaped ==
    ASSUME TypeOK, NEW g \in Grants, NEW e \in Ids,
           CreateShareGrant(g, e) \/ RefreshShareGrantAssets(g) \/ RevokeShareGrant(g)
    PROVE  Shaped /\ CountersTyped
<1>1. \A d : EmbeddedAssets(d) \subseteq Ids
  BY RowFacts DEF EmbeddedAssets
<1>2. CASE CreateShareGrant(g, e)
  BY <1>1, <1>2 DEF CreateShareGrant, Linking, Shaped, CountersTyped, TypeOK, entryVars
<1>3. CASE RefreshShareGrantAssets(g)
  BY <1>1, <1>3
     DEF RefreshShareGrantAssets, Linking, Shaped, CountersTyped, TypeOK, entryVars
<1>4. CASE RevokeShareGrant(g)
  BY <1>4 DEF RevokeShareGrant, Linking, Shaped, CountersTyped, TypeOK, entryVars
<1> QED
  BY <1>2, <1>3, <1>4

\* Whatever the program does to the content tables has one of five shapes.
LEMMA NextShaped ==
    ASSUME TypeOK, [Next]_vars
    PROVE  Shaped /\ CountersTyped
<1>1. CASE UNCHANGED vars
  BY <1>1 DEF vars, Linking, entryVars, Shaped, CountersTyped, TypeOK
<1>2. ASSUME NEW k \in Keys \cup {Null}, Mutation(k)
      PROVE  Shaped /\ CountersTyped
  <2>1. CASE \E p \in Paths, c \in Contents : WriteCreate(k, p, c) \/ PutAssetNew(k, p, c)
    BY <2>1, WriteCreateShaped, PutAssetNewShaped
  <2>2. CASE \E d \in Directories : Mkdir(k, d)
    BY <2>2, MkdirShaped
  <2>3. CASE \E e \in Used : \E x \in 0..CurrentRevision(e) : MutationOf(k, e, x)
    <3>0. PICK e \in Used : \E y \in 0..CurrentRevision(e) : MutationOf(k, e, y)
      BY <2>3
    <3>1. PICK x \in 0..CurrentRevision(e) : e \in Ids /\ MutationOf(k, e, x)
      BY <3>0 DEF Used
    <3>2. \A p \in PathsHeld(e) : p \in Paths
      <4>1. \A n \in 1..Len(hist[e]) : hist[e][n] \in Revisions
        BY <3>1, RowFacts
      <4> QED
        BY <4>1 DEF PathsHeld, Revisions
    <3>3. CASE \E c \in Contents : WriteRevive(k, e, c, x)
      BY <3>1, <3>3, WriteReviveShaped
    <3>4. CASE \E c \in Contents, p \in PathsHeld(e) :
                 WriteUpdate(Null, k, p, c, x)
                 \/ \E g \in Grants : WriteUpdate(g, k, p, c, x)
      BY <3>2, <3>4, WriteUpdateShaped
    <3>5. CASE \E q \in Paths : Move(k, e, q, x)
      BY <3>1, <3>5, MoveShaped
    <3>6. CASE Delete(k, e, x)
      BY <3>1, <3>6, DeleteShaped
    <3>7. CASE \E n \in 1..CurrentRevision(e) : Restore(k, e, n, x)
      BY <3>1, <3>7, RestoreShaped
    <3>8. CASE \E c \in Contents : PutAssetReplace(k, e, c, x)
      BY <3>1, <3>8, PutAssetReplaceShaped
    <3> QED
      BY <3>1, <3>3, <3>4, <3>5, <3>6, <3>7, <3>8 DEF MutationOf
  <2> QED
    BY <1>2, <2>1, <2>2, <2>3 DEF Mutation
<1>3. ASSUME NEW k \in Keys, ExpireReceipt(k)
      PROVE  Shaped /\ CountersTyped
  BY <1>3 DEF ExpireReceipt, Linking, Shaped, CountersTyped, TypeOK, entryVars, grantVars
<1> QED
  <2>1. Ids # {}
    BY BoundAssumption DEF BoundAssumption, Ids
  <2> QED
    BY <1>1, <1>2, <1>3, <2>1, GrantStepsShaped DEF Next

-----------------------------------------------------------------------------
\* What Publish does to the rows, whether the row is new, revived or moved.

Placing(e, p, ps, new, rev, size) ==
    /\ Placed(e, p, ps, new)
    /\ Sourced(rev) /\ rev.path = p /\ rev.op # "delete" /\ size \in Nat
    /\ Publish(e, p, new, rev, size)
    /\ e \in Used =>
          /\ path[e] \notin Above[p]
          /\ \/ path[e] = p
             \/ /\ live[e] /\ CheckRenderedFree({p})
                /\ KindOf[path[e]] = KindOf[p] /\ KindOf[p] \in {"page", "asset"}

\* Settling places an entry in the tree.
LEMMA SettlingPlaces ==
    ASSUME TypeOK, NEW e, NEW p, NEW ps, NEW new, NEW rev, NEW size,
           Settling(e, p, ps, new, rev, size)
    PROVE  Placing(e, p, ps, new, rev, size)
BY NotAboveItself DEF Settling, Placing, Placed

\* Moving places an entry in the tree.
LEMMA MovingPlaces ==
    ASSUME TypeOK, NEW e, NEW p, NEW ps, NEW new, NEW rev, NEW size,
           Moving(e, p, ps, new, rev, size)
    PROVE  Placing(e, p, ps, new, rev, size)
<1>1. \A d \in Above[p] : KindOf[d] = "directory"
  BY PathAssumption DEF PathAssumption, Directories, Moving, Placed
<1> QED
  BY <1>1 DEF Moving, Placing

\* The paths after Publish: e has p, the new rows have the new paths, and the
\* other rows keep theirs.
LEMMA PlacedPaths ==
    ASSUME TypeOK, NEW e, NEW p, NEW ps, NEW new, NEW rev, NEW size,
           Placing(e, p, ps, new, rev, size)
    PROVE  /\ path' \in [Ids -> Paths \cup {Null}]
           /\ path'[e] = p
           /\ \A i \in DOMAIN new : path'[i] = new[i] /\ new[i] \in ps /\ path[i] = Null
           /\ \A i \in Ids : i \notin DOMAIN new /\ i # e => path'[i] = path[i]
           /\ \A i \in DOMAIN new : i # e => path'[i] \in MissingAbove(p)
           /\ Used' = Used \cup DOMAIN new
           /\ e \in Used'
           /\ lastId' = lastId + Cardinality(ps)
           /\ DOMAIN new = (lastId + 1)..lastId'
           /\ lastId' \in 3..MaxEntries
<1>a. /\ e \in Ids /\ p \in Paths /\ ps \in SUBSET Paths /\ new \in NewRows(ps)
      /\ ps \subseteq (MissingAbove(p) \cup {p}) \ TakenPaths
      /\ IF p \in ps THEN e \in DOMAIN new /\ new[e] = p ELSE e \in Used
      /\ Publish(e, p, new, rev, size)
  BY DEF Placing, Placed
<1>b. /\ Cardinality(ps) \in Nat
      /\ lastId + Cardinality(ps) <= MaxEntries
      /\ DOMAIN new = (lastId + 1)..(lastId + Cardinality(ps))
      /\ DOMAIN new \subseteq Ids
      /\ Cardinality(DOMAIN new) = Cardinality(ps)
      /\ \A i \in DOMAIN new : new[i] \in ps /\ path[i] = Null
      /\ \A i, j \in DOMAIN new : i # j => new[i] # new[j]
  BY <1>a, NewRowsType
<1> DEFINE inserted == [i \in Ids |-> IF i \in DOMAIN new THEN new[i] ELSE path[i]]
<1>1. /\ path' = [inserted EXCEPT ![e] = p]
      /\ lastId' = lastId + Cardinality(DOMAIN new)
  BY <1>a DEF Publish
<1>2. inserted \in [Ids -> Paths \cup {Null}]
  BY <1>a, <1>b DEF TypeOK
<1>3. path' \in [Ids -> Paths \cup {Null}] /\ path'[e] = p
  BY <1>a, <1>1, <1>2
<1>4. \A i \in Ids : i # e => path'[i] = inserted[i]
  BY <1>1, <1>2
<1>5. e \in DOMAIN new => new[e] = p
  <2>1. ASSUME e \in DOMAIN new PROVE p \in ps
    BY <1>a, <1>b, <2>1 DEF Used
  <2> QED BY <1>a, <2>1
<1>6. \A i \in DOMAIN new : path'[i] = new[i] /\ new[i] \in ps /\ path[i] = Null
  BY <1>3, <1>4, <1>5, <1>b
<1>7. \A i \in Ids : i \notin DOMAIN new /\ i # e => path'[i] = path[i]
  BY <1>4
<1>8. \A i \in DOMAIN new : i # e => path'[i] \in MissingAbove(p)
  <2> SUFFICES ASSUME NEW i \in DOMAIN new, i # e, path'[i] = p PROVE FALSE
    BY <1>a, <1>6
  <2>1. p \in ps
    BY <1>6
  <2> QED
    BY <1>a, <1>b, <1>6, <2>1
<1>9. /\ lastId' = lastId + Cardinality(ps)
      /\ DOMAIN new = (lastId + 1)..lastId'
      /\ lastId' \in 3..MaxEntries
  BY <1>1, <1>b, BoundAssumption DEF TypeOK, BoundAssumption
<1>10. Used' = Used \cup DOMAIN new
  <2>1. \A i \in Ids : i \in Used' <=> path'[i] # Null
    BY DEF Used
  <2>2. \A i \in DOMAIN new : path'[i] # Null /\ i \in Ids
    BY <1>6, <1>a, <1>b, PathAssumption DEF PathAssumption
  <2>3. p # Null
    BY <1>a, PathAssumption DEF PathAssumption
  <2>4. e \in Used \cup DOMAIN new
    BY <1>a
  <2>5. \A i \in Ids : i \in Used' <=> i \in Used \cup DOMAIN new
    BY <1>3, <1>7, <2>1, <2>2, <2>3, <2>4 DEF Used
  <2> QED
    BY <2>5, <2>2 DEF Used
<1> QED
  BY <1>a, <1>3, <1>6, <1>7, <1>8, <1>9, <1>10

\* Every path that is to be live has a row after Publish.
LEMMA PlacedAbove ==
    ASSUME TypeOK, NEW e, NEW p, NEW ps, NEW new, NEW rev, NEW size,
           Placing(e, p, ps, new, rev, size)
    PROVE  \A x \in Above[p] \cup {p} : \E i \in Ids : path'[i] = x /\ live'[i]
<1>1. /\ e \in Ids /\ p \in Paths /\ ps \in SUBSET Paths /\ new \in NewRows(ps)
      /\ MissingAbove(p) \ TakenPaths \subseteq ps
      /\ e \in Used => path[e] \notin Above[p]
      /\ live' = [i \in Ids |-> live[i] \/ path'[i] \in MissingAbove(p) \cup {p}]
  <2>1. Publish(e, p, new, rev, size)
    BY DEF Placing
  <2>2. live' = [i \in Ids |-> live[i] \/ path'[i] \in MissingAbove(p) \cup {p}]
    BY <2>1 DEF Publish
  <2> QED
    BY <2>2 DEF Placing, Placed
<1>2. /\ path'[e] = p /\ live'[e]
      /\ \A i \in DOMAIN new : path'[i] = new[i] /\ path[i] = Null
      /\ \A i \in Ids : i \notin DOMAIN new /\ i # e => path'[i] = path[i]
  <2>1. path'[e] = p
    BY PlacedPaths
  <2>2. live'[e]
    BY <1>1, <2>1
  <2> QED
    BY <2>1, <2>2, PlacedPaths
<1>3. \A i \in Used : /\ i \in Ids /\ i \notin DOMAIN new
                      /\ path[i] \in Above[p] => path'[i] = path[i]
  BY <1>1, <1>2 DEF Used
<1>4. ASSUME NEW x \in Above[p] PROVE \E i \in Ids : path'[i] = x /\ live'[i]
  <2>1. CASE x \in LivePaths
    <3>1. PICK i \in Ids : live[i] /\ path[i] = x
      BY <2>1 DEF LivePaths
    <3>2. i \in Used
      BY <3>1, RowFacts
    <3> QED
      BY <1>1, <1>3, <3>1, <3>2
  <2>2. CASE x \notin LivePaths /\ x \in TakenPaths
    <3>1. PICK i \in Used : path[i] = x
      BY <2>2 DEF TakenPaths
    <3>2. i \in Ids /\ path'[i] = x
      BY <1>3, <3>1
    <3> QED
      BY <1>1, <2>2, <3>2 DEF MissingAbove
  <2>3. CASE x \notin LivePaths /\ x \notin TakenPaths
    <3>1. x \in ps
      BY <1>1, <2>3 DEF MissingAbove
    <3>2. PICK i \in DOMAIN new : new[i] = x /\ i \in Ids
      BY <1>1, <3>1, NewRowsType
    <3>3. path'[i] = x
      BY <1>2, <3>2
    <3> QED
      BY <1>1, <2>3, <3>2, <3>3 DEF MissingAbove
  <2> QED
    BY <2>1, <2>2, <2>3
<1> QED
  BY <1>1, <1>2, <1>4

LastOf(i) == hist[i][Len(hist[i])]

\* The history after Publish: e has rev on top, a directory that was missing
\* has a revision of its own, and no other row has a new one.
LEMMA PlacedHistory ==
    ASSUME TypeOK, NEW e, NEW p, NEW ps, NEW new, NEW rev, NEW size,
           Placing(e, p, ps, new, rev, size)
    PROVE  /\ hist' \in [Ids -> Seq(Revisions)]
           /\ hist'[e] = Append(hist[e], rev)
           /\ \A i \in Ids : i # e /\ path'[i] \notin MissingAbove(p) => hist'[i] = hist[i]
           /\ \A i \in Ids : i # e /\ path'[i] \in MissingAbove(p) =>
                 \E r \in Revisions :
                    /\ hist'[i] = Append(hist[i], r)
                    /\ r.path = path'[i] /\ r.content = Null /\ r.op # "delete"
                    /\ KindOf[path'[i]] = "directory"
<1> DEFINE dirs == MissingAbove(p)
           dirRevision(i) ==
              Revision(IF i \in DOMAIN new THEN "create" ELSE "restore",
                       path'[i], Null, Null, rev.key)
<1>1. Publish(e, p, new, rev, size) /\ rev \in Revisions /\ e \in Ids /\ p \in Paths
  BY DEF Placing, Placed, Sourced
<1>2. hist' = [i \in Ids |->
                 CASE i = e -> Append(hist[i], rev)
                   [] i # e /\ path'[i] \in dirs -> Append(hist[i], dirRevision(i))
                   [] OTHER -> hist[i]]
  BY <1>1 DEF Publish
<1>3. \A d \in dirs : d \in Paths /\ KindOf[d] = "directory"
  BY <1>1, PathAssumption DEF PathAssumption, MissingAbove, Directories
<1>4. rev.key \in Keys \cup {Null}
  BY <1>1 DEF Revisions
<1>5. ASSUME NEW i \in Ids, path'[i] \in dirs
      PROVE  /\ dirRevision(i) \in Revisions
             /\ dirRevision(i).path = path'[i] /\ dirRevision(i).content = Null
             /\ dirRevision(i).op # "delete"
  BY <1>3, <1>4, <1>5 DEF Revision, Revisions, Operations
<1>6. hist'[e] = Append(hist[e], rev)
  BY <1>1, <1>2
<1>7. \A i \in Ids : i # e /\ path'[i] \notin dirs => hist'[i] = hist[i]
  BY <1>2
<1>8. \A i \in Ids : i # e /\ path'[i] \in dirs => hist'[i] = Append(hist[i], dirRevision(i))
  BY <1>2
<1>9. ASSUME NEW i \in Ids PROVE hist'[i] \in Seq(Revisions)
  <2>1. hist[i] \in Seq(Revisions)
    BY DEF TypeOK
  <2>2. CASE i = e
    BY <1>1, <1>6, <2>1, <2>2
  <2>3. CASE i # e /\ path'[i] \in dirs
    BY <1>5, <1>8, <2>1, <2>3
  <2>4. CASE i # e /\ path'[i] \notin dirs
    BY <1>7, <2>1, <2>4
  <2> QED
    BY <2>2, <2>3, <2>4
<1>10. hist' \in [Ids -> Seq(Revisions)]
  <2>1. hist' = [i \in Ids |-> hist'[i]]
    BY <1>2
  <2> QED
    BY <1>9, <2>1
<1>11. ASSUME NEW i \in Ids, i # e, path'[i] \in dirs
       PROVE  \E r \in Revisions :
                    /\ hist'[i] = Append(hist[i], r)
                    /\ r.path = path'[i] /\ r.content = Null /\ r.op # "delete"
                    /\ KindOf[path'[i]] = "directory"
  <2>1. dirRevision(i) \in Revisions
    BY <1>5, <1>11
  <2> WITNESS dirRevision(i) \in Revisions
  <2> QED
    BY <1>3, <1>5, <1>8, <1>11
<1> QED
  BY <1>6, <1>7, <1>10, <1>11

-----------------------------------------------------------------------------
\* Type correctness.

\* The conjuncts of TypeOK that publishing a row can disturb.
RowTyped(i) ==
    IF i <= lastId
    THEN /\ path[i] # Null /\ hist[i] # <<>>
         /\ CurrentContent(i) = Null <=> KindOf[path[i]] = "directory"
    ELSE path[i] = Null /\ hist[i] = <<>> /\ ~live[i]

\* A row whose last revision is r and whose path is that of r is well typed.
LEMMA AppendedRow ==
    ASSUME NEW h \in Seq(Revisions), NEW r \in Revisions
    PROVE  /\ Append(h, r) # <<>>
           /\ Append(h, r)[Len(Append(h, r))] = r
           /\ Append(h, r) \in Seq(Revisions)
OBVIOUS

\* After an entry is placed, every row is typed, the inserted ones included.
LEMMA PlacedRowsTyped ==
    ASSUME TypeOK, NEW e, NEW p, NEW ps, NEW new, NEW rev, NEW size,
           Placing(e, p, ps, new, rev, size), NEW i \in Ids
    PROVE  RowTyped(i)'
<1>1. /\ e \in Ids /\ Sourced(rev) /\ rev.path = p
      /\ live' = [j \in Ids |-> live[j] \/ path'[j] \in MissingAbove(p) \cup {p}]
  <2>1. Publish(e, p, new, rev, size)
    BY DEF Placing
  <2>2. live' = [j \in Ids |-> live[j] \/ path'[j] \in MissingAbove(p) \cup {p}]
    BY <2>1 DEF Publish
  <2> QED
    BY <2>2 DEF Placing, Placed
<1>2. /\ path'[e] = p /\ p \in Paths /\ e \in Used'
      /\ Used' = Used \cup DOMAIN new
      /\ i \in DOMAIN new => path'[i] = new[i] /\ path[i] = Null
      /\ i \in DOMAIN new /\ i # e => path'[i] \in MissingAbove(p)
      /\ i \notin DOMAIN new /\ i # e => path'[i] = path[i]
      /\ lastId \in Nat /\ lastId' \in Nat /\ lastId <= lastId'
      /\ DOMAIN new = (lastId + 1)..lastId'
  <2>1. p \in Paths /\ ps \in SUBSET Paths /\ new \in NewRows(ps)
    BY DEF Placing, Placed
  <2>2. Cardinality(ps) \in Nat
    BY <2>1, NewRowsType
  <2> QED
    BY <2>1, <2>2, PlacedPaths DEF TypeOK
<1>3. /\ hist[i] \in Seq(Revisions)
      /\ hist'[e] = Append(hist[e], rev)
      /\ i # e /\ path'[i] \notin MissingAbove(p) => hist'[i] = hist[i]
      /\ i # e /\ path'[i] \in MissingAbove(p) =>
            \E r \in Revisions :
               /\ hist'[i] = Append(hist[i], r)
               /\ r.path = path'[i] /\ r.content = Null
               /\ KindOf[path'[i]] = "directory"
  BY PlacedHistory DEF TypeOK
<1>4. Used = 1..lastId /\ \A x \in MissingAbove(p) \cup {p} : x # Null
  BY <1>2, RowFacts, PathAssumption DEF PathAssumption, MissingAbove, Directories
<1>5. i \in Used' <=> i <= lastId'
  BY <1>2, <1>4 DEF Ids
<1>6. RowTyped(i)
  BY DEF TypeOK, RowTyped
<1>7. CASE i = e
  BY <1>1, <1>2, <1>3, <1>4, <1>5, <1>7, AppendedRow DEF RowTyped, CurrentContent, Sourced
<1>8. CASE i # e /\ path'[i] \in MissingAbove(p)
  <2>1. PICK r \in Revisions : /\ hist'[i] = Append(hist[i], r)
                               /\ r.path = path'[i] /\ r.content = Null
                               /\ KindOf[path'[i]] = "directory"
    BY <1>3, <1>8
  <2>2. hist'[i] # <<>> /\ CurrentContent(i)' = Null
    BY <1>3, <2>1, AppendedRow DEF CurrentContent
  <2>3. i \in Used'
    BY <1>4, <1>8 DEF Used
  <2> QED
    BY <1>4, <1>5, <1>8, <2>1, <2>2, <2>3 DEF RowTyped
<1>9. CASE i # e /\ path'[i] \notin MissingAbove(p)
  <2>1. path'[i] = path[i] /\ hist'[i] = hist[i]
    BY <1>2, <1>3, <1>9
  <2>2. i \in Used' <=> i \in Used
    BY <2>1 DEF Used
  <2>3. i <= lastId' <=> i <= lastId
    BY <1>2, <1>4, <1>5, <2>2 DEF Ids
  <2>4. path[i] = Null => path'[i] \notin MissingAbove(p) \cup {p}
    BY <1>4, <2>1
  <2> QED
    BY <1>1, <1>6, <2>1, <2>3, <2>4 DEF RowTyped, CurrentContent
<1> QED
  BY <1>7, <1>8, <1>9

\* The tables outside the rows.
LEMMA ReleasedType ==
    ASSUME TypeOK, NEW ps
    PROVE  Released(ps) \in [Paths -> Ids \cup {0}]
BY DEF TypeOK, Released

\* After an entry is placed, every column has its type.
LEMMA PlacedTyped ==
    ASSUME TypeOK, NEW e, NEW p, NEW ps, NEW new, NEW rev, NEW size,
           Placing(e, p, ps, new, rev, size),
           CountersTyped, alias' \in [Paths -> Ids \cup {0}], UNCHANGED grantVars
    PROVE  TypeOK'
<1>1. /\ e \in Ids /\ p \in Paths /\ size \in Nat
      /\ Publish(e, p, new, rev, size)
  BY DEF Placing, Placed
<1>2. /\ live' = [i \in Ids |-> live[i] \/ path'[i] \in MissingAbove(p) \cup {p}]
      /\ bytes' = [bytes EXCEPT ![e] = size]
      /\ parent' = [i \in Ids |->
                       IF path'[i] \in MissingAbove(p) \cup {p}
                       THEN RowAt(path', ParentOf[path'[i]]) ELSE parent[i]]
  BY <1>1 DEF Publish
<1>3. live' \in [Ids -> BOOLEAN] /\ bytes' \in [Ids -> Nat]
  BY <1>1, <1>2 DEF TypeOK
<1>4. ASSUME NEW x \in MissingAbove(p) \cup {p}
      PROVE  RowAt(path', ParentOf[x]) \in Ids
  <2>1. x = Root \/ ParentOf[x] \in Above[p]
    BY <1>1, <1>4, PathAssumption DEF PathAssumption, MissingAbove, Directories
  <2>2. ParentOf[x] \in Above[p] \cup {p}
    BY <1>1, <1>4, <2>1, PathAssumption DEF PathAssumption, MissingAbove, Directories
  <2>3. \E i \in Ids : path'[i] = ParentOf[x]
    BY <2>2, PlacedAbove
  <2> QED
    BY <2>3 DEF RowAt
<1>5. parent' \in [Ids -> Ids \cup {0}]
  BY <1>2, <1>4 DEF TypeOK
<1>6. \A i \in Ids : RowTyped(i)'
  BY PlacedRowsTyped
<1>7. /\ path' \in [Ids -> Paths \cup {Null}]
      /\ lastId' \in 3..MaxEntries
      /\ hist' \in [Ids -> Seq(Revisions)]
  BY PlacedPaths, PlacedHistory
<1>8. /\ grantOf' \in [Grants -> Ids \cup {0}]
      /\ revoked' \in [Grants -> BOOLEAN]
      /\ allowed' \in [Grants -> SUBSET Ids]
  BY DEF grantVars, TypeOK
<1> QED
  BY <1>3, <1>5, <1>6, <1>7, <1>8 DEF TypeOK, CountersTyped, RowTyped

\* A revision appended to a row that keeps its path.
LEMMA AppendTyped ==
    ASSUME TypeOK, NEW e \in Used, NEW rev, Sourced(rev), rev.path = path[e],
           hist' = [hist EXCEPT ![e] = Append(@, rev)]
    PROVE  /\ hist' \in [Ids -> Seq(Revisions)]
           /\ hist'[e] # <<>> /\ hist'[e][Len(hist'[e])] = rev
           /\ hist'[e] = Append(hist[e], rev)
           /\ rev.content = Null <=> KindOf[path[e]] = "directory"
           /\ \A i \in Ids : i # e => hist'[i] = hist[i]
<1>1. e \in Ids /\ hist[e] \in Seq(Revisions)
  BY RowFacts
<1>2. hist'[e] = Append(hist[e], rev) /\ \A i \in Ids : i # e => hist'[i] = hist[i]
  BY <1>1 DEF TypeOK
<1>3. rev \in Revisions
  BY DEF Sourced
<1>4. hist'[e] \in Seq(Revisions) /\ hist'[e] # <<>> /\ hist'[e][Len(hist'[e])] = rev
  BY <1>1, <1>2, <1>3, AppendedRow
<1>5. hist' \in [Ids -> Seq(Revisions)]
  BY <1>1, <1>4 DEF TypeOK
<1> QED
  BY <1>2, <1>4, <1>5 DEF Sourced

\* Every shape preserves the types.
LEMMA TypePreserved ==
    ASSUME TypeOK, [Next]_vars
    PROVE  TypeOK'
<1>1. Shaped /\ CountersTyped
  BY NextShaped
<1>2. ASSUME NEW e, NEW p, NEW ps, NEW new, NEW rev, NEW size,
             Settling(e, p, ps, new, rev, size)
      PROVE  TypeOK'
  <2>1. Placing(e, p, ps, new, rev, size)
    BY <1>2, SettlingPlaces
  <2>2. alias' \in [Paths -> Ids \cup {0}] /\ UNCHANGED grantVars
    BY <1>2, ReleasedType DEF Settling
  <2> QED
    BY <1>1, <2>1, <2>2, PlacedTyped
<1>3. ASSUME NEW e, NEW p, NEW ps, NEW new, NEW rev, NEW size,
             Moving(e, p, ps, new, rev, size)
      PROVE  TypeOK'
  <2>1. alias' \in [Paths -> Ids \cup {0}]
    BY <1>3, ReleasedType DEF Moving, Placed
  <2>2. Placing(e, p, ps, new, rev, size)
    BY <1>3, MovingPlaces
  <2>3. UNCHANGED grantVars
    BY <1>3 DEF Moving
  <2> QED
    BY <1>1, <2>1, <2>2, <2>3, PlacedTyped
<1>4. ASSUME NEW e, NEW rev, Burying(e, rev) PROVE TypeOK'
  <2>1. e \in Used /\ Sourced(rev) /\ rev.path = path[e]
        /\ hist' = [hist EXCEPT ![e] = Append(@, rev)]
    BY <1>4 DEF Burying
  <2>2. /\ hist' \in [Ids -> Seq(Revisions)] /\ hist'[e] # <<>>
        /\ CurrentContent(e)' = Null <=> KindOf[path[e]] = "directory"
        /\ \A i \in Ids : i # e => hist'[i] = hist[i]
    BY <2>1, AppendTyped DEF CurrentContent
  <2>3. \A i \in Ids : RowTyped(i)'
    BY <1>4, <2>1, <2>2, RowFacts DEF Burying, TypeOK, RowTyped, CurrentContent
  <2> QED
    BY <1>1, <1>4, <2>2, <2>3 DEF Burying, RevokeGrantsOf, TypeOK, CountersTyped, RowTyped
<1>5. ASSUME NEW e, NEW rev, NEW size, Amending(e, rev, size) PROVE TypeOK'
  <2>1. e \in Used /\ Sourced(rev) /\ rev.path = path[e] /\ size \in Nat
        /\ hist' = [hist EXCEPT ![e] = Append(@, rev)]
        /\ bytes' = [bytes EXCEPT ![e] = size]
        /\ UNCHANGED <<path, parent, live, lastId, alias, grantOf, revoked, allowed>>
    BY <1>5 DEF Amending, Amend, grantVars
  <2>2. /\ hist' \in [Ids -> Seq(Revisions)] /\ hist'[e] # <<>>
        /\ CurrentContent(e)' = Null <=> KindOf[path[e]] = "directory"
        /\ \A i \in Ids : i # e => hist'[i] = hist[i]
    BY <2>1, AppendTyped DEF CurrentContent
  <2>3. \A i \in Ids : RowTyped(i)'
    BY <2>1, <2>2, RowFacts DEF TypeOK, RowTyped, CurrentContent
  <2> QED
    BY <1>1, <2>1, <2>2, <2>3 DEF TypeOK, CountersTyped, RowTyped
<1>6. CASE Linking
  <2>1. UNCHANGED <<path, parent, live, bytes, hist, lastId, alias, retained>>
    BY <1>6 DEF Linking, entryVars
  <2>2. \A e \in LiveOf("page") : e \in Ids
    BY DEF LiveOf
  <2>3. /\ grantOf' \in [Grants -> Ids \cup {0}]
        /\ revoked' \in [Grants -> BOOLEAN]
        /\ allowed' \in [Grants -> SUBSET Ids]
    BY <1>6, <2>2 DEF Linking, TypeOK
  <2> QED
    BY <1>1, <2>1, <2>3 DEF TypeOK, CountersTyped, CurrentContent
<1> QED
  BY <1>1, <1>2, <1>3, <1>4, <1>5, <1>6 DEF Shaped

\* The seed of initialFilesystem is typed.
LEMMA InitTyped == ASSUME Init PROVE TypeOK
<1> DEFINE seed == <<Root, ConfigPath, IndexPath>>
           text == <<Null, SeedConfig, SeedIndex>>
           first(i) == Revision("create", seed[i], text[i], Null, Null)
<1>1. MaxEntries \in Nat /\ MaxEntries >= 3 /\ {1, 2, 3} \subseteq Ids
  BY BoundAssumption DEF BoundAssumption, Ids
<1>2. /\ \A i \in 1..3 : seed[i] \in Paths /\ text[i] \in Contents \cup {Null}
      /\ SizeOf[SeedConfig] \in Nat /\ SizeOf[SeedIndex] \in Nat
      /\ \A i \in {2, 3} : text[i] \in Contents /\ text[i] # Null
      /\ \A i \in 1..3 : seed[i] # Null
  BY PathAssumption, ContentAssumption DEF PathAssumption, ContentAssumption
<1>3. \A i \in 1..3 : first(i) \in Revisions /\ first(i).content = text[i]
  BY <1>2 DEF Revision, Revisions, Operations
<1>4. /\ path = [i \in Ids |-> IF i <= 3 THEN seed[i] ELSE Null]
      /\ live = [i \in Ids |-> i <= 3]
      /\ hist = [i \in Ids |-> IF i <= 3 THEN <<first(i)>> ELSE <<>>]
      /\ bytes = [i \in Ids |-> IF i \in {2, 3} THEN SizeOf[text[i]] ELSE 0]
      /\ lastId = 3
  BY DEF Init
<1>5. \A i \in Ids : i <= 3 => i \in 1..3
  BY DEF Ids
<1>6. path \in [Ids -> Paths \cup {Null}]
  BY <1>2, <1>4, <1>5
<1>7. bytes \in [Ids -> Nat]
  BY <1>2, <1>4, ContentAssumption DEF ContentAssumption
<1>8. hist \in [Ids -> Seq(Revisions)]
  <2>1. \A i \in 1..3 : <<first(i)>> \in Seq(Revisions)
    BY <1>3
  <2> QED
    BY <1>4, <1>5, <2>1
<1>9. ASSUME NEW i \in Ids PROVE RowTyped(i)
  <2>1. CASE i <= 3
    <3>1. i \in 1..3
      BY <1>5, <2>1
    <3>2. hist[i] = <<first(i)>> /\ path[i] = seed[i]
      BY <1>4, <2>1
    <3>3. CurrentContent(i) = text[i] /\ hist[i] # <<>>
      BY <1>3, <3>1, <3>2 DEF CurrentContent
    <3>4. text[i] = Null <=> KindOf[seed[i]] = "directory"
      <4>1. CASE i = 1
        BY <4>1, PathAssumption DEF PathAssumption
      <4>2. CASE i \in {2, 3}
        BY <1>2, <4>2, PathAssumption DEF PathAssumption
      <4> QED
        BY <3>1, <4>1, <4>2
    <3> QED
      BY <1>2, <1>4, <2>1, <3>1, <3>2, <3>3, <3>4 DEF RowTyped
  <2>2. CASE ~(i <= 3)
    BY <1>4, <2>2 DEF RowTyped
  <2> QED
    BY <2>1, <2>2
<1>10. /\ parent \in [Ids -> Ids \cup {0}]
       /\ alias \in [Paths -> Ids \cup {0}]
       /\ retained \in Nat
       /\ grantOf \in [Grants -> Ids \cup {0}]
       /\ revoked \in [Grants -> BOOLEAN]
       /\ allowed \in [Grants -> SUBSET Ids]
       /\ receipt \in [Keys -> {"none", "live", "expired"}]
  BY <1>1, <1>2 DEF Init
<1>11. live \in [Ids -> BOOLEAN] /\ lastId \in 3..MaxEntries
  <2>1. live \in [Ids -> BOOLEAN]
    BY <1>4
  <2> QED
    BY <1>1, <1>4, <2>1
<1>12. \A i \in Ids : RowTyped(i)
  BY <1>9
<1> QED
  BY <1>6, <1>7, <1>8, <1>10, <1>11, <1>12 DEF TypeOK, RowTyped

\* Every table stays well typed, for all paths, contents, quotas and bounds.
THEOREM TypeCorrect == Spec => []TypeOK
<1>1. Init => TypeOK
  BY InitTyped
<1>2. TypeOK /\ [Next]_vars => TypeOK'
  BY TypePreserved
<1> QED
  BY <1>1, <1>2, PTL DEF Spec

-----------------------------------------------------------------------------
\* No two rows share a rendered path.

\* The paths of one request render apart: only directories are added, and all
\* of them are above p.
LEMMA RenderApart ==
    ASSUME NEW p \in Paths, NEW x \in MissingAbove(p) \cup {p},
           NEW y \in MissingAbove(p) \cup {p}, RenderedOf[x] = RenderedOf[y]
    PROVE  x = y
<1>1. \A d \in MissingAbove(p) : /\ d \in Paths /\ KindOf[d] = "directory"
                                 /\ RenderedOf[d] # RenderedOf[p]
  BY PathAssumption, RenderedAssumption
     DEF PathAssumption, RenderedAssumption, MissingAbove, Directories
<1>2. CASE x = p \/ y = p
  BY <1>1, <1>2
<1>3. CASE x # p /\ y # p
  BY <1>1, <1>3, RenderedAssumption DEF RenderedAssumption
<1> QED
  BY <1>2, <1>3

\* An old row renders apart from every path that is new to the table.
LEMMA PlacedUnique ==
    ASSUME TypeOK, NamespaceUnique,
           NEW e, NEW p, NEW ps, NEW new, NEW rev, NEW size,
           Placing(e, p, ps, new, rev, size)
    PROVE  NamespaceUnique'
<1>1. /\ e \in Ids /\ p \in Paths /\ ps \in SUBSET Paths /\ new \in NewRows(ps)
      /\ ps \subseteq (MissingAbove(p) \cup {p}) \ TakenPaths
      /\ e \in Used => path[e] = p \/ CheckRenderedFree({p})
  BY DEF Placing, Placed
<1>2. CheckRenderedFree(PathsOf(new)) /\ PathsOf(new) = ps
  <2>1. CheckRenderedFree(PathsOf(new))
    BY DEF Placing, Publish
  <2> QED
    BY <1>1, <2>1, NewRowsType
<1>3. /\ path'[e] = p /\ Used' = Used \cup DOMAIN new
      /\ \A i \in DOMAIN new : path'[i] = new[i] /\ new[i] \in ps /\ path[i] = Null
      /\ \A i \in Ids : i \notin DOMAIN new /\ i # e => path'[i] = path[i]
  BY PlacedPaths
<1>4. \A i, j \in DOMAIN new : i # j => new[i] # new[j]
  BY <1>1, NewRowsType
<1>5. \A i \in Used : i \in Ids /\ i \notin DOMAIN new
  BY <1>3 DEF Used
<1>6. ASSUME NEW i \in Used, NEW j \in DOMAIN new
      PROVE  RenderedOf[path'[i]] # RenderedOf[path'[j]]
  <2>1. path'[j] \in ps
    BY <1>3
  <2>2. CASE i # e
    <3>1. path'[i] = path[i]
      BY <1>3, <1>5, <2>2
    <3> QED
      BY <1>2, <2>1, <3>1 DEF CheckRenderedFree
  <2>3. CASE i = e
    <3>1. p \notin ps
      <4>1. CASE path[e] = p
        BY <1>1, <2>3, <4>1 DEF TakenPaths
      <4>2. CASE p \in ps
        <5>1. e \in DOMAIN new
          BY <4>2 DEF Placing, Placed
        <5> QED
          BY <1>5, <2>3, <5>1
      <4> QED
        BY <4>2
    <3>2. path'[j] # p /\ path'[j] \in MissingAbove(p)
      BY <1>1, <2>1, <3>1
    <3> QED
      BY <1>1, <1>3, <2>3, <3>2, RenderApart
  <2> QED
    BY <2>2, <2>3
<1>7. ASSUME NEW i \in DOMAIN new, NEW j \in DOMAIN new, i # j
      PROVE  RenderedOf[path'[i]] # RenderedOf[path'[j]]
  <2>1. path'[i] \in MissingAbove(p) \cup {p} /\ path'[j] \in MissingAbove(p) \cup {p}
    BY <1>1, <1>3
  <2>2. path'[i] # path'[j]
    BY <1>3, <1>4, <1>7
  <2> QED
    BY <1>1, <2>1, <2>2, RenderApart
<1>8. ASSUME NEW i \in Used, NEW j \in Used, i # j
      PROVE  RenderedOf[path'[i]] # RenderedOf[path'[j]]
  <2>1. \A k \in Used : k # e => path'[k] = path[k]
    BY <1>3, <1>5
  <2>2. CASE i # e /\ j # e
    BY <1>8, <2>1, <2>2 DEF NamespaceUnique
  <2>3. CASE i = e \/ j = e
    <3>1. path[e] = p \/ CheckRenderedFree({p})
      BY <1>1, <2>3
    <3> QED
      BY <1>3, <1>8, <2>1, <2>3, <3>1 DEF NamespaceUnique, CheckRenderedFree
  <2> QED
    BY <2>2, <2>3
<1> QED
  BY <1>3, <1>6, <1>7, <1>8 DEF NamespaceUnique

\* Rows whose paths stand still keep rendering apart.
LEMMA UniqueStands ==
    ASSUME NamespaceUnique, path' = path PROVE NamespaceUnique'
BY DEF NamespaceUnique, Used

\* Every shape keeps rendered paths unique.
LEMMA UniquePreserved ==
    ASSUME TypeOK, NamespaceUnique, [Next]_vars
    PROVE  NamespaceUnique'
<1>1. Shaped
  BY NextShaped
<1>2. ASSUME NEW e, NEW p, NEW ps, NEW new, NEW rev, NEW size,
             Settling(e, p, ps, new, rev, size)
      PROVE  NamespaceUnique'
  BY <1>2, SettlingPlaces, PlacedUnique
<1>3. ASSUME NEW e, NEW p, NEW ps, NEW new, NEW rev, NEW size,
             Moving(e, p, ps, new, rev, size)
      PROVE  NamespaceUnique'
  BY <1>3, MovingPlaces, PlacedUnique
<1>4. CASE \/ \E e, rev : Burying(e, rev)
           \/ \E e, rev, size : Amending(e, rev, size)
           \/ Linking
  <2>1. path' = path
    BY <1>4 DEF Burying, Amending, Amend, Linking, entryVars
  <2> QED
    BY <2>1, UniqueStands
<1> QED
  BY <1>1, <1>2, <1>3, <1>4 DEF Shaped

-----------------------------------------------------------------------------
\* No redirect answers for a path that renders where a row does.

\* Settling deletes the redirects at the paths it takes.
LEMMA SettlingRedirects ==
    ASSUME TypeOK, RedirectsYield,
           NEW e, NEW p, NEW ps, NEW new, NEW rev, NEW size,
           Settling(e, p, ps, new, rev, size)
    PROVE  RedirectsYield'
<1>1. /\ path'[e] = p /\ Used' = Used \cup DOMAIN new
      /\ \A i \in DOMAIN new : path'[i] = new[i] /\ path[i] = Null
      /\ \A i \in Ids : i \notin DOMAIN new /\ i # e => path'[i] = path[i]
  BY SettlingPlaces, PlacedPaths
<1>2. alias' = Released(PathsOf(new)) /\ (e \in Used => path[e] = p)
  BY DEF Settling
<1> SUFFICES ASSUME NEW q \in Paths, alias'[q] # 0, NEW i \in Used'
             PROVE  RenderedOf[path'[i]] # RenderedOf[q]
  BY DEF RedirectsYield
<1>3. /\ alias[q] # 0
      /\ \A x \in PathsOf(new) : RenderedOf[x] # RenderedOf[q]
  BY <1>2 DEF Released
<1>4. CASE i \in DOMAIN new
  BY <1>1, <1>3, <1>4 DEF PathsOf
<1>5. CASE i \in Used /\ i \notin DOMAIN new
  <2>1. path'[i] = path[i]
    BY <1>1, <1>2, <1>5 DEF Used
  <2> QED
    BY <1>3, <1>5, <2>1 DEF RedirectsYield
<1> QED
  BY <1>1, <1>4, <1>5

\* Moving leaves a redirect at a path no row has any more.
LEMMA MovingRedirects ==
    ASSUME TypeOK, NamespaceUnique, RedirectsYield,
           NEW e, NEW p, NEW ps, NEW new, NEW rev, NEW size,
           Moving(e, p, ps, new, rev, size)
    PROVE  RedirectsYield'
<1>1. /\ path'[e] = p /\ Used' = Used \cup DOMAIN new
      /\ \A i \in DOMAIN new : path'[i] = new[i] /\ path[i] = Null
      /\ \A i \in Ids : i \notin DOMAIN new /\ i # e => path'[i] = path[i]
  BY MovingPlaces, PlacedPaths
<1>2. /\ alias' = [Released(PathsOf(new) \cup {p}) EXCEPT ![path[e]] = e]
      /\ e \in Used /\ e \in Ids /\ p \in Paths /\ path[e] \in Paths
      /\ path[e] # p /\ KindOf[path[e]] = KindOf[p]
      /\ Publish(e, p, new, rev, size)
  BY RowFacts DEF Moving, Placed
<1>3. CheckRenderedFree(PathsOf(new))
  BY <1>2 DEF Publish
<1>4. \A i \in DOMAIN new : new[i] \in PathsOf(new)
  BY DEF PathsOf
<1> SUFFICES ASSUME NEW q \in Paths, alias'[q] # 0, NEW i \in Used'
             PROVE  RenderedOf[path'[i]] # RenderedOf[q]
  BY DEF RedirectsYield
<1>5. i # e => i \in DOMAIN new \/ (i \in Used /\ path'[i] = path[i])
  BY <1>1 DEF Used
<1>6. CASE q = path[e]
  <2>1. CASE i = e
    BY <1>1, <1>2, <1>6, <2>1, RenderedAssumption DEF RenderedAssumption
  <2>2. CASE i # e /\ i \in DOMAIN new
    BY <1>1, <1>2, <1>3, <1>4, <1>6, <2>2 DEF CheckRenderedFree
  <2>3. CASE i # e /\ i \notin DOMAIN new
    BY <1>2, <1>5, <1>6, <2>3 DEF NamespaceUnique
  <2> QED
    BY <2>1, <2>2, <2>3
<1>7. CASE q # path[e]
  <2>1. alias'[q] = Released(PathsOf(new) \cup {p})[q]
    BY <1>2, <1>7
  <2>2. /\ alias[q] # 0
        /\ \A x \in PathsOf(new) \cup {p} : RenderedOf[x] # RenderedOf[q]
    BY <2>1 DEF Released
  <2>3. CASE i = e
    BY <1>1, <2>2, <2>3
  <2>4. CASE i # e /\ i \in DOMAIN new
    BY <1>1, <1>4, <2>2, <2>4
  <2>5. CASE i # e /\ i \notin DOMAIN new
    BY <1>5, <2>2, <2>5 DEF RedirectsYield
  <2> QED
    BY <2>3, <2>4, <2>5
<1> QED
  BY <1>6, <1>7

\* Every shape keeps redirects off the paths of entries.
LEMMA RedirectsPreserved ==
    ASSUME TypeOK, NamespaceUnique, RedirectsYield, [Next]_vars
    PROVE  RedirectsYield'
<1>1. Shaped
  BY NextShaped
<1>2. CASE \/ \E e, rev : Burying(e, rev)
           \/ \E e, rev, size : Amending(e, rev, size)
           \/ Linking
  <2>1. path' = path /\ alias' = alias
    BY <1>2 DEF Burying, Amending, Amend, Linking, entryVars
  <2> QED
    BY <2>1 DEF RedirectsYield, Used
<1> QED
  BY <1>1, <1>2, SettlingRedirects, MovingRedirects DEF Shaped

-----------------------------------------------------------------------------
\* A row is what its last revision says.

RowFollows(i) == path[i] = LastOf(i).path /\ (live[i] <=> LastOf(i).op # "delete")

\* The property, row by row.
LEMMA FollowsRows == RowFollowsHistory <=> \A i \in Used : RowFollows(i)
BY DEF RowFollowsHistory, RowFollows, LastOf

\* A placed entry, and each directory above it, follows its new revision.
LEMMA PlacedFollows ==
    ASSUME TypeOK, NamespaceUnique, RowFollowsHistory,
           NEW e, NEW p, NEW ps, NEW new, NEW rev, NEW size,
           Placing(e, p, ps, new, rev, size)
    PROVE  RowFollowsHistory'
<1>1. /\ live' = [i \in Ids |-> live[i] \/ path'[i] \in MissingAbove(p) \cup {p}]
      /\ e \in Ids /\ rev \in Revisions /\ rev.path = p /\ rev.op # "delete"
  <2>1. Publish(e, p, new, rev, size)
    BY DEF Placing
  <2>2. live' = [i \in Ids |-> live[i] \/ path'[i] \in MissingAbove(p) \cup {p}]
    BY <2>1 DEF Publish
  <2> QED
    BY <2>2 DEF Placing, Placed, Sourced
<1>2. /\ path'[e] = p /\ Used' = Used \cup DOMAIN new /\ e \in Used'
      /\ \A i \in DOMAIN new : i # e => path'[i] \in MissingAbove(p)
      /\ \A i \in Ids : i \notin DOMAIN new /\ i # e => path'[i] = path[i]
  BY PlacedPaths
<1>3. NamespaceUnique'
  BY PlacedUnique
<1>4. ASSUME NEW i \in Used' PROVE RowFollows(i)'
  <2>1. i \in Ids /\ hist[i] \in Seq(Revisions)
    BY DEF Used, TypeOK
  <2>2. CASE i = e
    <3>1. LastOf(i)' = rev
      BY <1>1, <2>1, <2>2, PlacedHistory, AppendedRow DEF LastOf
    <3> QED
      BY <1>1, <1>2, <2>2, <3>1 DEF RowFollows
  <2>3. CASE i # e /\ path'[i] \in MissingAbove(p)
    <3>1. PICK r \in Revisions : /\ hist'[i] = Append(hist[i], r)
                                 /\ r.path = path'[i] /\ r.op # "delete"
      BY <2>1, <2>3, PlacedHistory
    <3>2. LastOf(i)' = r
      BY <2>1, <3>1, AppendedRow DEF LastOf
    <3> QED
      BY <1>1, <2>1, <2>3, <3>1, <3>2 DEF RowFollows
  <2>4. CASE i # e /\ path'[i] \notin MissingAbove(p)
    <3>1. i \in Used /\ path'[i] = path[i] /\ hist'[i] = hist[i]
      BY <1>2, <2>1, <2>4, PlacedHistory
    <3>2. path'[i] # p
      BY <1>2, <1>3, <2>4 DEF NamespaceUnique
    <3>3. live'[i] = live[i]
      <4>1. live[i] \in BOOLEAN
        BY <2>1 DEF TypeOK
      <4> QED
        BY <1>1, <2>1, <2>4, <3>2, <4>1
    <3>4. RowFollows(i)
      BY <3>1, FollowsRows
    <3> QED
      BY <3>1, <3>3, <3>4 DEF RowFollows, LastOf
  <2> QED
    BY <2>2, <2>3, <2>4
<1>5. RowFollowsHistory' <=> \A i \in Used' : RowFollows(i)'
  BY DEF RowFollowsHistory, RowFollows, LastOf
<1> QED
  BY <1>4, <1>5

\* Every shape keeps each row in step with its last revision.
LEMMA FollowsPreserved ==
    ASSUME TypeOK, NamespaceUnique, RowFollowsHistory, [Next]_vars
    PROVE  RowFollowsHistory'
<1>1. Shaped
  BY NextShaped
<1>2. ASSUME NEW e, NEW p, NEW ps, NEW new, NEW rev, NEW size,
             Settling(e, p, ps, new, rev, size)
      PROVE  RowFollowsHistory'
  BY <1>2, SettlingPlaces, PlacedFollows
<1>3. ASSUME NEW e, NEW p, NEW ps, NEW new, NEW rev, NEW size,
             Moving(e, p, ps, new, rev, size)
      PROVE  RowFollowsHistory'
  BY <1>3, MovingPlaces, PlacedFollows
<1>4. ASSUME NEW e \in Used, NEW rev, Sourced(rev), rev.path = path[e],
             hist' = [hist EXCEPT ![e] = Append(@, rev)],
             path' = path,
             \A i \in Ids : i # e => live'[i] = live[i],
             live'[e] <=> rev.op # "delete"
      PROVE  RowFollowsHistory'
  <2>1. /\ hist'[e][Len(hist'[e])] = rev
        /\ \A i \in Ids : i # e => hist'[i] = hist[i]
    BY <1>4, AppendTyped
  <2>2. Used' = Used
    BY <1>4 DEF Used
  <2>3. \A i \in Used : RowFollows(i)
    BY FollowsRows
  <2>4. \A i \in Used : RowFollows(i)'
    <3> SUFFICES ASSUME NEW i \in Used PROVE RowFollows(i)'
      OBVIOUS
    <3>1. CASE i = e
      BY <1>4, <2>1, <3>1 DEF RowFollows, LastOf
    <3>2. CASE i # e
      <4>1. hist'[i] = hist[i] /\ live'[i] = live[i] /\ path'[i] = path[i]
        BY <1>4, <2>1, <3>2 DEF Used
      <4> QED
        BY <2>3, <4>1 DEF RowFollows, LastOf
    <3> QED
      BY <3>1, <3>2
  <2> QED
    BY <2>2, <2>4 DEF RowFollowsHistory, RowFollows, LastOf
<1>5. ASSUME NEW e, NEW rev, Burying(e, rev) PROVE RowFollowsHistory'
  <2>1. /\ e \in Used /\ Sourced(rev) /\ rev.path = path[e] /\ rev.op = "delete"
        /\ hist' = [hist EXCEPT ![e] = Append(@, rev)]
        /\ live' = [live EXCEPT ![e] = FALSE]
        /\ path' = path
    BY <1>5 DEF Burying
  <2>2. ~live'[e] /\ \A i \in Ids : i # e => live'[i] = live[i]
    BY <2>1 DEF TypeOK, Used
  <2> QED
    BY <1>4, <2>1, <2>2
<1>6. ASSUME NEW e, NEW rev, NEW size, Amending(e, rev, size) PROVE RowFollowsHistory'
  <2>1. /\ e \in Used /\ Sourced(rev) /\ rev.path = path[e] /\ rev.op # "delete"
        /\ hist' = [hist EXCEPT ![e] = Append(@, rev)]
        /\ live' = live /\ live[e]
        /\ path' = path
    BY <1>6 DEF Amending, Amend
  <2> QED
    BY <1>4, <2>1
<1>7. CASE Linking
  BY <1>7 DEF Linking, entryVars, RowFollowsHistory, Used
<1> QED
  BY <1>1, <1>2, <1>3, <1>5, <1>6, <1>7 DEF Shaped

-----------------------------------------------------------------------------
\* The live rows are a tree.

Hangs(i) ==
    /\ parent[i] \in Ids
    /\ live[parent[i]]
    /\ path[parent[i]] = ParentOf[path[i]]

\* A placed entry and the directories revived above it hang from live directories.
LEMMA PlacedTree ==
    ASSUME TypeOK, NamespaceUnique, LiveTree,
           NEW e, NEW p, NEW ps, NEW new, NEW rev, NEW size,
           Placing(e, p, ps, new, rev, size)
    PROVE  LiveTree'
<1>1. /\ live' = [i \in Ids |-> live[i] \/ path'[i] \in MissingAbove(p) \cup {p}]
      /\ parent' = [i \in Ids |->
                       IF path'[i] \in MissingAbove(p) \cup {p}
                       THEN RowAt(path', ParentOf[path'[i]]) ELSE parent[i]]
      /\ e \in Ids /\ p \in Paths
      /\ e \in Used => path[e] = p \/ KindOf[path[e]] # "directory"
  <2>1. Publish(e, p, new, rev, size)
    BY DEF Placing
  <2>2. live' = [i \in Ids |-> live[i] \/ path'[i] \in MissingAbove(p) \cup {p}]
    BY <2>1 DEF Publish
  <2>3. parent' = [i \in Ids |->
                       IF path'[i] \in MissingAbove(p) \cup {p}
                       THEN RowAt(path', ParentOf[path'[i]]) ELSE parent[i]]
    BY <2>1 DEF Publish
  <2> QED
    BY <2>2, <2>3 DEF Placing, Placed
<1>2. /\ path'[e] = p
      /\ \A i \in DOMAIN new : path[i] = Null
      /\ \A i \in Ids : i \notin DOMAIN new /\ i # e => path'[i] = path[i]
      /\ \A i \in DOMAIN new : i # e => path'[i] \in MissingAbove(p)
  BY PlacedPaths
<1>3. NamespaceUnique'
  BY PlacedUnique
<1>4. ASSUME NEW i \in Ids, path'[i] \in MissingAbove(p) \cup {p}, path'[i] # Root
      PROVE  Hangs(i)'
  <2> DEFINE d == ParentOf[path'[i]]
  <2>1. d \in Above[p] /\ d \in Paths /\ d # Null
    BY <1>1, <1>4, PathAssumption DEF PathAssumption, MissingAbove, Directories
  <2>2. PICK j \in Ids : path'[j] = d /\ live'[j]
    BY <2>1, PlacedAbove
  <2>3. parent'[i] = RowAt(path', d)
    BY <1>1, <1>4
  <2>4. parent'[i] \in Ids /\ path'[parent'[i]] = d
    BY <2>2, <2>3 DEF RowAt
  <2>5. parent'[i] = j
    BY <1>3, <2>1, <2>2, <2>4 DEF NamespaceUnique, Used
  <2> QED
    BY <2>2, <2>4, <2>5 DEF Hangs
<1>5. ASSUME NEW i \in Ids, path'[i] \notin MissingAbove(p) \cup {p}, live'[i],
             path'[i] # Root
      PROVE  Hangs(i)'
  <2>1. live[i] /\ i # e /\ i \in Used /\ parent'[i] = parent[i]
    BY <1>1, <1>2, <1>5, RowFacts
  <2>2. path'[i] = path[i]
    BY <1>2, <1>5, <2>1
  <2>3. Hangs(i)
    BY <1>5, <2>1, <2>2 DEF LiveTree, Hangs
  <2> DEFINE j == parent[i]
  <2>4. j \in Ids /\ live[j] /\ path[j] = ParentOf[path[i]] /\ j \in Used
    BY <2>3, RowFacts DEF Hangs
  <2>5. KindOf[path[j]] = "directory"
    BY <2>1, <2>4, RowFacts, PathAssumption DEF PathAssumption, Directories
  <2>6. path'[j] = path[j]
    BY <1>1, <1>2, <2>4, <2>5 DEF Used
  <2>7. live'[j]
    BY <1>1, <2>4
  <2> QED
    BY <2>1, <2>2, <2>4, <2>6, <2>7 DEF Hangs
<1> QED
  BY <1>4, <1>5 DEF LiveTree, Hangs

\* Every shape keeps the live entries a tree.
LEMMA TreePreserved ==
    ASSUME TypeOK, NamespaceUnique, LiveTree, [Next]_vars
    PROVE  LiveTree'
<1>1. Shaped
  BY NextShaped
<1>2. ASSUME NEW e, NEW p, NEW ps, NEW new, NEW rev, NEW size,
             Settling(e, p, ps, new, rev, size) \/ Moving(e, p, ps, new, rev, size)
      PROVE  LiveTree'
  BY <1>2, SettlingPlaces, MovingPlaces, PlacedTree
<1>3. ASSUME NEW e, NEW rev, Burying(e, rev) PROVE LiveTree'
  <2>1. /\ e \in Used /\ live' = [live EXCEPT ![e] = FALSE]
        /\ path' = path /\ parent' = parent
        /\ KindOf[path[e]] = "directory" => Childless(e)
    BY <1>3 DEF Burying
  <2>2. ~live'[e] /\ \A i \in Ids : i # e => live'[i] = live[i]
    BY <2>1 DEF TypeOK, Used
  <2>3. ASSUME NEW i \in Ids, live'[i], path[i] # Root PROVE Hangs(i)'
    <3>1. live[i] /\ Hangs(i) /\ i \in Used
      BY <2>2, <2>3, RowFacts DEF LiveTree, Hangs
    <3>2. KindOf[path[parent[i]]] = "directory"
      BY <3>1, RowFacts, PathAssumption DEF Hangs, PathAssumption, Directories
    <3>3. parent[i] # e
      BY <2>1, <3>1, <3>2 DEF Childless
    <3> QED
      BY <2>1, <2>2, <3>1, <3>3 DEF Hangs
  <2> QED
    BY <2>1, <2>3 DEF LiveTree, Hangs
<1>4. CASE (\E e, rev, size : Amending(e, rev, size)) \/ Linking
  <2>1. path' = path /\ parent' = parent /\ live' = live
    BY <1>4 DEF Amending, Amend, Linking, entryVars
  <2> QED
    BY <2>1 DEF LiveTree
<1> QED
  BY <1>1, <1>2, <1>3, <1>4 DEF Shaped

-----------------------------------------------------------------------------
\* A link that works opens a live page.

\* Placing an entry leaves every granted page a live page.
LEMMA PlacedGrants ==
    ASSUME TypeOK, GrantsOpenLivePages,
           NEW e, NEW p, NEW ps, NEW new, NEW rev, NEW size,
           Placing(e, p, ps, new, rev, size), UNCHANGED grantVars
    PROVE  GrantsOpenLivePages'
<1>1. /\ live' = [i \in Ids |-> live[i] \/ path'[i] \in MissingAbove(p) \cup {p}]
      /\ e \in Used => path[e] = p \/ KindOf[path[e]] = KindOf[p]
  <2>1. Publish(e, p, new, rev, size)
    BY DEF Placing
  <2>2. live' = [i \in Ids |-> live[i] \/ path'[i] \in MissingAbove(p) \cup {p}]
    BY <2>1 DEF Publish
  <2> QED
    BY <2>2 DEF Placing, Placed
<1>2. /\ path'[e] = p
      /\ \A i \in DOMAIN new : path[i] = Null
      /\ \A i \in Ids : i \notin DOMAIN new /\ i # e => path'[i] = path[i]
  BY PlacedPaths
<1>3. ASSUME NEW i \in LiveOf("page") PROVE i \in LiveOf("page")'
  <2>1. i \in Ids /\ live[i] /\ KindOf[path[i]] = "page" /\ i \in Used
    BY RowFacts DEF LiveOf
  <2>2. live'[i]
    BY <1>1, <2>1
  <2>3. KindOf[path'[i]] = "page"
    BY <1>1, <1>2, <2>1 DEF Used
  <2> QED
    BY <2>1, <2>2, <2>3 DEF LiveOf
<1> QED
  BY <1>3 DEF GrantsOpenLivePages, grantVars

\* Every shape keeps unrevoked grants on live pages.
LEMMA GrantsPreserved ==
    ASSUME TypeOK, GrantsOpenLivePages, [Next]_vars
    PROVE  GrantsOpenLivePages'
<1>1. Shaped
  BY NextShaped
<1>2. ASSUME NEW e, NEW p, NEW ps, NEW new, NEW rev, NEW size,
             Settling(e, p, ps, new, rev, size) \/ Moving(e, p, ps, new, rev, size)
      PROVE  GrantsOpenLivePages'
  <2>1. Placing(e, p, ps, new, rev, size)
    BY <1>2, SettlingPlaces, MovingPlaces
  <2>2. UNCHANGED grantVars
    BY <1>2 DEF Settling, Moving
  <2> QED
    BY <2>1, <2>2, PlacedGrants
<1>3. ASSUME NEW e, NEW rev, Burying(e, rev) PROVE GrantsOpenLivePages'
  <2>1. /\ live' = [live EXCEPT ![e] = FALSE]
        /\ revoked' = [g \in Grants |-> revoked[g] \/ grantOf[g] = e]
        /\ path' = path /\ grantOf' = grantOf
    BY <1>3 DEF Burying, RevokeGrantsOf
  <2> SUFFICES ASSUME NEW g \in Grants, grantOf'[g] # 0, ~revoked'[g]
               PROVE  grantOf'[g] \in LiveOf("page")'
    BY DEF GrantsOpenLivePages
  <2>2. ~revoked[g] /\ grantOf[g] # e /\ grantOf[g] # 0
    BY <2>1
  <2>3. grantOf[g] \in LiveOf("page")
    BY <2>2 DEF GrantsOpenLivePages
  <2> QED
    BY <2>1, <2>2, <2>3 DEF LiveOf, TypeOK
<1>4. CASE \E e, rev, size : Amending(e, rev, size)
  <2>1. path' = path /\ live' = live /\ grantOf' = grantOf /\ revoked' = revoked
    BY <1>4 DEF Amending, Amend, grantVars
  <2> QED
    BY <2>1 DEF GrantsOpenLivePages, LiveOf
<1>5. CASE Linking
  <2>1. LiveOf("page")' = LiveOf("page")
    BY <1>5 DEF Linking, entryVars, LiveOf
  <2>2. CASE UNCHANGED <<grantOf, revoked>>
    BY <2>1, <2>2 DEF GrantsOpenLivePages
  <2>3. ASSUME NEW g \in Grants, NEW e \in LiveOf("page"),
               grantOf' = [grantOf EXCEPT ![g] = e], revoked' = revoked
        PROVE  GrantsOpenLivePages'
    BY <2>1, <2>3 DEF GrantsOpenLivePages, TypeOK
  <2>4. ASSUME NEW g \in Grants,
               revoked' = [revoked EXCEPT ![g] = TRUE], grantOf' = grantOf
        PROVE  GrantsOpenLivePages'
    BY <2>1, <2>4 DEF GrantsOpenLivePages, TypeOK
  <2> QED
    BY <1>5, <2>2, <2>3, <2>4 DEF Linking
<1> QED
  BY <1>1, <1>2, <1>3, <1>4, <1>5 DEF Shaped

-----------------------------------------------------------------------------
\* The inductive invariant and what follows from it.

TreeInv ==
    /\ TypeOK
    /\ NamespaceUnique
    /\ RedirectsYield
    /\ RowFollowsHistory
    /\ LiveTree
    /\ GrantsOpenLivePages

\* The seed of initialFilesystem satisfies the invariant.
LEMMA InitTree == ASSUME Init PROVE TreeInv
<1> DEFINE seed == <<Root, ConfigPath, IndexPath>>
           text == <<Null, SeedConfig, SeedIndex>>
           first(i) == Revision("create", seed[i], text[i], Null, Null)
<1>1. TypeOK
  BY InitTyped
<1>2. {1, 2, 3} \subseteq Ids /\ \A i \in Ids : i <= 3 => i \in {1, 2, 3}
  BY BoundAssumption DEF BoundAssumption, Ids
<1>3. /\ path = [i \in Ids |-> IF i <= 3 THEN seed[i] ELSE Null]
      /\ live = [i \in Ids |-> i <= 3]
      /\ hist = [i \in Ids |-> IF i <= 3 THEN <<first(i)>> ELSE <<>>]
      /\ parent = [i \in Ids |-> IF i \in {2, 3} THEN 1 ELSE 0]
      /\ alias = [p \in Paths |-> 0]
      /\ grantOf = [g \in Grants |-> 0]
  BY DEF Init
<1>4. Used = {1, 2, 3}
  BY <1>1, <1>2, <1>3, RowFacts, PathAssumption DEF PathAssumption, Used
<1>5. path[1] = Root /\ path[2] = ConfigPath /\ path[3] = IndexPath
  BY <1>2, <1>3
<1>6. NamespaceUnique
  <2>1. /\ Root \in Above[ConfigPath] /\ Root \in Above[IndexPath]
        /\ Root \in Paths /\ ConfigPath \in Paths /\ IndexPath \in Paths
    BY PathAssumption DEF PathAssumption
  <2>2. /\ RenderedOf[Root] # RenderedOf[ConfigPath]
        /\ RenderedOf[Root] # RenderedOf[IndexPath]
        /\ RenderedOf[ConfigPath] # RenderedOf[IndexPath]
    BY <2>1, RenderedAssumption DEF RenderedAssumption
  <2> QED
    BY <1>4, <1>5, <2>2 DEF NamespaceUnique
<1>7. RedirectsYield
  BY <1>3 DEF RedirectsYield
<1>8. RowFollowsHistory
  <2>1. ASSUME NEW i \in {1, 2, 3} PROVE RowFollows(i)
    <3>1. hist[i] = <<first(i)>> /\ path[i] = seed[i] /\ live[i]
      <4>1. i \in Ids /\ i <= 3
        BY <1>2
      <4> HIDE DEF first, seed
      <4> QED
        BY <1>3, <4>1
    <3>2. LastOf(i) = first(i)
      BY <3>1 DEF LastOf
    <3>3. first(i).path = seed[i] /\ first(i).op = "create"
      BY DEF Revision
    <3> QED
      BY <3>1, <3>2, <3>3 DEF RowFollows
  <2> QED
    BY <1>4, <2>1, FollowsRows
<1>9. LiveTree
  <2> SUFFICES ASSUME NEW i \in Ids, live[i], path[i] # Root
               PROVE  Hangs(i)
    BY DEF LiveTree, Hangs
  <2>1. i \in {2, 3}
    BY <1>2, <1>3, <1>5
  <2>2. parent[i] = 1 /\ live[1] /\ 1 \in Ids
    BY <1>2, <1>3, <2>1
  <2>3. ParentOf[path[i]] = Root
    BY <1>5, <2>1, PathAssumption DEF PathAssumption
  <2> QED
    BY <1>5, <2>2, <2>3 DEF Hangs
<1>10. GrantsOpenLivePages
  BY <1>3 DEF GrantsOpenLivePages
<1> QED
  BY <1>1, <1>6, <1>7, <1>8, <1>9, <1>10 DEF TreeInv

\* The invariant is inductive.
LEMMA TreeInvPreserved == TreeInv /\ [Next]_vars => TreeInv'
BY TypePreserved, UniquePreserved, RedirectsPreserved, FollowsPreserved,
   TreePreserved, GrantsPreserved DEF TreeInv

\* So it holds in every reachable state.
LEMMA TreeInvariant == Spec => []TreeInv
<1>1. Init => TreeInv
  BY InitTree
<1> QED
  BY <1>1, TreeInvPreserved, PTL DEF Spec

\* No mutation, in any order, ever puts two rows at one rendered path.
THEOREM NamespaceCorrect == Spec => []NamespaceUnique
<1>1. TreeInv => NamespaceUnique
  BY DEF TreeInv
<1> QED
  BY <1>1, TreeInvariant, PTL

\* No redirect ever shadows an entry.
THEOREM RedirectsCorrect == Spec => []RedirectsYield
<1>1. TreeInv => RedirectsYield
  BY DEF TreeInv
<1> QED
  BY <1>1, TreeInvariant, PTL

\* The row of an entry always agrees with its last revision.
THEOREM HistoryCorrect == Spec => []RowFollowsHistory
<1>1. TreeInv => RowFollowsHistory
  BY DEF TreeInv
<1> QED
  BY <1>1, TreeInvariant, PTL

\* Every live entry hangs from the live directory its path names.
THEOREM TreeCorrect == Spec => []LiveTree
<1>1. TreeInv => LiveTree
  BY DEF TreeInv
<1> QED
  BY <1>1, TreeInvariant, PTL

\* A link that works always opens a live page.
THEOREM GrantsCorrect == Spec => []GrantsOpenLivePages
<1>1. TreeInv => GrantsOpenLivePages
  BY DEF TreeInv
<1> QED
  BY <1>1, TreeInvariant, PTL

-----------------------------------------------------------------------------
\* Quotas of the tree.

\* The live rows of a kind.
LEMMA LiveCounted ==
    ASSUME NEW kind
    PROVE  /\ IsFiniteSet(LiveOf(kind)) /\ Cardinality(LiveOf(kind)) \in Nat
           /\ IsFiniteSet(LiveOf(kind)') /\ Cardinality(LiveOf(kind)') \in Nat
<1>1. IsFiniteSet(Ids)
  BY FS_Interval, BoundAssumption DEF Ids
<1>2. LiveOf(kind) \in SUBSET Ids /\ LiveOf(kind)' \in SUBSET Ids
  BY DEF LiveOf
<1> QED
  BY <1>1, <1>2, FS_Subset, FS_CardinalityType

\* Fewer live rows of a kind are within its quota still.
LEMMA FewerLive ==
    ASSUME NEW kind, LiveOf(kind)' \subseteq LiveOf(kind)
    PROVE  Cardinality(LiveOf(kind)') <= Cardinality(LiveOf(kind))
BY LiveCounted, FS_Subset

\* Rows come to be live only at the directories of dirs, one at each.
LEMMA DirectoriesAdded ==
    ASSUME NamespaceUnique', TypeOK', NEW dirs \in SUBSET Paths,
           \A i \in LiveOf("directory")' : i \in LiveOf("directory") \/ path'[i] \in dirs,
           CheckDirectoryQuota(dirs), TreeWithinQuota
    PROVE  Cardinality(LiveOf("directory")') - 1 <= MaxDirectories
<1> DEFINE old == LiveOf("directory")
           G == {i \in LiveOf("directory")' : path'[i] \in dirs}
           f == [i \in G |-> path'[i]]
<1>1. IsFiniteSet(dirs) /\ Cardinality(dirs) \in Nat
  BY PathAssumption, FS_Subset, FS_CardinalityType
<1>2. f \in Injection(G, dirs)
  <2>1. \A i \in G : i \in Used' /\ path'[i] \in Paths
    BY PathAssumption DEF LiveOf, Used
  <2>2. \A i, j \in G : path'[i] = path'[j] => i = j
    BY <2>1 DEF NamespaceUnique
  <2> QED
    BY <2>2 DEF Injection, IsInjective
<1>3. IsFiniteSet(G) /\ Cardinality(G) <= Cardinality(dirs) /\ Cardinality(G) \in Nat
  BY <1>1, <1>2, FS_Injection, FS_CardinalityType
<1>4. LiveOf("directory")' \subseteq old \cup G
  OBVIOUS
<1>5. IsFiniteSet(old) /\ Cardinality(old) \in Nat /\ Cardinality(LiveOf("directory")') \in Nat
  BY LiveCounted
<1> HIDE DEF old, G
<1>6. /\ IsFiniteSet(old \cup G)
      /\ Cardinality(old \cup G)
            = Cardinality(old) + Cardinality(G) - Cardinality(old \cap G)
  BY <1>3, <1>5, FS_Union
<1>7. Cardinality(old \cap G) \in Nat
  BY <1>3, FS_Subset, FS_CardinalityType
<1>8. Cardinality(LiveOf("directory")') <= Cardinality(old \cup G)
  BY <1>4, <1>6, FS_Subset
<1>9. Cardinality(LiveOf("directory")') <= Cardinality(old) + Cardinality(dirs)
  <2>1. Cardinality(old \cup G) \in Nat
    BY <1>6, FS_CardinalityType
  <2> QED
    BY <1>1, <1>3, <1>5, <1>6, <1>7, <1>8, <2>1
<1>10. CASE dirs = {}
  <2>1. Cardinality(dirs) = 0
    BY <1>10, FS_EmptySet
  <2> QED
    BY <1>5, <1>9, <2>1, BoundAssumption DEF TreeWithinQuota, old
<1>11. CASE dirs # {}
  BY <1>1, <1>5, <1>9, <1>11, BoundAssumption DEF CheckDirectoryQuota, old
<1> QED
  BY <1>10, <1>11

\* What is live after Publish.
LEMMA PlacedLive ==
    ASSUME TypeOK, NamespaceUnique', NEW e, NEW p, NEW ps, NEW new, NEW rev, NEW size,
           Placing(e, p, ps, new, rev, size), NEW i \in Ids, live'[i], i # e
    PROVE  \/ live[i] /\ path'[i] = path[i]
           \/ path'[i] \in MissingAbove(p) /\ KindOf[path'[i]] = "directory"
<1>1. live[i] \/ path'[i] \in MissingAbove(p) \cup {p}
  BY DEF Placing, Publish
<1>2. /\ \A j \in DOMAIN new : j # e => path'[j] \in MissingAbove(p)
      /\ \A j \in Ids : j \notin DOMAIN new /\ j # e => path'[j] = path[j]
  BY PlacedPaths
<1>3. \A q \in MissingAbove(p) : KindOf[q] = "directory"
  BY PathAssumption DEF MissingAbove, Directories, Placing, Placed
<1>4. CASE i \notin DOMAIN new /\ ~live[i] /\ path'[i] = p
  <2>1. e \in Used' /\ path'[e] = p
    BY PlacedPaths
  <2>3. p \in Paths
    BY DEF Placing, Placed
  <2>2. i \in Used'
    BY <1>4, <2>3, PathAssumption DEF Used
  <2> QED
    BY <1>4, <2>1, <2>2 DEF NamespaceUnique
<1> QED
  BY <1>1, <1>2, <1>3, <1>4

LEMMA QuotaPreserved ==
    ASSUME TreeInv, TreeInv', TreeWithinQuota, [Next]_vars
    PROVE  TreeWithinQuota'
<1>0. TypeOK /\ TypeOK' /\ NamespaceUnique' /\ NamespaceUnique /\ Shaped
  BY NextShaped DEF TreeInv
<1>1. /\ Cardinality(LiveOf("page")) <= MaxPages
      /\ Cardinality(LiveOf("directory")) - 1 <= MaxDirectories
  BY DEF TreeWithinQuota
<1>2. /\ Cardinality(LiveOf("page")) \in Nat /\ Cardinality(LiveOf("page")') \in Nat
      /\ Cardinality(LiveOf("directory")) \in Nat
      /\ Cardinality(LiveOf("directory")') \in Nat
      /\ MaxPages \in Nat /\ MaxDirectories \in Nat
  BY LiveCounted, BoundAssumption
<1>3. ASSUME LiveOf("page")' \subseteq LiveOf("page"),
             LiveOf("directory")' \subseteq LiveOf("directory")
      PROVE  TreeWithinQuota'
  BY <1>1, <1>2, <1>3, FewerLive DEF TreeWithinQuota
<1>4. ASSUME NEW e, NEW p, NEW ps, NEW new, NEW rev, NEW size,
             Settling(e, p, ps, new, rev, size)
      PROVE  TreeWithinQuota'
  <2> DEFINE dirs == MissingAbove(p) \cup (IF KindOf[p] = "directory" THEN {p} ELSE {})
  <2>0. Placing(e, p, ps, new, rev, size)
    BY <1>0, <1>4, SettlingPlaces
  <2>1. p \in Paths /\ e \in Ids /\ path'[e] = p
    <3>1. path'[e] = p
      BY <1>0, <2>0, PlacedPaths
    <3> QED
      BY <2>0, <3>1 DEF Placing, Placed
  <2>2. ASSUME NEW i \in Ids, live'[i], i # e
        PROVE  \/ live[i] /\ path'[i] = path[i]
               \/ path'[i] \in MissingAbove(p) /\ KindOf[path'[i]] = "directory"
    BY <1>0, <2>0, <2>2, PlacedLive
  <2>3. Cardinality(LiveOf("page")') <= MaxPages
    <3>1. CASE KindOf[p] = "page"
      <4>1. LiveOf("page")' \subseteq LiveOf("page") \cup {e}
        BY <2>2 DEF LiveOf
      <4>2. Cardinality(LiveOf("page")) < MaxPages
        BY <1>4, <3>1 DEF Settling, Afforded, CheckPageQuota
      <4>3. /\ IsFiniteSet(LiveOf("page") \cup {e})
            /\ Cardinality(LiveOf("page") \cup {e}) <= Cardinality(LiveOf("page")) + 1
        <5>1. IsFiniteSet(LiveOf("page"))
          BY LiveCounted
        <5>2. /\ IsFiniteSet(LiveOf("page") \cup {e})
              /\ Cardinality(LiveOf("page") \cup {e})
                    = IF e \in LiveOf("page") THEN Cardinality(LiveOf("page"))
                      ELSE Cardinality(LiveOf("page")) + 1
          BY <5>1, FS_AddElement
        <5> QED
          BY <1>2, <5>2
      <4>4. Cardinality(LiveOf("page")') <= Cardinality(LiveOf("page") \cup {e})
        BY <4>1, <4>3, FS_Subset
      <4>5. Cardinality(LiveOf("page") \cup {e}) \in Nat
        BY <4>3, FS_CardinalityType
      <4> QED
        BY <1>2, <4>2, <4>3, <4>4, <4>5
    <3>2. CASE KindOf[p] # "page"
      <4>1. LiveOf("page")' \subseteq LiveOf("page")
        BY <2>1, <2>2, <3>2 DEF LiveOf
      <4> QED
        BY <1>1, <1>2, <4>1, FewerLive
    <3> QED
      BY <3>1, <3>2
  <2>4. CheckDirectoryQuota(dirs)
    <3>1. CheckDirectoryQuota(MissingAbove(p))
      BY <1>4 DEF Settling, Publish
    <3>2. KindOf[p] = "directory" => CheckDirectoryQuota(MissingAbove(p) \cup {p})
      BY <1>4 DEF Settling, Afforded
    <3>3. CASE KindOf[p] = "directory"
      BY <3>2, <3>3
    <3>4. CASE KindOf[p] # "directory"
      <4>1. dirs = MissingAbove(p)
        BY <3>4
      <4> HIDE DEF dirs
      <4> QED
        BY <3>1, <4>1
    <3> QED
      BY <3>3, <3>4
  <2>5. \A i \in LiveOf("directory")' : i \in LiveOf("directory") \/ path'[i] \in dirs
    BY <2>1, <2>2 DEF LiveOf
  <2>6. dirs \in SUBSET Paths
    BY <2>1, PathAssumption DEF MissingAbove, Directories
  <2> HIDE DEF dirs
  <2>7. Cardinality(LiveOf("directory")') - 1 <= MaxDirectories
    BY <1>0, <2>4, <2>5, <2>6, DirectoriesAdded
  <2> QED
    BY <2>3, <2>7 DEF TreeWithinQuota
<1>5. ASSUME NEW e, NEW p, NEW ps, NEW new, NEW rev, NEW size,
             Moving(e, p, ps, new, rev, size)
      PROVE  TreeWithinQuota'
  <2>0. Placing(e, p, ps, new, rev, size)
    BY <1>0, <1>5, MovingPlaces
  <2>1. /\ p \in Paths /\ e \in Ids /\ path'[e] = p
        /\ live[e] /\ KindOf[path[e]] = KindOf[p] /\ KindOf[p] # "directory"
    BY <1>0, <1>5, <2>0, PlacedPaths DEF Moving, Placed
  <2>2. ASSUME NEW i \in Ids, live'[i], i # e
        PROVE  \/ live[i] /\ path'[i] = path[i]
               \/ path'[i] \in MissingAbove(p) /\ KindOf[path'[i]] = "directory"
    BY <1>0, <2>0, <2>2, PlacedLive
  <2>3. LiveOf("page")' \subseteq LiveOf("page")
    BY <2>1, <2>2 DEF LiveOf
  <2>4. CheckDirectoryQuota(MissingAbove(p)) /\ MissingAbove(p) \in SUBSET Paths
    BY <1>5, <2>1, PathAssumption DEF Moving, Publish, MissingAbove, Directories
  <2>5. \A i \in LiveOf("directory")' :
           i \in LiveOf("directory") \/ path'[i] \in MissingAbove(p)
    BY <2>1, <2>2 DEF LiveOf
  <2>6. Cardinality(LiveOf("directory")') - 1 <= MaxDirectories
    BY <1>0, <2>4, <2>5, DirectoriesAdded
  <2> QED
    BY <1>1, <1>2, <2>3, <2>6, FewerLive DEF TreeWithinQuota
<1>6. ASSUME NEW e, NEW rev, Burying(e, rev) PROVE TreeWithinQuota'
  <2>1. \A i \in Ids : live'[i] => live[i]
    BY <1>0, <1>6 DEF Burying, TypeOK
  <2>2. path' = path
    BY <1>6 DEF Burying
  <2> QED
    BY <1>3, <2>1, <2>2 DEF LiveOf
<1>7. ASSUME UNCHANGED <<path, live>> PROVE TreeWithinQuota'
  BY <1>3, <1>7 DEF LiveOf
<1>8. ASSUME NEW e, NEW rev, NEW size, Amending(e, rev, size) PROVE UNCHANGED <<path, live>>
  BY <1>8 DEF Amending, Amend
<1>9. Linking => UNCHANGED <<path, live>>
  BY DEF Linking, entryVars
<1> QED
  BY <1>0, <1>4, <1>5, <1>6, <1>7, <1>8, <1>9 DEF Shaped

LEMMA QuotaInitially == Init => TreeWithinQuota
<1> SUFFICES ASSUME Init PROVE TreeWithinQuota
  OBVIOUS
<1>1. {1, 2, 3} \subseteq Ids /\ \A i \in Ids : i <= 3 => i \in {1, 2, 3}
  BY BoundAssumption DEF Ids
<1>2. path[1] = Root /\ path[2] = ConfigPath /\ path[3] = IndexPath
      /\ \A i \in Ids : live[i] <=> i \in {1, 2, 3}
  <2>1. 1 \in Ids /\ 2 \in Ids /\ 3 \in Ids
    BY <1>1
  <2>2. path[1] = Root /\ path[2] = ConfigPath /\ path[3] = IndexPath
    BY <2>1 DEF Init
  <2>3. \A i \in Ids : live[i] <=> i <= 3
    BY DEF Init
  <2> QED
    BY <1>1, <2>2, <2>3
<1>3. LiveOf("page") = {3} /\ LiveOf("directory") = {1}
  BY <1>1, <1>2, PathAssumption DEF LiveOf
<1>4. Cardinality({3}) = 1 /\ Cardinality({1}) = 1
  BY FS_Singleton
<1> QED
  BY <1>3, <1>4, BoundAssumption DEF TreeWithinQuota

\* Live pages and directories stay within their quotas, however many of them a
\* request creates or revives at once (checkPageQuota, checkDirectoryQuota).
THEOREM QuotaCorrect == Spec => []TreeWithinQuota
<1>1. TreeInv /\ TreeInv' /\ TreeWithinQuota /\ [Next]_vars => TreeWithinQuota'
  BY QuotaPreserved
<1> QED
  BY <1>1, QuotaInitially, TreeInvariant, PTL DEF Spec

-----------------------------------------------------------------------------
\* Action properties that follow from the shapes.

\* Only a deletion and the operations on links touch the links.
LEMMA LinksUntouched ==
    ASSUME Shaped, \A e, rev : ~Burying(e, rev), ~Linking
    PROVE  UNCHANGED grantVars
<1>1. ASSUME NEW e, NEW p, NEW ps, NEW new, NEW rev, NEW size,
             Settling(e, p, ps, new, rev, size)
      PROVE  UNCHANGED grantVars
  BY <1>1 DEF Settling
<1>2. ASSUME NEW e, NEW p, NEW ps, NEW new, NEW rev, NEW size,
             Moving(e, p, ps, new, rev, size)
      PROVE  UNCHANGED grantVars
  BY <1>2 DEF Moving
<1>3. ASSUME NEW e, NEW rev, NEW size, Amending(e, rev, size) PROVE UNCHANGED grantVars
  BY <1>3 DEF Amending
<1> QED
  BY <1>1, <1>2, <1>3 DEF Shaped

\* A revoked link stays revoked and a link keeps its document.
LEMMA ShapedKeepsRevocation ==
    ASSUME TypeOK, Shaped
    PROVE  \A g \in Grants :
              /\ revoked[g] => revoked'[g]
              /\ grantOf[g] # 0 => grantOf'[g] = grantOf[g]
<1>1. CASE UNCHANGED grantVars
  BY <1>1 DEF grantVars
<1>2. ASSUME NEW e, NEW rev, Burying(e, rev)
      PROVE  \A g \in Grants :
                /\ revoked[g] => revoked'[g]
                /\ grantOf[g] # 0 => grantOf'[g] = grantOf[g]
  BY <1>2 DEF Burying, RevokeGrantsOf
<1>3. CASE Linking
  BY <1>3 DEF Linking, TypeOK
<1> QED
  BY <1>1, <1>2, <1>3, LinksUntouched

\* Revocation is permanent, whatever is restored, moved or shared again.
THEOREM RevocationHolds == Spec => RevocationIsFinal
<1>1. TypeOK /\ [Next]_vars =>
        [\A g \in Grants :
            /\ revoked[g] => revoked'[g]
            /\ grantOf[g] # 0 => grantOf'[g] = grantOf[g]]_vars
  BY NextShaped, ShapedKeepsRevocation
<1> QED
  BY <1>1, TypeCorrect, PTL DEF Spec, RevocationIsFinal

\* No step that writes a revision approves an image.
LEMMA ShapedApprovesApart ==
    ASSUME Shaped, hist' # hist
    PROVE  allowed' = allowed
<1>1. ASSUME NEW e, NEW rev, Burying(e, rev) PROVE allowed' = allowed
  BY <1>1 DEF Burying
<1>2. ~Linking
  BY DEF Linking, entryVars
<1> QED
  BY <1>1, <1>2, LinksUntouched DEF grantVars

\* Editing a document, through a link or not, approves no new image.
THEOREM EditsApproveNothing == Spec => OnlyOwnersApproveAssets
<1>1. TypeOK /\ [Next]_vars =>
        [hist' # hist => \A g \in Grants : allowed'[g] \subseteq allowed[g]]_vars
  BY NextShaped, ShapedApprovesApart
<1> QED
  BY <1>1, TypeCorrect, PTL DEF Spec, OnlyOwnersApproveAssets

-----------------------------------------------------------------------------
\* How histories grow: by one revision at a time, and only a move takes a row
\* to another path.

Grows(i) ==
    \/ hist'[i] = hist[i] /\ (i \in Used => path'[i] = path[i])
    \/ \E r \in Revisions :
          /\ hist'[i] = Append(hist[i], r)
          /\ i \in Used /\ path'[i] # path[i] => r.op = "move"

LEMMA PlacingGrows ==
    ASSUME TypeOK, NEW e, NEW p, NEW ps, NEW new, NEW rev, NEW size,
           Placing(e, p, ps, new, rev, size),
           e \in Used /\ path[e] # p => rev.op = "move"
    PROVE  \A i \in Ids : Grows(i)
<1>0. path'[e] = p
  BY PlacedPaths
<1>1. path'[e] = p /\ rev \in Revisions
  BY <1>0 DEF Placing, Sourced
<1>2. \A i \in Ids : i \in Used /\ i # e => path'[i] = path[i]
  BY PlacedPaths DEF Used
<1>3. ASSUME NEW i \in Ids PROVE Grows(i)
  <2>1. CASE i = e
    <3>1. hist'[e] = Append(hist[e], rev)
      BY PlacedHistory
    <3> QED
      BY <1>1, <2>1, <3>1 DEF Grows
  <2>2. CASE i # e /\ path'[i] \in MissingAbove(p)
    <3>1. PICK r \in Revisions : hist'[i] = Append(hist[i], r)
      BY <2>2, PlacedHistory
    <3> QED
      BY <1>2, <2>2, <3>1 DEF Grows
  <2>3. CASE i # e /\ path'[i] \notin MissingAbove(p)
    <3>1. hist'[i] = hist[i]
      BY <2>3, PlacedHistory
    <3> QED
      BY <1>2, <2>3, <3>1 DEF Grows
  <2> QED
    BY <2>1, <2>2, <2>3
<1> QED
  BY <1>3

LEMMA HistoriesGrow ==
    ASSUME TypeOK, [Next]_vars
    PROVE  \A i \in Ids : Grows(i)
<1>1. Shaped
  BY NextShaped
<1>2. ASSUME NEW e, NEW p, NEW ps, NEW new, NEW rev, NEW size,
             Settling(e, p, ps, new, rev, size)
      PROVE  \A i \in Ids : Grows(i)
  <2>1. e \in Used => path[e] = p
    BY <1>2 DEF Settling
  <2>2. Placing(e, p, ps, new, rev, size)
    BY <1>2, SettlingPlaces
  <2> QED
    BY <2>1, <2>2, PlacingGrows
<1>3. ASSUME NEW e, NEW p, NEW ps, NEW new, NEW rev, NEW size,
             Moving(e, p, ps, new, rev, size)
      PROVE  \A i \in Ids : Grows(i)
  <2>1. rev.op = "move"
    BY <1>3 DEF Moving
  <2>2. Placing(e, p, ps, new, rev, size)
    BY <1>3, MovingPlaces
  <2> QED
    BY <2>1, <2>2, PlacingGrows
<1>4. ASSUME NEW e \in Ids, NEW rev \in Revisions, path' = path,
             hist' = [hist EXCEPT ![e] = Append(@, rev)]
      PROVE  \A i \in Ids : Grows(i)
  BY <1>4 DEF Grows, TypeOK
<1>5. ASSUME NEW e, NEW rev, Burying(e, rev) PROVE \A i \in Ids : Grows(i)
  BY <1>4, <1>5 DEF Burying, Sourced, Used
<1>6. ASSUME NEW e, NEW rev, NEW size, Amending(e, rev, size)
      PROVE  \A i \in Ids : Grows(i)
  BY <1>4, <1>6 DEF Amending, Amend, Sourced, Used
<1>7. CASE Linking
  BY <1>7 DEF Linking, entryVars, Grows
<1> QED
  BY <1>1, <1>2, <1>3, <1>5, <1>6, <1>7 DEF Shaped

-----------------------------------------------------------------------------
\* Whose revisions a mutation appends.

\* One row a path: that of a live or deleted entry.
LEMMA OneRowAPath ==
    ASSUME TreeInv, NEW i \in Used, NEW j \in Used, path[i] = path[j]
    PROVE  i = j
BY DEF TreeInv, NamespaceUnique

\* A revision made through a link is an edit of the link's own document.
ByItsLink(i, r) ==
    /\ r.by \in Grants /\ grantOf[r.by] = i /\ ~revoked[r.by]
    /\ r.op = "update" /\ path'[i] = path[i]

\* Row i gets a revision with the key of the request, or none.
Adds(i, k) ==
    \/ hist'[i] = hist[i]
    \/ \E r \in Revisions :
          /\ hist'[i] = Append(hist[i], r)
          /\ r.key = k /\ (r.by = Null \/ ByItsLink(i, r))

\* Publish appends for nobody's link, under one key.
LEMMA PublishAdds ==
    ASSUME TypeOK, NEW e, NEW p \in Paths, NEW new, NEW rev \in Revisions, NEW size,
           NEW k \in Keys \cup {Null}, rev.key = k, rev.by = Null,
           Publish(e, p, new, rev, size)
    PROVE  \A i \in Ids : Adds(i, k)
<1>1. ASSUME NEW i \in Ids, i # e, path'[i] \in MissingAbove(p)
      PROVE  Adds(i, k)
  <2>1. path'[i] \in Paths
    BY <1>1, PathAssumption DEF MissingAbove, Directories
  <2> DEFINE op == IF i \in DOMAIN new THEN "create" ELSE "restore"
             r == Revision(op, path'[i], Null, Null, rev.key)
  <2>2. op \in Operations
    BY DEF Operations
  <2>3. r \in Revisions
    BY <2>1, <2>2, RevisionType
  <2>4. hist'[i] = Append(hist[i], r)
    BY <1>1 DEF Publish
  <2>5. r.key = k /\ r.by = Null
    BY DEF Revision
  <2> QED
    BY <2>3, <2>4, <2>5 DEF Adds
<1>2. ASSUME NEW i \in Ids, i = e PROVE Adds(i, k)
  <2>1. hist'[i] = Append(hist[i], rev)
    BY <1>2 DEF Publish
  <2> QED
    BY <2>1 DEF Adds
<1>3. ASSUME NEW i \in Ids, i # e, path'[i] \notin MissingAbove(p) PROVE Adds(i, k)
  <2>1. hist'[i] = hist[i]
    BY <1>3 DEF Publish
  <2> QED
    BY <2>1 DEF Adds
<1> QED
  BY <1>1, <1>2, <1>3

\* So does a revision in place.
LEMMA AppendAdds ==
    ASSUME TypeOK, NEW e \in Ids, NEW rev \in Revisions, NEW k, rev.key = k,
           rev.by = Null \/ ByItsLink(e, rev),
           hist' = [hist EXCEPT ![e] = Append(@, rev)]
    PROVE  \A i \in Ids : Adds(i, k)
BY DEF Adds, TypeOK

\* One lemma for the operations that publish under the key they are sent with.
LEMMA WriteAdds ==
    ASSUME TypeOK, NEW k \in Keys \cup {Null}, NEW p \in Paths, NEW c \in Contents,
           WriteCreate(k, p, c) \/ PutAssetNew(k, p, c)
    PROVE  \A i \in Ids : Adds(i, k)
<1> DEFINE r == Revision("create", p, c, Null, k)
<1>1. r \in Revisions /\ r.key = k /\ r.by = Null
  BY RevisionType DEF Operations, Revision
<1>2. \E new, e, size : Publish(e, p, new, r, size)
  BY DEF WriteCreate, PutAssetNew
<1> HIDE DEF r
<1> QED
  BY <1>1, <1>2, PublishAdds

LEMMA ReviveAdds ==
    ASSUME TypeOK, NEW k \in Keys \cup {Null}, NEW e \in Used, NEW c \in Contents, NEW x,
           WriteRevive(k, e, c, x)
    PROVE  \A i \in Ids : Adds(i, k)
<1>0. path[e] \in Paths
  BY RowFacts
<1> DEFINE r == Revision("restore", path[e], c, Null, k)
<1>1. r \in Revisions /\ r.key = k /\ r.by = Null
  BY <1>0, RevisionType DEF Operations, Revision
<1>2. \E new, size : Publish(e, path[e], new, r, size)
  BY DEF WriteRevive
<1> HIDE DEF r
<1> QED
  BY <1>0, <1>1, <1>2, PublishAdds

LEMMA MkdirAdds ==
    ASSUME TypeOK, NEW k \in Keys \cup {Null}, NEW d \in Directories, Mkdir(k, d)
    PROVE  \A i \in Ids : Adds(i, k)
<1>0. d \in Paths
  BY DEF Directories
<1> DEFINE op == IF d \in TakenPaths THEN "restore" ELSE "create"
           r == Revision(op, d, Null, Null, k)
<1>1. r \in Revisions /\ r.key = k /\ r.by = Null
  <2>1. op \in Operations
    BY DEF Operations
  <2> QED
    BY <1>0, <2>1, RevisionType DEF Revision
<1>2. CASE UNCHANGED entryVars
  BY <1>2 DEF entryVars, Adds
<1>3. CASE \E new, e : Publish(e, d, new, r, 0)
  <2> HIDE DEF r
  <2> QED
    BY <1>0, <1>1, <1>3, PublishAdds
<1> QED
  BY <1>2, <1>3 DEF Mkdir

LEMMA MoveAdds ==
    ASSUME TypeOK, NEW k \in Keys \cup {Null}, NEW e \in Used, NEW q \in Paths, NEW x,
           Move(k, e, q, x)
    PROVE  \A i \in Ids : Adds(i, k)
<1>0. path[e] \in Paths /\ CurrentContent(e) \in Contents \cup {Null}
  BY RowFacts
<1> DEFINE c == IF KindOf[q] = "page" THEN Relinked(CurrentContent(e), path[e], q)
                ELSE CurrentContent(e)
           r == Revision("move", q, c, Null, k)
<1>1. c \in Contents \cup {Null}
  <2>1. CASE KindOf[q] = "page"
    <3>1. KindOf[path[e]] # "directory"
      BY <2>1 DEF Move
    <3>2. CurrentContent(e) \in Contents
      BY <1>0, <3>1, RowFacts
    <3> QED
      BY <1>0, <2>1, <3>2, ContentAssumption
  <2> QED
    BY <1>0, <2>1
<1>2. r \in Revisions /\ r.key = k /\ r.by = Null
  <2> HIDE DEF c
  <2> QED
    BY <1>1, RevisionType DEF Operations, Revision
<1>3. \E new, size : Publish(e, q, new, r, size)
  BY DEF Move
<1> HIDE DEF r
<1> QED
  BY <1>2, <1>3, PublishAdds

LEMMA DeleteAdds ==
    ASSUME TypeOK, NEW k \in Keys \cup {Null}, NEW e \in Used, NEW x, Delete(k, e, x)
    PROVE  \A i \in Ids : Adds(i, k)
<1>0. e \in Ids /\ path[e] \in Paths /\ CurrentContent(e) \in Contents \cup {Null}
  BY RowFacts
<1> DEFINE r == Revision("delete", path[e], CurrentContent(e), Null, k)
<1>1. r \in Revisions /\ r.key = k /\ r.by = Null
  BY <1>0, RevisionType DEF Operations, Revision
<1>2. hist' = [hist EXCEPT ![e] = Append(@, r)]
  BY DEF Delete, Bury
<1> HIDE DEF r
<1> QED
  BY <1>0, <1>1, <1>2, AppendAdds

LEMMA RestoreAdds ==
    ASSUME TypeOK, NEW k \in Keys \cup {Null}, NEW e \in Used, NEW n, NEW x,
           Restore(k, e, n, x)
    PROVE  \A i \in Ids : Adds(i, k)
<1>0. e \in Ids /\ path[e] \in Paths /\ hist[e] \in Seq(Revisions)
  BY RowFacts
<1> DEFINE c == hist[e][n].content
           r == Revision("restore", path[e], c, Null, k)
<1>1. c \in Contents \cup {Null}
  <2>1. n \in 1..Len(hist[e])
    BY DEF Restore
  <2>2. hist[e][n] \in Revisions
    BY <1>0, <2>1
  <2> QED
    BY <2>2 DEF Revisions
<1>2. r \in Revisions /\ r.key = k /\ r.by = Null
  <2> HIDE DEF c
  <2> QED
    BY <1>0, <1>1, RevisionType DEF Operations, Revision
<1>3. \/ hist' = [hist EXCEPT ![e] = Append(@, r)]
      \/ \E new, size : Publish(e, path[e], new, r, size)
  BY DEF Restore, Amend
<1> HIDE DEF r
<1> QED
  BY <1>0, <1>2, <1>3, PublishAdds, AppendAdds

LEMMA ReplaceAdds ==
    ASSUME TypeOK, NEW k \in Keys \cup {Null}, NEW e \in Used, NEW c \in Contents, NEW x,
           PutAssetReplace(k, e, c, x)
    PROVE  \A i \in Ids : Adds(i, k)
<1>0. e \in Ids /\ path[e] \in Paths
  BY RowFacts
<1> DEFINE r == Revision("update", path[e], c, Null, k)
<1>1. r \in Revisions /\ r.key = k /\ r.by = Null
  BY <1>0, RevisionType DEF Operations, Revision
<1>2. hist' = [hist EXCEPT ![e] = Append(@, r)]
  BY DEF PutAssetReplace, Amend
<1> HIDE DEF r
<1> QED
  BY <1>0, <1>1, <1>2, AppendAdds

\* Through a link, the row found at the path of the request is the document of
\* the link: both are live rows with that path.
LEMMA UpdateAdds ==
    ASSUME TreeInv, NEW by \in Grants \cup {Null}, NEW k \in Keys \cup {Null},
           NEW p \in Paths, NEW c \in Contents, NEW x, WriteUpdate(by, k, p, c, x)
    PROVE  \A i \in Ids : Adds(i, k)
<1>0. TypeOK
  BY DEF TreeInv
<1> DEFINE r == Revision("update", p, c, by, k)
<1>1. r \in Revisions /\ r.key = k /\ r.by = by /\ r.op = "update"
  BY RevisionType DEF Operations, Revision
<1> HIDE DEF r
<1>2. CASE UNCHANGED entryVars
  BY <1>2 DEF entryVars, Adds
<1>3. ASSUME NEW e \in Ids, live[e], path[e] = p, Amend(e, r, SizeOf[c])
      PROVE  \A i \in Ids : Adds(i, k)
  <2>1. hist' = [hist EXCEPT ![e] = Append(@, r)] /\ path' = path
    BY <1>3 DEF Amend
  <2>2. CASE by \in Grants
    <3>1. /\ grantOf[by] # 0 /\ ~revoked[by]
          /\ live[grantOf[by]] /\ path[grantOf[by]] = p
      BY <2>2, PathAssumption DEF WriteUpdate, ShareMayWrite
    <3>2. grantOf[by] \in Used /\ e \in Used
      <4>1. grantOf[by] \in Ids
        BY <1>0, <2>2, <3>1 DEF TypeOK
      <4> QED
        BY <1>0, <1>3, <3>1, <4>1, RowFacts
    <3>3. grantOf[by] = e
      BY <1>3, <3>1, <3>2, OneRowAPath
    <3>4. ByItsLink(e, r)
      BY <1>1, <2>1, <2>2, <3>1, <3>3 DEF ByItsLink
    <3> QED
      BY <1>0, <1>1, <2>1, <3>4, AppendAdds
  <2>3. CASE by = Null
    BY <1>0, <1>1, <2>1, <2>3, AppendAdds
  <2> QED
    BY <2>2, <2>3
<1> QED
  BY <1>2, <1>3 DEF WriteUpdate, r

\* A mutation appends under its own key, and spends it.
LEMMA MutationAdds ==
    ASSUME TreeInv, NEW k \in Keys \cup {Null}, Mutation(k)
    PROVE  SaveReceipt(k) /\ \A i \in Ids : Adds(i, k)
<1>0. TypeOK
  BY DEF TreeInv
<1>1. CASE \E p \in Paths, c \in Contents : WriteCreate(k, p, c) \/ PutAssetNew(k, p, c)
  BY <1>0, <1>1, WriteAdds DEF WriteCreate, PutAssetNew
<1>2. CASE \E d \in Directories : Mkdir(k, d)
  BY <1>0, <1>2, MkdirAdds DEF Mkdir
<1>3. ASSUME NEW e \in Used, NEW x, MutationOf(k, e, x)
      PROVE  SaveReceipt(k) /\ \A i \in Ids : Adds(i, k)
  <2>1. \A p \in PathsHeld(e) : p \in Paths
    <3>1. \A n \in 1..Len(hist[e]) : hist[e][n] \in Revisions
      BY <1>0, RowFacts
    <3> QED
      BY <3>1 DEF PathsHeld, Revisions
  <2>2. CASE \E c \in Contents : WriteRevive(k, e, c, x)
    BY <1>0, <2>2, ReviveAdds DEF WriteRevive
  <2>3. CASE \E c \in Contents, p \in PathsHeld(e), by \in Grants \cup {Null} :
               WriteUpdate(by, k, p, c, x)
    BY <2>1, <2>3, UpdateAdds DEF WriteUpdate
  <2>4. CASE \E q \in Paths : Move(k, e, q, x)
    BY <1>0, <2>4, MoveAdds DEF Move
  <2>5. CASE Delete(k, e, x)
    BY <1>0, <2>5, DeleteAdds DEF Delete
  <2>6. CASE \E n \in 1..CurrentRevision(e) : Restore(k, e, n, x)
    BY <1>0, <2>6, RestoreAdds DEF Restore
  <2>7. CASE \E c \in Contents : PutAssetReplace(k, e, c, x)
    BY <1>0, <2>7, ReplaceAdds DEF PutAssetReplace
  <2> QED
    BY <1>3, <2>2, <2>3, <2>4, <2>5, <2>6, <2>7 DEF MutationOf
<1> QED
  BY <1>1, <1>2, <1>3 DEF Mutation

\* What was appended to a row is the one revision it was given.
LEMMA AppendedOne ==
    ASSUME TypeOK, NEW i \in Ids, NEW n \in Appended(i), NEW k, Adds(i, k)
    PROVE  /\ hist'[i][n].key = k
           /\ hist'[i][n].by = Null \/ ByItsLink(i, hist'[i][n])
<1>1. hist[i] \in Seq(Revisions)
  BY DEF TypeOK
<1>2. hist'[i] # hist[i]
  BY <1>1 DEF Appended
<1>3. PICK r \in Revisions :
         /\ hist'[i] = Append(hist[i], r)
         /\ r.key = k /\ (r.by = Null \/ ByItsLink(i, r))
  BY <1>2 DEF Adds
<1>4. n = Len(hist[i]) + 1 /\ hist'[i][n] = r
  BY <1>1, <1>3 DEF Appended
<1> QED
  BY <1>3, <1>4

\* The other steps append nothing.
LEMMA OnlyMutationsAppend ==
    ASSUME [Next]_vars, hist' # hist
    PROVE  \E k \in Keys \cup {Null} : Mutation(k)
BY DEF Next, CreateShareGrant, RefreshShareGrantAssets, RevokeShareGrant, ExpireReceipt,
       entryVars, vars

\* A step through a link edits the document of the link, and leaves it there.
LEMMA LinksEditTheirs ==
    ASSUME TreeInv, [Next]_vars, NEW i \in Ids, NEW n \in Appended(i),
           hist'[i][n].by # Null
    PROVE  ByItsLink(i, hist'[i][n])
<1>0. TypeOK /\ hist[i] \in Seq(Revisions)
  BY DEF TreeInv, TypeOK
<1>1. hist' # hist
  BY <1>0 DEF Appended
<1>2. PICK k \in Keys \cup {Null} : Mutation(k)
  BY <1>1, OnlyMutationsAppend
<1>3. Adds(i, k)
  BY <1>2, MutationAdds
<1> QED
  BY <1>0, <1>3, AppendedOne

\* A link edits its own document and nothing else, however stale the path its
\* request carries (Write's recheck of the grant, models/share.go).
THEOREM EditsThroughLinks == Spec => LinksEditTheirDocument
<1>1. TreeInv /\ [Next]_vars =>
        [\A i \in Ids : \A n \in Appended(i) :
          LET g == hist'[i][n].by
          IN  g # Null => /\ grantOf[g] = i /\ ~revoked[g]
                          /\ hist'[i][n].op = "update"
                          /\ path'[i] = path[i]]_vars
  BY LinksEditTheirs DEF ByItsLink
<1> QED
  BY <1>1, TreeInvariant, PTL DEF Spec, LinksEditTheirDocument

-----------------------------------------------------------------------------
\* A request key with a revision has a receipt, live or expired.
KeysSpent ==
    \A i \in Ids : \A n \in 1..Len(hist[i]) :
        hist[i][n].key \in Keys => receipt[hist[i][n].key] # "none"

\* A key that a step appends under had no receipt.
LEMMA AppendedUnspent ==
    ASSUME TreeInv, [Next]_vars, NEW i \in Ids, NEW n \in Appended(i),
           hist'[i][n].key \in Keys
    PROVE  receipt[hist'[i][n].key] = "none" /\ receipt'[hist'[i][n].key] = "live"
<1>0. TypeOK /\ hist[i] \in Seq(Revisions)
  BY DEF TreeInv, TypeOK
<1>1. hist' # hist
  BY <1>0 DEF Appended
<1>2. PICK k \in Keys \cup {Null} : Mutation(k)
  BY <1>1, OnlyMutationsAppend
<1>3. Adds(i, k) /\ SaveReceipt(k)
  BY <1>2, MutationAdds
<1>4. hist'[i][n].key = k
  BY <1>0, <1>3, AppendedOne
<1>5. k \in Keys /\ k # Null
  BY <1>4, PathAssumption
<1> QED
  BY <1>0, <1>3, <1>4, <1>5 DEF SaveReceipt, TypeOK

\* A receipt is never removed.
LEMMA ReceiptsStay ==
    ASSUME TreeInv, [Next]_vars, NEW k \in Keys, receipt[k] # "none"
    PROVE  receipt'[k] # "none"
<1>0. TypeOK
  BY DEF TreeInv
<1>1. ASSUME NEW j \in Keys \cup {Null}, Mutation(j) PROVE receipt'[k] # "none"
  <2>1. SaveReceipt(j)
    BY <1>1, MutationAdds
  <2> QED
    BY <1>0, <2>1 DEF SaveReceipt, TypeOK
<1> QED
  BY <1>0, <1>1 DEF Next, CreateShareGrant, RefreshShareGrantAssets, RevokeShareGrant,
     ExpireReceipt, TypeOK, grantVars, vars

LEMMA KeysSpentPreserved ==
    ASSUME TreeInv, KeysSpent, [Next]_vars
    PROVE  KeysSpent'
<1> SUFFICES ASSUME NEW i \in Ids, NEW n \in 1..Len(hist'[i]), hist'[i][n].key \in Keys
             PROVE  receipt'[hist'[i][n].key] # "none"
  BY DEF KeysSpent
<1>0. TypeOK /\ hist[i] \in Seq(Revisions)
  BY DEF TreeInv, TypeOK
<1>1. CASE n \in 1..Len(hist[i])
  <2>1. hist'[i][n] = hist[i][n]
    <3>1. Grows(i)
      BY <1>0, HistoriesGrow
    <3> QED
      BY <1>0, <1>1, <3>1 DEF Grows
  <2> QED
    BY <1>1, <2>1, ReceiptsStay DEF KeysSpent
<1>2. CASE n \in Appended(i)
  BY <1>2, AppendedUnspent
<1> QED
  BY <1>0, <1>1, <1>2 DEF Appended

\* No key made what a site begins with.
LEMMA KeysUnused ==
    ASSUME Init, NEW i \in Ids, NEW n \in 1..Len(hist[i])
    PROVE  hist[i][n].key \notin Keys
<1>1. hist[i] # <<>>
  OBVIOUS
<1>2. /\ i <= 3
      /\ hist[i] = <<Revision("create", <<Root, ConfigPath, IndexPath>>[i],
                              <<Null, SeedConfig, SeedIndex>>[i], Null, Null)>>
  BY <1>1 DEF Init
<1>3. hist[i][n].key = Null
  BY <1>2 DEF Revision
<1> QED
  BY <1>3, PathAssumption

\* A request takes effect at most once, its receipt expired or not (loadReceipt,
\* saveReceipt and the unique key of mutation_receipt).
THEOREM RequestsTakeEffectOnce == Spec => AtMostOnce
<1>1. Init => KeysSpent
  BY KeysUnused DEF KeysSpent
<1>2. TreeInv /\ KeysSpent /\ [Next]_vars => KeysSpent'
  BY KeysSpentPreserved
<1>3. TreeInv /\ KeysSpent /\ [Next]_vars =>
        [\A k \in Keys :
          (\E i \in Ids : \E n \in Appended(i) : hist'[i][n].key = k) =>
          (\A i \in Ids : \A n \in 1..Len(hist[i]) : hist[i][n].key # k)]_vars
  <2> SUFFICES ASSUME TreeInv, KeysSpent, [Next]_vars, NEW k \in Keys,
                      NEW i \in Ids, NEW n \in Appended(i), hist'[i][n].key = k,
                      NEW j \in Ids, NEW m \in 1..Len(hist[j]), hist[j][m].key = k
               PROVE  FALSE
    OBVIOUS
  <2> QED
    BY AppendedUnspent DEF KeysSpent
<1> QED
  BY <1>1, <1>2, <1>3, TreeInvariant, PTL DEF Spec, AtMostOnce

-----------------------------------------------------------------------------
\* What requests may name of a row, and what its history says of its path.

\* A row is at a path of its history.
LEMMA PathHeld ==
    ASSUME TreeInv, NEW e \in Used
    PROVE  path[e] \in PathsHeld(e) /\ Len(hist[e]) \in 1..CurrentRevision(e)
<1>1. hist[e] \in Seq(Revisions) /\ hist[e] # <<>>
    BY RowFacts DEF TreeInv
<1>2. Len(hist[e]) \in 1..Len(hist[e])
    BY <1>1
<1>3. path[e] = hist[e][Len(hist[e])].path
    BY DEF TreeInv, RowFollowsHistory
<1> QED BY <1>2, <1>3 DEF PathsHeld, CurrentRevision

\* The revision a row is at, and 0, are revisions a request may name.
LEMMA RevisionNamed ==
    ASSUME TypeOK, NEW e \in Used
    PROVE  CurrentRevision(e) \in 0..CurrentRevision(e) /\ 0 \in 0..CurrentRevision(e)
<1>1. Len(hist[e]) \in Nat
    BY RowFacts
<1> QED BY <1>1 DEF CurrentRevision

\* Rows are never removed.
LEMMA UsedStays ==
    ASSUME TypeOK, [Next]_vars, TypeOK', NEW e \in Used
    PROVE  e \in Used'
<1>1. e \in Ids /\ hist[e] \in Seq(Revisions) /\ hist[e] # <<>>
    BY RowFacts
<1>2. Grows(e)
    BY <1>1, HistoriesGrow
<1>3. hist'[e] # <<>>
    BY <1>1, <1>2 DEF Grows
<1> QED BY <1>1, <1>3 DEF TypeOK, Used

\* A row that has another path than revision n says was moved after it.
PathsKept ==
    \A i \in Used : \A n \in 1..Len(hist[i]) :
        \/ hist[i][n].path = path[i]
        \/ \E m \in 1..Len(hist[i]) : m > n /\ hist[i][m].op = "move"

\* A row keeps its revisions.
LEMMA RevisionsStay ==
    ASSUME TypeOK, NEW i \in Ids, Grows(i)
    PROVE  /\ Len(hist[i]) \in Nat /\ Len(hist'[i]) \in Nat
           /\ \A n \in 1..Len(hist[i]) : n \in 1..Len(hist'[i]) /\ hist'[i][n] = hist[i][n]
<1>1. hist[i] \in Seq(Revisions)
    BY DEF TypeOK
<1> QED BY <1>1 DEF Grows

LEMMA PathsKeptPreserved ==
    ASSUME TypeOK, PathsKept, [Next]_vars, TypeOK', RowFollowsHistory'
    PROVE  PathsKept'
<1> SUFFICES ASSUME NEW i \in Used', NEW n \in 1..Len(hist'[i])
             PROVE  \/ hist'[i][n].path = path'[i]
                    \/ \E m \in 1..Len(hist'[i]) : m > n /\ hist'[i][m].op = "move"
    BY DEF PathsKept
<1>1. i \in Ids /\ Grows(i)
    BY HistoriesGrow DEF Used
<1>2. /\ Len(hist[i]) \in Nat /\ Len(hist'[i]) \in Nat
      /\ \A m \in 1..Len(hist[i]) : m \in 1..Len(hist'[i]) /\ hist'[i][m] = hist[i][m]
    BY <1>1, RevisionsStay
<1>3. hist'[i][Len(hist'[i])].path = path'[i]
    BY DEF RowFollowsHistory
<1>4. hist[i] \in Seq(Revisions) /\ (hist[i] # <<>> => i \in Used)
    BY <1>1, RowFacts, PathAssumption DEF TypeOK, Used
<1>5. CASE n \in 1..Len(hist[i])
    <2>1. hist[i] # <<>>
        BY <1>4, <1>5
    <2>2. CASE \E m \in 1..Len(hist[i]) : m > n /\ hist[i][m].op = "move"
        BY <1>2, <2>2
    <2>3. CASE hist[i][n].path = path[i]
        <3>1. CASE path'[i] = path[i]
            BY <1>2, <1>5, <2>3, <3>1
        <3>2. CASE path'[i] # path[i]
            <4>1. PICK r \in Revisions : hist'[i] = Append(hist[i], r) /\ r.op = "move"
                BY <1>1, <1>4, <2>1, <3>2 DEF Grows
            <4>2. /\ Len(hist'[i]) = Len(hist[i]) + 1
                  /\ hist'[i][Len(hist'[i])] = r
                BY <1>4, <4>1
            <4>3. Len(hist'[i]) \in 1..Len(hist'[i]) /\ Len(hist'[i]) > n
                BY <1>2, <1>5, <4>2
            <4> QED BY <4>1, <4>2, <4>3
        <3> QED BY <3>1, <3>2
    <2> QED BY <1>4, <1>5, <2>1, <2>2, <2>3 DEF PathsKept
<1>6. CASE n \notin 1..Len(hist[i])
    <2>1. n = Len(hist'[i])
        BY <1>1, <1>2, <1>4, <1>6 DEF Grows
    <2> QED BY <1>3, <2>1
<1> QED BY <1>5, <1>6

LEMMA PathsKeptInitially == Init => PathsKept
<1> SUFFICES ASSUME Init PROVE PathsKept
    OBVIOUS
<1>1. TypeOK /\ RowFollowsHistory
    BY InitTree DEF TreeInv
<1>2. ASSUME NEW i \in Used PROVE Len(hist[i]) = 1
    BY <1>1, RowFacts DEF Init
<1>3. ASSUME NEW i \in Used, NEW n \in 1..Len(hist[i]) PROVE n = Len(hist[i])
    <2>1. Len(hist[i]) = 1 /\ n \in 1..Len(hist[i])
        BY <1>2, <1>3
    <2>2. n \in 1..1
        BY <2>1
    <2> QED BY <2>1, <2>2
<1> QED BY <1>1, <1>3 DEF PathsKept, RowFollowsHistory

-----------------------------------------------------------------------------
\* A request makes one revision that has a source: the others it makes are of
\* the directories above.
SourcedOnce ==
    \A k \in Keys : \A i, j \in Ids :
        \A n \in 1..Len(hist[i]), m \in 1..Len(hist[j]) :
            /\ hist[i][n].key = k /\ hist[i][n].content # Null
            /\ hist[j][m].key = k /\ hist[j][m].content # Null
            => i = j /\ n = m

\* Rows other than e get no revision, or one without a source.
UnsourcedBut(e) ==
    \A i \in Ids : i # e =>
        \/ hist'[i] = hist[i]
        \/ \E r \in Revisions : hist'[i] = Append(hist[i], r) /\ r.content = Null

\* One row at most gets a revision with a source.
LEMMA OneRowIsSourced ==
    ASSUME TypeOK, [Next]_vars
    PROVE  \E e : UnsourcedBut(e)
<1>1. Shaped
  BY NextShaped
<1>2. ASSUME NEW e, NEW p, NEW ps, NEW new, NEW rev, NEW size,
             Placing(e, p, ps, new, rev, size)
      PROVE  UnsourcedBut(e)
  BY <1>2, PlacedHistory DEF UnsourcedBut
<1>3. ASSUME NEW e, NEW p, NEW ps, NEW new, NEW rev, NEW size,
             Settling(e, p, ps, new, rev, size)
      PROVE  UnsourcedBut(e)
  BY <1>2, <1>3, SettlingPlaces
<1>4. ASSUME NEW e, NEW p, NEW ps, NEW new, NEW rev, NEW size,
             Moving(e, p, ps, new, rev, size)
      PROVE  UnsourcedBut(e)
  BY <1>2, <1>4, MovingPlaces
<1>5. ASSUME NEW e, NEW rev, hist' = [hist EXCEPT ![e] = Append(@, rev)]
      PROVE  UnsourcedBut(e)
  BY <1>5 DEF TypeOK, UnsourcedBut
<1>6. ASSUME NEW e, NEW rev, Burying(e, rev) PROVE UnsourcedBut(e)
  BY <1>5, <1>6 DEF Burying
<1>7. ASSUME NEW e, NEW rev, NEW size, Amending(e, rev, size) PROVE UnsourcedBut(e)
  BY <1>5, <1>7 DEF Amending, Amend
<1>8. ASSUME Linking PROVE UnsourcedBut(0)
  BY <1>8 DEF Linking, entryVars, UnsourcedBut
<1> QED
  BY <1>1, <1>3, <1>4, <1>6, <1>7, <1>8 DEF Shaped

LEMMA SourcedOncePreserved ==
    ASSUME TreeInv, KeysSpent, SourcedOnce, [Next]_vars
    PROVE  SourcedOnce'
<1>0. TypeOK
  BY DEF TreeInv
<1>1. ASSUME NEW i \in Ids, NEW n \in 1..Len(hist'[i])
      PROVE  \/ n \in 1..Len(hist[i]) /\ hist'[i][n] = hist[i][n]
             \/ n \in Appended(i) /\ n = Len(hist'[i])
  <2>1. Grows(i) /\ hist[i] \in Seq(Revisions)
    BY <1>0, HistoriesGrow DEF TypeOK
  <2> QED
    BY <2>1 DEF Grows, Appended
<1>2. ASSUME NEW i \in Ids, NEW n \in Appended(i), hist'[i][n].key \in Keys,
             NEW j \in Ids, NEW m \in 1..Len(hist[j])
      PROVE  hist[j][m].key # hist'[i][n].key
  BY <1>2, AppendedUnspent DEF KeysSpent
<1>3. ASSUME NEW i \in Ids, NEW j \in Ids, i # j, NEW n \in Appended(i), NEW m \in Appended(j),
             hist'[i][n].content # Null, hist'[j][m].content # Null
      PROVE  FALSE
  <2>1. PICK e : UnsourcedBut(e)
    BY <1>0, OneRowIsSourced
  <2>2. ASSUME NEW l \in Ids, l # e, NEW x \in Appended(l) PROVE hist'[l][x].content = Null
    <3>1. hist[l] \in Seq(Revisions)
      BY <1>0 DEF TypeOK
    <3>2. hist'[l] # hist[l]
      BY <2>2, <3>1 DEF Appended
    <3>3. PICK r \in Revisions : hist'[l] = Append(hist[l], r) /\ r.content = Null
      BY <2>1, <2>2, <3>2 DEF UnsourcedBut
    <3>4. hist'[l][x] = r
      BY <2>2, <3>1, <3>3 DEF Appended
    <3> QED
      BY <3>3, <3>4
  <2> QED
    BY <1>3, <2>2
<1> SUFFICES ASSUME NEW k \in Keys, NEW i \in Ids, NEW j \in Ids,
                    NEW n \in 1..Len(hist'[i]), NEW m \in 1..Len(hist'[j]),
                    hist'[i][n].key = k, hist'[i][n].content # Null,
                    hist'[j][m].key = k, hist'[j][m].content # Null
             PROVE  i = j /\ n = m
  BY DEF SourcedOnce
<1>4. CASE n \in 1..Len(hist[i]) /\ hist'[i][n] = hist[i][n]
  <2>1. m \in 1..Len(hist[j]) /\ hist'[j][m] = hist[j][m]
    BY <1>1, <1>2, <1>4
  <2> QED
    BY <1>4, <2>1 DEF SourcedOnce
<1>5. CASE n \in Appended(i) /\ n = Len(hist'[i])
  <2>1. m \in Appended(j) /\ m = Len(hist'[j])
    BY <1>1, <1>2, <1>5
  <2> QED
    BY <1>3, <1>5, <2>1
<1> QED
  BY <1>1, <1>4, <1>5

\* The three parts about request keys, in every reachable state.
KeysInv == TreeInv /\ KeysSpent /\ SourcedOnce

LEMMA KeysInvariant == Spec => []KeysInv
<1>1. Init => KeysInv
  <2> SUFFICES ASSUME Init PROVE TreeInv /\ KeysSpent /\ SourcedOnce
    BY DEF KeysInv
  <2>1. TreeInv /\ KeysSpent
    BY InitTree, KeysUnused DEF KeysSpent
  <2> QED
    BY <2>1, KeysUnused DEF SourcedOnce
<1>2. KeysInv /\ [Next]_vars => KeysInv'
  BY TreeInvPreserved, KeysSpentPreserved, SourcedOncePreserved DEF KeysInv
<1> QED
  BY <1>1, <1>2, PTL DEF Spec

-----------------------------------------------------------------------------
\* The refinement of the abstract store: histories only grow, by an operation
\* that may follow, and an address that ever opened a document opens one for
\* good, through the redirects that moves leave.

\* At most one redirect answers for an address: a move leaves one at the path of
\* a row, and where a row renders there was none.
RedirectsApart ==
    \A q, r \in Paths :
        alias[q] # 0 /\ alias[r] # 0 /\ RenderedOf[q] = RenderedOf[r] => q = r

StoreInv == TreeInv /\ RedirectsApart

-----------------------------------------------------------------------------
\* What an address opens.

\* A row, live or not, opens at its own address.
LEMMA RowOpens == TreeInv => \A i \in Used : Opened(RenderedOf[path[i]]) = i
<1> SUFFICES ASSUME TreeInv, NEW i \in Used PROVE Opened(RenderedOf[path[i]]) = i
    OBVIOUS
<1> DEFINE rows == {j \in Used : RenderedOf[path[j]] = RenderedOf[path[i]]}
<1>1. rows = {i}
    BY DEF TreeInv, NamespaceUnique
<1>2. (CHOOSE j \in rows : TRUE) = i
    BY <1>1
<1> QED BY <1>1, <1>2 DEF Opened

LEMMA RowOpensThen == (TreeInv => \A i \in Used : Opened(RenderedOf[path[i]]) = i)'
BY RowOpens, PTL

\* Elsewhere a redirect does.
LEMMA RedirectOpens ==
    RedirectsApart =>
        \A q \in Paths :
            alias[q] # 0 /\ (\A i \in Used : RenderedOf[path[i]] # RenderedOf[q]) =>
                Opened(RenderedOf[q]) = alias[q]
<1> SUFFICES ASSUME RedirectsApart, NEW q \in Paths, alias[q] # 0,
                    \A i \in Used : RenderedOf[path[i]] # RenderedOf[q]
             PROVE  Opened(RenderedOf[q]) = alias[q]
    OBVIOUS
<1> DEFINE rows == {j \in Used : RenderedOf[path[j]] = RenderedOf[q]}
           redirects == {r \in Paths : alias[r] # 0 /\ RenderedOf[r] = RenderedOf[q]}
<1>1. rows = {} /\ redirects = {q}
    BY DEF RedirectsApart
<1>2. (CHOOSE r \in redirects : TRUE) = q
    BY <1>1
<1> QED BY <1>1, <1>2 DEF Opened

LEMMA RedirectOpensThen ==
    (RedirectsApart =>
        \A q \in Paths :
            alias[q] # 0 /\ (\A i \in Used : RenderedOf[path[i]] # RenderedOf[q]) =>
                Opened(RenderedOf[q]) = alias[q])'
BY RedirectOpens, PTL

\* An address where no row and no redirect comes or goes.
LEMMA OpensTheSame ==
    ASSUME NEW a,
           \A i : i \in Used /\ RenderedOf[path[i]] = a
                  <=> i \in Used' /\ RenderedOf[path'[i]] = a,
           \A q \in Paths : RenderedOf[q] = a => alias'[q] = alias[q]
    PROVE  Opened(a)' = Opened(a)
<1> DEFINE rows == {i \in Used : RenderedOf[path[i]] = a}
           rowsThen == {i \in Used' : RenderedOf[path'[i]] = a}
           redirects == {q \in Paths : alias[q] # 0 /\ RenderedOf[q] = a}
           redirectsThen == {q \in Paths : alias'[q] # 0 /\ RenderedOf[q] = a}
<1>1. rowsThen = rows /\ redirectsThen = redirects
    OBVIOUS
<1>2. redirects # {} => alias'[CHOOSE q \in redirects : TRUE]
                          = alias[CHOOSE q \in redirects : TRUE]
    <2>1. redirects # {} => (CHOOSE q \in redirects : TRUE) \in redirects
        OBVIOUS
    <2> QED BY <2>1
<1>3. Opened(a) = IF rows # {} THEN CHOOSE i \in rows : TRUE
                  ELSE IF redirects # {} THEN alias[CHOOSE q \in redirects : TRUE]
                  ELSE 0
    BY DEF Opened
<1>4. Opened(a)' = IF rowsThen # {} THEN CHOOSE i \in rowsThen : TRUE
                   ELSE IF redirectsThen # {}
                        THEN alias'[CHOOSE q \in redirectsThen : TRUE]
                   ELSE 0
    BY DEF Opened
<1> HIDE DEF rows, rowsThen, redirects, redirectsThen
<1> QED BY <1>1, <1>2, <1>3, <1>4

\* Address a opens what it did, or a document that has just come to live there.
Reaches(a) ==
    \/ Opened(a)' = Opened(a)
    \/ \E d \in Ids :
          /\ Opened(a)' = d /\ hist'[d] # hist[d]
          /\ d \in Used' /\ RenderedOf[path'[d]] = a
          /\ d \in Used => RenderedOf[path[d]] # a

\* A row that was not there opens at the path it is given.
LEMMA NewRowReached ==
    ASSUME TypeOK, TypeOK', TreeInv', NEW d \in Ids, path[d] = Null, d \in Used',
           NEW a, RenderedOf[path'[d]] = a
    PROVE  Reaches(a)
<1>1. Opened(a)' = d
    BY RowOpensThen
<1>2. hist[d] = <<>> /\ d \notin Used
    BY DEF TypeOK, Used
<1>3. hist'[d] # <<>>
    BY DEF TypeOK, Used
<1> QED BY <1>1, <1>2, <1>3 DEF Reaches

\* A row that is created or revived changes only the addresses of new rows.
LEMMA SettlingReaches ==
    ASSUME TreeInv, TreeInv', NEW e, NEW p, NEW ps, NEW new, NEW rev, NEW size,
           Settling(e, p, ps, new, rev, size), NEW a
    PROVE  Reaches(a)
<1>0. TypeOK /\ TypeOK' /\ Placing(e, p, ps, new, rev, size)
    BY SettlingPlaces DEF TreeInv
<1>1. /\ \A i \in DOMAIN new : path'[i] = new[i] /\ path[i] = Null /\ i \in Ids
      /\ \A i \in Ids : i \notin DOMAIN new /\ i # e => path'[i] = path[i]
      /\ Used' = Used \cup DOMAIN new /\ path'[e] = p /\ e \in Used'
    <2>1. ps \in SUBSET Paths /\ new \in NewRows(ps)
        BY <1>0 DEF Placing, Placed
    <2>2. DOMAIN new \subseteq Ids
        BY <1>0, <2>1, NewRowsType
    <2> QED BY <1>0, <2>2, PlacedPaths
<1>2. CASE \E i \in DOMAIN new : RenderedOf[path'[i]] = a
    BY <1>0, <1>1, <1>2, NewRowReached
<1>3. CASE \A i \in DOMAIN new : RenderedOf[path'[i]] # a
    <2>1. \A i \in Ids : i \notin DOMAIN new => path'[i] = path[i]
        <3>1. e \notin DOMAIN new => e \in Used /\ path[e] = p
            BY <1>1 DEF Settling
        <3> QED BY <1>1, <3>1
    <2>2. \A i : i \in Used /\ RenderedOf[path[i]] = a
                 <=> i \in Used' /\ RenderedOf[path'[i]] = a
        BY <1>1, <1>3, <2>1 DEF Used
    <2>3. \A q \in Paths : RenderedOf[q] = a => alias'[q] = alias[q]
        BY <1>1, <1>3 DEF Settling, Released, PathsOf
    <2> QED BY <2>2, <2>3, OpensTheSame DEF Reaches
<1> QED BY <1>2, <1>3

\* A move leaves a redirect where the document was.
LEMMA MovingReaches ==
    ASSUME TreeInv, TreeInv', RedirectsApart',
           NEW e, NEW p, NEW ps, NEW new, NEW rev, NEW size,
           Moving(e, p, ps, new, rev, size), NEW a
    PROVE  Reaches(a)
<1>0. TypeOK /\ TypeOK' /\ Placing(e, p, ps, new, rev, size)
    BY MovingPlaces DEF TreeInv
<1>1. /\ \A i \in DOMAIN new : path'[i] = new[i] /\ path[i] = Null /\ i \in Ids
      /\ \A i \in Ids : i \notin DOMAIN new /\ i # e => path'[i] = path[i]
      /\ Used' = Used \cup DOMAIN new /\ path'[e] = p /\ e \in Used'
    <2>1. ps \in SUBSET Paths /\ new \in NewRows(ps)
        BY <1>0 DEF Placing, Placed
    <2>2. DOMAIN new \subseteq Ids
        BY <1>0, <2>1, NewRowsType
    <2> QED BY <1>0, <2>2, PlacedPaths
<1>2. /\ e \in Used /\ e \in Ids /\ path[e] \in Paths /\ p \in Paths
      /\ RenderedOf[path[e]] # RenderedOf[p]
      /\ hist'[e] = Append(hist[e], rev) /\ hist[e] \in Seq(Revisions)
    <2>1. e \in Used /\ path[e] \in Paths /\ p \in Paths /\ path[e] # p
          /\ KindOf[path[e]] = KindOf[p] /\ e \in Ids
        BY <1>0, RowFacts DEF Moving, Placed
    <2> QED BY <1>0, <2>1, PlacedHistory, RowFacts, RenderedAssumption
<1>3. CASE \E i \in DOMAIN new : RenderedOf[path'[i]] = a
    BY <1>0, <1>1, <1>3, NewRowReached
<1>4. CASE RenderedOf[p] = a
    <2>1. Opened(a)' = e
        BY <1>1, <1>4, RowOpensThen
    <2>2. hist'[e] # hist[e]
        BY <1>2
    <2> QED BY <1>1, <1>2, <1>4, <2>1, <2>2 DEF Reaches
<1>5. CASE /\ \A i \in DOMAIN new : RenderedOf[path'[i]] # a
           /\ RenderedOf[p] # a /\ RenderedOf[path[e]] = a
    <2>1. Opened(a) = e
        BY <1>2, <1>5, RowOpens
    <2>2. \A i \in Used' : RenderedOf[path'[i]] # a
        <3>1. ASSUME NEW i \in Used, i # e PROVE RenderedOf[path[i]] # a
            BY <1>2, <1>5, <3>1 DEF TreeInv, NamespaceUnique
        <3> QED BY <1>1, <1>5, <3>1 DEF Used
    <2>3. alias'[path[e]] = e
        BY <1>2 DEF Moving, Released
    <2>4. e # 0
        BY <1>2, BoundAssumption DEF Ids
    <2>5. PICK q \in Paths : q = path[e]
        BY <1>2
    <2>6. Opened(RenderedOf[q])' = alias'[q]
        BY <1>5, <2>2, <2>3, <2>4, <2>5, RedirectOpensThen
    <2>7. Opened(a)' = e
        BY <1>5, <2>3, <2>5, <2>6
    <2> QED BY <2>1, <2>7 DEF Reaches
<1>6. CASE /\ \A i \in DOMAIN new : RenderedOf[path'[i]] # a
           /\ RenderedOf[p] # a /\ RenderedOf[path[e]] # a
    <2>1. \A i : i \in Used /\ RenderedOf[path[i]] = a
                 <=> i \in Used' /\ RenderedOf[path'[i]] = a
        BY <1>1, <1>6 DEF Used
    <2>2. ASSUME NEW q \in Paths, RenderedOf[q] = a PROVE alias'[q] = alias[q]
        <3>1. alias' = [Released(PathsOf(new) \cup {p}) EXCEPT ![path[e]] = e]
            BY <1>2 DEF Moving
        <3>2. q # path[e]
            BY <1>6, <2>2
        <3>3. alias'[q] = Released(PathsOf(new) \cup {p})[q]
            BY <3>1, <3>2 DEF Released
        <3>4. \A x \in PathsOf(new) \cup {p} : RenderedOf[x] # RenderedOf[q]
            BY <1>1, <1>6, <2>2 DEF PathsOf
        <3> QED BY <3>3, <3>4 DEF Released
    <2> QED BY <2>1, <2>2, OpensTheSame DEF Reaches
<1> QED BY <1>3, <1>4, <1>5, <1>6

LEMMA ApartPreserved ==
    ASSUME TreeInv, RedirectsApart, [Next]_vars
    PROVE  RedirectsApart'
<1>0. TypeOK /\ Shaped
    BY NextShaped DEF TreeInv
<1>1. CASE UNCHANGED alias
    BY <1>1 DEF RedirectsApart
<1>2. ASSUME NEW e, NEW p, NEW ps, NEW new, NEW rev, NEW size,
             Settling(e, p, ps, new, rev, size)
      PROVE  RedirectsApart'
    <2>1. \A q \in Paths : alias'[q] # 0 => alias'[q] = alias[q]
        BY <1>2 DEF Settling, Released
    <2> QED BY <2>1 DEF RedirectsApart
<1>3. ASSUME NEW e, NEW p, NEW ps, NEW new, NEW rev, NEW size,
             Moving(e, p, ps, new, rev, size)
      PROVE  RedirectsApart'
    <2>1. e \in Used
        BY <1>3 DEF Moving
    <2>2. \A q \in Paths \ {path[e]} : alias'[q] # 0 => alias'[q] = alias[q]
        BY <1>3 DEF Moving, Released
    <2>3. \A q \in Paths : alias[q] # 0 => RenderedOf[path[e]] # RenderedOf[q]
        BY <2>1 DEF TreeInv, RedirectsYield
    <2> QED BY <2>2, <2>3 DEF RedirectsApart
<1>4. ASSUME NEW e, NEW rev, Burying(e, rev) PROVE UNCHANGED alias
    BY <1>4 DEF Burying
<1>5. ASSUME NEW e, NEW rev, NEW size, Amending(e, rev, size) PROVE UNCHANGED alias
    BY <1>5 DEF Amending, Amend
<1>6. Linking => UNCHANGED alias
    BY DEF Linking, entryVars
<1> QED BY <1>0, <1>1, <1>2, <1>3, <1>4, <1>5, <1>6 DEF Shaped

\* Every address, after any step.
LEMMA AllReached ==
    ASSUME StoreInv, TreeInv', RedirectsApart', [Next]_vars, NEW a
    PROVE  Reaches(a)
<1>0. TypeOK /\ TreeInv /\ Shaped
    BY NextShaped DEF StoreInv, TreeInv
<1>1. ASSUME UNCHANGED <<path, alias>> PROVE Reaches(a)
    BY <1>1 DEF Opened, Used, Reaches
<1>2. ASSUME NEW e, NEW rev, Burying(e, rev) PROVE UNCHANGED <<path, alias>>
    BY <1>2 DEF Burying
<1>3. ASSUME NEW e, NEW rev, NEW size, Amending(e, rev, size) PROVE UNCHANGED <<path, alias>>
    BY <1>3 DEF Amending, Amend
<1>4. Linking => UNCHANGED <<path, alias>>
    BY DEF Linking, entryVars
<1> QED BY <1>0, <1>1, <1>2, <1>3, <1>4, SettlingReaches, MovingReaches DEF Shaped

-----------------------------------------------------------------------------
\* What a history grows by.

\* Revision r may follow what row i is.
MayFollow(i, r) ==
    IF i \notin Used THEN r.op = "create"
    ELSE /\ r.op \in {"update", "move", "delete"} => live[i]
         /\ r.op = "create" => ~live[i]
         /\ r.op = "move" <=> r.path # path[i]

GrowsFitly(i) ==
    \/ hist'[i] = hist[i]
    \/ \E r \in Revisions : hist'[i] = Append(hist[i], r) /\ MayFollow(i, r)

\* A directory above the place is created, or comes back.
LEMMA AboveGrowsFitly ==
    ASSUME TypeOK, NEW e, NEW p, NEW ps, NEW new, NEW rev, NEW size,
           Placing(e, p, ps, new, rev, size), NEW i \in Ids, i # e
    PROVE  GrowsFitly(i)
<1>1. /\ \A j \in DOMAIN new : path'[j] = new[j] /\ path[j] = Null
      /\ \A j \in Ids : j \notin DOMAIN new /\ j # e => path'[j] = path[j]
    BY PlacedPaths
<1>2. CASE path'[i] \notin MissingAbove(p)
    BY <1>2, PlacedHistory DEF GrowsFitly
<1>3. CASE path'[i] \in MissingAbove(p)
    <2> DEFINE op == IF i \in DOMAIN new THEN "create" ELSE "restore"
               r == Revision(op, path'[i], Null, Null, rev.key)
    <2>1. hist'[i] = Append(hist[i], r)
        BY <1>3 DEF Placing, Publish
    <2>2. path'[i] \in Paths /\ rev.key \in Keys \cup {Null}
        BY <1>3, PathAssumption DEF MissingAbove, Directories, Placing, Placed, Sourced,
           Revisions
    <2>3. r \in Revisions /\ r.op = op /\ r.path = path'[i]
        BY <2>2 DEF Revision, Revisions, Operations
    <2>4. MayFollow(i, r)
        <3>1. CASE i \in DOMAIN new
            BY <1>1, <2>3, <3>1 DEF MayFollow, Used
        <3>2. CASE i \notin DOMAIN new
            <4>1. path'[i] = path[i] /\ op = "restore"
                BY <1>1, <3>2
            <4>2. i \in Used
                BY <2>2, <4>1, PathAssumption DEF Used
            <4> HIDE DEF r, op
            <4> QED BY <2>3, <4>1, <4>2 DEF MayFollow
        <3> QED BY <3>1, <3>2
    <2> QED BY <2>1, <2>3, <2>4 DEF GrowsFitly
<1> QED BY <1>2, <1>3

LEMMA AllGrowFitly ==
    ASSUME TypeOK, [Next]_vars, NEW i \in Ids
    PROVE  GrowsFitly(i)
<1>0. Shaped
    BY NextShaped
<1>1. ASSUME NEW e, NEW p, NEW ps, NEW new, NEW rev, NEW size,
             Settling(e, p, ps, new, rev, size)
      PROVE  GrowsFitly(i)
    <2>1. Placing(e, p, ps, new, rev, size)
        BY <1>1, SettlingPlaces
    <2>2. hist'[e] = Append(hist[e], rev) /\ rev \in Revisions
        BY <1>1, <2>1, PlacedHistory DEF Settling, Sourced
    <2>3. MayFollow(e, rev)
        BY <1>1 DEF Settling, Begins, MayFollow
    <2> QED BY <2>1, <2>2, <2>3, AboveGrowsFitly DEF GrowsFitly
<1>2. ASSUME NEW e, NEW p, NEW ps, NEW new, NEW rev, NEW size,
             Moving(e, p, ps, new, rev, size)
      PROVE  GrowsFitly(i)
    <2>1. Placing(e, p, ps, new, rev, size)
        BY <1>2, MovingPlaces
    <2>2. hist'[e] = Append(hist[e], rev) /\ rev \in Revisions
        BY <1>2, <2>1, PlacedHistory DEF Moving, Sourced
    <2>3. MayFollow(e, rev)
        BY <1>2 DEF Moving, MayFollow
    <2> QED BY <2>1, <2>2, <2>3, AboveGrowsFitly DEF GrowsFitly
<1>3. ASSUME NEW e, NEW rev, Burying(e, rev) PROVE GrowsFitly(i)
    <2>1. MayFollow(e, rev) /\ rev \in Revisions
        BY <1>3 DEF Burying, MayFollow, Sourced
    <2> QED BY <1>3, <2>1 DEF Burying, GrowsFitly, TypeOK
<1>4. ASSUME NEW e, NEW rev, NEW size, Amending(e, rev, size) PROVE GrowsFitly(i)
    <2>1. MayFollow(e, rev) /\ rev \in Revisions
        <3>1. live[e] /\ e \in Used /\ rev.op \in {"update", "restore"}
              /\ rev.path = path[e] /\ rev \in Revisions
            BY <1>4 DEF Amending, Sourced
        <3> QED BY <3>1 DEF MayFollow
    <2> QED BY <1>4, <2>1 DEF Amending, Amend, GrowsFitly, TypeOK
<1>5. Linking => GrowsFitly(i)
    BY DEF Linking, entryVars, GrowsFitly
<1> QED BY <1>0, <1>1, <1>2, <1>3, <1>4, <1>5 DEF Shaped

-----------------------------------------------------------------------------
\* The store, as the tables show it.

opens == [a \in Renderings |-> Opened(a)]

LEMMA StoreRows ==
    ASSUME TreeInv, NEW d \in Ids
    PROVE  /\ Store!Exists(d) <=> d \in Used
           /\ d \in Used => /\ Store!Last(d).path = path[d]
                            /\ Store!HomeOf(d) = RenderedOf[path[d]]
                            /\ Store!HomeOf(d) \in Renderings
           /\ Store!Live(d) <=> live[d]
<1>1. TypeOK /\ RowFollowsHistory
    BY DEF TreeInv
<1>2. Store!Exists(d) <=> d \in Used
    BY <1>1 DEF Store!Exists, TypeOK, Used
<1>3. d \in Used => /\ Store!Last(d).path = path[d]
                    /\ Store!Last(d).op # "delete" <=> live[d]
    BY <1>1 DEF Store!Last, RowFollowsHistory
<1>4. d \in Used => path[d] \in Paths
    BY <1>1, RowFacts
<1>5. live[d] => d \in Used
    BY <1>1, RowFacts
<1> QED BY <1>2, <1>3, <1>4, <1>5 DEF Store!HomeOf, Store!Live, Renderings

LEMMA StoreRowsThen ==
    (TreeInv => \A d \in Ids :
        /\ Store!Exists(d) <=> d \in Used
        /\ d \in Used => /\ Store!Last(d).path = path[d]
                         /\ Store!HomeOf(d) = RenderedOf[path[d]]
                         /\ Store!HomeOf(d) \in Renderings)'
<1>1. TreeInv => \A d \in Ids :
        /\ Store!Exists(d) <=> d \in Used
        /\ d \in Used => /\ Store!Last(d).path = path[d]
                         /\ Store!HomeOf(d) = RenderedOf[path[d]]
                         /\ Store!HomeOf(d) \in Renderings
    BY StoreRows
<1> QED BY <1>1, PTL

LEMMA HomesOpen == TreeInv => Store!OpensAtHome
BY StoreRows, RowOpens DEF Store!OpensAtHome

LEMMA LogsAdvance ==
    ASSUME TreeInv, [Next]_vars, NEW d \in Ids
    PROVE  hist'[d] = hist[d] \/ Store!Advances(d)
<1>1. TypeOK /\ hist[d] \in Seq(Revisions)
    BY DEF TreeInv, TypeOK
<1>2. ASSUME NEW r \in Revisions, hist'[d] = Append(hist[d], r), MayFollow(d, r)
      PROVE  Store!Advances(d)
    <2>1. /\ Len(hist'[d]) = Len(hist[d]) + 1 /\ hist'[d][Len(hist'[d])] = r
          /\ SubSeq(hist'[d], 1, Len(hist[d])) = hist[d]
        BY <1>1, <1>2
    <2>2. Store!Follows(d, r)
        BY <1>2, StoreRows DEF Store!Follows, MayFollow
    <2> QED BY <2>1, <2>2 DEF Store!Advances
<1> QED BY <1>1, <1>2, AllGrowFitly DEF GrowsFitly

LEMMA AddressesSettle ==
    ASSUME StoreInv, TreeInv', RedirectsApart', [Next]_vars, NEW a \in Renderings
    PROVE  opens'[a] = opens[a] \/ Store!Settled(a)
<1>1. opens[a] = Opened(a) /\ opens'[a] = Opened(a)'
    BY DEF opens
<1>2. ASSUME NEW d \in Ids, Opened(a)' = d, hist'[d] # hist[d], d \in Used',
             RenderedOf[path'[d]] = a, d \in Used => RenderedOf[path[d]] # a
      PROVE  Store!Settled(a)
    <2>1. Store!HomeOf(d)' = a
        BY <1>2, StoreRowsThen
    <2>2. Store!Exists(d) => Store!HomeOf(d) # a
        BY <1>2, StoreRows DEF StoreInv
    <2> QED BY <1>2, <2>1, <2>2 DEF Store!Settled
<1> QED BY <1>1, <1>2, AllReached DEF Reaches

-----------------------------------------------------------------------------
LEMMA StoreBegins == Init => Store!Init /\ StoreInv
<1> SUFFICES ASSUME Init PROVE Store!Init /\ StoreInv
    OBVIOUS
<1>1. TreeInv
    BY InitTree
<1>2. RedirectsApart
    BY DEF Init, RedirectsApart
<1>3. \A d \in Ids : Len(hist[d]) <= 1 /\ (Store!Exists(d) => Store!Last(d).op = "create")
    BY DEF Init, Store!Exists, Store!Last, Revision
<1>4. \A a \in Renderings : opens[a] # 0 => opens[a] \in Ids /\ Store!Exists(opens[a])
    <2> SUFFICES ASSUME NEW a \in Renderings, Opened(a) # 0
                 PROVE  Opened(a) \in Ids /\ Store!Exists(Opened(a))
        BY DEF opens
    <2>1. \A q \in Paths : alias[q] = 0
        BY DEF Init
    <2>2. PICK i \in Used : RenderedOf[path[i]] = a
        BY <2>1 DEF Opened
    <2>3. Opened(a) = i /\ i \in Ids
        BY <1>1, <2>2, RowOpens DEF Used
    <2> QED BY <1>1, <2>2, <2>3, StoreRows
<1> QED BY <1>1, <1>2, <1>3, <1>4, HomesOpen DEF Store!Init, StoreInv, opens

LEMMA StoreInvPreserved == StoreInv /\ [Next]_vars => StoreInv'
BY TreeInvPreserved, ApartPreserved DEF StoreInv

LEMMA StoreSteps == StoreInv /\ StoreInv' /\ [Next]_vars => [Store!Next]_(Store!storeVars)
<1> SUFFICES ASSUME StoreInv, StoreInv', [Next]_vars PROVE Store!Next
    OBVIOUS
<1>1. TreeInv /\ TreeInv' /\ RedirectsApart'
    BY DEF StoreInv
<1>2. \A d \in Ids : hist'[d] = hist[d] \/ Store!Advances(d)
    BY <1>1, LogsAdvance
<1>3. \A a \in Renderings : opens'[a] = opens[a] \/ Store!Settled(a)
    BY <1>1, AddressesSettle
<1>4. Store!OpensAtHome'
    BY <1>1, HomesOpen, PTL
<1> QED BY <1>2, <1>3, <1>4 DEF Store!Next, opens

\* Every operation on the tables is a step of the abstract store: history only
\* grows, by an operation that may follow, and no address a document ever had
\* goes dead (Write, Move, Delete, Restore, Mkdir, PutAsset; docs/API.md).
THEOREM ContentImplementsStore == Spec => StoreImplemented
<1>1. Init => Store!Init /\ StoreInv
    BY StoreBegins
<1>2. StoreInv /\ [Next]_vars => StoreInv'
    BY StoreInvPreserved
<1>3. StoreInv /\ StoreInv' /\ [Next]_vars => [Store!Next]_(Store!storeVars)
    BY StoreSteps
<1> QED BY <1>1, <1>2, <1>3, PTL DEF Spec, StoreImplemented, Store!Spec
=============================================================================
