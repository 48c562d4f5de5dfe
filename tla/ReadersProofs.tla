--------------------------- MODULE ReadersProofs ---------------------------
(***************************************************************************)
(* Readers, proved for every number of readers, every site and every order *)
(* of writers.                                                             *)
(***************************************************************************)
EXTENDS Site, ContentProofs, SequenceTheorems

\* A step of a writer is a step of Content, any other leaves the store alone.
LEMMA ReadersStep == ReadersNext => Next \/ UNCHANGED vars
<1>1. StoreUnchanged => UNCHANGED vars
    BY DEF StoreUnchanged, entryVars, grantVars, vars
<1>2. Write => Next
    BY DEF Write
<1>3. ASSUME NEW r \in Readers, Reading(r) \/ Crawling(r) PROVE StoreUnchanged
    BY <1>3 DEF Reading, Crawling, Statement, Redirect, Body, NotFound, CrawlPage,
        EndCrawl
<1>4. ASSUME NEW r \in Readers, NEW a \in Addresses, Request(r, a) PROVE StoreUnchanged
    BY <1>4 DEF Request
<1>5. ASSUME NEW r \in Readers, NEW d, NEW p, StartCrawl(r, d, p) PROVE StoreUnchanged
    BY <1>5 DEF StartCrawl
<1> QED BY <1>1, <1>2, <1>3, <1>4, <1>5 DEF ReadersNext

\* So whatever holds in Content holds in front of its readers.
LEMMA ReadersRefine == ReadersSpec => Spec
<1>1. ReadersInit => Init
    BY DEF ReadersInit
<1>2. [ReadersNext]_readersVars => [Next]_vars
    BY ReadersStep DEF readersVars, vars
<1> QED BY <1>1, <1>2, PTL DEF ReadersSpec, Spec

-----------------------------------------------------------------------------
\* Rows and redirects, from one statement of a reader to its next.

\* A row keeps its kind: only a page or an asset moves, to a path of its kind.
LEMMA KindsStay ==
    ASSUME TypeOK, [Next]_vars, NEW i \in Used
    PROVE  KindOf[path'[i]] = KindOf[path[i]]
<1>1. Shaped
    BY NextShaped
<1>2. i \in Ids
    BY DEF Used
<1>3. ASSUME NEW e, NEW p, NEW ps, NEW new, NEW rev, NEW size,
             Placing(e, p, ps, new, rev, size)
      PROVE  KindOf[path'[i]] = KindOf[path[i]]
    <2>1. i # e => path'[i] = path[i]
        BY <1>2, <1>3, PlacedPaths DEF Used
    <2>2. path'[e] = p
        BY <1>3, PlacedPaths
    <2>3. e \in Used => path[e] = p \/ KindOf[path[e]] = KindOf[p]
        BY <1>3 DEF Placing
    <2> QED BY <2>1, <2>2, <2>3
<1>4. ASSUME NEW e, NEW p, NEW ps, NEW new, NEW rev, NEW size,
             Settling(e, p, ps, new, rev, size)
      PROVE  KindOf[path'[i]] = KindOf[path[i]]
    BY <1>3, <1>4, SettlingPlaces
<1>5. ASSUME NEW e, NEW p, NEW ps, NEW new, NEW rev, NEW size,
             Moving(e, p, ps, new, rev, size)
      PROVE  KindOf[path'[i]] = KindOf[path[i]]
    BY <1>3, <1>5, MovingPlaces
<1>6. ASSUME NEW e, NEW rev, Burying(e, rev) PROVE path' = path
    BY <1>6 DEF Burying
<1>7. ASSUME NEW e, NEW rev, NEW size, Amending(e, rev, size) PROVE path' = path
    BY <1>7 DEF Amending, Amend
<1>8. Linking => path' = path
    BY DEF Linking, entryVars
<1> QED BY <1>1, <1>4, <1>5, <1>6, <1>7, <1>8 DEF Shaped

\* A redirect appears only where a live page or asset was, and leads to it.
LEMMA RedirectsMove ==
    ASSUME TypeOK, [Next]_vars, NEW q \in Paths
    PROVE  \/ alias'[q] \in {alias[q], 0}
           \/ alias'[q] \in LiveAt(q) /\ KindOf[q] \in {"page", "asset"}
<1>1. Shaped
    BY NextShaped
<1>2. ASSUME NEW e, NEW p, NEW ps, NEW new, NEW rev, NEW size,
             Settling(e, p, ps, new, rev, size)
      PROVE  alias'[q] \in {alias[q], 0}
    BY <1>2 DEF Settling, Released
<1>3. ASSUME NEW e, NEW p, NEW ps, NEW new, NEW rev, NEW size,
             Moving(e, p, ps, new, rev, size)
      PROVE  \/ alias'[q] \in {alias[q], 0}
             \/ alias'[q] \in LiveAt(q) /\ KindOf[q] \in {"page", "asset"}
    <2>1. /\ alias' = [Released(PathsOf(new) \cup {p}) EXCEPT ![path[e]] = e]
          /\ e \in Used /\ live[e] /\ KindOf[path[e]] \in {"page", "asset"}
        BY <1>3 DEF Moving
    <2>2. CASE q = path[e]
        <3>1. alias'[q] = e
            BY <2>1, <2>2 DEF Released
        <3> QED BY <2>1, <2>2, <3>1 DEF LiveAt
    <2>3. CASE q # path[e]
        <3>1. alias'[q] = Released(PathsOf(new) \cup {p})[q]
            BY <2>1, <2>3 DEF Released
        <3> QED BY <3>1 DEF Released
    <2> QED BY <2>2, <2>3
<1>4. ASSUME NEW e, NEW rev, Burying(e, rev) PROVE alias' = alias
    BY <1>4 DEF Burying
<1>5. ASSUME NEW e, NEW rev, NEW size, Amending(e, rev, size) PROVE alias' = alias
    BY <1>5 DEF Amending, Amend
<1>6. Linking => alias' = alias
    BY DEF Linking, entryVars
<1> QED BY <1>1, <1>2, <1>3, <1>4, <1>5, <1>6 DEF Shaped

\* A redirect leads from the path of a page or an asset to a row of that kind.
RedirectsLead ==
    \A q \in Paths : alias[q] # 0 =>
        /\ alias[q] \in Used /\ KindOf[path[alias[q]]] = KindOf[q]
        /\ KindOf[q] \in {"page", "asset"}

LeadInv == TreeInv /\ RedirectsLead

LEMMA LeadPreserved == LeadInv /\ [Next]_vars => LeadInv'
<1> SUFFICES ASSUME LeadInv, [Next]_vars PROVE LeadInv'
    OBVIOUS
<1>1. TreeInv /\ TreeInv' /\ TypeOK /\ TypeOK'
    BY TreeInvPreserved DEF LeadInv, TreeInv
<1>2. ASSUME NEW q \in Paths, alias'[q] # 0
      PROVE  /\ alias'[q] \in Used' /\ KindOf[path'[alias'[q]]] = KindOf[q]
             /\ KindOf[q] \in {"page", "asset"}
    <2>1. \/ alias'[q] \in {alias[q], 0}
          \/ alias'[q] \in LiveAt(q) /\ KindOf[q] \in {"page", "asset"}
        BY <1>1, RedirectsMove
    <2>2. PICK e : e = alias'[q]
        OBVIOUS
    <2>3. e \in Used /\ KindOf[path[e]] = KindOf[q] /\ KindOf[q] \in {"page", "asset"}
        BY <1>2, <2>1, <2>2 DEF LeadInv, RedirectsLead, LiveAt
    <2>4. e \in Used' /\ KindOf[path'[e]] = KindOf[path[e]]
        BY <1>1, <2>3, KindsStay, UsedStays
    <2> QED BY <2>2, <2>3, <2>4
<1> QED BY <1>1, <1>2 DEF LeadInv, RedirectsLead

LEMMA LeadInvariant == Spec => []LeadInv
<1>1. Init => LeadInv
    BY InitTree DEF LeadInv, RedirectsLead, Init
<1> QED BY <1>1, LeadPreserved, PTL DEF Spec

-----------------------------------------------------------------------------
\* Looking an address up.

Steps == {"idle", "lookup", "target", "body", "missing", "moved"}
Views == [step : Steps, at : Addresses \cup {Null}, n : 0..4, doc : Ids \cup {0},
          from : Paths \cup {Null}, tag : Nat, steady : BOOLEAN]

\* What is known of a request between two statements.  If its address has opened
\* a document all along and none came to it, then what the statements so far
\* did not find is not there now: the lookup is ahead of the document.
Looking(v) ==
    LET page == PageAt[v.at]
        other == OtherAt[v.at]
    IN  /\ v \in Views
        /\ v.step # "idle" => v.at \in Addresses
        /\ v.step = "lookup" => v.n \in 1..Len(Lookups(v.at))
        /\ v.step \in {"target", "body"} => v.doc \in Used
        /\ v.step = "lookup" /\ v.steady =>
              /\ Opens(v.at) # {}
              /\ v.n > 1 => LiveAt(page) = {}
              /\ v.n > 2 => LiveAt(other) = {}
              /\ v.n > 3 => Leads(page) = {}
        /\ v.step = "target" /\ v.steady =>
              /\ LivingAt(v.at) = {}
              /\ live[v.doc] /\ v.doc \in Leads(page) \cup Leads(other)
        /\ v.step = "missing" => ~v.steady

\* The statements of Resolve, by number.
LEMMA StatementsOf ==
    ASSUME NEW a \in Addresses
    PROVE  /\ Len(Lookups(a)) = IF IsDirURL[a] THEN 3 ELSE 4
           /\ Lookups(a)[1] = "page" /\ Lookups(a)[2] = "other"
           /\ Lookups(a)[3] = "pageAlias"
           /\ ~IsDirURL[a] => Lookups(a)[4] = "otherAlias"
<1>1. CASE IsDirURL[a]
    BY <1>1 DEF Lookups
<1>2. CASE ~IsDirURL[a]
    BY <1>2 DEF Lookups
<1> QED BY <1>1, <1>2

\* Only one of the two paths of an address can have a redirect, and none has
\* one where the slash asks for a directory.
LEMMA OneRedirects ==
    ASSUME LeadInv, NEW a \in Addresses
    PROVE  /\ Leads(PageAt[a]) # {} => Leads(OtherAt[a]) = {}
           /\ IsDirURL[a] => Leads(OtherAt[a]) = {}
<1>1. ASSUME NEW q \in Paths, KindOf[q] = "directory" PROVE Leads(q) = {}
    BY <1>1 DEF LeadInv, RedirectsLead, Leads
<1>2. PageAt[a] \in Paths \cup {Null} /\ OtherAt[a] \in Paths \cup {Null}
    BY AddressAssumption DEF AddressAssumption
<1>3. Leads(Null) = {}
    BY DEF Leads
<1> QED BY <1>1, <1>2, <1>3, CandidateAssumption DEF CandidateAssumption

\* What a redirect leads to.
LEMMA LeadsTo ==
    ASSUME LeadInv, NEW a \in Addresses, NEW p \in {PageAt[a], OtherAt[a]}, Leads(p) # {}
    PROVE  p \in Paths /\ Leads(p) = {alias[p]} /\ alias[p] \in Used
<1>1. p \in Paths \cup {Null}
    BY AddressAssumption DEF AddressAssumption
<1>2. p # Null /\ alias[p] # 0
    BY DEF Leads
<1> QED BY <1>1, <1>2 DEF Leads, LeadInv, RedirectsLead

\* A lookup begins.
LEMMA LooksFromTheStart ==
    ASSUME NEW a \in Addresses, NEW v,
           v = [NoView EXCEPT !.step = "lookup", !.at = a, !.n = 1, !.steady = Opens(a) # {}]
    PROVE  Looking(v)
<1>1. v = [step |-> "lookup", at |-> a, n |-> 1, doc |-> 0, from |-> Null, tag |-> 0,
           steady |-> Opens(a) # {}]
    BY DEF NoView
<1>2. PICK b \in BOOLEAN : b = (Opens(a) # {})
    OBVIOUS
<1>3. v = [step |-> "lookup", at |-> a, n |-> 1, doc |-> 0, from |-> Null, tag |-> 0,
           steady |-> b]
    BY <1>1, <1>2
<1>4. v \in Views
    BY <1>3 DEF Views, Steps
<1>5. v.step = "lookup" /\ v.at = a /\ v.n = 1
    BY <1>1
<1>6. v.steady = (Opens(a) # {})
    BY <1>1, Zenon
<1>7. 1 \in 1..Len(Lookups(a))
    BY StatementsOf
<1>8. v.steady => Opens(a) # {}
    BY <1>6
<1> QED BY <1>4, <1>5, <1>7, <1>8 DEF Looking

LEMMA LooksNowhere == Looking(NoView)
<1>1. NoView \in Views
    BY DEF NoView, Views, Steps
<1> QED BY <1>1 DEF Looking, NoView

\* A statement that finds nothing moves on, and the last one only answers 404 if
\* the address was not steady.
LEMMA LooksOn ==
    ASSUME LeadInv, NEW v, Looking(v), v.step = "lookup", NEW w,
           v.n = 1 => LiveAt(PageAt[v.at]) = {},
           v.n = 2 => LiveAt(OtherAt[v.at]) = {},
           v.n = 3 => Leads(PageAt[v.at]) = {},
           v.n = 4 => Leads(OtherAt[v.at]) = {},
           w = IF v.n < Len(Lookups(v.at)) THEN [v EXCEPT !.n = v.n + 1]
               ELSE [v EXCEPT !.step = "missing"]
    PROVE  Looking(w)
<1>1. v \in Views /\ v.at \in Addresses /\ v.n \in 1..Len(Lookups(v.at))
    BY DEF Looking
<1>2. Len(Lookups(v.at)) = IF IsDirURL[v.at] THEN 3 ELSE 4
    BY <1>1, StatementsOf
<1>3. CASE v.n < Len(Lookups(v.at))
    <2>1. /\ w.step = "lookup" /\ w.at = v.at /\ w.n = v.n + 1 /\ w.steady = v.steady
          /\ w \in Views
        BY <1>1, <1>2, <1>3 DEF Views
    <2> QED BY <1>1, <1>2, <1>3, <2>1 DEF Looking
<1>4. CASE ~(v.n < Len(Lookups(v.at)))
    <2>1. w.step = "missing" /\ w.at = v.at /\ w.steady = v.steady /\ w \in Views
        BY <1>1, <1>4 DEF Views, Steps
    <2>2. ASSUME v.steady PROVE FALSE
        <3>1. LiveAt(PageAt[v.at]) = {} /\ LiveAt(OtherAt[v.at]) = {}
            BY <1>1, <1>2, <1>4, <2>2 DEF Looking
        <3>2. Leads(PageAt[v.at]) = {} /\ Leads(OtherAt[v.at]) = {}
            BY <1>1, <1>2, <1>4, <2>2, OneRedirects DEF Looking
        <3>3. Opens(v.at) # {}
            BY <2>2 DEF Looking
        <3> QED BY <3>1, <3>2, <3>3 DEF Opens, LivingAt
    <2> QED BY <1>1, <2>1, <2>2 DEF Looking
<1> QED BY <1>3, <1>4

\* What a row that lives at the address leads to.
LEMMA LooksAtWhatWasFound ==
    ASSUME LeadInv, TypeOK, NEW r \in Readers, view \in [Readers -> Views],
           Looking(view[r]), view[r].step = "lookup",
           NEW p \in {PageAt[view[r].at], OtherAt[view[r].at]}, NEW e \in LiveAt(p),
           Found(r, e)
    PROVE  \E w : view' = [view EXCEPT ![r] = w] /\ Looking(w)
<1>1. view[r] \in Views /\ view[r].at \in Addresses /\ e \in Used /\ path[e] = p
    BY DEF Looking, LiveAt
<1>2. path[e] \in Paths /\ e \in Ids /\ hist[e] \in Seq(Revisions)
    BY <1>1, RowFacts
<1>3. CASE KindOf[path[e]] # "directory"
    <2> DEFINE w == [view[r] EXCEPT !.step = "body", !.doc = e, !.from = path[e],
                                    !.tag = CurrentRevision(e)]
    <2>1. view' = [view EXCEPT ![r] = w]
        BY <1>3 DEF Found
    <2>2. PICK q \in Paths : q = path[e]
        BY <1>2
    <2>3. PICK t \in Nat : t = CurrentRevision(e)
        BY <1>2 DEF CurrentRevision
    <2>4. w = [view[r] EXCEPT !.step = "body", !.doc = e, !.from = q, !.tag = t]
        BY <2>2, <2>3
    <2>5. w \in Views /\ w.step = "body" /\ w.at = view[r].at /\ w.doc = e
        BY <1>1, <1>2, <2>4 DEF Views, Steps
    <2> HIDE DEF w
    <2>6. Looking(w)
        BY <1>1, <2>5 DEF Looking
    <2> QED BY <2>1, <2>6
<1>4. CASE KindOf[path[e]] = "directory" /\ IsDirURL[view[r].at]
    <2>1. view' = [view EXCEPT ![r] = NoView]
        BY <1>4 DEF Found
    <2> QED BY <2>1, LooksNowhere
<1>5. CASE KindOf[path[e]] = "directory" /\ ~IsDirURL[view[r].at]
    <2>1. path[e] = OtherAt[view[r].at]
        BY <1>1, <1>2, <1>5, CandidateAssumption, PathAssumption
        DEF CandidateAssumption, PathAssumption
    <2>2. SlashForm[view[r].at] \in Addresses
        BY <1>1, <1>2, <1>5, <2>1, CandidateAssumption DEF CandidateAssumption, Directories
    <2>3. PICK a \in Addresses : a = SlashForm[view[r].at]
        BY <2>2
    <2>4. Begin(r, a)
        BY <1>5, <2>3 DEF Found
    <2> QED BY <2>4, LooksFromTheStart DEF Begin
<1> QED BY <1>3, <1>4, <1>5

LEMMA LooksByStatement ==
    ASSUME LeadInv, TypeOK, NEW r \in Readers, view \in [Readers -> Views],
           Looking(view[r]), Statement(r)
    PROVE  \E w : view' = [view EXCEPT ![r] = w] /\ Looking(w)
<1> DEFINE at == view[r].at
           lookup == Lookups(at)[view[r].n]
           p == Candidate(at, lookup)
           rows == {e \in LiveAt(p) : Serves(r, e)}
<1>1. /\ view[r].step = "lookup" /\ view[r] \in Views /\ at \in Addresses
      /\ view[r].n \in 1..Len(Lookups(at))
    BY DEF Looking, Statement
<1>2. /\ Len(Lookups(at)) = IF IsDirURL[at] THEN 3 ELSE 4
      /\ view[r].n \in 1..4
    <2>1. Len(Lookups(at)) = IF IsDirURL[at] THEN 3 ELSE 4
        BY <1>1, StatementsOf
    <2> HIDE DEF at
    <2> QED BY <1>1, <2>1
<1>3. /\ view[r].n = 1 => lookup = "page" /\ p = PageAt[at]
      /\ view[r].n = 2 => lookup = "other" /\ p = OtherAt[at]
      /\ view[r].n = 3 => lookup = "pageAlias" /\ p = PageAt[at]
      /\ view[r].n = 4 => lookup = "otherAlias" /\ p = OtherAt[at]
    BY <1>1, <1>2, StatementsOf DEF Candidate
<1>4. p \in {PageAt[at], OtherAt[at]}
    BY DEF Candidate
<1>5. CASE view[r].n \in {1, 2} /\ rows # {}
    <2>1. PICK e \in LiveAt(p) : Found(r, e)
        BY <1>3, <1>5 DEF Statement
    <2> QED BY <1>1, <1>4, <2>1, LooksAtWhatWasFound
<1>6. CASE view[r].n \in {3, 4} /\ Leads(p) # {}
    <2> DEFINE w == [view[r] EXCEPT !.step = "target", !.doc = alias[p]]
    <2>1. view' = [view EXCEPT ![r] = w]
        BY <1>3, <1>6 DEF Statement
    <2>2. p \in Paths /\ Leads(p) = {alias[p]} /\ alias[p] \in Used
        BY <1>1, <1>4, <1>6, LeadsTo
    <2>3. PICK d \in Used : d = alias[p]
        BY <2>2
    <2>4. d \in Ids
        BY DEF Used
    <2>5. /\ w \in Views /\ w.step = "target" /\ w.at = at /\ w.doc = d
          /\ w.steady = view[r].steady
        BY <1>1, <2>3, <2>4 DEF Views, Steps
    <2>6. ASSUME view[r].steady
          PROVE  LivingAt(at) = {} /\ live[d] /\ d \in Leads(PageAt[at]) \cup Leads(OtherAt[at])
        <3>1. LiveAt(PageAt[at]) = {} /\ LiveAt(OtherAt[at]) = {} /\ Opens(at) # {}
            BY <1>1, <1>6, <2>6 DEF Looking
        <3>2. Leads(PageAt[at]) \cup Leads(OtherAt[at]) = {d}
            BY <1>1, <1>4, <1>6, <2>2, <2>3, OneRedirects
        <3> QED BY <3>1, <3>2 DEF LivingAt, Opens
    <2> HIDE DEF w
    <2>7. Looking(w)
        BY <1>1, <2>5, <2>6 DEF Looking
    <2> QED BY <2>1, <2>7
<1>7. CASE \/ view[r].n \in {1, 2} /\ rows = {}
           \/ view[r].n \in {3, 4} /\ Leads(p) = {}
    <2> DEFINE w == IF view[r].n < Len(Lookups(at)) THEN [view[r] EXCEPT !.n = view[r].n + 1]
                    ELSE [view[r] EXCEPT !.step = "missing"]
    <2>1. FoundNothing(r)
        BY <1>3, <1>7 DEF Statement
    <2>2. view' = [view EXCEPT ![r] = w]
        BY <2>1 DEF FoundNothing
    <2>3. ASSUME view[r].n \in {1, 2} PROVE LiveAt(p) = {}
        <3>1. ASSUME NEW e \in LiveAt(p) PROVE Serves(r, e)
            <4>1. path[e] = p /\ path[e] \in Paths
                BY <3>1, RowFacts DEF LiveAt
            <4> QED BY <1>1, <1>4, <4>1, CandidateAssumption, PathAssumption
                    DEF CandidateAssumption, PathAssumption, Serves
        <3> QED BY <1>7, <2>3, <3>1
    <2>4. /\ view[r].n = 1 => LiveAt(PageAt[at]) = {}
          /\ view[r].n = 2 => LiveAt(OtherAt[at]) = {}
          /\ view[r].n = 3 => Leads(PageAt[at]) = {}
          /\ view[r].n = 4 => Leads(OtherAt[at]) = {}
        BY <1>3, <1>7, <2>3
    <2>5. PICK u : u = w
        OBVIOUS
    <2>6. Looking(u)
        BY <1>1, <2>4, <2>5, LooksOn
    <2> QED BY <2>2, <2>5, <2>6
<1> QED BY <1>2, <1>5, <1>6, <1>7

\* The other steps of a request.
LEMMA LooksByOthers ==
    ASSUME LeadInv, NEW r \in Readers, view \in [Readers -> Views], Looking(view[r]),
           \/ \E a \in Addresses : Request(r, a)
           \/ Redirect(r) \/ Body(r) \/ NotFound(r)
    PROVE  \E w : view' = [view EXCEPT ![r] = w] /\ Looking(w)
<1>1. ASSUME NEW a \in Addresses, Begin(r, a)
      PROVE  \E w : view' = [view EXCEPT ![r] = w] /\ Looking(w)
    BY <1>1, LooksFromTheStart DEF Begin
<1>2. ASSUME NEW a \in Addresses, Request(r, a)
      PROVE  \E w : view' = [view EXCEPT ![r] = w] /\ Looking(w)
    BY <1>1, <1>2 DEF Request
<1>3. CASE Redirect(r)
    <2>1. /\ view[r].step = "target" /\ view[r] \in Views
          /\ view[r].at \in Addresses /\ view[r].doc \in Used
        BY <1>3 DEF Redirect, Looking
    <2>2. CASE live[view[r].doc] /\ AddressOf[path[view[r].doc]] # Null
        <3>1. path[view[r].doc] \in Paths
            BY <2>1, RowFacts DEF LeadInv, TreeInv
        <3>2. PICK a \in Addresses : a = AddressOf[path[view[r].doc]]
            BY <2>2, <3>1, AddressAssumption DEF AddressAssumption
        <3> QED BY <1>1, <1>3, <2>2, <3>2 DEF Redirect
    <2>3. CASE ~(live[view[r].doc] /\ AddressOf[path[view[r].doc]] # Null)
        <3>1. view' = [view EXCEPT ![r] = [view[r] EXCEPT !.step = "missing"]]
            BY <1>3, <2>3 DEF Redirect
        <3>2. PICK w : w = [view[r] EXCEPT !.step = "missing"]
            OBVIOUS
        <3>3. w \in Views /\ w.step = "missing" /\ w.at = view[r].at /\ w.steady = view[r].steady
            BY <2>1, <3>2 DEF Views, Steps
        <3>4. ASSUME view[r].steady PROVE FALSE
            <4>1. /\ live[view[r].doc]
                  /\ view[r].doc \in Leads(PageAt[view[r].at]) \cup Leads(OtherAt[view[r].at])
                BY <2>1, <3>4 DEF Looking
            <4>2. PICK q \in {PageAt[view[r].at], OtherAt[view[r].at]} : view[r].doc \in Leads(q)
                BY <4>1
            <4>3. q \in Paths /\ view[r].doc = alias[q] /\ alias[q] \in Used /\ alias[q] # 0
                BY <2>1, <4>2, LeadsTo DEF Leads
            <4>4. KindOf[path[view[r].doc]] # "config"
                BY <4>3 DEF LeadInv, RedirectsLead
            <4>5. path[view[r].doc] \in Paths
                BY <2>1, RowFacts DEF LeadInv, TreeInv
            <4> QED BY <2>3, <4>1, <4>4, <4>5, CandidateAssumption DEF CandidateAssumption
        <3>5. Looking(w)
            BY <2>1, <3>3, <3>4 DEF Looking
        <3> QED BY <3>1, <3>2, <3>5
    <2> QED BY <2>2, <2>3
<1>4. CASE Body(r)
    <2>1. /\ view[r].step = "body" /\ view[r] \in Views /\ view[r].at \in Addresses
        BY <1>4 DEF Body, Looking
    <2>2. CASE view' = [view EXCEPT ![r].step = "moved"]
        <3>1. PICK w : w = [view[r] EXCEPT !.step = "moved"]
            OBVIOUS
        <3>2. w \in Views /\ w.step = "moved" /\ w.at = view[r].at
            BY <2>1, <3>1 DEF Views, Steps
        <3>3. Looking(w)
            BY <2>1, <3>2 DEF Looking
        <3> QED BY <2>2, <3>1, <3>3
    <2>3. CASE view' = [view EXCEPT ![r] = NoView]
        BY <2>3, LooksNowhere
    <2> QED BY <1>4, <2>2, <2>3 DEF Body, Answer
<1>5. CASE NotFound(r)
    BY <1>5, LooksNowhere DEF NotFound
<1> QED BY <1>2, <1>3, <1>4, <1>5

-----------------------------------------------------------------------------
\* While a writer works.

\* A place that is empty stays so when no document comes to the address: a
\* document of the other path is a directory, and directories stay.
LEMMA StaysEmpty ==
    ASSUME TypeOK, TypeOK', [Next]_vars, NEW a \in Addresses,
           LivingAt(a)' \subseteq LivingAt(a)
    PROVE  /\ LiveAt(PageAt[a]) = {} => LiveAt(PageAt[a])' = {}
           /\ LiveAt(PageAt[a]) = {} /\ LiveAt(OtherAt[a]) = {} =>
                  LiveAt(PageAt[a])' = {} /\ LiveAt(OtherAt[a])' = {}
<1>1. ASSUME LiveAt(PageAt[a]) = {}, NEW i \in LiveAt(PageAt[a])' PROVE FALSE
    <2>1. i \in LiveAt(OtherAt[a])
        BY <1>1 DEF LivingAt
    <2>2. i \in Used /\ path[i] = OtherAt[a] /\ path'[i] = PageAt[a] /\ i \in Used'
        BY <1>1, <2>1 DEF LiveAt
    <2>3. path[i] \in Paths /\ path'[i] # Null
        BY <2>2, RowFacts DEF Used
    <2>4. KindOf[PageAt[a]] = "page" /\ KindOf[OtherAt[a]] = "directory"
        BY <2>2, <2>3, CandidateAssumption, PathAssumption
        DEF CandidateAssumption, PathAssumption
    <2> QED BY <2>2, <2>4, KindsStay
<1>2. LivingAt(a)' = LiveAt(PageAt[a])' \cup LiveAt(OtherAt[a])'
    BY DEF LivingAt
<1> QED BY <1>1, <1>2 DEF LivingAt

\* Nor does a redirect appear where no document is.
LEMMA LeadsNoMore ==
    ASSUME TypeOK, [Next]_vars, NEW p \in Paths \cup {Null}, LiveAt(p) = {}
    PROVE  Leads(p)' \subseteq Leads(p)
<1>1. CASE p = Null
    BY <1>1 DEF Leads
<1>2. CASE p \in Paths
    BY <1>2, RedirectsMove DEF Leads
<1> QED BY <1>1, <1>2

\* What the ghost of a lookup sees of a write.
LEMMA Watching ==
    ASSUME NEW r \in Readers, view[r] \in Views, Watched
    PROVE  /\ view[r].at = Null => view'[r] = view[r]
           /\ \A a \in Addresses : view[r].at = a =>
                 /\ view'[r] = [view[r] EXCEPT !.steady = view'[r].steady]
                 /\ view'[r].steady \in BOOLEAN
                 /\ view'[r].steady => /\ view[r].steady
                                      /\ Opens(a)' # {}
                                      /\ LivingAt(a)' \subseteq LivingAt(a)
<1>1. CASE view[r].at = Null
    BY <1>1, AddressAssumption DEF Watched, AddressAssumption
<1>2. ASSUME NEW a \in Addresses, view[r].at = a
      PROVE  /\ view'[r] = [view[r] EXCEPT !.steady = view'[r].steady]
             /\ view'[r].steady \in BOOLEAN
             /\ view'[r].steady => /\ view[r].steady
                                  /\ Opens(a)' # {}
                                  /\ LivingAt(a)' \subseteq LivingAt(a)
    <2>1. PICK b \in BOOLEAN : b = (/\ view[r].steady
                                   /\ OpenNow'[a] # {}
                                   /\ LivingNow'[a] \subseteq LivingNow[a])
        OBVIOUS
    <2>2. a # Null
        BY AddressAssumption DEF AddressAssumption
    <2>3. view'[r] = [view[r] EXCEPT !.steady = b]
        BY <1>2, <2>1, <2>2, Zenon DEF Watched
    <2>4. view'[r].steady = b
        BY <2>3 DEF Views
    <2>5. OpenNow'[a] = Opens(a)' /\ LivingNow'[a] = LivingAt(a)' /\ LivingNow[a] = LivingAt(a)
        BY DEF OpenNow, LivingNow
    <2> QED BY <2>1, <2>3, <2>4, <2>5
<1> QED BY <1>1, <1>2

LEMMA LooksWhileWritten ==
    ASSUME LeadInv, LeadInv', Next, NEW r \in Readers, Looking(view[r]), Watched,
           NEW w, w = view'[r]
    PROVE  Looking(w)'
<1>1. view[r] \in Views /\ TypeOK /\ TypeOK'
    BY DEF Looking, LeadInv, TreeInv
<1>2. CASE view[r].at = Null
    <2>1. w = view[r] /\ w.step = "idle"
        BY <1>1, <1>2, Watching, AddressAssumption DEF Looking, AddressAssumption
    <2> QED BY <1>1, <2>1 DEF Looking
<1>3. ASSUME NEW a \in Addresses, view[r].at = a PROVE Looking(w)'
    <2>1. /\ w = [view[r] EXCEPT !.steady = w.steady] /\ w.steady \in BOOLEAN
          /\ w.steady => view[r].steady /\ Opens(a)' # {}
                         /\ LivingAt(a)' \subseteq LivingAt(a)
        BY <1>1, <1>3, Watching
    <2>2. /\ w \in Views /\ w.step = view[r].step /\ w.at = a /\ w.n = view[r].n
          /\ w.doc = view[r].doc
        BY <1>1, <1>3, <2>1 DEF Views
    <2>3. w.step \in {"target", "body"} => w.doc \in Used'
        BY <1>1, <2>2, UsedStays DEF Looking
    <2>4. PageAt[a] \in Paths \cup {Null} /\ OtherAt[a] \in Paths \cup {Null}
        BY AddressAssumption DEF AddressAssumption
    <2>5. ASSUME w.steady
          PROVE  /\ LiveAt(PageAt[a]) = {} => LiveAt(PageAt[a])' = {}
                 /\ LiveAt(PageAt[a]) = {} /\ LiveAt(OtherAt[a]) = {} =>
                        LiveAt(PageAt[a])' = {} /\ LiveAt(OtherAt[a])' = {}
        BY <1>1, <2>1, <2>5, StaysEmpty
    <2>6. ASSUME w.step = "lookup", w.steady
          PROVE  /\ Opens(a)' # {}
                 /\ w.n > 1 => LiveAt(PageAt[a])' = {}
                 /\ w.n > 2 => LiveAt(OtherAt[a])' = {}
                 /\ w.n > 3 => Leads(PageAt[a])' = {}
        <3>1. /\ w.n > 1 => LiveAt(PageAt[a]) = {}
              /\ w.n > 2 => LiveAt(OtherAt[a]) = {}
              /\ w.n > 3 => Leads(PageAt[a]) = {}
              /\ w.n \in 0..4
            BY <1>3, <2>1, <2>2, <2>6 DEF Looking, Views
        <3>2. w.n > 3 => Leads(PageAt[a])' = {}
            BY <1>1, <2>4, <3>1, LeadsNoMore
        <3> QED BY <2>1, <2>5, <2>6, <3>1, <3>2
    <2>7. ASSUME w.step = "target", w.steady
          PROVE  /\ LivingAt(a)' = {} /\ live'[w.doc]
                 /\ w.doc \in Leads(PageAt[a])' \cup Leads(OtherAt[a])'
        <3>1. LivingAt(a) = {} /\ w.doc \in Leads(PageAt[a]) \cup Leads(OtherAt[a])
            BY <1>3, <2>1, <2>2, <2>7 DEF Looking
        <3>2. LiveAt(PageAt[a]) = {} /\ LiveAt(OtherAt[a]) = {} /\ LivingAt(a)' = {}
            BY <2>1, <2>7, <3>1 DEF LivingAt
        <3>3. /\ Leads(PageAt[a])' \subseteq Leads(PageAt[a])
              /\ Leads(OtherAt[a])' \subseteq Leads(OtherAt[a])
            BY <1>1, <2>4, <3>2, LeadsNoMore
        <3>4. Leads(PageAt[a]) \cup Leads(OtherAt[a]) = {w.doc}
            BY <3>1, OneRedirects DEF Leads
        <3>5. \E i \in Leads(PageAt[a])' \cup Leads(OtherAt[a])' : live'[i]
            BY <2>1, <2>7, <3>2 DEF Opens
        <3> QED BY <3>2, <3>3, <3>4, <3>5
    <2>8. w.step = "missing" => ~w.steady
        BY <2>1, <2>2 DEF Looking
    <2>9. w.step = "lookup" => w.n \in 1..Len(Lookups(a))
        BY <1>3, <2>2 DEF Looking
    <2> QED BY <2>2, <2>3, <2>6, <2>7, <2>8, <2>9 DEF Looking
<1> QED BY <1>1, <1>2, <1>3 DEF Looking, Views

\* What is known of a request stays known while nobody writes.
LEMMA LooksTheSame ==
    ASSUME UNCHANGED vars, NEW w, Looking(w)
    PROVE  Looking(w)'
<1>1. /\ Used' = Used /\ live' = live
      /\ \A p : LiveAt(p)' = LiveAt(p) /\ Leads(p)' = Leads(p)
    BY DEF vars, Used, LiveAt, Leads
<1>2. LivingAt(w.at)' = LivingAt(w.at)
    BY <1>1 DEF LivingAt
<1>3. Opens(w.at)' = Opens(w.at)
    BY <1>1, <1>2 DEF Opens
<1> QED BY <1>1, <1>2, <1>3 DEF Looking

\* The inductive invariant of the lookups.
LookInv ==
    /\ LeadInv
    /\ view \in [Readers -> Views]
    /\ \A r \in Readers : Looking(view[r])

LEMMA LookPreserved == LookInv /\ [ReadersNext]_readersVars => LookInv'
<1> SUFFICES ASSUME LookInv, [ReadersNext]_readersVars PROVE LookInv'
    OBVIOUS
<1>0. [Next]_vars
    BY ReadersStep DEF readersVars, vars
<1>1. LeadInv /\ LeadInv' /\ TypeOK /\ TypeOK'
    BY <1>0, LeadPreserved DEF LookInv, LeadInv, TreeInv
<1>2. ASSUME view' \in [Readers -> Views],
             \A r \in Readers : \A w : w = view'[r] => Looking(w)'
      PROVE  LookInv'
    <2>1. ASSUME NEW r \in Readers PROVE Looking(view[r])'
        <3>1. PICK w : w = view'[r]
            OBVIOUS
        <3>2. Looking(w)'
            BY <1>2, <3>1
        <3> QED BY <3>1, <3>2 DEF Looking
    <2> QED BY <1>1, <1>2, <2>1 DEF LookInv
<1>3. CASE Write
    <2>1. Next /\ Watched
        BY <1>3 DEF Write
    <2>2. ASSUME NEW r \in Readers, NEW w, w = view'[r] PROVE Looking(w)'
        BY <1>1, <2>1, <2>2, LooksWhileWritten DEF LookInv
    <2>3. ASSUME NEW r \in Readers PROVE view'[r] \in Views
        <3>1. PICK w : w = view'[r]
            OBVIOUS
        <3> QED BY <2>2, <3>1 DEF Looking
    <2>4. view' \in [Readers -> Views]
        BY <2>1, <2>3 DEF Watched
    <2> QED BY <1>2, <2>2, <2>4
<1>4. ASSUME UNCHANGED vars, NEW r \in Readers, NEW w, view' = [view EXCEPT ![r] = w],
             Looking(w)
      PROVE  LookInv'
    <2>1. w \in Views
        BY <1>4 DEF Looking
    <2>2. view' \in [Readers -> Views]
        BY <1>4, <2>1 DEF LookInv
    <2>3. ASSUME NEW s \in Readers, NEW x, x = view'[s] PROVE Looking(x)'
        <3>1. Looking(x)
            BY <1>4, <2>3 DEF LookInv
        <3> QED BY <1>4, <3>1, LooksTheSame
    <2> QED BY <1>2, <2>2, <2>3
<1>5. ASSUME UNCHANGED vars, view' = view PROVE LookInv'
    <2>1. ASSUME NEW s \in Readers, NEW x, x = view'[s] PROVE Looking(x)'
        <3>1. Looking(x)
            BY <1>5, <2>1 DEF LookInv
        <3> QED BY <1>5, <3>1, LooksTheSame
    <2> QED BY <1>2, <1>5, <2>1 DEF LookInv
<1>6. StoreUnchanged => UNCHANGED vars
    BY DEF StoreUnchanged, entryVars, grantVars, vars
<1>7. ASSUME NEW r \in Readers,
             (\E a \in Addresses : Request(r, a)) \/ Reading(r)
      PROVE  LookInv'
    <2>1. UNCHANGED vars
        BY <1>6, <1>7 DEF Request, Reading, Statement, Redirect, Body, NotFound
    <2>2. PICK w : view' = [view EXCEPT ![r] = w] /\ Looking(w)
        <3>1. CASE Statement(r)
            BY <1>1, <3>1, LooksByStatement DEF LookInv
        <3>2. CASE ~Statement(r)
            BY <1>1, <1>7, <3>2, LooksByOthers DEF LookInv, Reading
        <3> QED BY <3>1, <3>2
    <2> QED BY <1>4, <2>1, <2>2
<1>8. ASSUME NEW r \in Readers, Crawling(r) PROVE LookInv'
    BY <1>5, <1>6, <1>8 DEF Crawling, CrawlPage, EndCrawl
<1>9. ASSUME NEW r \in Readers, NEW d, NEW p, StartCrawl(r, d, p) PROVE LookInv'
    BY <1>5, <1>6, <1>9 DEF StartCrawl
<1>10. CASE UNCHANGED readersVars
    BY <1>5, <1>10 DEF readersVars, vars
<1> QED BY <1>3, <1>7, <1>8, <1>9, <1>10 DEF ReadersNext

LEMMA LookInitially == ReadersInit => LookInv
<1> SUFFICES ASSUME ReadersInit PROVE LookInv
    OBVIOUS
<1>1. LeadInv
    BY InitTree DEF ReadersInit, LeadInv, RedirectsLead, Init
<1>2. NoView \in Views
    BY LooksNowhere DEF Looking
<1> QED BY <1>1, <1>2, LooksNowhere DEF ReadersInit, LookInv

LEMMA LookInvariant == ReadersSpec => []LookInv
BY LookInitially, LookPreserved, PTL DEF ReadersSpec

\* A document that is moved while its address is being looked up is never missed
\* between its old place and the redirect (the statements of Resolve).
THEOREM LookupsFindWhatStays == ReadersSpec => []LookupsMissNothing
<1>1. LookInv => LookupsMissNothing
    BY DEF LookInv, Looking, LookupsMissNothing
<1> QED BY <1>1, LookInvariant, PTL

-----------------------------------------------------------------------------
\* The entity tag and the body it goes out with.

Replies == [doc : Ids \cup {0}, rev : Nat, of : Ids \cup {0}, tag : Nat]

\* The tag of a request that is about to read the body is a revision its
\* document had at the path the body is read from.
Tagged(v) ==
    v.step = "body" => /\ v.tag \in 1..Len(hist[v.doc])
                       /\ hist[v.doc][v.tag].path = v.from

\* While the document is still at the revision of the tag, that was the answer.
Told(a) ==
    /\ a \in Replies
    /\ a.of # 0 => /\ a.of \in Used /\ a.tag <= Len(hist[a.of])
                   /\ Len(hist[a.of]) = a.tag => a.doc = a.of /\ a.rev = a.tag

TagInv ==
    /\ LookInv
    /\ shown \in [Readers -> Replies]
    /\ \A r \in Readers : Tagged(view[r]) /\ Told(shown[r])

\* Any step of the readers alone leaves the histories as they are.
LEMMA ToldTheSame ==
    ASSUME UNCHANGED vars, NEW x
    PROVE  /\ Tagged(x) => Tagged(x)'
           /\ Told(x) => Told(x)'
<1>1. Used' = Used /\ hist' = hist
    BY DEF vars, Used
<1> QED BY <1>1 DEF Tagged, Told

LEMMA TaggedWhenFound ==
    ASSUME LookInv, NEW r \in Readers, view[r].step = "lookup", NEW e \in Used,
           Found(r, e), NEW w, w = view'[r]
    PROVE  Tagged(w)
<1>0. view[r] \in Views /\ view \in [Readers -> Views]
    BY DEF LookInv
<1>1. /\ TreeInv /\ TypeOK /\ e \in Ids
    BY DEF LookInv, LeadInv, TreeInv, Used
<1>2. /\ hist[e] \in Seq(Revisions) /\ hist[e] # <<>>
      /\ hist[e][Len(hist[e])].path = path[e]
    BY <1>1, RowFacts DEF TreeInv, RowFollowsHistory
<1>3. CASE KindOf[path[e]] # "directory"
    <2>1. view'[r] = [view[r] EXCEPT !.step = "body", !.doc = e, !.from = path[e],
                                     !.tag = CurrentRevision(e)]
        BY <1>0, <1>3 DEF Found
    <2>2. w.doc = e /\ w.from = path[e] /\ w.tag = CurrentRevision(e)
        BY <1>0, <2>1 DEF Views
    <2> QED BY <1>2, <2>2 DEF Tagged, CurrentRevision
<1>4. CASE KindOf[path[e]] = "directory"
    <2>1. view' = [view EXCEPT ![r] = NoView] \/ \E a : Begin(r, a)
        BY <1>4 DEF Found
    <2>2. CASE view' = [view EXCEPT ![r] = NoView]
        BY <1>0, <2>2 DEF NoView, Tagged
    <2>3. ASSUME NEW a, Begin(r, a) PROVE Tagged(w)
        <3>1. w.step = "lookup"
            BY <1>0, <2>3 DEF Begin, NoView
        <3> QED BY <3>1 DEF Tagged
    <2> QED BY <2>1, <2>2, <2>3
<1> QED BY <1>3, <1>4

\* Only finding a row gets a request to its body.
LEMMA TaggedByReading ==
    ASSUME LookInv, NEW r \in Readers,
           (\E a \in Addresses : Request(r, a)) \/ Reading(r),
           NEW w, w = view'[r]
    PROVE  Tagged(w)
<1>0. view[r] \in Views /\ view \in [Readers -> Views]
    BY DEF LookInv
<1>1. ASSUME NEW a, Begin(r, a) PROVE Tagged(w)
    <2>1. w.step = "lookup"
        BY <1>0, <1>1 DEF Begin, NoView
    <2> QED BY <2>1 DEF Tagged
<1>2. CASE \E a \in Addresses : Request(r, a)
    BY <1>1, <1>2 DEF Request
<1>3. CASE Statement(r)
    <2> DEFINE p == Candidate(view[r].at, Lookups(view[r].at)[view[r].n])
    <2>1. view[r].step = "lookup"
        BY <1>3 DEF Statement
    <2>2. \/ \E e \in LiveAt(p) : Found(r, e)
          \/ view' = [view EXCEPT ![r] = [view[r] EXCEPT !.step = "target", !.doc = alias[p]]]
          \/ FoundNothing(r)
        BY <1>3 DEF Statement
    <2>3. ASSUME NEW e \in LiveAt(p), Found(r, e) PROVE Tagged(w)
        <3>1. e \in Used
            BY DEF LiveAt
        <3> QED BY <2>1, <2>3, <3>1, TaggedWhenFound
    <2>4. CASE view' = [view EXCEPT ![r] = [view[r] EXCEPT !.step = "target", !.doc = alias[p]]]
        <3>1. w.step = "target"
            BY <1>0, <2>4 DEF Views
        <3> QED BY <3>1 DEF Tagged
    <2>5. CASE FoundNothing(r)
        <3>1. w.step # "body"
            BY <1>0, <2>1, <2>5 DEF FoundNothing, Views
        <3> QED BY <3>1 DEF Tagged
    <2> QED BY <2>2, <2>3, <2>4, <2>5
<1>4. CASE Redirect(r)
    <2>1. CASE \E a : Begin(r, a)
        BY <1>1, <2>1
    <2>2. CASE view' = [view EXCEPT ![r].step = "missing"]
        <3>1. w.step = "missing"
            BY <1>0, <2>2 DEF Views
        <3> QED BY <3>1 DEF Tagged
    <2> QED BY <1>4, <2>1, <2>2 DEF Redirect
<1>5. CASE Body(r)
    <2>1. CASE view' = [view EXCEPT ![r] = NoView]
        <3>1. w.step = "idle"
            BY <1>0, <2>1 DEF NoView
        <3> QED BY <3>1 DEF Tagged
    <2>2. CASE view' = [view EXCEPT ![r].step = "moved"]
        <3>1. w.step = "moved"
            BY <1>0, <2>2 DEF Views
        <3> QED BY <3>1 DEF Tagged
    <2> QED BY <1>5, <2>1, <2>2 DEF Body, Answer
<1>6. CASE NotFound(r)
    <2>1. w.step = "idle"
        BY <1>0, <1>6 DEF NotFound, NoView
    <2> QED BY <2>1 DEF Tagged
<1> QED BY <1>2, <1>3, <1>4, <1>5, <1>6 DEF Reading

\* The body is read by the path of the tagged revision: if the document is still
\* at that revision, the row there is the document.
LEMMA ToldByBody ==
    ASSUME LookInv, NEW r \in Readers, Tagged(view[r]), shown \in [Readers -> Replies],
           Told(shown[r]), Body(r), NEW a, a = shown'[r]
    PROVE  Told(a)
<1> DEFINE e == view[r].doc
           rows == IF KindOf[view[r].from] = "asset" THEN {e} ELSE RowsAt(view[r].from)
<1>1. /\ view[r] \in Views /\ e \in Used /\ e \in Ids /\ TypeOK /\ TreeInv
      /\ view[r].tag \in 1..Len(hist[e]) /\ hist[e][view[r].tag].path = view[r].from
    BY DEF LookInv, Looking, LeadInv, TreeInv, Body, Tagged, Used
<1>2. CASE shown' = shown
    BY <1>2
<1>3. ASSUME NEW i \in rows, NEW rev,
             rev = IF i = e /\ KindOf[view[r].from] = "asset"
                   THEN view[r].tag ELSE CurrentRevision(i),
             shown' = [shown EXCEPT ![r] = [doc |-> i, rev |-> rev, of |-> e,
                                            tag |-> view[r].tag]]
      PROVE  Told(a)
    <2>1. a = [doc |-> i, rev |-> rev, of |-> e, tag |-> view[r].tag]
        BY <1>3
    <2>2. i \in Used /\ i \in Ids /\ hist[i] \in Seq(Revisions)
        BY <1>1, <1>3, RowFacts DEF RowsAt, Used
    <2>3. /\ a.doc = i /\ a.rev = rev /\ a.of = e /\ a.tag = view[r].tag
          /\ a \in Replies
        BY <1>1, <1>3, <2>1, <2>2 DEF Replies, Views, CurrentRevision
    <2>4. view[r].tag <= Len(hist[e])
        BY <1>1, RowFacts
    <2>5. ASSUME Len(hist[e]) = view[r].tag PROVE i = e /\ rev = view[r].tag
        <3>1. path[e] = view[r].from
            BY <1>1, <2>5 DEF TreeInv, RowFollowsHistory
        <3>2. i = e
            BY <1>1, <1>3, <2>2, <3>1, OneRowAPath DEF RowsAt
        <3> QED BY <1>3, <2>5, <3>2 DEF CurrentRevision
    <2> QED BY <1>1, <2>3, <2>4, <2>5 DEF Told
<1>4. \/ shown' = shown
      \/ \E i \in rows : shown' = [shown EXCEPT ![r] =
            [doc |-> i, rev |-> IF i = e /\ KindOf[view[r].from] = "asset"
                                THEN view[r].tag ELSE CurrentRevision(i),
             of |-> e, tag |-> view[r].tag]]
    BY DEF Body, Answer
<1> QED BY <1>2, <1>3, <1>4

\* Histories only grow: a tag that was passed is never the current one again.
LEMMA TagsWhileWritten ==
    ASSUME LookInv, TypeOK', Next, Watched, UNCHANGED shown, NEW r \in Readers,
           Tagged(view[r]), Told(shown[r])
    PROVE  /\ \A w : w = view'[r] => Tagged(w)'
           /\ \A a : a = shown'[r] => Told(a)'
<1>1. TypeOK /\ view[r] \in Views /\ Looking(view[r])
    BY DEF LookInv, LeadInv, TreeInv
<1>2. \A i \in Ids :
        /\ Len(hist[i]) \in Nat /\ Len(hist'[i]) \in Nat
        /\ \A n \in 1..Len(hist[i]) : n \in 1..Len(hist'[i]) /\ hist'[i][n] = hist[i][n]
    BY <1>1, HistoriesGrow, RevisionsStay
<1>3. ASSUME NEW w, w = view'[r] PROVE Tagged(w)'
    <2>1. w = view[r] \/ w = [view[r] EXCEPT !.steady = w.steady]
        BY <1>1, <1>3, Watching DEF Views
    <2>2. /\ w.step = view[r].step /\ w.doc = view[r].doc /\ w.tag = view[r].tag
          /\ w.from = view[r].from
        BY <1>1, <2>1 DEF Views
    <2>3. w.step = "body" => w.doc \in Ids
        BY <1>1, <2>2 DEF Looking, Used
    <2> QED BY <1>2, <2>2, <2>3 DEF Tagged
<1>4. ASSUME NEW a, a = shown'[r] PROVE Told(a)'
    <2>1. Told(a) /\ a \in Replies
        BY <1>4 DEF Told
    <2>2. CASE a.of # 0
        <3>1. a.of \in Used /\ a.of \in Ids /\ a.of \in Used'
            BY <1>1, <2>1, <2>2, UsedStays DEF Told, Used
        <3>2. /\ Len(hist[a.of]) \in Nat /\ Len(hist'[a.of]) \in Nat
              /\ Len(hist[a.of]) <= Len(hist'[a.of])
            <4>1. Grows(a.of) /\ hist[a.of] \in Seq(Revisions)
                BY <1>1, <3>1, HistoriesGrow DEF TypeOK
            <4> QED BY <1>2, <3>1, <4>1 DEF Grows
        <3>3. a.tag \in Nat /\ a.tag <= Len(hist[a.of])
            BY <2>1, <2>2 DEF Told, Replies
        <3>4. Len(hist'[a.of]) = a.tag => Len(hist[a.of]) = a.tag
            BY <3>2, <3>3
        <3>5. Len(hist[a.of]) = a.tag => a.doc = a.of /\ a.rev = a.tag
            BY <2>1, <2>2 DEF Told
        <3>6. a.tag <= Len(hist'[a.of])
            BY <3>2, <3>3
        <3> QED BY <2>1, <3>1, <3>4, <3>5, <3>6 DEF Told
    <2> QED BY <2>1, <2>2 DEF Told
<1> QED BY <1>3, <1>4

LEMMA TagPreserved == TagInv /\ [ReadersNext]_readersVars => TagInv'
<1> SUFFICES ASSUME TagInv, [ReadersNext]_readersVars PROVE TagInv'
    OBVIOUS
<1>1. LookInv /\ LookInv' /\ TypeOK'
    BY LookPreserved DEF TagInv, LookInv, LeadInv, TreeInv
<1>2. ASSUME shown' \in [Readers -> Replies],
             \A r \in Readers : /\ \A w : w = view'[r] => Tagged(w)'
                               /\ \A a : a = shown'[r] => Told(a)'
      PROVE  TagInv'
    <2>1. ASSUME NEW r \in Readers PROVE Tagged(view[r])' /\ Told(shown[r])'
        <3>1. PICK w, a : w = view'[r] /\ a = shown'[r]
            OBVIOUS
        <3>2. Tagged(w)' /\ Told(a)'
            BY <1>2, <3>1
        <3> QED BY <3>1, <3>2 DEF Tagged, Told
    <2> QED BY <1>1, <1>2, <2>1 DEF TagInv
<1>3. CASE Write
    <2>1. Next /\ Watched /\ UNCHANGED shown
        BY <1>3 DEF Write
    <2>2. ASSUME NEW r \in Readers
          PROVE  /\ \A w : w = view'[r] => Tagged(w)'
                 /\ \A a : a = shown'[r] => Told(a)'
        BY <1>1, <2>1, TagsWhileWritten DEF TagInv
    <2> QED BY <1>2, <2>1, <2>2 DEF TagInv
<1>4. StoreUnchanged => UNCHANGED vars
    BY DEF StoreUnchanged, entryVars, grantVars, vars
<1>5. ASSUME UNCHANGED vars, NEW r \in Readers,
             \A s \in Readers \ {r} : view'[s] = view[s] /\ shown'[s] = shown[s],
             shown' \in [Readers -> Replies],
             \A w : w = view'[r] => Tagged(w), \A a : a = shown'[r] => Told(a)
      PROVE  TagInv'
    <2>1. ASSUME NEW s \in Readers
          PROVE  /\ \A w : w = view'[s] => Tagged(w)'
                 /\ \A a : a = shown'[s] => Told(a)'
        <3>1. ASSUME NEW w, w = view'[s] PROVE Tagged(w)
            BY <1>5, <3>1 DEF TagInv
        <3>2. ASSUME NEW a, a = shown'[s] PROVE Told(a)
            BY <1>5, <3>2 DEF TagInv
        <3> QED BY <1>5, <3>1, <3>2, ToldTheSame
    <2> QED BY <1>2, <1>5, <2>1
<1>6. ASSUME NEW r \in Readers,
             (\E a \in Addresses : Request(r, a)) \/ Reading(r)
      PROVE  TagInv'
    <2>1. UNCHANGED vars
        BY <1>4, <1>6 DEF Request, Reading, Statement, Redirect, Body, NotFound
    <2>2. \A w : w = view'[r] => Tagged(w)
        BY <1>1, <1>6, TaggedByReading
    <2>3. \A a : a = shown'[r] => Told(a)
        <3>1. CASE Body(r)
            BY <1>1, <3>1, ToldByBody DEF TagInv
        <3>2. CASE \E a \in Addresses : Request(r, a)
            <4>1. shown'[r] = NoAnswer
                BY <3>2 DEF Request, TagInv
            <4>2. Told(NoAnswer)
                BY DEF NoAnswer, Told, Replies
            <4> QED BY <4>1, <4>2
        <3>3. CASE Statement(r) \/ Redirect(r) \/ NotFound(r)
            <4>1. shown' = shown
                BY <3>3 DEF Statement, Redirect, NotFound
            <4> QED BY <4>1 DEF TagInv
        <3> QED BY <1>6, <3>1, <3>2, <3>3 DEF Reading
    <2>4. \A s \in Readers \ {r} : view'[s] = view[s]
        BY <1>1, <1>6 DEF Request, Reading, Statement, Found, FoundNothing, Redirect, Body,
            Answer, NotFound, Begin, LookInv
    <2>5. \/ shown' = shown
          \/ \E a : shown' = [shown EXCEPT ![r] = a]
        BY <1>6 DEF Request, Reading, Statement, Redirect, Body, Answer, NotFound
    <2>6. \A s \in Readers \ {r} : shown'[s] = shown[s]
        BY <2>5 DEF TagInv
    <2>7. shown' \in [Readers -> Replies]
        <3>1. ASSUME NEW a, shown' = [shown EXCEPT ![r] = a] PROVE shown' \in [Readers -> Replies]
            <4>1. shown'[r] = a
                BY <3>1 DEF TagInv
            <4>2. a \in Replies
                BY <2>3, <4>1 DEF Told
            <4> QED BY <3>1, <4>2 DEF TagInv
        <3> QED BY <2>5, <3>1 DEF TagInv
    <2> QED BY <1>5, <2>1, <2>2, <2>3, <2>4, <2>6, <2>7
<1>7. ASSUME UNCHANGED vars, UNCHANGED <<view, shown>> PROVE TagInv'
    <2>1. ASSUME NEW s \in Readers
          PROVE  /\ \A w : w = view'[s] => Tagged(w)'
                 /\ \A a : a = shown'[s] => Told(a)'
        BY <1>7, ToldTheSame DEF TagInv
    <2> QED BY <1>2, <1>7, <2>1 DEF TagInv
<1>8. ASSUME NEW r \in Readers, Crawling(r) PROVE TagInv'
    BY <1>4, <1>7, <1>8 DEF Crawling, CrawlPage, EndCrawl
<1>9. ASSUME NEW r \in Readers, NEW d, NEW p, StartCrawl(r, d, p) PROVE TagInv'
    BY <1>4, <1>7, <1>9 DEF StartCrawl
<1>10. CASE UNCHANGED readersVars
    BY <1>7, <1>10 DEF readersVars, vars
<1> QED BY <1>3, <1>6, <1>8, <1>9, <1>10 DEF ReadersNext

LEMMA TagInvariant == ReadersSpec => []TagInv
<1>1. ReadersInit => TagInv
    <2> SUFFICES ASSUME ReadersInit PROVE TagInv
        OBVIOUS
    <2>1. LookInv
        BY LookInitially
    <2>2. Tagged(NoView) /\ Told(NoAnswer) /\ NoAnswer \in Replies
        BY DEF Tagged, Told, NoView, NoAnswer, Replies
    <2> QED BY <2>1, <2>2 DEF ReadersInit, TagInv
<1> QED BY <1>1, TagPreserved, PTL DEF ReadersSpec

\* Whoever sends back an entity tag that is still current was shown the revision
\* of that tag, though tag and body are read in separate transactions.
THEOREM TagsMatchTheBody == ReadersSpec => []TagIsOfWhatWasShown
<1>1. TagInv => TagIsOfWhatWasShown
    BY DEF TagInv, Told, TagIsOfWhatWasShown, CurrentRevision
<1> QED BY <1>1, TagInvariant, PTL

-----------------------------------------------------------------------------
\* Reading page by page.

\* A row in a listing, by the number it is ordered by.
Keyed == [id : Ids, key : Nat]
Listings == [does : Crawls \cup {"none", "done"}, at : Paths \cup {Null}, after : Nat,
             seen : SUBSET Keyed, twice : SUBSET Keyed, kept : SUBSET Keyed]

\* What is known of a crawl between two pages: the cursor divides the rows that
\* were shown from those to come, and of the rows that were there all along,
\* each before it was shown.
Paging(c) ==
    /\ c \in Listings /\ c.twice = {}
    /\ c.does \in Crawls =>
          /\ c.at \in Paths
          /\ c.kept \subseteq Items(c.does, c.at)
          /\ \A i \in c.seen : i.key <= c.after
          /\ \A i \in c.kept : i.key <= c.after => i \in c.seen
    /\ c.does = "done" => c.kept \subseteq c.seen

LEMMA FewIds == \A S \in SUBSET Ids : IsFiniteSet(S)
<1>1. MaxEntries \in Int /\ 1 \in Int
    BY BoundAssumption DEF BoundAssumption
<1>2. IsFiniteSet(Ids)
    BY <1>1, FS_Interval DEF Ids
<1> QED BY <1>2, FS_Subset

\* The queries return finitely many rows, ordered by numbers above 0, where a
\* crawl starts.
LEMMA ChildrenKeyed ==
    ASSUME TypeOK, NEW d
    PROVE  /\ Children(d) \subseteq Keyed /\ IsFiniteSet(Children(d))
           /\ \A i \in Children(d) : i.key # 0
<1> DEFINE S == {j \in Used : live[j] /\ path[j] # d /\ \E e \in LiveAt(d) : parent[j] = e}
           f == [i \in S |-> [id |-> i, key |-> PlaceOf[path[i]]]]
<1>1. S \subseteq Ids /\ \A i \in S : path[i] \in Paths
    BY RowFacts
<1>2. IsFiniteSet(S)
    BY <1>1, FewIds
<1>3. \A i \in S : PlaceOf[path[i]] \in Nat \ {0}
    BY <1>1, AddressAssumption DEF AddressAssumption
<1>4. f \in [S -> Keyed]
    BY <1>1, <1>3 DEF Keyed
<1>5. Children(d) = {f[i] : i \in S}
    BY DEF Children
<1> HIDE DEF S
<1>6. \A i \in S : f[i].key # 0
    BY <1>3
<1> HIDE DEF f
<1>7. IsFiniteSet({f[i] : i \in S})
    BY <1>2, <1>4, FiniteImage
<1> QED BY <1>4, <1>5, <1>6, <1>7

LEMMA HitsKeyed ==
    ASSUME TypeOK, NEW d
    PROVE  Hits(d) \subseteq Keyed /\ IsFiniteSet(Hits(d)) /\ \A i \in Hits(d) : i.key # 0
<1> DEFINE S == {j \in LiveOf("page") \cup LiveOf("file") :
                   d \in Above[path[j]]
                   /\ (RankOf[CurrentContent(j)] > 0 \/ path[j] \in Matching)}
           f == [i \in S |-> [id |-> i, key |->
                    (BestRank + PathRank - Rank(i)) * MaxEntries + i]]
<1>1. S \subseteq Ids
    BY DEF LiveOf
<1>2. IsFiniteSet(S)
    BY <1>1, FewIds
<1>3. ASSUME NEW i \in S
      PROVE  (BestRank + PathRank - Rank(i)) * MaxEntries + i \in Nat \ {0}
    <2>1. i \in Used /\ i \in Nat /\ i > 0 /\ KindOf[path[i]] # "directory"
        BY <1>1, RowFacts DEF LiveOf, Ids
    <2>2. CurrentContent(i) \in Contents
        BY <2>1, RowFacts
    <2>3. PICK x \in Nat : x = BestRank + PathRank - Rank(i)
        <3>1. /\ BestRank \in Nat /\ PathRank \in Nat
              /\ RankOf[CurrentContent(i)] \in 0..BestRank
            BY <2>2, AddressAssumption DEF AddressAssumption
        <3> QED BY <3>1 DEF Rank
    <2>4. x * MaxEntries \in Nat
        BY BoundAssumption DEF BoundAssumption
    <2> QED BY <2>1, <2>3, <2>4
<1>4. f \in [S -> Keyed]
    BY <1>1, <1>3 DEF Keyed
<1>5. Hits(d) = {f[i] : i \in S}
    BY DEF Hits
<1> HIDE DEF S
<1>6. \A i \in S : f[i].key # 0
    BY <1>3
<1> HIDE DEF f
<1>7. IsFiniteSet({f[i] : i \in S})
    BY <1>2, <1>4, FiniteImage
<1> QED BY <1>4, <1>5, <1>6, <1>7

LEMMA RevisedKeyed ==
    ASSUME TypeOK, NEW p
    PROVE  /\ Revised(p) \subseteq Keyed /\ IsFiniteSet(Revised(p))
           /\ \A i \in Revised(p) : i.key # 0
<1> DEFINE N == {m \in 1..MaxRevisions : \E e \in RowsAt(p) : m <= Len(hist[e])}
           S == RowsAt(p) \X N
           f == [x \in S |-> [id |-> x[1], key |-> MaxRevisions + 1 - x[2]]]
<1>1. RowsAt(p) \subseteq Ids /\ N \subseteq 1..MaxRevisions
    BY DEF RowsAt, Used
<1>2. IsFiniteSet(RowsAt(p)) /\ IsFiniteSet(N)
    <2>1. MaxRevisions \in Int /\ 1 \in Int
        BY BoundAssumption DEF BoundAssumption
    <2>2. IsFiniteSet(1..MaxRevisions)
        BY <2>1, FS_Interval
    <2> QED BY <1>1, <2>2, FewIds, FS_Subset
<1>3. IsFiniteSet(S)
    BY <1>2, FS_Product
<1>4. \A n \in N : MaxRevisions + 1 - n \in Nat \ {0}
    BY <1>1, BoundAssumption DEF BoundAssumption
<1>5. f \in [S -> Keyed]
    BY <1>1, <1>4 DEF Keyed
<1>6. Revised(p) = {f[x] : x \in S}
    <2>1. Revised(p) = {[id |-> i, key |-> MaxRevisions + 1 - n] : i \in RowsAt(p), n \in N}
        BY DEF Revised
    <2> HIDE DEF N
    <2>2. \A i \in RowsAt(p), n \in N :
            <<i, n>> \in S /\ f[<<i, n>>] = [id |-> i, key |-> MaxRevisions + 1 - n]
        OBVIOUS
    <2>3. \A x \in S : x[1] \in RowsAt(p) /\ x[2] \in N
                        /\ f[x] = [id |-> x[1], key |-> MaxRevisions + 1 - x[2]]
        OBVIOUS
    <2> HIDE DEF S, f
    <2>4. ASSUME NEW y \in Revised(p) PROVE y \in {f[x] : x \in S}
        <3>1. PICK i \in RowsAt(p), n \in N : y = [id |-> i, key |-> MaxRevisions + 1 - n]
            BY <2>1, <2>4
        <3>2. y = f[<<i, n>>] /\ <<i, n>> \in S
            BY <2>2, <3>1
        <3> QED BY <3>2
    <2>5. ASSUME NEW x \in S PROVE f[x] \in Revised(p)
        <3>1. PICK i \in RowsAt(p), n \in N : i = x[1] /\ n = x[2]
            BY <2>3
        <3>2. f[x] = [id |-> i, key |-> MaxRevisions + 1 - n]
            BY <2>3, <3>1
        <3> QED BY <2>1, <3>2
    <2> QED BY <2>4, <2>5
<1>7. \A x \in S : f[x].key # 0
    BY <1>4
<1> HIDE DEF S, f
<1>8. IsFiniteSet({f[x] : x \in S})
    BY <1>3, <1>5, FiniteImage
<1> QED BY <1>5, <1>6, <1>7, <1>8

LEMMA ItemsKeyed ==
    ASSUME TypeOK, NEW does \in Crawls, NEW p
    PROVE  /\ Items(does, p) \subseteq Keyed /\ IsFiniteSet(Items(does, p))
           /\ \A i \in Items(does, p) : i.key # 0
<1>1. CASE does = "list"
    BY <1>1, ChildrenKeyed DEF Items
<1>2. CASE does = "search"
    BY <1>2, HitsKeyed DEF Items
<1>3. CASE does = "history"
    BY <1>3, RevisedKeyed DEF Items
<1> QED BY <1>1, <1>2, <1>3 DEF Crawls

\* A page that is not the last ends at its cursor: the rows of the query up to
\* there are the page.
LEMMA CursorDivides ==
    ASSUME NEW rows \in SUBSET Keyed, IsFiniteSet(rows), rows # FirstOf(rows)
    PROVE  /\ \E i \in FirstOf(rows) : Cursor(rows) = i.key
           /\ \A i \in FirstOf(rows) : i.key <= Cursor(rows)
           /\ \A i \in rows : i.key <= Cursor(rows) => i \in FirstOf(rows)
<1> DEFINE page == FirstOf(rows)
           Before(i) == {j \in rows : j.key < i.key}
           keys == {i.key : i \in rows}
           f == [i \in rows |-> i.key]
<1>0. page = {i \in rows : Cardinality(Before(i)) < Limit}
    BY DEF FirstOf
<1>a. \A i \in rows : i.key \in Nat
    BY DEF Keyed
<1>b. Limit \in Nat /\ Limit > 0
    BY AddressAssumption DEF AddressAssumption
<1>1. rows # {}
    BY <1>0
<1>2. page # {}
    <2>1. keys \in SUBSET Nat /\ keys # {}
        BY <1>1, <1>a
    <2>3. PICK k \in keys : \A m \in keys : k <= m
        <3>1. \E k \in keys : \A m \in keys : k <= m
            <4> HIDE DEF keys
            <4> QED BY <2>1, Least
        <3> QED BY <3>1
    <2>4. PICK i \in rows : i.key = k
        BY <2>3
    <2>5. Before(i) = {}
        BY <1>a, <2>3, <2>4
    <2>6. Cardinality(Before(i)) = 0
        BY <2>5, FS_EmptySet
    <2> QED BY <1>0, <1>b, <2>4, <2>6
<1>3. /\ Cursor(rows) \in {i.key : i \in page}
      /\ \A k \in {i.key : i \in page} : k <= Cursor(rows)
    <2> DEFINE K == {i.key : i \in page}
    <2>1. page \subseteq rows
        BY <1>0
    <2>2. K \in SUBSET Nat /\ K # {}
        BY <1>2, <1>a, <2>1
    <2>3. IsFiniteSet(K)
        <3>1. f \in [rows -> Nat]
            BY <1>a
        <3>2. IsFiniteSet({f[i] : i \in rows})
            <4> HIDE DEF f
            <4> QED BY <3>1, FiniteImage
        <3>3. K \in SUBSET {f[i] : i \in rows}
            BY <2>1
        <3> QED BY <3>2, <3>3, FS_Subset
    <2>4. Cursor(rows) = Max(K)
        BY DEF Cursor
    <2> HIDE DEF K
    <2>5. Cursor(rows) \in K /\ \A k \in K : k <= Cursor(rows)
        BY <2>2, <2>3, <2>4, Greatest
    <2> QED BY <2>5 DEF K
<1>4. ASSUME NEW i \in rows, i.key <= Cursor(rows) PROVE i \in page
    <2>1. PICK j \in page : Cursor(rows) = j.key
        BY <1>3
    <2>2. j \in rows /\ Cardinality(Before(j)) < Limit
        BY <1>0, <2>1
    <2>3. Before(i) \in SUBSET Before(j)
        <3>1. ASSUME NEW x \in rows, x.key < i.key PROVE x.key < j.key
            BY <1>a, <1>4, <2>1, <2>2, <3>1
        <3> QED BY <3>1
    <2>4. IsFiniteSet(Before(j)) /\ IsFiniteSet(Before(i))
        BY FS_Subset
    <2>5. /\ Cardinality(Before(i)) <= Cardinality(Before(j))
          /\ Cardinality(Before(i)) \in Nat /\ Cardinality(Before(j)) \in Nat
        BY <2>3, <2>4, FS_Subset, FS_CardinalityType
    <2> HIDE DEF Before
    <2> QED BY <1>0, <1>b, <2>2, <2>5
<1> QED BY <1>3, <1>4

\* A page of a crawl.
LEMMA PagingOn ==
    ASSUME TypeOK, NEW r \in Readers, crawl \in [Readers -> Listings],
           Paging(crawl[r]), CrawlPage(r)
    PROVE  \E d : crawl' = [crawl EXCEPT ![r] = d] /\ Paging(d)
<1> DEFINE c == crawl[r]
           rows == After(r)
           page == FirstOf(rows)
           end == rows = page
           items == Items(c.does, c.at)
<1>1. c \in Listings /\ c.does \in Crawls /\ c.at \in Paths
    BY DEF CrawlPage, Paging
<1>2. CASE ~Readable(c.does, c.at)
    <2>1. crawl' = [crawl EXCEPT ![r] = NoCrawl]
        BY <1>2 DEF CrawlPage
    <2>2. NoCrawl \in Listings /\ NoCrawl.twice = {} /\ NoCrawl.does = "none"
        BY DEF NoCrawl, Listings
    <2>3. Paging(NoCrawl)
        BY <2>2 DEF Paging, Crawls
    <2> QED BY <2>1, <2>3
<1>3. CASE Readable(c.does, c.at)
    <2> DEFINE d == [c EXCEPT !.seen = c.seen \cup page,
                              !.twice = c.twice \cup (c.seen \cap page),
                              !.does = IF end THEN "done" ELSE c.does,
                              !.after = IF end THEN c.after ELSE Cursor(rows)]
    <2>1. crawl' = [crawl EXCEPT ![r] = d]
        BY <1>3 DEF CrawlPage
    <2>2. /\ rows = {i \in items : i.key > c.after}
          /\ items \subseteq Keyed /\ IsFiniteSet(items)
        BY <1>1, ItemsKeyed DEF After
    <2>3. page \subseteq rows /\ rows \in SUBSET Keyed /\ IsFiniteSet(rows)
        <3>1. page \subseteq rows
            BY DEF FirstOf
        <3> HIDE DEF page, rows
        <3> QED BY <2>2, <3>1, FS_Subset
    <2>4. c.after \in Nat /\ c.seen \in SUBSET Keyed /\ c.kept \in SUBSET Keyed
        BY <1>1 DEF Listings
    <2>5. /\ \A i \in c.seen : i.key <= c.after
          /\ \A i \in c.kept : i \in items /\ (i.key <= c.after => i \in c.seen)
          /\ c.twice = {}
        BY <1>1 DEF Paging
    <2>6. \A i \in Keyed : i.key \in Nat
        BY DEF Keyed
    <2> HIDE DEF items, rows, page
    <2>7. c.seen \cap page = {}
        BY <2>2, <2>3, <2>4, <2>5, <2>6
    <2>8. CASE end
        <3>1. PICK x : x = [c EXCEPT !.seen = c.seen \cup page, !.twice = {}, !.does = "done",
                                     !.after = c.after]
            OBVIOUS
        <3>2. x = d
            BY <2>5, <2>7, <2>8, <3>1
        <3>3. /\ x \in Listings /\ x.twice = {} /\ x.does = "done"
              /\ x.kept = c.kept /\ x.seen = c.seen \cup page
            BY <1>1, <2>3, <2>4, <3>1 DEF Listings
        <3>4. c.kept \subseteq c.seen \cup page
            <4>1. ASSUME NEW i \in c.kept, i \notin c.seen PROVE i \in page
                <5>1. i \in items /\ i.key > c.after
                    BY <2>4, <2>5, <2>6, <4>1
                <5> QED BY <2>2, <2>8, <5>1
            <4> QED BY <4>1
        <3>5. Paging(x)
            BY <3>3, <3>4 DEF Paging, Crawls
        <3> QED BY <2>1, <3>2, <3>5
    <2>9. CASE ~end
        <3>1. /\ \E i \in page : Cursor(rows) = i.key
              /\ \A i \in page : i.key <= Cursor(rows)
              /\ \A i \in rows : i.key <= Cursor(rows) => i \in page
            <4>1. rows # FirstOf(rows)
                BY <2>9 DEF page
            <4> QED BY <2>3, <4>1, CursorDivides DEF page
        <3>2. PICK k \in Nat : k = Cursor(rows) /\ k > c.after
            BY <2>2, <2>3, <2>6, <3>1
        <3>3. PICK x : x = [c EXCEPT !.seen = c.seen \cup page, !.twice = {}, !.does = c.does,
                                     !.after = k]
            OBVIOUS
        <3>4. x = d
            BY <2>5, <2>7, <2>9, <3>2, <3>3
        <3>5. /\ x \in Listings /\ x.twice = {} /\ x.does = c.does /\ x.at = c.at
              /\ x.kept = c.kept /\ x.seen = c.seen \cup page /\ x.after = k
            BY <1>1, <2>3, <2>4, <3>3 DEF Listings
        <3>6. \A i \in c.seen \cup page : i.key <= k
            BY <2>3, <2>4, <2>5, <2>6, <3>1, <3>2
        <3>7. ASSUME NEW i \in c.kept, i.key <= k PROVE i \in c.seen \cup page
            <4>1. CASE i.key <= c.after
                BY <2>5, <4>1
            <4>2. CASE ~(i.key <= c.after)
                <5>1. i \in rows
                    BY <2>2, <2>4, <2>5, <2>6, <4>2
                <5> QED BY <3>1, <3>2, <3>7, <5>1
            <4> QED BY <4>1, <4>2
        <3>8. c.kept \subseteq Items(c.does, c.at)
            BY <2>5 DEF items
        <3>9. Paging(x)
            BY <1>1, <3>5, <3>6, <3>7, <3>8 DEF Paging, Crawls
        <3> QED BY <2>1, <3>4, <3>9
    <2> QED BY <2>8, <2>9
<1> QED BY <1>2, <1>3

\* The queries find the same in the same store.
LEMMA SameItems ==
    ASSUME UNCHANGED vars, NEW does, NEW p PROVE Items(does, p)' = Items(does, p)
<1>1. /\ Used' = Used /\ live' = live /\ path' = path /\ parent' = parent /\ hist' = hist
    BY DEF vars, Used
<1>2. LiveAt(p)' = LiveAt(p) /\ RowsAt(p)' = RowsAt(p)
    BY <1>1 DEF LiveAt, RowsAt
<1>3. Children(p)' = Children(p)
    BY <1>1, <1>2 DEF Children
<1>4. \A d : Hits(d)' = Hits(d)
    BY <1>1 DEF Hits, Rank, LiveOf, CurrentContent
<1>5. Revised(p)' = Revised(p)
    BY <1>1, <1>2 DEF Revised
<1> QED BY <1>3, <1>4, <1>5 DEF Items

\* What another reader does leaves a crawl as it is.
LEMMA PagingTheSame == ASSUME UNCHANGED vars, NEW c, Paging(c) PROVE Paging(c)'
<1>1. Items(c.does, c.at)' = Items(c.does, c.at)
    BY SameItems
<1> QED BY <1>1 DEF Paging

\* A crawl begins with the rows there are, all of them beyond the cursor.
LEMMA PagingFromTheStart ==
    ASSUME TypeOK, NEW r \in Readers, NEW does \in Crawls, NEW p \in Paths,
           StartCrawl(r, does, p)
    PROVE  \E d : crawl' = [crawl EXCEPT ![r] = d] /\ Paging(d)
<1>1. PICK K : K = Items(does, p)
    OBVIOUS
<1>2. PICK d : d = [NoCrawl EXCEPT !.does = does, !.at = p, !.kept = K]
    OBVIOUS
<1>3. d = [does |-> does, at |-> p, after |-> 0, seen |-> {}, twice |-> {}, kept |-> K]
    BY <1>2 DEF NoCrawl
<1>4. K \subseteq Keyed /\ \A i \in K : i.key # 0
    BY <1>1, ItemsKeyed
<1>5. \A i \in K : i.key \in Nat /\ ~(i.key <= 0)
    BY <1>4 DEF Keyed
<1>6. d \in Listings
    BY <1>3, <1>4 DEF Listings
<1>7. /\ d.does = does /\ d.at = p /\ d.after = 0 /\ d.seen = {} /\ d.twice = {}
      /\ d.kept = K /\ d.does # "done"
    BY <1>3 DEF Crawls
<1>8. Paging(d)
    BY <1>1, <1>5, <1>6, <1>7 DEF Paging
<1> QED BY <1>1, <1>2, <1>8 DEF StartCrawl

LEMMA PagingNowhere == Paging(NoCrawl)
<1>1. NoCrawl \in Listings /\ NoCrawl.twice = {} /\ NoCrawl.does = "none"
    BY DEF NoCrawl, Listings
<1> QED BY <1>1 DEF Paging, Crawls

\* While the store is written, the rows that stay in their place are still
\* there to come, or were shown.
LEMMA PagingWhileWritten ==
    ASSUME Watched, NEW r \in Readers, Paging(crawl[r]), NEW d, d = crawl'[r]
    PROVE  Paging(d)'
<1>1. PICK c : c = crawl[r] /\ Paging(c)
    OBVIOUS
<1>2. CASE c.does \notin Crawls
    <2>1. d = c
        BY <1>1, <1>2 DEF Watched
    <2> QED BY <1>1, <1>2, <2>1 DEF Paging
<1>3. CASE c.does \in Crawls
    <2>1. d = [c EXCEPT !.kept = c.kept \cap ItemsNow'[<<c.does, c.at>>]]
        BY <1>1, <1>3 DEF Watched
    <2>2. c.at \in Paths /\ c \in Listings
        BY <1>1, <1>3 DEF Paging
    <2>3. ItemsNow'[<<c.does, c.at>>] = Items(c.does, c.at)'
        BY <1>3, <2>2 DEF ItemsNow
    <2>4. PICK K : K = Items(c.does, c.at)'
        OBVIOUS
    <2>5. d = [c EXCEPT !.kept = c.kept \cap K]
        BY <2>1, <2>3, <2>4
    <2>6. /\ d \in Listings /\ d.does = c.does /\ d.at = c.at /\ d.after = c.after
          /\ d.seen = c.seen /\ d.twice = c.twice /\ d.kept = c.kept \cap K
        BY <2>2, <2>5 DEF Listings
    <2>7. Items(d.does, d.at)' = K
        BY <2>4, <2>6
    <2>8. d.does # "done"
        BY <1>3, <2>6 DEF Crawls
    <2> QED BY <1>1, <1>3, <2>2, <2>6, <2>7, <2>8 DEF Paging
<1> QED BY <1>2, <1>3

CrawlInv ==
    /\ TreeInv
    /\ crawl \in [Readers -> Listings]
    /\ \A r \in Readers : Paging(crawl[r])

LEMMA CrawlPreserved == CrawlInv /\ [ReadersNext]_readersVars => CrawlInv'
<1> SUFFICES ASSUME CrawlInv, [ReadersNext]_readersVars PROVE CrawlInv'
    OBVIOUS
<1>1. TypeOK /\ TreeInv'
    <2>1. [Next]_vars
        BY ReadersStep DEF readersVars, vars
    <2> QED BY <2>1, TreeInvPreserved DEF CrawlInv, TreeInv
<1>2. StoreUnchanged => UNCHANGED vars
    BY DEF StoreUnchanged, entryVars, grantVars, vars
<1>3. ASSUME crawl' = [r \in Readers |-> crawl'[r]],
             \A r \in Readers : \A d : d = crawl'[r] => Paging(d)'
      PROVE  CrawlInv'
    <2>1. ASSUME NEW r \in Readers PROVE Paging(crawl[r])' /\ crawl'[r] \in Listings
        <3>1. PICK d : d = crawl'[r]
            OBVIOUS
        <3>2. Paging(d)'
            BY <1>3, <3>1
        <3> QED BY <3>1, <3>2 DEF Paging
    <2> QED BY <1>1, <1>3, <2>1 DEF CrawlInv
<1>4. CASE Write
    <2>1. Watched
        BY <1>4 DEF Write
    <2>2. crawl' = [r \in Readers |-> crawl'[r]]
        BY <2>1 DEF Watched
    <2>3. ASSUME NEW r \in Readers, NEW d, d = crawl'[r] PROVE Paging(d)'
        BY <2>1, <2>3, PagingWhileWritten DEF CrawlInv
    <2> QED BY <1>3, <2>2, <2>3
<1>5. ASSUME UNCHANGED vars, NEW r \in Readers, NEW c, Paging(c),
             crawl' = [crawl EXCEPT ![r] = c]
      PROVE  CrawlInv'
    <2>1. ASSUME NEW s \in Readers, NEW d, d = crawl'[s] PROVE Paging(d)'
        <3>1. Paging(d)
            <4>1. CASE s = r
                BY <1>5, <2>1, <4>1 DEF CrawlInv
            <4>2. CASE s # r
                BY <1>5, <2>1, <4>2 DEF CrawlInv
            <4> QED BY <4>1, <4>2
        <3> QED BY <1>5, <3>1, PagingTheSame
    <2>2. crawl' = [s \in Readers |-> crawl'[s]]
        BY <1>5 DEF CrawlInv
    <2> QED BY <1>3, <2>1, <2>2
<1>6. ASSUME UNCHANGED vars, UNCHANGED crawl PROVE CrawlInv'
    <2>1. ASSUME NEW s \in Readers, NEW d, d = crawl'[s] PROVE Paging(d)'
        <3>1. Paging(d)
            BY <1>6, <2>1 DEF CrawlInv
        <3> QED BY <1>6, <3>1, PagingTheSame
    <2>2. crawl' = [s \in Readers |-> crawl'[s]]
        BY <1>6 DEF CrawlInv
    <2> QED BY <1>3, <2>1, <2>2
<1>7. ASSUME NEW r \in Readers, (\E a \in Addresses : Request(r, a)) \/ Reading(r)
      PROVE  CrawlInv'
    BY <1>2, <1>6, <1>7 DEF Request, Reading, Statement, Redirect, Body, NotFound
<1>8. ASSUME NEW r \in Readers, NEW does \in Crawls, NEW p \in Paths, StartCrawl(r, does, p)
      PROVE  CrawlInv'
    <2>1. UNCHANGED vars
        BY <1>2, <1>8 DEF StartCrawl
    <2>2. \E c : crawl' = [crawl EXCEPT ![r] = c] /\ Paging(c)
        BY <1>1, <1>8, PagingFromTheStart
    <2> QED BY <1>5, <2>1, <2>2
<1>9. ASSUME NEW r \in Readers, CrawlPage(r) PROVE CrawlInv'
    <2>1. UNCHANGED vars
        BY <1>2, <1>9 DEF CrawlPage
    <2>2. \E c : crawl' = [crawl EXCEPT ![r] = c] /\ Paging(c)
        BY <1>1, <1>9, PagingOn DEF CrawlInv
    <2> QED BY <1>5, <2>1, <2>2
<1>10. ASSUME NEW r \in Readers, EndCrawl(r) PROVE CrawlInv'
    BY <1>2, <1>5, <1>10, PagingNowhere DEF EndCrawl
<1>11. CASE UNCHANGED readersVars
    BY <1>6, <1>11 DEF readersVars, vars
<1> QED BY <1>4, <1>7, <1>8, <1>9, <1>10, <1>11 DEF ReadersNext, Crawling

LEMMA CrawlInvariant == ReadersSpec => []CrawlInv
<1>1. ReadersInit => CrawlInv
    <2> SUFFICES ASSUME ReadersInit PROVE CrawlInv
        OBVIOUS
    <2>1. TreeInv
        BY InitTree DEF ReadersInit
    <2>2. Paging(NoCrawl) /\ NoCrawl \in Listings
        BY PagingNowhere DEF Paging
    <2> QED BY <2>1, <2>2 DEF ReadersInit, CrawlInv
<1> QED BY <1>1, CrawlPreserved, PTL DEF ReadersSpec

\* A listing, a search or a history read page by page shows every row that was
\* there all along and shows it once, whatever is written between two pages.
THEOREM CrawlsShowEverything == ReadersSpec => []CrawlsAreComplete
<1>1. CrawlInv => CrawlsAreComplete
    BY DEF CrawlInv, Paging, CrawlsAreComplete
<1> QED BY <1>1, CrawlInvariant, PTL

-----------------------------------------------------------------------------
\* The grammar of paths.

LEMMA KindsOfSpellings ==
    ASSUME NEW s
    PROVE  /\ s.ext = "" => Kind(s) = "directory"
           /\ s.ext = "md" => Kind(s) = "page"
           /\ s.ext \notin {"", "md"} => Kind(s) \notin {"directory", "page"}
           /\ Kind(s) # "none" => \/ s.ext \in {"", "md"} \cup TextExtensions
                                  \/ s.ext \in BinaryExtensions
<1>1. s = ConfigSpelling => s.ext = "yaml"
    BY DEF ConfigSpelling, Spelling
<1>2. CASE s.ext = ""
    BY <1>1, <1>2, GrammarAssumption DEF GrammarAssumption, Kind
<1>3. CASE s.ext = "md"
    BY <1>1, <1>3, GrammarAssumption DEF GrammarAssumption, Kind
<1>4. CASE s = ConfigSpelling
    BY <1>1, <1>4, GrammarAssumption DEF GrammarAssumption, Kind
<1>5. CASE s.ext \notin {"", "md"} /\ s # ConfigSpelling /\ s.ext \in TextExtensions
    BY <1>5, GrammarAssumption DEF GrammarAssumption, Kind
<1>6. CASE s.ext \notin {"", "md"} /\ s # ConfigSpelling /\ s.ext \notin TextExtensions
    <2>1. CASE s.ext \in BinaryExtensions
        BY <1>6, <2>1, GrammarAssumption DEF GrammarAssumption, Kind
    <2>2. CASE s.ext \notin BinaryExtensions
        BY <1>6, <2>2 DEF Kind
    <2> QED BY <1>6, <2>1, <2>2
<1> QED BY <1>2, <1>3, <1>4, <1>5, <1>6

\* A valid path is the root or a spelling without the slash, of plain segments,
\* and the platform does not own its first segment.
LEMMA ValidShape ==
    ASSUME NEW p \in ValidPaths, p # RootSpelling
    PROVE  /\ p = Spelling(p.dirs, p.stem, p.ext, FALSE)
           /\ p.dirs \in Seq(Stems) /\ Len(p.dirs) < MaxPathDepth
           /\ p.stem \in Stems /\ p.ext \in Extensions
           /\ Range(p.dirs) \cup {p.stem} \subseteq PlainStems
           /\ p.ext \in {"", "md"} \cup TextExtensions \cup BinaryExtensions
           /\ ~IsReserved(p)
           /\ FirstSegment(p) = <<"tmp", "yaml">> => Kind(p) = "config"
<1>1. PICK s \in Spellings : ValidatePath(s) /\ p = Canonical(s)
    BY DEF ValidPaths
<1>2. s # RootSpelling /\ p = [s EXCEPT !.slash = FALSE]
    BY <1>1 DEF Canonical
<1>3. s \in [dirs : UNION {[1..n -> Stems] : n \in 0..MaxPathDepth},
             stem : Stems, ext : Extensions, slash : BOOLEAN]
    BY <1>2 DEF Spellings
<1>4. PICK n \in 0..MaxPathDepth : s.dirs \in [1..n -> Stems]
    BY <1>3
<1>5. n \in Nat
    <2>1. MaxPathDepth \in Nat
        BY GrammarAssumption DEF GrammarAssumption
    <2> QED BY <2>1
<1>6. s.dirs \in Seq(Stems)
    BY <1>4, <1>5
<1>7. /\ p = [dirs |-> s.dirs, stem |-> s.stem, ext |-> s.ext, slash |-> FALSE]
      /\ p.dirs = s.dirs /\ p.stem = s.stem /\ p.ext = s.ext
    BY <1>2, <1>3
<1>8. /\ Len(s.dirs) < MaxPathDepth
      /\ Range(s.dirs) \cup {s.stem} \subseteq PlainStems
      /\ Kind(s) # "none"
      /\ s.slash => s.ext = ""
      /\ ~IsReserved(s)
      /\ FirstSegment(s) = <<"tmp", "yaml">> => Kind(s) = "config"
    BY <1>1, <1>2 DEF ValidatePath
<1>9. Kind(p) = Kind(s) /\ Rendered(p).ext = Rendered(s).ext
    <2>1. CASE s.slash
        <3>1. s.ext = "" /\ p.ext = ""
            BY <1>7, <1>8, <2>1
        <3>2. Kind(s) = "directory" /\ Kind(p) = "directory"
            BY <3>1, KindsOfSpellings
        <3> QED BY <3>1, <3>2 DEF Rendered
    <2>2. CASE ~s.slash
        <3>1. s.slash = FALSE
            BY <1>3, <2>2
        <3>2. p = s
            BY <1>2, <1>3, <3>1
        <3> QED BY <3>2
    <2> QED BY <2>1, <2>2
<1>10. FirstSegment(p) = FirstSegment(s)
    BY <1>7 DEF FirstSegment
<1>11. FirstSegment(Rendered(p)) = FirstSegment(Rendered(s))
    <2>1. Rendered(p).dirs = p.dirs /\ Rendered(p).stem = p.stem
        BY <1>7 DEF Rendered
    <2>2. Rendered(s).dirs = s.dirs /\ Rendered(s).stem = s.stem
        BY <1>3 DEF Rendered
    <2> QED BY <1>7, <1>9, <2>1, <2>2 DEF FirstSegment
<1>12. ~IsReserved(p)
    BY <1>8, <1>10, <1>11 DEF IsReserved
<1>13. p.ext \in {"", "md"} \cup TextExtensions \cup BinaryExtensions
    BY <1>7, <1>8, KindsOfSpellings
<1>14. p.stem \in Stems /\ p.ext \in Extensions
    BY <1>3, <1>7
<1> QED BY <1>6, <1>7, <1>8, <1>9, <1>10, <1>12, <1>13, <1>14 DEF Spelling

\* Directory is well formed.
LEMMA DirectoryShape ==
    ASSUME NEW dirs \in Seq(Stems), NEW n \in 1..Len(dirs)
    PROVE  /\ Directory(dirs, n) = Spelling(SubSeq(dirs, 1, n - 1), dirs[n], "", FALSE)
           /\ Directory(dirs, n) # RootSpelling /\ Kind(Directory(dirs, n)) = "directory"
           /\ SubSeq(dirs, 1, n - 1) \in Seq(Stems) /\ Len(SubSeq(dirs, 1, n - 1)) = n - 1
           /\ \A i \in 1..(n - 1) : SubSeq(dirs, 1, n - 1)[i] = dirs[i]
<1>1. Len(dirs) \in Nat /\ n \in Int /\ n > 0 /\ n <= Len(dirs)
    BY LenProperties
<1>2. Directory(dirs, n) = Spelling(SubSeq(dirs, 1, n - 1), dirs[n], "", FALSE)
    <2>1. n # 0
        BY <1>1
    <2> QED BY <2>1, Zenon DEF Directory
<1>3. Directory(dirs, n).ext = "" /\ Directory(dirs, n).slash = FALSE
    <2>1. PICK d : d = Directory(dirs, n)
        OBVIOUS
    <2>2. d = [dirs |-> SubSeq(dirs, 1, n - 1), stem |-> dirs[n], ext |-> "",
               slash |-> FALSE]
        BY <1>2, <2>1 DEF Spelling
    <2>3. d.ext = "" /\ d.slash = FALSE
        BY <2>2
    <2> QED BY <2>1, <2>3
<1>4. RootSpelling.slash = TRUE
    BY DEF RootSpelling, Spelling
<1>5. \A i \in 1..(n - 1) : dirs[i] \in Stems
    BY <1>1, ElementOfSeq
<1>6. /\ SubSeq(dirs, 1, n - 1) \in Seq(Stems)
      /\ Len(SubSeq(dirs, 1, n - 1)) = IF 1 <= n - 1 THEN (n - 1) - 1 + 1 ELSE 0
      /\ \A i \in 1..((n - 1) - 1 + 1) : SubSeq(dirs, 1, n - 1)[i] = dirs[1 + i - 1]
    <2>1. 1 \in Int /\ n - 1 \in Int
        BY <1>1
    <2> QED BY <1>5, <2>1, SubSeqProperties
<1>7. /\ Len(SubSeq(dirs, 1, n - 1)) = n - 1
      /\ \A i \in 1..(n - 1) : SubSeq(dirs, 1, n - 1)[i] = dirs[i]
    BY <1>1, <1>6
<1> QED BY <1>2, <1>3, <1>4, <1>6, <1>7, KindsOfSpellings

LEMMA RootIsADirectory == RootSpelling \in ValidPaths /\ Kind(RootSpelling) = "directory"
<1>1. RootSpelling \in Spellings /\ ValidatePath(RootSpelling)
    BY DEF Spellings, ValidatePath
<1>2. Canonical(RootSpelling) = RootSpelling
    BY DEF Canonical
<1>3. RootSpelling.ext = ""
    BY DEF RootSpelling, Spelling
<1> QED BY <1>1, <1>2, <1>3, KindsOfSpellings DEF ValidPaths

\* A directory that ensureParents creates has a path that was never checked: it
\* would pass ValidatePath as well.
THEOREM AncestorsAreValid == ValidAbove
<1> SUFFICES ASSUME NEW p \in ValidPaths, NEW d \in Ancestors(p)
             PROVE  d \in ValidPaths /\ Kind(d) = "directory"
    BY DEF ValidAbove
<1>1. p # RootSpelling
    BY DEF Ancestors
<1>2. PICK n \in 0..Len(p.dirs) : d = Directory(p.dirs, n)
    BY <1>1 DEF Ancestors
<1>3. CASE n = 0
    BY <1>2, <1>3, RootIsADirectory DEF Directory
<1>4. CASE n # 0
    <2> DEFINE up == SubSeq(p.dirs, 1, n - 1)
    <2>1. /\ p.dirs \in Seq(Stems) /\ Len(p.dirs) < MaxPathDepth
          /\ Range(p.dirs) \cup {p.stem} \subseteq PlainStems
          /\ ~IsReserved(p)
        BY <1>1, ValidShape
    <2>2. Len(p.dirs) \in Nat /\ MaxPathDepth \in Nat
        <3>1. MaxPathDepth \in Nat
            BY GrammarAssumption DEF GrammarAssumption
        <3> QED BY <2>1, <3>1, LenProperties
    <2>3. n \in 1..Len(p.dirs) /\ n - 1 \in 0..MaxPathDepth /\ n - 1 < MaxPathDepth
        BY <1>4, <2>1, <2>2
    <2>4. /\ d = Spelling(up, p.dirs[n], "", FALSE) /\ d # RootSpelling
          /\ Kind(d) = "directory" /\ up \in Seq(Stems) /\ Len(up) = n - 1
          /\ \A i \in 1..(n - 1) : up[i] = p.dirs[i]
        BY <1>2, <2>1, <2>3, DirectoryShape
    <2> HIDE DEF up
    <2>5. /\ d = [dirs |-> up, stem |-> p.dirs[n], ext |-> "", slash |-> FALSE]
          /\ d.dirs = up /\ d.stem = p.dirs[n] /\ d.ext = "" /\ d.slash = FALSE
        BY <2>4 DEF Spelling
    <2>6. \A i \in 1..Len(p.dirs) : p.dirs[i] \in PlainStems
        BY <2>1 DEF Range
    <2>7. Range(up) \cup {p.dirs[n]} \subseteq PlainStems
        <3>1. DOMAIN up = 1..(n - 1)
            BY <2>4, LenProperties
        <3>2. \A i \in 1..(n - 1) : i \in 1..Len(p.dirs)
            BY <2>2, <2>3
        <3> QED BY <2>3, <2>4, <2>6, <3>1, <3>2 DEF Range
    <2>8. d \in Spellings
        <3>1. up \in [1..(n - 1) -> Stems]
            BY <2>4, LenProperties
        <3>2. p.dirs[n] \in Stems
            BY <2>1, <2>3
        <3>3. "" \in Extensions
            BY DEF Extensions
        <3> QED BY <2>3, <2>5, <3>1, <3>2, <3>3 DEF Spellings
    <2>9. FirstSegment(d) = FirstSegment(p) /\ FirstSegment(Rendered(d)) = FirstSegment(d)
        <3>0. p.dirs # <<>>
            BY <2>2, <2>3, EmptySeq
        <3>1. FirstSegment(p) = <<p.dirs[1], "">>
            BY <3>0 DEF FirstSegment
        <3>2. FirstSegment(d) = <<p.dirs[1], "">>
            <4>1. CASE n = 1
                <5>1. Len(up) = 0 /\ d.stem = p.dirs[1]
                    <6>1. Len(up) = n - 1 /\ d.stem = p.dirs[n]
                        BY <2>4, <2>5, Zenon
                    <6> QED BY <4>1, <6>1
                <5>2. up = <<>>
                    BY <2>4, <5>1, EmptySeq DEF Spelling
                <5> QED BY <2>5, <5>1, <5>2 DEF FirstSegment
            <4>2. CASE n # 1
                <5>1. n - 1 # 0 /\ 1 \in 1..(n - 1)
                    BY <2>2, <2>3, <4>2
                <5>2. up # <<>> /\ up[1] = p.dirs[1]
                    BY <2>4, <5>1, EmptySeq
                <5> QED BY <2>5, <5>2 DEF FirstSegment
            <4> QED BY <4>1, <4>2
        <3>3. Rendered(d) = d
            BY <2>4 DEF Rendered
        <3> QED BY <3>1, <3>2, <3>3
    <2>10. ~IsReserved(d)
        BY <2>1, <2>9 DEF IsReserved
    <2>11. FirstSegment(d) # <<"tmp", "yaml">>
        BY <2>5 DEF FirstSegment
    <2>12. ValidatePath(d)
        BY <2>3, <2>4, <2>5, <2>7, <2>10, <2>11 DEF ValidatePath
    <2>13. Canonical(d) = d
        BY <2>4, <2>5 DEF Canonical
    <2> QED BY <2>4, <2>8, <2>12, <2>13 DEF ValidPaths
<1> QED BY <1>3, <1>4

THEOREM ParentsStayValid == ReadersSpec => []ParentsAreValid
<1>1. ParentsAreValid
    BY AncestorsAreValid DEF ParentsAreValid
<1> QED BY <1>1, PTL

-----------------------------------------------------------------------------
\* What answers an address.

\* The site of two paths holds, besides them, only directories.
LEMMA SiteOthers ==
    ASSUME NEW p \in ValidPaths, NEW q \in ValidPaths, NEW x \in SiteOf(p, q)
    PROVE  x \notin {p, q} => x.ext = "" /\ Kind(x) = "directory"
<1>1. ASSUME NEW y \in ValidPaths, x \in Ancestors(y)
      PROVE  x.ext = "" /\ Kind(x) = "directory"
    <2>1. Kind(x) = "directory"
        BY <1>1, AncestorsAreValid DEF ValidAbove
    <2>2. x.ext # "md" /\ ~(x.ext \notin {"", "md"})
        BY <2>1, KindsOfSpellings
    <2> QED BY <2>1, <2>2
<1> QED BY <1>1 DEF SiteOf

LEMMA SearchShape ==
    ASSUME NEW a \in SearchPages
    PROVE  a.dirs = <<>> /\ a.stem = "search" /\ a.ext \in {"", "json"} /\ a.slash = FALSE
<1>1. PICK ext \in {"", "json"} : a = Spelling(<<>>, "search", ext, FALSE)
    BY DEF SearchPages
<1>2. a = [dirs |-> <<>>, stem |-> "search", ext |-> ext, slash |-> FALSE]
    BY <1>1 DEF Spelling
<1> QED BY <1>2

\* A valid page, and a valid directory below the root, field by field.
LEMMA ValidFields ==
    ASSUME NEW p \in ValidPaths, p # RootSpelling
    PROVE  /\ p = [dirs |-> p.dirs, stem |-> p.stem, ext |-> p.ext, slash |-> FALSE]
           /\ p.slash = FALSE /\ p.dirs \in Seq(Stems) /\ p.stem \in Stems /\ p.stem # ""
           /\ Kind(p) = "page" => p.ext = "md"
           /\ Kind(p) = "directory" => p.ext = ""
<1>1. p = [dirs |-> p.dirs, stem |-> p.stem, ext |-> p.ext, slash |-> FALSE]
    BY ValidShape DEF Spelling
<1>2. p.slash = FALSE
    BY <1>1
<1>3. p.dirs \in Seq(Stems) /\ p.stem \in Stems /\ p.stem \in PlainStems
    BY ValidShape
<1>4. p.stem # ""
    BY <1>3, GrammarAssumption DEF GrammarAssumption
<1> QED BY <1>1, <1>2, <1>3, <1>4, KindsOfSpellings

\* The index page of a directory.
LEMMA IndexShape ==
    ASSUME NEW d, NEW ext
    PROVE  /\ InDirectory(d, "index", ext).ext = ext
           /\ InDirectory(d, "index", ext).stem = "index"
           /\ InDirectory(d, "index", ext).slash = FALSE
           /\ InDirectory(d, "index", ext).dirs =
                IF d = RootSpelling THEN <<>> ELSE Append(d.dirs, d.stem)
<1>1. PICK ds : ds = IF d = RootSpelling THEN <<>> ELSE Append(d.dirs, d.stem)
    OBVIOUS
<1>2. PICK i : i = InDirectory(d, "index", ext)
    OBVIOUS
<1>3. i = [dirs |-> ds, stem |-> "index", ext |-> ext, slash |-> FALSE]
    <2>1. CASE d = RootSpelling
        BY <1>1, <1>2, <2>1 DEF InDirectory, Spelling
    <2>2. CASE d # RootSpelling
        BY <1>1, <1>2, <2>2 DEF InDirectory, Spelling
    <2> QED BY <2>1, <2>2
<1>4. i.ext = ext /\ i.stem = "index" /\ i.slash = FALSE /\ i.dirs = ds
    BY <1>3
<1> QED BY <1>1, <1>2, <1>4

\* The slash form of a directory asks for its index page, then for itself.
LEMMA SlashOfDirectory ==
    ASSUME NEW d \in ValidPaths, Kind(d) = "directory"
    PROVE  /\ WithSlash(d).ext = "" /\ WithSlash(d).slash = TRUE
           /\ Canonical(WithSlash(d)) = d /\ WithSlash(WithSlash(d)) = WithSlash(d)
           /\ PageCandidate(WithSlash(d)) = {InDirectory(d, "index", "md")}
<1>1. CASE d = RootSpelling
    <2>1. WithSlash(d) = RootSpelling /\ RootSpelling.ext = "" /\ RootSpelling.slash = TRUE
        BY <1>1 DEF WithSlash, RootSpelling, Spelling
    <2>2. WithSlash(RootSpelling) = RootSpelling /\ Canonical(RootSpelling) = RootSpelling
        BY DEF WithSlash, Canonical
    <2> QED BY <1>1, <2>1, <2>2 DEF PageCandidate
<1>2. CASE d # RootSpelling
    <2>1. /\ d = [dirs |-> d.dirs, stem |-> d.stem, ext |-> "", slash |-> FALSE]
          /\ d.stem # ""
        BY <1>2, ValidFields
    <2>2. PICK w : w = WithSlash(d)
        OBVIOUS
    <2>a. PICK ds, st : ds = d.dirs /\ st = d.stem
        OBVIOUS
    <2>b. d = [dirs |-> ds, stem |-> st, ext |-> "", slash |-> FALSE] /\ st # ""
        BY <2>1, <2>a
    <2>3. w = [dirs |-> ds, stem |-> st, ext |-> "", slash |-> TRUE]
        <3>1. w = [d EXCEPT !.slash = TRUE]
            BY <1>2, <2>2 DEF WithSlash
        <3> QED BY <2>b, <3>1
    <2>4. w.stem # "" /\ w.ext = "" /\ w.slash = TRUE
        BY <2>b, <2>3
    <2>5. RootSpelling.stem = ""
        BY DEF RootSpelling, Spelling
    <2>6. w # RootSpelling
        BY <2>4, <2>5
    <2>7. Canonical(w) = d
        <3>1. Canonical(w) = [w EXCEPT !.slash = FALSE]
            BY <2>6 DEF Canonical
        <3> QED BY <2>b, <2>3, <3>1
    <2>8. WithSlash(w) = w
        <3>1. WithSlash(w) = [w EXCEPT !.slash = TRUE]
            BY <2>6 DEF WithSlash
        <3> QED BY <2>3, <3>1
    <2>9. PageCandidate(w) = {InDirectory(d, "index", "md")}
        BY <2>4, <2>7 DEF PageCandidate
    <2> QED BY <2>2, <2>4, <2>7, <2>8, <2>9
<1> QED BY <1>1, <1>2

\* The directory of an index page, and the other way round.
LEMMA DirectoryOfIndex ==
    ASSUME NEW d \in ValidPaths, Kind(d) = "directory", NEW dirs,
           dirs = IF d = RootSpelling THEN <<>> ELSE Append(d.dirs, d.stem)
    PROVE  Directory(dirs, Len(dirs)) = d
<1>1. CASE d = RootSpelling
    <2>1. dirs = <<>> /\ Len(dirs) = 0
        BY <1>1, EmptySeq
    <2> QED BY <1>1, <2>1 DEF Directory
<1>2. CASE d # RootSpelling
    <2>1. PICK ds, st : ds = d.dirs /\ st = d.stem
        OBVIOUS
    <2>2. /\ d = [dirs |-> ds, stem |-> st, ext |-> "", slash |-> FALSE]
          /\ ds \in Seq(Stems) /\ st \in Stems
        BY <1>2, <2>1, ValidFields
    <2>3. /\ dirs = Append(ds, st) /\ dirs \in Seq(Stems) /\ Len(dirs) = Len(ds) + 1
          /\ dirs[Len(ds) + 1] = st /\ Len(ds) \in Nat
          /\ \A i \in 1..Len(ds) : dirs[i] = ds[i]
        <3>1. dirs = Append(ds, st)
            BY <1>2, <2>1
        <3>2. Len(ds) \in Nat /\ ds \in Seq(Stems) /\ st \in Stems
            BY <2>2, LenProperties
        <3>3. /\ Append(ds, st) \in Seq(Stems) /\ Len(Append(ds, st)) = Len(ds) + 1
              /\ \A i \in 1..Len(ds) : Append(ds, st)[i] = ds[i]
              /\ Append(ds, st)[Len(ds) + 1] = st
            BY <3>2, AppendProperties
        <3> QED BY <3>1, <3>2, <3>3, Zenon
    <2>4. Len(dirs) \in 1..Len(dirs) /\ Len(dirs) - 1 = Len(ds) /\ Len(dirs) # 0
        BY <2>3
    <2>5. PICK up : up = SubSeq(dirs, 1, Len(dirs) - 1)
        OBVIOUS
    <2>6. /\ up \in Seq(Stems) /\ Len(up) = Len(dirs) - 1
          /\ \A i \in 1..(Len(dirs) - 1) : up[i] = dirs[i]
        BY <2>3, <2>4, <2>5, DirectoryShape
    <2>7. up = ds
        <3>1. Len(up) = Len(ds) /\ \A i \in 1..Len(up) : up[i] = ds[i]
            BY <2>3, <2>4, <2>6
        <3> QED BY <2>2, <2>6, <3>1, SeqEqual
    <2>8. dirs[Len(dirs)] = st
        BY <2>3
    <2>9. PICK e : e = Directory(dirs, Len(dirs))
        OBVIOUS
    <2>10. e = Spelling(ds, st, "", FALSE)
        BY <2>4, <2>5, <2>7, <2>8, <2>9, Zenon DEF Directory
    <2> QED BY <2>2, <2>9, <2>10 DEF Spelling
<1> QED BY <1>1, <1>2

LEMMA IndexOfDirectory ==
    ASSUME NEW p \in ValidPaths, IsIndexPage(p), NEW d, d = Directory(p.dirs, Len(p.dirs))
    PROVE  /\ d \in ValidPaths /\ Kind(d) = "directory"
           /\ InDirectory(d, "index", "md") = p
<1>1. Kind(p) = "page" /\ p.stem = "index" /\ p # RootSpelling
    BY RootIsADirectory DEF IsIndexPage
<1>2. PICK dirs : dirs = p.dirs
    OBVIOUS
<1>3. /\ p = [dirs |-> dirs, stem |-> "index", ext |-> "md", slash |-> FALSE]
      /\ dirs \in Seq(Stems) /\ Len(dirs) \in Nat
    BY <1>1, <1>2, ValidFields, LenProperties
<1>4. d \in Ancestors(p)
    <2>1. Len(p.dirs) \in 0..Len(p.dirs)
        BY <1>2, <1>3
    <2> QED BY <1>1, <2>1 DEF Ancestors
<1>5. d \in ValidPaths /\ Kind(d) = "directory"
    BY <1>4, AncestorsAreValid DEF ValidAbove
<1>6. PICK i : i = InDirectory(d, "index", "md")
    OBVIOUS
<1>7. CASE Len(dirs) = 0
    <2>1. dirs = <<>> /\ d = RootSpelling
        BY <1>2, <1>3, <1>7, EmptySeq DEF Directory
    <2>2. i = [dirs |-> <<>>, stem |-> "index", ext |-> "md", slash |-> FALSE]
        BY <1>6, <2>1 DEF InDirectory, Spelling
    <2> QED BY <1>3, <1>5, <1>6, <2>1, <2>2
<1>8. CASE Len(dirs) # 0
    <2>1. Len(dirs) \in 1..Len(dirs)
        BY <1>3, <1>8
    <2>2. PICK up, st : up = SubSeq(dirs, 1, Len(dirs) - 1) /\ st = dirs[Len(dirs)]
        OBVIOUS
    <2>3. d = Spelling(up, st, "", FALSE)
        BY <1>2, <1>8, <2>2, Zenon DEF Directory
    <2>4. /\ d # RootSpelling /\ up \in Seq(Stems) /\ Len(up) = Len(dirs) - 1
          /\ \A n \in 1..(Len(dirs) - 1) : up[n] = dirs[n]
        BY <1>2, <1>3, <2>1, <2>2, DirectoryShape
    <2>5. d.dirs = up /\ d.stem = st
        <3>1. PICK e : e = d
            OBVIOUS
        <3>2. e = [dirs |-> up, stem |-> st, ext |-> "", slash |-> FALSE]
            BY <2>3, <3>1 DEF Spelling
        <3>3. e.dirs = up /\ e.stem = st
            BY <3>2
        <3> QED BY <3>1, <3>3
    <2>6. i = [dirs |-> Append(up, st), stem |-> "index", ext |-> "md", slash |-> FALSE]
        BY <1>6, <2>4, <2>5 DEF InDirectory, Spelling
    <2>7. st \in Stems
        BY <1>3, <2>1, <2>2, ElementOfSeq
    <2>8. PICK back : back = Append(up, st)
        OBVIOUS
    <2>9. /\ back \in Seq(Stems) /\ Len(back) = Len(up) + 1 /\ back[Len(up) + 1] = st
          /\ \A n \in 1..Len(up) : back[n] = up[n]
        BY <2>4, <2>7, <2>8, AppendProperties
    <2>10. Len(back) = Len(dirs) /\ \A n \in 1..Len(back) : back[n] = dirs[n]
        BY <1>3, <2>2, <2>4, <2>9
    <2>11. back = dirs
        BY <1>3, <2>9, <2>10, SeqEqual
    <2> QED BY <1>3, <1>5, <1>6, <2>6, <2>8, <2>11
<1> QED BY <1>7, <1>8

\* No page takes the addresses of the search page: the grammar reserves them.
LEMMA PagesAreNotTheSearch ==
    ASSUME NEW p \in ValidPaths, Kind(p) = "page", NEW ext
    PROVE  [p EXCEPT !.ext = ext] \notin SearchPages
<1>1. PICK ds, st : ds = p.dirs /\ st = p.stem
    OBVIOUS
<1>2. p # RootSpelling
    BY RootIsADirectory
<1>3. p = [dirs |-> ds, stem |-> st, ext |-> "md", slash |-> FALSE]
    BY <1>1, <1>2, ValidFields
<1>4. PICK w : w = Rendered(p)
    OBVIOUS
<1>5. w = [dirs |-> ds, stem |-> st, ext |-> "", slash |-> FALSE]
    BY <1>3, <1>4 DEF Rendered
<1>6. FirstSegment(w) # <<"search", "">>
    <2>1. ~IsReserved(p)
        BY <1>2, ValidShape
    <2>2. FirstSegment(w) \notin ReservedRoot
        BY <1>4, <2>1 DEF IsReserved
    <2> QED BY <2>2, GrammarAssumption DEF GrammarAssumption
<1>7. ASSUME ds = <<>>, st = "search" PROVE FALSE
    <2>1. w.dirs = <<>> /\ w.stem = "search" /\ w.ext = ""
        BY <1>5, <1>7
    <2>2. FirstSegment(w) = <<"search", "">>
        BY <2>1 DEF FirstSegment
    <2> QED BY <1>6, <2>2
<1>8. PICK a : a = [p EXCEPT !.ext = ext]
    OBVIOUS
<1>9. a.dirs = ds /\ a.stem = st
    BY <1>3, <1>8
<1> QED BY <1>7, <1>8, <1>9, SearchShape

\* Resolve, where a page is at the address and where none is.
LEMMA ResolvesPage ==
    ASSUME NEW a, NEW site, NEW p \in site, PageCandidate(a) = {p}
    PROVE  Resolve(a, site) = {p}
BY DEF Resolve

LEMMA ResolvesDirectory ==
    ASSUME NEW p \in ValidPaths, NEW q \in ValidPaths, Kind(p) = "directory",
           MayCoexist(p, q), NEW a \in {p, WithSlash(p)}
    PROVE  Resolve(a, SiteOf(p, q)) =
                IF q = InDirectory(p, "index", "md") THEN {q} ELSE {p}
<1> DEFINE site == SiteOf(p, q)
           index == InDirectory(p, "index", "md")
<1>1. p \in site /\ q \in site
    BY DEF SiteOf
<1>2. index.ext = "md" /\ index # p
    <2>1. index.ext = "md"
        BY IndexShape
    <2> HIDE DEF index
    <2>2. Kind(index) = "page"
        BY <2>1, KindsOfSpellings
    <2> QED BY <2>1, <2>2
<1>3. index \in site => index = q
    <2> HIDE DEF index
    <2> QED BY <1>2, SiteOthers
<1>4. /\ PageCandidate(WithSlash(p)) = {index} /\ WithSlash(WithSlash(p)) = WithSlash(p)
      /\ Canonical(WithSlash(p)) = p /\ WithSlash(p).ext = ""
    BY SlashOfDirectory
<1>5. CASE a = WithSlash(p)
    <2>1. /\ PageCandidate(a) = {index} /\ PageCandidate(WithSlash(a)) = {index}
          /\ Canonical(a) = p /\ Kind(a) = "directory"
        BY <1>4, <1>5, KindsOfSpellings
    <2> HIDE DEF site, index
    <2>2. CASE q = index
        <3>1. PageCandidate(a) = {q} /\ q \in site
            BY <1>1, <2>1, <2>2
        <3>2. Resolve(a, site) = {q}
            BY <3>1, ResolvesPage
        <3> QED BY <2>2, <3>2 DEF site, index
    <2>3. CASE q # index
        <3>1. PageCandidate(a) \cap site = {} /\ {p} \cap site = {p}
            BY <1>1, <1>3, <2>1, <2>3
        <3>2. Resolve(a, site) = {p}
            BY <2>1, <3>1 DEF Resolve
        <3> QED BY <2>3, <3>2 DEF site, index
    <2> QED BY <2>2, <2>3
<1>6. CASE a = p /\ p # WithSlash(p)
    <2>1. p # RootSpelling
        BY <1>6 DEF WithSlash
    <2>2. PICK ds, st : ds = p.dirs /\ st = p.stem
        OBVIOUS
    <2>3. p = [dirs |-> ds, stem |-> st, ext |-> "", slash |-> FALSE]
        BY <2>1, <2>2, ValidFields
    <2>4. PICK page : page = [p EXCEPT !.ext = "md"]
        OBVIOUS
    <2>5. page = [dirs |-> ds, stem |-> st, ext |-> "md", slash |-> FALSE]
        BY <2>3, <2>4
    <2>6. PageCandidate(p) = {page} /\ Canonical(p) = p
        <3>1. p.slash = FALSE /\ p.ext = ""
            BY <2>3
        <3>2. Canonical(p) = [p EXCEPT !.slash = FALSE]
            BY <2>1 DEF Canonical
        <3> QED BY <2>3, <2>4, <3>1, <3>2 DEF PageCandidate
    <2>7. page \notin site
        <3>0. page.ext = "md"
            BY <2>5
        <3>1. Kind(page) = "page"
            BY <3>0, KindsOfSpellings
        <3>2. Rendered(page) = p /\ Rendered(p) = p
            <4>1. Rendered(page) = [page EXCEPT !.ext = ""] /\ Rendered(p) = p
                BY <3>1 DEF Rendered
            <4> QED BY <2>3, <2>5, <4>1
        <3>3. page # p
            BY <3>1
        <3> QED BY <1>1, <3>2, <3>3 DEF MayCoexist
    <2> HIDE DEF site, index
    <2>8. PageCandidate(p) \cap site = {} /\ {Canonical(p)} \cap site = {p}
        BY <1>1, <2>6, <2>7
    <2>9. CASE q = index
        <3>1. PageCandidate(WithSlash(p)) \cap site = {q}
            BY <1>1, <1>4, <2>9
        <3>2. Resolve(a, site) = {q}
            BY <1>6, <2>8, <3>1 DEF Resolve
        <3> QED BY <2>9, <3>2 DEF site, index
    <2>10. CASE q # index
        <3>1. PageCandidate(WithSlash(p)) \cap site = {}
            BY <1>3, <1>4, <2>10
        <3>2. Resolve(a, site) = {p}
            BY <1>6, <2>8, <3>1 DEF Resolve
        <3> QED BY <2>10, <3>2 DEF site, index
    <2> QED BY <2>9, <2>10
<1> QED BY <1>5, <1>6

\* serveContent, where the address names no file: it is resolved.
LEMMA AnswersResolved ==
    ASSUME NEW a, NEW site, a \notin SearchPages, a.ext = ""
    PROVE  Answers(a, site) = Resolve(a, site)
<1>1. a # ConfigSpelling
    <2>1. a = ConfigSpelling => a.ext = "yaml"
        BY DEF ConfigSpelling, Spelling
    <2> QED BY <2>1
<1>2. a.ext \notin TextExtensions /\ a.ext \notin BinaryExtensions
    BY GrammarAssumption DEF GrammarAssumption
<1> QED BY <1>1, <1>2 DEF Answers

LEMMA AnswersAsJSON ==
    ASSUME NEW a, NEW site, a \notin SearchPages, a.ext = "json", a \notin site
    PROVE  Answers(a, site) = Resolve(WithoutJSON(a), site)
<1>1. a # ConfigSpelling
    <2>1. a = ConfigSpelling => a.ext = "yaml"
        BY DEF ConfigSpelling, Spelling
    <2> QED BY <2>1
<1> QED BY <1>1 DEF Answers

\* A page answers at its path and at its two addresses.
LEMMA PageAnswers ==
    ASSUME NEW p \in ValidPaths, Kind(p) = "page", NEW site, p \in site
    PROVE  /\ Answers(p, site) = {p} /\ Answers(HTMLPath(p), site) = {p}
           /\ JSONPath(p) \notin site => Answers(JSONPath(p), site) = {p}
<1>0. p # RootSpelling
    BY RootIsADirectory
<1>1. PICK ds, st : ds = p.dirs /\ st = p.stem
    OBVIOUS
<1>2. p = [dirs |-> ds, stem |-> st, ext |-> "md", slash |-> FALSE]
    BY <1>0, <1>1, ValidFields
<1>3. PICK plain, json : plain = [p EXCEPT !.ext = ""] /\ json = [p EXCEPT !.ext = "json"]
    OBVIOUS
<1>4. /\ plain = [dirs |-> ds, stem |-> st, ext |-> "", slash |-> FALSE]
      /\ json = [dirs |-> ds, stem |-> st, ext |-> "json", slash |-> FALSE]
    BY <1>2, <1>3
<1>5. /\ plain.ext = "" /\ plain.slash = FALSE /\ json.ext = "json"
      /\ json.stem = st /\ json.dirs = ds /\ p.ext = "md"
    BY <1>2, <1>4
<1>6. plain \notin SearchPages /\ json \notin SearchPages
    BY <1>3, PagesAreNotTheSearch
<1>7. Answers(p, site) = {p}
    <2>1. p \notin SearchPages
        BY <1>5, SearchShape
    <2>2. p # ConfigSpelling
        <3>1. p = ConfigSpelling => p.ext = "yaml"
            BY DEF ConfigSpelling, Spelling
        <3> QED BY <1>5, <3>1
    <2>3. p.ext \notin TextExtensions
        BY <1>5, GrammarAssumption DEF GrammarAssumption
    <2> QED BY <1>5, <2>1, <2>2, <2>3 DEF Answers
<1>8. PageCandidate(plain) = {p}
    <2>1. PageCandidate(plain) = {[plain EXCEPT !.ext = "md"]}
        BY <1>5 DEF PageCandidate
    <2>2. [plain EXCEPT !.ext = "md"] = p
        <3>1. PICK w : w = [plain EXCEPT !.ext = "md"]
            OBVIOUS
        <3>2. w = [dirs |-> ds, stem |-> st, ext |-> "md", slash |-> FALSE]
            BY <1>4, <3>1
        <3> QED BY <1>2, <3>1, <3>2
    <2> QED BY <2>1, <2>2
<1>9. CASE st # "index"
    <2>1. HTMLPath(p) = plain /\ JSONPath(p) = json
        BY <1>1, <1>3, <1>9 DEF HTMLPath, JSONPath, IsIndexPage
    <2>a. Resolve(plain, site) = {p}
        BY <1>8, ResolvesPage
    <2>2. Answers(plain, site) = {p}
        BY <1>5, <1>6, <2>a, AnswersResolved
    <2>3. WithoutJSON(json) = plain
        <3>1. WithoutJSON(json) = [json EXCEPT !.ext = ""]
            BY <1>5, <1>9 DEF WithoutJSON
        <3> QED BY <1>4, <3>1
    <2>4. json \notin site => Answers(json, site) = {p}
        BY <1>5, <1>6, <2>3, <2>a, AnswersAsJSON
    <2> QED BY <1>7, <2>1, <2>2, <2>4
<1>10. CASE st = "index"
    <2>1. PICK d : d = Directory(p.dirs, Len(p.dirs))
        OBVIOUS
    <2>2. IsIndexPage(p)
        BY <1>1, <1>10 DEF IsIndexPage
    <2>3. /\ d \in ValidPaths /\ Kind(d) = "directory" /\ InDirectory(d, "index", "md") = p
        BY <2>1, <2>2, IndexOfDirectory
    <2>4. PICK a : a = WithSlash(d)
        OBVIOUS
    <2>5. a.ext = "" /\ a.slash = TRUE /\ PageCandidate(a) = {p}
        BY <2>3, <2>4, SlashOfDirectory
    <2>6. a \notin SearchPages
        BY <2>5, SearchShape
    <2>7. HTMLPath(p) = a /\ JSONPath(p) = json
        BY <1>3, <2>1, <2>2, <2>4 DEF HTMLPath, JSONPath, IsIndexPage
    <2>a. Resolve(a, site) = {p}
        BY <2>5, ResolvesPage
    <2>8. Answers(a, site) = {p}
        BY <2>5, <2>6, <2>a, AnswersResolved
    <2>9. WithoutJSON(json) = a
        BY <1>1, <1>5, <1>10, <2>1, <2>4 DEF WithoutJSON
    <2>10. json \notin site => Answers(json, site) = {p}
        BY <1>5, <1>6, <2>9, <2>a, AnswersAsJSON
    <2> QED BY <1>7, <2>7, <2>8, <2>10
<1> QED BY <1>9, <1>10

\* A directory answers at its path and its two addresses, unless it has an index
\* page, which answers there.
LEMMA DirectoryAnswers ==
    ASSUME NEW p \in ValidPaths \ SearchPages, NEW q \in ValidPaths,
           Kind(p) = "directory", MayCoexist(p, q),
           NEW opened, opened = IF q = InDirectory(p, "index", "md") THEN {q} ELSE {p},
           NEW site, site = SiteOf(p, q)
    PROVE  /\ Answers(p, site) = opened /\ Answers(HTMLPath(p), site) = opened
           /\ JSONPath(p) \notin site => Answers(JSONPath(p), site) = opened
<1>1. PICK a : a = WithSlash(p)
    OBVIOUS
<1>2. a.ext = "" /\ a.slash = TRUE
    BY <1>1, SlashOfDirectory
<1>3. Resolve(p, site) = opened /\ Resolve(a, site) = opened
    BY <1>1, ResolvesDirectory
<1>4. p.ext = "" /\ p \notin SearchPages
    <2>1. p.ext # "md" /\ ~(p.ext \notin {"", "md"})
        BY KindsOfSpellings
    <2> QED BY <2>1
<1>5. Answers(p, site) = opened
    BY <1>3, <1>4, AnswersResolved
<1>6. Answers(HTMLPath(p), site) = opened
    <2>1. HTMLPath(p) = a
        BY <1>1 DEF HTMLPath, IsIndexPage
    <2>2. a \notin SearchPages
        BY <1>2, SearchShape
    <2> QED BY <1>2, <1>3, <2>1, <2>2, AnswersResolved
<1>7. ASSUME JSONPath(p) \notin site PROVE Answers(JSONPath(p), site) = opened
    <2>1. PICK json : json = InDirectory(p, "index", "json")
        OBVIOUS
    <2>2. JSONPath(p) = json
        BY <2>1 DEF JSONPath
    <2>3. /\ json.ext = "json" /\ json.stem = "index"
          /\ json.dirs = IF p = RootSpelling THEN <<>> ELSE Append(p.dirs, p.stem)
        BY <2>1, IndexShape
    <2>4. json \notin SearchPages
        BY <2>3, SearchShape
    <2>5. WithoutJSON(json) = a
        <3>1. Directory(json.dirs, Len(json.dirs)) = p
            BY <2>3, DirectoryOfIndex
        <3> QED BY <1>1, <2>3, <3>1 DEF WithoutJSON
    <2> QED BY <1>3, <1>7, <2>2, <2>3, <2>4, <2>5, AnswersAsJSON
<1> QED BY <1>5, <1>6, <1>7

\* Anything else is served as the file it is.
LEMMA FileAnswers ==
    ASSUME NEW p \in ValidPaths \ SearchPages, Kind(p) \notin {"page", "directory"},
           NEW site, p \in site
    PROVE  Answers(p, site) = {p} /\ HTMLPath(p) = p
<1>1. p # RootSpelling
    BY RootIsADirectory
<1>2. p.ext \in {"", "md"} \cup TextExtensions \cup BinaryExtensions
    BY <1>1, ValidShape
<1>3. p.ext \notin {"", "md"}
    BY KindsOfSpellings
<1>4. HTMLPath(p) = p
    BY DEF HTMLPath, IsIndexPage
<1>5. p.ext \in BinaryExtensions => p.ext \notin TextExtensions /\ p.ext # "json"
    BY GrammarAssumption DEF GrammarAssumption
<1>6. Answers(p, site) = {p}
    <2>1. CASE p = ConfigSpelling
        BY <2>1 DEF Answers
    <2>2. CASE p # ConfigSpelling /\ p.ext \in TextExtensions
        BY <2>2 DEF Answers
    <2>3. CASE p # ConfigSpelling /\ p.ext \in BinaryExtensions
        BY <1>5, <2>3 DEF Answers
    <2> QED BY <1>2, <1>3, <2>1, <2>2, <2>3
<1> QED BY <1>4, <1>6

\* Two entries that do not render alike each answer at their own addresses,
\* for every grammar of segments and extensions and paths of every depth.
THEOREM EntriesLiveApart == ReadersSpec => []EntriesAnswerAtTheirAddresses
<1>1. ASSUME NEW p \in ValidPaths \ SearchPages, NEW q \in ValidPaths \ SearchPages,
             MayCoexist(p, q), NEW site, site = SiteOf(p, q),
             NEW opened, opened = IF Kind(p) = "directory" /\ q = InDirectory(p, "index", "md")
                                  THEN {q} ELSE {p}
      PROVE  /\ Answers(p, site) = opened
             /\ Answers(HTMLPath(p), site) = opened
             /\ Kind(p) \in {"page", "directory"} /\ JSONPath(p) \notin site =>
                  Answers(JSONPath(p), site) = opened
    <2>1. p \in site
        BY <1>1 DEF SiteOf
    <2>2. CASE Kind(p) = "page"
        BY <1>1, <2>1, <2>2, PageAnswers
    <2>3. CASE Kind(p) = "directory"
        BY <1>1, <2>3, DirectoryAnswers
    <2>4. CASE Kind(p) \notin {"page", "directory"}
        BY <1>1, <2>1, <2>4, FileAnswers
    <2> QED BY <2>2, <2>3, <2>4
<1>2. AnswerWhereTheyLive
    BY <1>1 DEF AnswerWhereTheyLive
<1>3. EntriesAnswerAtTheirAddresses
    BY <1>2 DEF EntriesAnswerAtTheirAddresses
<1> QED BY <1>3, PTL
=============================================================================
