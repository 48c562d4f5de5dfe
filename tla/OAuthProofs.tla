----------------------------- MODULE OAuthProofs -----------------------------
(***************************************************************************)
(* Theorems about OAuth, for any number of grants, requests and pairs: the *)
(* type invariant, a closed connection stays silent, a code is exchanged   *)
(* once, and a family that ended stays ended; and what a family holds that *)
(* two requests were never about at once.                                  *)
(***************************************************************************)
EXTENDS OAuth, TLAPS

-----------------------------------------------------------------------------
\* Init and every action keep the type invariant.
LEMMA TypeInit == Init => TypeOK
BY GrantAssumption, BoundAssumption
DEF Init, TypeOK, Issued, Pairs, Phases, Idle

\* What becomes of a request, and that it stays well-typed.
TypedRequests ==
    /\ phase \in [Requests -> Phases]
    /\ grant \in [Requests -> Grants \cup {NoGrant}]
    /\ pair \in [Requests -> 0..MaxPairs]
    /\ seen \in [Requests -> BOOLEAN]
    /\ \A r \in Requests : pair[r] \in 0..lastPair
    /\ \A r \in Requests : ~Idle(r) /\ phase[r] # "register" => grant[r] \in consented
    /\ \A r \in Requests : phase[r] \in {"rotate", "reuse"} => pair[r] # 0

LEMMA RequestEnds ==
    ASSUME TypeOK, NEW r \in Requests, Ends(r)
    PROVE  \A s \in Requests :
              /\ phase'[s] = IF s = r THEN "idle" ELSE phase[s]
              /\ grant'[s] = IF s = r THEN NoGrant ELSE grant[s]
              /\ pair'[s] = IF s = r THEN 0 ELSE pair[s]
BY DEF Ends, TypeOK

LEMMA EndsTyped ==
    ASSUME TypeOK, NEW r \in Requests, Ends(r), consented \subseteq consented',
           lastPair' \in {lastPair, lastPair + 1}
    PROVE  TypedRequests'
<1>1. lastPair \in Nat /\ lastPair <= lastPair'
    BY BoundAssumption DEF TypeOK
<1>2. /\ phase' \in [Requests -> Phases]
      /\ grant' \in [Requests -> Grants \cup {NoGrant}]
      /\ pair' \in [Requests -> 0..MaxPairs] /\ seen' \in [Requests -> BOOLEAN]
    BY BoundAssumption DEF Ends, TypeOK, Phases
<1>3. ASSUME NEW s \in Requests
      PROVE  /\ pair'[s] \in 0..lastPair'
             /\ ~Idle(s)' /\ phase'[s] # "register" => grant'[s] \in consented'
             /\ phase'[s] \in {"rotate", "reuse"} => pair'[s] # 0
    BY <1>1, RequestEnds DEF TypeOK, Idle
<1> QED BY <1>2, <1>3 DEF TypedRequests

LEMMA GoesTyped ==
    ASSUME TypeOK, NEW r \in Requests, NEW next \in Phases, Goes(r, next), ~Idle(r),
           phase[r] # "register", next \notin {"rotate", "reuse"},
           UNCHANGED <<grant, pair, seen, consented, lastPair>>
    PROVE  TypedRequests'
BY DEF Goes, TypeOK, TypedRequests, Idle

\* The steps of a request keep the type invariant.
LEMMA TypeRequestStep ==
    ASSUME TypeOK, NEW r \in Requests, RequestStep(r)
    PROVE  TypeOK'
<1> USE DEF TypedRequests
<1>0. /\ MaxPairs \in Nat /\ lastPair \in 0..MaxPairs /\ Issued \subseteq Pairs
      /\ \A n \in Issued : n \in 1..lastPair /\ familyOf[n] \in Pairs
    BY BoundAssumption DEF TypeOK, Issued, Pairs
<1>1. ASSUME NEW g \in Grants, PresentCode(r, g) PROVE TypeOK'
    <2>1. /\ g \in consented /\ UNCHANGED tables
          /\ phase' = [phase EXCEPT ![r] = "code"] /\ grant' = [grant EXCEPT ![r] = g]
          /\ pair' = [pair EXCEPT ![r] = 0] /\ seen' = [seen EXCEPT ![r] = g \in codeUsed]
        BY <1>1 DEF PresentCode, Goes
    <2>2. (g \in codeUsed) \in BOOLEAN /\ 0 \in 0..lastPair /\ 0 \in 0..MaxPairs
        BY <1>0
    <2>3. seen' \in [Requests -> BOOLEAN]
        BY <2>1, <2>2 DEF TypeOK
    <2>4. TypedRequests'
        BY <2>1, <2>2, <2>3 DEF TypeOK, Idle, Phases, tables
    <2> QED BY <2>1, <2>4 DEF TypeOK, Issued, tables
<1>2. ASSUME NEW n \in Pairs, PresentRefreshToken(r, n) PROVE TypeOK'
    <2>1. n \in Issued /\ familyOf[n] \in Pairs
        BY <1>0, <1>2 DEF PresentRefreshToken, MayRefresh, Live
    <2>2. overlapped' \subseteq Pairs
        BY <1>2, <2>1 DEF PresentRefreshToken, Overlaps, TypeOK
    <2>3. phase' \in [Requests -> Phases] /\ pair' \in [Requests -> 0..MaxPairs]
          /\ grant' \in [Requests -> Grants \cup {NoGrant}]
        BY <1>0, <1>2, <2>1 DEF PresentRefreshToken, Goes, TypeOK, Phases, Pairs
    <2>4. \A s \in Requests :
             /\ pair'[s] = IF s = r THEN n ELSE pair[s]
             /\ grant'[s] = IF s = r THEN grantOf[n] ELSE grant[s]
             /\ s # r => phase'[s] = phase[s]
        BY <1>2 DEF PresentRefreshToken, Goes, TypeOK
    <2>5. n \in 1..lastPair /\ grantOf[n] \in consented /\ n # 0 /\ n \in 0..lastPair
        BY <1>0, <2>1 DEF TypeOK
    <2>6. UNCHANGED <<consented, codeUsed, codeExpired, grantRevoked, lastPair, grantOf,
                   familyOf, rotated, revoked, expired, registered, closed, seen>>
        BY <1>2 DEF PresentRefreshToken
    <2>7. TypedRequests'
        BY <2>3, <2>4, <2>5, <2>6 DEF TypeOK, Idle
    <2> QED BY <2>2, <2>6, <2>7 DEF TypeOK, Issued
<1>3. ASSUME NEW n \in Pairs, RevokeOAuthToken(r, n) PROVE TypeOK'
    <2>1. familyOf[n] \in Pairs
        BY <1>0, <1>3 DEF RevokeOAuthToken
    <2>2. overlapped' \subseteq Pairs /\ revoked' \subseteq Tokens
        BY <1>3, <2>1 DEF RevokeOAuthToken, Overlaps, TokensOfFamily, TypeOK
    <2> QED BY <1>3, <2>2 DEF RevokeOAuthToken, TypeOK, Issued, Idle, requestVars
<1>4. CASE ConsumeAuthCode(r)
    <2>1. /\ phase[r] = "code" /\ ~Idle(r) /\ phase[r] # "register" /\ grant[r] \in consented
          /\ UNCHANGED <<consented, codeExpired, lastPair, grantOf, familyOf, rotated, expired,
                         registered, overlapped>>
        BY <1>4 DEF ConsumeAuthCode, Idle, TypeOK
    <2>2. codeUsed' \subseteq consented /\ grantRevoked' \subseteq consented
          /\ closed' \subseteq consented /\ revoked' \subseteq Tokens
        BY <1>4, <2>1 DEF ConsumeAuthCode, TokensOfGrant, TypeOK
    <2>3. CASE Ends(r)
        <3>1. TypedRequests'
            BY <2>1, <2>3, EndsTyped
        <3> QED BY <2>1, <2>2, <3>1 DEF TypeOK, Issued
    <2>4. CASE Goes(r, "issue") /\ UNCHANGED <<grant, pair, seen>>
        <3>1. TypedRequests'
            BY <2>1, <2>4, GoesTyped DEF Phases
        <3> QED BY <2>1, <2>2, <3>1 DEF TypeOK, Issued
    <2> QED BY <1>4, <2>3, <2>4 DEF ConsumeAuthCode
<1>5. CASE IssueTokens(r)
    <2>1. phase[r] = "issue" /\ UNCHANGED tables
        BY <1>5 DEF IssueTokens
    <2>2. CASE Ends(r)
        <3>1. TypedRequests'
            BY <2>1, <2>2, EndsTyped DEF tables
        <3> QED BY <2>1, <3>1 DEF TypeOK, Issued, tables
    <2>3. CASE Goes(r, "insert") /\ UNCHANGED <<grant, pair, seen>>
        <3>1. TypedRequests'
            BY <2>1, <2>3, GoesTyped DEF Phases, Idle, tables
        <3> QED BY <2>1, <3>1 DEF TypeOK, Issued, tables
    <2> QED BY <1>5, <2>2, <2>3 DEF IssueTokens
<1>6. CASE InsertTokens(r)
    <2>0. PICK n \in Pairs : n = lastPair + 1 /\ lastPair' = n /\ n <= MaxPairs
        BY <1>0, <1>6 DEF InsertTokens, Pairs
    <2>1. n \notin Issued /\ Issued' = Issued \cup {n}
        BY <1>0, <2>0 DEF Issued
    <2>2. grant[r] \in consented /\ grant[r] \in Grants /\ pair[r] \in 0..lastPair
        BY <1>6 DEF InsertTokens, TypeOK, Idle
    <2>3. FamilyFor(r, n) \in 1..n
        <3>1. CASE pair[r] = 0
            BY <2>0, <3>1 DEF FamilyFor, Pairs
        <3>2. CASE pair[r] # 0
            <4>1. pair[r] \in Issued /\ pair[r] < n
                BY <1>0, <2>0, <2>2, <3>2 DEF Issued
            <4>2. familyOf[pair[r]] \in 1..pair[r]
                BY <4>1 DEF TypeOK
            <4> QED BY <1>0, <2>0, <2>2, <3>2, <4>1, <4>2 DEF FamilyFor, Pairs
        <3> QED BY <3>1, <3>2
    <2>4. /\ grantOf' = [grantOf EXCEPT ![n] = grant[r]]
          /\ familyOf' = [familyOf EXCEPT ![n] = FamilyFor(r, n)]
          /\ Ends(r)
          /\ UNCHANGED <<consented, codeUsed, codeExpired, grantRevoked, rotated,
                         revoked, expired, registered, closed, overlapped>>
        BY <1>6, <2>0 DEF InsertTokens
    <2>5. grantOf' \in [Pairs -> Grants \cup {NoGrant}]
        BY <2>1, <2>2, <2>4 DEF TypeOK
    <2>6. familyOf' \in [Pairs -> 0..MaxPairs]
        <3>1. FamilyFor(r, n) \in 0..MaxPairs
            BY <1>0, <2>0, <2>3
        <3> QED BY <2>1, <2>4, <3>1 DEF TypeOK
    <2>7. ASSUME NEW m \in Issued' PROVE grantOf'[m] \in consented' /\ familyOf'[m] \in 1..m
        <3>1. CASE m = n
            BY <3>1, <2>1, <2>2, <2>3, <2>4 DEF TypeOK
        <3>2. CASE m \in Issued
            BY <1>0, <3>2, <2>1, <2>4 DEF TypeOK
        <3> QED BY <3>1, <3>2, <2>1
    <2>8. TypedRequests'
        BY <2>0, <2>4, EndsTyped
    <2>9. rotated' \subseteq Issued' /\ lastPair' \in 0..MaxPairs
        BY <1>0, <2>0, <2>1, <2>4 DEF TypeOK
    <2> QED BY <2>4, <2>5, <2>6, <2>7, <2>8, <2>9 DEF TypeOK
<1>7. CASE Rotate(r)
    <2>1. pair[r] \in Issued
        BY <1>0, <1>7 DEF Rotate, TypeOK, Issued
    <2>2. rotated' \subseteq Issued' /\ revoked' \subseteq Tokens
        BY <1>7, <2>1 DEF Rotate, TokensOfFamily, TypeOK, Issued
    <2>3. TypedRequests'
        BY <1>7, GoesTyped DEF Rotate, Idle, Phases
    <2> QED BY <1>7, <2>2, <2>3 DEF Rotate, TypeOK, Issued
<1>8. CASE RevokeFamily(r)
    <2>1. TypedRequests'
        BY <1>8, EndsTyped DEF RevokeFamily
    <2> QED BY <1>8, <2>1 DEF RevokeFamily, TokensOfFamily, TypeOK, Issued
<1>9. CASE CountRegistrations(r)
    BY <1>9 DEF CountRegistrations, TypeOK, Issued, Phases, Idle, Goes, tables
<1>10. CASE RegisterDynamicClient(r)
    <2>1. TypedRequests'
        BY <1>10, EndsTyped DEF RegisterDynamicClient
    <2> QED BY <1>10, <2>1 DEF RegisterDynamicClient, TypeOK, Issued
<1>11. CASE Abandon(r)
    <2>1. TypedRequests'
        BY <1>11, EndsTyped DEF Abandon, tables
    <2> QED BY <1>11, <2>1 DEF Abandon, TypeOK, Issued, tables
<1> QED BY <1>1, <1>2, <1>3, <1>4, <1>5, <1>6, <1>7, <1>8, <1>9, <1>10, <1>11
        DEF RequestStep

\* So do the owner's actions and the passing of time.
LEMMA TypeNext == TypeOK /\ [Next]_vars => TypeOK'
<1> SUFFICES ASSUME TypeOK, [Next]_vars PROVE TypeOK'
    OBVIOUS
<1> USE BoundAssumption DEF TypeOK, Issued, Pairs, Phases, Tokens, Idle, tables,
        requestVars
<1>1. ASSUME NEW r \in Requests, RequestStep(r) PROVE TypeOK'
    BY <1>1, TypeRequestStep
<1>2. ASSUME NEW g \in Grants, AuthorizeClient(g) PROVE TypeOK'
    BY <1>2 DEF AuthorizeClient
<1>3. ASSUME NEW g \in Grants, RevokeConnection(g) PROVE TypeOK'
    BY <1>3 DEF RevokeConnection, TokensOfGrant
<1>4. ASSUME NEW g \in Grants, ExpireCode(g) PROVE TypeOK'
    BY <1>4 DEF ExpireCode
<1>5. ASSUME NEW t \in Tokens, ExpireToken(t) PROVE TypeOK'
    BY <1>5 DEF ExpireToken
<1>6. CASE UNCHANGED vars
    BY <1>6 DEF vars
<1> QED BY <1>1, <1>2, <1>3, <1>4, <1>5, <1>6 DEF Next

\* Every reachable state is well-typed.
THEOREM TypeCorrect == Spec => []TypeOK
BY TypeInit, TypeNext, PTL DEF Spec
-----------------------------------------------------------------------------
\* A grant that was closed is revoked, in the same transaction.
ClosedAreRevoked == closed \subseteq grantRevoked

\* No step closes a grant without revoking it, and none gives one back.
LEMMA ClosedNext == ClosedAreRevoked /\ [Next]_vars => ClosedAreRevoked'
<1> SUFFICES ASSUME ClosedAreRevoked, [Next]_vars PROVE ClosedAreRevoked'
    OBVIOUS
<1> USE DEF ClosedAreRevoked, tables, requestVars
<1>1. ASSUME NEW r \in Requests, RequestStep(r) PROVE ClosedAreRevoked'
    <2>1. CASE ConsumeAuthCode(r)
        BY <2>1 DEF ConsumeAuthCode
    <2>2. CASE ~ConsumeAuthCode(r)
        BY <1>1, <2>2 DEF RequestStep, PresentCode, PresentRefreshToken,
            RevokeOAuthToken, IssueTokens, InsertTokens, Rotate, RevokeFamily,
            CountRegistrations, RegisterDynamicClient, Abandon
    <2> QED BY <2>1, <2>2
<1>2. ASSUME NEW g \in Grants,
             AuthorizeClient(g) \/ RevokeConnection(g) \/ ExpireCode(g)
      PROVE  ClosedAreRevoked'
    BY <1>2 DEF AuthorizeClient, RevokeConnection, ExpireCode
<1>3. ASSUME NEW t \in Tokens, ExpireToken(t) PROVE ClosedAreRevoked'
    BY <1>3 DEF ExpireToken
<1>4. CASE UNCHANGED vars
    BY <1>4 DEF vars
<1> QED BY <1>1, <1>2, <1>3, <1>4 DEF Next

\* A token of a closed grant never authenticates again, whatever the requests
\* that were under way when it was closed still insert.
THEOREM ClosedConnectionsStaySilent == Spec => []ClosedConnectionsAreSilent
<1>1. Init => ClosedAreRevoked
    BY DEF Init, ClosedAreRevoked
<1>2. ClosedAreRevoked => ClosedConnectionsAreSilent
    BY DEF ClosedAreRevoked, ClosedConnectionsAreSilent, Authenticates, Live
<1> QED BY <1>1, <1>2, ClosedNext, PTL DEF Spec
-----------------------------------------------------------------------------
\* The request holds a spent code whose tokens it has not inserted yet.
HoldsCode(r) == phase[r] \in {"issue", "insert"} /\ pair[r] = 0

\* Why a code issues once: an issued pair and a request that holds a code both
\* prove the code spent; a grant has one such request or some pairs, never both;
\* and a request about a pair is about that pair's grant.
IssueInv ==
    /\ \A n \in Issued : grantOf[n] \in codeUsed
    /\ \A r \in Requests : phase[r] = "code" => pair[r] = 0
    /\ \A r \in Requests : HoldsCode(r) => grant[r] \in codeUsed
    /\ \A r \in Requests, n \in Issued : HoldsCode(r) => grantOf[n] # grant[r]
    /\ \A r, s \in Requests :
          HoldsCode(r) /\ HoldsCode(s) /\ r # s => grant[r] # grant[s]
    /\ \A r \in Requests :
          phase[r] \in {"issue", "insert", "rotate", "reuse"} /\ pair[r] # 0 =>
              grantOf[pair[r]] = grant[r]
    /\ CodesIssueOnce

\* A request that ends takes nothing with it.
LEMMA EndsKeepsIssueInv ==
    ASSUME TypeOK, IssueInv, NEW r \in Requests, Ends(r), codeUsed \subseteq codeUsed',
           UNCHANGED <<lastPair, grantOf, familyOf>>
    PROVE  IssueInv'
<1>1. \A s \in Requests :
         /\ phase'[s] = IF s = r THEN "idle" ELSE phase[s]
         /\ grant'[s] = IF s = r THEN NoGrant ELSE grant[s]
         /\ pair'[s] = IF s = r THEN 0 ELSE pair[s]
    BY RequestEnds
<1>2. \A s \in Requests : HoldsCode(s)' => HoldsCode(s) /\ s # r
    BY <1>1 DEF HoldsCode
<1>3. Issued' = Issued /\ (CodesIssueOnce => CodesIssueOnce')
    BY DEF Issued, CodesIssueOnce
<1> QED BY <1>1, <1>2, <1>3 DEF IssueInv

\* A request that spends a code is the only one to hold it.
LEMMA ConsumeKeepsIssueInv ==
    ASSUME TypeOK, IssueInv, NEW r \in Requests, ConsumeAuthCode(r)
    PROVE  IssueInv'
<1> DEFINE g == grant[r]
<1>1. UNCHANGED <<lastPair, grantOf, familyOf>> /\ phase[r] = "code"
    BY DEF ConsumeAuthCode
<1>2. CASE Ends(r) /\ codeUsed \subseteq codeUsed'
    BY <1>1, <1>2, EndsKeepsIssueInv
<1>3. CASE /\ phase' = [phase EXCEPT ![r] = "issue"] /\ UNCHANGED <<grant, pair>>
           /\ g \notin codeUsed /\ codeUsed' = codeUsed \cup {g}
    <2>1. \A s \in Requests : phase'[s] = IF s = r THEN "issue" ELSE phase[s]
        BY <1>3 DEF TypeOK
    <2>2. pair[r] = 0 /\ ~HoldsCode(r) /\ HoldsCode(r)'
        BY <1>1, <1>3, <2>1 DEF IssueInv, HoldsCode
    <2>3. \A s \in Requests : s # r => (HoldsCode(s)' <=> HoldsCode(s))
        BY <1>3, <2>1 DEF HoldsCode
    <2>4. \A n \in Issued : grantOf[n] # g
        BY <1>3 DEF IssueInv
    <2>5. \A s \in Requests : HoldsCode(s) => grant[s] # g
        BY <1>3 DEF IssueInv
    <2> QED BY <1>1, <1>3, <2>1, <2>2, <2>3, <2>4, <2>5
            DEF IssueInv, CodesIssueOnce, Issued
<1> QED BY <1>2, <1>3 DEF ConsumeAuthCode, CodeWasUsed, Goes

\* The tokens a request inserts are the first of its grant, or continue the
\* family the grant has.
LEMMA InsertKeepsIssueInv ==
    ASSUME TypeOK, IssueInv, NEW r \in Requests, InsertTokens(r)
    PROVE  IssueInv'
<1>0. PICK n \in Pairs : n = lastPair + 1 /\ lastPair' = n
    BY BoundAssumption DEF InsertTokens, TypeOK, Pairs
<1> DEFINE g == grant[r]
<1>1. /\ n \in Pairs /\ n \notin Issued /\ Issued' = Issued \cup {n}
      /\ phase[r] = "insert" /\ Ends(r)
      /\ grantOf' = [grantOf EXCEPT ![n] = g]
      /\ familyOf' = [familyOf EXCEPT ![n] = FamilyFor(r, n)]
      /\ UNCHANGED codeUsed
    <2>1. lastPair \in Nat
        BY BoundAssumption DEF TypeOK
    <2>2. n \notin Issued /\ Issued' = Issued \cup {n}
        BY <1>0, <2>1 DEF Issued
    <2> QED BY <1>0, <2>2 DEF InsertTokens
<1>2. \A s \in Requests : pair[s] # 0 => pair[s] \in Issued
    BY BoundAssumption DEF TypeOK, Issued
<1>3. \A m \in Issued : grantOf'[m] = grantOf[m] /\ familyOf'[m] = familyOf[m]
    BY <1>1 DEF TypeOK
<1>4. grantOf'[n] = g /\ familyOf'[n] = FamilyFor(r, n)
    BY <1>1 DEF TypeOK
<1>5. \A s \in Requests :
         /\ phase'[s] = IF s = r THEN "idle" ELSE phase[s]
         /\ grant'[s] = IF s = r THEN NoGrant ELSE grant[s]
         /\ pair'[s] = IF s = r THEN 0 ELSE pair[s]
    BY <1>1, RequestEnds
<1>6. \A s \in Requests : HoldsCode(s)' => HoldsCode(s) /\ s # r
    BY <1>1, <1>5 DEF HoldsCode
<1>7. g \in codeUsed
    <2>1. CASE pair[r] = 0
        BY <2>1, <1>1 DEF IssueInv, HoldsCode
    <2>2. CASE pair[r] # 0
        BY <2>2, <1>1, <1>2 DEF IssueInv, Idle
    <2> QED BY <2>1, <2>2
<1>8. \A s \in Requests : HoldsCode(s) /\ s # r => grant[s] # g
    <2>1. CASE pair[r] = 0
        BY <2>1, <1>1 DEF IssueInv, HoldsCode
    <2>2. CASE pair[r] # 0
        BY <2>2, <1>1, <1>2 DEF IssueInv, Idle
    <2> QED BY <2>1, <2>2
<1>9. \A m \in Issued : grantOf[m] = g => familyOf[m] = FamilyFor(r, n)
    <2>1. CASE pair[r] = 0
        BY <2>1, <1>1 DEF IssueInv, HoldsCode
    <2>2. CASE pair[r] # 0
        BY <2>2, <1>1, <1>2 DEF IssueInv, Idle, FamilyFor, CodesIssueOnce
    <2> QED BY <2>1, <2>2
<1>10. CodesIssueOnce'
    BY <1>1, <1>3, <1>4, <1>9 DEF CodesIssueOnce, IssueInv
<1>11. \A s \in Requests, m \in Issued' : HoldsCode(s)' => grantOf'[m] # grant'[s]
    BY <1>1, <1>3, <1>4, <1>5, <1>6, <1>8 DEF IssueInv
<1>12. \A s \in Requests :
          phase'[s] \in {"issue", "insert", "rotate", "reuse"} /\ pair'[s] # 0 =>
              grantOf'[pair'[s]] = grant'[s]
    BY <1>1, <1>2, <1>3, <1>5 DEF IssueInv, Idle
<1> QED BY <1>1, <1>3, <1>4, <1>5, <1>6, <1>7, <1>10, <1>11, <1>12 DEF IssueInv

\* The other steps of a request leave codes and pairs alone.
LEMMA RequestKeepsIssueInv ==
    ASSUME TypeOK, IssueInv, NEW r \in Requests, RequestStep(r)
    PROVE  IssueInv'
<1>1. ASSUME NEW g \in Grants, PresentCode(r, g) PROVE IssueInv'
    BY <1>1 DEF PresentCode, TypeOK, IssueInv, HoldsCode, CodesIssueOnce, Issued, Idle, Goes,
        tables
<1>2. ASSUME NEW n \in Pairs, PresentRefreshToken(r, n) PROVE IssueInv'
    <2>1. n # 0 /\ n \in Issued
        BY <1>2 DEF PresentRefreshToken, MayRefresh, Live, Pairs
    <2>2. /\ phase' = [phase EXCEPT ![r] = IF n \in rotated THEN "reuse" ELSE "rotate"]
          /\ grant' = [grant EXCEPT ![r] = grantOf[n]] /\ pair' = [pair EXCEPT ![r] = n]
          /\ UNCHANGED <<codeUsed, lastPair, grantOf, familyOf>>
        BY <1>2 DEF PresentRefreshToken, Goes
    <2>3. \A s \in Requests :
             /\ s # r => phase'[s] = phase[s] /\ grant'[s] = grant[s] /\ pair'[s] = pair[s]
             /\ s = r => phase'[s] \in {"reuse", "rotate"} /\ pair'[s] = n
                          /\ grant'[s] = grantOf[n]
        BY <2>2 DEF TypeOK
    <2>4. \A s \in Requests : HoldsCode(s)' => HoldsCode(s) /\ s # r
        BY <2>3 DEF HoldsCode
    <2>5. Issued' = Issued /\ (CodesIssueOnce => CodesIssueOnce')
        BY <2>2 DEF Issued, CodesIssueOnce
    <2> QED BY <2>1, <2>2, <2>3, <2>4, <2>5 DEF IssueInv
<1>3. ASSUME NEW n \in Pairs, RevokeOAuthToken(r, n) PROVE IssueInv'
    BY <1>3 DEF RevokeOAuthToken, requestVars, IssueInv, HoldsCode, CodesIssueOnce, Issued
<1>4. CASE IssueTokens(r)
    <2>1. phase[r] = "issue" /\ UNCHANGED <<codeUsed, lastPair, grantOf, familyOf>>
        BY <1>4 DEF IssueTokens, tables
    <2>2. CASE Goes(r, "insert") /\ UNCHANGED <<grant, pair, seen>>
        BY <2>1, <2>2 DEF Goes, TypeOK, IssueInv, HoldsCode, CodesIssueOnce, Issued
    <2> QED BY <1>4, <2>1, <2>2, EndsKeepsIssueInv DEF IssueTokens
<1>5. CASE Rotate(r)
    BY <1>5 DEF Rotate, Goes, TypeOK, IssueInv, HoldsCode, CodesIssueOnce, Issued
<1>6. CASE RevokeFamily(r)
    BY <1>6, EndsKeepsIssueInv DEF RevokeFamily
<1>7. CASE CountRegistrations(r)
    BY <1>7 DEF CountRegistrations, Goes, TypeOK, IssueInv, HoldsCode, CodesIssueOnce, Issued,
        tables
<1>8. CASE RegisterDynamicClient(r)
    BY <1>8, EndsKeepsIssueInv DEF RegisterDynamicClient
<1>9. CASE Abandon(r)
    BY <1>9, EndsKeepsIssueInv DEF Abandon, tables
<1>10. CASE ConsumeAuthCode(r)
    BY <1>10, ConsumeKeepsIssueInv
<1>11. CASE InsertTokens(r)
    BY <1>11, InsertKeepsIssueInv
<1> QED BY <1>1, <1>2, <1>3, <1>4, <1>5, <1>6, <1>7, <1>8, <1>9, <1>10, <1>11
        DEF RequestStep

\* Every step keeps the invariant.
LEMMA IssueNext == TypeOK /\ IssueInv /\ [Next]_vars => IssueInv'
<1> SUFFICES ASSUME TypeOK, IssueInv, [Next]_vars PROVE IssueInv'
    OBVIOUS
<1>1. ASSUME NEW r \in Requests, RequestStep(r) PROVE IssueInv'
    BY <1>1, RequestKeepsIssueInv
<1>2. CASE UNCHANGED <<codeUsed, lastPair, grantOf, familyOf, requestVars>>
    BY <1>2 DEF IssueInv, HoldsCode, CodesIssueOnce, Issued, requestVars
<1>3. ASSUME NEW g \in Grants,
             AuthorizeClient(g) \/ RevokeConnection(g) \/ ExpireCode(g)
      PROVE  IssueInv'
    BY <1>2, <1>3 DEF AuthorizeClient, RevokeConnection, ExpireCode
<1>4. ASSUME NEW t \in Tokens, ExpireToken(t) PROVE IssueInv'
    BY <1>2, <1>4 DEF ExpireToken
<1>5. CASE UNCHANGED vars
    BY <1>2, <1>5 DEF vars, tables
<1> QED BY <1>1, <1>3, <1>4, <1>5 DEF Next

\* All tokens of a grant belong to one family, however many requests present
\* its code together.
THEOREM CodesAreSingleUse == Spec => []CodesIssueOnce
<1>1. Init => IssueInv
    BY DEF Init, IssueInv, HoldsCode, CodesIssueOnce, Issued
<1>2. IssueInv => CodesIssueOnce
    BY DEF IssueInv
<1> QED BY <1>1, <1>2, TypeInit, TypeNext, IssueNext, PTL DEF Spec
-----------------------------------------------------------------------------
\* A family that ended is not disturbed by a step that inserts no tokens and
\* starts no request on it.
LEMMA EndedFrame ==
    ASSUME TypeOK, NEW f \in Issued, Ended(f), Quiet(f),
           UNCHANGED <<lastPair, familyOf>>, revoked \subseteq revoked',
           NEW r \in Requests, ~Serves(r, f)',
           \A s \in Requests \ {r} : pair'[s] = pair[s]
    PROVE  (Ended(f) /\ Quiet(f))'
<1>1. Ended(f)'
    BY DEF Ended, TokensOfFamily, Issued
<1>2. ASSUME NEW s \in Requests PROVE ~Serves(s, f)'
    BY <1>2 DEF Quiet, Serves
<1> QED BY <1>1, <1>2 DEF Quiet

LEMMA EndedEnds ==
    ASSUME TypeOK, NEW f \in Issued, Ended(f), Quiet(f), NEW r \in Requests, Ends(r),
           UNCHANGED <<lastPair, familyOf>>, revoked \subseteq revoked'
    PROVE  (Ended(f) /\ Quiet(f))'
<1>1. \A s \in Requests : pair'[s] = IF s = r THEN 0 ELSE pair[s]
    BY RequestEnds
<1> QED BY <1>1, EndedFrame DEF Serves

\* No step of a request brings new tokens to a family that ended.
LEMMA EndedRequestStep ==
    ASSUME TypeOK, NEW f \in Issued, Ended(f), Quiet(f),
           NEW r \in Requests, RequestStep(r)
    PROVE  (Ended(f) /\ Quiet(f))'
<1>1. phase \in [Requests -> Phases] /\ pair \in [Requests -> 0..MaxPairs]
    BY DEF TypeOK
<1>2. ~Serves(r, f)
    BY DEF Quiet
<1> USE DEF Serves, Idle, Goes, tables
<1>3. ASSUME NEW g \in Grants, PresentCode(r, g) PROVE (Ended(f) /\ Quiet(f))'
    BY <1>1, <1>3, EndedFrame DEF PresentCode
<1>4. ASSUME NEW n \in Pairs, PresentRefreshToken(r, n) PROVE (Ended(f) /\ Quiet(f))'
    <2>1. n \in Issued /\ <<n, "refresh">> \notin revoked
        BY <1>4 DEF PresentRefreshToken, MayRefresh, Live
    <2>2. familyOf[n] # f
        BY <2>1, <1>4 DEF Ended, TokensOfFamily, Tokens
    <2> QED BY <1>1, <1>4, <2>2, EndedFrame DEF PresentRefreshToken
<1>5. ASSUME NEW n \in Pairs, RevokeOAuthToken(r, n) PROVE (Ended(f) /\ Quiet(f))'
    BY <1>2, <1>5, EndedFrame DEF RevokeOAuthToken, requestVars
<1>6. CASE ConsumeAuthCode(r)
    <2>1. UNCHANGED <<lastPair, familyOf>> /\ revoked \subseteq revoked'
        BY <1>6 DEF ConsumeAuthCode
    <2>2. Ends(r) \/ UNCHANGED pair
        BY <1>6 DEF ConsumeAuthCode
    <2> QED BY <1>2, <2>1, <2>2, EndedEnds, EndedFrame
<1>7. CASE IssueTokens(r)
    <2>1. UNCHANGED <<lastPair, familyOf, revoked>> /\ (Ends(r) \/ UNCHANGED pair)
        BY <1>7 DEF IssueTokens
    <2> QED BY <1>2, <2>1, EndedEnds, EndedFrame
<1>8. CASE InsertTokens(r)
    <2>0. PICK n \in Pairs : n = lastPair + 1 /\ lastPair' = n
        BY <1>8, BoundAssumption DEF InsertTokens, TypeOK, Pairs
    <2>1. /\ n \notin Issued /\ Issued' = Issued \cup {n}
          /\ familyOf' = [familyOf EXCEPT ![n] = FamilyFor(r, n)]
          /\ Ends(r) /\ UNCHANGED revoked
        <3>1. lastPair \in Nat
            BY BoundAssumption DEF TypeOK
        <3>2. n \notin Issued /\ Issued' = Issued \cup {n}
            BY <2>0, <3>1 DEF Issued
        <3> QED BY <3>2, <2>0, <1>8 DEF InsertTokens
    <2>2. \A s \in Requests : pair[s] # 0 => pair[s] \in Issued
        BY BoundAssumption DEF TypeOK, Issued
    <2>3. FamilyFor(r, n) # f
        BY <1>2, <2>1, <2>2 DEF FamilyFor
    <2>4. /\ familyOf'[n] # f
          /\ \A m \in Issued : familyOf'[m] = familyOf[m]
        BY <2>1, <2>3 DEF TypeOK
    <2>5. Ended(f)'
        BY <2>1, <2>4 DEF Ended, TokensOfFamily
    <2>6. \A s \in Requests : pair'[s] = IF s = r THEN 0 ELSE pair[s]
        BY <2>1, RequestEnds
    <2>7. ASSUME NEW s \in Requests PROVE ~Serves(s, f)'
        BY <2>1, <2>2, <2>4, <2>6 DEF Quiet
    <2> QED BY <2>5, <2>7 DEF Quiet
<1>9. CASE Rotate(r)
    BY <1>1, <1>2, <1>9, EndedFrame DEF Rotate
<1>10. CASE RevokeFamily(r)
    BY <1>10, EndedEnds DEF RevokeFamily
<1>11. CASE CountRegistrations(r)
    BY <1>2, <1>11, EndedFrame DEF CountRegistrations
<1>12. CASE RegisterDynamicClient(r) \/ Abandon(r)
    BY <1>12, EndedEnds DEF RegisterDynamicClient, Abandon
<1> QED BY <1>3, <1>4, <1>5, <1>6, <1>7, <1>8, <1>9, <1>10, <1>11, <1>12 DEF RequestStep

\* A family that ended with no request on it under way stays ended.
THEOREM EndedFamiliesAreFinal == Spec => EndedFamiliesStayEnded
<1>1. ASSUME TypeOK, [Next]_vars, NEW f \in Issued, Ended(f), Quiet(f)
      PROVE  (Ended(f) /\ Quiet(f))'
    <2>1. ASSUME NEW r \in Requests, RequestStep(r) PROVE (Ended(f) /\ Quiet(f))'
        BY <1>1, <2>1, EndedRequestStep
    <2>2. CASE UNCHANGED <<lastPair, familyOf, requestVars>> /\ revoked \subseteq revoked'
        BY <1>1, <2>2 DEF Ended, Quiet, Serves, TokensOfFamily, Issued, requestVars
    <2>3. ASSUME NEW g \in Grants,
                 AuthorizeClient(g) \/ RevokeConnection(g) \/ ExpireCode(g)
          PROVE  (Ended(f) /\ Quiet(f))'
        BY <2>2, <2>3 DEF AuthorizeClient, RevokeConnection, ExpireCode
    <2>4. ASSUME NEW t \in Tokens, ExpireToken(t) PROVE (Ended(f) /\ Quiet(f))'
        BY <2>2, <2>4 DEF ExpireToken
    <2>5. CASE UNCHANGED vars
        BY <2>2, <2>5 DEF vars, tables
    <2> QED BY <1>1, <2>1, <2>3, <2>4, <2>5 DEF Next
<1>2. TypeOK /\ [Next]_vars =>
          [\A f \in Issued : Ended(f) /\ Quiet(f) => (Ended(f) /\ Quiet(f))']_vars
    BY <1>1
<1> QED BY <1>2, TypeInit, TypeNext, PTL DEF Spec, EndedFamiliesStayEnded
-----------------------------------------------------------------------------
\* What a family is like that two requests were never about at once: each request
\* may be abandoned between its transactions, and the next starts after it.
Apart(n) == familyOf[n] \notin overlapped

\* A pair whose grant ended counts as spent, over and gone.
Spent(n) == n \in rotated \/ <<n, "refresh">> \in revoked \/ grantOf[n] \in grantRevoked
Over(n) == <<n, "access">> \in revoked \/ grantOf[n] \in grantRevoked
Gone(n) == {<<n, "access">>, <<n, "refresh">>} \subseteq revoked \/ grantOf[n] \in grantRevoked

Kin(m, n) == m \in Issued /\ n \in Issued /\ familyOf[m] = familyOf[n]
Rotates(r) == phase[r] \in {"rotate", "issue", "insert"} /\ pair[r] # 0

\* Of two pairs of a family one at most works, and they end together.
Follow(m, n) ==
    /\ m # n => (Spent(m) \/ Spent(n)) /\ (Over(m) \/ Over(n))
    /\ <<m, "refresh">> \in revoked => Gone(n)

\* A request that rotates finds every other pair of the family spent, and leaves
\* all of them spent and over before it inserts the next.
Leaves(r, m) ==
    /\ <<m, "refresh">> \in revoked => grantOf[m] \in grantRevoked
    /\ Spent(m) \/ (phase[r] = "rotate" /\ m = pair[r])
    /\ Over(m) \/ phase[r] = "rotate"

FamilyInv ==
    /\ \A t \in revoked : t[1] \in Issued
    /\ \A r \in Requests : phase[r] = "code" => pair[r] = 0
    /\ \A m, n \in Pairs : Kin(m, n) => grantOf[m] = grantOf[n]
    /\ \A m, n \in Pairs : Kin(m, n) /\ Apart(m) => Follow(m, n)
    /\ \A r \in Requests : Rotates(r) => grant[r] = grantOf[pair[r]]
    /\ \A r \in Requests, m \in Pairs :
          Rotates(r) /\ Apart(pair[r]) /\ Kin(m, pair[r]) => Leaves(r, m)
    /\ \A r, s \in Requests :
          r # s /\ pair[r] # 0 /\ pair[s] # 0 /\ familyOf[pair[r]] = familyOf[pair[s]] =>
              ~Apart(pair[r])

\* A step that inserts nothing takes nothing back either.
Grows ==
    /\ UNCHANGED <<lastPair, grantOf, familyOf>>
    /\ rotated \subseteq rotated' /\ revoked \subseteq revoked'
    /\ grantRevoked \subseteq grantRevoked' /\ overlapped \subseteq overlapped'

\* Requests that go on with what they presented, or end.
Proceeds(s) ==
    /\ pair'[s] \in {0, pair[s]}
    /\ phase'[s] = "code" => pair'[s] = 0
    /\ Rotates(s)' => /\ Rotates(s) /\ grant'[s] = grant[s] /\ pair'[s] = pair[s]
                      /\ phase[s] = "rotate" => phase'[s] = "rotate"

LEMMA GrowsKeeps ==
    ASSUME Grows
    PROVE  /\ \A m, n : Kin(m, n)' <=> Kin(m, n)
           /\ \A m : Apart(m)' => Apart(m)
           /\ \A m : (Spent(m) => Spent(m)') /\ (Over(m) => Over(m)') /\ (Gone(m) => Gone(m)')
BY DEF Grows, Kin, Issued, Apart, Spent, Over, Gone

\* No two requests come to be about a family that is apart.
LEMMA ApartKept ==
    ASSUME FamilyInv, Grows, \A s \in Requests : pair'[s] \in {0, pair[s]}
    PROVE  \A r, s \in Requests :
              r # s /\ pair'[r] # 0 /\ pair'[s] # 0
              /\ familyOf'[pair'[r]] = familyOf'[pair'[s]] => ~Apart(pair[r])'
BY DEF FamilyInv, Grows, Apart

\* A step that ends refresh tokens only with their grant, and starts no rotation.
LEMMA FamilyWidens ==
    ASSUME TypeOK, FamilyInv, Grows,
           \A t \in revoked' \ revoked :
                t[1] \in Issued /\ (t[2] = "refresh" => grantOf[t[1]] \in grantRevoked'),
           \A s \in Requests : Proceeds(s)
    PROVE  FamilyInv'
<1>1. /\ \A m, n : Kin(m, n)' <=> Kin(m, n)
      /\ \A m : Apart(m)' => Apart(m)
      /\ \A m : (Spent(m) => Spent(m)') /\ (Over(m) => Over(m)') /\ (Gone(m) => Gone(m)')
    BY GrowsKeeps
<1>2. UNCHANGED <<lastPair, grantOf, familyOf>> /\ grantRevoked \subseteq grantRevoked'
    BY DEF Grows
<1>3. \A t \in revoked' : t[1] \in Issued'
    BY <1>2 DEF FamilyInv, Issued
<1>4. ASSUME NEW m \in Pairs, NEW n \in Pairs, Kin(m, n)', Apart(m)' PROVE Follow(m, n)'
    <2>1. /\ Kin(m, n) /\ grantOf[m] = grantOf[n]
          /\ <<m, "refresh">> \in revoked => Gone(n)
          /\ m # n => (Spent(m) \/ Spent(n)) /\ (Over(m) \/ Over(n))
        BY <1>1, <1>4 DEF FamilyInv, Follow
    <2>2. ASSUME <<m, "refresh">> \in revoked' PROVE Gone(n)'
        <3>1. CASE <<m, "refresh">> \in revoked
            BY <1>1, <2>1, <3>1
        <3>2. CASE <<m, "refresh">> \in revoked' \ revoked
            <4>1. grantOf[m] \in grantRevoked'
                BY <3>2
            <4> QED BY <1>2, <2>1, <4>1 DEF Gone
        <3> QED BY <2>2, <3>1, <3>2
    <2> QED BY <1>1, <2>1, <2>2 DEF Follow
<1>5. ASSUME NEW r \in Requests, NEW m \in Pairs, Rotates(r)', Apart(pair[r])',
             Kin(m, pair[r])'
      PROVE  Leaves(r, m)'
    <2>1. /\ Rotates(r) /\ pair'[r] = pair[r]
          /\ phase[r] = "rotate" => phase'[r] = "rotate"
        BY <1>5 DEF Proceeds
    <2>2. Apart(pair[r]) /\ Kin(m, pair[r])
        BY <1>1, <1>5, <2>1
    <2>3. /\ <<m, "refresh">> \in revoked => grantOf[m] \in grantRevoked
          /\ Spent(m) \/ (phase[r] = "rotate" /\ m = pair[r])
          /\ Over(m) \/ phase[r] = "rotate"
        BY <2>1, <2>2 DEF FamilyInv, Leaves
    <2> QED BY <1>1, <1>2, <2>1, <2>3 DEF Leaves
<1>6. \A r \in Requests : Rotates(r)' => grant'[r] = grantOf'[pair'[r]]
    BY <1>2 DEF FamilyInv, Proceeds
<1>7. \A s \in Requests : pair'[s] \in {0, pair[s]} /\ (phase'[s] = "code" => pair'[s] = 0)
    BY DEF Proceeds
<1>8. \A m, n \in Pairs : Kin(m, n)' => grantOf'[m] = grantOf'[n]
    BY <1>1, <1>2 DEF FamilyInv
<1> QED BY <1>3, <1>4, <1>5, <1>6, <1>7, <1>8, ApartKept DEF FamilyInv

\* A step that ends a whole family that no request rotates, or none apart.
LEMMA FamilyEnds ==
    ASSUME TypeOK, FamilyInv, Grows, NEW f, revoked' = revoked \cup TokensOfFamily(f),
           UNCHANGED <<rotated, grantRevoked>>,
           \A s \in Requests : Proceeds(s),
           \A s \in Requests : Rotates(s)' /\ familyOf[pair[s]] = f => f \in overlapped'
    PROVE  FamilyInv'
<1>1. /\ \A m, n : Kin(m, n)' <=> Kin(m, n)
      /\ \A m : Apart(m)' => Apart(m)
      /\ \A m : (Spent(m) => Spent(m)') /\ (Over(m) => Over(m)') /\ (Gone(m) => Gone(m)')
    BY GrowsKeeps
<1>2. UNCHANGED <<lastPair, grantOf, familyOf>>
    BY DEF Grows
<1>3. \A t \in revoked' : t[1] \in Issued'
    BY <1>2 DEF FamilyInv, TokensOfFamily, Issued
<1>4. ASSUME NEW m \in Pairs, NEW n \in Pairs, Kin(m, n)', Apart(m)' PROVE Follow(m, n)'
    <2>1. /\ Kin(m, n)
          /\ <<m, "refresh">> \in revoked => Gone(n)
          /\ m # n => (Spent(m) \/ Spent(n)) /\ (Over(m) \/ Over(n))
        BY <1>1, <1>4 DEF FamilyInv, Follow
    <2>2. ASSUME <<m, "refresh">> \in TokensOfFamily(f) PROVE Gone(n)'
        <3>1. familyOf[m] = f
            BY <2>2 DEF TokensOfFamily
        <3>2. familyOf[n] = f /\ n \in Issued
            BY <2>1, <3>1 DEF Kin
        <3>3. {<<n, "access">>, <<n, "refresh">>} \subseteq TokensOfFamily(f)
            BY <3>2 DEF TokensOfFamily, Tokens
        <3> QED BY <3>3 DEF Gone
    <2>3. <<m, "refresh">> \in revoked' => Gone(n)'
        BY <1>1, <2>1, <2>2
    <2> QED BY <1>1, <2>1, <2>3 DEF Follow
<1>5. ASSUME NEW r \in Requests, NEW m \in Pairs, Rotates(r)', Apart(pair[r])',
             Kin(m, pair[r])'
      PROVE  Leaves(r, m)'
    <2>1. /\ Rotates(r) /\ pair'[r] = pair[r]
          /\ phase[r] = "rotate" => phase'[r] = "rotate"
        BY <1>5 DEF Proceeds
    <2>2. Apart(pair[r]) /\ Kin(m, pair[r]) /\ familyOf[m] = familyOf[pair[r]]
        BY <1>1, <1>5, <2>1 DEF Kin
    <2>3. familyOf[m] # f
        BY <1>2, <1>5, <2>1, <2>2 DEF Apart
    <2>4. /\ <<m, "refresh">> \in revoked' => <<m, "refresh">> \in revoked
        BY <2>3 DEF TokensOfFamily
    <2>5. /\ <<m, "refresh">> \in revoked => grantOf[m] \in grantRevoked
          /\ Spent(m) \/ (phase[r] = "rotate" /\ m = pair[r])
          /\ Over(m) \/ phase[r] = "rotate"
        BY <2>1, <2>2 DEF FamilyInv, Leaves
    <2> QED BY <1>1, <1>2, <2>1, <2>4, <2>5 DEF Leaves
<1>6. \A r \in Requests : Rotates(r)' => grant'[r] = grantOf'[pair'[r]]
    BY <1>2 DEF FamilyInv, Proceeds
<1>7. \A s \in Requests : pair'[s] \in {0, pair[s]} /\ (phase'[s] = "code" => pair'[s] = 0)
    BY DEF Proceeds
<1>8. \A m, n \in Pairs : Kin(m, n)' => grantOf'[m] = grantOf'[n]
    BY <1>1, <1>2 DEF FamilyInv
<1> QED BY <1>3, <1>4, <1>5, <1>6, <1>7, <1>8, ApartKept DEF FamilyInv

\* Rotation finds the others of the family spent and ends its access tokens.
LEMMA FamilyRotates ==
    ASSUME TypeOK, FamilyInv, NEW r \in Requests, Rotate(r)
    PROVE  FamilyInv'
<1>0. PICK p \in Pairs : p = pair[r] /\ p \in Issued
    BY BoundAssumption DEF Rotate, TypeOK, Issued, Pairs
<1>1. /\ phase[r] = "rotate" /\ p # 0 /\ Rotates(r)
      /\ phase' = [phase EXCEPT ![r] = "issue"]
      /\ rotated' = rotated \cup {p}
      /\ revoked' = revoked \cup {t \in TokensOfFamily(familyOf[p]) : t[2] = "access"}
      /\ UNCHANGED <<lastPair, grantOf, familyOf, grantRevoked, grant, pair, overlapped>>
    BY <1>0 DEF Rotate, Goes, Rotates, TypeOK
<1>2. Grows
    BY <1>1 DEF Grows
<1>3. /\ \A m, n : Kin(m, n)' <=> Kin(m, n)
      /\ \A m : Apart(m)' => Apart(m)
      /\ \A m : (Spent(m) => Spent(m)') /\ (Over(m) => Over(m)') /\ (Gone(m) => Gone(m)')
    BY <1>2, GrowsKeeps
<1>4. \A m : <<m, "refresh">> \in revoked' => <<m, "refresh">> \in revoked
    BY <1>1
<1>5. \A t \in revoked' : t[1] \in Issued'
    BY <1>1 DEF FamilyInv, TokensOfFamily, Issued
<1>6. \A m, n \in Pairs : Kin(m, n)' /\ Apart(m)' => Follow(m, n)'
    BY <1>3, <1>4 DEF FamilyInv, Follow
<1>7. ASSUME NEW m \in Pairs, Apart(p), Kin(m, p) PROVE Leaves(r, m)'
    <2>1. /\ <<m, "refresh">> \in revoked => grantOf[m] \in grantRevoked
          /\ Spent(m) \/ m = p
        BY <1>0, <1>1, <1>7 DEF FamilyInv, Leaves
    <2>2. Spent(m)'
        BY <1>1, <1>3, <2>1 DEF Spent
    <2>3. <<m, "access">> \in TokensOfFamily(familyOf[p])
        BY <1>7 DEF Kin, TokensOfFamily, Tokens
    <2>4. Over(m)'
        BY <1>1, <2>3 DEF Over
    <2> QED BY <1>1, <1>4, <2>1, <2>2, <2>4 DEF Leaves
<1>8. ASSUME NEW s \in Requests, NEW m \in Pairs, Rotates(s)', Apart(pair[s])',
             Kin(m, pair[s])'
      PROVE  Leaves(s, m)'
    <2>1. pair'[s] = pair[s] /\ Apart(pair[s]) /\ Kin(m, pair[s])
        BY <1>1, <1>3, <1>8
    <2>2. CASE s = r
        BY <1>0, <1>7, <2>1, <2>2
    <2>3. CASE s # r
        <3>1. phase'[s] = phase[s] /\ Rotates(s)
            BY <1>1, <1>8, <2>3 DEF Rotates, TypeOK
        <3>2. Leaves(s, m)
            BY <2>1, <3>1 DEF FamilyInv
        <3> QED BY <1>1, <1>3, <1>4, <2>1, <3>1, <3>2 DEF Leaves
    <2> QED BY <2>2, <2>3
<1>9. \A s \in Requests : Rotates(s)' => Rotates(s)
    BY <1>1 DEF Rotates, TypeOK
<1>10. \A s \in Requests : phase'[s] = "code" => phase[s] = "code"
    BY <1>1 DEF TypeOK
<1>11. \A s \in Requests : pair'[s] \in {0, pair[s]}
    BY <1>1
<1> QED BY <1>1, <1>2, <1>3, <1>5, <1>6, <1>8, <1>9, <1>10, <1>11, ApartKept DEF FamilyInv

\* The pair that is inserted is the only one of its family that works.
LEMMA FamilyInserts ==
    ASSUME TypeOK, FamilyInv, NEW r \in Requests, InsertTokens(r)
    PROVE  FamilyInv'
<1>0. PICK n \in Pairs : n = lastPair + 1 /\ lastPair' = n
    BY BoundAssumption DEF InsertTokens, TypeOK, Pairs
<1> DEFINE f == FamilyFor(r, n)
<1>1. /\ n \notin Issued /\ Issued' = Issued \cup {n} /\ n # 0
      /\ \A m \in Issued : m \in Pairs /\ familyOf[m] # n
      /\ \A s \in Requests : pair[s] # 0 => pair[s] \in Issued
    <2>1. lastPair \in Nat /\ lastPair < n
        BY <1>0, BoundAssumption DEF TypeOK
    <2>2. \A m \in Issued : m \in 1..lastPair /\ familyOf[m] \in 1..m
        BY DEF TypeOK, Issued
    <2>3. \A s \in Requests : pair[s] \in 0..lastPair
        BY DEF TypeOK
    <2>4. lastPair <= MaxPairs /\ MaxPairs \in Nat
        BY BoundAssumption DEF TypeOK
    <2> QED BY <1>0, <2>1, <2>2, <2>3, <2>4 DEF Issued, Pairs
<1>2. /\ phase[r] = "insert" /\ grantOf' = [grantOf EXCEPT ![n] = grant[r]]
      /\ familyOf' = [familyOf EXCEPT ![n] = f]
      /\ Ends(r) /\ UNCHANGED <<revoked, rotated, grantRevoked, overlapped>>
    BY <1>0 DEF InsertTokens
<1>3. /\ f = IF pair[r] = 0 THEN n ELSE familyOf[pair[r]]
      /\ <<n, "refresh">> \notin revoked
    BY <1>1 DEF FamilyFor, FamilyInv
<1> HIDE DEF f
<1>4. /\ grantOf'[n] = grant[r] /\ familyOf'[n] = f
      /\ \A m \in Issued : grantOf'[m] = grantOf[m] /\ familyOf'[m] = familyOf[m]
    BY <1>1, <1>2 DEF TypeOK
<1>5. \A m \in Issued : (Spent(m) => Spent(m)') /\ (Over(m) => Over(m)') /\ (Gone(m) => Gone(m)')
    BY <1>2, <1>4 DEF Spent, Over, Gone
<1>6. ASSUME NEW m \in Issued, familyOf[m] = f
      PROVE  /\ grantOf'[m] = grantOf'[n]
             /\ f \notin overlapped =>
                   /\ Spent(m)' /\ Over(m)'
                   /\ <<m, "refresh">> \in revoked => Gone(m)' /\ Gone(n)'
    <2>1. pair[r] \in Issued /\ Kin(m, pair[r]) /\ Rotates(r) /\ m \in Pairs /\ pair[r] \in Pairs
          /\ familyOf[pair[r]] = f
        BY <1>1, <1>2, <1>3, <1>6 DEF Kin, Rotates
    <2>2. grant[r] = grantOf[pair[r]] /\ grantOf[m] = grantOf[pair[r]]
        BY <2>1 DEF FamilyInv
    <2>3. grantOf'[m] = grantOf'[n]
        BY <1>4, <2>2
    <2>4. ASSUME f \notin overlapped
          PROVE  /\ Spent(m)' /\ Over(m)'
                 /\ <<m, "refresh">> \in revoked => grantOf[m] \in grantRevoked
        <3>1. Leaves(r, m)
            BY <2>1, <2>4 DEF FamilyInv, Apart
        <3> QED BY <1>2, <1>5, <3>1 DEF Leaves
    <2>5. grantOf[m] \in grantRevoked => Gone(m)' /\ Gone(n)'
        BY <1>2, <1>4, <2>2 DEF Gone
    <2> QED BY <2>3, <2>4, <2>5
<1>7. ASSUME NEW l \in Pairs, NEW m \in Pairs, Kin(l, m)'
      PROVE  grantOf'[l] = grantOf'[m] /\ (Apart(l)' => Follow(l, m)')
    <2>1. l \in Issued \cup {n} /\ m \in Issued \cup {n} /\ familyOf'[l] = familyOf'[m]
        BY <1>1, <1>7 DEF Kin
    <2>2. CASE l \in Issued /\ m \in Issued
        <3>1. Kin(l, m) /\ (Apart(l)' => Apart(l))
            BY <1>2, <1>4, <2>1, <2>2 DEF Kin, Apart
        <3>2. grantOf[l] = grantOf[m] /\ (Apart(l) => Follow(l, m))
            BY <3>1 DEF FamilyInv
        <3> QED BY <1>2, <1>4, <1>5, <2>2, <3>1, <3>2 DEF Follow
    <2>3. CASE l = n /\ m = n
        BY <1>2, <1>3, <2>3 DEF Follow
    <2>4. CASE l \in Issued /\ m = n
        <3>1. familyOf[l] = f /\ familyOf'[l] = f
            BY <1>4, <2>1, <2>4
        <3> QED BY <3>1, <1>2, <1>6, <2>4 DEF Follow, Apart
    <2>5. CASE l = n /\ m \in Issued
        <3>1. familyOf[m] = f /\ familyOf'[l] = f
            BY <1>4, <2>1, <2>5
        <3>2. grantOf'[m] = grantOf'[n] /\ (f \notin overlapped => Spent(m)' /\ Over(m)')
            BY <3>1, <1>6, <2>5
        <3>4. Apart(l)' => f \notin overlapped
            BY <3>1, <1>2 DEF Apart
        <3>3. <<l, "refresh">> \notin revoked'
            BY <1>2, <1>3, <2>5
        <3> QED BY <3>2, <3>3, <3>4, <2>5 DEF Follow
    <2> QED BY <2>1, <2>2, <2>3, <2>4, <2>5
<1>8. \A s \in Requests :
         /\ phase'[s] = IF s = r THEN "idle" ELSE phase[s]
         /\ grant'[s] = IF s = r THEN NoGrant ELSE grant[s]
         /\ pair'[s] = IF s = r THEN 0 ELSE pair[s]
    BY <1>2, RequestEnds
<1>9. ASSUME NEW s \in Requests, Rotates(s)'
      PROVE  /\ s # r /\ Rotates(s) /\ pair[s] \in Issued
             /\ pair'[s] = pair[s] /\ phase'[s] = phase[s] /\ grant'[s] = grantOf'[pair'[s]]
    <2>1. s # r /\ Rotates(s) /\ pair[s] \in Issued
        BY <1>1, <1>8, <1>9 DEF Rotates
    <2> QED BY <1>4, <1>8, <2>1 DEF FamilyInv
<1>10. ASSUME NEW s \in Requests, NEW m \in Pairs, Rotates(s)', Apart(pair[s])',
              Kin(m, pair[s])'
       PROVE  Leaves(s, m)'
    <2>1. Apart(pair[s]) /\ familyOf'[pair[s]] = familyOf[pair[s]]
        BY <1>2, <1>4, <1>9, <1>10 DEF Apart
    <2>2. m # n
        <3>1. SUFFICES ASSUME m = n PROVE FALSE
            OBVIOUS
        <3>2. familyOf[pair[s]] = f
            BY <1>4, <1>9, <1>10, <2>1, <3>1 DEF Kin
        <3>0. Rotates(s) /\ pair[s] \in Issued
            BY <1>9, <1>10
        <3>3. pair[s] # 0 /\ f # n
            BY <1>1, <3>0, <3>2 DEF Rotates
        <3>4. pair[r] # 0 /\ familyOf[pair[r]] = f
            BY <1>3, <3>3
        <3> QED BY <1>9, <1>10, <2>1, <3>2, <3>3, <3>4 DEF FamilyInv
    <2>3. m \in Issued /\ Kin(m, pair[s])
        BY <1>1, <1>4, <1>9, <1>10, <2>1, <2>2 DEF Kin
    <2>4. Leaves(s, m)
        BY <1>9, <1>10, <2>1, <2>3 DEF FamilyInv
    <2> QED BY <1>2, <1>4, <1>5, <1>9, <1>10, <2>3, <2>4 DEF Leaves
<1>11. \A s, q \in Requests :
          s # q /\ pair'[s] # 0 /\ pair'[q] # 0 /\ familyOf'[pair'[s]] = familyOf'[pair'[q]] =>
              ~Apart(pair[s])'
    BY <1>1, <1>2, <1>4, <1>8 DEF FamilyInv, Apart
<1>12. \A t \in revoked' : t[1] \in Issued'
    BY <1>1, <1>2 DEF FamilyInv
<1>13. \A s \in Requests : phase'[s] = "code" => pair'[s] = 0
    BY <1>8 DEF FamilyInv
<1> QED BY <1>7, <1>9, <1>10, <1>11, <1>12, <1>13 DEF FamilyInv

\* A token that is let through to be rotated is the one of its family not spent,
\* and nobody else is about a family that stays apart.
LEMMA FamilyPresents ==
    ASSUME TypeOK, FamilyInv, NEW r \in Requests, NEW n \in Pairs,
           PresentRefreshToken(r, n)
    PROVE  FamilyInv'
<1>1. /\ n \in Issued /\ <<n, "refresh">> \notin revoked /\ grantOf[n] \notin grantRevoked
      /\ phase'[r] \in {"rotate", "reuse"} /\ (phase'[r] = "rotate" => n \notin rotated)
      /\ grant'[r] = grantOf[n] /\ pair'[r] = n
      /\ UNCHANGED <<lastPair, grantOf, familyOf, rotated, revoked, grantRevoked>>
      /\ Overlaps(r, familyOf[n])
    BY DEF PresentRefreshToken, MayRefresh, Live, Goes, TypeOK
<1>2. \A s \in Requests : s # r =>
         phase'[s] = phase[s] /\ grant'[s] = grant[s] /\ pair'[s] = pair[s]
    BY DEF PresentRefreshToken, Goes, TypeOK
<1>3. Grows
    BY <1>1 DEF Grows, Overlaps
<1>4. /\ \A m, k : Kin(m, k)' <=> Kin(m, k)
      /\ \A m : Apart(m)' => Apart(m)
      /\ \A m : (Spent(m) => Spent(m)') /\ (Over(m) => Over(m)') /\ (Gone(m) => Gone(m)')
    BY <1>3, GrowsKeeps
<1>5. ASSUME NEW m \in Pairs, NEW k \in Pairs, Kin(m, k)', Apart(m)' PROVE Follow(m, k)'
    <2>1. Follow(m, k)
        BY <1>4, <1>5 DEF FamilyInv
    <2> QED BY <1>1, <1>4, <2>1 DEF Follow
<1>6. ASSUME NEW s \in Requests, NEW m \in Pairs, Rotates(s)', Apart(pair[s])',
             Kin(m, pair[s])'
      PROVE  Leaves(s, m)'
    <2>1. CASE s # r
        <3>1. Rotates(s) /\ Apart(pair[s]) /\ Kin(m, pair[s])
            BY <1>2, <1>4, <1>6, <2>1 DEF Rotates
        <3>2. Leaves(s, m)
            BY <3>1 DEF FamilyInv
        <3> QED BY <1>1, <1>2, <1>4, <2>1, <3>2 DEF Leaves
    <2>2. CASE s = r
        <3>1. phase'[r] = "rotate" /\ Apart(m) /\ Kin(m, n)
            BY <1>1, <1>4, <1>6, <2>2 DEF Rotates, Kin, Apart
        <3>2. ~Spent(n) /\ ~Gone(n)
            BY <1>1, <3>1 DEF Spent, Gone
        <3>3. <<m, "refresh">> \notin revoked /\ (Spent(m) \/ m = n)
            BY <3>1, <3>2 DEF FamilyInv, Follow
        <3> QED BY <1>1, <1>4, <2>2, <3>1, <3>3 DEF Leaves
    <2> QED BY <2>1, <2>2
<1>7. \A s \in Requests : Rotates(s)' => grant'[s] = grantOf'[pair'[s]]
    BY <1>1, <1>2 DEF FamilyInv, Rotates
<1>8. \A s \in Requests : phase'[s] = "code" => pair'[s] = 0
    BY <1>1, <1>2 DEF FamilyInv
<1>9. ASSUME NEW s \in Requests, NEW q \in Requests, s # q, pair'[s] # 0, pair'[q] # 0,
             familyOf'[pair'[s]] = familyOf'[pair'[q]]
      PROVE  ~Apart(pair[s])'
    <2>1. CASE s # r /\ q # r
        BY <1>1, <1>2, <1>4, <1>9, <2>1 DEF FamilyInv
    <2>2. CASE s = r
        <3>1. Serves(q, familyOf[n])
            BY <1>1, <1>2, <1>9, <2>2 DEF Serves
        <3> QED BY <1>1, <1>9, <2>2, <3>1 DEF Overlaps, Apart
    <2>3. CASE q = r
        <3>1. Serves(s, familyOf[n])
            BY <1>1, <1>2, <1>9, <2>3 DEF Serves
        <3> QED BY <1>1, <1>9, <2>3, <3>1 DEF Overlaps, Apart
    <2> QED BY <2>1, <2>2, <2>3
<1>10. \A t \in revoked' : t[1] \in Issued'
    BY <1>1 DEF FamilyInv, Issued
<1>11. \A m, k \in Pairs : Kin(m, k)' => grantOf'[m] = grantOf'[k]
    BY <1>1, <1>4 DEF FamilyInv
<1> QED BY <1>5, <1>6, <1>7, <1>8, <1>9, <1>10, <1>11 DEF FamilyInv

\* A request that ends proceeds, and so do those that stay where they are.
LEMMA EndsProceeds ==
    ASSUME TypeOK, FamilyInv, NEW r \in Requests, Ends(r)
    PROVE  \A s \in Requests : Proceeds(s)
BY RequestEnds DEF FamilyInv, Proceeds, Rotates

LEMMA StaysProceeds ==
    ASSUME TypeOK, FamilyInv, NEW r \in Requests, Goes(r, phase'[r]), UNCHANGED <<grant, pair>>,
           phase'[r] # "code", Rotates(r)' => Rotates(r) /\ phase[r] # "rotate"
    PROVE  \A s \in Requests : Proceeds(s)
<1>1. \A s \in Requests : s # r => phase'[s] = phase[s]
    BY DEF Goes, TypeOK
<1> QED BY <1>1 DEF FamilyInv, Proceeds, Rotates

LEMMA RestsProceeds ==
    ASSUME FamilyInv, UNCHANGED <<phase, grant, pair>>
    PROVE  \A s \in Requests : Proceeds(s)
BY DEF FamilyInv, Proceeds, Rotates

\* The steps of a request.
LEMMA FamilyRequestStep ==
    ASSUME TypeOK, FamilyInv, NEW r \in Requests, RequestStep(r)
    PROVE  FamilyInv'
<1>1. phase \in [Requests -> Phases] /\ pair \in [Requests -> 0..MaxPairs]
      /\ grant \in [Requests -> Grants \cup {NoGrant}]
    BY DEF TypeOK
<1>2. ASSUME NEW g \in Grants, PresentCode(r, g) PROVE FamilyInv'
    <2>1. Grows /\ UNCHANGED revoked
        BY <1>2 DEF PresentCode, Grows, tables
    <2>2. ASSUME NEW s \in Requests PROVE Proceeds(s)
        <3>1. CASE s = r
            BY <1>1, <1>2, <3>1 DEF PresentCode, Goes, Proceeds, Rotates
        <3>2. CASE s # r
            BY <1>1, <1>2, <3>2 DEF PresentCode, Goes, Proceeds, Rotates, FamilyInv
        <3> QED BY <3>1, <3>2
    <2> QED BY <2>1, <2>2, FamilyWidens
<1>3. ASSUME NEW n \in Pairs, PresentRefreshToken(r, n) PROVE FamilyInv'
    BY <1>3, FamilyPresents
<1>4. ASSUME NEW n \in Pairs, RevokeOAuthToken(r, n) PROVE FamilyInv'
    <2>1. /\ phase[r] = "idle" /\ revoked' = revoked \cup TokensOfFamily(familyOf[n])
          /\ Overlaps(r, familyOf[n])
          /\ UNCHANGED <<lastPair, grantOf, familyOf, rotated, grantRevoked, phase, grant, pair>>
        BY <1>4 DEF RevokeOAuthToken, Idle, requestVars
    <2>2. Grows
        BY <2>1 DEF Grows, Overlaps
    <2>3. ASSUME NEW s \in Requests, Rotates(s)', familyOf[pair[s]] = familyOf[n]
          PROVE  familyOf[n] \in overlapped'
        <3>1. s # r /\ Serves(s, familyOf[n])
            BY <2>1, <2>3 DEF Rotates, Serves
        <3> QED BY <2>1, <3>1 DEF Overlaps
    <2> QED BY <2>1, <2>2, <2>3, RestsProceeds, FamilyEnds
<1>5. CASE ConsumeAuthCode(r)
    <2>1. Grows
        BY <1>5 DEF ConsumeAuthCode, Grows
    <2>2. \A t \in revoked' \ revoked : t[1] \in Issued /\ grantOf[t[1]] \in grantRevoked'
        BY <1>5 DEF ConsumeAuthCode, TokensOfGrant
    <2>3. CASE Ends(r)
        BY <2>1, <2>2, <2>3, EndsProceeds, FamilyWidens
    <2>4. CASE Goes(r, "issue") /\ UNCHANGED <<grant, pair, seen>>
        <3>1. pair[r] = 0 /\ phase'[r] = "issue"
            BY <1>1, <1>5, <2>4 DEF ConsumeAuthCode, FamilyInv, Goes
        <3>2. ~Rotates(r)'
            BY <2>4, <3>1 DEF Rotates
        <3> QED BY <2>1, <2>2, <2>4, <3>1, <3>2, StaysProceeds, FamilyWidens
    <2> QED BY <1>5, <2>3, <2>4 DEF ConsumeAuthCode
<1>6. CASE IssueTokens(r)
    <2>1. Grows /\ UNCHANGED revoked /\ phase[r] = "issue"
        BY <1>6 DEF IssueTokens, Grows, tables
    <2>2. CASE Ends(r)
        BY <2>1, <2>2, EndsProceeds, FamilyWidens
    <2>3. CASE Goes(r, "insert") /\ UNCHANGED <<grant, pair, seen>>
        <3>1. phase'[r] = "insert" /\ (Rotates(r)' => Rotates(r))
            BY <1>1, <2>1, <2>3 DEF Goes, Rotates
        <3> QED BY <2>1, <2>3, <3>1, StaysProceeds, FamilyWidens
    <2> QED BY <1>6, <2>2, <2>3 DEF IssueTokens
<1>7. CASE InsertTokens(r)
    BY <1>7, FamilyInserts
<1>8. CASE Rotate(r)
    BY <1>8, FamilyRotates
<1>9. CASE RevokeFamily(r)
    <2>0. PICK f : f = familyOf[pair[r]]
        OBVIOUS
    <2>1. /\ phase[r] = "reuse" /\ revoked' = revoked \cup TokensOfFamily(f) /\ Ends(r)
          /\ UNCHANGED <<lastPair, grantOf, familyOf, rotated, grantRevoked, overlapped>>
        BY <1>9, <2>0 DEF RevokeFamily
    <2>2. Grows
        BY <2>1 DEF Grows
    <2>3. pair[r] # 0
        BY <2>1 DEF TypeOK
    <2>4. ASSUME NEW s \in Requests, Rotates(s)', familyOf[pair[s]] = f PROVE f \in overlapped'
        <3>1. s # r /\ pair[s] # 0
            BY <2>1, <2>4, RequestEnds DEF Rotates
        <3> QED BY <2>0, <2>1, <2>3, <2>4, <3>1 DEF FamilyInv, Apart
    <2> QED BY <2>1, <2>2, <2>4, EndsProceeds, FamilyEnds
<1>10. CASE CountRegistrations(r)
    <2>1. Grows /\ UNCHANGED revoked /\ phase'[r] = "register"
          /\ Goes(r, phase'[r]) /\ UNCHANGED <<grant, pair>>
        BY <1>1, <1>10 DEF CountRegistrations, Grows, tables, Goes
    <2>2. ~Rotates(r)'
        BY <2>1 DEF Rotates
    <2> QED BY <2>1, <2>2, StaysProceeds, FamilyWidens
<1>11. CASE RegisterDynamicClient(r) \/ Abandon(r)
    <2>1. Grows /\ UNCHANGED revoked /\ Ends(r)
        BY <1>11 DEF RegisterDynamicClient, Abandon, Grows, tables
    <2> QED BY <2>1, EndsProceeds, FamilyWidens
<1> QED BY <1>2, <1>3, <1>4, <1>5, <1>6, <1>7, <1>8, <1>9, <1>10, <1>11 DEF RequestStep

\* The owner's actions and the passing of time.
LEMMA FamilyNext == TypeOK /\ FamilyInv /\ [Next]_vars => FamilyInv'
<1> SUFFICES ASSUME TypeOK, FamilyInv, [Next]_vars PROVE FamilyInv'
    OBVIOUS
<1>1. ASSUME NEW r \in Requests, RequestStep(r) PROVE FamilyInv'
    BY <1>1, FamilyRequestStep
<1>2. ASSUME UNCHANGED requestVars, Grows,
             \A t \in revoked' \ revoked : t[1] \in Issued /\ grantOf[t[1]] \in grantRevoked'
      PROVE  FamilyInv'
    BY <1>2, RestsProceeds, FamilyWidens DEF requestVars
<1>3. ASSUME NEW g \in Grants, AuthorizeClient(g) \/ ExpireCode(g) PROVE FamilyInv'
    BY <1>2, <1>3 DEF AuthorizeClient, ExpireCode, Grows
<1>4. ASSUME NEW g \in Grants, RevokeConnection(g) PROVE FamilyInv'
    BY <1>2, <1>4 DEF RevokeConnection, TokensOfGrant, Grows
<1>5. ASSUME NEW t \in Tokens, ExpireToken(t) PROVE FamilyInv'
    BY <1>2, <1>5 DEF ExpireToken, Grows
<1>6. CASE UNCHANGED vars
    BY <1>2, <1>6 DEF vars, tables, Grows
<1> QED BY <1>1, <1>3, <1>4, <1>5, <1>6 DEF Next

LEMMA FamilyHolds == Spec => [](TypeOK /\ FamilyInv)
<1>1. Init => TypeOK /\ FamilyInv
    BY TypeInit DEF Init, FamilyInv, Kin, Issued, Rotates
<1>2. TypeOK /\ FamilyInv /\ [Next]_vars => (TypeOK /\ FamilyInv)'
    BY TypeNext, FamilyNext
<1> QED BY <1>1, <1>2, PTL DEF Spec

\* A family that two requests were never about at once holds at most one working
\* access token and one refresh token, wherever its requests are abandoned,
\* whatever requests do with other families and with the code meanwhile, and
\* whenever the owner ends the connection.
THEOREM FamiliesHaveOnePair == Spec => []OnePairPerFamily
<1>1. TypeOK /\ FamilyInv => OnePairPerFamily
    BY BoundAssumption DEF TypeOK, FamilyInv, OnePairPerFamily, Kin, Apart, Follow, Spent, Over,
        Authenticates, MayRefresh, Live, Issued, Pairs
<1> QED BY <1>1, FamilyHolds, PTL

\* For such a family a reuse, or a revocation of either token, is the end of
\* every token it has.
THEOREM FamiliesAreEnded == Spec => []FamiliesEndTogether
<1>1. TypeOK /\ FamilyInv => FamiliesEndTogether
    BY BoundAssumption DEF TypeOK, FamilyInv, FamiliesEndTogether, Kin, Apart, Follow, Gone,
        Authenticates, MayRefresh, Live, Issued, Pairs
<1> QED BY <1>1, FamilyHolds, PTL
=============================================================================
