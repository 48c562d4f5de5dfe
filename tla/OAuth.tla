-------------------------------- MODULE OAuth --------------------------------
(***************************************************************************)
(* Connections of OAuth clients to one tenant: internal/models/            *)
(* credentials.go under the token endpoint of controllers/oauth.go.        *)
(*                                                                         *)
(* Unlike the mutations of Content, a request here is several READ         *)
(* COMMITTED transactions and takes no tenant lock, so each transaction    *)
(* (for IssueTokens, each half of one) is an action, and a request may end *)
(* between any two of them: the client hangs up or the process dies.       *)
(*                                                                         *)
(* A consent creates a grant and its one code, so a code is named by its   *)
(* grant.  Access and refresh token of a pair are inserted together and    *)
(* share the pair's number; a family is named by its first pair.           *)
(***************************************************************************)
EXTENDS Integers, FiniteSets

CONSTANTS
    Grants,         \* oauth_grant rows, each with its authorization code
    Requests,       \* requests under way at the token endpoints
    MaxPairs,       \* bound: token pairs issued
    MaxDynamicClientsPerDay     \* registrations of one address in a day

NoGrant == "none"
Pairs == 1..MaxPairs
Tokens == Pairs \X {"access", "refresh"}
Phases == {"idle", "code", "issue", "insert", "rotate", "reuse", "register"}

ASSUME GrantAssumption == NoGrant \notin Grants
ASSUME BoundAssumption ==
    MaxPairs \in Nat \ {0} /\ MaxDynamicClientsPerDay \in Nat

VARIABLES
    consented,      \* the grants that exist
    codeUsed,       \* oauth_code.used_at is set
    codeExpired,    \* the code's five minutes are over
    grantRevoked,   \* oauth_grant.revoked_at is set
    lastPair,       \* the pairs issued so far
    grantOf,        \* oauth_token.grant_id
    familyOf,       \* oauth_token.family_id
    rotated,        \* pairs whose refresh token has rotated_at set
    revoked,        \* tokens with revoked_at set
    expired,        \* tokens past expires_at
    registered,     \* dynamic clients of one address today
    phase,          \* where a request is between its transactions
    grant,          \* the grant it is about
    pair,           \* the pair it presented, 0 when it presented a code
    seen,           \* what its lookup said of the code: used
    closed,         \* history: grants ended by their owner or by a replay
    overlapped      \* history: families that two requests were about at once

tables == <<consented, codeUsed, codeExpired, grantRevoked, lastPair, grantOf,
            familyOf, rotated, revoked, expired, registered, closed, overlapped>>
requestVars == <<phase, grant, pair, seen>>
vars == <<tables, requestVars>>

-----------------------------------------------------------------------------
Issued == 1..lastPair
TokensOfGrant(g) == {t \in Tokens : t[1] \in Issued /\ grantOf[t[1]] = g}
TokensOfFamily(f) == {t \in Tokens : t[1] \in Issued /\ familyOf[t[1]] = f}

\* lookup_oauth_token joins the grant, so a token ends with its grant.
Live(t) ==
    /\ t[1] \in Issued
    /\ t \notin revoked \cup expired
    /\ grantOf[t[1]] \notin grantRevoked

\* AuthenticateAccessToken.
Authenticates(n) == Live(<<n, "access">>)

Idle(r) == phase[r] = "idle"
Goes(r, next) == phase' = [phase EXCEPT ![r] = next]

\* The request is over, and nothing is kept of it.
Ends(r) ==
    /\ phase' = [phase EXCEPT ![r] = "idle"]
    /\ grant' = [grant EXCEPT ![r] = NoGrant]
    /\ pair' = [pair EXCEPT ![r] = 0]
    /\ seen' = [seen EXCEPT ![r] = FALSE]

\* The request presented a token of family f and is not over.
Serves(r, f) == pair[r] # 0 /\ familyOf[pair[r]] = f

\* Another request comes about a family while r is.
Overlaps(r, f) ==
    overlapped' = IF \E s \in Requests \ {r} : Serves(s, f) THEN overlapped \cup {f}
                  ELSE overlapped

-----------------------------------------------------------------------------
\* AuthorizeClient: consent creates the grant and its code.
AuthorizeClient(g) ==
    /\ g \notin consented
    /\ consented' = consented \cup {g}
    /\ UNCHANGED <<codeUsed, codeExpired, grantRevoked, lastPair, grantOf, familyOf,
                   rotated, revoked, expired, registered, closed, overlapped, requestVars>>

\* ConsumeAuthCode, its lookup.
PresentCode(r, g) ==
    /\ Idle(r) /\ g \in consented
    /\ Goes(r, "code")
    /\ grant' = [grant EXCEPT ![r] = g]
    /\ pair' = [pair EXCEPT ![r] = 0]
    /\ seen' = [seen EXCEPT ![r] = g \in codeUsed]
    /\ UNCHANGED tables

\* Wrong: decides from the lookup instead of the locked row.
CodeWasUsedAtLookup(r) == seen[r]

\* The row is read again FOR UPDATE.
CodeWasUsed(r) == grant[r] \in codeUsed

\* ConsumeAuthCode, its transaction.  A code presented again ends its grant.
\* Token then compares client, redirect URI, verifier and resource: if one does
\* not match, the request ends and the code is spent.
ConsumeAuthCode(r) ==
    LET g == grant[r] IN
    /\ phase[r] = "code"
    /\ \/ /\ CodeWasUsed(r)
          /\ grantRevoked' = grantRevoked \cup {g}
          /\ revoked' = revoked \cup TokensOfGrant(g)
          /\ closed' = closed \cup {g}
          /\ Ends(r)
          /\ UNCHANGED codeUsed
       \/ /\ ~CodeWasUsed(r) /\ g \in codeExpired
          /\ Ends(r)
          /\ UNCHANGED <<codeUsed, grantRevoked, revoked, closed>>
       \/ /\ ~CodeWasUsed(r) /\ g \notin codeExpired
          /\ codeUsed' = codeUsed \cup {g}
          /\ (Goes(r, "issue") /\ UNCHANGED <<grant, pair, seen>>) \/ Ends(r)
          /\ UNCHANGED <<grantRevoked, revoked, closed>>
    /\ UNCHANGED <<consented, codeExpired, lastPair, grantOf, familyOf, rotated,
                   expired, registered, overlapped>>

\* IssueTokens reads the grant without a lock; a revocation may still commit
\* before the new tokens do.
IssueTokens(r) ==
    /\ phase[r] = "issue"
    /\ IF grant[r] \in grantRevoked THEN Ends(r)
       ELSE Goes(r, "insert") /\ UNCHANGED <<grant, pair, seen>>
    /\ UNCHANGED tables

\* A code starts a family, a rotation continues the family of its token.
FamilyFor(r, n) == IF pair[r] = 0 THEN n ELSE familyOf[pair[r]]

InsertTokens(r) ==
    LET n == lastPair + 1 IN
    /\ phase[r] = "insert" /\ n <= MaxPairs
    /\ lastPair' = n
    /\ grantOf' = [grantOf EXCEPT ![n] = grant[r]]
    /\ familyOf' = [familyOf EXCEPT ![n] = FamilyFor(r, n)]
    /\ Ends(r)
    /\ UNCHANGED <<consented, codeUsed, codeExpired, grantRevoked, rotated, revoked,
                   expired, registered, closed, overlapped>>

-----------------------------------------------------------------------------
\* Wrong: looks only at what the token itself says.
MayRefreshExpiredOnly(n) == n \in Issued /\ <<n, "refresh">> \notin expired

\* RefreshTokens lets a token through that is neither revoked nor expired.
MayRefresh(n) == Live(<<n, "refresh">>)

\* RefreshTokens, its lookup: a token already rotated is a reuse.
PresentRefreshToken(r, n) ==
    /\ Idle(r) /\ MayRefresh(n)
    /\ Goes(r, IF n \in rotated THEN "reuse" ELSE "rotate")
    /\ grant' = [grant EXCEPT ![r] = grantOf[n]]
    /\ pair' = [pair EXCEPT ![r] = n]
    /\ Overlaps(r, familyOf[n])
    /\ UNCHANGED <<consented, codeUsed, codeExpired, grantRevoked, lastPair, grantOf,
                   familyOf, rotated, revoked, expired, registered, closed, seen>>

\* Wrong: a reuse ends the token, not its family.
RevokeReused(r) ==
    /\ phase[r] = "reuse"
    /\ revoked' = revoked \cup {<<pair[r], "refresh">>}
    /\ Ends(r)
    /\ UNCHANGED <<consented, codeUsed, codeExpired, grantRevoked, lastPair, grantOf,
                   familyOf, rotated, expired, registered, closed, overlapped>>

RevokeFamily(r) ==
    /\ phase[r] = "reuse"
    /\ revoked' = revoked \cup TokensOfFamily(familyOf[pair[r]])
    /\ Ends(r)
    /\ UNCHANGED <<consented, codeUsed, codeExpired, grantRevoked, lastPair, grantOf,
                   familyOf, rotated, expired, registered, closed, overlapped>>

\* Wrong: leaves the access tokens to their fifteen minutes.
RotateOnly(r) ==
    /\ phase[r] = "rotate"
    /\ rotated' = rotated \cup {pair[r]}
    /\ Goes(r, "issue")
    /\ UNCHANGED <<consented, codeUsed, codeExpired, grantRevoked, lastPair, grantOf,
                   familyOf, revoked, expired, registered, closed, overlapped, grant, pair,
                   seen>>

\* RefreshTokens, its first transaction: the token is marked, whatever happened
\* to it since the lookup, and the family's access tokens end.
Rotate(r) ==
    /\ phase[r] = "rotate"
    /\ rotated' = rotated \cup {pair[r]}
    /\ revoked' = revoked \cup {t \in TokensOfFamily(familyOf[pair[r]]) : t[2] = "access"}
    /\ Goes(r, "issue")
    /\ UNCHANGED <<consented, codeUsed, codeExpired, grantRevoked, lastPair, grantOf,
                   familyOf, expired, registered, closed, overlapped, grant, pair, seen>>

\* RevokeOAuthToken: the family of either token ends (RFC 7009).
RevokeOAuthToken(r, n) ==
    /\ Idle(r) /\ n \in Issued
    /\ revoked' = revoked \cup TokensOfFamily(familyOf[n])
    /\ Overlaps(r, familyOf[n])
    /\ UNCHANGED <<consented, codeUsed, codeExpired, grantRevoked, lastPair, grantOf,
                   familyOf, rotated, expired, registered, closed, requestVars>>

\* Wrong: ends the tokens there are, and leaves the grant to issue more.
RevokeConnectionTokens(g) ==
    /\ g \in consented
    /\ revoked' = revoked \cup TokensOfGrant(g)
    /\ closed' = closed \cup {g}
    /\ UNCHANGED <<consented, codeUsed, codeExpired, grantRevoked, lastPair, grantOf,
                   familyOf, rotated, expired, registered, overlapped, requestVars>>

\* RevokeConnection: the owner ends the grant and all its tokens.
RevokeConnection(g) ==
    /\ g \in consented
    /\ grantRevoked' = grantRevoked \cup {g}
    /\ revoked' = revoked \cup TokensOfGrant(g)
    /\ closed' = closed \cup {g}
    /\ UNCHANGED <<consented, codeUsed, codeExpired, lastPair, grantOf, familyOf,
                   rotated, expired, registered, overlapped, requestVars>>

-----------------------------------------------------------------------------
RoomToRegister == registered < MaxDynamicClientsPerDay

\* RegisterDynamicClient counts the day's registrations, then inserts.
CountRegistrations(r) ==
    /\ Idle(r) /\ RoomToRegister
    /\ Goes(r, "register")
    /\ UNCHANGED <<tables, grant, pair, seen>>

RegisterDynamicClient(r) ==
    /\ phase[r] = "register"
    /\ registered' = registered + 1
    /\ Ends(r)
    /\ UNCHANGED <<consented, codeUsed, codeExpired, grantRevoked, lastPair, grantOf,
                   familyOf, rotated, revoked, expired, closed, overlapped>>

\* Time passes.
ExpireCode(g) ==
    /\ g \in consented \ codeExpired
    /\ codeExpired' = codeExpired \cup {g}
    /\ UNCHANGED <<consented, codeUsed, grantRevoked, lastPair, grantOf, familyOf,
                   rotated, revoked, expired, registered, closed, overlapped, requestVars>>

ExpireToken(t) ==
    /\ t[1] \in Issued /\ t \notin expired
    /\ expired' = expired \cup {t}
    /\ UNCHANGED <<consented, codeUsed, codeExpired, grantRevoked, lastPair, grantOf,
                   familyOf, rotated, revoked, registered, closed, overlapped, requestVars>>

\* The request ends between two transactions: the client hung up, which cancels
\* its context, or the process died.
Abandon(r) ==
    /\ ~Idle(r)
    /\ Ends(r)
    /\ UNCHANGED tables

-----------------------------------------------------------------------------
Init ==
    /\ consented = {} /\ codeUsed = {} /\ codeExpired = {} /\ grantRevoked = {}
    /\ lastPair = 0
    /\ grantOf = [n \in Pairs |-> NoGrant]
    /\ familyOf = [n \in Pairs |-> 0]
    /\ rotated = {} /\ revoked = {} /\ expired = {}
    /\ registered = 0
    /\ phase = [r \in Requests |-> "idle"]
    /\ grant = [r \in Requests |-> NoGrant]
    /\ pair = [r \in Requests |-> 0]
    /\ seen = [r \in Requests |-> FALSE]
    /\ closed = {} /\ overlapped = {}

RequestStep(r) ==
    \/ \E g \in Grants : PresentCode(r, g)
    \/ \E n \in Pairs : PresentRefreshToken(r, n) \/ RevokeOAuthToken(r, n)
    \/ ConsumeAuthCode(r) \/ IssueTokens(r) \/ InsertTokens(r)
    \/ Rotate(r) \/ RevokeFamily(r)
    \/ CountRegistrations(r) \/ RegisterDynamicClient(r)
    \/ Abandon(r)

Next ==
    \/ \E r \in Requests : RequestStep(r)
    \/ \E g \in Grants : AuthorizeClient(g) \/ RevokeConnection(g) \/ ExpireCode(g)
    \/ \E t \in Tokens : ExpireToken(t)

Spec == Init /\ [][Next]_vars

-----------------------------------------------------------------------------
TypeOK ==
    /\ consented \subseteq Grants /\ codeUsed \subseteq consented
    /\ codeExpired \subseteq consented /\ grantRevoked \subseteq consented
    /\ lastPair \in 0..MaxPairs
    /\ grantOf \in [Pairs -> Grants \cup {NoGrant}]
    /\ familyOf \in [Pairs -> 0..MaxPairs]
    /\ rotated \subseteq Issued
    /\ revoked \subseteq Tokens /\ expired \subseteq Tokens
    /\ registered \in Nat
    /\ phase \in [Requests -> Phases]
    /\ grant \in [Requests -> Grants \cup {NoGrant}]
    /\ pair \in [Requests -> 0..MaxPairs]
    /\ seen \in [Requests -> BOOLEAN]
    /\ closed \subseteq consented
    /\ \A n \in Issued : grantOf[n] \in consented /\ familyOf[n] \in 1..n
    /\ overlapped \subseteq Pairs
    /\ \A r \in Requests : pair[r] \in 0..lastPair
    /\ \A r \in Requests : ~Idle(r) /\ phase[r] # "register" => grant[r] \in consented
    /\ \A r \in Requests : phase[r] \in {"rotate", "reuse"} => pair[r] # 0

\* A code is exchanged once, however many requests present it at the same time:
\* all tokens of a grant belong to one family (docs/MCP.md: a code is
\* single-use; ConsumeAuthCode reads the row again under its lock).
CodesIssueOnce ==
    \A m, n \in Issued : grantOf[m] = grantOf[n] => familyOf[m] = familyOf[n]

\* Once an owner ended a connection, or its code was presented a second time,
\* no access token of the grant authenticates, not even one inserted afterwards
\* by a request that had read the grant before (docs/MCP.md: the next request
\* on any existing session fails).
ClosedConnectionsAreSilent ==
    \A n \in Issued : Authenticates(n) => grantOf[n] \notin closed

\* Each family has at most one refresh token that can still be rotated and at
\* most one access token that authenticates, wherever its requests are abandoned
\* and whatever happens to other families and to the grant meanwhile
\* (docs/MCP.md: the old refresh token is marked, outstanding access tokens are
\* revoked, and a new pair is issued).  Two requests at once may rotate one token
\* twice, so a family that was presented while another request was about it is
\* left out.
OnePairPerFamily ==
    \A m, n \in Issued :
        m # n /\ familyOf[m] = familyOf[n] /\ familyOf[m] \notin overlapped =>
            /\ ~(Authenticates(m) /\ Authenticates(n))
            /\ ~(/\ MayRefresh(m) /\ m \notin rotated
                 /\ MayRefresh(n) /\ n \notin rotated)

\* A family whose requests did not overlap ends as a whole: when one refresh token
\* was revoked, by a reuse or on request, no token of the family works
\* (docs/RUNBOOK.md: any reuse revokes the whole family automatically).
FamiliesEndTogether ==
    \A m, n \in Issued :
        /\ familyOf[m] = familyOf[n] /\ familyOf[m] \notin overlapped
        /\ <<m, "refresh">> \in revoked
        => ~Authenticates(n) /\ ~MayRefresh(n)

Ended(f) == \A t \in TokensOfFamily(f) : t \in revoked
Quiet(f) == \A r \in Requests : ~Serves(r, f)

\* A family that has ended with no request on it under way has ended for good:
\* nothing presented later starts a request that could bring it new tokens
\* (RefreshTokens turns a revoked token away before it rotates anything).
EndedFamiliesStayEnded ==
    [][\A f \in Issued : Ended(f) /\ Quiet(f) => (Ended(f) /\ Quiet(f))']_vars
=============================================================================
