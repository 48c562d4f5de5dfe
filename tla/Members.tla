------------------------------- MODULE Members -------------------------------
(***************************************************************************)
(* Who belongs to which organization and with what role: models/members.go, *)
(* SignInWith and DeleteAccount of models/user.go, and the creation and     *)
(* revocation of API tokens and OAuth grants as far as they outlive a       *)
(* membership.                                                              *)
(*                                                                         *)
(* The role of a browser request is read once, by the Session middleware;   *)
(* the handler then runs READ COMMITTED transactions, in which a guard and  *)
(* the update it guards, or the updates of several tables, are separate     *)
(* statements that see what was committed when each of them ran.  Each is   *)
(* an action.  An account and the one address its provider verified are the    *)
(* same user here.  A foreign key refuses the insertion that would break it.*)
(***************************************************************************)
EXTENDS Integers, FiniteSets

CONSTANTS
    Users, Tenants, Requests,
    APITokens,      \* rows of api_token, each made at most once
    Connections,    \* rows of oauth_grant, each with its tokens
    Writers,        \* bound: the users who edit or share content
    MaxInvites      \* bound: invitations ever made

Roles == {"owner", "editor", "viewer"}
NoRole == "none"
Nobody == "nobody"
Invites == 1..MaxInvites
Credentials == APITokens \cup Connections

\* A removal has passed its guard; it has deleted the membership, then revoked
\* the API tokens, then the connections it saw; the rest of the table reads the
\* membership until it commits.
Deleting == {"tokens", "connections", "commit"}
Removing == {"removal"} \cup Deleting
Phases == {"idle", "session", "role", "deletion", "founding"} \cup Removing

ASSUME NobodyAssumption == Nobody \notin Users \cup Tenants
ASSUME BoundAssumption == MaxInvites \in Nat /\ Writers \subseteq Users

VARIABLES
    accounts,       \* "user" rows
    left,           \* users who deleted their account; they stay away
    tenants,        \* tenant rows
    founded,        \* ids that were ever a tenant's
    role,           \* membership.role by tenant and user, or NoRole
    invite,         \* invite rows by id: tenant, address, role, state
    lastInvite,
    issued,         \* credentials ever made
    reaches,        \* <<tenant, user, credential>> that works
    wrote,          \* <<tenant, user>> named by a revision or a share_grant row
    request         \* requests under way

vars == <<accounts, left, tenants, founded, role, invite, lastInvite, issued,
          reaches, wrote, request>>

-----------------------------------------------------------------------------
Member(t, u) == role[<<t, u>>] # NoRole
Owners(t) == {u \in Users : role[<<t, u>>] = "owner"}
Sites(u) == {t \in Tenants : Member(t, u)}

NoInvite == [tenant |-> Nobody, user |-> Nobody, role |-> NoRole, state |-> "none"]
Pending(u) == {i \in Invites : invite[i].user = u /\ invite[i].state = "pending"}

Idle == [phase |-> "idle", actor |-> Nobody, tenant |-> Nobody, as |-> NoRole,
         target |-> Nobody, to |-> NoRole, known |-> {}, seen |-> {}]
In(r, phase) == request[r].phase = phase
Admin(r) == request[r].as = "owner"
Ends(r) == request' = [request EXCEPT ![r] = Idle]

\* The credentials of a member in a tenant.
Of(t, u) == {k \in Credentials : <<t, u, k>> \in reaches}

\* A membership row that a transaction deleted and has not committed: whoever
\* would change or insert that row waits.
RowHeld(t, u) ==
    \E r \in Requests : request[r].phase \in Deleting
                         /\ request[r].tenant = t /\ request[r].target = u

-----------------------------------------------------------------------------
\* Signing in.

\* Wrong: does what accept_invite of migration 00014 did.
AdmittedWith(u, t) ==
    LET offers == {i \in Pending(u) : invite[i].tenant = t}
    IN  IF offers = {} THEN role[<<t, u>>]
        ELSE invite[CHOOSE i \in offers : \A j \in offers : i <= j].role

\* accept_invites_for_email: a pending invitation gives a role to one who has
\* none, the earliest first.
Admitted(u, t) ==
    LET offers == {i \in Pending(u) : invite[i].tenant = t}
    IN  IF Member(t, u) \/ offers = {} THEN role[<<t, u>>]
        ELSE invite[CHOOSE i \in offers : \A j \in offers : i <= j].role

\* Every pending invitation of the address is spent, whether it gave a role or not.
Accepted(u) ==
    [i \in Invites |-> IF i \in Pending(u) THEN [invite[i] EXCEPT !.state = "accepted"]
                       ELSE invite[i]]

\* Its insertion waits for a removal that is about to commit.
CanAccept(u) == \A i \in Pending(u) : ~RowHeld(invite[i].tenant, u)

\* createTenantWithOwner.
Founded(u, t) ==
    /\ t \notin founded
    /\ tenants' = tenants \cup {t}
    /\ founded' = founded \cup {t}
    /\ wrote' = wrote \cup {<<t, u>>}

\* SignInWith for an identity not seen before.  Open: sign-ups are, or the
\* address is on the allowlist, or the sign-up link was followed.
SignInFirst(u, open) ==
    /\ u \notin accounts \cup left
    /\ open \/ Pending(u) # {}
    /\ CanAccept(u)
    /\ accounts' = accounts \cup {u}
    /\ invite' = Accepted(u)
    /\ \/ /\ open
          /\ \E own \in Tenants :
                /\ Founded(u, own)
                /\ role' = [x \in Tenants \X Users |->
                       IF x = <<own, u>> THEN "owner"
                       ELSE IF x[2] = u THEN Admitted(u, x[1]) ELSE role[x]]
       \/ /\ ~open
          /\ role' = [x \in Tenants \X Users |->
                 IF x[2] = u THEN Admitted(u, x[1]) ELSE role[x]]
          /\ UNCHANGED <<tenants, founded, wrote>>
    /\ UNCHANGED <<left, lastInvite, issued, reaches, request>>

\* SignInWith for an account that belongs somewhere or is invited somewhere.
SignInAgain(u) ==
    /\ u \in accounts /\ (Sites(u) # {} \/ Pending(u) # {})
    /\ CanAccept(u)
    /\ invite' = Accepted(u)
    /\ role' = [x \in Tenants \X Users |->
           IF x[2] = u THEN Admitted(u, x[1]) ELSE role[x]]
    /\ UNCHANGED <<accounts, left, tenants, founded, lastInvite, issued, reaches, wrote,
                   request>>

\* SignInWith for an account removed from everywhere counts its memberships,
\* then founds a site for it.
CountSites(r, u) ==
    /\ In(r, "idle")
    /\ u \in accounts /\ Sites(u) = {} /\ Pending(u) = {}
    /\ request' = [request EXCEPT ![r] =
                     [Idle EXCEPT !.phase = "founding", !.actor = u]]
    /\ UNCHANGED <<accounts, left, tenants, founded, role, invite, lastInvite,
                   issued, reaches, wrote>>

FoundSite(r) ==
    LET u == request[r].actor IN
    /\ In(r, "founding") /\ u \in accounts
    /\ \E own \in Tenants :
          Founded(u, own) /\ role' = [role EXCEPT ![<<own, u>>] = "owner"]
    /\ Ends(r)
    /\ UNCHANGED <<accounts, left, invite, lastInvite, issued, reaches>>

-----------------------------------------------------------------------------
\* The Session middleware: the principal acts in one of the account's sites,
\* which ActInTenant chooses, with the role it has there now.
Session(r, u, t) ==
    /\ In(r, "idle") /\ Member(t, u)
    /\ request' = [request EXCEPT ![r] =
                     [Idle EXCEPT !.phase = "session", !.actor = u, !.tenant = t,
                                  !.as = role[<<t, u>>]]]
    /\ UNCHANGED <<accounts, left, tenants, founded, role, invite, lastInvite,
                   issued, reaches, wrote>>

\* CreateInvite.
CreateInvite(r, u, offer) ==
    LET t == request[r].tenant IN
    /\ In(r, "session") /\ Admin(r) /\ t \in tenants /\ request[r].actor \in accounts
    /\ lastInvite < MaxInvites
    /\ lastInvite' = lastInvite + 1
    /\ invite' = [invite EXCEPT ![lastInvite + 1] =
                    [tenant |-> t, user |-> u, role |-> offer, state |-> "pending"]]
    /\ Ends(r)
    /\ UNCHANGED <<accounts, left, tenants, founded, role, issued, reaches, wrote>>

\* Wrong: withdraws an invitation that was accepted.
RevokeInviteAnyway(r, i) ==
    /\ In(r, "session") /\ Admin(r)
    /\ invite[i].tenant = request[r].tenant
    /\ invite' = [invite EXCEPT ![i].state = "revoked"]
    /\ Ends(r)
    /\ UNCHANGED <<accounts, left, tenants, founded, role, lastInvite, issued, reaches,
                   wrote>>

\* RevokeInvite.
RevokeInvite(r, i) ==
    /\ In(r, "session") /\ Admin(r)
    /\ invite[i].tenant = request[r].tenant
    /\ invite[i].state \in {"pending", "expired", "revoked"}
    /\ invite' = [invite EXCEPT ![i].state = "revoked"]
    /\ Ends(r)
    /\ UNCHANGED <<accounts, left, tenants, founded, role, lastInvite, issued, reaches,
                   wrote>>

\* lastOwnerGuard.
LastOwnerGuard(t, u) ==
    /\ Member(t, u)
    /\ role[<<t, u>>] = "owner" => Cardinality(Owners(t)) > 1

\* SetMemberRole and RemoveMember ask the guard first; promotion does not.  The
\* statements that follow use only what is kept here.
Guard(r, phase, u, to) ==
    LET t == request[r].tenant IN
    /\ In(r, "session") /\ Admin(r)
    /\ to # "owner" => LastOwnerGuard(t, u)
    /\ request' = [request EXCEPT ![r] =
                     [Idle EXCEPT !.phase = phase, !.tenant = t, !.target = u, !.to = to]]
    /\ UNCHANGED <<accounts, left, tenants, founded, role, invite, lastInvite,
                   issued, reaches, wrote>>

SetMemberRole(r) ==
    LET t == request[r].tenant
        u == request[r].target
    IN
    /\ In(r, "role") /\ Member(t, u) /\ ~RowHeld(t, u)
    /\ role' = [role EXCEPT ![<<t, u>>] = request[r].to]
    /\ Ends(r)
    /\ UNCHANGED <<accounts, left, tenants, founded, invite, lastInvite, issued, reaches,
                   wrote>>

\* RemoveMember: deletes the membership, revokes the API tokens, then the
\* connections, and commits.  Nobody else reads any of it before the commit, and
\* a credential made meanwhile is seen by the statements that run after it.
Advances(r, next) ==
    /\ request' = [request EXCEPT ![r] = next]
    /\ UNCHANGED <<accounts, left, tenants, founded, role, invite, lastInvite, issued,
                   reaches, wrote>>

\* known remembers what there was to end; no statement reads it.
DeleteMembership(r) ==
    LET t == request[r].tenant
        u == request[r].target
    IN
    /\ In(r, "removal") /\ Member(t, u) /\ ~RowHeld(t, u)
    /\ Advances(r, [request[r] EXCEPT !.phase = "tokens", !.known = Of(t, u)])

RevokeTokens(r) ==
    /\ In(r, "tokens")
    /\ Advances(r, [request[r] EXCEPT !.phase = "connections",
                       !.seen = Of(request[r].tenant, request[r].target) \cap APITokens])

\* Wrong: leaves the connections to their expiry.
RevokeNoConnections(r) ==
    /\ In(r, "connections")
    /\ Advances(r, [request[r] EXCEPT !.phase = "commit"])

RevokeConnections(r) ==
    /\ In(r, "connections")
    /\ Advances(r, [request[r] EXCEPT !.phase = "commit",
                       !.seen = request[r].seen \cup
                           (Of(request[r].tenant, request[r].target) \cap Connections)])

CommitRemoval(r) ==
    LET t == request[r].tenant
        u == request[r].target
    IN
    /\ In(r, "commit") /\ Member(t, u)
    /\ role' = [role EXCEPT ![<<t, u>>] = NoRole]
    /\ reaches' = {x \in reaches : ~(x[1] = t /\ x[2] = u /\ x[3] \in request[r].seen)}
    /\ Ends(r)
    /\ UNCHANGED <<accounts, left, tenants, founded, invite, lastInvite, issued, wrote>>

-----------------------------------------------------------------------------
\* CreateAPIToken and AuthorizeClient, of any member, whatever happened to the
\* membership since the request began.
CreateCredential(r, k) ==
    LET t == request[r].tenant
        u == request[r].actor
    IN
    /\ In(r, "session") /\ t \in tenants /\ u \in accounts
    /\ k \notin issued
    /\ issued' = issued \cup {k}
    /\ reaches' = reaches \cup {<<t, u, k>>}
    /\ Ends(r)
    /\ UNCHANGED <<accounts, left, tenants, founded, role, invite, lastInvite, wrote>>

\* RevokeAPIToken and RevokeConnection, by any member; or a credential expires.
EndCredential(k) ==
    /\ \E x \in reaches : x[3] = k
    /\ reaches' = {x \in reaches : x[3] # k}
    /\ UNCHANGED <<accounts, left, tenants, founded, role, invite, lastInvite, issued,
                   wrote, request>>

\* appendRevision names who writes, CreateShareGrant who shares.
Names(r) ==
    LET t == request[r].tenant
        u == request[r].actor
    IN
    /\ In(r, "session") /\ u \in Writers \cap accounts /\ t \in tenants
    /\ wrote' = wrote \cup {<<t, u>>}
    /\ Ends(r)
    /\ UNCHANGED <<accounts, left, tenants, founded, role, invite, lastInvite, issued,
                   reaches>>

WriteContent(r) == request[r].as \in {"owner", "editor"} /\ Names(r)

\* Sharing a page asks for a browser session, whatever its role.
SharePage(r) == Names(r)

\* DeleteAccount asks IsOwner in a transaction of its own.
CheckOwner(r) ==
    /\ In(r, "session")
    /\ role[<<request[r].tenant, request[r].actor>>] = "owner"
    /\ request' = [request EXCEPT ![r].phase = "deletion", ![r].as = NoRole]
    /\ UNCHANGED <<accounts, left, tenants, founded, role, invite, lastInvite,
                   issued, reaches, wrote>>

\* Revisions and links of another site that name the user refuse the deletion:
\* revision.user_id and share_grant.created_by_user_id reference "user" without a
\* referential action.
NamedElsewhere(r) ==
    \E t \in Tenants \ {request[r].tenant} : <<t, request[r].actor>> \in wrote

\* DeleteAccount: the tenant with all its rows, then the user with theirs.
DeleteAccount(r) ==
    LET t == request[r].tenant
        u == request[r].actor
        Gone(x) == x[1] = t \/ x[2] = u
    IN
    /\ In(r, "deletion") /\ ~NamedElsewhere(r)
    /\ \A x \in Tenants \X Users : Gone(x) => ~RowHeld(x[1], x[2])
    /\ tenants' = tenants \ {t}
    /\ accounts' = accounts \ {u}
    /\ left' = left \cup {u}
    /\ role' = [x \in Tenants \X Users |-> IF Gone(x) THEN NoRole ELSE role[x]]
    /\ reaches' = {x \in reaches : ~Gone(x)}
    /\ wrote' = {x \in wrote : ~Gone(x)}
    /\ invite' = [i \in Invites |->
           IF invite[i].tenant = t THEN [invite[i] EXCEPT !.state = "deleted"]
           ELSE invite[i]]
    /\ Ends(r)
    /\ UNCHANGED <<founded, lastInvite, issued>>

-----------------------------------------------------------------------------
ExpireInvite(i) ==
    /\ invite[i].state = "pending"
    /\ invite' = [invite EXCEPT ![i].state = "expired"]
    /\ UNCHANGED <<accounts, left, tenants, founded, role, lastInvite, issued, reaches,
                   wrote, request>>

\* The request is refused, or ends between its statements.
Abandon(r) ==
    /\ ~In(r, "idle")
    /\ Ends(r)
    /\ UNCHANGED <<accounts, left, tenants, founded, role, invite, lastInvite,
                   issued, reaches, wrote>>

Init ==
    /\ accounts = {} /\ left = {} /\ tenants = {} /\ founded = {}
    /\ role = [x \in Tenants \X Users |-> NoRole]
    /\ invite = [i \in Invites |-> NoInvite]
    /\ lastInvite = 0
    /\ issued = {} /\ reaches = {} /\ wrote = {}
    /\ request = [r \in Requests |-> Idle]

RequestStep(r) ==
    \/ \E u \in Users : CountSites(r, u)
    \/ \E u \in Users, t \in Tenants : Session(r, u, t)
    \/ \E u \in Users, offer \in Roles : CreateInvite(r, u, offer)
    \/ \E i \in Invites : RevokeInvite(r, i)
    \/ \E u \in Users, to \in Roles : Guard(r, "role", u, to)
    \/ \E u \in Users : Guard(r, "removal", u, NoRole)
    \/ \E k \in Credentials : CreateCredential(r, k)
    \/ FoundSite(r) \/ SetMemberRole(r)
    \/ DeleteMembership(r) \/ RevokeTokens(r) \/ RevokeConnections(r) \/ CommitRemoval(r)
    \/ WriteContent(r) \/ SharePage(r) \/ CheckOwner(r) \/ DeleteAccount(r) \/ Abandon(r)

Next ==
    \/ \E r \in Requests : RequestStep(r)
    \/ \E u \in Users : SignInAgain(u) \/ \E open \in BOOLEAN : SignInFirst(u, open)
    \/ \E k \in Credentials : EndCredential(k)
    \/ \E i \in Invites : ExpireInvite(i)

Spec == Init /\ [][Next]_vars

-----------------------------------------------------------------------------
InviteRows ==
    [tenant : Tenants \cup {Nobody}, user : Users \cup {Nobody}, role : Roles \cup {NoRole},
     state : {"none", "pending", "accepted", "revoked", "expired", "deleted"}]

RequestStates ==
    [phase : Phases, actor : Users \cup {Nobody}, tenant : Tenants \cup {Nobody},
     as : Roles \cup {NoRole}, target : Users \cup {Nobody}, to : Roles \cup {NoRole},
     known : SUBSET Credentials, seen : SUBSET Credentials]

TypeOK ==
    /\ accounts \subseteq Users /\ left \subseteq Users \ accounts
    /\ tenants \subseteq founded /\ founded \subseteq Tenants
    /\ role \in [Tenants \X Users -> Roles \cup {NoRole}]
    /\ \A t \in Tenants, u \in Users : Member(t, u) => t \in tenants /\ u \in accounts
    /\ lastInvite \in 0..MaxInvites
    /\ invite \in [Invites -> InviteRows]
    /\ \A i \in Invites : invite[i].state = "pending" =>
          i <= lastInvite /\ invite[i].tenant \in tenants /\ invite[i].role \in Roles
    /\ issued \subseteq Credentials
    /\ reaches \subseteq tenants \X accounts \X issued
    /\ wrote \subseteq tenants \X accounts
    /\ request \in [Requests -> RequestStates]

\* Signing in never changes the role somebody has, whatever invitations for the
\* address lie around (docs/SECURITY.md: being invited again never demotes).
InvitesNeverDemote ==
    [][(\E i \in Invites : invite[i].state = "pending" /\ invite'[i].state = "accepted") =>
          \A t \in Tenants, u \in Users : Member(t, u) => role'[<<t, u>>] = role[<<t, u>>]]_vars

\* Who joins a site that exists spends an invitation to it in the same step, and
\* an invitation that was accepted or revoked stays so: nobody who was removed
\* returns on an old invitation, and a revoked one admits nobody, in whatever
\* order sign-in, removal and revocation come.
InvitationsAdmitOnce ==
    [][/\ \A t \in tenants, u \in Users : ~Member(t, u) /\ Member(t, u)' =>
             \E i \in Invites : /\ invite[i].tenant = t /\ invite[i].user = u
                                /\ invite[i].state = "pending"
                                /\ invite'[i].state = "accepted"
       /\ \A i \in Invites : invite[i].state \in {"accepted", "revoked"} =>
             invite'[i].state \in {invite[i].state, "deleted"}]_vars

\* A removal ends every credential that reached the organization when the
\* membership was deleted, one after another beside whatever else is made and
\* revoked meanwhile (RemoveMember: "ends every way they were reaching it").  A
\* credential made after the statement that revokes its kind is not among them.
Removes(r) ==
    /\ In(r, "commit") /\ In(r, "idle")'
    /\ Member(request[r].tenant, request[r].target)
    /\ role'[<<request[r].tenant, request[r].target>>] = NoRole

RemovalEndsCredentials ==
    [][\A r \in Requests : Removes(r) =>
          \A k \in request[r].known :
             <<request[r].tenant, request[r].target, k>> \notin reaches']_vars

-----------------------------------------------------------------------------
\* What the comments and the documentation say and the code does not keep.

\* members.go: the last owner cannot be demoted; "an organization with no owner
\* has nobody who can invite, change settings or delete it".  Accounts that are
\* deleted are left out.
AdministrationKeepsAnOwner ==
    [][\A t \in tenants :
          Owners(t) # {} /\ accounts \subseteq accounts' => Owners(t)' # {}]_vars
=============================================================================
