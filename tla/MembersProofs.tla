---------------------------- MODULE MembersProofs ----------------------------
(***************************************************************************)
(* Theorems about Members, for any number of people, organizations,         *)
(* requests and invitations: the type invariant, an invitation admits once  *)
(* and never demotes, and a removal ends the credentials it finds.          *)
(***************************************************************************)
EXTENDS Members, FiniteSetTheorems, WellFoundedInduction, TLAPS

-----------------------------------------------------------------------------
\* Some invitation of a nonempty set came first.  Strict inclusion among the
\* finite sets is well-founded, and 1..i grows with i.
LEMMA Earliest ==
    ASSUME NEW S \in SUBSET Invites, S # {}
    PROVE  (CHOOSE i \in S : \A j \in S : i <= j) \in S
<1> DEFINE Before == {1..i : i \in S}
<1>1. S \subseteq Nat /\ Before # {}
    <2>1. S \subseteq Nat
        BY BoundAssumption DEF Invites
    <2>2. PICK i \in S : TRUE
        OBVIOUS
    <2>3. 1..i \in Before
        OBVIOUS
    <2> QED BY <2>1, <2>3
<1>2. Before \subseteq FiniteSubsetsOf(Nat)
    <2>1. ASSUME NEW i \in S PROVE IsFiniteSet(1..i) /\ 1..i \subseteq Nat
        BY <1>1, FS_Interval
    <2> QED BY <2>1 DEF FiniteSubsetsOf
<1>3. PICK b \in Before : \A c \in Before : <<c, b>> \notin StrictSubsetOrdering(Nat)
    BY <1>1, <1>2, WFMin, FS_StrictSubsetOrderingWellFounded
<1>4. PICK i \in S : b = 1..i
    BY <1>3
<1>5. ASSUME NEW j \in S PROVE i <= j
    <2>1. CASE j < i
        <3>1. 1..j \in SUBSET Nat /\ 1..i \in SUBSET Nat
            BY <1>1
        <3>2. 1..j \subseteq 1..i
            BY <1>1, <2>1
        <3>3. i \in 1..i /\ i \notin 1..j
            BY <1>1, <2>1, BoundAssumption DEF Invites
        <3>4. <<1..j, 1..i>> \in StrictSubsetOrdering(Nat)
            BY <3>1, <3>2, <3>3 DEF StrictSubsetOrdering
        <3> QED BY <1>3, <1>4, <3>4
    <2> QED BY <1>1, <2>1
<1> QED BY <1>5

-----------------------------------------------------------------------------
\* A request between two statements is about a member of the sets it names, and
\* an invitation not made yet is blank.
RequestsAct ==
    \A r \in Requests :
        /\ request[r].phase \in {"session", "deletion", "founding"} =>
              request[r].actor \in Users
        /\ request[r].phase \notin {"idle", "founding"} => request[r].tenant \in Tenants
        /\ request[r].phase \in {"role"} \cup Removing => request[r].target \in Users
        /\ request[r].phase = "role" => request[r].to \in Roles

BlankInvites == \A i \in Invites : i > lastInvite => invite[i] = NoInvite

IInv == TypeOK /\ RequestsAct /\ BlankInvites

\* What an invitation gives is a role of an organization that exists.
LEMMA AdmittedRole ==
    ASSUME TypeOK, NEW u \in Users, NEW t \in Tenants
    PROVE  /\ Admitted(u, t) \in Roles \cup {NoRole}
           /\ Member(t, u) => Admitted(u, t) = role[<<t, u>>]
           /\ Admitted(u, t) # NoRole => t \in tenants
<1> DEFINE offers == {i \in Pending(u) : invite[i].tenant = t}
<1>1. /\ role[<<t, u>>] \in Roles \cup {NoRole}
      /\ Member(t, u) => t \in tenants
    BY DEF TypeOK
<1>2. CASE Member(t, u) \/ offers = {}
    <2>1. Admitted(u, t) = role[<<t, u>>]
        BY <1>2 DEF Admitted
    <2> QED BY <2>1, <1>1 DEF Member
<1>3. CASE ~Member(t, u) /\ offers # {}
    <2>1. offers \in SUBSET Invites
        BY DEF Pending
    <2> DEFINE first == CHOOSE i \in offers : \A j \in offers : i <= j
    <2>2. first \in offers
        BY <1>3, <2>1, Earliest
    <2>3. Admitted(u, t) = invite[first].role
        BY <1>3 DEF Admitted
    <2> HIDE DEF first
    <2>4. invite[first].role \in Roles /\ t \in tenants
        BY <2>1, <2>2 DEF Pending, TypeOK
    <2> QED BY <1>3, <2>3, <2>4
<1> QED BY <1>2, <1>3

\* Spending invitations leaves rows that are invitations still.
LEMMA AcceptedInvites ==
    ASSUME IInv, NEW u \in Users, invite' = Accepted(u), tenants \subseteq tenants',
           lastInvite' = lastInvite
    PROVE  /\ invite' \in [Invites -> InviteRows]
           /\ \A i \in Invites : invite'[i].state = "pending" =>
                i <= lastInvite' /\ invite'[i].tenant \in tenants' /\ invite'[i].role \in Roles
           /\ BlankInvites'
<1>1. \A i \in Invites : invite'[i].state = "pending" => invite'[i] = invite[i]
    BY DEF Accepted, IInv, TypeOK
<1>2. \A i \in Invites : invite'[i] # invite[i] => invite[i].state = "pending"
    BY DEF Accepted, Pending
<1>3. BlankInvites'
    BY <1>2 DEF IInv, BlankInvites, NoInvite
<1>4. invite' \in [Invites -> InviteRows]
    <2>1. ASSUME NEW i \in Invites PROVE Accepted(u)[i] \in InviteRows
        <3>1. invite[i] \in InviteRows
            BY DEF IInv, TypeOK
        <3>2. [invite[i] EXCEPT !.state = "accepted"] \in InviteRows
            BY <3>1 DEF InviteRows
        <3> QED BY <3>1, <3>2 DEF Accepted
    <2> QED BY <2>1 DEF Accepted
<1> QED BY <1>1, <1>3, <1>4 DEF IInv, TypeOK


-----------------------------------------------------------------------------
\* Init and every action keep the inductive invariant.
LEMMA InductiveInit == Init => IInv
<1> SUFFICES ASSUME Init PROVE IInv
    OBVIOUS
<1>1. Idle \in RequestStates /\ NoInvite \in InviteRows
    BY DEF Idle, RequestStates, Phases, NoInvite, InviteRows
<1>2. TypeOK
    BY <1>1, BoundAssumption DEF Init, TypeOK, Member, NoInvite
<1>3. RequestsAct /\ BlankInvites
    BY DEF Init, RequestsAct, BlankInvites, Idle, Removing, Deleting
<1> QED BY <1>2, <1>3 DEF IInv

\* A request that ends leaves nothing to go wrong in its state.
LEMMA EndsKeepsRequests ==
    ASSUME IInv, NEW r \in Requests, Ends(r)
    PROVE  request' \in [Requests -> RequestStates] /\ RequestsAct'
<1>1. Idle \in RequestStates /\ Idle.phase = "idle"
    BY DEF Idle, RequestStates, Phases
<1>2. request' \in [Requests -> RequestStates]
    BY <1>1 DEF Ends, IInv, TypeOK
<1>3. \A s \in Requests : request'[s] = Idle \/ request'[s] = request[s]
    BY DEF Ends, IInv, TypeOK
<1> QED BY <1>1, <1>2, <1>3 DEF IInv, RequestsAct, Removing, Deleting

\* The steps that only read the tables.
LEMMA ReadingSteps ==
    ASSUME IInv, NEW r \in Requests,
           UNCHANGED <<accounts, left, tenants, founded, role, invite, lastInvite,
                       issued, reaches, wrote>>,
           request' \in [Requests -> RequestStates], RequestsAct'
    PROVE  IInv'
<1>1. TypeOK'
    BY DEF IInv, TypeOK, Member
<1> QED BY <1>1 DEF IInv, BlankInvites

LEMMA CountSitesStep ==
    ASSUME IInv, NEW r \in Requests, NEW u \in Users, CountSites(r, u)
    PROVE  IInv'
<1> DEFINE q == [Idle EXCEPT !.phase = "founding", !.actor = u]
<1>1. q \in RequestStates /\ q.phase = "founding" /\ q.actor = u
    BY DEF Idle, RequestStates, Phases
<1>2. request' = [request EXCEPT ![r] = q]
    BY DEF CountSites
<1> HIDE DEF q
<1>3. request' \in [Requests -> RequestStates] /\ RequestsAct'
    BY <1>1, <1>2 DEF IInv, TypeOK, RequestsAct, Removing, Deleting
<1> QED BY <1>3, ReadingSteps DEF CountSites

LEMMA SessionStep ==
    ASSUME IInv, NEW r \in Requests, NEW u \in Users, NEW t \in Tenants, Session(r, u, t)
    PROVE  IInv'
<1> DEFINE q == [Idle EXCEPT !.phase = "session", !.actor = u, !.tenant = t,
                             !.as = role[<<t, u>>]]
<1>1. role[<<t, u>>] \in Roles \cup {NoRole}
    BY DEF IInv, TypeOK
<1>2. q \in RequestStates /\ q.phase = "session" /\ q.actor = u /\ q.tenant = t
    BY <1>1 DEF Idle, RequestStates, Phases
<1>3. request' = [request EXCEPT ![r] = q]
    BY DEF Session
<1> HIDE DEF q
<1>4. request' \in [Requests -> RequestStates] /\ RequestsAct'
    BY <1>2, <1>3 DEF IInv, TypeOK, RequestsAct, Removing, Deleting
<1> QED BY <1>4, ReadingSteps DEF Session

LEMMA GuardStep ==
    ASSUME IInv, NEW r \in Requests, NEW phase \in {"role", "removal"},
           NEW u \in Users, NEW to \in Roles \cup {NoRole},
           phase = "role" => to \in Roles, Guard(r, phase, u, to)
    PROVE  IInv'
<1> DEFINE t == request[r].tenant
           q == [Idle EXCEPT !.phase = phase, !.tenant = t, !.target = u, !.to = to]
<1>1. t \in Tenants
    BY DEF IInv, RequestsAct, Guard, In
<1>2. request' = [request EXCEPT ![r] = q]
    BY DEF Guard
<1> HIDE DEF t
<1>3. q \in RequestStates /\ q.phase = phase /\ q.tenant = t /\ q.target = u /\ q.to = to
    BY <1>1 DEF Idle, RequestStates, Phases, Removing
<1> HIDE DEF q
<1>4. request' \in [Requests -> RequestStates]
    BY <1>2, <1>3 DEF IInv, TypeOK
<1>5. RequestsAct'
    BY <1>1, <1>2, <1>3 DEF IInv, TypeOK, RequestsAct, Removing, Deleting
<1> QED BY <1>4, <1>5, ReadingSteps DEF Guard

\* A removal goes from one statement to the next.
LEMMA AdvancesStep ==
    ASSUME IInv, NEW r \in Requests, NEW known \in SUBSET Credentials,
           NEW seen \in SUBSET Credentials, NEW phase \in Deleting, In(r, "removal") \/ request[r].phase \in Deleting,
           Advances(r, [request[r] EXCEPT !.phase = phase, !.known = known, !.seen = seen])
    PROVE  IInv'
<1> DEFINE q == [request[r] EXCEPT !.phase = phase, !.known = known, !.seen = seen]
<1>1. request[r] \in RequestStates /\ request[r].phase \in Removing
    BY DEF IInv, TypeOK, In, Removing
<1>2. request[r].tenant \in Tenants /\ request[r].target \in Users
    BY <1>1 DEF IInv, RequestsAct, Removing, Deleting
<1>3. /\ q \in RequestStates /\ q.phase = phase /\ q.tenant = request[r].tenant
      /\ q.target = request[r].target
    BY <1>1 DEF RequestStates, Phases, Removing
<1>4. request' = [request EXCEPT ![r] = q]
    BY DEF Advances
<1> HIDE DEF q
<1>5. request' \in [Requests -> RequestStates]
    BY <1>3, <1>4 DEF IInv, TypeOK
<1>6. RequestsAct'
    BY <1>2, <1>3, <1>4 DEF IInv, TypeOK, RequestsAct, Removing, Deleting
<1> QED BY <1>5, <1>6, ReadingSteps DEF Advances

LEMMA RemovalSteps ==
    ASSUME IInv, NEW r \in Requests,
           DeleteMembership(r) \/ RevokeTokens(r) \/ RevokeConnections(r)
    PROVE  IInv'
<1> DEFINE q == request[r]
           of == Of(q.tenant, q.target)
<1>1. q \in RequestStates /\ of \subseteq Credentials
    BY DEF IInv, TypeOK, Of
<1>2. q.known \subseteq Credentials /\ q.seen \subseteq Credentials
    BY <1>1 DEF RequestStates
<1>3. CASE DeleteMembership(r)
    <2>1. [q EXCEPT !.phase = "tokens", !.known = of] =
          [q EXCEPT !.phase = "tokens", !.known = of, !.seen = q.seen]
        BY <1>1 DEF RequestStates
    <2> QED BY <1>1, <1>2, <1>3, <2>1, AdvancesStep DEF DeleteMembership, Deleting
<1>4. CASE RevokeTokens(r)
    <2>1. [q EXCEPT !.phase = "connections", !.seen = of \cap APITokens] =
          [q EXCEPT !.phase = "connections", !.known = q.known, !.seen = of \cap APITokens]
        BY <1>1 DEF RequestStates
    <2> QED BY <1>1, <1>2, <1>4, <2>1, AdvancesStep DEF RevokeTokens, Deleting, In
<1>5. CASE RevokeConnections(r)
    <2>1. [q EXCEPT !.phase = "commit", !.seen = q.seen \cup (of \cap Connections)] =
          [q EXCEPT !.phase = "commit", !.known = q.known,
                    !.seen = q.seen \cup (of \cap Connections)]
        BY <1>1 DEF RequestStates
    <2> QED BY <1>1, <1>2, <1>5, <2>1, AdvancesStep DEF RevokeConnections, Deleting, In
<1> QED BY <1>3, <1>4, <1>5

LEMMA CheckOwnerStep ==
    ASSUME IInv, NEW r \in Requests, CheckOwner(r)
    PROVE  IInv'
<1> DEFINE q == [request[r] EXCEPT !.phase = "deletion", !.as = NoRole]
<1>1. request[r] \in RequestStates /\ request[r].phase = "session"
    BY DEF IInv, TypeOK, CheckOwner, In
<1>2. request[r].actor \in Users /\ request[r].tenant \in Tenants
    BY <1>1 DEF IInv, RequestsAct
<1>3. /\ q \in RequestStates /\ q.phase = "deletion" /\ q.actor = request[r].actor
      /\ q.tenant = request[r].tenant
    BY <1>1 DEF RequestStates, Phases
<1>4. request' = [request EXCEPT ![r] = q]
    BY DEF CheckOwner, IInv, TypeOK
<1> HIDE DEF q
<1>5. request' \in [Requests -> RequestStates]
    BY <1>3, <1>4 DEF IInv, TypeOK
<1>6. RequestsAct'
    BY <1>2, <1>3, <1>4 DEF IInv, TypeOK, RequestsAct, Removing, Deleting
<1> QED BY <1>5, <1>6, ReadingSteps DEF CheckOwner

-----------------------------------------------------------------------------
\* The steps that write.
LEMMA SignInFirstStep ==
    ASSUME IInv, NEW u \in Users, NEW open \in BOOLEAN, SignInFirst(u, open)
    PROVE  IInv'
<1>1. /\ accounts' = accounts \cup {u} /\ left' = left /\ u \notin left
      /\ invite' = Accepted(u) /\ lastInvite' = lastInvite
      /\ issued' = issued /\ reaches' = reaches /\ request' = request
    BY DEF SignInFirst
<1>2. ASSUME NEW t \in Tenants, NEW v \in Users
      PROVE  /\ role[<<t, v>>] \in Roles \cup {NoRole}
             /\ role[<<t, v>>] # NoRole => t \in tenants /\ v \in accounts
             /\ Admitted(u, t) \in Roles \cup {NoRole}
             /\ Admitted(u, t) # NoRole => t \in tenants
    BY AdmittedRole DEF IInv, TypeOK, Member
<1>3. CASE open
    <2>1. PICK own \in Tenants :
              /\ Founded(u, own)
              /\ role' = [x \in Tenants \X Users |->
                     IF x = <<own, u>> THEN "owner"
                     ELSE IF x[2] = u THEN Admitted(u, x[1]) ELSE role[x]]
        BY <1>3 DEF SignInFirst
    <2>2. /\ tenants' = tenants \cup {own} /\ founded' = founded \cup {own}
          /\ wrote' = wrote \cup {<<own, u>>}
        BY <2>1 DEF Founded
    <2>3. ASSUME NEW t \in Tenants, NEW v \in Users
          PROVE  /\ role'[<<t, v>>] \in Roles \cup {NoRole}
                 /\ role'[<<t, v>>] # NoRole => t \in tenants' /\ v \in accounts'
        BY <1>1, <1>2, <2>1, <2>2 DEF Roles
    <2>4. role' \in [Tenants \X Users -> Roles \cup {NoRole}]
        BY <1>2, <2>1 DEF IInv, TypeOK, Roles
    <2> QED BY <1>1, <2>2, <2>3, <2>4, AcceptedInvites
            DEF IInv, TypeOK, Member, RequestsAct
<1>4. CASE ~open
    <2>1. /\ role' = [x \in Tenants \X Users |->
                 IF x[2] = u THEN Admitted(u, x[1]) ELSE role[x]]
          /\ UNCHANGED <<tenants, founded, wrote>>
        BY <1>4 DEF SignInFirst
    <2>2. ASSUME NEW t \in Tenants, NEW v \in Users
          PROVE  /\ role'[<<t, v>>] \in Roles \cup {NoRole}
                 /\ role'[<<t, v>>] # NoRole => t \in tenants' /\ v \in accounts'
        BY <1>1, <1>2, <2>1
    <2>3. role' \in [Tenants \X Users -> Roles \cup {NoRole}]
        BY <1>2, <2>1 DEF IInv, TypeOK
    <2>4. /\ invite' \in [Invites -> InviteRows]
          /\ \A i \in Invites : invite'[i].state = "pending" =>
                i <= lastInvite' /\ invite'[i].tenant \in tenants' /\ invite'[i].role \in Roles
          /\ BlankInvites'
        BY <1>1, <2>1, AcceptedInvites
    <2>5. /\ accounts' \subseteq Users /\ left' \subseteq Users \ accounts'
          /\ reaches' \subseteq tenants' \X accounts' \X issued' /\ wrote' \subseteq tenants' \X accounts'
        BY <1>1, <2>1 DEF IInv, TypeOK
    <2>6. \A t \in Tenants, v \in Users : Member(t, v)' => t \in tenants' /\ v \in accounts'
        BY <2>2 DEF Member
    <2>7. TypeOK'
        BY <1>1, <2>1, <2>3, <2>4, <2>5, <2>6 DEF IInv, TypeOK
    <2> QED BY <1>1, <2>4, <2>7 DEF IInv, RequestsAct
<1> QED BY <1>3, <1>4

LEMMA SignInAgainStep ==
    ASSUME IInv, NEW u \in Users, SignInAgain(u)
    PROVE  IInv'
<1>1. /\ u \in accounts /\ invite' = Accepted(u)
      /\ role' = [x \in Tenants \X Users |->
             IF x[2] = u THEN Admitted(u, x[1]) ELSE role[x]]
      /\ UNCHANGED <<accounts, left, tenants, founded, lastInvite, issued, reaches, wrote, request>>
    BY DEF SignInAgain
<1>2. ASSUME NEW t \in Tenants, NEW v \in Users
      PROVE  /\ role[<<t, v>>] \in Roles \cup {NoRole}
             /\ role[<<t, v>>] # NoRole => t \in tenants /\ v \in accounts
             /\ Admitted(u, t) \in Roles \cup {NoRole}
             /\ Admitted(u, t) # NoRole => t \in tenants
    BY AdmittedRole DEF IInv, TypeOK, Member
<1>3. ASSUME NEW t \in Tenants, NEW v \in Users
      PROVE  /\ role'[<<t, v>>] \in Roles \cup {NoRole}
             /\ role'[<<t, v>>] # NoRole => t \in tenants' /\ v \in accounts'
    BY <1>1, <1>2
<1>4. role' \in [Tenants \X Users -> Roles \cup {NoRole}]
    BY <1>1, <1>2 DEF IInv, TypeOK
<1> QED BY <1>1, <1>3, <1>4, AcceptedInvites DEF IInv, TypeOK, Member, RequestsAct

LEMMA FoundSiteStep ==
    ASSUME IInv, NEW r \in Requests, FoundSite(r)
    PROVE  IInv'
<1> DEFINE u == request[r].actor
<1>1. u \in Users /\ u \in accounts
    BY DEF FoundSite, In, IInv, RequestsAct
<1>2. PICK own \in Tenants :
          Founded(u, own) /\ role' = [role EXCEPT ![<<own, u>>] = "owner"]
    BY DEF FoundSite
<1>3. UNCHANGED <<accounts, left, invite, lastInvite, issued, reaches>>
    BY DEF FoundSite
<1>4. request' \in [Requests -> RequestStates] /\ RequestsAct'
    BY EndsKeepsRequests DEF FoundSite
<1> HIDE DEF u
<1>5. role' \in [Tenants \X Users -> Roles \cup {NoRole}]
    BY <1>1, <1>2 DEF IInv, TypeOK, Roles
<1>6. \A t \in Tenants, v \in Users : Member(t, v)' => t \in tenants' /\ v \in accounts'
    BY <1>1, <1>2, <1>3 DEF IInv, TypeOK, Member, Founded
<1> QED BY <1>1, <1>2, <1>3, <1>4, <1>5, <1>6 DEF IInv, TypeOK, BlankInvites, Founded

LEMMA CreateInviteStep ==
    ASSUME IInv, NEW r \in Requests, NEW u \in Users, NEW offer \in Roles,
           CreateInvite(r, u, offer)
    PROVE  IInv'
<1> DEFINE row == [tenant |-> request[r].tenant, user |-> u, role |-> offer,
                   state |-> "pending"]
           n == lastInvite + 1
<1>1. /\ request[r].tenant \in tenants /\ lastInvite < MaxInvites /\ lastInvite' = n
      /\ invite' = [invite EXCEPT ![n] = row]
      /\ UNCHANGED <<accounts, left, tenants, founded, role, issued, reaches, wrote>>
    BY DEF CreateInvite
<1>2. n \in Invites /\ lastInvite' \in 0..MaxInvites /\ lastInvite \in Nat
    BY <1>1, BoundAssumption DEF IInv, TypeOK, Invites
<1>3. row \in InviteRows
    BY <1>1 DEF InviteRows, IInv, TypeOK
<1>4. request' \in [Requests -> RequestStates] /\ RequestsAct'
    BY EndsKeepsRequests DEF CreateInvite
<1>5. row.tenant \in tenants' /\ row.role \in Roles
    BY <1>1
<1>6. n = lastInvite + 1
    OBVIOUS
<1> HIDE DEF row, n
<1>7. invite' \in [Invites -> InviteRows]
    BY <1>1, <1>2, <1>3 DEF IInv, TypeOK
<1>8. ASSUME NEW i \in Invites
      PROVE  /\ invite'[i].state = "pending" =>
                    /\ i <= lastInvite'
                    /\ invite'[i].tenant \in tenants'
                    /\ invite'[i].role \in Roles
             /\ i > lastInvite' => invite'[i] = NoInvite
    <2>1. i \in Nat
        BY BoundAssumption DEF Invites
    <2>2. CASE i = n
        BY <2>1, <2>2, <1>1, <1>2, <1>5, <1>6 DEF IInv, TypeOK
    <2>3. CASE i # n
        BY <2>1, <2>3, <1>1, <1>2, <1>6 DEF IInv, TypeOK, BlankInvites
    <2> QED BY <2>2, <2>3
<1> QED BY <1>1, <1>2, <1>4, <1>7, <1>8 DEF IInv, TypeOK, Member, BlankInvites

LEMMA RevokeInviteStep ==
    ASSUME IInv, NEW r \in Requests, NEW n \in Invites, RevokeInvite(r, n)
    PROVE  IInv'
<1> DEFINE row == [invite[n] EXCEPT !.state = "revoked"]
<1>1. /\ invite' = [invite EXCEPT ![n] = row] /\ invite[n].state # "none"
      /\ UNCHANGED <<accounts, left, tenants, founded, role, lastInvite, issued, reaches, wrote>>
    BY DEF RevokeInvite, IInv, TypeOK
<1>2. row \in InviteRows /\ row.state = "revoked"
    BY DEF InviteRows, IInv, TypeOK
<1>3. request' \in [Requests -> RequestStates] /\ RequestsAct'
    BY EndsKeepsRequests DEF RevokeInvite
<1> HIDE DEF row
<1>4. n <= lastInvite
    BY <1>1, BoundAssumption DEF IInv, TypeOK, BlankInvites, NoInvite, Invites
<1> QED BY <1>1, <1>2, <1>3, <1>4, BoundAssumption
        DEF IInv, TypeOK, Member, BlankInvites, Invites

LEMMA ExpireInviteStep ==
    ASSUME IInv, NEW n \in Invites, ExpireInvite(n)
    PROVE  IInv'
<1> DEFINE row == [invite[n] EXCEPT !.state = "expired"]
<1>1. /\ invite' = [invite EXCEPT ![n] = row] /\ invite[n].state # "none"
      /\ UNCHANGED <<accounts, left, tenants, founded, role, lastInvite, issued, reaches, wrote,
                     request>>
    BY DEF ExpireInvite, IInv, TypeOK
<1>2. row \in InviteRows /\ row.state = "expired"
    BY DEF InviteRows, IInv, TypeOK
<1> HIDE DEF row
<1>3. n <= lastInvite
    BY <1>1, BoundAssumption DEF IInv, TypeOK, BlankInvites, NoInvite, Invites
<1> QED BY <1>1, <1>2, <1>3, BoundAssumption
        DEF IInv, TypeOK, Member, BlankInvites, Invites, RequestsAct

LEMMA SetMemberRoleStep ==
    ASSUME IInv, NEW r \in Requests, SetMemberRole(r)
    PROVE  IInv'
<1> DEFINE t == request[r].tenant
           u == request[r].target
           to == request[r].to
<1>1. t \in Tenants /\ u \in Users /\ to \in Roles
    BY DEF SetMemberRole, In, IInv, RequestsAct
<1>2. /\ Member(t, u) /\ role' = [role EXCEPT ![<<t, u>>] = to]
      /\ UNCHANGED <<accounts, left, tenants, founded, invite, lastInvite, issued, reaches, wrote>>
    BY DEF SetMemberRole
<1>3. request' \in [Requests -> RequestStates] /\ RequestsAct'
    BY EndsKeepsRequests DEF SetMemberRole
<1> HIDE DEF t, u, to
<1>4. role' \in [Tenants \X Users -> Roles \cup {NoRole}]
    BY <1>1, <1>2 DEF IInv, TypeOK
<1>5. \A x \in Tenants, v \in Users : Member(x, v)' => Member(x, v)
    BY <1>1, <1>2 DEF IInv, TypeOK, Member
<1> QED BY <1>2, <1>3, <1>4, <1>5 DEF IInv, TypeOK, BlankInvites

LEMMA CommitRemovalStep ==
    ASSUME IInv, NEW r \in Requests, CommitRemoval(r)
    PROVE  IInv'
<1> DEFINE t == request[r].tenant
           u == request[r].target
<1>1. t \in Tenants /\ u \in Users
    BY DEF CommitRemoval, In, IInv, RequestsAct, Removing, Deleting
<1>2. /\ role' = [role EXCEPT ![<<t, u>>] = NoRole]
      /\ reaches' \subseteq reaches
      /\ UNCHANGED <<accounts, left, tenants, founded, invite, lastInvite, issued, wrote>>
    BY DEF CommitRemoval
<1>3. request' \in [Requests -> RequestStates] /\ RequestsAct'
    BY EndsKeepsRequests DEF CommitRemoval
<1> HIDE DEF t, u
<1>4. role' \in [Tenants \X Users -> Roles \cup {NoRole}]
    BY <1>1, <1>2 DEF IInv, TypeOK
<1>5. \A x \in Tenants, v \in Users : Member(x, v)' => Member(x, v)
    BY <1>1, <1>2 DEF IInv, TypeOK, Member
<1> QED BY <1>2, <1>3, <1>4, <1>5 DEF IInv, TypeOK, BlankInvites

LEMMA CredentialAndContentSteps ==
    ASSUME IInv, NEW r \in Requests,
           \/ \E k \in Credentials : CreateCredential(r, k)
           \/ WriteContent(r) \/ SharePage(r)
    PROVE  IInv'
<1>1. request' \in [Requests -> RequestStates] /\ RequestsAct'
    BY EndsKeepsRequests DEF CreateCredential, WriteContent, SharePage, Names
<1>2. /\ UNCHANGED <<accounts, left, tenants, founded, role, invite, lastInvite>>
      /\ issued' \subseteq Credentials
      /\ reaches' \subseteq tenants \X accounts \X issued'
      /\ wrote' \subseteq tenants \X accounts
    BY DEF CreateCredential, WriteContent, SharePage, Names, IInv, TypeOK
<1> QED BY <1>1, <1>2 DEF IInv, TypeOK, Member, BlankInvites

LEMMA EndCredentialStep ==
    ASSUME IInv, NEW k \in Credentials, EndCredential(k)
    PROVE  IInv'
BY DEF EndCredential, IInv, TypeOK, Member, BlankInvites, RequestsAct

\* Deletion empties the rows of the tenant and of the user in every table.
LEMMA DeleteAccountStep ==
    ASSUME IInv, NEW r \in Requests, DeleteAccount(r)
    PROVE  IInv'
<1> DEFINE t == request[r].tenant
           u == request[r].actor
           Gone(x) == x[1] = t \/ x[2] = u
<1>1. t \in Tenants /\ u \in Users
    BY DEF DeleteAccount, In, IInv, RequestsAct
<1>2. /\ tenants' = tenants \ {t} /\ accounts' = accounts \ {u} /\ left' = left \cup {u}
      /\ role' = [x \in Tenants \X Users |-> IF Gone(x) THEN NoRole ELSE role[x]]
      /\ reaches' = {x \in reaches : ~Gone(x)}
      /\ wrote' = {x \in wrote : ~Gone(x)}
      /\ invite' = [i \in Invites |->
             IF invite[i].tenant = t THEN [invite[i] EXCEPT !.state = "deleted"]
             ELSE invite[i]]
      /\ UNCHANGED <<founded, lastInvite, issued>>
    BY DEF DeleteAccount
<1>3. request' \in [Requests -> RequestStates] /\ RequestsAct'
    BY EndsKeepsRequests DEF DeleteAccount
<1> HIDE DEF t, u
<1>4. role' \in [Tenants \X Users -> Roles \cup {NoRole}]
    BY <1>1, <1>2 DEF IInv, TypeOK
<1>5. \A x \in Tenants, v \in Users : Member(x, v)' => x \in tenants' /\ v \in accounts'
    BY <1>1, <1>2 DEF IInv, TypeOK, Member
<1>6. reaches' \subseteq tenants' \X accounts' \X issued' /\ wrote' \subseteq tenants' \X accounts'
    BY <1>2 DEF IInv, TypeOK
<1>7. ASSUME NEW i \in Invites
      PROVE  /\ invite'[i] \in InviteRows
             /\ invite'[i].state = "pending" => invite'[i] = invite[i] /\ invite[i].tenant # t
             /\ invite[i] = NoInvite => invite'[i] = NoInvite
    <2>1. invite[i] \in InviteRows
        BY DEF IInv, TypeOK
    <2>2. CASE invite[i].tenant = t
        <3>1. invite'[i] = [invite[i] EXCEPT !.state = "deleted"]
            BY <1>2, <2>2
        <3>2. invite'[i] \in InviteRows /\ invite'[i].state = "deleted"
            BY <2>1, <3>1 DEF InviteRows
        <3>3. invite[i] # NoInvite
            BY <1>1, <2>2, NobodyAssumption DEF NoInvite
        <3> QED BY <3>2, <3>3
    <2>3. CASE invite[i].tenant # t
        BY <1>2, <2>1, <2>3
    <2> QED BY <2>2, <2>3
<1>8. invite' \in [Invites -> InviteRows]
    BY <1>2, <1>7
<1>9. \A i \in Invites : invite'[i].state = "pending" =>
          i <= lastInvite' /\ invite'[i].tenant \in tenants' /\ invite'[i].role \in Roles
    BY <1>2, <1>7 DEF IInv, TypeOK
<1>10. BlankInvites'
    BY <1>2, <1>7 DEF IInv, BlankInvites
<1>11. /\ accounts' \subseteq Users /\ left' \subseteq Users \ accounts'
       /\ tenants' \subseteq founded'
    BY <1>1, <1>2 DEF IInv, TypeOK
<1>12. TypeOK'
    BY <1>2, <1>3, <1>4, <1>5, <1>6, <1>8, <1>9, <1>11 DEF IInv, TypeOK
<1> QED BY <1>3, <1>10, <1>12 DEF IInv

LEMMA AbandonStep ==
    ASSUME IInv, NEW r \in Requests, Abandon(r)
    PROVE  IInv'
BY EndsKeepsRequests, ReadingSteps DEF Abandon

LEMMA InductiveNext == IInv /\ [Next]_vars => IInv'
<1> SUFFICES ASSUME IInv, [Next]_vars PROVE IInv'
    OBVIOUS
<1>1. ASSUME NEW r \in Requests, RequestStep(r) PROVE IInv'
    <2>1. ASSUME NEW u \in Users, CountSites(r, u) PROVE IInv'
        BY <2>1, CountSitesStep
    <2>2. ASSUME NEW u \in Users, NEW t \in Tenants, Session(r, u, t) PROVE IInv'
        BY <2>2, SessionStep
    <2>3. ASSUME NEW u \in Users, NEW offer \in Roles, CreateInvite(r, u, offer) PROVE IInv'
        BY <2>3, CreateInviteStep
    <2>4. ASSUME NEW i \in Invites, RevokeInvite(r, i) PROVE IInv'
        BY <2>4, RevokeInviteStep
    <2>5. ASSUME NEW u \in Users, NEW to \in Roles, Guard(r, "role", u, to) PROVE IInv'
        BY <2>5, GuardStep
    <2>6. ASSUME NEW u \in Users, Guard(r, "removal", u, NoRole) PROVE IInv'
        BY <2>6, GuardStep
    <2>7. CASE FoundSite(r)
        BY <2>7, FoundSiteStep
    <2>8. CASE SetMemberRole(r)
        BY <2>8, SetMemberRoleStep
    <2>9. CASE CommitRemoval(r)
        BY <2>9, CommitRemovalStep
    <2>10. CASE \/ \E k \in Credentials : CreateCredential(r, k)
                \/ WriteContent(r) \/ SharePage(r)
        BY <2>10, CredentialAndContentSteps
    <2>11. CASE CheckOwner(r)
        BY <2>11, CheckOwnerStep
    <2>12. CASE DeleteAccount(r)
        BY <2>12, DeleteAccountStep
    <2>13. CASE Abandon(r)
        BY <2>13, AbandonStep
    <2>14. CASE DeleteMembership(r) \/ RevokeTokens(r) \/ RevokeConnections(r)
        BY <2>14, RemovalSteps
    <2> QED BY <1>1, <2>1, <2>2, <2>3, <2>4, <2>5, <2>6, <2>7, <2>8, <2>9, <2>10, <2>11,
               <2>12, <2>13, <2>14 DEF RequestStep
<1>2. ASSUME NEW u \in Users, SignInAgain(u) PROVE IInv'
    BY <1>2, SignInAgainStep
<1>3. ASSUME NEW u \in Users, NEW open \in BOOLEAN, SignInFirst(u, open) PROVE IInv'
    BY <1>3, SignInFirstStep
<1>4. ASSUME NEW k \in Credentials, EndCredential(k) PROVE IInv'
    BY <1>4, EndCredentialStep
<1>5. ASSUME NEW i \in Invites, ExpireInvite(i) PROVE IInv'
    BY <1>5, ExpireInviteStep
<1>6. CASE UNCHANGED vars
    BY <1>6 DEF vars, IInv, TypeOK, Member, BlankInvites, RequestsAct
<1> QED BY <1>1, <1>2, <1>3, <1>4, <1>5, <1>6 DEF Next

LEMMA Inductive == Spec => []IInv
BY InductiveInit, InductiveNext, PTL DEF Spec

\* Every reachable state is well-typed: memberships, credentials, revisions and
\* pending invitations are of organizations and accounts that exist (the foreign
\* keys and cascades around models/members.go and DeleteAccount).
THEOREM TypeCorrect == Spec => []TypeOK
<1>1. IInv => TypeOK
    BY DEF IInv
<1> QED BY <1>1, Inductive, PTL

-----------------------------------------------------------------------------
\* What a step that is no sign-in leaves alone: nothing is accepted, nothing
\* that was spent comes back, nobody joins an organization that exists.
Settled ==
    /\ \A i \in Invites : invite'[i].state = "accepted" => invite[i].state = "accepted"
    /\ \A i \in Invites : invite[i].state \in {"accepted", "revoked"} =>
          invite'[i].state \in {invite[i].state, "deleted"}
    /\ \A t \in tenants, u \in Users : role'[<<t, u>>] # NoRole => role[<<t, u>>] # NoRole

LEMMA SameInvitesAndRoles ==
    ASSUME invite' = invite, role' = role
    PROVE  Settled
BY DEF Settled

LEMMA OneInvite ==
    ASSUME IInv, NEW n \in Invites, NEW row, row.state # "accepted",
           invite[n].state # "accepted",
           invite[n].state = "revoked" => row.state = "revoked",
           invite' = [invite EXCEPT ![n] = row], role' = role
    PROVE  Settled
<1>1. \A i \in Invites : invite'[i] = IF i = n THEN row ELSE invite[i]
    BY DEF IInv, TypeOK
<1> QED BY <1>1 DEF Settled

LEMMA RequestSettles ==
    ASSUME IInv, NEW r \in Requests, RequestStep(r)
    PROVE  Settled
<1>1. CASE invite' = invite /\ role' = role
    BY <1>1, SameInvitesAndRoles
<1>2. CASE FoundSite(r)
    <2>1. PICK own \in Tenants :
              /\ own \notin tenants
              /\ role' = [role EXCEPT ![<<own, request[r].actor>>] = "owner"]
        BY <1>2 DEF FoundSite, Founded, IInv, TypeOK
    <2>2. \A t \in tenants, u \in Users : role'[<<t, u>>] = role[<<t, u>>]
        BY <2>1 DEF IInv, TypeOK
    <2> QED BY <1>2, <2>2 DEF Settled, FoundSite
<1>3. CASE SetMemberRole(r)
    <2>1. \A t \in Tenants, u \in Users : role'[<<t, u>>] # NoRole => role[<<t, u>>] # NoRole
        BY <1>3 DEF SetMemberRole, Member, IInv, TypeOK
    <2> QED BY <1>3, <2>1 DEF Settled, SetMemberRole, IInv, TypeOK
<1>4. CASE CommitRemoval(r)
    <2>1. \A t \in Tenants, u \in Users : role'[<<t, u>>] # NoRole => role[<<t, u>>] # NoRole
        BY <1>4 DEF CommitRemoval, IInv, TypeOK
    <2> QED BY <1>4, <2>1 DEF Settled, CommitRemoval, IInv, TypeOK
<1>5. CASE DeleteAccount(r)
    <2>1. \A t \in Tenants, u \in Users : role'[<<t, u>>] # NoRole => role[<<t, u>>] # NoRole
        BY <1>5 DEF DeleteAccount
    <2>2. ASSUME NEW i \in Invites
          PROVE  invite'[i] = invite[i] \/ invite'[i].state = "deleted"
        <3>1. invite[i] \in InviteRows
            BY DEF IInv, TypeOK
        <3>2. [invite[i] EXCEPT !.state = "deleted"].state = "deleted"
            BY <3>1 DEF InviteRows
        <3> QED BY <1>5, <3>2 DEF DeleteAccount
    <2> QED BY <2>1, <2>2 DEF Settled, IInv, TypeOK
<1>6. ASSUME NEW u \in Users, NEW offer \in Roles, CreateInvite(r, u, offer) PROVE Settled
    <2> DEFINE n == lastInvite + 1
               row == [tenant |-> request[r].tenant, user |-> u, role |-> offer,
                       state |-> "pending"]
    <2>1. n \in Invites /\ invite[n] = NoInvite
        BY <1>6, BoundAssumption DEF CreateInvite, IInv, TypeOK, BlankInvites, Invites
    <2>2. invite' = [invite EXCEPT ![n] = row] /\ role' = role
        BY <1>6 DEF CreateInvite
    <2>3. row.state = "pending"
        OBVIOUS
    <2> HIDE DEF n, row
    <2>4. invite[n].state = "none"
        BY <2>1 DEF NoInvite
    <2> QED BY <2>1, <2>2, <2>3, <2>4, OneInvite
<1>7. ASSUME NEW n \in Invites, RevokeInvite(r, n) PROVE Settled
    <2> DEFINE row == [invite[n] EXCEPT !.state = "revoked"]
    <2>1. row.state = "revoked"
        BY DEF IInv, TypeOK, InviteRows
    <2>2. invite' = [invite EXCEPT ![n] = row] /\ role' = role /\ invite[n].state # "accepted"
        BY <1>7 DEF RevokeInvite
    <2> HIDE DEF row
    <2> QED BY <2>1, <2>2, OneInvite
<1> QED BY <1>1, <1>2, <1>3, <1>4, <1>5, <1>6, <1>7
        DEF RequestStep, CountSites, Session, Guard, CreateCredential, WriteContent,
            SharePage, Names, DeleteMembership, RevokeTokens, RevokeConnections, Advances,
            CheckOwner, Abandon

\* Every step that is no sign-in.
LEMMA OthersSettle ==
    ASSUME IInv, [Next]_vars,
           ~\E u \in Users : SignInAgain(u) \/ \E open \in BOOLEAN : SignInFirst(u, open)
    PROVE  Settled
<1>1. ASSUME NEW r \in Requests, RequestStep(r) PROVE Settled
    BY <1>1, RequestSettles
<1>2. ASSUME NEW k \in Credentials, EndCredential(k) PROVE Settled
    BY <1>2, SameInvitesAndRoles DEF EndCredential
<1>3. ASSUME NEW n \in Invites, ExpireInvite(n) PROVE Settled
    <2> DEFINE row == [invite[n] EXCEPT !.state = "expired"]
    <2>1. row.state = "expired"
        BY DEF IInv, TypeOK, InviteRows
    <2>2. invite' = [invite EXCEPT ![n] = row] /\ role' = role /\ invite[n].state = "pending"
        BY <1>3 DEF ExpireInvite
    <2> HIDE DEF row
    <2> QED BY <2>1, <2>2, OneInvite
<1>4. CASE UNCHANGED vars
    BY <1>4, SameInvitesAndRoles DEF vars
<1> QED BY <1>1, <1>2, <1>3, <1>4 DEF Next

\* What a sign-in does: members keep their role, who joins spends an invitation,
\* and only pending invitations are spent.
LEMMA SignInsAdmit ==
    ASSUME IInv, NEW u \in Users,
           SignInAgain(u) \/ \E open \in BOOLEAN : SignInFirst(u, open)
    PROVE  /\ \A t \in Tenants, v \in Users : Member(t, v) => role'[<<t, v>>] = role[<<t, v>>]
           /\ \A t \in tenants, v \in Users : ~Member(t, v) /\ role'[<<t, v>>] # NoRole =>
                 v = u /\ \E i \in Pending(u) : invite[i].tenant = t
           /\ invite' = Accepted(u)
<1>1. invite' = Accepted(u)
    BY DEF SignInAgain, SignInFirst
<1>2. ASSUME NEW t \in Tenants, ~Member(t, u), Admitted(u, t) # NoRole
      PROVE  \E i \in Pending(u) : invite[i].tenant = t
    BY <1>2 DEF Admitted, Member
<1>3. ASSUME NEW t \in tenants, NEW v \in Users
      PROVE  role'[<<t, v>>] = IF v = u THEN Admitted(u, t) ELSE role[<<t, v>>]
    <2>1. t \in Tenants /\ t \in founded
        BY DEF IInv, TypeOK
    <2> QED BY <2>1 DEF SignInAgain, SignInFirst, Founded
<1>4. \A t \in Tenants, v \in Users : Member(t, v) => role'[<<t, v>>] = role[<<t, v>>]
    BY <1>3, AdmittedRole DEF IInv, TypeOK
<1> QED BY <1>1, <1>2, <1>3, <1>4 DEF Member, IInv, TypeOK

-----------------------------------------------------------------------------
\* No sign-in changes the role of a member, for any pile of invitations
\* (accept_invites_for_email).
THEOREM InvitationsNeverDemote == Spec => InvitesNeverDemote
<1>1. ASSUME IInv, [Next]_vars,
             NEW n \in Invites, invite[n].state = "pending", invite'[n].state = "accepted",
             NEW t \in Tenants, NEW u \in Users, Member(t, u)
      PROVE  role'[<<t, u>>] = role[<<t, u>>]
    <2>1. ~Settled
        BY <1>1 DEF Settled
    <2> QED BY <1>1, <2>1, OthersSettle, SignInsAdmit
<1>2. IInv /\ [Next]_vars =>
          [(\E i \in Invites : invite[i].state = "pending" /\ invite'[i].state = "accepted") =>
              \A t \in Tenants, u \in Users :
                  Member(t, u) => role'[<<t, u>>] = role[<<t, u>>]]_vars
    BY <1>1
<1> QED BY <1>2, Inductive, PTL DEF Spec, InvitesNeverDemote

\* Who joins an organization spends an invitation to it there and then, and a
\* spent or revoked invitation never comes back (CommitRemoval, RevokeInvite and
\* sign-in in any order).
THEOREM InvitationsAreSpent == Spec => InvitationsAdmitOnce
<1> DEFINE Joins ==
               \A t \in tenants, u \in Users : ~Member(t, u) /\ Member(t, u)' =>
                   \E i \in Invites : /\ invite[i].tenant = t /\ invite[i].user = u
                                      /\ invite[i].state = "pending"
                                      /\ invite'[i].state = "accepted"
           Stays ==
               \A i \in Invites : invite[i].state \in {"accepted", "revoked"} =>
                   invite'[i].state \in {invite[i].state, "deleted"}
<1>1. ASSUME IInv, Settled PROVE Joins /\ Stays
    BY <1>1 DEF Settled, Member
<1>2. ASSUME IInv, NEW u \in Users,
             SignInAgain(u) \/ \E open \in BOOLEAN : SignInFirst(u, open)
      PROVE  Joins /\ Stays
    <2>1. /\ \A t \in tenants, v \in Users : ~Member(t, v) /\ role'[<<t, v>>] # NoRole =>
                 v = u /\ \E i \in Pending(u) : invite[i].tenant = t
          /\ invite' = Accepted(u)
        BY <1>2, SignInsAdmit
    <2>2. ASSUME NEW i \in Pending(u) PROVE invite'[i].state = "accepted" /\ invite[i].user = u
        <3>1. invite[i] \in InviteRows /\ i \in Invites /\ invite[i].user = u
            BY <1>2 DEF IInv, TypeOK, Pending
        <3>2. [invite[i] EXCEPT !.state = "accepted"].state = "accepted"
            BY <3>1 DEF InviteRows
        <3> QED BY <2>1, <3>1, <3>2 DEF Accepted
    <2>3. Joins
        BY <2>1, <2>2 DEF Member, Pending
    <2>4. Stays
        BY <2>1 DEF Accepted, Pending
    <2> QED BY <2>3, <2>4
<1>3. IInv /\ [Next]_vars => [Joins /\ Stays]_vars
    BY <1>1, <1>2, OthersSettle
<1> QED BY <1>3, Inductive, PTL DEF Spec, InvitationsAdmitOnce

\* What the statements of a removal have covered of what there was to end.
RemovalInv ==
    \A r \in Requests :
        LET q == request[r]
            still == q.known \cap Of(q.tenant, q.target)
        IN  /\ q.phase \in Deleting => q.known \subseteq issued
            /\ q.phase = "connections" => still \cap APITokens \subseteq q.seen
            /\ q.phase = "commit" => still \subseteq q.seen

\* A credential is made once: no step brings one back.
LEMMA NoneReturns ==
    ASSUME IInv, [Next]_vars
    PROVE  /\ issued \subseteq issued'
           /\ \A x \in reaches' : x \in reaches \/ x[3] \notin issued
<1>1. CASE issued' = issued /\ reaches' \subseteq reaches
    BY <1>1
<1>2. ASSUME NEW r \in Requests, NEW k \in Credentials, CreateCredential(r, k)
      PROVE  /\ issued \subseteq issued'
             /\ \A x \in reaches' : x \in reaches \/ x[3] \notin issued
    BY <1>2 DEF CreateCredential
<1> QED BY <1>1, <1>2 DEF Next, RequestStep, vars, CountSites, Session, CreateInvite,
        RevokeInvite, Guard, FoundSite, SetMemberRole, DeleteMembership, RevokeTokens,
        RevokeConnections, Advances, CommitRemoval, WriteContent, SharePage, Names,
        CheckOwner, DeleteAccount, Abandon, EndCredential, ExpireInvite, SignInAgain,
        SignInFirst

\* Only the statements of a removal lead into its later phases.
LEMMA OnlyByStatements ==
    ASSUME IInv, [Next]_vars, NEW r \in Requests, request'[r] # request[r],
           request'[r].phase \in Deleting
    PROVE  DeleteMembership(r) \/ RevokeTokens(r) \/ RevokeConnections(r)
<1>1. request \in [Requests -> RequestStates]
    BY DEF IInv, TypeOK
<1>2. PICK s \in Requests : RequestStep(s)
    BY DEF Next, vars, SignInAgain, SignInFirst, EndCredential, ExpireInvite
<1>3. CASE DeleteMembership(s) \/ RevokeTokens(s) \/ RevokeConnections(s)
    <2>1. s = r
        BY <1>1, <1>3 DEF DeleteMembership, RevokeTokens, RevokeConnections, Advances
    <2> QED BY <1>3, <2>1
<1>4. CASE Ends(s)
    BY <1>1, <1>4 DEF Ends, Idle, Deleting
<1>5. CASE CheckOwner(s)
    BY <1>1, <1>5 DEF CheckOwner, RequestStates, Deleting
<1>6. ASSUME NEW u \in Users, NEW phase \in {"role", "removal"},
             NEW to \in Roles \cup {NoRole}, Guard(s, phase, u, to)
      PROVE  FALSE
    BY <1>1, <1>6 DEF Guard, Idle, Deleting
<1>7. CASE \E u \in Users : CountSites(s, u)
    BY <1>1, <1>7 DEF CountSites, Idle, Deleting
<1>8. CASE \E u \in Users, t \in Tenants : Session(s, u, t)
    BY <1>1, <1>8 DEF Session, Idle, Deleting
<1> QED BY <1>2, <1>3, <1>4, <1>5, <1>6, <1>7, <1>8 DEF RequestStep, CreateInvite,
        RevokeInvite, FoundSite, SetMemberRole, CommitRemoval, CreateCredential,
        WriteContent, SharePage, Names, DeleteAccount, Abandon

LEMMA RemovalPreserved == IInv /\ RemovalInv /\ [Next]_vars => RemovalInv'
<1> SUFFICES ASSUME IInv, RemovalInv, [Next]_vars, NEW r \in Requests,
                    NEW q, q = request'[r], q.phase \in Deleting
             PROVE  LET still == q.known \cap Of(q.tenant, q.target)'
                    IN  /\ q.known \subseteq issued'
                        /\ q.phase = "connections" => still \cap APITokens \subseteq q.seen
                        /\ q.phase = "commit" => still \subseteq q.seen
    BY DEF RemovalInv, Deleting, Of
<1>1. request \in [Requests -> RequestStates] /\ reaches \subseteq tenants \X accounts \X issued
    BY DEF IInv, TypeOK
<1>2. CASE q = request[r]
    <2>1. /\ q.known \subseteq issued
          /\ q.phase = "connections" =>
                q.known \cap Of(q.tenant, q.target) \cap APITokens \subseteq q.seen
          /\ q.phase = "commit" => q.known \cap Of(q.tenant, q.target) \subseteq q.seen
        BY <1>2 DEF RemovalInv
    <2>2. q.known \cap Of(q.tenant, q.target)' \subseteq Of(q.tenant, q.target)
        BY <2>1, NoneReturns DEF Of
    <2> QED BY <2>1, <2>2, NoneReturns
<1>3. CASE q # request[r]
    <2> DEFINE p == request[r]
               of == Of(p.tenant, p.target)
    <2>1. DeleteMembership(r) \/ RevokeTokens(r) \/ RevokeConnections(r)
        BY <1>3, OnlyByStatements
    <2>2. reaches' = reaches /\ issued' = issued /\ of \subseteq issued
        BY <1>1, <2>1 DEF DeleteMembership, RevokeTokens, RevokeConnections, Advances, Of
    <2>3. p \in RequestStates
        BY <1>1
    <2>4. Of(q.tenant, q.target)' = Of(q.tenant, q.target)
        BY <2>2 DEF Of
    <2>5. /\ p.phase \in Deleting => p.known \subseteq issued
          /\ p.phase = "connections" => p.known \cap of \cap APITokens \subseteq p.seen
        BY DEF RemovalInv
    <2> HIDE DEF of
    <2>6. CASE DeleteMembership(r)
        <3>1. q = [p EXCEPT !.phase = "tokens", !.known = of]
            BY <1>1, <2>6 DEF DeleteMembership, Advances, of
        <3>2. q.phase = "tokens" /\ q.known = of
            BY <2>3, <3>1 DEF RequestStates
        <3> QED BY <2>2, <3>2
    <2>7. CASE RevokeTokens(r)
        <3>1. q = [p EXCEPT !.phase = "connections", !.seen = of \cap APITokens]
            BY <1>1, <2>7 DEF RevokeTokens, Advances, of
        <3>2. /\ q.phase = "connections" /\ q.known = p.known /\ q.seen = of \cap APITokens
              /\ q.tenant = p.tenant /\ q.target = p.target /\ p.phase \in Deleting
            BY <2>3, <2>7, <3>1 DEF RequestStates, RevokeTokens, In, Deleting
        <3> QED BY <2>2, <2>4, <2>5, <3>2 DEF of
    <2>8. CASE RevokeConnections(r)
        <3>1. q = [p EXCEPT !.phase = "commit", !.seen = p.seen \cup (of \cap Connections)]
            BY <1>1, <2>8 DEF RevokeConnections, Advances, of
        <3>2. /\ q.phase = "commit" /\ q.known = p.known
              /\ q.seen = p.seen \cup (of \cap Connections)
              /\ q.tenant = p.tenant /\ q.target = p.target
              /\ p.phase = "connections" /\ p.phase \in Deleting
            BY <2>3, <2>8, <3>1 DEF RequestStates, RevokeConnections, In, Deleting
        <3>3. of \subseteq APITokens \cup Connections
            BY DEF of, Of, Credentials
        <3> QED BY <2>2, <2>4, <2>5, <3>2, <3>3 DEF of
    <2> QED BY <2>1, <2>6, <2>7, <2>8
<1> QED BY <1>2, <1>3

\* A membership that a removal ends leaves none of the credentials that worked
\* when its first statement ran, whatever was made and revoked between its
\* statements (RemoveMember).
THEOREM RemovalsEndCredentials == Spec => RemovalEndsCredentials
<1>1. Init => RemovalInv
    BY DEF Init, RemovalInv, Idle, Deleting
<1>2. ASSUME IInv, RemovalInv, [Next]_vars, NEW r \in Requests, Removes(r),
             NEW k \in request[r].known
      PROVE  <<request[r].tenant, request[r].target, k>> \notin reaches'
    <2> DEFINE t == request[r].tenant
               u == request[r].target
    <2>1. /\ request \in [Requests -> RequestStates] /\ request[r].phase = "commit"
          /\ request'[r].phase = "idle" /\ t \in Tenants /\ u \in Users
          /\ role[<<t, u>>] # NoRole /\ role'[<<t, u>>] = NoRole /\ k \in Credentials
        <3>1. request[r].phase = "commit" /\ request'[r].phase = "idle"
            BY <1>2 DEF Removes, In
        <3>2. request \in [Requests -> RequestStates]
            BY <1>2 DEF IInv, TypeOK
        <3>3. t \in Tenants /\ u \in Users
            BY <1>2, <3>1 DEF IInv, RequestsAct, Removing, Deleting
        <3>4. role[<<t, u>>] # NoRole /\ role'[<<t, u>>] = NoRole
            BY <1>2 DEF Removes, Member
        <3>5. k \in Credentials
            BY <1>2, <3>2 DEF RequestStates
        <3> QED BY <3>1, <3>2, <3>3, <3>4, <3>5
    <2>2. CommitRemoval(r)
        <3>1. PICK s \in Requests : RequestStep(s)
            BY <1>2, <2>1 DEF Next, vars, SignInAgain, SignInFirst, EndCredential, ExpireInvite
        <3>2. s = r
            BY <2>1, <3>1 DEF RequestStep, CountSites, Session, CreateInvite, RevokeInvite,
                Guard, FoundSite, SetMemberRole, DeleteMembership, RevokeTokens,
                RevokeConnections, Advances, CommitRemoval, CreateCredential, WriteContent,
                SharePage, Names, CheckOwner, DeleteAccount, Abandon, Ends
        <3>3. role' # role
            BY <2>1
        <3> QED BY <2>1, <3>1, <3>2, <3>3 DEF RequestStep, CountSites, Session, CreateInvite,
                RevokeInvite, Guard, FoundSite, SetMemberRole, DeleteMembership, RevokeTokens,
                RevokeConnections, Advances, CreateCredential, WriteContent, SharePage,
                Names, CheckOwner, DeleteAccount, Abandon, In
    <2>3. request[r].known \cap Of(t, u) \subseteq request[r].seen
        BY <1>2, <2>1 DEF RemovalInv
    <2>4. <<t, u, k>> \in reaches => k \in request[r].seen
        BY <1>2, <2>1, <2>3 DEF Of
    <2> QED BY <2>2, <2>4 DEF CommitRemoval
<1>3. IInv /\ RemovalInv /\ [Next]_vars =>
          [\A r \in Requests : Removes(r) =>
              \A k \in request[r].known :
                  <<request[r].tenant, request[r].target, k>> \notin reaches']_vars
    BY <1>2
<1> QED BY <1>1, <1>3, RemovalPreserved, Inductive, PTL DEF Spec, RemovalEndsCredentials

-----------------------------------------------------------------------------
\* The last owner.  A request is about to change something between asking and
\* doing: setting a role, removing a member, deleting an account.
Changing == {"role", "deletion"} \cup Removing
Changes(r) == SetMemberRole(r) \/ CommitRemoval(r) \/ DeleteAccount(r)
ChangesFollowOneAnother ==
    \A r, s \in Requests :
        request[r].phase \in Changing /\ request[s].phase \in Changing => r = s

\* A member who is not the only owner.
Spared(t, u) ==
    /\ Member(t, u)
    /\ role[<<t, u>>] = "owner" => \E v \in Users : v # u /\ role[<<t, v>>] = "owner"

\* What was asked is still so.
OwnerInv ==
    \A r \in Requests :
        /\ request[r].phase \in {"role"} \cup Removing =>
              \/ request[r].phase = "role" /\ request[r].to = "owner"
              \/ Spared(request[r].tenant, request[r].target)
        /\ request[r].phase = "deletion" =>
              role[<<request[r].tenant, request[r].actor>>] = "owner"

LEMMA GuardSpares ==
    ASSUME NEW t, NEW u \in Users, LastOwnerGuard(t, u)
    PROVE  Spared(t, u)
<1>1. ASSUME role[<<t, u>>] = "owner", Owners(t) = {u} PROVE FALSE
    <2>1. Cardinality({u}) = 1
        BY FS_Singleton
    <2> QED BY <1>1, <2>1 DEF LastOwnerGuard
<1>2. role[<<t, u>>] = "owner" => u \in Owners(t)
    BY DEF Owners
<1> QED BY <1>1, <1>2 DEF Spared, LastOwnerGuard, Owners

\* Only a change takes a role from a member or gives another one.
LEMMA RolesStay ==
    ASSUME IInv, [Next]_vars, ~\E r \in Requests : Changes(r),
           NEW t \in Tenants, NEW u \in Users, Member(t, u)
    PROVE  role'[<<t, u>>] = role[<<t, u>>]
<1>1. CASE \E v \in Users : SignInAgain(v) \/ \E open \in BOOLEAN : SignInFirst(v, open)
    BY <1>1, SignInsAdmit
<1>2. CASE \E r \in Requests : FoundSite(r)
    BY <1>2 DEF FoundSite, Founded, IInv, TypeOK
<1>3. CASE role' = role
    BY <1>3
<1> QED BY <1>1, <1>2, <1>3 DEF Next, RequestStep, Changes, vars, CountSites, Session,
        CreateInvite, RevokeInvite, Guard, CreateCredential, WriteContent, SharePage,
        Names, DeleteMembership, RevokeTokens, RevokeConnections, Advances, CheckOwner,
        Abandon, EndCredential, ExpireInvite

\* A request comes to its change by asking first; a removal goes on from there.
LEMMA OnlyByAsking ==
    ASSUME IInv, [Next]_vars, NEW r \in Requests,
           request'[r].phase \in Changing, request'[r] # request[r]
    PROVE  \/ CheckOwner(r)
           \/ \E u \in Users, phase \in {"role", "removal"}, to \in Roles \cup {NoRole} :
                  Guard(r, phase, u, to) /\ (phase = "removal" => to = NoRole)
           \/ DeleteMembership(r) \/ RevokeTokens(r) \/ RevokeConnections(r)
<1>1. Idle.phase \notin Changing /\ request \in [Requests -> RequestStates]
    BY DEF Idle, IInv, TypeOK, Changing, Removing, Deleting
<1>2. PICK s \in Requests : RequestStep(s)
    BY DEF Next, vars, SignInAgain, SignInFirst, EndCredential, ExpireInvite
<1>3. ASSUME \/ Ends(s) \/ (\E u \in Users : CountSites(s, u))
             \/ (\E u \in Users, t \in Tenants : Session(s, u, t))
      PROVE  FALSE
    <2>1. CASE Ends(s)
        BY <1>1, <2>1 DEF Ends
    <2>2. CASE \E u \in Users : CountSites(s, u)
        BY <1>1, <2>2 DEF CountSites, Idle, Changing, Removing, Deleting
    <2>3. CASE \E u \in Users, t \in Tenants : Session(s, u, t)
        BY <1>1, <2>3 DEF Session, Idle, Changing, Removing, Deleting
    <2> QED BY <1>3, <2>1, <2>2, <2>3
<1>4. \/ CheckOwner(s)
      \/ \E u \in Users, phase \in {"role", "removal"}, to \in Roles \cup {NoRole} :
             Guard(s, phase, u, to) /\ (phase = "removal" => to = NoRole)
      \/ DeleteMembership(s) \/ RevokeTokens(s) \/ RevokeConnections(s)
    BY <1>2, <1>3 DEF RequestStep, CreateInvite, RevokeInvite, FoundSite, SetMemberRole,
        CommitRemoval, CreateCredential, WriteContent, SharePage, Names, DeleteAccount,
        Abandon
<1>5. s = r
    BY <1>1, <1>4 DEF Guard, CheckOwner, DeleteMembership, RevokeTokens, RevokeConnections,
        Advances
<1> QED BY <1>4, <1>5

\* While no request changes anything, members and owners stay.
LEMMA SparedStay ==
    ASSUME IInv, [Next]_vars, ~\E r \in Requests : Changes(r),
           NEW t \in Tenants, NEW u \in Users, Spared(t, u)
    PROVE  Spared(t, u)'
<1>1. \A v \in Users : Member(t, v) => role'[<<t, v>>] = role[<<t, v>>]
    BY RolesStay
<1>2. "owner" # NoRole
    BY DEF NoRole
<1> QED BY <1>1, <1>2 DEF Spared, Member

LEMMA OwnerPreserved ==
    IInv /\ OwnerInv /\ ChangesFollowOneAnother /\ [Next]_vars => OwnerInv'
<1> SUFFICES ASSUME IInv, OwnerInv, ChangesFollowOneAnother, [Next]_vars,
                    NEW r \in Requests, NEW q, q = request'[r], q.phase \in Changing
             PROVE  /\ q.phase \in {"role"} \cup Removing =>
                          \/ q.phase = "role" /\ q.to = "owner"
                          \/ Spared(q.tenant, q.target)'
                    /\ q.phase = "deletion" => role'[<<q.tenant, q.actor>>] = "owner"
    BY DEF OwnerInv, Changing, Removing, Deleting, Spared, Member
<1>1. request \in [Requests -> RequestStates]
    BY DEF IInv, TypeOK
<1>2. CASE q = request[r]
    <2>1. ~\E s \in Requests : Changes(s)
        <3>1. ASSUME NEW s \in Requests, Changes(s) PROVE FALSE
            <4>1. request[s].phase \in Changing
                BY <3>1 DEF Changes, SetMemberRole, CommitRemoval, DeleteAccount, In,
                    Changing, Removing, Deleting
            <4>2. s = r
                BY <1>2, <4>1 DEF ChangesFollowOneAnother
            <4>3. q = Idle
                BY <1>1, <3>1, <4>2 DEF Changes, SetMemberRole, CommitRemoval, DeleteAccount,
                    Ends
            <4> QED BY <4>3 DEF Idle, Changing, Removing, Deleting
        <3> QED BY <3>1
    <2>2. /\ q.tenant \in Tenants
          /\ q.phase = "deletion" => q.actor \in Users
          /\ q.phase \in {"role"} \cup Removing => q.target \in Users
        BY <1>2 DEF IInv, RequestsAct, Changing, Removing, Deleting
    <2>3. /\ q.phase \in {"role"} \cup Removing =>
                \/ q.phase = "role" /\ q.to = "owner"
                \/ Spared(q.tenant, q.target)
          /\ q.phase = "deletion" => role[<<q.tenant, q.actor>>] = "owner"
        BY <1>2 DEF OwnerInv
    <2>4. q.phase \in {"role"} \cup Removing =>
                \/ q.phase = "role" /\ q.to = "owner"
                \/ Spared(q.tenant, q.target)'
        BY <2>1, <2>2, <2>3, SparedStay
    <2>5. q.phase = "deletion" => role'[<<q.tenant, q.actor>>] = "owner"
        BY <2>1, <2>2, <2>3, RolesStay DEF Member, NoRole
    <2> QED BY <2>4, <2>5
<1>3. CASE q # request[r]
    <2>1. CASE CheckOwner(r)
        <3>1. request[r] \in RequestStates /\ request[r].phase = "session"
            BY <1>1, <2>1 DEF CheckOwner, In
        <3>2. /\ q.phase = "deletion" /\ q.tenant = request[r].tenant
              /\ q.actor = request[r].actor
            BY <1>1, <2>1, <3>1 DEF CheckOwner, RequestStates
        <3> QED BY <2>1, <3>2 DEF CheckOwner, Removing, Deleting
    <2>2. ASSUME NEW u \in Users, NEW phase \in {"role", "removal"},
                 NEW to \in Roles \cup {NoRole},
                 Guard(r, phase, u, to), phase = "removal" => to = NoRole
          PROVE  /\ q.phase = phase
                 /\ \/ q.phase = "role" /\ q.to = "owner"
                    \/ Spared(q.tenant, q.target)'
        <3>1. PICK t : t = request[r].tenant
            OBVIOUS
        <3>2. q.phase = phase /\ q.tenant = t /\ q.target = u /\ q.to = to
            BY <1>1, <2>2, <3>1 DEF Guard, Idle
        <3>3. to # "owner" => Spared(t, u)
            BY <2>2, <3>1, GuardSpares DEF Guard
        <3>4. role' = role
            BY <2>2 DEF Guard
        <3>5. to # "owner" => Spared(t, u)'
            BY <3>3, <3>4 DEF Spared, Member
        <3> QED BY <2>2, <3>2, <3>5 DEF NoRole
    <2>3. CASE DeleteMembership(r) \/ RevokeTokens(r) \/ RevokeConnections(r)
        <3>1. request[r] \in RequestStates /\ request[r].phase \in Removing
            BY <1>1, <2>3 DEF DeleteMembership, RevokeTokens, RevokeConnections, In,
                Removing, Deleting
        <3>2. /\ q.phase \in Removing /\ q.tenant = request[r].tenant
              /\ q.target = request[r].target
            <4>1. CASE DeleteMembership(r)
                BY <1>1, <3>1, <4>1 DEF DeleteMembership, Advances, RequestStates, Removing,
                    Deleting
            <4>2. CASE RevokeTokens(r)
                BY <1>1, <3>1, <4>2 DEF RevokeTokens, Advances, RequestStates, Removing,
                    Deleting
            <4>3. CASE RevokeConnections(r)
                BY <1>1, <3>1, <4>3 DEF RevokeConnections, Advances, RequestStates, Removing,
                    Deleting
            <4> QED BY <2>3, <4>1, <4>2, <4>3
        <3>3. role' = role
            BY <2>3 DEF DeleteMembership, RevokeTokens, RevokeConnections, Advances
        <3>4. Spared(q.tenant, q.target)
            BY <3>1, <3>2 DEF OwnerInv, Removing, Deleting
        <3> QED BY <3>2, <3>3, <3>4 DEF Spared, Member, Removing, Deleting
    <2> QED BY <1>3, <2>1, <2>2, <2>3, OnlyByAsking DEF Removing, Deleting
<1> QED BY <1>2, <1>3

\* A change leaves every organization that had an owner with one.
LEMMA ChangeSpares ==
    ASSUME IInv, OwnerInv, NEW r \in Requests, Changes(r),
           NEW t \in Tenants, Owners(t) # {}, accounts \subseteq accounts'
    PROVE  Owners(t)' # {}
<1>1. role \in [Tenants \X Users -> Roles \cup {NoRole}]
    BY DEF IInv, TypeOK
<1>2. PICK w \in Users : role[<<t, w>>] = "owner"
    BY DEF Owners
<1>3. CASE DeleteAccount(r)
    <2>1. /\ role[<<request[r].tenant, request[r].actor>>] = "owner"
          /\ request[r].tenant \in Tenants /\ request[r].actor \in Users
        BY <1>3 DEF DeleteAccount, In, OwnerInv, IInv, RequestsAct
    <2>2. request[r].actor \in accounts
        BY <2>1 DEF IInv, TypeOK, Member, NoRole
    <2> QED BY <1>3, <2>2 DEF DeleteAccount
<1>4. CASE SetMemberRole(r) \/ CommitRemoval(r)
    <2>1. PICK q : q = request[r]
        OBVIOUS
    <2>2. q.phase \in {"role", "commit"} /\ q.tenant \in Tenants /\ q.target \in Users
        BY <1>4, <2>1 DEF SetMemberRole, CommitRemoval, In, IInv, RequestsAct, Removing,
            Deleting
    <2>3. PICK to : role' = [role EXCEPT ![<<q.tenant, q.target>>] = to] /\
                    (to = "owner" \/ Spared(q.tenant, q.target))
        <3>1. CASE SetMemberRole(r)
            <4>1. q.phase = "role" /\ role' = [role EXCEPT ![<<q.tenant, q.target>>] = q.to]
                BY <2>1, <3>1 DEF SetMemberRole, In
            <4>2. q.to = "owner" \/ Spared(q.tenant, q.target)
                BY <2>1, <4>1 DEF OwnerInv
            <4> QED BY <4>1, <4>2
        <3>2. CASE CommitRemoval(r)
            <4>1. role' = [role EXCEPT ![<<q.tenant, q.target>>] = NoRole]
                BY <2>1, <3>2 DEF CommitRemoval
            <4>2. Spared(q.tenant, q.target)
                BY <2>1, <3>2 DEF CommitRemoval, In, OwnerInv, Removing, Deleting
            <4> QED BY <4>1, <4>2
        <3> QED BY <1>4, <3>1, <3>2
    <2>4. CASE q.tenant # t \/ q.target # w
        BY <1>1, <1>2, <2>2, <2>3, <2>4 DEF Owners
    <2>5. CASE q.tenant = t /\ q.target = w
        <3>1. CASE to = "owner"
            BY <1>1, <2>2, <2>3, <2>5, <3>1 DEF Owners
        <3>2. CASE to # "owner"
            <4>1. PICK v \in Users : v # w /\ role[<<t, v>>] = "owner"
                BY <1>2, <2>3, <2>5, <3>2 DEF Spared
            <4> QED BY <1>1, <2>2, <2>3, <2>5, <4>1 DEF Owners
        <3> QED BY <3>1, <3>2
    <2> QED BY <2>4, <2>5
<1> QED BY <1>3, <1>4 DEF Changes

\* An organization that has an owner keeps one, for any number of people and
\* requests, as long as no two requests are at once between the guard and the
\* update (lastOwnerGuard, CheckOwner): the overlap is all that is missing to
\* what the comment of members.go says.
THEOREM OneChangeAtATimeKeepsAnOwner ==
    Spec /\ []ChangesFollowOneAnother => AdministrationKeepsAnOwner
<1>1. Init => OwnerInv
    BY DEF Init, OwnerInv, Idle, Removing, Deleting
<1>2. ASSUME IInv, OwnerInv, [Next]_vars, NEW t \in tenants, Owners(t) # {},
             accounts \subseteq accounts'
      PROVE  Owners(t)' # {}
    <2>1. t \in Tenants
        BY <1>2 DEF IInv, TypeOK
    <2>2. CASE \E r \in Requests : Changes(r)
        BY <1>2, <2>1, <2>2, ChangeSpares
    <2>3. CASE ~\E r \in Requests : Changes(r)
        <3>1. PICK w \in Users : role[<<t, w>>] = "owner"
            BY <1>2 DEF Owners
        <3>2. role'[<<t, w>>] = "owner"
            BY <1>2, <2>1, <2>3, <3>1, RolesStay DEF Member, NoRole
        <3> QED BY <3>1, <3>2 DEF Owners
    <2> QED BY <2>2, <2>3
<1>3. IInv /\ OwnerInv /\ [Next]_vars =>
          [\A t \in tenants :
              Owners(t) # {} /\ accounts \subseteq accounts' => Owners(t)' # {}]_vars
    BY <1>2
<1> QED BY <1>1, <1>3, OwnerPreserved, Inductive, PTL DEF Spec, AdministrationKeepsAnOwner
=============================================================================
