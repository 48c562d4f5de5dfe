------------------------------- MODULE SignIn -------------------------------
(***************************************************************************)
(* Signing in with a browser: controllers/auth.go and platform/auth, the    *)
(* session and login_state rows (models/session.go), the Session middleware *)
(* and what is decided meanwhile about who may have an account: the hidden  *)
(* sign-up link and the allowlist (models/instance.go, allowlist.go),       *)
(* invitations and removals (members.go).                                   *)
(*                                                                         *)
(* Each statement of a handler is an action; a cookie is the number of the  *)
(* session whose token it holds, and the browser has it when the response   *)
(* arrives.  SignInWith is one transaction here, and an account is kept     *)
(* when its last membership ends; Members takes both apart.                 *)
(***************************************************************************)
EXTENDS Integers, FiniteSets

CONSTANTS
    People,         \* identities the provider vouches for
    Browsers,
    Requests,       \* requests under way at once
    SignupsEnabled, \* SIGNUPS_ENABLED
    MaxSessions, MaxLinks,  \* bounds: sessions and links ever made
    MaxStates,      \* bound: login_state rows in use at once
    MaxChanges      \* bound: links made, additions to and removals from the
                    \* allowlist, invitations and removals of members

Sessions == 1..MaxSessions
States == 1..MaxStates
Links == 1..MaxLinks
Nobody == "nobody"
Places == {"own", "joined"} \* a site of one's own, the sites one was invited to

ASSUME BoundAssumption ==
    /\ SignupsEnabled \in BOOLEAN /\ Nobody \notin People \cup Browsers
    /\ MaxSessions \in Nat /\ MaxStates \in Nat /\ MaxLinks \in Nat /\ MaxChanges \in Nat

VARIABLES
    accounts,       \* identities with an account
    member,         \* where each is a member
    invited,        \* those with a pending invitation
    allowed,        \* signup_allow
    link, lastLink, \* instance_setting.signup_link, 0 when off; links ever made
    changes,
    session,        \* session rows: "none", "live" or "ended", and last_seen_at
    lastSession,
    holder,         \* the browser each session was made for
    cookie,         \* the session each browser has the token of, 0 for none
    login,          \* login_state rows, and whether the provider's code is spent
    request,
    overlapped,     \* browsers that replaced their session twice at once
    strays          \* sessions whose revocation failed, or whose token was lost

people == <<accounts, member, invited>>
settings == <<allowed, link, lastLink, changes>>
rows == <<session, lastSession, holder>>
history == <<overlapped, strays>>
vars == <<people, settings, rows, cookie, login, request, history>>

NoSession == [state |-> "none", idle |-> FALSE]
Ended == [state |-> "ended", idle |-> FALSE]
NoLogin == [state |-> "over", to |-> 0, by |-> Nobody, spent |-> FALSE]
Idle == [phase |-> "idle", by |-> Nobody, old |-> 0, new |-> 0, saw |-> NoSession,
         login |-> 0, to |-> 0, who |-> Nobody, open |-> FALSE, current |-> FALSE]

Goes(r, from, to) ==
    request[r].phase = from /\ request' = [request EXCEPT ![r].phase = to]
Ends(r) == request' = [request EXCEPT ![r] = Idle]

\* startSession, with the cookie that the request came with.
StartsSession(r, b, old) ==
    request' = [request EXCEPT ![r] = [Idle EXCEPT !.phase = "revoke", !.by = b, !.old = old]]

Phases == {"idle", "touch", "consume", "exchange", "link", "sign in", "revoke", "create",
           "answer", "logout", "clear"}
SessionRows == [state : {"none", "live", "ended"}, idle : BOOLEAN]
LoginRows == [state : {"pending", "over"}, to : 0..MaxLinks,
              by : Browsers \cup {Nobody}, spent : BOOLEAN]
RequestRows == [phase : Phases, by : Browsers \cup {Nobody}, old : 0..MaxSessions,
                new : 0..MaxSessions, saw : SessionRows, login : 0..MaxStates,
                to : 0..MaxLinks, who : People \cup {Nobody}, open : BOOLEAN,
                current : BOOLEAN]

\* A browser that has a request under way which replaces or ends its session
\* sends another such request.
UnderWay(b) == {r \in Requests : request[r].by = b /\ request[r].phase # "touch"}
Overlaps(b) == overlapped' = IF UnderWay(b) # {} THEN overlapped \cup {b} ELSE overlapped

\* A statement fails, or the browser goes away: a request ends wherever it is,
\* and the token that its answer would have brought is lost.
Fails(r) ==
    /\ request[r].phase # "idle"
    /\ Ends(r)
    /\ strays' = strays \cup IF request[r].phase = "answer" THEN {request[r].new} ELSE {}
    /\ UNCHANGED <<people, settings, rows, cookie, login, overlapped>>

-----------------------------------------------------------------------------
\* A request with a session cookie: GetSession reads the row and, when it was
\* last seen over an hour ago, writes that column alone.

Valid(s) == s # 0 /\ session[s].state = "live"

Visit(r, b) ==
    /\ request[r].phase = "idle"
    /\ Valid(cookie[b]) /\ session[cookie[b]].idle
    /\ request' = [request EXCEPT ![r] =
          [Idle EXCEPT !.phase = "touch", !.by = b, !.old = cookie[b], !.saw = session[cookie[b]]]]
    /\ UNCHANGED <<people, settings, rows, cookie, login, history>>

\* Not LastSeen: saves the row as it was read.
RowAsRead(r) == [request[r].saw EXCEPT !.idle = FALSE]

LastSeen(r) == [session[request[r].old] EXCEPT !.idle = FALSE]

Touch(r) ==
    /\ request[r].phase = "touch"
    /\ session' = [session EXCEPT ![request[r].old] = LastSeen(r)]
    /\ Ends(r)
    /\ UNCHANGED <<people, settings, lastSession, holder, cookie, login, history>>

\* RevokeSession; its error is ignored (startSession, Logout).
Revoke(s) ==
    \/ Valid(s) /\ session' = [session EXCEPT ![s] = Ended] /\ UNCHANGED strays
    \/ Valid(s) /\ strays' = strays \cup {s} /\ UNCHANGED session
    \/ ~Valid(s) /\ UNCHANGED <<session, strays>>

Logout(r, b) ==
    /\ request[r].phase = "idle"
    /\ Overlaps(b)
    /\ request' = [request EXCEPT ![r] =
          [Idle EXCEPT !.phase = "logout", !.by = b, !.old = cookie[b]]]
    /\ UNCHANGED <<people, settings, rows, cookie, login, strays>>

EndSession(r) ==
    /\ Goes(r, "logout", "clear")
    /\ Revoke(request[r].old)
    /\ UNCHANGED <<people, settings, lastSession, holder, cookie, login, overlapped>>

ClearCookie(r) ==
    /\ request[r].phase = "clear"
    /\ cookie' = [cookie EXCEPT ![request[r].by] = 0]
    /\ Ends(r)
    /\ UNCHANGED <<people, settings, rows, login, history>>

\* An hour passes for a session in use; or the lifetime of any.
GoesUnseen(b) ==
    /\ Valid(cookie[b]) /\ ~session[cookie[b]].idle
    /\ session' = [session EXCEPT ![cookie[b]].idle = TRUE]
    /\ UNCHANGED <<people, settings, lastSession, holder, cookie, login, request, history>>

Expires(s) ==
    /\ session[s].state = "live"
    /\ session' = [session EXCEPT ![s] = Ended]
    /\ UNCHANGED <<people, settings, lastSession, holder, cookie, login, request, history>>

-----------------------------------------------------------------------------
\* Signing in with the provider.

\* GoogleBegin keeps where to return to: a sign-up link whose page the visitor
\* has seen, or 0 for the site.
GoogleBegin(b, t, to) ==
    /\ login[t].state = "over" /\ \A r \in Requests : request[r].login # t
    /\ to <= lastLink
    /\ login' = [login EXCEPT ![t] = [state |-> "pending", to |-> to, by |-> b, spent |-> FALSE]]
    /\ UNCHANGED <<people, settings, rows, cookie, request, history>>

\* A row that is over keeps nothing but whether the code is spent.
Over(t) == login' = [login EXCEPT ![t] = [NoLogin EXCEPT !.spent = login[t].spent]]

StateExpires(t) ==
    /\ login[t].state = "pending" /\ Over(t)
    /\ UNCHANGED <<people, settings, rows, cookie, request, history>>

\* GoogleCallback; ConsumeLoginState reads the row, then marks it.
GoogleCallback(r, t) ==
    LET b == login[t].by IN
    /\ request[r].phase = "idle" /\ login[t].state = "pending"
    /\ Overlaps(b)
    /\ request' = [request EXCEPT ![r] =
          [Idle EXCEPT !.phase = "consume", !.by = b, !.old = cookie[b], !.login = t,
                       !.to = login[t].to, !.current = login[t].to # 0 /\ login[t].to = link]]
    /\ UNCHANGED <<people, settings, rows, cookie, login, strays>>

ConsumeLoginState(r) ==
    /\ Goes(r, "consume", "exchange")
    /\ Over(request[r].login)
    /\ UNCHANGED <<people, settings, rows, cookie, history>>

\* The provider redeems a code once, and only for somebody who signed in there.
Exchange(r) ==
    LET t == request[r].login IN
    /\ request[r].phase = "exchange"
    /\ ~login[t].spent /\ login' = [login EXCEPT ![t].spent = TRUE]
    /\ \E p \in People : request' = [request EXCEPT ![r].phase = "link", ![r].who = p]
    /\ UNCHANGED <<people, settings, rows, cookie, history>>

\* Not LinkIsCurrent: any link that was ever shown.
LinkWasIssued(to) == to # 0 /\ to <= lastLink

\* SignupLinkValid.
LinkIsCurrent(to) == to # 0 /\ to = link

\* finishSignIn.
CheckLink(r) ==
    /\ request[r].phase = "link"
    /\ request' = [request EXCEPT ![r].phase = "sign in",
          ![r].open = SignupsEnabled \/ LinkIsCurrent(request[r].to)]
    /\ UNCHANGED <<people, settings, rows, cookie, login, history>>

\* Where p belongs once it has signed in: where it did, where it was invited,
\* and, for a newcomer who may have one, a site of its own.  Newcomers are those
\* without an account, and the account that no site is left to.
MemberOnceIn(p, may) ==
    LET now == member[p] \cup IF p \in invited THEN {"joined"} ELSE {} IN
    IF may /\ (p \notin accounts \/ now = {}) THEN now \cup {"own"} ELSE now

SignInWith(r) ==
    LET p == request[r].who
        places == MemberOnceIn(p, request[r].open \/ p \in allowed)
    IN
    /\ request[r].phase = "sign in"
    /\ IF places # {}
       THEN /\ accounts' = accounts \cup {p} /\ invited' = invited \ {p}
            /\ member' = [member EXCEPT ![p] = places]
            /\ StartsSession(r, request[r].by, request[r].old)
       ELSE Ends(r) /\ UNCHANGED people
    /\ UNCHANGED <<settings, rows, cookie, login, history>>

\* LocalLogin: AuthenticateLocal only reads.
LocalLogin(r, b) ==
    /\ request[r].phase = "idle"
    /\ Overlaps(b)
    /\ StartsSession(r, b, cookie[b])
    /\ UNCHANGED <<people, settings, rows, cookie, login, strays>>

\* A new session replaces the old one.
RevokeOld(r) ==
    /\ Goes(r, "revoke", "create")
    /\ Revoke(request[r].old)
    /\ UNCHANGED <<people, settings, lastSession, holder, cookie, login, overlapped>>

CreateSession(r) ==
    /\ request[r].phase = "create"
    /\ lastSession < MaxSessions /\ lastSession' = lastSession + 1
    /\ session' = [session EXCEPT ![lastSession'] = [state |-> "live", idle |-> FALSE]]
    /\ holder' = [holder EXCEPT ![lastSession'] = request[r].by]
    /\ request' = [request EXCEPT ![r].phase = "answer", ![r].new = lastSession']
    /\ UNCHANGED <<people, settings, cookie, login, history>>

\* The response arrives, and the browser has the new cookie.
Answer(r) ==
    /\ request[r].phase = "answer"
    /\ cookie' = [cookie EXCEPT ![request[r].by] = request[r].new]
    /\ Ends(r)
    /\ UNCHANGED <<people, settings, rows, login, history>>

-----------------------------------------------------------------------------
\* The administrator of the installation, and the owners of sites.

Decides == changes < MaxChanges /\ changes' = changes + 1

NewSignupLink ==
    /\ Decides
    /\ lastLink < MaxLinks /\ lastLink' = lastLink + 1
    /\ link' = lastLink'
    /\ UNCHANGED <<people, allowed, rows, cookie, login, request, history>>

DisableSignupLink ==
    /\ link # 0 /\ link' = 0
    /\ UNCHANGED <<people, allowed, lastLink, changes, rows, cookie, login, request, history>>

AllowSignup(p) ==
    /\ Decides /\ allowed' = allowed \cup {p}
    /\ UNCHANGED <<people, link, lastLink, rows, cookie, login, request, history>>

DisallowSignup(p) ==
    /\ Decides /\ allowed' = allowed \ {p}
    /\ UNCHANGED <<people, link, lastLink, rows, cookie, login, request, history>>

CreateInvite(p) ==
    /\ Decides /\ invited' = invited \cup {p}
    /\ UNCHANGED <<accounts, member, allowed, link, lastLink, rows, cookie, login, request,
                   history>>

\* Or it expires.
RevokeInvite(p) ==
    /\ p \in invited /\ invited' = invited \ {p}
    /\ UNCHANGED <<accounts, member, settings, rows, cookie, login, request, history>>

RemoveMember(p, where) ==
    /\ Decides /\ where \in member[p]
    /\ member' = [member EXCEPT ![p] = member[p] \ {where}]
    /\ UNCHANGED <<accounts, invited, allowed, link, lastLink, rows, cookie, login, request,
                   history>>

-----------------------------------------------------------------------------
Init ==
    /\ accounts = {} /\ member = [p \in People |-> {}] /\ invited = {}
    /\ allowed = {} /\ link = 0 /\ lastLink = 0 /\ changes = 0
    /\ session = [s \in Sessions |-> NoSession] /\ lastSession = 0
    /\ holder = [s \in Sessions |-> Nobody] /\ cookie = [b \in Browsers |-> 0]
    /\ login = [t \in States |-> NoLogin]
    /\ request = [r \in Requests |-> Idle] /\ overlapped = {} /\ strays = {}

Next ==
    \/ \E r \in Requests :
          \/ \E b \in Browsers : Visit(r, b) \/ LocalLogin(r, b) \/ Logout(r, b)
          \/ \E t \in States : GoogleCallback(r, t)
          \/ Touch(r) \/ ConsumeLoginState(r) \/ Exchange(r) \/ CheckLink(r)
          \/ SignInWith(r) \/ RevokeOld(r) \/ CreateSession(r) \/ Answer(r)
          \/ EndSession(r) \/ ClearCookie(r) \/ Fails(r)
    \/ \E b \in Browsers : GoesUnseen(b)
    \/ \E b \in Browsers, t \in States, to \in {0} \cup Links : GoogleBegin(b, t, to)
    \/ \E s \in Sessions : Expires(s)
    \/ \E t \in States : StateExpires(t)
    \/ NewSignupLink \/ DisableSignupLink
    \/ \E p \in People :
          \/ AllowSignup(p) \/ DisallowSignup(p) \/ CreateInvite(p) \/ RevokeInvite(p)
          \/ \E where \in Places : RemoveMember(p, where)

Spec == Init /\ [][Next]_vars

-----------------------------------------------------------------------------
\* Every variable keeps its type.
TypeOK ==
    /\ accounts \subseteq People /\ allowed \subseteq People /\ invited \subseteq People
    /\ member \in [People -> SUBSET Places]
    /\ lastLink \in 0..MaxLinks /\ link \in 0..lastLink /\ changes \in Nat
    /\ session \in [Sessions -> SessionRows] /\ lastSession \in 0..MaxSessions
    /\ holder \in [Sessions -> Browsers \cup {Nobody}]
    /\ cookie \in [Browsers -> 0..MaxSessions]
    /\ login \in [States -> LoginRows]
    /\ request \in [Requests -> RequestRows]
    /\ overlapped \subseteq Browsers /\ strays \subseteq 0..MaxSessions

\* A browser has one session at most: a new one replaces the old (startSession),
\* and no request still served with the old one brings it back when it writes
\* when it was last seen.  Others are left by the failures that nothing repairs
\* (an error of RevokeSession, a response that is lost) and when a browser
\* replaces its session twice at once, and by nothing else.
OneSessionPerBrowser ==
    \A s \in Sessions : session[s].state = "live" =>
        \/ cookie[holder[s]] = s
        \/ \E r \in Requests : request[r].phase = "answer" /\ request[r].new = s
        \/ s \in strays \/ holder[s] \in overlapped

\* p may have a site of its own now: sign-ups are open, the address is on the
\* allowlist, or a request signs p in that came through a sign-up link which
\* was current when its callback began.
MayOwn(p) ==
    \/ SignupsEnabled \/ p \in allowed
    \/ \E r \in Requests :
          request[r].phase = "sign in" /\ request[r].who = p /\ request[r].current

\* A sign-up link that was replaced or turned off before the provider sent a
\* visitor back admits nobody (NewSignupLink: the old one stops working at
\* once): while sign-ups are closed, an account is made only for an address on
\* the allowlist, through a link that was current during its callback, or for
\* an invitation, which brings no site of one's own (SignInWith), neither then
\* nor when its holder was removed and is a newcomer again.
OldLinksAdmitNobody ==
    [][\A p \in People :
          /\ p \in accounts' \ accounts => MayOwn(p) \/ p \in invited
          /\ "own" \in member'[p] \ member[p] => MayOwn(p)]_vars
=============================================================================
