---------------------------- MODULE SignInProofs ----------------------------
(***************************************************************************)
(* Theorems about SignIn, for any number of browsers, requests, sessions    *)
(* and links: the type invariant, one session per browser, and that a link  *)
(* that was replaced admits nobody.  And about the limiter in front of it,  *)
(* for every limit and however many calls are made of it, whenever.         *)
(***************************************************************************)
EXTENDS Admission, FiniteSetTheorems, WellFoundedInduction, TLAPS

\* A request that came back from the provider and has not signed anybody in.
WithState == {"consume", "exchange", "link", "sign in"}

\* One that replaces or ends the session of its browser.
Replacing == WithState \cup {"revoke", "create", "answer", "logout", "clear"}

\* The steps of a request, and the others.
RequestSteps(r) ==
    \/ \E b \in Browsers : Visit(r, b) \/ LocalLogin(r, b) \/ Logout(r, b)
    \/ \E t \in States : GoogleCallback(r, t)
    \/ Touch(r) \/ ConsumeLoginState(r) \/ Exchange(r) \/ CheckLink(r)
    \/ SignInWith(r) \/ RevokeOld(r) \/ CreateSession(r) \/ Answer(r)
    \/ EndSession(r) \/ ClearCookie(r) \/ Fails(r)

OtherSteps ==
    \/ \E b \in Browsers : GoesUnseen(b)
    \/ \E b \in Browsers, t \in States, to \in {0} \cup Links : GoogleBegin(b, t, to)
    \/ \E s \in Sessions : Expires(s)
    \/ \E t \in States : StateExpires(t)
    \/ NewSignupLink \/ DisableSignupLink
    \/ \E p \in People :
          \/ AllowSignup(p) \/ DisallowSignup(p) \/ CreateInvite(p) \/ RevokeInvite(p)
          \/ \E where \in Places : RemoveMember(p, where)

LEMMA StepsOfNext == Next => (\E r \in Requests : RequestSteps(r)) \/ OtherSteps
BY DEF Next, RequestSteps, OtherSteps

\* Who a request is for.
Attributed ==
    /\ \A t \in States : login[t].state = "pending" => login[t].by \in Browsers
    /\ \A r \in Requests :
          /\ request[r].phase # "idle" => request[r].by \in Browsers
          /\ request[r].phase \in {"link", "sign in"} => request[r].who \in People

-----------------------------------------------------------------------------
\* The rows that handlers write are rows of their tables.
LEMMA BlankRows ==
    /\ Idle \in RequestRows /\ NoSession \in SessionRows /\ Ended \in SessionRows
    /\ NoLogin \in LoginRows
BY BoundAssumption DEF Idle, RequestRows, NoSession, SessionRows, Ended, NoLogin, LoginRows,
    Phases

LEMMA TypeInit == Init => TypeOK
BY BlankRows, BoundAssumption DEF Init, TypeOK

\* What a step does to the row of its request, and to no other.
OthersRest(r) == \A q \in Requests \ {r} : request'[q] = request[q]
Writes(r, row) ==
    OthersRest(r) /\ request'[r] = row /\ request' = [request EXCEPT ![r] = row]

\* A row that begins.
Begun(phase, b, old) == [Idle EXCEPT !.phase = phase, !.by = b, !.old = old]

LEMMA BegunRow ==
    ASSUME NEW phase \in Phases, NEW b \in Browsers, NEW old \in 0..MaxSessions
    PROVE  /\ Begun(phase, b, old) \in RequestRows
           /\ Begun(phase, b, old).phase = phase /\ Begun(phase, b, old).by = b
           /\ Begun(phase, b, old).old = old
BY BlankRows DEF Begun, Idle, RequestRows

\* A row that goes on, keeping whom it is for and what it came with.
Onward(r, row, to) ==
    /\ row \in RequestRows /\ row.phase = to
    /\ row.by = request[r].by /\ row.old = request[r].old
    /\ row.to = request[r].to /\ row.current = request[r].current

LEMMA GoesRow ==
    ASSUME TypeOK, NEW r \in Requests, NEW from, NEW to \in Phases, Goes(r, from, to)
    PROVE  /\ request[r].phase = from
           /\ \E row : /\ Writes(r, row) /\ Onward(r, row, to)
                       /\ row.who = request[r].who /\ row.open = request[r].open
<1> DEFINE row == [request[r] EXCEPT !.phase = to]
<1>1. request[r] \in RequestRows /\ request \in [Requests -> RequestRows]
    BY DEF TypeOK
<1>2. /\ Onward(r, row, to)
      /\ row.who = request[r].who /\ row.open = request[r].open
    BY <1>1 DEF RequestRows, Onward
<1>3. request' = [request EXCEPT ![r] = row] /\ request[r].phase = from
    BY <1>1 DEF Goes
<1> HIDE DEF row
<1>4. Writes(r, row)
    BY <1>1, <1>3 DEF OthersRest, Writes
<1> QED BY <1>2, <1>3, <1>4

LEMMA EndsRow ==
    ASSUME TypeOK, NEW r \in Requests, Ends(r)
    PROVE  Writes(r, Idle) /\ Idle.phase = "idle"
BY DEF Ends, TypeOK, OthersRest, Writes, Idle

LEMMA StartsRow ==
    ASSUME TypeOK, NEW r \in Requests, NEW b, NEW old, StartsSession(r, b, old)
    PROVE  Writes(r, Begun("revoke", b, old))
BY DEF StartsSession, TypeOK, OthersRest, Writes, Begun

LEMMA LogoutRow ==
    ASSUME TypeOK, NEW r \in Requests, NEW b \in Browsers, Logout(r, b)
    PROVE  Writes(r, Begun("logout", b, cookie[b]))
BY DEF Logout, TypeOK, OthersRest, Writes, Begun

LEMMA CookieType ==
    ASSUME TypeOK, NEW b \in Browsers
    PROVE  cookie[b] \in 0..MaxSessions
BY DEF TypeOK

LEMMA VisitRow ==
    ASSUME TypeOK, NEW r \in Requests, NEW b \in Browsers, Visit(r, b)
    PROVE  \E row \in RequestRows : Writes(r, row) /\ row.phase = "touch" /\ row.by = b
<1> DEFINE row == [Idle EXCEPT !.phase = "touch", !.by = b, !.old = cookie[b],
                               !.saw = session[cookie[b]]]
<1>1. request' = [request EXCEPT ![r] = row] /\ cookie[b] # 0
    BY DEF Visit, Valid
<1>2. cookie[b] \in 0..MaxSessions /\ cookie[b] \in Sessions
    BY <1>1, CookieType, BoundAssumption DEF Sessions
<1>3. session[cookie[b]] \in SessionRows
    BY <1>2 DEF TypeOK
<1>4. row.phase = "touch" /\ row.by = b /\ row \in RequestRows
    BY <1>2, <1>3, BlankRows DEF Idle, RequestRows, Phases
<1> HIDE DEF row
<1>5. Writes(r, row)
    BY <1>1 DEF TypeOK, OthersRest, Writes
<1> QED BY <1>4, <1>5

LEMMA CallbackRow ==
    ASSUME TypeOK, Attributed, NEW r \in Requests, NEW t \in States, GoogleCallback(r, t)
    PROVE  /\ login[t].by \in Browsers
           /\ \E row \in RequestRows :
                /\ Writes(r, row) /\ row.phase = "consume" /\ row.by = login[t].by
                /\ row.old = cookie[login[t].by] /\ row.to = login[t].to
                /\ row.current = (login[t].to # 0 /\ login[t].to = link)
<1>0. login[t].by \in Browsers
    BY DEF GoogleCallback, Attributed
<1> DEFINE b == login[t].by
           now == login[t].to # 0 /\ login[t].to = link
           row == [Idle EXCEPT !.phase = "consume", !.by = b, !.old = cookie[b],
                               !.login = t, !.to = login[t].to, !.current = now]
<1>1. request' = [request EXCEPT ![r] = row]
    BY DEF GoogleCallback
<1>2. cookie[b] \in 0..MaxSessions /\ now \in BOOLEAN
    BY <1>0, CookieType
<1>3. login[t].to \in 0..MaxLinks /\ t \in 0..MaxStates
    <2>1. login[t] \in LoginRows /\ MaxStates \in Nat
        BY BoundAssumption DEF TypeOK
    <2> QED BY <2>1 DEF LoginRows, States
<1> HIDE DEF now
<1>4. /\ row.phase = "consume" /\ row.by = b /\ row.old = cookie[b]
      /\ row.to = login[t].to /\ row.current = now
    BY DEF Idle
<1>5. row \in RequestRows
    BY <1>0, <1>2, <1>3, BlankRows DEF Idle, RequestRows, Phases
<1> HIDE DEF row
<1>6. Writes(r, row)
    BY <1>1 DEF TypeOK, OthersRest, Writes
<1> QED BY <1>0, <1>4, <1>5, <1>6 DEF now

\* The row once the provider redeemed the code, and once the link is checked.
LEMMA ExchangeRow ==
    ASSUME TypeOK, NEW r \in Requests, Exchange(r)
    PROVE  /\ request[r].phase = "exchange"
           /\ \E row : Writes(r, row) /\ Onward(r, row, "link") /\ row.who \in People
<1>1. request[r].phase = "exchange"
    BY DEF Exchange
<1>2. PICK p \in People : request' = [request EXCEPT ![r].phase = "link", ![r].who = p]
    BY DEF Exchange
<1> DEFINE row == [request[r] EXCEPT !.phase = "link", !.who = p]
<1>3. request[r] \in RequestRows /\ request \in [Requests -> RequestRows]
    BY DEF TypeOK
<1>4. Onward(r, row, "link") /\ row.who = p
    BY <1>3 DEF RequestRows, Onward, Phases
<1>5. request' = [request EXCEPT ![r] = row]
    BY <1>2, <1>3
<1> HIDE DEF row
<1>6. Writes(r, row)
    BY <1>3, <1>5 DEF OthersRest, Writes
<1> QED BY <1>1, <1>4, <1>6

LEMMA CheckLinkRow ==
    ASSUME TypeOK, NEW r \in Requests, CheckLink(r)
    PROVE  /\ request[r].phase = "link"
           /\ \E row : /\ Writes(r, row) /\ Onward(r, row, "sign in")
                       /\ row.who = request[r].who
                       /\ row.open = (SignupsEnabled \/ LinkIsCurrent(request[r].to))
<1> DEFINE open == SignupsEnabled \/ LinkIsCurrent(request[r].to)
           row == [request[r] EXCEPT !.phase = "sign in", !.open = open]
<1>1. request[r] \in RequestRows /\ request \in [Requests -> RequestRows]
    BY DEF TypeOK
<1>2. request' = [request EXCEPT ![r] = row] /\ request[r].phase = "link"
    BY <1>1 DEF CheckLink
<1>3. open \in BOOLEAN
    BY BoundAssumption DEF LinkIsCurrent
<1> HIDE DEF open
<1>4. row.open = open /\ row.who = request[r].who /\ Onward(r, row, "sign in")
    BY <1>1, <1>3 DEF RequestRows, Onward, Phases
<1> HIDE DEF row
<1>5. Writes(r, row)
    BY <1>1, <1>2 DEF OthersRest, Writes
<1> QED BY <1>2, <1>4, <1>5 DEF open

LEMMA CreateRow ==
    ASSUME TypeOK, NEW r \in Requests, CreateSession(r)
    PROVE  /\ request[r].phase = "create" /\ lastSession' = lastSession + 1
           /\ lastSession' \in Sessions /\ lastSession' \in 0..MaxSessions
           /\ \E row : /\ Writes(r, row) /\ Onward(r, row, "answer")
                       /\ row.new = lastSession'
<1>1. request[r] \in RequestRows /\ request \in [Requests -> RequestRows]
    BY DEF TypeOK
<1>2. lastSession < MaxSessions /\ lastSession' = lastSession + 1
      /\ lastSession \in 0..MaxSessions /\ MaxSessions \in Nat
    BY BoundAssumption DEF CreateSession, TypeOK
<1>3. lastSession' \in Sessions /\ lastSession' \in 0..MaxSessions
    BY <1>2 DEF Sessions
<1> DEFINE row == [request[r] EXCEPT !.phase = "answer", !.new = lastSession']
<1>4. request' = [request EXCEPT ![r] = row] /\ request[r].phase = "create"
    BY <1>1 DEF CreateSession
<1>5. row.new = lastSession' /\ Onward(r, row, "answer")
    BY <1>1, <1>3 DEF RequestRows, Onward, Phases
<1> HIDE DEF row
<1>6. Writes(r, row)
    BY <1>1, <1>4 DEF OthersRest, Writes
<1> QED BY <1>2, <1>3, <1>4, <1>5, <1>6

-----------------------------------------------------------------------------
\* Types.

LEMMA RowsTyped ==
    ASSUME TypeOK, NEW r \in Requests, NEW row \in RequestRows, Writes(r, row)
    PROVE  request' \in [Requests -> RequestRows]
BY DEF Writes, TypeOK

\* RevokeSession.
LEMMA SessionEnds ==
    ASSUME TypeOK, NEW s \in 0..MaxSessions, Revoke(s)
    PROVE  session' \in [Sessions -> SessionRows] /\ strays' \subseteq 0..MaxSessions
<1>1. Valid(s) => s \in Sessions
    BY BoundAssumption DEF Valid, Sessions
<1> QED BY <1>1, BlankRows DEF Revoke, TypeOK

LEMMA LoginOver ==
    ASSUME TypeOK, NEW t, Over(t)
    PROVE  login' \in [States -> LoginRows]
<1> DEFINE row == [NoLogin EXCEPT !.spent = login[t].spent]
<1>1. t \in States => row \in LoginRows
    <2>1. t \in States => login[t] \in LoginRows
        BY DEF TypeOK
    <2> QED BY <2>1, BlankRows DEF LoginRows
<1>2. login' = [login EXCEPT ![t] = row]
    BY DEF Over
<1> HIDE DEF row
<1> QED BY <1>1, <1>2 DEF TypeOK

\* The steps of a request.
LEMMA TypeRequest ==
    ASSUME TypeOK, Attributed, NEW r \in Requests, RequestSteps(r)
    PROVE  TypeOK'
<1> USE DEF people, settings, rows, history
<1>0. /\ request \in [Requests -> RequestRows] /\ request[r] \in RequestRows
      /\ session \in [Sessions -> SessionRows] /\ login \in [States -> LoginRows]
      /\ cookie \in [Browsers -> 0..MaxSessions] /\ lastSession \in 0..MaxSessions
      /\ MaxSessions \in Nat
      /\ {"touch", "consume", "revoke", "exchange", "create", "logout", "clear"}
            \subseteq Phases
    BY BoundAssumption DEF TypeOK, Phases
<1>00. request[r].old \in 0..MaxSessions /\ request[r].new \in 0..MaxSessions
    BY <1>0 DEF RequestRows
<1>1. ASSUME NEW b \in Browsers, Visit(r, b) PROVE TypeOK'
    <2>1. request' \in [Requests -> RequestRows]
        BY <1>1, VisitRow, RowsTyped
    <2> QED BY <1>1, <2>1 DEF Visit, TypeOK
<1>2. ASSUME NEW b \in Browsers, LocalLogin(r, b) PROVE TypeOK'
    <2>1. request' \in [Requests -> RequestRows]
        BY <1>0, <1>2, StartsRow, BegunRow, CookieType, RowsTyped DEF LocalLogin
    <2>2. overlapped' \subseteq Browsers
        BY <1>2 DEF LocalLogin, Overlaps, TypeOK
    <2> QED BY <1>2, <2>1, <2>2 DEF LocalLogin, TypeOK
<1>3. ASSUME NEW t \in States, GoogleCallback(r, t) PROVE TypeOK'
    <2>1. request' \in [Requests -> RequestRows] /\ login[t].by \in Browsers
        BY <1>3, CallbackRow, RowsTyped
    <2>2. overlapped' \subseteq Browsers
        BY <1>3, <2>1 DEF GoogleCallback, Overlaps, TypeOK
    <2> QED BY <1>3, <2>1, <2>2 DEF GoogleCallback, TypeOK
<1>4. CASE Touch(r)
    <2>1. session' = [session EXCEPT ![request[r].old] = LastSeen(r)]
        BY <1>4 DEF Touch
    <2>2. request[r].old \in Sessions => LastSeen(r) \in SessionRows
        BY <1>0 DEF LastSeen, SessionRows
    <2>3. session' \in [Sessions -> SessionRows]
        BY <1>0, <2>1, <2>2
    <2>4. request' \in [Requests -> RequestRows]
        BY <1>4, EndsRow, BlankRows, RowsTyped DEF Touch
    <2> QED BY <1>4, <2>3, <2>4 DEF Touch, TypeOK
<1>5. CASE ConsumeLoginState(r)
    <2>1. request' \in [Requests -> RequestRows]
        BY <1>0, <1>5, GoesRow, RowsTyped DEF ConsumeLoginState, Onward
    <2>2. login' \in [States -> LoginRows]
        BY <1>5, LoginOver DEF ConsumeLoginState
    <2> QED BY <1>5, <2>1, <2>2 DEF ConsumeLoginState, TypeOK
<1>6. CASE Exchange(r)
    <2>1. login' \in [States -> LoginRows]
        <3> DEFINE n == request[r].login
                   row == [login[n] EXCEPT !.spent = TRUE]
        <3>1. n \in States => row \in LoginRows
            <4>1. n \in States => login[n] \in LoginRows
                BY <1>0
            <4> QED BY <4>1 DEF LoginRows
        <3>2. login' = [login EXCEPT ![n] = row]
            BY <1>6 DEF Exchange
        <3> HIDE DEF n, row
        <3> QED BY <1>0, <3>1, <3>2
    <2>2. request' \in [Requests -> RequestRows]
        BY <1>6, ExchangeRow, RowsTyped DEF Onward
    <2> QED BY <1>6, <2>1, <2>2 DEF Exchange, TypeOK
<1>7. CASE CheckLink(r)
    <2>1. request' \in [Requests -> RequestRows]
        BY <1>7, CheckLinkRow, RowsTyped DEF Onward
    <2> QED BY <1>7, <2>1 DEF CheckLink, TypeOK
<1>8. CASE SignInWith(r)
    <2>1. request[r].who \in People /\ request[r].by \in Browsers
        BY <1>8 DEF SignInWith, Attributed
    <2>2. MemberOnceIn(request[r].who, request[r].open \/ request[r].who \in allowed)
              \in SUBSET Places
        BY <2>1 DEF MemberOnceIn, Places, TypeOK
    <2>3. request' \in [Requests -> RequestRows]
        <3>1. CASE Ends(r)
            BY <3>1, EndsRow, BlankRows, RowsTyped
        <3>2. CASE StartsSession(r, request[r].by, request[r].old)
            BY <1>0, <1>00, <2>1, <3>2, StartsRow, BegunRow, RowsTyped
        <3> QED BY <1>8, <3>1, <3>2 DEF SignInWith
    <2>4. accounts' \subseteq People /\ invited' \subseteq People
          /\ member' \in [People -> SUBSET Places]
        BY <1>8, <2>1, <2>2 DEF SignInWith, TypeOK
    <2> QED BY <1>8, <2>3, <2>4 DEF SignInWith, TypeOK
<1>9. CASE RevokeOld(r)
    <2>1. request' \in [Requests -> RequestRows]
        BY <1>0, <1>9, GoesRow, RowsTyped DEF RevokeOld, Onward
    <2>2. session' \in [Sessions -> SessionRows] /\ strays' \subseteq 0..MaxSessions
        BY <1>00, <1>9, SessionEnds DEF RevokeOld
    <2> QED BY <1>9, <2>1, <2>2 DEF RevokeOld, TypeOK
<1>10. CASE CreateSession(r)
    <2>1. request' \in [Requests -> RequestRows]
        BY <1>10, CreateRow, RowsTyped DEF Onward
    <2>2. lastSession' = lastSession + 1 /\ lastSession' \in 0..MaxSessions
        BY <1>10, CreateRow
    <2>3. request[r].by \in Browsers
        BY <1>10 DEF CreateSession, Attributed
    <2>4. session' \in [Sessions -> SessionRows]
        BY <1>0, <1>10 DEF CreateSession, SessionRows
    <2>6. holder' \in [Sessions -> Browsers \cup {Nobody}]
        BY <1>10, <2>3 DEF CreateSession, TypeOK
    <2> QED BY <1>10, <2>1, <2>2, <2>4, <2>6 DEF CreateSession, TypeOK
<1>11. CASE ClearCookie(r)
    <2>1. request' \in [Requests -> RequestRows]
        BY <1>11, EndsRow, BlankRows, RowsTyped DEF ClearCookie
    <2>2. 0 \in 0..MaxSessions
        BY <1>0
    <2>3. cookie' \in [Browsers -> 0..MaxSessions]
        BY <1>0, <1>11, <2>2 DEF ClearCookie
    <2> QED BY <1>11, <2>1, <2>3 DEF ClearCookie, TypeOK
<1>12. ASSUME NEW b \in Browsers, Logout(r, b) PROVE TypeOK'
    <2>1. request' \in [Requests -> RequestRows]
        BY <1>0, <1>12, LogoutRow, BegunRow, CookieType, RowsTyped
    <2>2. overlapped' \subseteq Browsers
        BY <1>12 DEF Logout, Overlaps, TypeOK
    <2> QED BY <1>12, <2>1, <2>2 DEF Logout, TypeOK
<1>13. CASE EndSession(r)
    <2>1. request' \in [Requests -> RequestRows]
        BY <1>0, <1>13, GoesRow, RowsTyped DEF EndSession, Onward
    <2>2. session' \in [Sessions -> SessionRows] /\ strays' \subseteq 0..MaxSessions
        BY <1>00, <1>13, SessionEnds DEF EndSession
    <2> QED BY <1>13, <2>1, <2>2 DEF EndSession, TypeOK
<1>14. CASE Answer(r)
    <2>1. request' \in [Requests -> RequestRows]
        BY <1>14, EndsRow, BlankRows, RowsTyped DEF Answer
    <2>2. cookie' \in [Browsers -> 0..MaxSessions]
        BY <1>0, <1>00, <1>14 DEF Answer
    <2> QED BY <1>14, <2>1, <2>2 DEF Answer, TypeOK
<1>15. CASE Fails(r)
    <2>1. request' \in [Requests -> RequestRows]
        BY <1>15, EndsRow, BlankRows, RowsTyped DEF Fails
    <2>2. strays' \subseteq 0..MaxSessions
        BY <1>00, <1>15 DEF Fails, TypeOK
    <2> QED BY <1>15, <2>1, <2>2 DEF Fails, TypeOK
<1> QED BY <1>1, <1>2, <1>3, <1>4, <1>5, <1>6, <1>7, <1>8, <1>9, <1>10, <1>11, <1>12, <1>13,
           <1>14, <1>15
        DEF RequestSteps

\* The other steps.
LEMMA TypeOthers ==
    ASSUME TypeOK, OtherSteps \/ UNCHANGED vars
    PROVE  TypeOK'
<1> USE DEF people, settings, rows, history
<1>0. /\ session \in [Sessions -> SessionRows] /\ login \in [States -> LoginRows]
      /\ lastLink \in 0..MaxLinks /\ link \in 0..lastLink
      /\ MaxSessions \in Nat /\ MaxLinks \in Nat
    BY BoundAssumption DEF TypeOK
<1>1. ASSUME NEW b \in Browsers, GoesUnseen(b) PROVE TypeOK'
    <2> DEFINE s == cookie[b]
               row == [session[s] EXCEPT !.idle = TRUE]
    <2>1. s \in Sessions => row \in SessionRows
        BY <1>0 DEF SessionRows
    <2>2. session' = [session EXCEPT ![s] = row]
        BY <1>1 DEF GoesUnseen
    <2> HIDE DEF row, s
    <2> QED BY <1>1, <2>1, <2>2 DEF GoesUnseen, TypeOK
<1>2. ASSUME NEW b \in Browsers, NEW t \in States, NEW to \in {0} \cup Links,
             GoogleBegin(b, t, to)
      PROVE  TypeOK'
    <2> DEFINE row == [state |-> "pending", to |-> to, by |-> b, spent |-> FALSE]
    <2>1. to \in 0..MaxLinks
        BY <1>0 DEF Links
    <2>2. row \in LoginRows
        BY <2>1 DEF LoginRows
    <2>3. login' = [login EXCEPT ![t] = row]
        BY <1>2 DEF GoogleBegin
    <2> HIDE DEF row
    <2> QED BY <1>2, <2>2, <2>3 DEF GoogleBegin, TypeOK
<1>3. ASSUME NEW s \in Sessions, Expires(s) PROVE TypeOK'
    BY <1>3, BlankRows DEF Expires, TypeOK
<1>4. ASSUME NEW t \in States, StateExpires(t) PROVE TypeOK'
    BY <1>4, LoginOver DEF StateExpires, TypeOK
<1>5. CASE NewSignupLink
    <2>1. lastLink' = lastLink + 1 /\ lastLink < MaxLinks /\ link' = lastLink'
        BY <1>5 DEF NewSignupLink
    <2>2. lastLink' \in 0..MaxLinks /\ link' \in 0..lastLink'
        BY <1>0, <2>1
    <2>3. changes' \in Nat
        BY <1>5 DEF NewSignupLink, Decides, TypeOK
    <2> QED BY <1>5, <2>2, <2>3 DEF NewSignupLink, TypeOK
<1>6. CASE DisableSignupLink
    <2>1. 0 \in 0..lastLink
        BY <1>0
    <2> QED BY <1>6, <2>1 DEF DisableSignupLink, TypeOK
<1>7. ASSUME NEW p \in People, AllowSignup(p) \/ DisallowSignup(p) PROVE TypeOK'
    <2>1. allowed' \subseteq People /\ UNCHANGED <<people, link, lastLink, rows, cookie, login,
                                                    request, history>>
        BY <1>7 DEF AllowSignup, DisallowSignup, TypeOK
    <2>2. changes' \in Nat
        BY <1>7 DEF AllowSignup, DisallowSignup, Decides, TypeOK
    <2> QED BY <2>1, <2>2 DEF TypeOK
<1>8. ASSUME NEW p \in People, CreateInvite(p) \/ RevokeInvite(p) PROVE TypeOK'
    <2>1. invited' \subseteq People
          /\ UNCHANGED <<accounts, member, allowed, link, lastLink, rows, cookie, login, request,
                         history>>
        BY <1>8 DEF CreateInvite, RevokeInvite, TypeOK
    <2>2. changes' \in Nat
        BY <1>8 DEF CreateInvite, RevokeInvite, Decides, TypeOK
    <2> QED BY <2>1, <2>2 DEF TypeOK
<1>9. ASSUME NEW p \in People, NEW where \in Places, RemoveMember(p, where) PROVE TypeOK'
    BY <1>9 DEF RemoveMember, Decides, TypeOK
<1>10. CASE UNCHANGED vars
    BY <1>10 DEF vars, TypeOK
<1> QED BY <1>1, <1>2, <1>3, <1>4, <1>5, <1>6, <1>7, <1>8, <1>9, <1>10 DEF OtherSteps

LEMMA TypeStep ==
    ASSUME TypeOK, Attributed, [Next]_vars
    PROVE  TypeOK'
BY TypeRequest, TypeOthers, StepsOfNext

-----------------------------------------------------------------------------
\* What a step does to the login_state rows.
LoginsKept ==
    \A t \in States :
        /\ login'[t].to \in {0, login[t].to}
        /\ login'[t].state = "pending" =>
              login[t].state = "pending" /\ login'[t].by = login[t].by

LEMMA LoginUnchanged ==
    ASSUME UNCHANGED login
    PROVE  LoginsKept
BY DEF LoginsKept

LEMMA LoginConsumed ==
    ASSUME TypeOK, NEW t, Over(t)
    PROVE  LoginsKept
BY DEF Over, LoginsKept, NoLogin, TypeOK

LEMMA LoginSpent ==
    ASSUME TypeOK, NEW r \in Requests, Exchange(r)
    PROVE  LoginsKept
<1>1. login' = [login EXCEPT ![request[r].login].spent = TRUE]
    BY DEF Exchange
<1> QED BY <1>1 DEF LoginsKept, TypeOK, LoginRows

\* A request and a login_state row keep whom they are for.
LEMMA AttributedKept ==
    ASSUME Attributed, LoginsKept, NEW r \in Requests, NEW row, Writes(r, row),
           row.phase # "idle" => row.by \in Browsers,
           row.phase \in {"link", "sign in"} => row.who \in People
    PROVE  Attributed'
<1>1. ASSUME NEW t \in States, login'[t].state = "pending"
      PROVE  login'[t].by \in Browsers
    BY <1>1 DEF Attributed, LoginsKept
<1>2. ASSUME NEW q \in Requests
      PROVE  /\ request'[q].phase # "idle" => request'[q].by \in Browsers
             /\ request'[q].phase \in {"link", "sign in"} => request'[q].who \in People
    BY DEF Attributed, Writes, OthersRest
<1> QED BY <1>1, <1>2 DEF Attributed

LEMMA AttributedRequest ==
    ASSUME TypeOK, Attributed, NEW r \in Requests, RequestSteps(r)
    PROVE  Attributed'
<1>0. ASSUME Ends(r), LoginsKept PROVE Attributed'
    BY <1>0, EndsRow, AttributedKept
<1>00. ASSUME NEW from, NEW to \in Phases, Goes(r, from, to), LoginsKept,
              from # "idle", to \notin {"link", "sign in"}
       PROVE  Attributed'
    <2>1. PICK row : /\ Writes(r, row) /\ Onward(r, row, to) /\ row.who = request[r].who
        BY <1>00, GoesRow
    <2>2. row.phase = to /\ row.by = request[r].by /\ request[r].phase = from
        BY <1>00, <2>1, GoesRow DEF Onward
    <2>3. row.by \in Browsers
        BY <1>00, <2>2 DEF Attributed
    <2> QED BY <1>00, <2>1, <2>2, <2>3, AttributedKept
<1>000. {"touch", "exchange", "revoke", "create", "logout", "clear"} \subseteq Phases
    BY DEF Phases
<1>1. ASSUME NEW b \in Browsers, Visit(r, b) PROVE Attributed'
    <2>1. PICK row \in RequestRows : Writes(r, row) /\ row.phase = "touch" /\ row.by = b
        BY <1>1, VisitRow
    <2>2. LoginsKept
        BY <1>1, LoginUnchanged DEF Visit
    <2> QED BY <2>1, <2>2, AttributedKept
<1>2. ASSUME NEW b \in Browsers, LocalLogin(r, b) PROVE Attributed'
    <2> DEFINE row == Begun("revoke", b, cookie[b])
    <2>1. Writes(r, row) /\ LoginsKept
        BY <1>2, StartsRow, LoginUnchanged DEF LocalLogin
    <2>2. row.phase = "revoke" /\ row.by = b
        BY <1>000, CookieType, BegunRow
    <2> HIDE DEF row
    <2> QED BY <2>1, <2>2, AttributedKept
<1>3. ASSUME NEW t \in States, GoogleCallback(r, t) PROVE Attributed'
    BY <1>3, CallbackRow, LoginUnchanged, AttributedKept DEF GoogleCallback
<1>4. CASE Touch(r)
    BY <1>0, <1>4, LoginUnchanged DEF Touch
<1>5. CASE ConsumeLoginState(r)
    BY <1>00, <1>000, <1>5, LoginConsumed DEF ConsumeLoginState
<1>6. CASE Exchange(r)
    BY <1>6, ExchangeRow, LoginSpent, AttributedKept DEF Attributed, Onward
<1>7. CASE CheckLink(r)
    BY <1>7, CheckLinkRow, LoginUnchanged, AttributedKept DEF CheckLink, Attributed, Onward
<1>8. CASE SignInWith(r)
    <2>1. request[r].by \in Browsers /\ request[r].old \in 0..MaxSessions /\ LoginsKept
        BY <1>8, LoginUnchanged DEF SignInWith, Attributed, TypeOK, RequestRows
    <2>2. CASE StartsSession(r, request[r].by, request[r].old)
        <3> DEFINE row == Begun("revoke", request[r].by, request[r].old)
        <3>1. Writes(r, row)
            BY <2>2, StartsRow
        <3>2. row.phase = "revoke" /\ row.by = request[r].by
            BY <1>000, <2>1, BegunRow
        <3> HIDE DEF row
        <3> QED BY <2>1, <3>1, <3>2, AttributedKept
    <2> QED BY <1>0, <1>8, <2>1, <2>2 DEF SignInWith
<1>9. CASE RevokeOld(r)
    BY <1>00, <1>000, <1>9, LoginUnchanged DEF RevokeOld
<1>10. CASE CreateSession(r)
    BY <1>10, CreateRow, LoginUnchanged, AttributedKept DEF CreateSession, Attributed, Onward
<1>11. CASE Answer(r)
    BY <1>0, <1>11, LoginUnchanged DEF Answer
<1>12. ASSUME NEW b \in Browsers, Logout(r, b) PROVE Attributed'
    <2> DEFINE row == Begun("logout", b, cookie[b])
    <2>1. Writes(r, row) /\ LoginsKept
        BY <1>12, LogoutRow, LoginUnchanged DEF Logout
    <2>2. row.phase = "logout" /\ row.by = b
        BY <1>000, CookieType, BegunRow
    <2> HIDE DEF row
    <2> QED BY <2>1, <2>2, AttributedKept
<1>13. CASE EndSession(r)
    BY <1>00, <1>000, <1>13, LoginUnchanged DEF EndSession
<1>14. CASE ClearCookie(r)
    BY <1>0, <1>14, LoginUnchanged DEF ClearCookie
<1>15. CASE Fails(r)
    BY <1>0, <1>15, LoginUnchanged DEF Fails
<1> QED BY <1>1, <1>2, <1>3, <1>4, <1>5, <1>6, <1>7, <1>8, <1>9, <1>10, <1>11, <1>12, <1>13,
           <1>14, <1>15
        DEF RequestSteps

LEMMA AttributedOthers ==
    ASSUME TypeOK, Attributed, OtherSteps \/ UNCHANGED vars
    PROVE  Attributed'
<1>1. ASSUME NEW b \in Browsers, NEW t \in States, NEW to \in {0} \cup Links,
             GoogleBegin(b, t, to)
      PROVE  Attributed'
    BY <1>1 DEF GoogleBegin, Attributed, TypeOK
<1>2. ASSUME NEW t \in States, StateExpires(t) PROVE Attributed'
    <2>1. LoginsKept /\ UNCHANGED request
        BY <1>2, LoginConsumed DEF StateExpires
    <2> QED BY <2>1 DEF LoginsKept, Attributed
<1>3. CASE UNCHANGED <<login, request>>
    BY <1>3 DEF Attributed
<1> QED BY <1>1, <1>2, <1>3
        DEF OtherSteps, GoesUnseen, Expires, NewSignupLink, DisableSignupLink, AllowSignup,
            DisallowSignup, CreateInvite, RevokeInvite, RemoveMember, vars

-----------------------------------------------------------------------------
\* What is known of the links: one that was not current when the provider sent
\* the visitor back is never current again, for every link is a new one.
Checked ==
    /\ \A t \in States : login[t].to <= lastLink
    /\ \A r \in Requests : request[r].phase \in WithState =>
          /\ request[r].to <= lastLink
          /\ LinkIsCurrent(request[r].to) => request[r].current
          /\ request[r].phase = "sign in" /\ request[r].open =>
                SignupsEnabled \/ request[r].current

\* What is known of the row of a request.
RowChecked(row) ==
    row.phase \in WithState =>
        /\ row.to <= lastLink
        /\ LinkIsCurrent(row.to) => row.current
        /\ row.phase = "sign in" /\ row.open => SignupsEnabled \/ row.current

LEMMA CheckedKept ==
    ASSUME TypeOK, Checked, LoginsKept, UNCHANGED <<link, lastLink>>,
           NEW r \in Requests, NEW row, Writes(r, row), RowChecked(row)
    PROVE  Checked'
<1>1. ASSUME NEW t \in States PROVE login'[t].to <= lastLink'
    <2>1. lastLink \in Nat
        BY BoundAssumption DEF TypeOK
    <2>2. login'[t].to \in {0, login[t].to} /\ login[t].to <= lastLink
        BY DEF Checked, LoginsKept
    <2> QED BY <2>1, <2>2
<1>2. ASSUME NEW q \in Requests, request'[q].phase \in WithState
      PROVE  /\ request'[q].to <= lastLink'
             /\ (request'[q].to # 0 /\ request'[q].to = link') => request'[q].current
             /\ request'[q].phase = "sign in" /\ request'[q].open =>
                   SignupsEnabled \/ request'[q].current
    <2>1. CASE q = r
        BY <1>2, <2>1 DEF Writes, RowChecked, LinkIsCurrent
    <2>2. CASE q # r
        BY <1>2, <2>2 DEF Writes, OthersRest, Checked, LinkIsCurrent
    <2> QED BY <2>1, <2>2
<1> QED BY <1>1, <1>2 DEF Checked, LinkIsCurrent

LEMMA CheckedRequest ==
    ASSUME TypeOK, Attributed, Checked, NEW r \in Requests, RequestSteps(r)
    PROVE  Checked'
<1>a. ASSUME NEW row, row.phase \notin WithState PROVE RowChecked(row)
    BY <1>a DEF RowChecked
<1>b. ASSUME NEW row, NEW to, Onward(r, row, to), to # "sign in",
             to \in WithState => request[r].phase \in WithState
      PROVE  RowChecked(row)
    BY <1>b DEF RowChecked, Checked, Onward
<1>c. ASSUME Ends(r), LoginsKept, UNCHANGED <<link, lastLink>> PROVE Checked'
    BY <1>a, <1>c, EndsRow, CheckedKept DEF WithState
<1>d. ASSUME NEW from, NEW to \in Phases, Goes(r, from, to), LoginsKept,
             UNCHANGED <<link, lastLink>>, to # "sign in", to \in WithState => from \in WithState
      PROVE  Checked'
    <2>1. request[r].phase = from
        BY <1>d, GoesRow
    <2>2. PICK row : Writes(r, row) /\ Onward(r, row, to)
        BY <1>d, GoesRow
    <2>3. RowChecked(row)
        BY <1>b, <1>d, <2>1, <2>2
    <2> QED BY <1>d, <2>2, <2>3, CheckedKept
<1>e. ASSUME NEW phase \in Phases, NEW b \in Browsers, NEW old \in 0..MaxSessions,
             Writes(r, Begun(phase, b, old)), phase \notin WithState, LoginsKept,
             UNCHANGED <<link, lastLink>>
      PROVE  Checked'
    BY <1>a, <1>e, BegunRow, CheckedKept
<1>f. {"touch", "exchange", "revoke", "create", "logout", "clear"} \subseteq Phases
    BY DEF Phases
<1>g. UNCHANGED login => LoginsKept
    BY LoginUnchanged
<1>1. ASSUME NEW b \in Browsers, Visit(r, b) PROVE Checked'
    <2>1. PICK row \in RequestRows : Writes(r, row) /\ row.phase = "touch"
        BY <1>1, VisitRow
    <2>2. RowChecked(row)
        BY <1>a, <2>1 DEF WithState
    <2> QED BY <1>1, <1>g, <2>1, <2>2, CheckedKept DEF Visit, settings
<1>2. ASSUME NEW b \in Browsers, LocalLogin(r, b) PROVE Checked'
    <2>1. Writes(r, Begun("revoke", b, cookie[b])) /\ UNCHANGED <<link, lastLink, login>>
        BY <1>2, StartsRow DEF LocalLogin, settings
    <2> QED BY <1>e, <1>f, <1>g, <2>1, CookieType DEF WithState
<1>3. ASSUME NEW t \in States, GoogleCallback(r, t) PROVE Checked'
    <2>1. PICK row \in RequestRows :
             /\ Writes(r, row) /\ row.phase = "consume" /\ row.to = login[t].to
             /\ row.current = (login[t].to # 0 /\ login[t].to = link)
        BY <1>3, CallbackRow
    <2>2. RowChecked(row)
        BY <2>1 DEF RowChecked, Checked, LinkIsCurrent
    <2> QED BY <1>3, <1>g, <2>1, <2>2, CheckedKept DEF GoogleCallback, settings
<1>4. CASE Touch(r)
    BY <1>4, <1>c, <1>g DEF Touch, settings
<1>5. CASE ConsumeLoginState(r)
    BY <1>5, <1>d, <1>f, LoginConsumed DEF ConsumeLoginState, settings, WithState
<1>6. CASE Exchange(r)
    <2>1. PICK row : Writes(r, row) /\ Onward(r, row, "link")
        BY <1>6, ExchangeRow
    <2>2. RowChecked(row)
        BY <1>6, <1>b, <2>1, ExchangeRow DEF WithState
    <2> QED BY <1>6, <2>1, <2>2, LoginSpent, CheckedKept DEF Exchange, settings
<1>7. CASE CheckLink(r)
    <2>1. PICK row : /\ Writes(r, row) /\ Onward(r, row, "sign in")
                     /\ row.open = (SignupsEnabled \/ LinkIsCurrent(request[r].to))
        BY <1>7, CheckLinkRow
    <2>2. request[r].phase = "link"
        BY <1>7, CheckLinkRow
    <2>3. RowChecked(row)
        BY <2>1, <2>2 DEF RowChecked, Checked, Onward, WithState
    <2> QED BY <1>7, <1>g, <2>1, <2>3, CheckedKept DEF CheckLink, settings
<1>8. CASE SignInWith(r)
    <2>1. request[r].by \in Browsers /\ request[r].old \in 0..MaxSessions
          /\ UNCHANGED <<link, lastLink, login>>
        BY <1>8 DEF SignInWith, Attributed, TypeOK, RequestRows, settings
    <2>2. CASE StartsSession(r, request[r].by, request[r].old)
        <3>1. Writes(r, Begun("revoke", request[r].by, request[r].old))
            BY <2>2, StartsRow
        <3> QED BY <1>e, <1>f, <1>g, <2>1, <3>1 DEF WithState
    <2> QED BY <1>c, <1>g, <1>8, <2>1, <2>2 DEF SignInWith
<1>9. CASE RevokeOld(r)
    BY <1>9, <1>d, <1>f, <1>g DEF RevokeOld, settings, WithState
<1>10. CASE CreateSession(r)
    <2>1. PICK row : Writes(r, row) /\ Onward(r, row, "answer")
        BY <1>10, CreateRow
    <2>2. RowChecked(row)
        BY <1>a, <2>1 DEF WithState, Onward
    <2> QED BY <1>10, <1>g, <2>1, <2>2, CheckedKept DEF CreateSession, settings
<1>11. CASE Answer(r)
    BY <1>11, <1>c, <1>g DEF Answer, settings
<1>12. ASSUME NEW b \in Browsers, Logout(r, b) PROVE Checked'
    <2>1. Writes(r, Begun("logout", b, cookie[b])) /\ UNCHANGED <<link, lastLink, login>>
        BY <1>12, LogoutRow DEF Logout, settings
    <2> QED BY <1>e, <1>f, <1>g, <2>1, CookieType DEF WithState
<1>13. CASE EndSession(r)
    BY <1>13, <1>d, <1>f, <1>g DEF EndSession, settings, WithState
<1>14. CASE ClearCookie(r)
    BY <1>14, <1>c, <1>g DEF ClearCookie, settings
<1>15. CASE Fails(r)
    BY <1>15, <1>c, <1>g DEF Fails, settings
<1> QED BY <1>1, <1>2, <1>3, <1>4, <1>5, <1>6, <1>7, <1>8, <1>9, <1>10, <1>11, <1>12, <1>13,
           <1>14, <1>15
        DEF RequestSteps

LEMMA CheckedOthers ==
    ASSUME TypeOK, Checked, OtherSteps \/ UNCHANGED vars
    PROVE  Checked'
<1>0. lastLink \in Nat /\ link \in 0..lastLink
      /\ (\A t \in States : login[t].to \in Nat)
      /\ (\A r \in Requests : request[r].to \in Nat)
    BY BoundAssumption DEF TypeOK, LoginRows, RequestRows
<1>1. CASE UNCHANGED <<request, login, link, lastLink>>
    BY <1>1 DEF Checked, LinkIsCurrent
<1>2. ASSUME NEW b \in Browsers, NEW t \in States, NEW to \in {0} \cup Links,
             GoogleBegin(b, t, to)
      PROVE  Checked'
    <2> DEFINE row == [state |-> "pending", to |-> to, by |-> b, spent |-> FALSE]
    <2>1. /\ to <= lastLink /\ login' = [login EXCEPT ![t] = row]
          /\ UNCHANGED <<link, lastLink, request>>
        BY <1>2 DEF GoogleBegin, settings
    <2>2. ASSUME NEW u \in States PROVE login'[u].to <= lastLink'
        BY <2>1 DEF TypeOK, Checked
    <2> HIDE DEF row
    <2> QED BY <2>1, <2>2 DEF Checked, LinkIsCurrent
<1>3. ASSUME NEW t \in States, StateExpires(t) PROVE Checked'
    <2>1. UNCHANGED <<request, link, lastLink>> /\ LoginsKept
        BY <1>3, LoginConsumed DEF StateExpires, settings
    <2>2. ASSUME NEW u \in States PROVE login'[u].to <= lastLink'
        <3>1. login'[u].to \in {0, login[u].to} /\ login[u].to <= lastLink
            BY <2>1 DEF LoginsKept, Checked
        <3> QED BY <1>0, <2>1, <3>1
    <2> QED BY <2>1, <2>2 DEF Checked, LinkIsCurrent
<1>4. CASE NewSignupLink
    <2>1. link' = lastLink + 1 /\ lastLink' = lastLink + 1 /\ UNCHANGED <<request, login>>
        BY <1>4 DEF NewSignupLink
    <2>2. ASSUME NEW n \in Nat, n <= lastLink PROVE n <= lastLink' /\ n # link'
        BY <1>0, <2>1, <2>2
    <2>3. \A u \in States : login'[u].to <= lastLink'
        BY <1>0, <2>1, <2>2 DEF Checked
    <2> QED BY <1>0, <2>1, <2>2, <2>3 DEF Checked, LinkIsCurrent
<1>5. CASE DisableSignupLink
    <2>1. link' = 0 /\ UNCHANGED <<lastLink, request, login>>
        BY <1>5 DEF DisableSignupLink
    <2> QED BY <2>1 DEF Checked, LinkIsCurrent
<1> QED BY <1>1, <1>2, <1>3, <1>4, <1>5
        DEF OtherSteps, GoesUnseen, Expires, AllowSignup, DisallowSignup, CreateInvite,
            RevokeInvite, RemoveMember, vars, settings

-----------------------------------------------------------------------------
\* The sessions of a browser that are live are strays, or these.
LeftOnly(b, these) ==
    \A s \in Sessions : session[s].state = "live" /\ holder[s] = b => s \in strays \cup these

\* Two requests of a browser that replace its session overlap; one came with the
\* cookie that is still there; one that has revoked it leaves no other, and one
\* that made another leaves that.
Single ==
    /\ \A s \in Sessions : session[s].state = "live" => holder[s] \in Browsers
    /\ \A r, q \in Requests :
          /\ r # q /\ request[r].phase \in Replacing /\ request[q].phase \in Replacing
          /\ request[r].by = request[q].by
          => request[r].by \in overlapped
    /\ \A r \in Requests : request[r].phase \in Replacing /\ request[r].by \notin overlapped =>
          /\ cookie[request[r].by] = request[r].old
          /\ request[r].phase \in {"create", "clear"} => LeftOnly(request[r].by, {})
          /\ request[r].phase = "answer" => LeftOnly(request[r].by, {request[r].new})
    /\ \A r \in Requests : request[r].phase = "answer" =>
          /\ request[r].new \in Sessions /\ request[r].new <= lastSession
          /\ holder[request[r].new] = request[r].by
    /\ OneSessionPerBrowser

\* Nobody begins to replace a session, and no answer is forgotten.
Follows ==
    \A q \in Requests :
        /\ request'[q].phase \in Replacing =>
              /\ request[q].phase \in Replacing
              /\ request'[q].by = request[q].by /\ request'[q].old = request[q].old
              /\ request'[q].phase \in {"create", "clear", "answer"} => request'[q] = request[q]
        /\ request[q].phase = "answer" =>
              request'[q] = request[q] \/ request[q].new \in strays'

LEMMA RowFollows ==
    ASSUME NEW r \in Requests, NEW row, Writes(r, row),
           row.phase \in Replacing =>
              /\ request[r].phase \in Replacing
              /\ row.by = request[r].by /\ row.old = request[r].old
              /\ row.phase \notin {"create", "clear", "answer"},
           request[r].phase = "answer" => request[r].new \in strays'
    PROVE  Follows
<1> SUFFICES ASSUME NEW q \in Requests
             PROVE  /\ request'[q].phase \in Replacing =>
                          /\ request[q].phase \in Replacing
                          /\ request'[q].by = request[q].by /\ request'[q].old = request[q].old
                          /\ request'[q].phase \in {"create", "clear", "answer"} =>
                                request'[q] = request[q]
                    /\ request[q].phase = "answer" =>
                          request'[q] = request[q] \/ request[q].new \in strays'
    BY DEF Follows
<1>1. CASE q = r
    BY <1>1 DEF Writes
<1>2. CASE q # r
    BY <1>2 DEF Writes, OthersRest
<1> QED BY <1>1, <1>2

\* No session comes back, and no stray is found.
Fewer ==
    /\ \A s \in Sessions : session'[s].state = "live" => session[s].state = "live"
    /\ strays \subseteq strays'

LEMMA SingleKept ==
    ASSUME Single, Follows, Fewer, UNCHANGED <<holder, lastSession, cookie, overlapped>>
    PROVE  Single'
<1>1. \A s \in Sessions : session'[s].state = "live" => holder'[s] \in Browsers
    BY DEF Single, Fewer
<1>2. ASSUME NEW r \in Requests, NEW q \in Requests, r # q,
             request'[r].phase \in Replacing, request'[q].phase \in Replacing,
             request'[r].by = request'[q].by
      PROVE  request'[r].by \in overlapped'
    BY <1>2 DEF Single, Follows
<1>3. ASSUME NEW r \in Requests, request'[r].phase \in Replacing,
             request'[r].by \notin overlapped'
      PROVE  /\ cookie'[request'[r].by] = request'[r].old
             /\ request'[r].phase \in {"create", "clear"} => LeftOnly(request[r].by, {})'
             /\ request'[r].phase = "answer" => LeftOnly(request[r].by, {request[r].new})'
    <2>1. /\ request[r].phase \in Replacing /\ request[r].by \notin overlapped
          /\ request'[r].by = request[r].by /\ request'[r].old = request[r].old
          /\ request'[r].phase \in {"create", "clear", "answer"} => request'[r] = request[r]
        BY <1>3 DEF Follows
    <2>2. /\ cookie[request[r].by] = request[r].old
          /\ request[r].phase \in {"create", "clear"} => LeftOnly(request[r].by, {})
          /\ request[r].phase = "answer" => LeftOnly(request[r].by, {request[r].new})
        BY <2>1 DEF Single
    <2> QED BY <2>1, <2>2 DEF Fewer, LeftOnly
<1>4. ASSUME NEW r \in Requests, request'[r].phase = "answer"
      PROVE  /\ request'[r].new \in Sessions /\ request'[r].new <= lastSession'
             /\ holder'[request'[r].new] = request'[r].by
    BY <1>4 DEF Single, Follows, Replacing
<1>5. OneSessionPerBrowser'
    <2> SUFFICES ASSUME NEW s \in Sessions, session'[s].state = "live"
                 PROVE  \/ cookie'[holder'[s]] = s
                        \/ \E r \in Requests : request'[r].phase = "answer" /\ request'[r].new = s
                        \/ s \in strays' \/ holder'[s] \in overlapped'
        BY DEF OneSessionPerBrowser
    <2>1. session[s].state = "live" /\ strays \subseteq strays'
        BY DEF Fewer
    <2>2. \/ cookie[holder[s]] = s
          \/ \E r \in Requests : request[r].phase = "answer" /\ request[r].new = s
          \/ s \in strays \/ holder[s] \in overlapped
        BY <2>1 DEF Single, OneSessionPerBrowser
    <2>3. ASSUME NEW r \in Requests, request[r].phase = "answer", request[r].new = s
          PROVE  (request'[r].phase = "answer" /\ request'[r].new = s) \/ s \in strays'
        BY <2>3 DEF Follows
    <2> QED BY <2>1, <2>2, <2>3
<1>6. ASSUME NEW r \in Requests, request'[r].phase \in Replacing,
             request'[r].by \notin overlapped'
      PROVE  /\ request'[r].phase \in {"create", "clear"} => LeftOnly(request[r].by, {})'
             /\ request'[r].phase = "answer" => LeftOnly(request[r].by, {request[r].new})'
             /\ request'[r].by = request[r].by
             /\ request'[r].phase = "answer" => request'[r].new = request[r].new
    BY <1>3, <1>6 DEF Follows
<1> QED BY <1>1, <1>2, <1>3, <1>4, <1>5, <1>6 DEF Single, LeftOnly

\* A request that replaces its browser's session begins.
LEMMA SingleBegins ==
    ASSUME TypeOK, Single, NEW r \in Requests, NEW b \in Browsers, Overlaps(b),
           request[r].phase = "idle", NEW row, Writes(r, row), row.by = b, row.old = cookie[b],
           row.phase \notin {"create", "clear", "answer"},
           UNCHANGED <<session, holder, lastSession, cookie, strays>>
    PROVE  Single'
<1>1. overlapped \subseteq overlapped'
    BY DEF Overlaps
<1>2. \A q \in Requests : q # r => request'[q] = request[q]
    BY DEF Writes, OthersRest
<1>3. request'[r] = row
    BY DEF Writes
<1>4. ASSUME NEW q \in Requests, q # r, request'[q].phase \in Replacing, request'[q].by = b
      PROVE  b \in overlapped'
    <2>1. request[q].by = b /\ request[q].phase # "touch"
        BY <1>2, <1>4 DEF Replacing, WithState
    <2>2. q \in UnderWay(b)
        BY <2>1 DEF UnderWay
    <2> QED BY <2>2 DEF Overlaps
<1>5. ASSUME NEW q \in Requests, NEW p \in Requests, q # p,
             request'[q].phase \in Replacing, request'[p].phase \in Replacing,
             request'[q].by = request'[p].by
      PROVE  request'[q].by \in overlapped'
    <2>1. CASE q = r
        BY <1>3, <1>4, <1>5, <2>1
    <2>2. CASE p = r
        BY <1>3, <1>4, <1>5, <2>2
    <2>3. CASE q # r /\ p # r
        <3>1. request[q].by \in overlapped
            BY <1>2, <1>5, <2>3 DEF Single
        <3> QED BY <1>1, <1>2, <2>3, <3>1
    <2> QED BY <2>1, <2>2, <2>3
<1>6. ASSUME NEW q \in Requests, request'[q].phase \in Replacing,
             request'[q].by \notin overlapped'
      PROVE  /\ cookie'[request'[q].by] = request'[q].old
             /\ request'[q].phase \in {"create", "clear"} => LeftOnly(request'[q].by, {})
             /\ request'[q].phase = "answer" => LeftOnly(request'[q].by, {request'[q].new})
    <2>1. CASE q = r
        BY <1>3, <2>1
    <2>2. CASE q # r
        BY <1>1, <1>2, <1>6, <2>2 DEF Single
    <2> QED BY <2>1, <2>2
<1>7. ASSUME NEW q \in Requests, request'[q].phase = "answer"
      PROVE  /\ request'[q].new \in Sessions /\ request'[q].new <= lastSession'
             /\ holder'[request'[q].new] = request'[q].by
    <2>1. q # r
        BY <1>3, <1>7
    <2> QED BY <1>2, <1>7, <2>1 DEF Single
<1>8. OneSessionPerBrowser'
    <2> SUFFICES ASSUME NEW s \in Sessions, session[s].state = "live"
                 PROVE  \/ cookie[holder[s]] = s
                        \/ \E q \in Requests : request'[q].phase = "answer" /\ request'[q].new = s
                        \/ s \in strays \/ holder[s] \in overlapped'
        BY DEF OneSessionPerBrowser
    <2>1. ASSUME NEW q \in Requests, request[q].phase = "answer"
          PROVE  request'[q] = request[q]
        BY <1>2, <2>1
    <2>2. \/ cookie[holder[s]] = s
          \/ \E q \in Requests : request[q].phase = "answer" /\ request[q].new = s
          \/ s \in strays \/ holder[s] \in overlapped
        BY DEF Single, OneSessionPerBrowser
    <2> QED BY <1>1, <2>1, <2>2
<1>9. \A s \in Sessions : session'[s].state = "live" => holder'[s] \in Browsers
    BY DEF Single
<1> QED BY <1>5, <1>6, <1>7, <1>8, <1>9 DEF Single, LeftOnly

\* What RevokeSession leaves.
LEMMA Ending ==
    ASSUME TypeOK, NEW old, Revoke(old)
    PROVE  /\ Fewer
           /\ \A s \in Sessions : session'[s].state = "live" => s # old \/ s \in strays'
<1>1. Ended.state # "live"
    BY DEF Ended
<1>2. old \in Sessions /\ session[old].state = "live" => Valid(old)
    BY BoundAssumption DEF Valid, Sessions
<1>3. CASE Valid(old) /\ session' = [session EXCEPT ![old] = Ended] /\ UNCHANGED strays
    BY <1>1, <1>3 DEF Fewer, TypeOK
<1>4. CASE Valid(old) /\ strays' = strays \cup {old} /\ UNCHANGED session
    BY <1>4 DEF Fewer
<1>5. CASE ~Valid(old) /\ UNCHANGED <<session, strays>>
    BY <1>2, <1>5 DEF Fewer
<1> QED BY <1>3, <1>4, <1>5 DEF Revoke

LEMMA SingleRevokes ==
    ASSUME TypeOK, Single, NEW r \in Requests, NEW from \in {"revoke", "logout"},
           NEW to \in {"create", "clear"}, Goes(r, from, to), Revoke(request[r].old),
           UNCHANGED <<holder, lastSession, cookie, overlapped>>
    PROVE  Single'
<1>0. to \in Phases
    BY DEF Phases
<1>1. PICK row : Writes(r, row) /\ Onward(r, row, to)
    BY <1>0, GoesRow
<1>2. request[r].phase = from
    BY <1>0, GoesRow
<1>3. /\ request'[r].phase = to /\ request'[r].by = request[r].by
      /\ request'[r].old = request[r].old
      /\ \A q \in Requests : q # r => request'[q] = request[q]
    BY <1>1 DEF Writes, OthersRest, Onward
<1>4. /\ \A s \in Sessions : session'[s].state = "live" => session[s].state = "live"
      /\ strays \subseteq strays'
      /\ \A s \in Sessions : session'[s].state = "live" => s # request[r].old \/ s \in strays'
    BY Ending DEF Fewer
<1>5. ASSUME NEW q \in Requests, NEW p \in Requests, q # p,
             request'[q].phase \in Replacing, request'[p].phase \in Replacing,
             request'[q].by = request'[p].by
      PROVE  request'[q].by \in overlapped'
    <2>1. /\ request[q].phase \in Replacing /\ request[p].phase \in Replacing
          /\ request'[q].by = request[q].by /\ request'[p].by = request[p].by
        BY <1>2, <1>3, <1>5 DEF Replacing
    <2> QED BY <1>5, <2>1 DEF Single
<1>6. ASSUME NEW s \in Sessions, session'[s].state = "live", holder[s] = request[r].by,
             request[r].by \notin overlapped
      PROVE  s \in strays'
    <2>1. session[s].state = "live" /\ request[r].phase \in Replacing
        BY <1>2, <1>4, <1>6 DEF Replacing
    <2>2. CASE cookie[holder[s]] = s
        BY <1>4, <1>6, <2>1, <2>2 DEF Single
    <2>3. ASSUME NEW q \in Requests, request[q].phase = "answer", request[q].new = s
          PROVE  FALSE
        <3>1. request[q].by = request[r].by /\ q # r
            BY <1>2, <1>6, <2>3 DEF Single
        <3>2. request[q].phase \in Replacing
            BY <2>3 DEF Replacing
        <3> QED BY <1>6, <2>1, <3>1, <3>2 DEF Single
    <2>4. CASE s \in strays
        BY <1>4, <2>4
    <2> QED BY <1>6, <2>1, <2>2, <2>3, <2>4 DEF Single, OneSessionPerBrowser
<1>7. ASSUME NEW q \in Requests, request'[q].phase \in Replacing,
             request'[q].by \notin overlapped'
      PROVE  /\ cookie'[request'[q].by] = request'[q].old
             /\ request'[q].phase \in {"create", "clear"} =>
                   \A s \in Sessions : session'[s].state = "live" /\ holder[s] = request'[q].by =>
                       s \in strays'
             /\ request'[q].phase = "answer" =>
                   \A s \in Sessions : session'[s].state = "live" /\ holder[s] = request'[q].by =>
                       s \in strays' \cup {request'[q].new}
    <2>1. CASE q = r
        BY <1>2, <1>3, <1>6, <1>7, <2>1 DEF Single, Replacing
    <2>2. CASE q # r
        <3>1. /\ cookie[request[q].by] = request[q].old
              /\ request[q].phase \in {"create", "clear"} => LeftOnly(request[q].by, {})
              /\ request[q].phase = "answer" => LeftOnly(request[q].by, {request[q].new})
              /\ request'[q] = request[q]
            BY <1>3, <1>7, <2>2 DEF Single
        <3> QED BY <1>4, <3>1 DEF LeftOnly
    <2> QED BY <2>1, <2>2
<1>8. ASSUME NEW q \in Requests, request'[q].phase = "answer"
      PROVE  /\ request'[q].new \in Sessions /\ request'[q].new <= lastSession'
             /\ holder'[request'[q].new] = request'[q].by
    <2>1. q # r
        BY <1>3, <1>8
    <2> QED BY <1>3, <1>8, <2>1 DEF Single
<1>9. OneSessionPerBrowser'
    <2> SUFFICES ASSUME NEW s \in Sessions, session'[s].state = "live"
                 PROVE  \/ cookie[holder[s]] = s
                        \/ \E q \in Requests : request'[q].phase = "answer" /\ request'[q].new = s
                        \/ s \in strays' \/ holder[s] \in overlapped
        BY DEF OneSessionPerBrowser
    <2>1. ASSUME NEW q \in Requests, request[q].phase = "answer"
          PROVE  request'[q] = request[q]
        BY <1>2, <1>3, <2>1
    <2>2. \/ cookie[holder[s]] = s
          \/ \E q \in Requests : request[q].phase = "answer" /\ request[q].new = s
          \/ s \in strays \/ holder[s] \in overlapped
        BY <1>4 DEF Single, OneSessionPerBrowser
    <2> QED BY <1>4, <2>1, <2>2
<1>10. \A s \in Sessions : session'[s].state = "live" => holder'[s] \in Browsers
    BY <1>4 DEF Single
<1> QED BY <1>5, <1>7, <1>8, <1>9, <1>10 DEF Single, LeftOnly

LEMMA SingleCreates ==
    ASSUME TypeOK, Attributed, Single, NEW r \in Requests, CreateSession(r)
    PROVE  Single'
<1> DEFINE b == request[r].by
           n == lastSession'
<1>1. /\ request[r].phase = "create" /\ n = lastSession + 1 /\ n \in Sessions
      /\ lastSession \in Nat
    BY CreateRow DEF TypeOK
<1>2. PICK row : Writes(r, row) /\ Onward(r, row, "answer") /\ row.new = n
    BY CreateRow
<1>3. /\ request'[r].phase = "answer" /\ request'[r].by = b /\ request'[r].new = n
      /\ request'[r].old = request[r].old
      /\ \A q \in Requests : q # r => request'[q] = request[q]
    BY <1>2 DEF Writes, OthersRest, Onward
<1>4. b \in Browsers /\ UNCHANGED <<cookie, overlapped, strays>>
    BY <1>1 DEF CreateSession, Attributed, history
<1>5. /\ holder'[n] = b
      /\ \A s \in Sessions : s # n => session'[s] = session[s] /\ holder'[s] = holder[s]
    BY <1>1 DEF CreateSession, TypeOK
<1> HIDE DEF n, b
<1>6. ASSUME NEW q \in Requests, NEW p \in Requests, q # p,
             request'[q].phase \in Replacing, request'[p].phase \in Replacing,
             request'[q].by = request'[p].by
      PROVE  request'[q].by \in overlapped'
    <2>1. /\ request[q].phase \in Replacing /\ request[p].phase \in Replacing
          /\ request'[q].by = request[q].by /\ request'[p].by = request[p].by
        BY <1>1, <1>3, <1>6 DEF Replacing, b
    <2> QED BY <1>4, <1>6, <2>1 DEF Single
<1>7. ASSUME NEW q \in Requests, q # r, request[q].phase \in Replacing,
             request[q].by \notin overlapped
      PROVE  request[q].by # b
    BY <1>1, <1>7 DEF Single, Replacing, b
<1>8. ASSUME NEW q \in Requests, q # r, request[q].phase = "answer"
      PROVE  request[q].new \in Sessions /\ request[q].new # n /\ request[q].new <= n
    <2>1. request[q].new \in Nat /\ request[q].new <= lastSession /\ request[q].new \in Sessions
        BY <1>8 DEF Single, Sessions
    <2> QED BY <1>1, <2>1
<1>9. ASSUME NEW q \in Requests, request'[q].phase \in Replacing,
             request'[q].by \notin overlapped
      PROVE  /\ cookie[request'[q].by] = request'[q].old
             /\ request'[q].phase \in {"create", "clear"} =>
                   \A s \in Sessions : session'[s].state = "live" /\ holder'[s] = request'[q].by =>
                       s \in strays
             /\ request'[q].phase = "answer" =>
                   \A s \in Sessions : session'[s].state = "live" /\ holder'[s] = request'[q].by =>
                       s \in strays \cup {request'[q].new}
    <2>1. CASE q = r
        <3>1. cookie[b] = request[r].old /\ LeftOnly(b, {})
            BY <1>1, <1>3, <1>9, <2>1 DEF Single, Replacing, b
        <3> QED BY <1>3, <1>5, <2>1, <3>1 DEF LeftOnly
    <2>2. CASE q # r
        <3>1. /\ cookie[request[q].by] = request[q].old
              /\ request[q].phase \in {"create", "clear"} => LeftOnly(request[q].by, {})
              /\ request[q].phase = "answer" => LeftOnly(request[q].by, {request[q].new})
              /\ request'[q] = request[q] /\ request[q].by # b
            BY <1>3, <1>7, <1>9, <2>2 DEF Single
        <3> QED BY <1>5, <3>1 DEF LeftOnly
    <2> QED BY <2>1, <2>2
<1>10. ASSUME NEW q \in Requests, request'[q].phase = "answer"
       PROVE  /\ request'[q].new \in Sessions /\ request'[q].new <= n
              /\ holder'[request'[q].new] = request'[q].by
    <2>1. CASE q = r
        BY <1>1, <1>3, <1>5, <2>1
    <2>2. CASE q # r
        BY <1>3, <1>5, <1>8, <1>10, <2>2 DEF Single
    <2> QED BY <2>1, <2>2
<1>11. ASSUME NEW s \in Sessions, session'[s].state = "live"
       PROVE  \/ cookie[holder'[s]] = s
              \/ \E q \in Requests : request'[q].phase = "answer" /\ request'[q].new = s
              \/ s \in strays \/ holder'[s] \in overlapped
    <2>1. CASE s = n
        BY <1>3, <2>1
    <2>2. CASE s # n
        <3>1. session[s].state = "live" /\ holder'[s] = holder[s]
            BY <1>5, <1>11, <2>2
        <3>2. \/ cookie[holder[s]] = s
              \/ \E q \in Requests : request[q].phase = "answer" /\ request[q].new = s
              \/ s \in strays \/ holder[s] \in overlapped
            BY <3>1 DEF Single, OneSessionPerBrowser
        <3>3. ASSUME NEW q \in Requests, request[q].phase = "answer" PROVE request'[q] = request[q]
            BY <1>1, <1>3, <3>3
        <3> QED BY <3>1, <3>2, <3>3
    <2> QED BY <2>1, <2>2
<1>12. ASSUME NEW s \in Sessions, session'[s].state = "live" PROVE holder'[s] \in Browsers
    <2>1. CASE s = n
        BY <1>4, <1>5, <2>1
    <2>2. CASE s # n
        BY <1>5, <1>12, <2>2 DEF Single
    <2> QED BY <2>1, <2>2
<1> QED BY <1>4, <1>6, <1>9, <1>10, <1>11, <1>12 DEF Single, LeftOnly, OneSessionPerBrowser, n

\* The response arrives: with the new cookie, or with none.
LEMMA SingleGives ==
    ASSUME TypeOK, Attributed, Single, NEW r \in Requests, Ends(r), NEW v,
           \/ request[r].phase = "answer" /\ v = request[r].new
           \/ request[r].phase = "clear",
           cookie' = [cookie EXCEPT ![request[r].by] = v],
           UNCHANGED <<session, holder, lastSession, overlapped, strays>>
    PROVE  Single'
<1> DEFINE b == request[r].by
<1>1. /\ request'[r].phase = "idle"
      /\ \A q \in Requests : q # r => request'[q] = request[q]
    BY EndsRow DEF Writes, OthersRest
<1>2. /\ request[r].phase \in Replacing /\ b \in Browsers
      /\ b \notin overlapped => LeftOnly(b, IF request[r].phase = "answer" THEN {v} ELSE {})
    BY DEF Single, Replacing, Attributed
<1>3. cookie'[b] = v /\ \A c \in Browsers : c # b => cookie'[c] = cookie[c]
    BY <1>2 DEF TypeOK
<1> HIDE DEF b
<1>4. ASSUME NEW q \in Requests, request'[q].phase \in Replacing
      PROVE  /\ q # r /\ request'[q] = request[q] /\ request[q].by \in Browsers
             /\ request[q].by = b => b \in overlapped
    <2>1. q # r /\ request'[q] = request[q]
        BY <1>1, <1>4 DEF Replacing, WithState
    <2>2. request[q].phase # "idle"
        BY <1>4, <2>1 DEF Replacing, WithState
    <2> QED BY <1>2, <1>4, <2>1, <2>2 DEF Single, Attributed, b
<1>5. ASSUME NEW q \in Requests, NEW p \in Requests, q # p,
             request'[q].phase \in Replacing, request'[p].phase \in Replacing,
             request'[q].by = request'[p].by
      PROVE  request'[q].by \in overlapped'
    BY <1>4, <1>5 DEF Single
<1>6. ASSUME NEW q \in Requests, request'[q].phase \in Replacing,
             request'[q].by \notin overlapped'
      PROVE  /\ cookie'[request'[q].by] = request'[q].old
             /\ request'[q].phase \in {"create", "clear"} => LeftOnly(request'[q].by, {})
             /\ request'[q].phase = "answer" => LeftOnly(request'[q].by, {request'[q].new})
    <2>1. /\ q # r /\ request'[q] = request[q] /\ request[q].by \in Browsers
          /\ request[q].by # b
        BY <1>4, <1>6
    <2>2. /\ cookie[request[q].by] = request[q].old
          /\ request[q].phase \in {"create", "clear"} => LeftOnly(request[q].by, {})
          /\ request[q].phase = "answer" => LeftOnly(request[q].by, {request[q].new})
        BY <1>6, <2>1 DEF Single
    <2> QED BY <1>3, <2>1, <2>2
<1>7. ASSUME NEW q \in Requests, request'[q].phase = "answer"
      PROVE  /\ request'[q].new \in Sessions /\ request'[q].new <= lastSession'
             /\ holder'[request'[q].new] = request'[q].by
    BY <1>1, <1>7 DEF Single
<1>8. ASSUME NEW s \in Sessions, session[s].state = "live"
      PROVE  \/ cookie'[holder[s]] = s
             \/ \E q \in Requests : request'[q].phase = "answer" /\ request'[q].new = s
             \/ s \in strays \/ holder[s] \in overlapped
    <2>1. \/ cookie[holder[s]] = s
          \/ \E q \in Requests : request[q].phase = "answer" /\ request[q].new = s
          \/ s \in strays \/ holder[s] \in overlapped
        BY <1>8 DEF Single, OneSessionPerBrowser
    <2>2. CASE holder[s] = b
        BY <1>2, <1>3, <1>8, <2>2 DEF LeftOnly
    <2>3. CASE holder[s] # b
        <3>1. cookie'[holder[s]] = cookie[holder[s]]
            BY <1>3, <1>8, <2>3 DEF Single
        <3>2. ASSUME NEW q \in Requests, request[q].phase = "answer", request[q].new = s
              PROVE  request'[q] = request[q]
            BY <1>1, <2>3, <3>2 DEF Single, b
        <3> QED BY <2>1, <3>1, <3>2
    <2> QED BY <2>2, <2>3
<1>9. \A s \in Sessions : session'[s].state = "live" => holder'[s] \in Browsers
    BY DEF Single
<1> QED BY <1>5, <1>6, <1>7, <1>8, <1>9 DEF Single, LeftOnly, OneSessionPerBrowser

LEMMA SingleRequest ==
    ASSUME TypeOK, Attributed, Single, NEW r \in Requests, RequestSteps(r)
    PROVE  Single'
<1>a. UNCHANGED <<session, strays>> => Fewer
    BY DEF Fewer
<1>b. ASSUME NEW row, Writes(r, row), NEW to, Onward(r, row, to),
             to \in WithState, request[r].phase \in WithState
      PROVE  Follows
    <2>1. row.phase = to /\ row.by = request[r].by /\ row.old = request[r].old
        BY <1>b DEF Onward
    <2> QED BY <1>b, <2>1, RowFollows DEF WithState, Replacing
<1>c. ASSUME Ends(r), request[r].phase = "answer" => request[r].new \in strays'
      PROVE  Follows
    BY <1>c, EndsRow, RowFollows DEF Replacing, WithState
<1>d. {"touch", "consume", "exchange", "revoke", "create", "logout", "clear"} \subseteq Phases
    BY DEF Phases
<1>1. ASSUME NEW b \in Browsers, Visit(r, b) PROVE Single'
    <2>1. PICK row \in RequestRows : Writes(r, row) /\ row.phase = "touch"
        BY <1>1, VisitRow
    <2>2. Follows
        BY <1>1, <2>1, RowFollows DEF Visit, Replacing, WithState
    <2> QED BY <1>1, <1>a, <2>2, SingleKept DEF Visit, rows, history
<1>2. ASSUME NEW b \in Browsers, LocalLogin(r, b) PROVE Single'
    <2> DEFINE row == Begun("revoke", b, cookie[b])
    <2>1. row.phase = "revoke" /\ row.by = b /\ row.old = cookie[b]
        BY <1>d, BegunRow, CookieType
    <2>2. Writes(r, row) /\ Overlaps(b) /\ request[r].phase = "idle"
        BY <1>2, StartsRow DEF LocalLogin
    <2> HIDE DEF row
    <2> QED BY <1>2, <2>1, <2>2, SingleBegins DEF LocalLogin, rows
<1>3. ASSUME NEW t \in States, GoogleCallback(r, t) PROVE Single'
    <2> DEFINE b == login[t].by
    <2>1. PICK row \in RequestRows : /\ Writes(r, row) /\ row.phase = "consume" /\ row.by = b
                                    /\ row.old = cookie[b]
        BY <1>3, CallbackRow
    <2>2. b \in Browsers /\ Overlaps(b) /\ request[r].phase = "idle"
        BY <1>3, CallbackRow DEF GoogleCallback
    <2> HIDE DEF b
    <2> QED BY <1>3, <2>1, <2>2, SingleBegins DEF GoogleCallback, rows
<1>4. CASE Touch(r)
    <2>1. session' = [session EXCEPT ![request[r].old] = LastSeen(r)] /\ Ends(r)
          /\ request[r].phase = "touch" /\ UNCHANGED strays
        BY <1>4 DEF Touch, history
    <2>2. request[r].old \in Sessions => LastSeen(r).state = session[request[r].old].state
        BY DEF LastSeen, TypeOK, SessionRows
    <2>3. Fewer
        BY <2>1, <2>2 DEF Fewer, TypeOK
    <2>4. Follows
        BY <1>c, <2>1
    <2> QED BY <1>4, <2>3, <2>4, SingleKept DEF Touch, history
<1>5. CASE ConsumeLoginState(r)
    <2>1. Follows
        BY <1>5, <1>b, <1>d, GoesRow DEF ConsumeLoginState, WithState
    <2> QED BY <1>5, <1>a, <2>1, SingleKept DEF ConsumeLoginState, rows, history
<1>6. CASE Exchange(r)
    <2>1. Follows
        BY <1>6, <1>b, ExchangeRow DEF WithState
    <2> QED BY <1>6, <1>a, <2>1, SingleKept DEF Exchange, rows, history
<1>7. CASE CheckLink(r)
    <2>1. Follows
        BY <1>7, <1>b, CheckLinkRow DEF WithState
    <2> QED BY <1>7, <1>a, <2>1, SingleKept DEF CheckLink, rows, history
<1>8. CASE SignInWith(r)
    <2>1. /\ request[r].by \in Browsers /\ request[r].old \in 0..MaxSessions
          /\ request[r].phase = "sign in"
        BY <1>8 DEF SignInWith, Attributed, TypeOK, RequestRows
    <2>2. CASE StartsSession(r, request[r].by, request[r].old)
        <3> DEFINE row == Begun("revoke", request[r].by, request[r].old)
        <3>1. row.phase = "revoke" /\ row.by = request[r].by /\ row.old = request[r].old
            BY DEF Begun, Idle
        <3>2. Writes(r, row)
            BY <2>2, StartsRow
        <3> HIDE DEF row
        <3>3. Follows
            BY <2>1, <3>1, <3>2, RowFollows DEF Replacing, WithState
        <3> QED BY <1>8, <1>a, <3>3, SingleKept DEF SignInWith, rows, history
    <2>3. CASE Ends(r)
        <3>1. Follows
            BY <1>c, <2>1, <2>3
        <3> QED BY <1>8, <1>a, <3>1, SingleKept DEF SignInWith, rows, history
    <2> QED BY <1>8, <2>2, <2>3 DEF SignInWith
<1>9. CASE RevokeOld(r)
    BY <1>9, SingleRevokes DEF RevokeOld
<1>10. CASE CreateSession(r)
    BY <1>10, SingleCreates
<1>11. CASE Answer(r)
    BY <1>11, SingleGives DEF Answer, rows, history
<1>12. ASSUME NEW b \in Browsers, Logout(r, b) PROVE Single'
    <2> DEFINE row == Begun("logout", b, cookie[b])
    <2>1. row.phase = "logout" /\ row.by = b /\ row.old = cookie[b]
        BY <1>d, BegunRow, CookieType
    <2>2. Writes(r, row) /\ Overlaps(b) /\ request[r].phase = "idle"
        BY <1>12, LogoutRow DEF Logout
    <2> HIDE DEF row
    <2> QED BY <1>12, <2>1, <2>2, SingleBegins DEF Logout, rows
<1>13. CASE EndSession(r)
    BY <1>13, SingleRevokes DEF EndSession
<1>14. CASE ClearCookie(r)
    BY <1>14, SingleGives DEF ClearCookie, rows, history
<1>15. CASE Fails(r)
    <2>1. Follows
        BY <1>15, <1>c DEF Fails
    <2>2. Fewer
        BY <1>15 DEF Fails, Fewer, rows
    <2> QED BY <1>15, <2>1, <2>2, SingleKept DEF Fails, rows
<1> QED BY <1>1, <1>2, <1>3, <1>4, <1>5, <1>6, <1>7, <1>8, <1>9, <1>10, <1>11, <1>12, <1>13,
           <1>14, <1>15
        DEF RequestSteps

LEMMA SingleOthers ==
    ASSUME TypeOK, Single, OtherSteps \/ UNCHANGED vars
    PROVE  Single'
<1>1. ASSUME UNCHANGED request PROVE Follows
    BY <1>1 DEF Follows
<1>2. ASSUME NEW b \in Browsers, GoesUnseen(b) PROVE Single'
    <2>1. UNCHANGED <<holder, lastSession, cookie, request, overlapped, strays>>
          /\ session' = [session EXCEPT ![cookie[b]].idle = TRUE]
        BY <1>2 DEF GoesUnseen, history
    <2>2. Fewer
        BY <2>1 DEF Fewer, TypeOK, SessionRows
    <2> QED BY <1>1, <2>1, <2>2, SingleKept
<1>3. ASSUME NEW s \in Sessions, Expires(s) PROVE Single'
    <2>1. UNCHANGED <<holder, lastSession, cookie, request, overlapped, strays>>
        BY <1>3 DEF Expires, history
    <2>2. Fewer
        BY <1>3, <2>1 DEF Expires, Fewer, Ended, TypeOK, SessionRows
    <2> QED BY <1>1, <2>1, <2>2, SingleKept
<1>4. CASE UNCHANGED <<rows, cookie, request, history>>
    <2>1. Fewer
        BY <1>4 DEF rows, history, Fewer
    <2> QED BY <1>1, <1>4, <2>1, SingleKept DEF rows, history
<1> QED BY <1>2, <1>3, <1>4
        DEF OtherSteps, GoogleBegin, StateExpires, NewSignupLink, DisableSignupLink,
            AllowSignup, DisallowSignup, CreateInvite, RevokeInvite, RemoveMember, vars

-----------------------------------------------------------------------------
\* Whoever is a member has an account.
Placed == \A p \in People : member[p] # {} => p \in accounts

LEMMA PlacedStep ==
    ASSUME TypeOK, Placed, [Next]_vars
    PROVE  Placed'
<1>1. CASE UNCHANGED <<accounts, member>>
    BY <1>1 DEF Placed
<1>2. ASSUME NEW p \in People, NEW where \in Places, RemoveMember(p, where) PROVE Placed'
    BY <1>2 DEF RemoveMember, Placed, TypeOK
<1>3. ASSUME NEW r \in Requests, SignInWith(r) PROVE Placed'
    <2> DEFINE w == request[r].who
               places == MemberOnceIn(w, request[r].open \/ w \in allowed)
    <2>1. \/ accounts' = accounts \cup {w} /\ member' = [member EXCEPT ![w] = places]
          \/ UNCHANGED <<accounts, member>>
        BY <1>3 DEF SignInWith, people
    <2> HIDE DEF w, places
    <2> QED BY <2>1 DEF Placed, TypeOK
<1> QED BY <1>1, <1>2, <1>3
        DEF Next, Visit, LocalLogin, Logout, GoogleCallback, Touch, ConsumeLoginState,
            Exchange, CheckLink, RevokeOld, CreateSession, Answer, EndSession, ClearCookie,
            Fails, GoogleBegin, GoesUnseen, Expires, StateExpires, NewSignupLink,
            DisableSignupLink, AllowSignup, DisallowSignup, CreateInvite, RevokeInvite,
            people, vars

-----------------------------------------------------------------------------
\* The inductive invariant.
IInv == TypeOK /\ Attributed /\ Checked /\ Single /\ Placed

LEMMA InitHolds == Init => IInv
<1> SUFFICES ASSUME Init PROVE IInv
    OBVIOUS
<1>1. /\ \A r \in Requests : request[r].phase = "idle"
      /\ \A t \in States : login[t].state = "over" /\ login[t].to = 0
      /\ \A s \in Sessions : session[s].state = "none"
      /\ lastLink = 0
    BY DEF Init, Idle, NoLogin, NoSession
<1>2. Attributed
    BY <1>1 DEF Attributed
<1>3. Checked
    <2>1. ASSUME NEW t \in States PROVE login[t].to <= lastLink
        BY <1>1
    <2>2. ASSUME NEW r \in Requests PROVE request[r].phase \notin WithState
        BY <1>1 DEF WithState
    <2> QED BY <2>1, <2>2 DEF Checked
<1>4. Single
    BY <1>1 DEF Single, OneSessionPerBrowser, Replacing, WithState
<1>5. Placed
    BY DEF Init, Placed
<1> QED BY <1>2, <1>3, <1>4, <1>5, TypeInit DEF IInv

LEMMA StepHolds == IInv /\ [Next]_vars => IInv'
<1> SUFFICES ASSUME IInv, [Next]_vars PROVE IInv'
    OBVIOUS
<1>1. TypeOK /\ Attributed /\ Checked /\ Single /\ Placed
    BY DEF IInv
<1>2. TypeOK'
    BY <1>1, TypeStep
<1>3. Attributed'
    BY <1>1, StepsOfNext, AttributedRequest, AttributedOthers
<1>4. Checked'
    BY <1>1, StepsOfNext, CheckedRequest, CheckedOthers
<1>5. Single'
    BY <1>1, StepsOfNext, SingleRequest, SingleOthers
<1>6. Placed'
    BY <1>1, PlacedStep
<1> QED BY <1>2, <1>3, <1>4, <1>5, <1>6 DEF IInv

\* The invariant holds however sign-ins, requests, sign-outs and their failures
\* interleave.
THEOREM InvariantHolds == Spec => []IInv
BY InitHolds, StepHolds, PTL DEF Spec

\* Rows, cookies and the statements of handlers keep their types.
THEOREM TypeCorrect == Spec => []TypeOK
<1>1. IInv => TypeOK
    BY DEF IInv
<1> QED BY <1>1, InvariantHolds, PTL

\* A browser has one session at most (startSession), but for those that a failed
\* revocation, a lost response or two replacements at once have left it.
THEOREM OneSessionEach == Spec => []OneSessionPerBrowser
<1>1. IInv => OneSessionPerBrowser
    BY DEF IInv, Single
<1> QED BY <1>1, InvariantHolds, PTL

-----------------------------------------------------------------------------
\* What one step may do for those who come in.
Admits ==
    \A p \in People :
        /\ p \in accounts' \ accounts => MayOwn(p) \/ p \in invited
        /\ "own" \in member'[p] \ member[p] => MayOwn(p)

\* SignInWith alone makes accounts and sites, for the identity of its request.
LEMMA SignInAdmits ==
    ASSUME IInv, NEW r \in Requests, SignInWith(r)
    PROVE  Admits
<1> DEFINE w == request[r].who
           may == request[r].open \/ w \in allowed
<1>1. request[r].phase = "sign in" /\ w \in People /\ member \in [People -> SUBSET Places]
    BY DEF SignInWith, IInv, Attributed, TypeOK
<1>2. may => MayOwn(w)
    <2>1. request[r].open => SignupsEnabled \/ request[r].current
        BY <1>1 DEF IInv, Checked, WithState
    <2> QED BY <1>1, <2>1 DEF MayOwn
<1>3. /\ "own" \in MemberOnceIn(w, may) \ member[w] => may
      /\ MemberOnceIn(w, may) # {} /\ ~may => w \in invited \/ member[w] # {}
    BY DEF MemberOnceIn
<1>a. w \notin accounts => member[w] = {}
    BY <1>1 DEF IInv, Placed
<1>4. CASE UNCHANGED people
    BY <1>4 DEF people, Admits
<1>5. CASE /\ accounts' = accounts \cup {w} /\ member' = [member EXCEPT ![w] = MemberOnceIn(w, may)]
           /\ MemberOnceIn(w, may) # {}
    <2> HIDE DEF w, may
    <2>1. ASSUME NEW p \in People, p \in accounts' \ accounts
          PROVE  p = w /\ (MayOwn(w) \/ w \in invited)
        BY <1>2, <1>3, <1>5, <1>a, <2>1
    <2>2. ASSUME NEW p \in People, "own" \in member'[p] \ member[p]
          PROVE  MayOwn(p)
        <3>1. p = w /\ member'[w] = MemberOnceIn(w, may)
            BY <1>1, <1>5, <2>2
        <3> QED BY <1>2, <1>3, <2>2, <3>1
    <2> QED BY <2>1, <2>2 DEF Admits
<1> QED BY <1>4, <1>5 DEF SignInWith

LEMMA StepAdmits ==
    ASSUME IInv, Next
    PROVE  Admits
<1>1. CASE UNCHANGED people
    BY <1>1 DEF people, Admits
<1>2. CASE UNCHANGED <<accounts, member>>
    BY <1>2 DEF Admits
<1>3. ASSUME NEW p \in People, NEW where \in Places, RemoveMember(p, where) PROVE Admits
    <2>1. accounts' = accounts /\ member' = [member EXCEPT ![p] = member[p] \ {where}]
          /\ member \in [People -> SUBSET Places]
        BY <1>3 DEF RemoveMember, IInv, TypeOK
    <2>2. \A q \in People : member'[q] \subseteq member[q]
        BY <2>1
    <2> QED BY <2>1, <2>2 DEF Admits
<1>4. ASSUME NEW r \in Requests, SignInWith(r) PROVE Admits
    BY <1>4, SignInAdmits
<1> QED BY <1>1, <1>2, <1>3, <1>4
        DEF Next, Visit, LocalLogin, Logout, GoogleCallback, Touch, ConsumeLoginState,
            Exchange, CheckLink, RevokeOld, CreateSession, Answer, EndSession, ClearCookie,
            Fails, GoogleBegin, GoesUnseen, Expires, StateExpires, NewSignupLink,
            DisableSignupLink, AllowSignup, DisallowSignup, CreateInvite, RevokeInvite

\* A sign-up link replaced or turned off before the provider sent a visitor
\* back admits nobody (SignupLinkValid in finishSignIn), and an invitation
\* brings nobody a site of their own (SignInWith).
THEOREM OldLinks == Spec => OldLinksAdmitNobody
<1>1. IInv /\ [Next]_vars =>
          [\A p \in People :
              /\ p \in accounts' \ accounts => MayOwn(p) \/ p \in invited
              /\ "own" \in member'[p] \ member[p] => MayOwn(p)]_vars
    BY StepAdmits DEF Admits
<1> QED BY <1>1, InvariantHolds, PTL DEF Spec, OldLinksAdmitNobody

-----------------------------------------------------------------------------
\* The limiter.  A call is counted in a window; windows of a client do not
\* overlap, and the bucket holds the last one unless it is over.

Calling == [n : Nat, client : Clients, at : Nat, window : Nat, passed : BOOLEAN]
Buckets == [window : Nat, count : Nat]
Limiters == [bucket : [Clients -> Buckets], last : Nat, now : Nat, made : SUBSET Calling]

Beside(made, c, w) == {e \in made : e.client = c /\ e.window = w}
UpTo(made, e) == {f \in Beside(made, e.client, e.window) : f.n <= e.n}

BucketFits(b, made, c, now) ==
    /\ b.count = 0 => \A e \in made : e.client = c => e.window + Minute <= now
    /\ b.count # 0 =>
          /\ b.window <= now /\ b.count = Cardinality(Beside(made, c, b.window))
          /\ \A e \in made : e.client = c => e.window <= b.window

\* What holds of a limiter after k calls.
LimitInv(l, k) ==
    /\ l \in Limiters /\ IsFiniteSet(l.made)
    /\ \A e \in l.made :
          /\ e.n <= k /\ e.at <= l.now /\ e.window <= e.at /\ e.at < e.window + Minute
          /\ e.passed <=> Cardinality(UpTo(l.made, e)) <= PerMinute
    /\ \A e, f \in l.made :
          /\ e.n <= f.n => e.at <= f.at
          /\ e.client = f.client /\ e.window < f.window => e.window + Minute <= f.window
    /\ \A c \in Clients : BucketFits(l.bucket[c], l.made, c, l.now)
    /\ \A c \in Clients, w \in Nat :
          Cardinality({e \in Beside(l.made, c, w) : e.passed}) <= PerMinute

\* A sweep removes only windows that are over.
LEMMA SweptFits ==
    ASSUME NEW l \in Limiters, NEW now \in Nat, l.now <= now,
           \A c \in Clients : BucketFits(l.bucket[c], l.made, c, l.now),
           NEW s, s = Swept(l, now)
    PROVE  /\ s \in Limiters /\ s.made = l.made
           /\ \A c \in Clients : BucketFits(s.bucket[c], l.made, c, now)
<1>1. /\ l.bucket \in [Clients -> Buckets] /\ l.last \in Nat /\ l.now \in Nat
      /\ l.made \in SUBSET Calling
    BY DEF Limiters
<1>2. Minute \in Nat
    BY LimitAssumption DEF LimitAssumption
<1>3. \A e \in l.made : e.window \in Nat
    BY <1>1 DEF Calling
<1>4. ASSUME NEW c \in Clients
      PROVE  /\ BucketFits(l.bucket[c], l.made, c, now)
             /\ now - l.bucket[c].window > Minute => BucketFits(NoBucket, l.made, c, now)
    <2>1. l.bucket[c].window \in Nat /\ l.bucket[c].count \in Nat
        BY <1>1 DEF Buckets
    <2>2. BucketFits(l.bucket[c], l.made, c, l.now)
        OBVIOUS
    <2>3. BucketFits(l.bucket[c], l.made, c, now)
        BY <1>1, <1>2, <1>3, <2>1, <2>2 DEF BucketFits
    <2>4. ASSUME now - l.bucket[c].window > Minute, NEW e \in l.made, e.client = c
          PROVE  e.window + Minute <= now
        BY <1>1, <1>2, <1>3, <2>1, <2>3, <2>4 DEF BucketFits
    <2> QED BY <2>3, <2>4 DEF BucketFits, NoBucket
<1>5. CASE now - l.last > Sweep
    <2> DEFINE B == [c \in Clients |-> IF now - l.bucket[c].window > Minute THEN NoBucket
                                       ELSE l.bucket[c]]
    <2>1. s = [l EXCEPT !.bucket = B, !.last = now]
        BY <1>5 DEF Swept
    <2>2. B \in [Clients -> Buckets]
        BY <1>1 DEF NoBucket, Buckets
    <2>3. \A c \in Clients : BucketFits(B[c], l.made, c, now)
        BY <1>4
    <2> HIDE DEF B
    <2>4. s.bucket = B /\ s.made = l.made /\ s \in Limiters
        BY <2>1, <2>2 DEF Limiters
    <2> QED BY <2>3, <2>4
<1>6. CASE ~(now - l.last > Sweep)
    BY <1>4, <1>6 DEF Swept
<1> QED BY <1>5, <1>6

\* What a call does to the limiter, field by field.
LEMMA AllowFields ==
    ASSUME NEW l \in Limiters, NEW n \in Nat,
           NEW call, call.client \in Clients, call.pause \in Nat,
           NEW now, now = l.now + call.pause, NEW s, s = Swept(l, now), s \in Limiters,
           NEW b, b = Counted(s.bucket[call.client], now),
           NEW e, e = [n |-> n, client |-> call.client, at |-> now, window |-> b.window,
                       passed |-> b.count <= PerMinute]
    PROVE  /\ b \in Buckets /\ e \in Calling
           /\ e.n = n /\ e.client = call.client /\ e.at = now /\ e.window = b.window
           /\ e.passed <=> b.count <= PerMinute
           /\ Allow(l, n, call) \in Limiters
           /\ Allow(l, n, call).now = now /\ Allow(l, n, call).made = l.made \cup {e}
           /\ Allow(l, n, call).bucket = [s.bucket EXCEPT ![call.client] = b]
<1>1. now \in Nat
    BY DEF Limiters
<1>2. b \in Buckets
    BY <1>1 DEF Limiters, Buckets, Counted
<1>3. PICK p \in BOOLEAN : p = (b.count <= PerMinute)
    <2>1. (b.count <= PerMinute) \in BOOLEAN
        OBVIOUS
    <2> QED BY <2>1, Zenon
<1>4. e = [n |-> n, client |-> call.client, at |-> now, window |-> b.window, passed |-> p]
    BY <1>3
<1>5. /\ e \in Calling /\ e.n = n /\ e.client = call.client /\ e.at = now
      /\ e.window = b.window /\ e.passed = p
    BY <1>1, <1>2, <1>4 DEF Calling, Buckets
<1>6. PICK m : m = Allow(l, n, call)
    OBVIOUS
<1>7. m = [s EXCEPT !.bucket[call.client] = b, !.now = now, !.made = l.made \cup {e}]
    BY <1>6 DEF Allow
<1>8. PICK B : B = [s.bucket EXCEPT ![call.client] = b]
    OBVIOUS
<1>9. B \in [Clients -> Buckets]
    BY <1>2, <1>8 DEF Limiters
<1>10. m = [s EXCEPT !.bucket = B, !.now = now, !.made = l.made \cup {e}]
    BY <1>7, <1>8
<1>11. l.made \cup {e} \in SUBSET Calling
    BY <1>5 DEF Limiters
<1>12. m \in Limiters /\ m.now = now /\ m.made = l.made \cup {e} /\ m.bucket = B
    <2>1. PICK M \in SUBSET Calling : M = l.made \cup {e}
        BY <1>11
    <2>2. m = [s EXCEPT !.bucket = B, !.now = now, !.made = M]
        BY <1>10, <2>1
    <2>3. m = [bucket |-> B, last |-> s.last, now |-> now, made |-> M] /\ s.last \in Nat
        BY <2>2 DEF Limiters
    <2> QED BY <1>1, <1>9, <2>1, <2>3 DEF Limiters
<1> QED BY <1>2, <1>3, <1>5, <1>6, <1>8, <1>12

\* Where a call is counted: in the window of the bucket, which is not over, or
\* in a new one, after every window of the client.
LEMMA CountedNext ==
    ASSUME NEW l, NEW k, LimitInv(l, k), NEW c \in Clients, NEW now \in Nat, l.now <= now,
           NEW b0 \in Buckets, BucketFits(b0, l.made, c, now), NEW b, b = Counted(b0, now)
    PROVE  /\ b.window \in Nat /\ b.count \in Nat \ {0}
           /\ b.window <= now /\ now < b.window + Minute
           /\ \A e \in l.made : e.client = c =>
                e.window = b.window \/ e.window + Minute <= b.window
           /\ b.count = Cardinality(Beside(l.made, c, b.window)) + 1
<1>1. b0.window \in Nat /\ b0.count \in Nat
    BY DEF Buckets
<1>2. Minute \in Nat /\ Minute > 0
    BY LimitAssumption DEF LimitAssumption
<1>3. /\ \A e \in l.made : e.window \in Nat
      /\ \A e, f \in l.made : e.client = f.client /\ e.window < f.window =>
            e.window + Minute <= f.window
    BY DEF LimitInv, Limiters, Calling
<1>4. CASE b0.count = 0 \/ now - b0.window >= Minute
    <2>1. b = [window |-> now, count |-> 1]
        BY <1>4 DEF Counted
    <2>2. \A e \in l.made : e.client = c => e.window + Minute <= now
        BY <1>1, <1>2, <1>3, <1>4 DEF BucketFits
    <2>3. Beside(l.made, c, now) = {}
        <3>1. ASSUME NEW e \in l.made, e.client = c PROVE e.window # now
            BY <1>2, <1>3, <2>2, <3>1
        <3> QED BY <3>1 DEF Beside
    <2>4. Cardinality(Beside(l.made, c, now)) = 0
        BY <2>3, FS_EmptySet
    <2> QED BY <1>2, <2>1, <2>2, <2>4
<1>5. CASE b0.count # 0 /\ ~(now - b0.window >= Minute)
    <2>1. b = [b0 EXCEPT !.count = b0.count + 1]
        BY <1>5 DEF Counted
    <2>2. b.window = b0.window /\ b.count = b0.count + 1
        BY <2>1 DEF Buckets
    <2>3. /\ b0.window <= now /\ b0.count = Cardinality(Beside(l.made, c, b0.window))
          /\ \A e \in l.made : e.client = c => e.window <= b0.window
        BY <1>5 DEF BucketFits
    <2>4. Beside(l.made, c, b0.window) # {}
        <3>1. Beside(l.made, c, b0.window) = {} => Cardinality(Beside(l.made, c, b0.window)) = 0
            BY FS_EmptySet
        <3> QED BY <1>5, <2>3, <3>1
    <2>5. PICK g \in l.made : g.client = c /\ g.window = b0.window
        BY <2>4 DEF Beside
    <2>6. ASSUME NEW e \in l.made, e.client = c, e.window # b0.window
          PROVE  e.window + Minute <= b0.window
        <3>1. e.window < b0.window
            BY <1>1, <1>3, <2>3, <2>6
        <3> QED BY <1>3, <2>5, <2>6, <3>1
    <2>7. now < b0.window + Minute
        BY <1>1, <1>2, <1>5
    <2> QED BY <1>1, <2>2, <2>3, <2>6, <2>7
<1> QED BY <1>4, <1>5

LEMMA LimitStep ==
    ASSUME NEW l, NEW k \in Nat, LimitInv(l, k),
           NEW call, call.client \in Clients, call.pause \in Nat
    PROVE  LimitInv(Allow(l, k + 1, call), k + 1)
<1> DEFINE c == call.client
<1>1. /\ l \in Limiters /\ IsFiniteSet(l.made) /\ l.now \in Nat
      /\ l.made \in SUBSET Calling
    BY DEF LimitInv, Limiters
<1>2. PICK now \in Nat : now = l.now + call.pause /\ l.now <= now
    BY <1>1
<1>3. PICK s : s = Swept(l, now)
    OBVIOUS
<1>4. /\ s \in Limiters /\ s.made = l.made
      /\ \A d \in Clients : BucketFits(s.bucket[d], l.made, d, now)
    BY <1>1, <1>2, <1>3, SweptFits DEF LimitInv
<1>5. PICK b : b = Counted(s.bucket[c], now)
    OBVIOUS
<1>6. PICK e : e = [n |-> k + 1, client |-> c, at |-> now, window |-> b.window,
                    passed |-> b.count <= PerMinute]
    OBVIOUS
<1>7. PICK m : m = Allow(l, k + 1, call)
    OBVIOUS
<1>8. /\ b \in Buckets /\ e \in Calling
      /\ e.n = k + 1 /\ e.client = c /\ e.at = now /\ e.window = b.window
      /\ e.passed <=> b.count <= PerMinute
      /\ m \in Limiters /\ m.now = now /\ m.made = l.made \cup {e}
      /\ m.bucket = [s.bucket EXCEPT ![c] = b]
    BY <1>1, <1>2, <1>3, <1>4, <1>5, <1>6, <1>7, AllowFields
<1>9. /\ b.window \in Nat /\ b.count \in Nat \ {0}
      /\ b.window <= now /\ now < b.window + Minute
      /\ \A f \in l.made : f.client = c => f.window = b.window \/ f.window + Minute <= b.window
      /\ b.count = Cardinality(Beside(l.made, c, b.window)) + 1
    <2>1. s.bucket[c] \in Buckets /\ BucketFits(s.bucket[c], l.made, c, now)
        BY <1>4 DEF Limiters
    <2> HIDE DEF c
    <2>2. c \in Clients
        BY DEF c
    <2> QED BY <1>2, <1>5, <2>1, <2>2, CountedNext
<1>a. /\ \A f \in l.made : /\ f \in Calling /\ f.n \in Nat /\ f.at \in Nat /\ f.window \in Nat
                           /\ f.n <= k /\ f.at <= l.now
                           /\ f.window <= f.at /\ f.at < f.window + Minute
                           /\ f.passed <=> Cardinality(UpTo(l.made, f)) <= PerMinute
      /\ Minute \in Nat /\ PerMinute \in Nat
    BY <1>1, LimitAssumption DEF LimitInv, Calling, LimitAssumption
<1> HIDE DEF c
<1>b. c \in Clients
    BY DEF c
<1>c. e \notin l.made
    BY <1>8, <1>a
<1>d. Beside(m.made, c, b.window) = Beside(l.made, c, b.window) \cup {e}
    BY <1>8 DEF Beside
<1>e. \A d, w : d # c \/ w # b.window => Beside(m.made, d, w) = Beside(l.made, d, w)
    BY <1>8 DEF Beside
<1>f. \A d, w : IsFiniteSet(Beside(l.made, d, w)) /\ Beside(l.made, d, w) \subseteq l.made
    BY <1>1, FS_Subset DEF Beside
<1>g. Cardinality(Beside(m.made, c, b.window)) = b.count
    <2>1. e \notin Beside(l.made, c, b.window)
        BY <1>c, <1>f
    <2>2. Cardinality(Beside(l.made, c, b.window) \cup {e}) =
            Cardinality(Beside(l.made, c, b.window)) + 1
        BY <1>f, <2>1, FS_AddElement
    <2> QED BY <1>9, <1>d, <2>2
<1>h. IsFiniteSet(m.made)
    BY <1>1, <1>8, FS_AddElement
\* Each call, by its rank in its window.
<1>10. ASSUME NEW f \in m.made
       PROVE  /\ f.n <= k + 1 /\ f.at <= m.now /\ f.window <= f.at /\ f.at < f.window + Minute
              /\ f.passed <=> Cardinality(UpTo(m.made, f)) <= PerMinute
    <2>1. CASE f = e
        <3>1. UpTo(m.made, e) = Beside(m.made, c, b.window)
            <4>1. \A g \in m.made : g.n <= k + 1
                BY <1>8, <1>a
            <4> QED BY <1>8, <4>1 DEF UpTo, Beside
        <3> QED BY <1>8, <1>9, <1>g, <2>1, <3>1
    <2>2. CASE f \in l.made
        <3>1. UpTo(m.made, f) = UpTo(l.made, f)
            <4>1. ~(e.n <= f.n)
                BY <1>8, <1>a, <2>2
            <4> QED BY <1>8, <4>1 DEF UpTo, Beside
        <3> QED BY <1>1, <1>2, <1>8, <1>a, <2>2, <3>1
    <2> QED BY <1>8, <2>1, <2>2
\* Two calls.
<1>11. ASSUME NEW f \in m.made, NEW g \in m.made
       PROVE  /\ f.n <= g.n => f.at <= g.at
              /\ f.client = g.client /\ f.window < g.window => f.window + Minute <= g.window
    <2>1. CASE f \in l.made /\ g \in l.made
        BY <2>1 DEF LimitInv
    <2>2. CASE f \in l.made /\ g = e
        BY <1>1, <1>2, <1>8, <1>9, <1>a, <2>2
    <2>3. CASE f = e /\ g \in l.made
        BY <1>8, <1>9, <1>a, <2>3
    <2>4. CASE f = e /\ g = e
        BY <1>2, <1>8, <1>9, <2>4
    <2> QED BY <1>8, <2>1, <2>2, <2>3, <2>4
<1>12. ASSUME NEW d \in Clients PROVE BucketFits(m.bucket[d], m.made, d, m.now)
    <2>1. CASE d = c
        <3>1. m.bucket[d] = b
            BY <1>4, <1>8, <1>b, <2>1 DEF Limiters
        <3>2. \A f \in m.made : f.client = c => f.window <= b.window
            BY <1>8, <1>9, <1>a
        <3> QED BY <1>8, <1>9, <1>g, <2>1, <3>1, <3>2 DEF BucketFits
    <2>2. CASE d # c
        <3>1. m.bucket[d] = s.bucket[d]
            BY <1>4, <1>8, <1>b, <2>2 DEF Limiters
        <3>2. Beside(m.made, d, s.bucket[d].window) = Beside(l.made, d, s.bucket[d].window)
            BY <1>e, <2>2
        <3>3. \A f \in m.made : f.client = d => f \in l.made
            BY <1>8, <2>2
        <3>4. BucketFits(s.bucket[d], l.made, d, now)
            BY <1>4
        <3> QED BY <1>8, <3>1, <3>2, <3>3, <3>4 DEF BucketFits
    <2> QED BY <2>1, <2>2
\* What passed in a window.
<1>13. ASSUME NEW d \in Clients, NEW w \in Nat
       PROVE  Cardinality({f \in Beside(m.made, d, w) : f.passed}) <= PerMinute
    <2>1. Cardinality({f \in Beside(l.made, d, w) : f.passed}) <= PerMinute
        BY DEF LimitInv
    <2>2. CASE d # c \/ w # b.window
        BY <1>e, <2>1, <2>2
    <2>3. CASE d = c /\ w = b.window /\ ~e.passed
        <3>1. {f \in Beside(m.made, d, w) : f.passed} = {f \in Beside(l.made, d, w) : f.passed}
            BY <1>d, <2>3
        <3> QED BY <2>1, <3>1
    <2>4. CASE d = c /\ w = b.window /\ e.passed
        <3> DEFINE P == {f \in Beside(m.made, d, w) : f.passed}
        <3>1. P \in SUBSET Beside(m.made, d, w) /\ IsFiniteSet(Beside(m.made, d, w))
            BY <1>d, <1>f, <2>4, FS_AddElement
        <3> HIDE DEF P
        <3>2. Cardinality(P) <= Cardinality(Beside(m.made, d, w)) /\ IsFiniteSet(P)
            BY <3>1, FS_Subset
        <3>3. Cardinality(P) \in Nat
            BY <3>2, FS_CardinalityType
        <3>4. Cardinality(P) <= PerMinute
            BY <1>8, <1>9, <1>a, <1>g, <2>4, <3>2, <3>3
        <3> QED BY <3>4 DEF P
    <2> QED BY <2>2, <2>3, <2>4
<1> QED BY <1>7, <1>8, <1>h, <1>10, <1>11, <1>12, <1>13 DEF LimitInv

\* At most two windows touch the minute that ends with a call.
LEMMA LimitsTwice ==
    ASSUME NEW l, NEW k, LimitInv(l, k) PROVE WithinTwiceTheLimit(l.made)
<1> SUFFICES ASSUME NEW e \in l.made
             PROVE  Cardinality({f \in Lately(l.made, e) : f.passed}) <= 2 * PerMinute
    BY DEF WithinTwiceTheLimit
<1> DEFINE Passed(w) == {f \in Beside(l.made, e.client, w) : f.passed}
           P == {f \in Lately(l.made, e) : f.passed}
<1>1. /\ IsFiniteSet(l.made) /\ l.made \in SUBSET Calling
      /\ PerMinute \in Nat /\ Minute \in Nat /\ Minute > 0
    BY LimitAssumption DEF LimitInv, Limiters, LimitAssumption
<1>2. /\ \A f \in l.made : f.n \in Nat /\ f.at \in Nat /\ f.window \in Nat /\ f.client \in Clients
      /\ \A f \in l.made : f.window <= f.at /\ f.at < f.window + Minute
      /\ \A f, g \in l.made :
            /\ f.n <= g.n => f.at <= g.at
            /\ f.client = g.client /\ f.window < g.window => f.window + Minute <= g.window
    BY <1>1 DEF LimitInv, Calling
<1>3. \A w \in Nat : IsFiniteSet(Passed(w)) /\ Cardinality(Passed(w)) <= PerMinute
    <2>1. ASSUME NEW w \in Nat PROVE IsFiniteSet(Passed(w))
        <3>1. Passed(w) \in SUBSET l.made
            BY DEF Beside
        <3> HIDE DEF Passed
        <3> QED BY <1>1, <3>1, FS_Subset
    <2>2. ASSUME NEW w \in Nat PROVE Cardinality(Passed(w)) <= PerMinute
        BY <1>2 DEF LimitInv
    <2> QED BY <2>1, <2>2
<1>4. ASSUME NEW f \in Lately(l.made, e), NEW g \in Lately(l.made, e),
             f.window # e.window, g.window # e.window
      PROVE  f.window = g.window
    <2>1. /\ f \in l.made /\ f.client = e.client /\ f.n <= e.n /\ e.at - f.at < Minute
          /\ g \in l.made /\ g.client = e.client /\ g.n <= e.n /\ e.at - g.at < Minute
        BY DEF Lately
    <2>2. f.at <= e.at /\ g.at <= e.at
        BY <1>2, <2>1
    <2>3. f.window < e.window /\ g.window < e.window
        <3>1. ~(e.window < f.window) /\ ~(e.window < g.window)
            BY <1>1, <1>2, <2>1, <2>2
        <3> QED BY <1>2, <1>4, <2>1, <3>1
    <2>4. f.window + Minute <= e.window /\ g.window + Minute <= e.window
        BY <1>2, <2>1, <2>3
    <2>5. ~(f.window < g.window) /\ ~(g.window < f.window)
        BY <1>1, <1>2, <2>1, <2>4
    <2> QED BY <1>2, <2>1, <2>5
<1>5. \A f \in P : f \in Passed(f.window)
    BY DEF Lately, Beside
<1>6. PICK w \in Nat : P \subseteq Passed(e.window) \cup Passed(w)
    <2>1. CASE \E f \in P : f.window # e.window
        <3>1. PICK f \in P : f.window # e.window
            BY <2>1
        <3>2. \A g \in P : g.window = e.window \/ g.window = f.window
            BY <1>4, <3>1
        <3>3. f.window \in Nat
            BY <1>2 DEF Lately
        <3> HIDE DEF P, Passed
        <3>4. P \subseteq Passed(e.window) \cup Passed(f.window)
            BY <1>5, <3>2
        <3> QED BY <3>3, <3>4
    <2>2. CASE ~ \E f \in P : f.window # e.window
        <3>1. \A g \in P : g.window = e.window
            BY <2>2
        <3> HIDE DEF P, Passed
        <3>2. P \subseteq Passed(e.window) \cup Passed(0)
            BY <1>5, <3>1
        <3> QED BY <3>2
    <2> QED BY <2>1, <2>2
<1>7. e.window \in Nat
    BY <1>2
<1> HIDE DEF P, Passed
<1>8. /\ IsFiniteSet(Passed(e.window)) /\ IsFiniteSet(Passed(w))
      /\ Cardinality(Passed(e.window)) <= PerMinute /\ Cardinality(Passed(w)) <= PerMinute
    BY <1>3, <1>7
<1>9. /\ IsFiniteSet(Passed(e.window) \cup Passed(w))
      /\ Cardinality(Passed(e.window) \cup Passed(w)) =
            Cardinality(Passed(e.window)) + Cardinality(Passed(w))
            - Cardinality(Passed(e.window) \cap Passed(w))
    BY <1>8, FS_Union
<1>10. IsFiniteSet(Passed(e.window) \cap Passed(w))
    BY <1>8, FS_Intersection
<1>11. Cardinality(P) <= Cardinality(Passed(e.window) \cup Passed(w)) /\ IsFiniteSet(P)
    BY <1>6, <1>9, FS_Subset
<1>12. /\ Cardinality(P) \in Nat /\ Cardinality(Passed(e.window)) \in Nat
       /\ Cardinality(Passed(w)) \in Nat /\ Cardinality(Passed(e.window) \cap Passed(w)) \in Nat
       /\ Cardinality(Passed(e.window) \cup Passed(w)) \in Nat
    BY <1>8, <1>9, <1>10, <1>11, FS_CardinalityType
<1>13. Cardinality(P) <= 2 * PerMinute
    BY <1>1, <1>8, <1>9, <1>11, <1>12
<1> QED BY <1>13 DEF P

\* A call that is refused is one too many of its window, which is over before
\* the minute is.
LEMMA LimitsPatient ==
    ASSUME NEW l, NEW k, LimitInv(l, k) PROVE PatientClientsPass(l.made)
<1> SUFFICES ASSUME NEW c \in Clients, NEW e \in l.made, e.client = c,
                    Cardinality(Lately(l.made, e)) <= PerMinute
             PROVE  e.passed
    BY DEF PatientClientsPass
<1>1. /\ IsFiniteSet(l.made) /\ l.made \in SUBSET Calling
      /\ PerMinute \in Nat /\ Minute \in Nat
    BY LimitAssumption DEF LimitInv, Limiters, LimitAssumption
<1>2. /\ \A f \in l.made : f.n \in Nat /\ f.at \in Nat /\ f.window \in Nat
      /\ \A f \in l.made : f.window <= f.at /\ f.at < f.window + Minute
    BY <1>1 DEF LimitInv, Calling
<1>3. UpTo(l.made, e) \in SUBSET Lately(l.made, e)
    <2>1. ASSUME NEW f \in UpTo(l.made, e) PROVE f \in Lately(l.made, e)
        <3>1. f \in l.made /\ f.client = e.client /\ f.window = e.window /\ f.n <= e.n
            BY DEF UpTo, Beside
        <3>2. e.at - f.at < Minute
            BY <1>1, <1>2, <3>1
        <3> QED BY <3>1, <3>2 DEF Lately
    <2> QED BY <2>1
<1>4. IsFiniteSet(Lately(l.made, e))
    <2>1. Lately(l.made, e) \in SUBSET l.made
        BY DEF Lately
    <2> QED BY <1>1, <2>1, FS_Subset
<1>5. IsFiniteSet(UpTo(l.made, e)) /\ Cardinality(UpTo(l.made, e)) <= Cardinality(Lately(l.made, e))
    BY <1>3, <1>4, FS_Subset
<1>6. Cardinality(UpTo(l.made, e)) \in Nat /\ Cardinality(Lately(l.made, e)) \in Nat
    BY <1>4, <1>5, FS_CardinalityType
<1>7. Cardinality(UpTo(l.made, e)) <= PerMinute
    BY <1>1, <1>5, <1>6
<1> QED BY <1>7 DEF LimitInv

LEMMA LimitInitially == LimitInv(NewLimiter, 0)
<1> DEFINE B == [c \in Clients |-> NoBucket]
<1>1. NewLimiter = [bucket |-> B, last |-> 0, now |-> 0, made |-> {}]
    BY DEF NewLimiter
<1>2. B \in [Clients -> Buckets] /\ \A c \in Clients : B[c].count = 0
    BY DEF NoBucket, Buckets
<1> HIDE DEF B
<1>3. NewLimiter \in Limiters /\ NewLimiter.made = {} /\ NewLimiter.bucket = B
    BY <1>1, <1>2 DEF Limiters
<1>4. IsFiniteSet({}) /\ Cardinality({}) = 0
    BY FS_EmptySet
<1>5. \A c \in Clients, w \in Nat : {e \in Beside({}, c, w) : e.passed} = {}
    BY DEF Beside
<1>6. PerMinute \in Nat
    BY LimitAssumption DEF LimitAssumption
<1> QED BY <1>2, <1>3, <1>4, <1>5, <1>6 DEF LimitInv, BucketFits

\* Induction, as a fact about sets: strict inclusion among the finite sets is
\* well-founded, and 1..n grows with n.
LEMMA StepByStep ==
    ASSUME NEW S \in SUBSET Nat, 0 \in S, \A n \in S : n + 1 \in S
    PROVE  \A n \in Nat : n \in S
<1> DEFINE Left == {1..n : n \in Nat \ S}
<1> SUFFICES ASSUME Nat \ S # {} PROVE FALSE
    OBVIOUS
<1>1. Left # {} /\ Left \subseteq FiniteSubsetsOf(Nat)
    <2>1. ASSUME NEW n \in Nat PROVE IsFiniteSet(1..n) /\ 1..n \subseteq Nat
        BY FS_Interval
    <2> QED BY <2>1 DEF FiniteSubsetsOf
<1>2. PICK b \in Left : \A c \in Left : <<c, b>> \notin StrictSubsetOrdering(Nat)
    BY <1>1, WFMin, FS_StrictSubsetOrderingWellFounded
<1>3. PICK n \in Nat \ S : b = 1..n
    BY <1>2
<1>4. n # 0 /\ n - 1 \in Nat /\ (n - 1) + 1 = n
    BY <1>3
<1>5. n - 1 \in Nat \ S
    BY <1>3, <1>4
<1>6. 1..(n - 1) \subseteq 1..n /\ n \in 1..n /\ n \notin 1..(n - 1)
    BY <1>4
<1>7. 1..n \in SUBSET Nat /\ 1..(n - 1) \in SUBSET Nat
    OBVIOUS
<1>8. <<1..(n - 1), 1..n>> \in StrictSubsetOrdering(Nat)
    BY <1>6, <1>7 DEF StrictSubsetOrdering
<1> QED BY <1>2, <1>3, <1>5, <1>8

\* The limiter goes through one state per call.
LEMMA LimitersExist ==
    ASSUME NEW calls, NEW k \in Nat
    PROVE  \E f : f = [n \in 0..k |-> IF n = 0 THEN NewLimiter
                                      ELSE Allow(f[n - 1], n, calls[n])]
<1> DEFINE Then(f, n) == IF n = 0 THEN NewLimiter ELSE Allow(f[n - 1], n, calls[n])
           S == {j \in Nat : \E f : f = [n \in 0..j |-> Then(f, n)]}
<1>1. 0 \in S
    <2>1. PICK f : f = [n \in 0..0 |-> NewLimiter]
        OBVIOUS
    <2>2. f = [n \in 0..0 |-> Then(f, n)]
        BY <2>1
    <2> QED BY <2>2
<1>2. ASSUME NEW j \in S PROVE j + 1 \in S
    <2>1. PICK f : f = [n \in 0..j |-> Then(f, n)]
        OBVIOUS
    <2>2. PICK g : g = [n \in 0..(j + 1) |-> IF n = j + 1 THEN Allow(f[j], j + 1, calls[j + 1])
                                             ELSE f[n]]
        OBVIOUS
    <2>3. ASSUME NEW n \in 0..(j + 1) PROVE g[n] = Then(g, n)
        <3>1. CASE n = j + 1
            <4>1. n # 0 /\ n - 1 = j /\ j \in 0..(j + 1) /\ j # j + 1
                BY <3>1
            <4>2. g[j] = f[j]
                BY <2>2, <4>1
            <4> QED BY <2>2, <3>1, <4>1, <4>2
        <3>2. CASE n = 0
            <4>1. n # j + 1 /\ n \in 0..j
                BY <3>2
            <4> QED BY <2>1, <2>2, <3>2, <4>1
        <3>3. CASE n # j + 1 /\ n # 0
            <4>1. n \in 0..j /\ n - 1 \in 0..(j + 1) /\ n - 1 # j + 1
                BY <3>3
            <4>2. g[n] = f[n] /\ g[n - 1] = f[n - 1]
                BY <2>2, <3>3, <4>1
            <4>3. f[n] = Allow(f[n - 1], n, calls[n])
                BY <2>1, <3>3, <4>1
            <4> QED BY <3>3, <4>2, <4>3
        <3> QED BY <3>1, <3>2, <3>3
    <2>4. g = [n \in 0..(j + 1) |-> Then(g, n)]
        <3> HIDE DEF Then
        <3> QED BY <2>2, <2>3
    <2> QED BY <2>4
<1> HIDE DEF S
<1>3. k \in S
    <2>1. S \in SUBSET Nat
        BY DEF S
    <2> QED BY <1>1, <1>2, <2>1, StepByStep
<1> QED BY <1>3 DEF S

LEMMA LimitInvariant ==
    ASSUME NEW calls \in Calls PROVE LimitInv(After(calls), Len(calls))
<1> DEFINE limiter[n \in 0..Len(calls)] ==
                IF n = 0 THEN NewLimiter ELSE Allow(limiter[n - 1], n, calls[n])
           S == {k \in Nat : k <= Len(calls) => LimitInv(limiter[k], k)}
<1>1. After(calls) = limiter[Len(calls)]
    BY DEF After
<1>2. Len(calls) \in Nat /\ \A n \in 1..Len(calls) : calls[n].client \in Clients /\ calls[n].pause \in Nat
    <2>1. PICK n \in 0..MaxCalls : calls \in [1..n -> [client : Clients, pause : Pauses]]
        BY DEF Calls
    <2>2. n \in Nat
        BY LimitAssumption DEF LimitAssumption
    <2>3. Len(calls) = n
        BY <2>1, <2>2
    <2>4. \A i \in 1..n : calls[i] \in [client : Clients, pause : Pauses]
        BY <2>1
    <2>5. Pauses \subseteq Nat
        BY LimitAssumption DEF LimitAssumption
    <2> QED BY <2>2, <2>3, <2>4, <2>5
<1>3. limiter = [n \in 0..Len(calls) |-> IF n = 0 THEN NewLimiter
                                        ELSE Allow(limiter[n - 1], n, calls[n])]
    BY <1>2, LimitersExist
<1> HIDE DEF limiter
<1>4. 0 \in S
    BY <1>2, <1>3, LimitInitially
<1>5. ASSUME NEW k \in S PROVE k + 1 \in S
    <2>1. CASE k + 1 <= Len(calls)
        <3>1. k \in Nat /\ k + 1 \in 0..Len(calls) /\ k + 1 # 0 /\ (k + 1) - 1 = k
              /\ k + 1 \in 1..Len(calls) /\ k <= Len(calls)
            BY <1>2, <2>1
        <3>2. limiter[k + 1] = Allow(limiter[k], k + 1, calls[k + 1])
            BY <1>3, <3>1
        <3>3. LimitInv(limiter[k], k)
            BY <3>1
        <3>4. LimitInv(Allow(limiter[k], k + 1, calls[k + 1]), k + 1)
            BY <1>2, <3>1, <3>3, LimitStep
        <3> QED BY <3>1, <3>2, <3>4
    <2>2. CASE ~(k + 1 <= Len(calls))
        BY <2>2
    <2> QED BY <2>1, <2>2
<1> HIDE DEF S
<1>6. Len(calls) \in S
    <2>1. S \in SUBSET Nat
        BY DEF S
    <2> QED BY <1>2, <1>4, <1>5, <2>1, StepByStep
<1>7. LimitInv(limiter[Len(calls)], Len(calls))
    BY <1>2, <1>6 DEF S
<1> QED BY <1>1, <1>7

\* The limiter keeps its two promises, whatever the limit, the minute and the
\* sweep, and however many calls are made of it at whatever instants.
THEOREM TheLimiterKeepsItsLimits == Spec => []AttemptsAreLimited
<1>1. LimitsAreKept
    BY LimitInvariant, LimitsTwice, LimitsPatient DEF LimitsAreKept
<1>2. AttemptsAreLimited
    BY <1>1 DEF AttemptsAreLimited
<1> QED BY <1>2, PTL
=============================================================================
