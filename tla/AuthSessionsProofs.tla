------------------------- MODULE AuthSessionsProofs -------------------------
(***************************************************************************)
(* Theorems about AuthSessions, for any number of users, clients, tokens   *)
(* and requests in flight.                                                 *)
(***************************************************************************)
EXTENDS AuthSessions, TLAPS

-----------------------------------------------------------------------------
(* Type correctness *)

RequestType == [at : Steps, client : Clients \cup {NoClient},
                token : Tokens \cup {NoToken}, new : Tokens \cup {NoToken}]

LEMMA InitType == Init => TypeOK
<1> SUFFICES ASSUME Init PROVE TypeOK
  OBVIOUS
<1>1. (CHOOSE u \in Users : TRUE) \in Users
  BY UsersAssumption
<1>2. request = [r \in Requests |-> Idle] /\ Idle \in RequestType
  BY DEF Init, Idle, RequestType, Steps
<1>3. \A r \in Requests : RequestOK(request[r])
  BY <1>2 DEF RequestOK, Idle
<1>4. QED
  BY <1>1, <1>2, <1>3 DEF TypeOK, Init, RequestType

\* One request moves on, and keeps a legal shape.
LEMMA RequestChanges ==
  ASSUME TypeOK, NEW r \in Requests, NEW q \in RequestType, RequestOK(q),
         request' = [request EXCEPT ![r] = q]
  PROVE  /\ request' \in [Requests -> RequestType]
         /\ \A x \in Requests : RequestOK(request'[x])
BY DEF TypeOK, RequestType

LEMMA IdleShape == Idle \in RequestType /\ RequestOK(Idle)
BY DEF Idle, RequestType, RequestOK, Steps

LEMMA GotoShape ==
  ASSUME TypeOK, NEW r \in Requests, NEW step \in Steps, request[r].at # "idle",
         step # "granted",
         step \in {"lookup", "rotate", "alarm", "revoke"} => request[r].token \in Tokens,
         Goto(r, step)
  PROVE  /\ request' \in [Requests -> RequestType]
         /\ \A x \in Requests : RequestOK(request'[x])
<1> DEFINE q == [request[r] EXCEPT !.at = step]
<1>1. request[r] \in RequestType /\ RequestOK(request[r])
  BY DEF TypeOK, RequestType
<1>2. q \in RequestType /\ RequestOK(q)
  BY <1>1 DEF RequestType, RequestOK
<1>3. request' = [request EXCEPT ![r] = q]
  BY DEF Goto
<1>4. QED
  BY <1>2, <1>3, RequestChanges

LEMMA GrantShape ==
  ASSUME TypeOK, NEW r \in Requests, NEW t \in Tokens, request[r].at # "idle",
         Grant(r, t)
  PROVE  /\ request' \in [Requests -> RequestType]
         /\ \A x \in Requests : RequestOK(request'[x])
<1> DEFINE q == [request[r] EXCEPT !.at = "granted", !.new = t]
<1>1. request[r] \in RequestType /\ RequestOK(request[r])
  BY DEF TypeOK, RequestType
<1>2. q \in RequestType /\ RequestOK(q)
  BY <1>1 DEF RequestType, RequestOK, Steps
<1>3. request' = [request EXCEPT ![r] = q]
  BY <1>1 DEF Grant, RequestType
<1>4. QED
  BY <1>2, <1>3, RequestChanges

LEMMA RevokeType ==
  ASSUME TypeOK, NEW which, NEW reason \in Revocations
  PROVE  Revoke(which, reason) \in [Tokens -> {"unused", "live"} \cup Revocations]
BY DEF TypeOK, Revoke

\* Every step of the specification keeps the types.
LEMMA TypeStep == TypeOK /\ [Next]_vars => TypeOK'
<1> SUFFICES ASSUME TypeOK, [Next]_vars PROVE TypeOK'
  OBVIOUS
<1> USE DEF RequestType
<1>1. ASSUME NEW r \in Requests, NEW c \in Clients, NEW step \in {"lookup", "revoke"},
             Send(r, c, step)
      PROVE  TypeOK'
  <2> DEFINE q == [at |-> step, client |-> c, token |-> cookie[c], new |-> NoToken]
  <2>1. q \in RequestType /\ RequestOK(q)
    BY <1>1 DEF Send, TypeOK, RequestOK, Steps
  <2>2. QED
    BY <1>1, <2>1, RequestChanges DEF Send, TypeOK, tokenVars
<1>2. ASSUME NEW r \in Requests, NEW c \in Clients, Authenticate(r, c)
      PROVE  TypeOK'
  <2> DEFINE q == [at |-> "issue", client |-> c, token |-> NoToken, new |-> NoToken]
  <2>1. q \in RequestType /\ RequestOK(q)
    BY DEF RequestOK, Steps
  <2>2. QED
    BY <1>2, <2>1, RequestChanges DEF Authenticate, TypeOK, tokenVars, history
<1>3. ASSUME NEW r \in Requests, NEW c \in Clients, Erase(r, c)
      PROVE  TypeOK'
  <2> DEFINE q == [at |-> "cleared", client |-> c, token |-> NoToken, new |-> NoToken]
  <2>1. q \in RequestType /\ RequestOK(q)
    BY DEF RequestOK, Steps
  <2>2. request' \in [Requests -> RequestType] /\ \A x \in Requests : RequestOK(request'[x])
    BY <1>3, <2>1, RequestChanges DEF Erase
  <2>3. status' \in [Tokens -> {"unused", "live"} \cup Revocations]
    BY <1>3, RevokeType DEF Erase, Revocations
  <2>4. QED
    BY <1>3, <2>2, <2>3, AccountAssumption DEF Erase, TypeOK, history
<1>4. ASSUME NEW r \in Requests, Lookup(r)
      PROVE  TypeOK'
  <2>1. request[r].at = "lookup" /\ request[r].token \in Tokens
    BY <1>4 DEF Lookup, At, TypeOK, RequestOK
  <2>2. LookupOutcome(request[r].token) \in {"refuse", "alarm", "rotate"}
    BY DEF LookupOutcome
  <2>3. request' \in [Requests -> RequestType] /\ \A x \in Requests : RequestOK(request'[x])
    <3>1. CASE LookupOutcome(request[r].token) = "refuse"
      BY <1>4, <3>1, RequestChanges, IdleShape DEF Lookup, Refuse
    <3>2. CASE LookupOutcome(request[r].token) # "refuse"
      BY <1>4, <2>1, <2>2, <3>2, GotoShape DEF Lookup, Steps
    <3>3. QED
      BY <3>1, <3>2
  <2>4. shared' \subseteq Tokens
    BY <1>4, <2>1 DEF Lookup, TypeOK
  <2>5. QED
    BY <1>4, <2>3, <2>4 DEF Lookup, TypeOK, tokenVars
<1>5. ASSUME NEW r \in Requests, Alarm(r)
      PROVE  TypeOK'
  <2>1. request' \in [Requests -> RequestType] /\ \A x \in Requests : RequestOK(request'[x])
    BY <1>5, RequestChanges, IdleShape DEF Alarm, Refuse
  <2>2. status' \in [Tokens -> {"unused", "live"} \cup Revocations]
    BY <1>5, RevokeType DEF Alarm, Revocations
  <2>3. QED
    BY <1>5, <2>1, <2>2 DEF Alarm, TypeOK, history
<1>6. ASSUME NEW r \in Requests, RevokeOwn(r)
      PROVE  TypeOK'
  <2>1. request' \in [Requests -> RequestType] /\ \A x \in Requests : RequestOK(request'[x])
    BY <1>6, GotoShape DEF RevokeOwn, At, Steps
  <2>2. status' \in [Tokens -> {"unused", "live"} \cup Revocations]
    BY <1>6, RevokeType DEF RevokeOwn, Revocations
  <2>3. QED
    BY <1>6, <2>1, <2>2 DEF RevokeOwn, TypeOK, history
<1>7. ASSUME NEW r \in Requests, Answer(r)
      PROVE  TypeOK'
  <2>1. request' \in [Requests -> RequestType] /\ \A x \in Requests : RequestOK(request'[x])
    BY <1>7, RequestChanges, IdleShape DEF Answer
  <2>2. AnsweredCookie(r) \in Tokens \cup {NoToken}
    BY DEF AnsweredCookie, TypeOK
  <2>3. QED
    BY <1>7, <2>1, <2>2 DEF Answer, TypeOK, tokenVars, history
<1>8. ASSUME NEW r \in Requests, LoseAnswer(r)
      PROVE  TypeOK'
  <2>1. request' \in [Requests -> RequestType] /\ \A x \in Requests : RequestOK(request'[x])
    BY <1>8, RequestChanges, IdleShape DEF LoseAnswer
  <2>2. request[r].client \in Clients
    BY <1>8 DEF LoseAnswer, TypeOK, RequestOK
  <2>3. QED
    BY <1>8, <2>1, <2>2 DEF LoseAnswer, TypeOK, tokenVars
<1>9. ASSUME NEW r \in Requests, StatementFails(r)
      PROVE  TypeOK'
  <2>1. request' \in [Requests -> RequestType] /\ \A x \in Requests : RequestOK(request'[x])
    BY <1>9, RequestChanges, IdleShape DEF StatementFails, Refuse
  <2>2. QED
    BY <1>9, <2>1 DEF StatementFails, TypeOK, tokenVars, history
<1>10. ASSUME NEW r \in Requests, NEW t \in Tokens, IssueToken(r, t)
       PROVE  TypeOK'
  <2>1. request[r].at = "issue" /\ request[r].client \in Clients
    BY <1>10 DEF IssueToken, At, TypeOK, RequestOK
  <2>2. request' \in [Requests -> RequestType] /\ \A x \in Requests : RequestOK(request'[x])
    BY <1>10, <2>1, GrantShape DEF IssueToken
  <2>3. QED
    BY <1>10, <2>1, <2>2, AccountAssumption DEF IssueToken, TypeOK, history
<1>11. ASSUME NEW r \in Requests, NEW t \in Tokens, Rotate(r, t)
       PROVE  TypeOK'
  <2>1. request[r].at = "rotate" /\ request[r].token \in Tokens
    BY <1>11 DEF Rotate, At, TypeOK, RequestOK
  <2>2. request' \in [Requests -> RequestType] /\ \A x \in Requests : RequestOK(request'[x])
    BY <1>11, <2>1, GrantShape DEF Rotate
  <2>3. Revoke({request[r].token}, "rotated") \in [Tokens -> {"unused", "live"} \cup Revocations]
    BY RevokeType DEF Revocations
  <2>4. status' \in [Tokens -> {"unused", "live"} \cup Revocations]
    BY <1>11, <2>3 DEF Rotate
  <2>5. QED
    BY <1>11, <2>1, <2>2, <2>4 DEF Rotate, TypeOK, history
<1>12. ASSUME NEW c \in Clients, NEW t \in Tokens, SignOut(c, t)
       PROVE  TypeOK'
  <2>1. status' \in [Tokens -> {"unused", "live"} \cup Revocations]
    BY <1>12, RevokeType DEF SignOut, Revocations
  <2>2. QED
    BY <1>12, <2>1 DEF SignOut, TypeOK, history
<1>13. ASSUME NEW t \in Tokens, Expire(t)
       PROVE  TypeOK'
  BY <1>13 DEF Expire, TypeOK, history
<1>14. CASE UNCHANGED vars
  BY <1>14 DEF vars, tokenVars, history, TypeOK
<1>15. QED
  BY <1>1, <1>2, <1>3, <1>4, <1>5, <1>6, <1>7, <1>8, <1>9, <1>10, <1>11, <1>12, <1>13,
     <1>14 DEF Next, Refresh, Logout

\* Every reachable state has the types of the model, and every handler what its next
\* statement needs: no statement runs on a missing cookie.
THEOREM TypeCorrect == Spec => []TypeOK
BY InitType, TypeStep, PTL DEF Spec

-----------------------------------------------------------------------------
(* What a step does to the tokens and to the requests *)

LEMMA RevokeFacts ==
  ASSUME TypeOK, NEW which, NEW reason \in Revocations, NEW t \in Tokens
  PROVE  /\ Revoke(which, reason)[t] # "live" \/ status[t] = "live"
         /\ Revoke(which, reason)[t] = "unused" <=> status[t] = "unused"
         /\ Revoke(which, reason)[t] # status[t] =>
               status[t] = "live" /\ Revoke(which, reason)[t] = reason
BY DEF TypeOK, Revoke, Live, Revocations

\* The rows as they were, except that some may have been revoked.
OnlyRevokes ==
    /\ owner' = owner /\ session' = session
    /\ \A t \in Tokens : /\ status'[t] = "unused" <=> status[t] = "unused"
                         /\ status'[t] = "live" => status[t] = "live"

LEMMA TokenStep ==
  ASSUME TypeOK, [Next]_vars
  PROVE  \/ OnlyRevokes
         \/ \E r \in Requests, t \in Tokens : IssueToken(r, t) \/ Rotate(r, t)
<1> SUFFICES ASSUME ~ \E r \in Requests, t \in Tokens : IssueToken(r, t) \/ Rotate(r, t)
             PROVE  OnlyRevokes
  OBVIOUS
<1>1. ASSUME status' = status, owner' = owner, session' = session PROVE OnlyRevokes
  BY <1>1 DEF OnlyRevokes
<1>2. ASSUME NEW which, NEW reason \in Revocations, status' = Revoke(which, reason),
             owner' = owner, session' = session
      PROVE  OnlyRevokes
  BY <1>2, RevokeFacts DEF OnlyRevokes
<1>3. ASSUME NEW r \in Requests, NEW c \in Clients,
             Authenticate(r, c) \/ Refresh(r, c) \/ Logout(r, c)
      PROVE  OnlyRevokes
  BY <1>1, <1>3 DEF Authenticate, Refresh, Logout, Send, tokenVars
<1>4. ASSUME NEW r \in Requests, NEW c \in Clients, Erase(r, c)
      PROVE  OnlyRevokes
  BY <1>2, <1>4 DEF Erase, Revocations
<1>5. ASSUME NEW r \in Requests, Lookup(r) \/ Answer(r) \/ LoseAnswer(r) \/ StatementFails(r)
      PROVE  OnlyRevokes
  BY <1>1, <1>5 DEF Lookup, Answer, LoseAnswer, StatementFails, tokenVars
<1>6. ASSUME NEW r \in Requests, Alarm(r) \/ RevokeOwn(r)
      PROVE  OnlyRevokes
  BY <1>2, <1>6 DEF Alarm, RevokeOwn, Revocations
<1>7. ASSUME NEW c \in Clients, NEW t \in Tokens, SignOut(c, t)
      PROVE  OnlyRevokes
  BY <1>2, <1>7 DEF SignOut, Revocations
<1>8. ASSUME NEW t \in Tokens, Expire(t)
      PROVE  OnlyRevokes
  BY <1>1, <1>8 DEF Expire
<1>9. CASE UNCHANGED vars
  BY <1>1, <1>9 DEF vars, tokenVars
<1>10. QED
  BY <1>3, <1>4, <1>5, <1>6, <1>7, <1>8, <1>9 DEF Next

\* Rows are never deleted, and keep their user and their session.
LEMMA RowsStay ==
  ASSUME TypeOK, [Next]_vars, NEW t \in Tokens, status[t] # "unused"
  PROVE  status'[t] # "unused" /\ owner'[t] = owner[t] /\ session'[t] = session[t]
<1>1. CASE OnlyRevokes
  BY <1>1 DEF OnlyRevokes
<1>2. ASSUME NEW r \in Requests, NEW x \in Tokens, IssueToken(r, x)
      PROVE  status'[t] # "unused" /\ owner'[t] = owner[t] /\ session'[t] = session[t]
  BY <1>2 DEF IssueToken, TypeOK
<1>3. ASSUME NEW r \in Requests, NEW x \in Tokens, Rotate(r, x)
      PROVE  status'[t] # "unused" /\ owner'[t] = owner[t] /\ session'[t] = session[t]
  <2>1. x # t /\ Revoke({request[r].token}, "rotated")[t] # "unused"
    BY <1>3, RevokeFacts DEF Rotate, Revocations
  <2>2. status'[t] = Revoke({request[r].token}, "rotated")[t]
    BY <1>3, <2>1 DEF Rotate, Revoke
  <2>3. QED
    BY <1>3, <2>1, <2>2 DEF Rotate, TypeOK
<1>4. QED
  BY <1>1, <1>2, <1>3, TokenStep

\* A request carries its token to the end of its handler.
LEMMA RequestStep ==
  ASSUME TypeOK, [Next]_vars, NEW r \in Requests
  PROVE  \/ request'[r] = request[r]
         \/ request'[r] = Idle
         \/ \E c \in Clients : \/ Authenticate(r, c) \/ Refresh(r, c)
                               \/ Logout(r, c) \/ Erase(r, c)
         \/ Lookup(r) \/ RevokeOwn(r)
         \/ \E t \in Tokens : IssueToken(r, t) \/ Rotate(r, t)
<1>1. ASSUME NEW q \in Requests, NEW v, request' = [request EXCEPT ![q] = v], q # r
      PROVE  request'[r] = request[r]
  BY <1>1 DEF TypeOK
<1>2. ASSUME NEW q \in Requests, NEW c \in Clients, q # r,
             Authenticate(q, c) \/ Refresh(q, c) \/ Logout(q, c) \/ Erase(q, c)
      PROVE  request'[r] = request[r]
  BY <1>2 DEF Authenticate, Refresh, Logout, Erase, Send, TypeOK
<1>3. ASSUME NEW q \in Requests, q # r,
             Lookup(q) \/ RevokeOwn(q) \/ Alarm(q) \/ Answer(q) \/ LoseAnswer(q) \/ StatementFails(q)
      PROVE  request'[r] = request[r]
  BY <1>3 DEF Lookup, RevokeOwn, Alarm, Answer, LoseAnswer, StatementFails, Goto, Refuse, TypeOK
<1>4. ASSUME NEW q \in Requests, NEW t \in Tokens, q # r, IssueToken(q, t) \/ Rotate(q, t)
      PROVE  request'[r] = request[r]
  BY <1>4 DEF IssueToken, Rotate, Grant, TypeOK
<1>5. ASSUME Alarm(r) \/ Answer(r) \/ LoseAnswer(r) \/ StatementFails(r)
      PROVE  request'[r] = Idle
  BY <1>5 DEF Alarm, Answer, LoseAnswer, StatementFails, Refuse, TypeOK
<1>6. ASSUME NEW c \in Clients, NEW t \in Tokens, SignOut(c, t)
      PROVE  request'[r] = request[r]
  BY <1>6 DEF SignOut
<1>7. ASSUME NEW t \in Tokens, Expire(t)
      PROVE  request'[r] = request[r]
  BY <1>7 DEF Expire
<1>8. CASE UNCHANGED vars
  BY <1>8 DEF vars
<1>9. QED
  BY <1>2, <1>3, <1>4, <1>5, <1>6, <1>7, <1>8 DEF Next

\* A handler about to rotate has been so before, or has just read a valid row.
LEMMA RotateEntered ==
  ASSUME TypeOK, [Next]_vars, NEW r \in Requests, request'[r].at = "rotate"
  PROVE  /\ request'[r].token = request[r].token
         /\ request[r].token \in Tokens
         /\ \/ request[r].at = "rotate" /\ request'[r] = request[r]
            \/ Lookup(r) /\ LookupOutcome(request[r].token) = "rotate"
<1>1. ASSUME NEW c \in Clients, Authenticate(r, c) \/ Refresh(r, c) \/ Logout(r, c) \/ Erase(r, c)
      PROVE  FALSE
  BY <1>1 DEF Authenticate, Refresh, Logout, Erase, Send, TypeOK
<1>2. ASSUME NEW t \in Tokens, IssueToken(r, t) \/ Rotate(r, t)
      PROVE  FALSE
  BY <1>2 DEF IssueToken, Rotate, Grant, TypeOK
<1>3. ~RevokeOwn(r) /\ request'[r] # Idle
  BY DEF RevokeOwn, Goto, Idle, TypeOK
<1>4. ASSUME Lookup(r)
      PROVE  /\ LookupOutcome(request[r].token) = "rotate"
             /\ request'[r].token = request[r].token
             /\ request[r].token \in Tokens
  <2>1. request[r] \in RequestType /\ request[r].token \in Tokens
    BY <1>4 DEF Lookup, At, TypeOK, RequestOK, RequestType
  <2>2. LookupOutcome(request[r].token) # "refuse"
    BY <1>3, <1>4 DEF Lookup, Refuse, TypeOK
  <2>3. request'[r] = [request[r] EXCEPT !.at = LookupOutcome(request[r].token)]
    BY <1>4, <2>2 DEF Lookup, Goto, TypeOK
  <2>4. QED
    BY <2>1, <2>3 DEF RequestType
<1>5. ASSUME request'[r] = request[r]
      PROVE  request[r].at = "rotate" /\ request[r].token \in Tokens
  BY <1>5 DEF TypeOK, RequestOK
<1>6. QED
  BY <1>1, <1>2, <1>3, <1>4, <1>5, RequestStep

-----------------------------------------------------------------------------
(* Whatever names a token names an issued one *)

IssuedInv ==
    /\ \A t \in Tokens : status[t] # "unused" => status[session[t]] # "unused"
    /\ \A c \in Clients : cookie[c] \in Tokens => status[cookie[c]] # "unused"
    /\ \A r \in Requests :
          /\ request[r].token \in Tokens => status[request[r].token] # "unused"
          /\ request[r].new \in Tokens => status[request[r].new] # "unused"

LEMMA InitIssued == Init => IssuedInv
BY NoTokenAssumption DEF Init, IssuedInv, Idle

LEMMA IssuedStep == TypeOK /\ IssuedInv /\ [Next]_vars => IssuedInv'
<1> SUFFICES ASSUME TypeOK, IssuedInv, [Next]_vars PROVE IssuedInv'
  OBVIOUS
<1>0. \A t \in Tokens : status[t] # "unused" => status'[t] # "unused" /\ session'[t] = session[t]
  BY RowsStay
<1>1. ASSUME NEW t \in Tokens, status'[t] # "unused"
      PROVE  status'[session'[t]] # "unused"
  <2>1. CASE status[t] # "unused"
    <3>1. session[t] \in Tokens /\ status[session[t]] # "unused"
      BY <2>1 DEF IssuedInv, TypeOK
    <3>2. QED
      BY <1>0, <2>1, <3>1
  <2>2. CASE status[t] = "unused"
    <3>1. PICK r \in Requests, x \in Tokens : IssueToken(r, x) \/ Rotate(r, x)
      BY <1>1, <2>2, TokenStep DEF OnlyRevokes
    <3>2. CASE IssueToken(r, x)
      BY <1>1, <2>2, <3>2 DEF IssueToken, TypeOK
    <3>3. CASE Rotate(r, x)
      <4>1. request[r].token \in Tokens /\ status[request[r].token] # "unused"
        BY <3>3 DEF Rotate, At, TypeOK, RequestOK, IssuedInv
      <4>2. session[request[r].token] \in Tokens /\ status[session[request[r].token]] # "unused"
        BY <4>1 DEF TypeOK, IssuedInv
      <4>3. t = x
        <5>1. SUFFICES ASSUME t # x PROVE FALSE
          OBVIOUS
        <5>2. status'[t] = Revoke({request[r].token}, "rotated")[t]
          BY <3>3, <5>1 DEF Rotate, Revoke
        <5>3. QED
          BY <1>1, <2>2, <5>2, RevokeFacts DEF Revocations
      <4>4. session'[t] = session[request[r].token]
        BY <3>3, <4>3 DEF Rotate, TypeOK
      <4>5. QED
        BY <1>0, <4>2, <4>4
    <3>4. QED
      BY <3>1, <3>2, <3>3
  <2>3. QED
    BY <2>1, <2>2
<1>2. ASSUME NEW c \in Clients, cookie'[c] \in Tokens
      PROVE  status'[cookie'[c]] # "unused"
  <2>1. CASE cookie' = cookie
    BY <1>0, <1>2, <2>1 DEF IssuedInv
  <2>2. CASE cookie' # cookie
    <3>1. PICK r \in Requests : Answer(r)
      BY <2>2 DEF Next, Authenticate, Refresh, Logout, Send, Erase, Lookup, Alarm, RevokeOwn,
         LoseAnswer, StatementFails, IssueToken, Rotate, SignOut, Expire, vars
    <3>2. cookie'[c] \in {cookie[c], request[r].new, NoToken}
      BY <3>1 DEF Answer, AnsweredCookie, TypeOK
    <3>3. QED
      BY <1>0, <1>2, <3>2, NoTokenAssumption DEF IssuedInv
  <2>3. QED
    BY <2>1, <2>2
<1>3. ASSUME NEW r \in Requests
      PROVE  /\ request'[r].token \in Tokens => status'[request'[r].token] # "unused"
             /\ request'[r].new \in Tokens => status'[request'[r].new] # "unused"
  <2>0. /\ request[r].token \in Tokens => status'[request[r].token] # "unused"
        /\ request[r].new \in Tokens => status'[request[r].new] # "unused"
    BY <1>0 DEF IssuedInv
  <2>1. CASE request'[r] = request[r]
    BY <2>0, <2>1
  <2>2. CASE request'[r] = Idle
    BY <2>2, NoTokenAssumption DEF Idle
  <2>3. ASSUME NEW c \in Clients, Refresh(r, c) \/ Logout(r, c)
        PROVE  /\ request'[r].token \in Tokens => status'[request'[r].token] # "unused"
               /\ request'[r].new \in Tokens => status'[request'[r].new] # "unused"
    <3>1. request'[r].token = cookie[c] /\ request'[r].new = NoToken
      BY <2>3 DEF Refresh, Logout, Send, TypeOK
    <3>2. QED
      BY <1>0, <3>1, NoTokenAssumption DEF IssuedInv
  <2>4. ASSUME NEW c \in Clients, Authenticate(r, c) \/ Erase(r, c)
        PROVE  request'[r].token = NoToken /\ request'[r].new = NoToken
    BY <2>4 DEF Authenticate, Erase, TypeOK
  <2>5. ASSUME Lookup(r) \/ RevokeOwn(r), request'[r] # Idle
        PROVE  request'[r].token = request[r].token /\ request'[r].new = request[r].new
    BY <2>5 DEF Lookup, RevokeOwn, Goto, Refuse, TypeOK
  <2>6. ASSUME NEW t \in Tokens, IssueToken(r, t) \/ Rotate(r, t)
        PROVE  /\ request'[r].token = request[r].token
               /\ request'[r].new = t /\ status'[t] # "unused"
    BY <2>6 DEF IssueToken, Rotate, Grant, TypeOK, Revoke
  <2>7. QED
    BY <2>0, <2>1, <2>2, <2>3, <2>4, <2>5, <2>6, RequestStep, NoTokenAssumption
<1>4. QED
  BY <1>1, <1>2, <1>3 DEF IssuedInv

LEMMA IssuedHolds == Spec => [](TypeOK /\ IssuedInv)
BY InitType, InitIssued, TypeStep, IssuedStep, PTL DEF Spec

-----------------------------------------------------------------------------
(* Sessions that are over *)

LEMMA EndedStep ==
  ASSUME TypeOK, IssuedInv, [Next]_vars, NEW s \in Tokens, Over(s)
  PROVE  Over(s)'
<1>1. status[s] # "unused" /\ LiveIn(s) = {} /\ ~Rotating(s)
  BY DEF Over
<1>2. status'[s] # "unused"
  BY <1>1, RowsStay
<1>3. ASSUME NEW t \in Tokens, status'[t] = "live", session'[t] = s
      PROVE  FALSE
  <2>1. CASE OnlyRevokes
    BY <1>1, <1>3, <2>1 DEF OnlyRevokes, LiveIn, Live
  <2>2. ASSUME NEW r \in Requests, NEW x \in Tokens, IssueToken(r, x)
        PROVE  FALSE
    <3>1. CASE t = x
      BY <1>1, <1>3, <2>2, <3>1 DEF IssueToken, TypeOK
    <3>2. CASE t # x
      BY <1>1, <1>3, <2>2, <3>2 DEF IssueToken, TypeOK, LiveIn, Live
    <3>3. QED
      BY <3>1, <3>2
  <2>3. ASSUME NEW r \in Requests, NEW x \in Tokens, Rotate(r, x)
        PROVE  FALSE
    <3>1. CASE t = x
      BY <1>1, <1>3, <2>3, <3>1 DEF Rotate, TypeOK, Rotating
    <3>2. CASE t # x
      <4>1. status'[t] = Revoke({request[r].token}, "rotated")[t] /\ session'[t] = session[t]
        BY <2>3, <3>2 DEF Rotate, Revoke, TypeOK
      <4>2. QED
        BY <1>1, <1>3, <4>1, RevokeFacts DEF Revocations, LiveIn, Live
    <3>3. QED
      BY <3>1, <3>2
  <2>4. QED
    BY <2>1, <2>2, <2>3, TokenStep
<1>4. ASSUME NEW r \in Requests, request'[r].at = "rotate", session'[request'[r].token] = s
      PROVE  FALSE
  <2>1. request'[r].token = request[r].token /\ request[r].token \in Tokens
    BY <1>4, RotateEntered
  <2>2. session[request[r].token] = s
    BY <1>4, <2>1, RowsStay DEF IssuedInv
  <2>3. Lookup(r) /\ LookupOutcome(request[r].token) = "rotate"
    BY <1>1, <1>4, <2>2, RotateEntered DEF Rotating, At
  <2>4. status[request[r].token] = "live"
    BY <2>1, <2>3 DEF LookupOutcome, Revoked, TypeOK, IssuedInv
  <2>5. QED
    BY <1>1, <2>1, <2>2, <2>4 DEF LiveIn, Live
<1>5. LiveIn(s)' = {}
  BY <1>3 DEF LiveIn, Live
<1>6. ~Rotating(s)'
  BY <1>4 DEF Rotating, At
<1>7. QED
  BY <1>2, <1>5, <1>6 DEF Over

\* A session that has neither a valid token nor a rotation in progress is over for good.
THEOREM SessionsEnd == Spec => EndedStaysEnded
<1>1. TypeOK /\ IssuedInv /\ [Next]_vars => [\A s \in Tokens : Over(s) => Over(s)']_vars
  BY EndedStep
<1>2. QED
  BY <1>1, IssuedHolds, PTL DEF Spec, EndedStaysEnded

-----------------------------------------------------------------------------
(* Erasure *)

LEMMA ErasureStep ==
  ASSUME TypeOK, IssuedInv, [Next]_vars, NEW u \in deleted, ~Minting(u)
  PROVE  ~Minting(u)'
<1>1. ASSUME NEW r \in Requests, request'[r].at = "issue", Account[request'[r].client] = u
      PROVE  FALSE
  <2>1. ASSUME NEW c \in Clients, Authenticate(r, c)
        PROVE  FALSE
    BY <1>1, <2>1 DEF Authenticate, TypeOK
  <2>2. ASSUME NEW c \in Clients, Refresh(r, c) \/ Logout(r, c) \/ Erase(r, c)
        PROVE  request'[r].at # "issue"
    BY <2>2 DEF Refresh, Logout, Send, Erase, TypeOK
  <2>3. request'[r] # Idle /\ ~RevokeOwn(r)
    BY <1>1 DEF Idle, RevokeOwn, Goto, TypeOK
  <2>4. ~Lookup(r)
    BY <1>1, <2>3 DEF Lookup, Goto, Refuse, LookupOutcome, TypeOK
  <2>5. ASSUME NEW t \in Tokens, IssueToken(r, t) \/ Rotate(r, t)
        PROVE  request'[r].at # "issue"
    BY <2>5 DEF IssueToken, Rotate, Grant, TypeOK
  <2>6. request'[r] = request[r]
    BY <1>1, <2>1, <2>2, <2>3, <2>4, <2>5, RequestStep
  <2>7. QED
    BY <1>1, <2>6 DEF Minting, At
<1>2. ASSUME NEW r \in Requests, request'[r].at = "rotate", owner'[request'[r].token] = u
      PROVE  FALSE
  <2>1. request'[r].token = request[r].token /\ request[r].token \in Tokens
    BY <1>2, RotateEntered
  <2>2. owner[request[r].token] = u
    BY <1>2, <2>1, RowsStay DEF IssuedInv
  <2>3. LookupOutcome(request[r].token) = "refuse"
    BY <2>2 DEF LookupOutcome
  <2>4. QED
    BY <1>2, <2>2, <2>3, RotateEntered DEF Minting, At
<1>3. QED
  BY <1>1, <1>2 DEF Minting, At

\* Once the handlers that were under way have ended, no token is ever again inserted for
\* an erased user.
THEOREM ErasureEnds == Spec => ErasureIsFinal
<1>1. TypeOK /\ IssuedInv /\ [Next]_vars => [\A u \in deleted : ~Minting(u) => ~Minting(u)']_vars
  BY ErasureStep
<1>2. QED
  BY <1>1, IssuedHolds, PTL DEF Spec, ErasureIsFinal

-----------------------------------------------------------------------------
(* One valid token per session *)

\* Handler r is about to rotate a token of session s.
RotatesIn(r, s) == At(r, "rotate") /\ session[request[r].token] = s

\* Uniqueness alone is not inductive: a rotation inserts a token without looking whether
\* the session has another, so it must be the only one and know the only valid token.
SessionInv ==
    \A s \in Tokens \ shared :
        /\ \A t1, t2 \in LiveIn(s) : t1 = t2
        /\ \A r \in Requests, t \in LiveIn(s) : RotatesIn(r, s) => t = request[r].token
        /\ \A q, r \in Requests : RotatesIn(q, s) /\ RotatesIn(r, s) => q = r

LEMMA InitSession == Init => SessionInv
BY DEF Init, SessionInv, LiveIn, Live, RotatesIn, At, Idle

LEMMA SharedGrows == ASSUME [Next]_vars PROVE shared \subseteq shared'
<1>1. ASSUME NEW r \in Requests, Lookup(r) PROVE shared \subseteq shared'
  BY <1>1 DEF Lookup
<1>2. ASSUME NEW r \in Requests, NEW c \in Clients,
             Authenticate(r, c) \/ Refresh(r, c) \/ Logout(r, c) \/ Erase(r, c)
      PROVE  shared' = shared
  BY <1>2 DEF Authenticate, Refresh, Logout, Erase, Send, history
<1>3. ASSUME NEW r \in Requests,
             Alarm(r) \/ RevokeOwn(r) \/ Answer(r) \/ LoseAnswer(r) \/ StatementFails(r)
      PROVE  shared' = shared
  BY <1>3 DEF Alarm, RevokeOwn, Answer, LoseAnswer, StatementFails, history
<1>4. ASSUME NEW r \in Requests, NEW t \in Tokens, IssueToken(r, t) \/ Rotate(r, t)
      PROVE  shared' = shared
  BY <1>4 DEF IssueToken, Rotate, history
<1>5. ASSUME NEW c \in Clients, NEW t \in Tokens, SignOut(c, t)
      PROVE  shared' = shared
  BY <1>5 DEF SignOut, history
<1>6. ASSUME NEW t \in Tokens, Expire(t)
      PROVE  shared' = shared
  BY <1>6 DEF Expire, history
<1>7. CASE UNCHANGED vars
  BY <1>7 DEF vars, history
<1>8. QED
  BY <1>1, <1>2, <1>3, <1>4, <1>5, <1>6, <1>7 DEF Next

\* A token that is valid after a step was so before, or has just been inserted.
LEMMA LiveEntered ==
  ASSUME TypeOK, [Next]_vars, NEW t \in Tokens, status'[t] = "live"
  PROVE  \/ status[t] = "live" /\ session'[t] = session[t]
         \/ \E r \in Requests : IssueToken(r, t) \/ Rotate(r, t)
<1>1. CASE OnlyRevokes
  BY <1>1 DEF OnlyRevokes
<1>2. ASSUME NEW r \in Requests, NEW x \in Tokens, IssueToken(r, x), t # x
      PROVE  status[t] = "live" /\ session'[t] = session[t]
  BY <1>2 DEF IssueToken, TypeOK
<1>3. ASSUME NEW r \in Requests, NEW x \in Tokens, Rotate(r, x), t # x
      PROVE  status[t] = "live" /\ session'[t] = session[t]
  <2>1. status'[t] = Revoke({request[r].token}, "rotated")[t] /\ session'[t] = session[t]
    BY <1>3 DEF Rotate, Revoke, TypeOK
  <2>2. QED
    BY <2>1, RevokeFacts DEF Revocations
<1>4. QED
  BY <1>1, <1>2, <1>3, TokenStep

\* A rotation of session s after a step was one before, or has just read a valid token.
LEMMA RotatesEntered ==
  ASSUME TypeOK, IssuedInv, [Next]_vars, NEW r \in Requests, NEW s \in Tokens,
         RotatesIn(r, s)'
  PROVE  /\ request'[r].token = request[r].token
         /\ request[r].token \in Tokens
         /\ session[request[r].token] = s
         /\ status[request[r].token] # "unused"
         /\ \/ RotatesIn(r, s)
            \/ Lookup(r) /\ LookupOutcome(request[r].token) = "rotate"
                         /\ request[r].token \in LiveIn(s)
<1>1. request'[r].at = "rotate" /\ session'[request'[r].token] = s
  BY DEF RotatesIn, At
<1>2. /\ request'[r].token = request[r].token
      /\ request[r].token \in Tokens
      /\ status[request[r].token] # "unused"
  BY <1>1, RotateEntered DEF IssuedInv
<1>3. session[request[r].token] = s
  BY <1>1, <1>2, RowsStay
<1>4. ASSUME LookupOutcome(request[r].token) = "rotate"
      PROVE  request[r].token \in LiveIn(s)
  BY <1>2, <1>3, <1>4 DEF LookupOutcome, Revoked, LiveIn, Live, TypeOK
<1>5. QED
  BY <1>1, <1>2, <1>3, <1>4, RotateEntered DEF RotatesIn, At

LEMMA SessionStep == TypeOK /\ IssuedInv /\ SessionInv /\ [Next]_vars => SessionInv'
<1> SUFFICES ASSUME TypeOK, IssuedInv, SessionInv, [Next]_vars,
                    NEW s \in Tokens, s \notin shared'
             PROVE  /\ \A t1, t2 \in LiveIn(s)' : t1 = t2
                    /\ \A r \in Requests, t \in LiveIn(s)' : RotatesIn(r, s)' => t = request'[r].token
                    /\ \A q, r \in Requests : RotatesIn(q, s)' /\ RotatesIn(r, s)' => q = r
  BY DEF SessionInv
<1>0. /\ \A t1, t2 \in LiveIn(s) : t1 = t2
      /\ \A r \in Requests, t \in LiveIn(s) : RotatesIn(r, s) => t = request[r].token
      /\ \A q, r \in Requests : RotatesIn(q, s) /\ RotatesIn(r, s) => q = r
  BY SharedGrows DEF SessionInv
<1>1. ASSUME NEW t \in LiveIn(s)'
      PROVE  /\ t \in Tokens /\ status'[t] = "live" /\ session'[t] = s
             /\ \/ t \in LiveIn(s)
                \/ \E r \in Requests : IssueToken(r, t) /\ s = t
                \/ \E r \in Requests : Rotate(r, t) /\ RotatesIn(r, s)
  <2>1. t \in Tokens /\ status'[t] = "live" /\ session'[t] = s
    BY DEF LiveIn, Live
  <2>2. ASSUME NEW r \in Requests, IssueToken(r, t) PROVE s = t
    BY <2>1, <2>2 DEF IssueToken, TypeOK
  <2>3. ASSUME NEW r \in Requests, Rotate(r, t) PROVE RotatesIn(r, s)
    BY <2>1, <2>3 DEF Rotate, TypeOK, RotatesIn
  <2>4. QED
    BY <2>1, <2>2, <2>3, LiveEntered DEF LiveIn, Live
<1>2. ASSUME NEW t1 \in LiveIn(s)', NEW t2 \in LiveIn(s)'
      PROVE  t1 = t2
  <2>1. ASSUME NEW r \in Requests, NEW a \in LiveIn(s)', NEW b \in LiveIn(s)', IssueToken(r, a)
        PROVE  b = a
    <3>1. s = a /\ a \in Tokens /\ status[a] = "unused"
      BY <1>1, <2>1 DEF IssueToken, TypeOK, LiveIn, Live
    <3>2. ASSUME b # a PROVE FALSE
      <4>1. status[b] = "live" /\ session[b] = s
        BY <1>1, <2>1, <3>2 DEF IssueToken, TypeOK
      <4>2. QED
        BY <1>1, <3>1, <4>1 DEF IssuedInv
    <3>3. QED
      BY <3>2
  <2>2. ASSUME NEW r \in Requests, NEW a \in LiveIn(s)', NEW b \in LiveIn(s)', Rotate(r, a)
        PROVE  b = a
    <3>1. RotatesIn(r, s)
      BY <1>1, <2>2 DEF Rotate, TypeOK, RotatesIn
    <3>2. ASSUME b # a PROVE FALSE
      <4>1. status'[b] = Revoke({request[r].token}, "rotated")[b] /\ session[b] = s
        BY <1>1, <2>2, <3>2 DEF Rotate, Revoke, TypeOK
      <4>2. b \in LiveIn(s) /\ b # request[r].token
        BY <1>1, <4>1 DEF Revoke, LiveIn, Live
      <4>3. QED
        BY <1>0, <3>1, <4>2
    <3>3. QED
      BY <3>2
  <2>3. QED
    BY <1>0, <1>1, <2>1, <2>2
<1>3. ASSUME NEW r \in Requests, NEW t \in LiveIn(s)', RotatesIn(r, s)'
      PROVE  t = request'[r].token
  <2>1. /\ request'[r].token = request[r].token
        /\ request[r].token \in Tokens
        /\ session[request[r].token] = s
        /\ status[request[r].token] # "unused"
    BY <1>3, RotatesEntered
  <2>2. CASE t \in LiveIn(s)
    BY <1>0, <1>3, <2>1, <2>2, RotatesEntered
  <2>3. ASSUME NEW q \in Requests, IssueToken(q, t), s = t
        PROVE  FALSE
    BY <2>1, <2>3 DEF IssueToken, IssuedInv
  <2>4. ASSUME NEW q \in Requests, Rotate(q, t), RotatesIn(q, s)
        PROVE  FALSE
    <3>1. ~Lookup(r)
      BY <2>4 DEF Rotate, Lookup, Grant, Goto, Refuse, At, TypeOK, Idle, LookupOutcome
    <3>2. q = r
      BY <1>0, <1>3, <2>4, <3>1, RotatesEntered
    <3>3. QED
      BY <1>3, <2>4, <3>2 DEF Rotate, Grant, RotatesIn, At, TypeOK
  <2>5. QED
    BY <1>1, <2>2, <2>3, <2>4
<1>4. ASSUME NEW q \in Requests, NEW r \in Requests, RotatesIn(q, s)', RotatesIn(r, s)', q # r
      PROVE  FALSE
  <2>1. ASSUME NEW a \in Requests, NEW b \in Requests, a # b, RotatesIn(b, s),
               Lookup(a), LookupOutcome(request[a].token) = "rotate",
               request[a].token \in LiveIn(s), session[request[a].token] = s
        PROVE  FALSE
    <3>1. request[b].token = request[a].token /\ At(b, "rotate")
      BY <1>0, <2>1 DEF RotatesIn
    <3>2. s \in shared'
      BY <2>1, <3>1 DEF Lookup
    <3>3. QED
      BY <3>2
  <2>2. ~(Lookup(q) /\ Lookup(r))
    <3>1. SUFFICES ASSUME Lookup(q), Lookup(r) PROVE FALSE
      OBVIOUS
    <3>2. request'[r] = request[r]
      BY <1>4, <3>1 DEF Lookup, Goto, Refuse, TypeOK
    <3>3. QED
      BY <1>4, <3>1, <3>2 DEF Lookup, RotatesIn, At
  <2>3. QED
    BY <1>0, <1>4, <2>1, <2>2, RotatesEntered
<1>5. QED
  BY <1>2, <1>3, <1>4

\* A session has two valid tokens only if two requests had read the same one before
\* either rotated it.
THEOREM OneToken == Spec => []OneTokenUnlessShared
<1>1. Spec => []SessionInv
  BY IssuedHolds, InitSession, SessionStep, PTL DEF Spec
<1>2. SessionInv => OneTokenUnlessShared
  BY DEF SessionInv, OneTokenUnlessShared
<1>3. QED
  BY <1>1, <1>2, PTL

-----------------------------------------------------------------------------
(* A client that sends one request at a time and gets every answer never
   sets off the reuse alarm by itself (NoFalseAlarm).
   The argument: a token is only ever in the hands of one client.  A token
   is used up (rotated or logged out) by a request of that client, which
   is then in flight until the answer replaces the cookie; and while it is
   in flight the client sends no other. *)

Spent == {"rotated", "loggedOut"}

Holds(c, t) ==
    \/ cookie[c] = t
    \/ \E r \in Requests : request[r].client = c /\ t \in {request[r].token, request[r].new}

\* Request r was sent by client c with cookie t.
Carries(r, c, t) == request[r].client = c /\ request[r].token = t

HolderInv ==
    /\ \A c, d \in Clients, t \in Tokens : Holds(c, t) /\ Holds(d, t) => c = d
    /\ \A r \in Requests :
          /\ request[r].at = "idle" => request[r] = Idle
          /\ request[r].at = "issue" => request[r].token = NoToken
          /\ request[r].new \in Tokens =>
                /\ request[r].at = "granted"
                /\ status[request[r].new] \notin Spent
                /\ \A c \in Clients : cookie[c] # request[r].new
                /\ \A q \in Requests : request[q].token # request[r].new
                /\ \A q \in Requests : request[q].new = request[r].new => q = r

CalmInv ==
    \A c \in Clients \ disturbed :
        /\ \A q, r \in Requests, t, x \in Tokens : Carries(q, c, t) /\ Carries(r, c, x) => q = r
        /\ \A t \in Tokens : cookie[c] = t /\ status[t] \in Spent =>
              \E r \in Requests : Carries(r, c, t)
        /\ \A r \in Requests, t \in Tokens :
              Carries(r, c, t) /\ request[r].at \in {"lookup", "rotate", "alarm", "revoke"} =>
                 status[t] \notin Spent

ErasedInv ==
    /\ \A t \in Tokens : status[t] = "erased" => owner[t] \in deleted
    /\ \A r \in Requests : At(r, "alarm") =>
          status[request[r].token] \in Revocations \ {"erased"}

-----------------------------------------------------------------------------
(* What a step does to a client's tokens *)

\* A handler under way at r continues.
Continues(r) ==
    /\ request[r].at \in {"lookup", "revoke", "issue", "rotate"}
    /\ request'[r].client = request[r].client
    /\ request'[r].token = request[r].token
    /\ \/ /\ Lookup(r) \/ RevokeOwn(r)
          /\ request'[r].new = request[r].new
       \/ \E t \in Tokens : (IssueToken(r, t) \/ Rotate(r, t)) /\ request'[r].new = t

LEMMA RequestFate ==
  ASSUME TypeOK, [Next]_vars, NEW r \in Requests
  PROVE  \/ request'[r] = request[r]
         \/ request'[r] = Idle
         \/ \E c \in Clients : (Refresh(r, c) \/ Logout(r, c)) /\ request'[r].client = c
                /\ request'[r].token = cookie[c] /\ request'[r].new = NoToken
         \/ \E c \in Clients : Authenticate(r, c) \/ Erase(r, c)
         \/ Continues(r)
<1>1. ASSUME NEW c \in Clients, Refresh(r, c) \/ Logout(r, c)
      PROVE  /\ request'[r].client = c /\ request'[r].token = cookie[c]
             /\ request'[r].new = NoToken
  BY <1>1 DEF Refresh, Logout, Send, TypeOK
<1>2. ASSUME NEW t \in Tokens, IssueToken(r, t) \/ Rotate(r, t)
      PROVE  Continues(r)
  <2>1. request[r] \in RequestType /\ request[r].at \in {"issue", "rotate"} /\ Grant(r, t)
    BY <1>2 DEF IssueToken, Rotate, At, TypeOK, RequestType
  <2>2. request'[r] = [request[r] EXCEPT !.at = "granted", !.new = t]
    BY <2>1 DEF Grant, TypeOK, RequestType
  <2>3. /\ request'[r].client = request[r].client /\ request'[r].token = request[r].token
        /\ request'[r].new = t
    BY <2>1, <2>2 DEF RequestType
  <2>4. QED
    BY <1>2, <2>1, <2>3 DEF Continues
<1>3. ASSUME Lookup(r) \/ RevokeOwn(r), request'[r] # Idle
      PROVE  Continues(r)
  BY <1>3 DEF Lookup, RevokeOwn, Goto, Refuse, At, TypeOK, Continues
<1>4. QED
  BY <1>1, <1>2, <1>3, RequestStep

\* No request of a client is new in its hands, but for a token just inserted for it.
LEMMA HoldsStep ==
  ASSUME TypeOK, [Next]_vars, NEW c \in Clients, NEW t \in Tokens, Holds(c, t)'
  PROVE  \/ Holds(c, t)
         \/ \E r \in Requests : (IssueToken(r, t) \/ Rotate(r, t)) /\ request[r].client = c
<1>1. ASSUME cookie'[c] = t PROVE Holds(c, t)
  <2>1. CASE cookie' = cookie
    BY <1>1, <2>1 DEF Holds
  <2>2. CASE cookie' # cookie
    <3>1. PICK r \in Requests : Answer(r)
      BY <2>2 DEF Next, Authenticate, Refresh, Logout, Send, Erase, Lookup, Alarm, RevokeOwn,
         LoseAnswer, StatementFails, IssueToken, Rotate, SignOut, Expire, vars
    <3>2. CASE request[r].client = c
      BY <1>1, <3>1, <3>2, NoTokenAssumption DEF Answer, AnsweredCookie, TypeOK, Holds
    <3>3. CASE request[r].client # c
      BY <1>1, <3>1, <3>3 DEF Answer, TypeOK, Holds
    <3>4. QED
      BY <3>2, <3>3
  <2>3. QED
    BY <2>1, <2>2
<1>2. ASSUME NEW r \in Requests, request'[r].client = c, t \in {request'[r].token, request'[r].new}
      PROVE  \/ Holds(c, t)
             \/ (IssueToken(r, t) \/ Rotate(r, t)) /\ request[r].client = c
  <2>1. CASE request'[r] = request[r]
    BY <1>2, <2>1 DEF Holds
  <2>2. CASE request'[r] = Idle
    BY <1>2, <2>2, NoClientAssumption DEF Idle
  <2>3. ASSUME NEW d \in Clients, request'[r].client = d, request'[r].token = cookie[d],
               request'[r].new = NoToken
        PROVE  Holds(c, t)
    BY <1>2, <2>3, NoTokenAssumption DEF Holds
  <2>4. ASSUME NEW d \in Clients, Authenticate(r, d) \/ Erase(r, d)
        PROVE  FALSE
    BY <1>2, <2>4, NoTokenAssumption DEF Authenticate, Erase, TypeOK
  <2>5. CASE Continues(r)
    BY <1>2, <2>5 DEF Continues, Holds
  <2>6. QED
    BY <2>1, <2>2, <2>3, <2>4, <2>5, RequestFate
<1>3. QED
  BY <1>1, <1>2 DEF Holds

\* A token is used up by a request that carries it, and that then has its answer.
LEMMA SpentStep ==
  ASSUME TypeOK, [Next]_vars, NEW t \in Tokens, status'[t] \in Spent, status[t] \notin Spent
  PROVE  \E r \in Requests : /\ request[r].token = t
                             /\ request[r].client \in Clients
                             /\ request'[r].client = request[r].client
                             /\ request'[r].token = t
                             /\ request'[r].at \in {"granted", "cleared"}
<1>1. ASSUME NEW r \in Requests, RevokeOwn(r)
      PROVE  /\ request[r].token = t /\ request[r].client \in Clients
             /\ request'[r].client = request[r].client /\ request'[r].token = t
             /\ request'[r].at = "cleared"
  <2>1. request[r].token = t
    BY <1>1 DEF RevokeOwn, Revoke
  <2>2. request[r].client \in Clients
    BY <1>1 DEF RevokeOwn, At, TypeOK, RequestOK
  <2>3. /\ request'[r].at = "cleared" /\ request'[r].client = request[r].client
        /\ request'[r].token = request[r].token
    BY <1>1 DEF RevokeOwn, Goto, TypeOK
  <2>4. QED
    BY <2>1, <2>2, <2>3
<1>2. ASSUME NEW r \in Requests, NEW x \in Tokens, Rotate(r, x)
      PROVE  /\ request[r].token = t /\ request[r].client \in Clients
             /\ request'[r].client = request[r].client /\ request'[r].token = t
             /\ request'[r].at = "granted"
  <2>1. request[r].token = t
    BY <1>2 DEF Rotate, Revoke, Spent
  <2>2. request[r].client \in Clients
    BY <1>2 DEF Rotate, At, TypeOK, RequestOK
  <2>3. /\ request'[r].at = "granted" /\ request'[r].client = request[r].client
        /\ request'[r].token = request[r].token
    BY <1>2 DEF Rotate, Grant, TypeOK
  <2>4. QED
    BY <2>1, <2>2, <2>3
<1>3. ASSUME NEW r \in Requests, NEW x \in Tokens, IssueToken(r, x)
      PROVE  FALSE
  BY <1>3 DEF IssueToken, Spent, TypeOK
<1>4. ASSUME NEW which, NEW reason, reason \notin Spent, status' = Revoke(which, reason)
      PROVE  FALSE
  BY <1>4 DEF Revoke
<1>5. ASSUME NEW r \in Requests, Alarm(r) PROVE FALSE
  BY <1>4, <1>5 DEF Alarm, Spent
<1>6. ASSUME NEW r \in Requests, NEW c \in Clients, Erase(r, c) PROVE FALSE
  BY <1>4, <1>6 DEF Erase, Spent
<1>7. ASSUME NEW c \in Clients, NEW x \in Tokens, SignOut(c, x) PROVE FALSE
  BY <1>4, <1>7 DEF SignOut, Spent
<1>8. ASSUME status' = status PROVE FALSE
  BY <1>8
<1>9. QED
  BY <1>1, <1>2, <1>3, <1>5, <1>6, <1>7, <1>8 DEF Next, Authenticate, Refresh, Logout, Send,
     Lookup, Answer, LoseAnswer, StatementFails, Expire, vars, tokenVars

-----------------------------------------------------------------------------
(* A token is in the hands of one client *)

LEMMA InitHolder == Init => HolderInv
BY NoTokenAssumption, NoClientAssumption DEF Init, HolderInv, Holds, Idle

LEMMA HolderStep == TypeOK /\ IssuedInv /\ HolderInv /\ [Next]_vars => HolderInv'
<1> SUFFICES ASSUME TypeOK, IssuedInv, HolderInv, [Next]_vars PROVE HolderInv'
  OBVIOUS
<1>0. \A r \in Requests :
        /\ request[r].at = "idle" => request[r] = Idle
        /\ request[r].at = "issue" => request[r].token = NoToken
        /\ request[r].new \in Tokens =>
              /\ request[r].at = "granted"
              /\ status[request[r].new] \notin Spent
              /\ \A c \in Clients : cookie[c] # request[r].new
              /\ \A q \in Requests : request[q].token # request[r].new
              /\ \A q \in Requests : request[q].new = request[r].new => q = r
  BY DEF HolderInv
<1>1. ASSUME NEW c \in Clients, NEW t \in Tokens, status[t] = "unused", Holds(c, t)
      PROVE  FALSE
  BY <1>1 DEF Holds, IssuedInv
<1>2. ASSUME NEW c \in Clients, NEW d \in Clients, NEW t \in Tokens, Holds(c, t)', Holds(d, t)'
      PROVE  c = d
  <2>1. CASE Holds(c, t) /\ Holds(d, t)
    BY <2>1 DEF HolderInv
  <2>2. ASSUME NEW q \in Requests, NEW r \in Requests, IssueToken(q, t) \/ Rotate(q, t),
               IssueToken(r, t) \/ Rotate(r, t)
        PROVE  request[q].client = request[r].client
    <3>1. \A x \in {q, r} : request'[x].at = "granted" /\ request[x].at # "granted"
      BY <2>2 DEF IssueToken, Rotate, Grant, At, TypeOK
    <3>2. q # r => request'[r] = request[r]
      BY <2>2 DEF IssueToken, Rotate, Grant, TypeOK
    <3>3. QED
      BY <3>1, <3>2
  <2>3. ASSUME NEW r \in Requests, IssueToken(r, t) \/ Rotate(r, t)
        PROVE  status[t] = "unused"
    BY <2>3 DEF IssueToken, Rotate
  <2>4. QED
    BY <1>1, <1>2, <2>1, <2>2, <2>3, HoldsStep
<1>3. ASSUME NEW r \in Requests, request'[r].at = "idle"
      PROVE  request'[r] = Idle
  <2>1. ASSUME NEW c \in Clients, Refresh(r, c) \/ Logout(r, c) \/ Authenticate(r, c) \/ Erase(r, c)
        PROVE  FALSE
    BY <1>3, <2>1 DEF Refresh, Logout, Send, Authenticate, Erase, TypeOK
  <2>2. ASSUME Lookup(r) \/ RevokeOwn(r), request'[r] # Idle
        PROVE  FALSE
    BY <1>3, <2>2 DEF Lookup, RevokeOwn, Goto, Refuse, LookupOutcome, TypeOK
  <2>3. ASSUME NEW t \in Tokens, IssueToken(r, t) \/ Rotate(r, t)
        PROVE  FALSE
    BY <1>3, <2>3 DEF IssueToken, Rotate, Grant, TypeOK
  <2>4. QED
    BY <1>0, <1>3, <2>1, <2>2, <2>3, RequestStep
<1>4. ASSUME NEW r \in Requests, request'[r].at = "issue"
      PROVE  request'[r].token = NoToken
  <2>1. ASSUME NEW c \in Clients, Refresh(r, c) \/ Logout(r, c) \/ Erase(r, c)
        PROVE  FALSE
    BY <1>4, <2>1 DEF Refresh, Logout, Send, Erase, TypeOK
  <2>2. ASSUME NEW c \in Clients, Authenticate(r, c)
        PROVE  request'[r].token = NoToken
    BY <2>2 DEF Authenticate, TypeOK
  <2>3. ASSUME Lookup(r) \/ RevokeOwn(r), request'[r] # Idle
        PROVE  FALSE
    BY <1>4, <2>3 DEF Lookup, RevokeOwn, Goto, Refuse, LookupOutcome, TypeOK
  <2>4. ASSUME NEW t \in Tokens, IssueToken(r, t) \/ Rotate(r, t)
        PROVE  FALSE
    BY <1>4, <2>4 DEF IssueToken, Rotate, Grant, TypeOK
  <2>5. QED
    BY <1>0, <1>4, <2>1, <2>2, <2>3, <2>4, RequestStep DEF Idle
<1>5. ASSUME NEW r \in Requests, NEW t \in Tokens, request'[r].new = t
      PROVE  /\ request'[r].at = "granted"
             /\ status'[t] \notin Spent
             /\ \A c \in Clients : cookie'[c] # t
             /\ \A q \in Requests : request'[q].token # t
             /\ \A q \in Requests : request'[q].new = t => q = r
  <2>1. ASSUME NEW x \in Tokens, IssueToken(r, x) \/ Rotate(r, x)
        PROVE  /\ request'[r].at = "granted"
               /\ status'[t] \notin Spent
               /\ \A c \in Clients : cookie'[c] # t
               /\ \A q \in Requests : request'[q].token # t
               /\ \A q \in Requests : request'[q].new = t => q = r
    <3>1. x = t
      BY <1>5, <2>1 DEF IssueToken, Rotate, Grant, TypeOK
    <3>2. request'[r].at = "granted" /\ status'[t] = "live" /\ status[t] = "unused"
      BY <2>1, <3>1 DEF IssueToken, Rotate, Grant, TypeOK, Revoke
    <3>3. cookie' = cookie
      BY <2>1 DEF IssueToken, Rotate
    <3>4. \A q \in Requests : /\ request'[q].token = request[q].token
                              /\ q # r => request'[q] = request[q]
      <4>1. Grant(r, t)
        BY <2>1, <3>1 DEF IssueToken, Rotate
      <4>2. request'[r] = [request[r] EXCEPT !.at = "granted", !.new = t]
        BY <4>1 DEF Grant, TypeOK, RequestType
      <4>3. request'[r].token = request[r].token
        BY <4>2 DEF TypeOK
      <4>4. QED
        BY <4>1, <4>3 DEF Grant, TypeOK
    <3>5. \A c \in Clients : cookie'[c] # t
      BY <3>2, <3>3 DEF IssuedInv
    <3>6. ASSUME NEW q \in Requests
          PROVE  request'[q].token # t /\ (request'[q].new = t => q = r)
      <4>1. request[q].token # t /\ request[q].new # t
        BY <3>2 DEF IssuedInv
      <4>2. QED
        BY <3>4, <4>1
    <3>7. QED
      BY <3>2, <3>5, <3>6 DEF Spent
  <2>2. CASE request'[r] = request[r]
    <3>1. /\ request[r].new = t /\ request[r].at = "granted"
          /\ status[t] \notin Spent /\ status[t] # "unused"
          /\ \A c \in Clients : cookie[c] # t
          /\ \A q \in Requests : request[q].token # t
          /\ \A q \in Requests : request[q].new = t => q = r
      BY <1>0, <1>5, <2>2 DEF IssuedInv
    <3>2. status'[t] \notin Spent
      BY <3>1, SpentStep
    <3>3. ASSUME NEW c \in Clients, cookie'[c] = t
          PROVE  FALSE
      <4>1. PICK q \in Requests : Answer(q)
        BY <3>1, <3>3 DEF Next, Authenticate, Refresh, Logout, Send, Erase, Lookup, Alarm,
           RevokeOwn, LoseAnswer, StatementFails, IssueToken, Rotate, SignOut, Expire, vars
      <4>2. request[q].new = t
        BY <3>1, <3>3, <4>1, NoTokenAssumption DEF Answer, AnsweredCookie, TypeOK
      <4>3. request'[r] = Idle
        BY <3>1, <4>1, <4>2 DEF Answer, TypeOK
      <4>4. QED
        BY <1>5, <4>3, NoTokenAssumption DEF Idle
    <3>4. ASSUME NEW q \in Requests
          PROVE  /\ request'[q].token # t
                 /\ request'[q].new = t => q = r
      <4>1. CASE request'[q] = request[q]
        BY <3>1, <4>1
      <4>2. CASE request'[q] = Idle
        BY <4>2, NoTokenAssumption DEF Idle
      <4>3. ASSUME NEW c \in Clients, request'[q].token = cookie[c], request'[q].new = NoToken
            PROVE  request'[q].token # t /\ request'[q].new # t
        BY <3>1, <4>3, NoTokenAssumption
      <4>4. ASSUME NEW c \in Clients, Authenticate(q, c) \/ Erase(q, c)
            PROVE  request'[q].token # t /\ request'[q].new # t
        BY <4>4, NoTokenAssumption DEF Authenticate, Erase, TypeOK
      <4>5. CASE Continues(q)
        BY <3>1, <4>5 DEF Continues, IssueToken, Rotate
      <4>6. QED
        BY <4>1, <4>2, <4>3, <4>4, <4>5, RequestFate
    <3>5. QED
      BY <1>5, <2>2, <3>1, <3>2, <3>3, <3>4
  <2>3. request'[r] # Idle
    BY <1>5, NoTokenAssumption DEF Idle
  <2>4. ASSUME NEW c \in Clients, Authenticate(r, c) \/ Erase(r, c)
        PROVE  FALSE
    BY <1>5, <2>4, NoTokenAssumption DEF Authenticate, Erase, TypeOK
  <2>5. ASSUME Continues(r), ~ \E x \in Tokens : IssueToken(r, x) \/ Rotate(r, x)
        PROVE  FALSE
    BY <1>0, <1>5, <2>5 DEF Continues
  <2>6. QED
    BY <1>5, <2>1, <2>2, <2>3, <2>4, <2>5, RequestFate, NoTokenAssumption
<1>6. QED
  BY <1>2, <1>3, <1>4, <1>5 DEF HolderInv

-----------------------------------------------------------------------------
(* A client that is not disturbed has one request in flight, and answers come *)

LEMMA DisturbedGrows == ASSUME [Next]_vars PROVE disturbed \subseteq disturbed'
<1>1. ASSUME NEW r \in Requests, NEW c \in Clients, Refresh(r, c) \/ Logout(r, c)
      PROVE  disturbed \subseteq disturbed'
  BY <1>1 DEF Refresh, Logout, Send
<1>2. ASSUME NEW r \in Requests, LoseAnswer(r)
      PROVE  disturbed \subseteq disturbed'
  BY <1>2 DEF LoseAnswer
<1>3. ASSUME NEW r \in Requests, NEW c \in Clients, Authenticate(r, c) \/ Erase(r, c)
      PROVE  disturbed' = disturbed
  BY <1>3 DEF Authenticate, Erase, history
<1>4. ASSUME NEW r \in Requests,
             Lookup(r) \/ Alarm(r) \/ RevokeOwn(r) \/ Answer(r) \/ StatementFails(r)
      PROVE  disturbed' = disturbed
  BY <1>4 DEF Lookup, Alarm, RevokeOwn, Answer, StatementFails, history
<1>5. ASSUME NEW r \in Requests, NEW t \in Tokens, IssueToken(r, t) \/ Rotate(r, t)
      PROVE  disturbed' = disturbed
  BY <1>5 DEF IssueToken, Rotate, history
<1>6. ASSUME NEW c \in Clients, NEW t \in Tokens, SignOut(c, t)
      PROVE  disturbed' = disturbed
  BY <1>6 DEF SignOut, history
<1>7. ASSUME NEW t \in Tokens, Expire(t)
      PROVE  disturbed' = disturbed
  BY <1>7 DEF Expire, history
<1>8. CASE UNCHANGED vars
  BY <1>8 DEF vars, history
<1>9. QED
  BY <1>1, <1>2, <1>3, <1>4, <1>5, <1>6, <1>7, <1>8 DEF Next

\* How a handler comes to its end.
LEMMA RequestEnds ==
  ASSUME TypeOK, [Next]_vars, NEW r \in Requests, request'[r] = Idle, request[r] # Idle
  PROVE  Lookup(r) \/ Alarm(r) \/ StatementFails(r) \/ Answer(r) \/ LoseAnswer(r)
<1>1. ASSUME NEW q \in Requests, NEW c \in Clients,
             Authenticate(q, c) \/ Refresh(q, c) \/ Logout(q, c) \/ Erase(q, c)
      PROVE  FALSE
  BY <1>1 DEF Authenticate, Refresh, Logout, Erase, Send, TypeOK, Idle
<1>2. ASSUME NEW q \in Requests, RevokeOwn(q)
      PROVE  FALSE
  BY <1>2 DEF RevokeOwn, Goto, TypeOK, Idle
<1>3. ASSUME NEW q \in Requests, NEW t \in Tokens, IssueToken(q, t) \/ Rotate(q, t)
      PROVE  FALSE
  BY <1>3 DEF IssueToken, Rotate, Grant, TypeOK, Idle
<1>4. ASSUME NEW q \in Requests, q # r,
             Lookup(q) \/ Alarm(q) \/ StatementFails(q) \/ Answer(q) \/ LoseAnswer(q)
      PROVE  FALSE
  BY <1>4 DEF Lookup, Alarm, StatementFails, Answer, LoseAnswer, Goto, Refuse, TypeOK
<1>5. request' # request
  OBVIOUS
<1>6. QED
  BY <1>1, <1>2, <1>3, <1>4, <1>5 DEF Next, SignOut, Expire, vars

LEMMA CarriesStep ==
  ASSUME TypeOK, [Next]_vars, NEW r \in Requests, NEW c \in Clients, NEW t \in Tokens,
         Carries(r, c, t)'
  PROVE  \/ Carries(r, c, t) /\ (request'[r] = request[r] \/ Continues(r))
         \/ (Refresh(r, c) \/ Logout(r, c)) /\ cookie[c] = t
<1>1. request'[r].client = c /\ request'[r].token = t
  BY DEF Carries
<1>2. request'[r] # Idle
  BY <1>1, NoTokenAssumption DEF Idle
<1>3. ASSUME NEW d \in Clients, Authenticate(r, d) \/ Erase(r, d)
      PROVE  FALSE
  BY <1>1, <1>3, NoTokenAssumption DEF Authenticate, Erase, TypeOK
<1>4. QED
  BY <1>1, <1>2, <1>3, RequestFate DEF Carries, Continues

\* A client that is not disturbed sends its cookie only when no other request carries it.
LEMMA CalmSends ==
  ASSUME NEW r \in Requests, NEW c \in Clients, Refresh(r, c) \/ Logout(r, c), c \notin disturbed',
         NEW q \in Requests, NEW t \in Tokens, Carries(q, c, t)
  PROVE  FALSE
BY NoTokenAssumption DEF Refresh, Logout, Send, CookieInFlight, Carries

LEMMA InitCalm == Init => CalmInv
BY NoTokenAssumption, NoClientAssumption DEF Init, CalmInv, Carries, Idle

LEMMA CalmStep ==
  TypeOK /\ HolderInv /\ CalmInv /\ [Next]_vars => CalmInv'
<1> SUFFICES ASSUME TypeOK, HolderInv, CalmInv, [Next]_vars,
                    NEW c \in Clients, c \notin disturbed'
             PROVE  /\ \A q, r \in Requests, t, x \in Tokens :
                          Carries(q, c, t)' /\ Carries(r, c, x)' => q = r
                    /\ \A t \in Tokens : cookie'[c] = t /\ status'[t] \in Spent =>
                          \E r \in Requests : Carries(r, c, t)'
                    /\ \A r \in Requests, t \in Tokens :
                          /\ Carries(r, c, t)'
                          /\ request'[r].at \in {"lookup", "rotate", "alarm", "revoke"}
                          => status'[t] \notin Spent
  BY DEF CalmInv
<1>0. /\ \A q, r \in Requests, t, x \in Tokens : Carries(q, c, t) /\ Carries(r, c, x) => q = r
      /\ \A t \in Tokens : cookie[c] = t /\ status[t] \in Spent =>
            \E r \in Requests : Carries(r, c, t)
      /\ \A r \in Requests, t \in Tokens :
            Carries(r, c, t) /\ request[r].at \in {"lookup", "rotate", "alarm", "revoke"} =>
               status[t] \notin Spent
  BY DisturbedGrows DEF CalmInv
<1>1. ASSUME NEW q \in Requests, NEW r \in Requests, NEW t \in Tokens, NEW x \in Tokens,
             Carries(q, c, t)', Carries(r, c, x)', q # r
      PROVE  FALSE
  <2>1. ~ ((Refresh(q, c) \/ Logout(q, c)) /\ (Refresh(r, c) \/ Logout(r, c)))
    <3>1. SUFFICES ASSUME Refresh(q, c) \/ Logout(q, c), Refresh(r, c) \/ Logout(r, c)
                   PROVE  FALSE
      OBVIOUS
    <3>2. request[r].at = "idle" /\ request'[r] = request[r]
      BY <1>1, <3>1 DEF Refresh, Logout, Send, At, TypeOK
    <3>3. request'[r].at # "idle"
      BY <3>1 DEF Refresh, Logout, Send, TypeOK
    <3>4. QED
      BY <3>2, <3>3
  <2>2. QED
    BY <1>0, <1>1, <2>1, CarriesStep, CalmSends
<1>2. ASSUME NEW t \in Tokens, cookie'[c] = t, status'[t] \in Spent
      PROVE  \E r \in Requests : Carries(r, c, t)'
  <2>1. ASSUME NEW r \in Requests, Answer(r), request[r].client = c
        PROVE  FALSE
    <3>1. request[r].new = t /\ status' = status
      BY <1>2, <2>1, NoTokenAssumption DEF Answer, AnsweredCookie, TypeOK, tokenVars
    <3>2. QED
      BY <1>2, <3>1 DEF HolderInv
  <2>2. cookie[c] = t
    <3>1. CASE cookie' = cookie
      BY <1>2, <3>1
    <3>2. CASE cookie' # cookie
      <4>1. PICK r \in Requests : Answer(r)
        BY <3>2 DEF Next, Authenticate, Refresh, Logout, Send, Erase, Lookup, Alarm, RevokeOwn,
           LoseAnswer, StatementFails, IssueToken, Rotate, SignOut, Expire, vars
      <4>2. QED
        BY <1>2, <2>1, <4>1 DEF Answer, TypeOK
    <3>3. QED
      BY <3>1, <3>2
  <2>3. CASE status[t] \in Spent
    <3>1. PICK r \in Requests : Carries(r, c, t)
      BY <1>0, <2>2, <2>3
    <3>2. request[r].token = t /\ request[r].client = c
      BY <3>1 DEF Carries
    <3>3. request[r] # Idle /\ request[r].at \notin {"idle", "issue"}
      BY <3>2, NoTokenAssumption DEF HolderInv, Idle
    <3>4. request[r].at \notin {"lookup", "rotate", "alarm", "revoke"}
      BY <1>0, <2>3, <3>1
    <3>5. request'[r] # Idle
      <4>1. ~Lookup(r) /\ ~Alarm(r) /\ ~StatementFails(r)
        BY <3>3, <3>4 DEF Lookup, Alarm, StatementFails, At
      <4>2. ~Answer(r)
        BY <2>1, <3>2
      <4>3. ~LoseAnswer(r)
        BY <3>2, NoTokenAssumption DEF LoseAnswer
      <4>4. QED
        BY <3>3, <4>1, <4>2, <4>3, RequestEnds
    <3>6. \A d \in Clients :
             ~Refresh(r, d) /\ ~Logout(r, d) /\ ~Authenticate(r, d) /\ ~Erase(r, d)
      BY <3>3 DEF Refresh, Logout, Send, Authenticate, Erase, At
    <3>7. request'[r] = request[r]
      BY <3>3, <3>4, <3>5, <3>6, RequestFate DEF Continues
    <3>8. QED
      BY <3>2, <3>7 DEF Carries
  <2>4. CASE status[t] \notin Spent
    <3>1. PICK r \in Requests : /\ request[r].token = t
                                /\ request[r].client \in Clients
                                /\ request'[r].client = request[r].client
                             /\ request'[r].token = t
      BY <1>2, <2>4, SpentStep
    <3>2. request[r].client = c
      BY <2>2, <3>1 DEF HolderInv, Holds
    <3>3. QED
      BY <3>1, <3>2 DEF Carries
  <2>5. QED
    BY <2>3, <2>4
<1>3. ASSUME NEW r \in Requests, NEW t \in Tokens, Carries(r, c, t)',
             request'[r].at \in {"lookup", "rotate", "alarm", "revoke"}, status'[t] \in Spent
      PROVE  FALSE
  <2>1. ASSUME Refresh(r, c) \/ Logout(r, c), cookie[c] = t
        PROVE  FALSE
    <3>1. status[t] \in Spent
      BY <1>3, <2>1 DEF Refresh, Logout, Send, tokenVars
    <3>2. QED
      BY <1>0, <2>1, <3>1, CalmSends
  <2>2. ASSUME Carries(r, c, t), request'[r] = request[r] \/ Continues(r)
        PROVE  FALSE
    <3>1. request[r].at # "issue" /\ request[r].token = t /\ request[r].client = c
      BY <2>2, NoTokenAssumption DEF Carries, HolderInv
    <3>2. request[r].at \in {"lookup", "rotate", "alarm", "revoke"}
      BY <1>3, <2>2, <3>1 DEF Continues
    <3>3. status[t] \notin Spent
      BY <1>0, <2>2, <3>2
    <3>4. PICK q \in Requests : /\ request[q].token = t
                                /\ request[q].client \in Clients
                                /\ request'[q].at \in {"granted", "cleared"}
      BY <1>3, <3>3, SpentStep
    <3>5. request[q].client = c
      BY <3>1, <3>4 DEF HolderInv, Holds
    <3>6. q = r
      BY <1>0, <2>2, <3>4, <3>5 DEF Carries
    <3>7. QED
      BY <1>3, <3>4, <3>6
  <2>3. QED
    BY <1>3, <2>1, <2>2, CarriesStep
<1>4. QED
  BY <1>1, <1>2, <1>3

-----------------------------------------------------------------------------
(* Erased users, and the theorem *)

LEMMA InitErased == Init => ErasedInv
BY DEF Init, ErasedInv, At, Idle

LEMMA ErasedStep == TypeOK /\ IssuedInv /\ ErasedInv /\ [Next]_vars => ErasedInv'
<1> SUFFICES ASSUME TypeOK, IssuedInv, ErasedInv, [Next]_vars PROVE ErasedInv'
  OBVIOUS
<1>1. deleted \subseteq deleted'
  BY DEF Next, Authenticate, Refresh, Logout, Send, Erase, Lookup, Alarm, RevokeOwn, Answer,
     LoseAnswer, StatementFails, IssueToken, Rotate, SignOut, Expire, vars
<1>2. ASSUME NEW t \in Tokens, status[t] \in Revocations
      PROVE  status'[t] = status[t]
  <2>1. ASSUME NEW which, NEW reason \in Revocations, status' = Revoke(which, reason)
        PROVE  status'[t] = status[t]
    BY <1>2, <2>1, RevokeFacts DEF Revocations
  <2>2. ASSUME NEW r \in Requests, NEW x \in Tokens, Rotate(r, x)
        PROVE  status'[t] = status[t]
    BY <1>2, <2>2 DEF Rotate, Revoke, Live, Revocations
  <2>3. ASSUME NEW r \in Requests, NEW x \in Tokens, IssueToken(r, x)
        PROVE  status'[t] = status[t]
    BY <1>2, <2>3 DEF IssueToken, TypeOK, Revocations
  <2>4. ASSUME NEW r \in Requests, Alarm(r) \/ RevokeOwn(r)
        PROVE  status'[t] = status[t]
    BY <2>1, <2>4 DEF Alarm, RevokeOwn, Revocations
  <2>5. ASSUME NEW r \in Requests, NEW c \in Clients, Erase(r, c)
        PROVE  status'[t] = status[t]
    BY <2>1, <2>5 DEF Erase, Revocations
  <2>6. ASSUME NEW c \in Clients, NEW x \in Tokens, SignOut(c, x)
        PROVE  status'[t] = status[t]
    BY <2>1, <2>6 DEF SignOut, Revocations
  <2>7. QED
    BY <2>2, <2>3, <2>4, <2>5, <2>6 DEF Next, Authenticate, Refresh, Logout, Send, Lookup,
       Answer, LoseAnswer, StatementFails, Expire, vars, tokenVars
<1>3. ASSUME NEW t \in Tokens, status'[t] = "erased"
      PROVE  owner'[t] \in deleted'
  <2>1. CASE status[t] = "erased"
    BY <1>1, <2>1, RowsStay DEF ErasedInv
  <2>2. CASE status[t] # "erased"
    <3>1. ASSUME NEW which, NEW reason, status' = Revoke(which, reason), reason # "erased"
          PROVE  FALSE
      BY <1>3, <2>2, <3>1 DEF Revoke
    <3>2. ASSUME NEW r \in Requests, NEW c \in Clients, Erase(r, c)
          PROVE  owner'[t] \in deleted'
      BY <1>3, <2>2, <3>2 DEF Erase, Revoke, OwnedBy
    <3>3. ASSUME NEW r \in Requests, Alarm(r) \/ RevokeOwn(r)
          PROVE  FALSE
      BY <3>1, <3>3 DEF Alarm, RevokeOwn
    <3>4. ASSUME NEW c \in Clients, NEW x \in Tokens, SignOut(c, x)
          PROVE  FALSE
      BY <3>1, <3>4 DEF SignOut
    <3>5. ASSUME NEW r \in Requests, NEW x \in Tokens, IssueToken(r, x) \/ Rotate(r, x)
          PROVE  FALSE
      BY <1>3, <2>2, <3>5 DEF IssueToken, Rotate, Revoke, TypeOK
    <3>6. QED
      BY <1>3, <2>2, <3>2, <3>3, <3>4, <3>5 DEF Next, Authenticate, Refresh, Logout, Send,
         Lookup, Answer, LoseAnswer, StatementFails, Expire, vars, tokenVars
  <2>3. QED
    BY <2>1, <2>2
<1>4. ASSUME NEW r \in Requests, request'[r].at = "alarm"
      PROVE  status'[request'[r].token] \in Revocations \ {"erased"}
  <2>1. CASE request'[r] = request[r]
    <3>1. /\ request[r].token \in Tokens
          /\ status[request[r].token] \in Revocations \ {"erased"}
      BY <1>4, <2>1 DEF TypeOK, RequestOK, ErasedInv, At
    <3>2. QED
      BY <1>2, <2>1, <3>1
  <2>2. ASSUME NEW c \in Clients,
               Authenticate(r, c) \/ Refresh(r, c) \/ Logout(r, c) \/ Erase(r, c)
        PROVE  FALSE
    BY <1>4, <2>2 DEF Authenticate, Refresh, Logout, Erase, Send, TypeOK
  <2>3. ASSUME NEW t \in Tokens, IssueToken(r, t) \/ Rotate(r, t)
        PROVE  FALSE
    BY <1>4, <2>3 DEF IssueToken, Rotate, Grant, TypeOK
  <2>4. request'[r] # Idle /\ ~RevokeOwn(r)
    BY <1>4 DEF Idle, RevokeOwn, Goto, TypeOK
  <2>5. CASE Lookup(r)
    <3>1. request[r].token \in Tokens
      BY <2>5 DEF Lookup, At, TypeOK, RequestOK
    <3>2. LookupOutcome(request[r].token) = "alarm"
      BY <1>4, <2>4, <2>5 DEF Lookup, Goto, Refuse, TypeOK
    <3>3. /\ status[request[r].token] \in Revocations
          /\ owner[request[r].token] \notin deleted
      BY <3>2 DEF LookupOutcome, Revoked
    <3>4. status[request[r].token] # "erased"
      BY <3>1, <3>3 DEF ErasedInv
    <3>5. request'[r].token = request[r].token
      BY <2>5, <3>2 DEF Lookup, Goto, TypeOK
    <3>6. QED
      BY <1>2, <3>1, <3>3, <3>4, <3>5
  <2>6. QED
    BY <2>1, <2>2, <2>3, <2>4, <2>5, RequestStep
<1>5. QED
  BY <1>3, <1>4 DEF ErasedInv, At

\* The reuse alarm has a cause outside the client that sets it off, or that client was
\* disturbed: well-behaved clients on a reliable network do not log themselves out.
THEOREM NoClientAlarmsItself == Spec => []NoFalseAlarm
<1>1. Spec => [](HolderInv /\ CalmInv /\ ErasedInv)
  BY IssuedHolds, InitHolder, InitCalm, InitErased, HolderStep, CalmStep, ErasedStep, PTL DEF Spec
<1>2. TypeOK /\ CalmInv /\ ErasedInv => NoFalseAlarm
  <2> SUFFICES ASSUME TypeOK, CalmInv, ErasedInv, NEW r \in Requests, At(r, "alarm"),
                      request[r].client \notin disturbed
               PROVE  status[request[r].token] \in {"signedOut", "alarmed"}
    BY DEF NoFalseAlarm
  <2>1. request[r].client \in Clients /\ request[r].token \in Tokens
    BY DEF At, TypeOK, RequestOK
  <2>2. status[request[r].token] \notin Spent
    BY <2>1 DEF CalmInv, Carries, At
  <2>3. QED
    BY <2>2 DEF ErasedInv, Revocations, Spent
<1>3. QED
  BY <1>1, <1>2, TypeCorrect, PTL
=============================================================================
