---------------------------- MODULE AuthSessions ----------------------------
(***************************************************************************)
(* Refresh tokens of linguamentor (auth/service.py, auth/router.py): login *)
(* issues one, every refresh rotates it, logout, sign-out, reuse detection *)
(* and erasure revoke it.  Handlers interleave at their awaits, on the one *)
(* table refresh_tokens.                                                   *)
(*                                                                         *)
(* Clients are the learners' own browsers: each presents the cookie it     *)
(* holds.  What they get wrong comes from the network (an answer that is   *)
(* lost) and from sending two requests at once (two tabs).                 *)
(***************************************************************************)
EXTENDS Naturals, FiniteSets

CONSTANTS
    Users,
    Clients,     \* browsers; each has one cookie
    Account,     \* the user a client logs in as
    Tokens,      \* bounds how many are ever issued
    Requests,    \* bounds how many are in flight
    MaxExpired,  \* bounds how many tokens expire
    NoToken, NoClient

ASSUME UsersAssumption == Users # {}
ASSUME AccountAssumption == Account \in [Clients -> Users]
ASSUME MaxExpiredAssumption == MaxExpired \in Nat
ASSUME NoTokenAssumption == NoToken \notin Tokens
ASSUME NoClientAssumption == NoClient \notin Clients

VARIABLES
    deleted,     \* users with deleted_at
    status,      \* per token; the code has one column revoked_at for all the reasons
    owner,       \* user_id of the token's row
    session,     \* the token issued at the login this one descends from
    expired,     \* tokens past expires_at
    cookie,      \* per client: lm_refresh_token
    request,     \* per request: where its handler is, and what it carries
    shared,      \* history: sessions of which one token was rotated by two requests at once
    disturbed    \* history: clients that lost an answer or sent two requests at once

tokenVars == <<status, owner, session, expired>>
history == <<shared, disturbed>>
vars == <<deleted, tokenVars, cookie, request, history>>

Revocations == {"rotated", "loggedOut", "signedOut", "alarmed", "erased"}
Steps == {"idle", "issue", "lookup", "rotate", "alarm", "revoke", "granted", "cleared"}

Idle == [at |-> "idle", client |-> NoClient, token |-> NoToken, new |-> NoToken]

\* What a request carries at each step of its handler.
RequestOK(q) ==
    /\ q.at # "idle" => q.client \in Clients
    /\ q.at \in {"lookup", "rotate", "alarm", "revoke"} => q.token \in Tokens
    /\ q.at = "granted" => q.new \in Tokens

\* Every variable has its type, and a handler has what its step needs.
TypeOK ==
    /\ deleted \subseteq Users
    /\ status \in [Tokens -> {"unused", "live"} \cup Revocations]
    /\ owner \in [Tokens -> Users]
    /\ session \in [Tokens -> Tokens]
    /\ expired \subseteq Tokens
    /\ cookie \in [Clients -> Tokens \cup {NoToken}]
    /\ request \in [Requests -> [at : Steps, client : Clients \cup {NoClient},
                                 token : Tokens \cup {NoToken},
                                 new : Tokens \cup {NoToken}]]
    /\ \A r \in Requests : RequestOK(request[r])
    /\ shared \subseteq Tokens
    /\ disturbed \subseteq Clients

\* The values of owner and session of a token that is not issued mean nothing.
Init ==
    /\ deleted = {}
    /\ status = [t \in Tokens |-> "unused"]
    /\ owner = [t \in Tokens |-> CHOOSE u \in Users : TRUE]
    /\ session = [t \in Tokens |-> t]
    /\ expired = {}
    /\ cookie = [c \in Clients |-> NoToken]
    /\ request = [r \in Requests |-> Idle]
    /\ shared = {}
    /\ disturbed = {}

-----------------------------------------------------------------------------
(* Tokens and requests *)

At(r, step) == request[r].at = step

Live(t) == status[t] = "live"

\* revoked_at IS NOT NULL
Revoked(t) == status[t] \in Revocations

\* UPDATE refresh_tokens SET revoked_at = ... WHERE t \in which AND revoked_at IS NULL
Revoke(which, reason) ==
    [t \in Tokens |-> IF t \in which /\ Live(t) THEN reason ELSE status[t]]

OwnedBy(u) == {t \in Tokens : status[t] # "unused" /\ owner[t] = u}

Goto(r, step) == request' = [request EXCEPT ![r].at = step]

\* The handler answers with an error, which leaves the cookie as it is.
Refuse(r) == request' = [request EXCEPT ![r] = Idle]

\* The handler answers with a new cookie.
Grant(r, t) == request' = [request EXCEPT ![r].at = "granted", ![r].new = t]

\* The client has a request in flight that carries its cookie.
CookieInFlight(c) ==
    \E r \in Requests : request[r].client = c /\ request[r].token # NoToken

\* Mutant: a missing cookie is not refused.
Send_WithoutCookie(r, c, step) ==
    /\ At(r, "idle")
    /\ request' = [request EXCEPT ![r] =
                     [at |-> step, client |-> c, token |-> cookie[c], new |-> NoToken]]
    /\ UNCHANGED <<deleted, tokenVars, cookie, history>>

\* The client sends a request with its cookie, which the handler insists on.
Send(r, c, step) ==
    /\ At(r, "idle")
    /\ cookie[c] # NoToken
    /\ request' = [request EXCEPT ![r] =
                     [at |-> step, client |-> c, token |-> cookie[c], new |-> NoToken]]
    /\ disturbed' = IF CookieInFlight(c) THEN disturbed \cup {c} ELSE disturbed
    /\ UNCHANGED <<deleted, tokenVars, cookie, shared>>

-----------------------------------------------------------------------------
(* Login and registration *)

\* The credentials are right: authenticate_user, register_user and mfa_verify
\* read (or insert) the row of a user who is not deleted.
Authenticate(r, c) ==
    /\ At(r, "idle")
    /\ Account[c] \notin deleted
    /\ request' = [request EXCEPT ![r] =
                     [at |-> "issue", client |-> c, token |-> NoToken, new |-> NoToken]]
    /\ UNCHANGED <<deleted, tokenVars, cookie, history>>

IssueToken(r, t) ==
    /\ At(r, "issue")
    /\ status[t] = "unused"
    /\ status' = [status EXCEPT ![t] = "live"]
    /\ owner' = [owner EXCEPT ![t] = Account[request[r].client]]
    /\ session' = [session EXCEPT ![t] = t]
    /\ Grant(r, t)
    /\ UNCHANGED <<deleted, expired, cookie, history>>

-----------------------------------------------------------------------------
(* Refresh *)

Refresh(r, c) == Send(r, c, "lookup")

\* Mutant: `WHERE ... u.deleted_at IS NULL' is forgotten.
LookupOutcome_IgnoresErasure(t) ==
    IF Revoked(t) THEN "alarm" ELSE IF t \in expired THEN "refuse" ELSE "rotate"

\* Mutant: revoked_at is not looked at.
LookupOutcome_IgnoresRevocation(t) ==
    IF owner[t] \in deleted \/ t \in expired THEN "refuse" ELSE "rotate"

\* The SELECT, and the checks in the order the code makes them.
LookupOutcome(t) ==
    IF owner[t] \in deleted THEN "refuse"
    ELSE IF Revoked(t) THEN "alarm"
    ELSE IF t \in expired THEN "refuse"
    ELSE "rotate"

Lookup(r) ==
    LET t == request[r].token
        outcome == LookupOutcome(t)
    IN
    /\ At(r, "lookup")
    /\ IF outcome = "refuse" THEN Refuse(r) ELSE Goto(r, outcome)
    /\ shared' = IF /\ outcome = "rotate"
                    /\ \E q \in Requests \ {r} : At(q, "rotate") /\ request[q].token = t
                 THEN shared \cup {session[t]} ELSE shared
    /\ UNCHANGED <<deleted, tokenVars, cookie, disturbed>>

\* Reuse detection, with the user_id the SELECT returned.
Alarm(r) ==
    /\ At(r, "alarm")
    /\ status' = Revoke(OwnedBy(owner[request[r].token]), "alarmed")
    /\ Refuse(r)
    /\ UNCHANGED <<deleted, owner, session, expired, cookie, history>>

\* Mutant: the presented token stays valid.
Rotate_KeepsOld(r, t) ==
    /\ At(r, "rotate")
    /\ status[t] = "unused"
    /\ status' = [status EXCEPT ![t] = "live"]
    /\ owner' = [owner EXCEPT ![t] = owner[request[r].token]]
    /\ session' = [session EXCEPT ![t] = session[request[r].token]]
    /\ Grant(r, t)
    /\ UNCHANGED <<deleted, expired, cookie, history>>

\* The transaction: revoke the presented token, whatever has happened to it since
\* the SELECT, and insert its successor.
Rotate(r, t) ==
    LET old == request[r].token IN
    /\ At(r, "rotate")
    /\ status[t] = "unused"
    /\ status' = [Revoke({old}, "rotated") EXCEPT ![t] = "live"]
    /\ owner' = [owner EXCEPT ![t] = owner[old]]
    /\ session' = [session EXCEPT ![t] = session[old]]
    /\ Grant(r, t)
    /\ UNCHANGED <<deleted, expired, cookie, history>>

-----------------------------------------------------------------------------
(* Logout, signing out another session, erasure *)

Logout(r, c) == Send(r, c, "revoke")

RevokeOwn(r) ==
    /\ At(r, "revoke")
    /\ status' = Revoke({request[r].token}, "loggedOut")
    /\ Goto(r, "cleared")
    /\ UNCHANGED <<deleted, owner, session, expired, cookie, history>>

\* DELETE /user/sessions/{id}: one statement, and its answer changes no cookie.
SignOut(c, t) ==
    /\ cookie[c] # NoToken
    /\ t \in OwnedBy(Account[c])
    /\ Live(t)
    /\ status' = Revoke({t}, "signedOut")
    /\ UNCHANGED <<deleted, owner, session, expired, cookie, request, history>>

\* DELETE /user/me: one transaction.
Erase(r, c) ==
    /\ At(r, "idle")
    /\ cookie[c] # NoToken
    /\ deleted' = deleted \cup {Account[c]}
    /\ status' = Revoke(OwnedBy(Account[c]), "erased")
    /\ request' = [request EXCEPT ![r] =
                     [at |-> "cleared", client |-> c, token |-> NoToken, new |-> NoToken]]
    /\ UNCHANGED <<owner, session, expired, cookie, history>>

-----------------------------------------------------------------------------
(* Answers, faults, time *)

\* Mutant: login answers with Set-Cookie, refresh does not.
AnsweredCookie_NotSet(r) ==
    IF At(r, "cleared") THEN NoToken
    ELSE IF request[r].token = NoToken THEN request[r].new
    ELSE cookie[request[r].client]

\* Set-Cookie, or the cookie deleted.
AnsweredCookie(r) == IF At(r, "cleared") THEN NoToken ELSE request[r].new

Answer(r) ==
    /\ request[r].at \in {"granted", "cleared"}
    /\ cookie' = [cookie EXCEPT ![request[r].client] = AnsweredCookie(r)]
    /\ request' = [request EXCEPT ![r] = Idle]
    /\ UNCHANGED <<deleted, tokenVars, history>>

LoseAnswer(r) ==
    /\ request[r].at \in {"granted", "cleared"}
    /\ request' = [request EXCEPT ![r] = Idle]
    /\ disturbed' = IF request[r].token = NoToken THEN disturbed
                    ELSE disturbed \cup {request[r].client}
    /\ UNCHANGED <<deleted, tokenVars, cookie, shared>>

\* Any statement can fail: it, or its transaction, has no effect, and the answer is 500.
StatementFails(r) ==
    /\ request[r].at \in {"issue", "lookup", "alarm", "rotate", "revoke"}
    /\ Refuse(r)
    /\ UNCHANGED <<deleted, tokenVars, cookie, history>>

Expire(t) ==
    /\ Cardinality(expired) < MaxExpired
    /\ Live(t)
    /\ expired' = expired \cup {t}
    /\ UNCHANGED <<deleted, status, owner, session, cookie, request, history>>

Next ==
    \/ \E r \in Requests, c \in Clients :
          \/ Authenticate(r, c)
          \/ Refresh(r, c)
          \/ Logout(r, c)
          \/ Erase(r, c)
    \/ \E r \in Requests :
          \/ Lookup(r)
          \/ Alarm(r)
          \/ RevokeOwn(r)
          \/ Answer(r)
          \/ LoseAnswer(r)
          \/ StatementFails(r)
    \/ \E r \in Requests, t \in Tokens : IssueToken(r, t) \/ Rotate(r, t)
    \/ \E c \in Clients, t \in Tokens : SignOut(c, t)
    \/ \E t \in Tokens : Expire(t)

Spec == Init /\ [][Next]_vars

-----------------------------------------------------------------------------
(* Properties *)

\* The tokens of the login that issued token s which a refresh may still present.
LiveIn(s) == {t \in Tokens : Live(t) /\ session[t] = s}

\* A refresh has read a live token of session s and not yet rotated it.
Rotating(s) ==
    \E r \in Requests : At(r, "rotate") /\ session[request[r].token] = s

\* A login is represented by one valid token at most: every use of a token invalidates
\* it (rotate_refresh_token).  The one exception is a token that two requests had read
\* before either of them rotated it.
OneTokenUnlessShared ==
    \A s \in Tokens \ shared : \A t1, t2 \in LiveIn(s) : t1 = t2

\* Session s has been opened, and nothing is left that could prolong it.
Over(s) == status[s] # "unused" /\ LiveIn(s) = {} /\ ~Rotating(s)

\* A session that is over, by logout, sign-out, reuse detection or erasure, is over for
\* good: none of the refreshes that still present one of its tokens revives it.
EndedStaysEnded == [][\A s \in Tokens : Over(s) => Over(s)']_vars

\* A handler is about to insert a token for user u.
Minting(u) ==
    \E r \in Requests :
        \/ At(r, "issue") /\ Account[request[r].client] = u
        \/ At(r, "rotate") /\ owner[request[r].token] = u

\* After gdpr_erase_user only the handlers that had read the user's row before can still
\* insert a token, and such a token is of no use: no chain of logins and refreshes
\* prolongs the account.
ErasureIsFinal == [][\A u \in deleted : ~Minting(u) => ~Minting(u)']_vars

\* Reuse detection revokes every session of the learner.  A client that sends one
\* request at a time and gets every answer does not set it off by what it does itself:
\* it never presents a token it has rotated or logged out.
NoFalseAlarm ==
    \A r \in Requests :
        At(r, "alarm") => \/ status[request[r].token] \in {"signedOut", "alarmed"}
                          \/ request[r].client \in disturbed
=============================================================================
