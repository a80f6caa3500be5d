-------------------------- MODULE RefreshSessions ---------------------------
(***************************************************************************)
(* internal/service/auth_service.go and the tables users and refresh_      *)
(* sessions, for one account.  A request (an element of Requests, used     *)
(* again and again) reads the session and the user of the refresh token it *)
(* presents before the transaction that rotates the token, so everything   *)
(* it has read may be out of date by then.  Logout is one UPDATE.          *)
(*                                                                         *)
(*   Register, Login:  idle -> persist -> idle                             *)
(*   Refresh:          idle -> lookup -> checkUser -> rotate -> idle       *)
(*                                                                         *)
(* A statement may be refused, or carried out and its reply lost.  The     *)
(* statements of the rotation lock the row they revoke until the commit,   *)
(* so the transaction is one step.                                         *)
(***************************************************************************)
CONSTANTS Tokens,     \* the refresh token IDs that can be generated
          Requests,   \* the requests that run side by side
          NoToken,
          Replies     \* the fates of a statement: "ok", perhaps "refused", "lost"

ASSUME TokensAssumption == NoToken \notin Tokens
ASSUME RepliesAssumption == Replies \subseteq {"ok", "refused", "lost"}

VARIABLES user,       \* the account: "none", "active" or "inactive"
          session,    \* the row of each token: "absent", "active" or "revoked"
          successor,  \* replaced_by_token_id
          expired,    \* the tokens, and their rows, that are past expires_at
          known,      \* the tokens that were handed to the client
          origin,     \* history: the token of the login a session descends from
          used,       \* the tokens that were generated
          pc, presented, fresh   \* of each request: its next step, its token, the new one

vars == <<user, session, successor, expired, known, origin, used, pc, presented, fresh>>
rows == <<session, successor, origin>>

TypeOK ==
  /\ user \in {"none", "active", "inactive"}
  /\ session \in [Tokens -> {"absent", "active", "revoked"}]
  /\ successor \in [Tokens -> Tokens \cup {NoToken}]
  /\ origin \in [Tokens -> Tokens \cup {NoToken}]
  /\ expired \subseteq Tokens
  /\ known \subseteq Tokens
  /\ used \subseteq Tokens
  /\ pc \in [Requests -> {"idle", "persist", "lookup", "checkUser", "rotate"}]
  /\ presented \in [Requests -> Tokens \cup {NoToken}]
  /\ fresh \in [Requests -> Tokens \cup {NoToken}]
  /\ \A r \in Requests :
       /\ pc[r] \in {"lookup", "checkUser", "rotate"} => presented[r] \in Tokens
       /\ pc[r] \in {"persist", "rotate"} => fresh[r] \in Tokens

Init ==
  /\ user = "none"
  /\ session = [t \in Tokens |-> "absent"]
  /\ successor = [t \in Tokens |-> NoToken]
  /\ origin = [t \in Tokens |-> NoToken]
  /\ expired = {}
  /\ known = {}
  /\ used = {}
  /\ pc = [r \in Requests |-> "idle"]
  /\ presented = [r \in Requests |-> NoToken]
  /\ fresh = [r \in Requests |-> NoToken]

Applied(reply) == reply # "refused"

(* The request ends, whether with an answer or with an error.              *)
End(r) ==
  /\ pc' = [pc EXCEPT ![r] = "idle"]
  /\ presented' = [presented EXCEPT ![r] = NoToken]
  /\ fresh' = [fresh EXCEPT ![r] = NoToken]

(* newSession: a token nobody has seen, then the step that persists it.    *)
NewSession(r, step) ==
  \E t \in Tokens \ used :
    /\ used' = used \cup {t}
    /\ fresh' = [fresh EXCEPT ![r] = t]
    /\ pc' = [pc EXCEPT ![r] = step]
    /\ UNCHANGED presented

(* The unique index on the email admits one account.                       *)
Register(r) ==
  /\ pc[r] = "idle"
  /\ user = "none"
  /\ \E reply \in Replies :
       /\ Applied(reply)
       /\ user' = "active"
       /\ IF reply = "ok" THEN NewSession(r, "persist") ELSE End(r) /\ UNCHANGED used
  /\ UNCHANGED <<rows, expired, known>>

Login(r) ==
  /\ pc[r] = "idle"
  /\ user = "active"
  /\ NewSession(r, "persist")
  /\ UNCHANGED <<user, rows, expired, known>>

InsertSession(t, root) ==
  /\ session' = [session EXCEPT ![t] = "active"]
  /\ origin' = [origin EXCEPT ![t] = root]
  /\ UNCHANGED successor

\* Mutated form: the tokens are returned although the INSERT failed.
PersistUnchecked(r) ==
  /\ pc[r] = "persist"
  /\ \E reply \in Replies :
       IF Applied(reply) THEN InsertSession(fresh[r], fresh[r]) ELSE UNCHANGED rows
  /\ known' = known \cup {fresh[r]}
  /\ End(r)
  /\ UNCHANGED <<user, expired, used>>

(* issueAndPersist: the tokens are returned once the session is stored.    *)
Persist(r) ==
  /\ pc[r] = "persist"
  /\ \E reply \in Replies :
       /\ IF Applied(reply) THEN InsertSession(fresh[r], fresh[r]) ELSE UNCHANGED rows
       /\ known' = IF reply = "ok" THEN known \cup {fresh[r]} ELSE known
  /\ End(r)
  /\ UNCHANGED <<user, expired, used>>

(* Refresh begins with a token whose signature and expiry are good.        *)
Refresh(r, t) ==
  /\ pc[r] = "idle"
  /\ t \in known \ expired
  /\ pc' = [pc EXCEPT ![r] = "lookup"]
  /\ presented' = [presented EXCEPT ![r] = t]
  /\ UNCHANGED <<user, rows, expired, known, used, fresh>>

Lookup(r) ==
  /\ pc[r] = "lookup"
  /\ \E reply \in Replies :
       IF reply = "ok" /\ session[presented[r]] = "active" /\ presented[r] \notin expired
         THEN pc' = [pc EXCEPT ![r] = "checkUser"] /\ UNCHANGED <<presented, fresh>>
         ELSE End(r)
  /\ UNCHANGED <<user, rows, expired, known, used>>

CheckUser(r) ==
  /\ pc[r] = "checkUser"
  /\ \E reply \in Replies :
       IF reply = "ok" /\ user = "active"
         THEN NewSession(r, "rotate")
         ELSE End(r) /\ UNCHANGED used
  /\ UNCHANGED <<user, rows, expired, known>>

\* Mutated form: the UPDATE forgets revoked_at IS NULL.
RotatableThoughRevoked(t) == session[t] # "absent" /\ t \notin expired

\* Mutated form: the UPDATE forgets expires_at > NOW().
RotatableThoughExpired(t) == session[t] = "active"

(* The WHERE clause of RotateRefreshSession.                               *)
Rotatable(t) == session[t] = "active" /\ t \notin expired

(* The rows after the transaction replaced token old by new.               *)
Replace(old, new) ==
  /\ session' = [session EXCEPT ![old] = "revoked", ![new] = "active"]
  /\ successor' = [successor EXCEPT ![old] = new]
  /\ origin' = [origin EXCEPT ![new] = origin[old]]

\* Mutated form: the UPDATE is not rolled back when the INSERT fails.
RotateInTwo(r) ==
  /\ pc[r] = "rotate"
  /\ \E reply \in Replies :
       /\ IF ~Rotatable(presented[r]) THEN UNCHANGED rows
          ELSE IF Applied(reply) THEN Replace(presented[r], fresh[r])
          ELSE /\ session' = [session EXCEPT ![presented[r]] = "revoked"]
               /\ successor' = [successor EXCEPT ![presented[r]] = fresh[r]]
               /\ UNCHANGED origin
       /\ UNCHANGED known
  /\ End(r)
  /\ UNCHANGED <<user, expired, used>>

Rotate(r) ==
  /\ pc[r] = "rotate"
  /\ \E reply \in Replies :
       /\ IF Applied(reply) /\ Rotatable(presented[r])
            THEN Replace(presented[r], fresh[r])
            ELSE UNCHANGED rows
       /\ known' = IF reply = "ok" /\ Rotatable(presented[r])
                     THEN known \cup {fresh[r]} ELSE known
  /\ End(r)
  /\ UNCHANGED <<user, expired, used>>

(* Logout revokes the token it is given, and no other.                     *)
Logout(t) ==
  /\ t \in known \ expired
  /\ session[t] # "absent"
  /\ session' = [session EXCEPT ![t] = "revoked"]
  /\ UNCHANGED <<user, successor, origin, expired, known, used, pc, presented, fresh>>

(* A request is cut short: its client hangs up or its server dies.         *)
Abandon(r) ==
  /\ pc[r] # "idle"
  /\ End(r)
  /\ UNCHANGED <<user, rows, expired, known, used>>

Expire(t) ==
  /\ expired' = expired \cup {t}
  /\ UNCHANGED <<user, rows, known, used, pc, presented, fresh>>

(* is_active is cleared in the database; the service has no operation.     *)
Deactivate ==
  /\ user = "active"
  /\ user' = "inactive"
  /\ UNCHANGED <<rows, expired, known, used, pc, presented, fresh>>

Next ==
  \/ \E r \in Requests :
       \/ Register(r) \/ Login(r) \/ Persist(r)
       \/ Lookup(r) \/ CheckUser(r) \/ Rotate(r) \/ Abandon(r)
  \/ \E r \in Requests, t \in Tokens : Refresh(r, t)
  \/ \E t \in Tokens : Logout(t) \/ Expire(t)
  \/ Deactivate

Spec == Init /\ [][Next]_vars

-----------------------------------------------------------------------------
(* However many requests present the same token at once, and however often *)
(* a token is replayed, a login has at most one session that still works   *)
(* (auth_repository.go:79-85).                                             *)
OneActivePerLogin ==
  \A s, t \in Tokens :
    session[s] = "active" /\ session[t] = "active" /\ origin[s] = origin[t] => s = t

(* A session that was revoked, by a rotation or by a logout, never works   *)
(* again and is never (again) exchanged for a new one: not even by a       *)
(* Refresh that had found it active before (auth_service.go:78-103).       *)
RevokedIsFinal ==
  [][\A t \in Tokens : session[t] = "revoked"
       => session'[t] = "revoked" /\ successor'[t] = successor[t]]_vars

(* The session that replaced another one is stored with it or not at all   *)
(* (auth_repository.go:72-90).                                             *)
SuccessorExists ==
  \A t \in Tokens : successor[t] # NoToken
    => session[t] = "revoked" /\ session[successor[t]] # "absent"

(* A client never holds a token that has no session: what it got is stored *)
(* first (auth_service.go:130, 103).                                       *)
DeliveredIsStored == \A t \in known : session[t] # "absent"

(* The inductive invariant: a generated token belongs to one request until *)
(* its row is inserted, and a descendant's origin has a row.               *)
FreshIsAbsent ==
  /\ \A t \in Tokens : t \notin used => session[t] = "absent"
  /\ \A r \in Requests : pc[r] \in {"persist", "rotate"}
       => fresh[r] \in used /\ session[fresh[r]] = "absent"
  /\ \A q, r \in Requests : q # r /\ pc[q] \in {"persist", "rotate"}
       /\ pc[r] \in {"persist", "rotate"} => fresh[q] # fresh[r]

OriginExists ==
  \A t \in Tokens : session[t] # "absent" => origin[t] \in Tokens /\ session[origin[t]] # "absent"

IInv ==
  /\ TypeOK
  /\ FreshIsAbsent
  /\ OriginExists
  /\ OneActivePerLogin
  /\ SuccessorExists
  /\ DeliveredIsStored

-----------------------------------------------------------------------------
(* The chains, seen from the rows: a login is the token of its first       *)
(* session, and what works of it is the session that is active.            *)
Active(login, t) == session[t] = "active" /\ origin[t] = login

Current == [login \in Tokens |->
              IF \E t \in Tokens : Active(login, t)
                THEN CHOOSE t \in Tokens : Active(login, t) ELSE NoToken]

Issued == {t \in Tokens : session[t] # "absent"}

Chains == INSTANCE SessionChain WITH issued <- Issued, current <- Current

(* Every step of the service is a step of one chain or leaves all of them  *)
(* alone, whatever a request has read before its transaction and whichever *)
(* statements fail: no chain forks, goes on from an expired token, or      *)
(* begins again (auth_service.go:73-115, auth_repository.go:72-95).        *)
ChainsImplemented == Chains!Spec
=============================================================================
