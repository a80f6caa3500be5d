---------------------------- MODULE SessionChain ----------------------------
(***************************************************************************)
(* What refresh tokens promise: a login starts a chain of tokens, of which *)
(* at most the last one works.  That token is handed on, before it         *)
(* expires, to one nobody has had, or the chain ends; and a chain that has *)
(* ended does not go on.  A login is named by its first token.             *)
(***************************************************************************)
CONSTANTS Tokens, NoToken

VARIABLES issued,    \* the tokens that are or were in some chain
          expired,
          current    \* the token of each login that works, if there is one

vars == <<issued, expired, current>>

Init ==
  /\ issued = {}
  /\ expired = {}
  /\ current = [login \in Tokens |-> NoToken]

Start(t) ==
  /\ t \notin issued
  /\ issued' = issued \cup {t}
  /\ current' = [current EXCEPT ![t] = t]
  /\ UNCHANGED expired

HandOn(login, t) ==
  /\ current[login] \in Tokens \ expired
  /\ t \notin issued
  /\ issued' = issued \cup {t}
  /\ current' = [current EXCEPT ![login] = t]
  /\ UNCHANGED expired

Stop(login) ==
  /\ current[login] # NoToken
  /\ current' = [current EXCEPT ![login] = NoToken]
  /\ UNCHANGED <<issued, expired>>

Expire(t) ==
  /\ expired' = expired \cup {t}
  /\ UNCHANGED <<issued, current>>

Next ==
  \/ \E t \in Tokens : Start(t) \/ Stop(t) \/ Expire(t)
  \/ \E login, t \in Tokens : HandOn(login, t)

Spec == Init /\ [][Next]_vars
=============================================================================
