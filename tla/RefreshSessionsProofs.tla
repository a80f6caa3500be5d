----------------------- MODULE RefreshSessionsProofs ------------------------
(***************************************************************************)
(* Theorems about RefreshSessions, for any set of tokens and of requests   *)
(* and whatever statements fail.                                           *)
(*                                                                         *)
(* That a login has one working session is not inductive: the first        *)
(* session of a login must not meet an older one of the same origin, which *)
(* takes OriginExists, and the new row of a rotation must not be one that  *)
(* another request is about to insert, which takes FreshIsAbsent.          *)
(*                                                                         *)
(* From that, a session that is active is the one that works of its login  *)
(* (CurrentIs), and each transaction is a step of SessionChain or none.    *)
(***************************************************************************)
EXTENDS RefreshSessions, TLAPS

(* What an action may do to the requests: one of them moves, the rest      *)
(* stay where they are.                                                    *)
LEMMA EndType ==
  ASSUME TypeOK, NEW r \in Requests, End(r)
  PROVE  /\ pc' \in [Requests -> {"idle", "persist", "lookup", "checkUser", "rotate"}]
         /\ presented' \in [Requests -> Tokens \cup {NoToken}]
         /\ fresh' \in [Requests -> Tokens \cup {NoToken}]
         /\ \A q \in Requests :
              /\ pc'[q] \in {"lookup", "checkUser", "rotate"} => presented'[q] \in Tokens
              /\ pc'[q] \in {"persist", "rotate"} => fresh'[q] \in Tokens
  BY DEF TypeOK, End

LEMMA NewSessionType ==
  ASSUME TypeOK, NEW r \in Requests, NEW step \in {"persist", "rotate"},
         step = "rotate" => presented[r] \in Tokens,
         NewSession(r, step)
  PROVE  /\ pc' \in [Requests -> {"idle", "persist", "lookup", "checkUser", "rotate"}]
         /\ presented' \in [Requests -> Tokens \cup {NoToken}]
         /\ fresh' \in [Requests -> Tokens \cup {NoToken}]
         /\ used' \subseteq Tokens
         /\ \A q \in Requests :
              /\ pc'[q] \in {"lookup", "checkUser", "rotate"} => presented'[q] \in Tokens
              /\ pc'[q] \in {"persist", "rotate"} => fresh'[q] \in Tokens
  BY DEF TypeOK, NewSession

LEMMA TypeStep == TypeOK /\ [Next]_vars => TypeOK'
<1> SUFFICES ASSUME TypeOK, [Next]_vars PROVE TypeOK'
  OBVIOUS
<1>1. CASE UNCHANGED vars
  BY <1>1 DEF TypeOK, vars
<1>2. ASSUME NEW r \in Requests, Register(r) PROVE TypeOK'
  <2>1. CASE NewSession(r, "persist")
    BY <1>2, <2>1, NewSessionType DEF TypeOK, Register, rows
  <2>2. CASE End(r) /\ UNCHANGED used
    BY <1>2, <2>2, EndType DEF TypeOK, Register, rows
  <2> QED
    BY <1>2, <2>1, <2>2 DEF Register
<1>3. ASSUME NEW r \in Requests, Login(r) PROVE TypeOK'
  BY <1>3, NewSessionType DEF TypeOK, Login, rows
<1>4. ASSUME NEW r \in Requests, Persist(r) PROVE TypeOK'
  BY <1>4, EndType DEF TypeOK, Persist, InsertSession, rows
<1>5. ASSUME NEW r \in Requests, Lookup(r) PROVE TypeOK'
  <2>1. CASE End(r)
    BY <1>5, <2>1, EndType DEF TypeOK, Lookup, rows
  <2>2. CASE pc' = [pc EXCEPT ![r] = "checkUser"] /\ UNCHANGED <<presented, fresh>>
    BY <1>5, <2>2 DEF TypeOK, Lookup, rows
  <2> QED
    BY <1>5, <2>1, <2>2 DEF Lookup
<1>6. ASSUME NEW r \in Requests, CheckUser(r) PROVE TypeOK'
  <2>1. CASE NewSession(r, "rotate")
    BY <1>6, <2>1, NewSessionType DEF TypeOK, CheckUser, rows
  <2>2. CASE End(r) /\ UNCHANGED used
    BY <1>6, <2>2, EndType DEF TypeOK, CheckUser, rows
  <2> QED
    BY <1>6, <2>1, <2>2 DEF CheckUser
<1>7. ASSUME NEW r \in Requests, Rotate(r) PROVE TypeOK'
  <2>1. presented[r] \in Tokens /\ fresh[r] \in Tokens
    BY <1>7 DEF TypeOK, Rotate
  <2>2. /\ session' \in [Tokens -> {"absent", "active", "revoked"}]
        /\ successor' \in [Tokens -> Tokens \cup {NoToken}]
        /\ origin' \in [Tokens -> Tokens \cup {NoToken}]
    BY <1>7, <2>1 DEF TypeOK, Rotate, Replace, rows
  <2> QED
    BY <1>7, <2>1, <2>2, EndType DEF TypeOK, Rotate
<1>8. ASSUME NEW r \in Requests, Abandon(r) PROVE TypeOK'
  BY <1>8, EndType DEF TypeOK, Abandon, rows
<1>9. ASSUME NEW r \in Requests, NEW t \in Tokens, Refresh(r, t) PROVE TypeOK'
  BY <1>9 DEF TypeOK, Refresh, rows
<1>10. ASSUME NEW t \in Tokens, Logout(t) PROVE TypeOK'
  BY <1>10 DEF TypeOK, Logout
<1>11. ASSUME NEW t \in Tokens, Expire(t) PROVE TypeOK'
  BY <1>11 DEF TypeOK, Expire, rows
<1>12. CASE Deactivate
  BY <1>12 DEF TypeOK, Deactivate, rows
<1> QED
  BY <1>1, <1>2, <1>3, <1>4, <1>5, <1>6, <1>7, <1>8, <1>9, <1>10, <1>11, <1>12 DEF Next

(* Types, for every set of tokens and requests.                            *)
THEOREM SessionTypes == Spec => []TypeOK
<1>1. Init => TypeOK
  BY DEF Init, TypeOK
<1> QED
  BY <1>1, TypeStep, PTL DEF Spec

-----------------------------------------------------------------------------
(* The part of the invariant that is about rows, and what changes them.    *)
RowsInv == OriginExists /\ OneActivePerLogin /\ SuccessorExists /\ DeliveredIsStored

(* Inserting the session of a fresh token keeps the rows in order.         *)
LEMMA InsertKeepsRows ==
  ASSUME TypeOK, TypeOK', RowsInv, NEW t \in Tokens, session[t] = "absent",
         InsertSession(t, t), known' \subseteq known \cup {t}
  PROVE  RowsInv'
<1>1. /\ session'[t] = "active" /\ origin'[t] = t
      /\ \A s \in Tokens \ {t} : session'[s] = session[s] /\ origin'[s] = origin[s]
      /\ successor' = successor
  BY DEF TypeOK, InsertSession
<1>2. OriginExists'
  BY <1>1 DEF RowsInv, OriginExists
<1>3. OneActivePerLogin'
  BY <1>1 DEF RowsInv, OriginExists, OneActivePerLogin
<1>4. SuccessorExists'
  BY <1>1, TokensAssumption DEF TypeOK, RowsInv, SuccessorExists
<1>5. DeliveredIsStored'
  BY <1>1 DEF TypeOK, RowsInv, DeliveredIsStored
<1> QED
  BY <1>2, <1>3, <1>4, <1>5 DEF RowsInv

(* So does replacing a working session by that of a fresh token.           *)
LEMMA ReplaceKeepsRows ==
  ASSUME TypeOK, TypeOK', RowsInv, NEW old \in Tokens, NEW new \in Tokens,
         session[old] = "active", session[new] = "absent",
         Replace(old, new), known' \subseteq known \cup {new}
  PROVE  RowsInv'
<1>1. /\ session'[old] = "revoked" /\ session'[new] = "active"
      /\ origin'[new] = origin[old] /\ origin'[old] = origin[old]
      /\ successor'[old] = new /\ successor'[new] = successor[new]
      /\ \A s \in Tokens \ {old, new} :
           session'[s] = session[s] /\ origin'[s] = origin[s] /\ successor'[s] = successor[s]
  BY DEF TypeOK, Replace
<1>2. OriginExists'
  BY <1>1 DEF RowsInv, OriginExists
<1>3. OneActivePerLogin'
  BY <1>1 DEF RowsInv, OneActivePerLogin
<1>4. SuccessorExists'
  BY <1>1, TokensAssumption DEF TypeOK, RowsInv, SuccessorExists
<1>5. DeliveredIsStored'
  BY <1>1 DEF TypeOK, RowsInv, DeliveredIsStored
<1> QED
  BY <1>2, <1>3, <1>4, <1>5 DEF RowsInv

(* A logout revokes one session.                                           *)
LEMMA LogoutKeepsRows ==
  ASSUME TypeOK, RowsInv, NEW t \in Tokens, Logout(t)
  PROVE  RowsInv'
<1>1. /\ session[t] # "absent" /\ session'[t] = "revoked"
      /\ \A s \in Tokens \ {t} : session'[s] = session[s]
      /\ origin' = origin /\ successor' = successor /\ known' = known
  BY DEF TypeOK, Logout
<1> QED
  BY <1>1, TokensAssumption
     DEF TypeOK, RowsInv, OriginExists, OneActivePerLogin, SuccessorExists, DeliveredIsStored

LEMMA QuietKeepsRows ==
  ASSUME RowsInv, UNCHANGED <<rows, known>>
  PROVE  RowsInv'
  BY DEF RowsInv, rows, OriginExists, OneActivePerLogin, SuccessorExists, DeliveredIsStored

(* A request that ends releases its token; the row of that token may have  *)
(* been inserted by the same step, no other row.                           *)
LEMMA EndKeepsFresh ==
  ASSUME TypeOK, FreshIsAbsent, NEW r \in Requests, End(r), UNCHANGED used,
         \A t \in Tokens : session'[t] = "absent" \/ session[t] # "absent"
           \/ (pc[r] \in {"persist", "rotate"} /\ t = fresh[r]),
         \A t \in Tokens : session[t] # "absent" => session'[t] # "absent"
  PROVE  FreshIsAbsent'
<1>1. /\ pc'[r] = "idle"
      /\ \A q \in Requests \ {r} : pc'[q] = pc[q] /\ fresh'[q] = fresh[q]
  BY DEF TypeOK, End
<1>2. ASSUME NEW t \in Tokens, t \notin used' PROVE session'[t] = "absent"
  BY <1>2 DEF FreshIsAbsent
<1>3. ASSUME NEW q \in Requests, pc'[q] \in {"persist", "rotate"}
      PROVE  fresh'[q] \in used' /\ session'[fresh'[q]] = "absent"
  <2>1. q # r /\ pc[q] \in {"persist", "rotate"} /\ fresh'[q] = fresh[q]
    BY <1>1, <1>3
  <2>2. fresh[q] \in Tokens /\ fresh[q] \in used /\ session[fresh[q]] = "absent"
    BY <2>1 DEF TypeOK, FreshIsAbsent
  <2>3. pc[r] \in {"persist", "rotate"} => fresh[q] # fresh[r]
    BY <2>1 DEF FreshIsAbsent
  <2> QED
    BY <2>1, <2>2, <2>3
<1>4. ASSUME NEW p \in Requests, NEW q \in Requests, p # q,
             pc'[p] \in {"persist", "rotate"}, pc'[q] \in {"persist", "rotate"}
      PROVE  fresh'[p] # fresh'[q]
  BY <1>1, <1>4 DEF FreshIsAbsent
<1> QED
  BY <1>2, <1>3, <1>4 DEF FreshIsAbsent

(* A token nobody generated yet has no row and is no other request's.      *)
LEMMA NewSessionKeepsFresh ==
  ASSUME TypeOK, FreshIsAbsent, NEW r \in Requests, NEW step \in {"persist", "rotate"},
         NewSession(r, step), UNCHANGED session
  PROVE  FreshIsAbsent'
<1> PICK t \in Tokens \ used :
      /\ used' = used \cup {t}
      /\ fresh' = [fresh EXCEPT ![r] = t]
      /\ pc' = [pc EXCEPT ![r] = step]
  BY DEF NewSession
<1>1. /\ fresh'[r] = t
      /\ \A q \in Requests \ {r} : pc'[q] = pc[q] /\ fresh'[q] = fresh[q]
  BY DEF TypeOK
<1> QED
  BY <1>1 DEF FreshIsAbsent

LEMMA QuietKeepsFresh ==
  ASSUME TypeOK, FreshIsAbsent, UNCHANGED <<used, fresh>>,
         \A q \in Requests : pc'[q] \in {"persist", "rotate"} => pc'[q] = pc[q],
         \A t \in Tokens : session[t] = "absent" <=> session'[t] = "absent"
  PROVE  FreshIsAbsent'
<1>1. \A q \in Requests : pc'[q] \in {"persist", "rotate"}
        => pc[q] \in {"persist", "rotate"} /\ fresh[q] \in Tokens
  BY DEF TypeOK
<1> QED
  BY <1>1 DEF FreshIsAbsent

-----------------------------------------------------------------------------
(* Every action keeps both halves of the invariant.                        *)
LEMMA InvariantStep ==
  ASSUME TypeOK, TypeOK', FreshIsAbsent, RowsInv, [Next]_vars
  PROVE  FreshIsAbsent' /\ RowsInv'
<1>1. CASE UNCHANGED vars
  <2>1. UNCHANGED <<rows, known>> /\ UNCHANGED <<used, fresh, pc>>
    BY <1>1 DEF vars, rows
  <2> QED
    BY <2>1, QuietKeepsRows, QuietKeepsFresh DEF rows
<1>2. ASSUME NEW r \in Requests, Register(r) PROVE FreshIsAbsent' /\ RowsInv'
  <2>1. UNCHANGED <<rows, known>>
    BY <1>2 DEF Register
  <2>2. CASE NewSession(r, "persist")
    BY <2>1, <2>2, NewSessionKeepsFresh, QuietKeepsRows DEF rows
  <2>3. CASE End(r) /\ UNCHANGED used
    BY <2>1, <2>3, EndKeepsFresh, QuietKeepsRows DEF rows
  <2> QED
    BY <1>2, <2>2, <2>3 DEF Register
<1>3. ASSUME NEW r \in Requests, Login(r) PROVE FreshIsAbsent' /\ RowsInv'
  BY <1>3, NewSessionKeepsFresh, QuietKeepsRows DEF Login, rows
<1>4. ASSUME NEW r \in Requests, Persist(r) PROVE FreshIsAbsent' /\ RowsInv'
  <2>1. /\ pc[r] = "persist" /\ End(r) /\ UNCHANGED used
        /\ fresh[r] \in Tokens /\ session[fresh[r]] = "absent"
    BY <1>4 DEF Persist, TypeOK, FreshIsAbsent
  <2>2. CASE InsertSession(fresh[r], fresh[r])
    <3>1. /\ session'[fresh[r]] = "active"
          /\ \A t \in Tokens \ {fresh[r]} : session'[t] = session[t]
      BY <2>1, <2>2 DEF InsertSession, TypeOK
    <3>2. known' \subseteq known \cup {fresh[r]}
      BY <1>4 DEF Persist
    <3>3. FreshIsAbsent'
      BY <2>1, <3>1, EndKeepsFresh
    <3> QED
      BY <2>1, <2>2, <3>2, <3>3, InsertKeepsRows
  <2>3. CASE UNCHANGED rows /\ known' = known
    BY <2>1, <2>3, EndKeepsFresh, QuietKeepsRows DEF rows
  <2> QED
    BY <1>4, <2>2, <2>3 DEF Persist, Applied
<1>5. ASSUME NEW r \in Requests, Lookup(r) PROVE FreshIsAbsent' /\ RowsInv'
  <2>1. UNCHANGED <<rows, known, used>>
    BY <1>5 DEF Lookup
  <2>2. CASE End(r)
    BY <2>1, <2>2, EndKeepsFresh, QuietKeepsRows DEF rows
  <2>3. CASE pc' = [pc EXCEPT ![r] = "checkUser"] /\ UNCHANGED <<presented, fresh>>
    <3>1. \A q \in Requests : pc'[q] \in {"persist", "rotate"} => pc'[q] = pc[q]
      BY <2>3 DEF TypeOK
    <3> QED
      BY <2>1, <2>3, <3>1, QuietKeepsFresh, QuietKeepsRows DEF rows
  <2> QED
    BY <1>5, <2>2, <2>3 DEF Lookup
<1>6. ASSUME NEW r \in Requests, CheckUser(r) PROVE FreshIsAbsent' /\ RowsInv'
  <2>1. UNCHANGED <<rows, known>>
    BY <1>6 DEF CheckUser
  <2>2. CASE NewSession(r, "rotate")
    BY <2>1, <2>2, NewSessionKeepsFresh, QuietKeepsRows DEF rows
  <2>3. CASE End(r) /\ UNCHANGED used
    BY <2>1, <2>3, EndKeepsFresh, QuietKeepsRows DEF rows
  <2> QED
    BY <1>6, <2>2, <2>3 DEF CheckUser
<1>7. ASSUME NEW r \in Requests, Rotate(r) PROVE FreshIsAbsent' /\ RowsInv'
  <2>1. /\ pc[r] = "rotate" /\ End(r) /\ UNCHANGED used
        /\ presented[r] \in Tokens
        /\ fresh[r] \in Tokens /\ session[fresh[r]] = "absent"
    BY <1>7 DEF Rotate, TypeOK, FreshIsAbsent
  <2>2. CASE Rotatable(presented[r]) /\ Replace(presented[r], fresh[r])
    <3>1. session[presented[r]] = "active"
      BY <2>2 DEF Rotatable
    <3>2. /\ session'[fresh[r]] = "active" /\ session'[presented[r]] = "revoked"
          /\ \A t \in Tokens \ {fresh[r], presented[r]} : session'[t] = session[t]
      BY <2>1, <2>2, <3>1 DEF Replace, TypeOK
    <3>3. known' \subseteq known \cup {fresh[r]}
      BY <1>7 DEF Rotate
    <3>4. FreshIsAbsent'
      BY <2>1, <3>1, <3>2, EndKeepsFresh
    <3> QED
      BY <2>1, <2>2, <3>1, <3>3, <3>4, ReplaceKeepsRows
  <2>3. CASE UNCHANGED rows /\ known' = known
    BY <2>1, <2>3, EndKeepsFresh, QuietKeepsRows DEF rows
  <2> QED
    BY <1>7, <2>2, <2>3 DEF Rotate, Applied
<1>8. ASSUME NEW r \in Requests, Abandon(r) PROVE FreshIsAbsent' /\ RowsInv'
  BY <1>8, EndKeepsFresh, QuietKeepsRows DEF Abandon, rows
<1>9. ASSUME NEW r \in Requests, NEW t \in Tokens, Refresh(r, t)
      PROVE  FreshIsAbsent' /\ RowsInv'
  <2>1. \A q \in Requests : pc'[q] \in {"persist", "rotate"} => pc'[q] = pc[q]
    BY <1>9 DEF Refresh, TypeOK
  <2> QED
    BY <1>9, <2>1, QuietKeepsFresh, QuietKeepsRows DEF Refresh, rows
<1>10. ASSUME NEW t \in Tokens, Logout(t) PROVE FreshIsAbsent' /\ RowsInv'
  <2>1. \A s \in Tokens : session[s] = "absent" <=> session'[s] = "absent"
    BY <1>10 DEF Logout, TypeOK
  <2> QED
    BY <1>10, <2>1, QuietKeepsFresh, LogoutKeepsRows DEF Logout
<1>11. ASSUME NEW t \in Tokens, Expire(t) PROVE FreshIsAbsent' /\ RowsInv'
  BY <1>11, QuietKeepsFresh, QuietKeepsRows DEF Expire, rows
<1>12. CASE Deactivate
  BY <1>12, QuietKeepsFresh, QuietKeepsRows DEF Deactivate, rows
<1> QED
  BY <1>1, <1>2, <1>3, <1>4, <1>5, <1>6, <1>7, <1>8, <1>9, <1>10, <1>11, <1>12 DEF Next

(* The invariant, for every set of tokens and requests.                    *)
THEOREM SessionInvariance == Spec => []IInv
<1>1. Init => IInv
  BY TokensAssumption DEF Init, IInv, TypeOK, FreshIsAbsent, OriginExists,
     OneActivePerLogin, SuccessorExists, DeliveredIsStored
<1>2. IInv /\ [Next]_vars => IInv'
  BY TypeStep, InvariantStep DEF IInv, RowsInv
<1> QED
  BY <1>1, <1>2, PTL DEF Spec

(* However many requests race with one token, a login has one working      *)
(* session at most.                                                        *)
THEOREM OneWorkingSession == Spec => []OneActivePerLogin
<1>1. IInv => OneActivePerLogin
  BY DEF IInv
<1> QED
  BY <1>1, SessionInvariance, PTL

(* The successor of a session is stored with it.                           *)
THEOREM RotationIsAtomic == Spec => []SuccessorExists
<1>1. IInv => SuccessorExists
  BY DEF IInv
<1> QED
  BY <1>1, SessionInvariance, PTL

(* What a client was given is stored.                                      *)
THEOREM DeliveredTokens == Spec => []DeliveredIsStored
<1>1. IInv => DeliveredIsStored
  BY DEF IInv
<1> QED
  BY <1>1, SessionInvariance, PTL

(* A revoked session stays revoked and keeps its successor.                *)
THEOREM RevocationIsFinal == Spec => RevokedIsFinal
<1>1. ASSUME IInv, [Next]_vars
      PROVE  [\A t \in Tokens : session[t] = "revoked"
                => session'[t] = "revoked" /\ successor'[t] = successor[t]]_vars
  <2> SUFFICES ASSUME NEW t \in Tokens, session[t] = "revoked"
               PROVE  session'[t] = "revoked" /\ successor'[t] = successor[t]
    OBVIOUS
  <2> USE DEF IInv, TypeOK
  <2>1. CASE UNCHANGED rows
    BY <2>1 DEF rows
  <2>2. ASSUME NEW r \in Requests, Persist(r), ~ UNCHANGED rows
        PROVE  session'[t] = "revoked" /\ successor'[t] = successor[t]
    <3>1. InsertSession(fresh[r], fresh[r])
      BY <2>2 DEF Persist
    <3>2. session[fresh[r]] = "absent"
      BY <1>1, <2>2 DEF Persist, FreshIsAbsent
    <3>3. /\ session' = [session EXCEPT ![fresh[r]] = "active"]
          /\ successor' = successor
      BY <3>1 DEF InsertSession
    <3>4. t # fresh[r]
      BY <3>2
    <3> QED
      BY <1>1, <3>3, <3>4
  <2>3. ASSUME NEW r \in Requests, Rotate(r), ~ UNCHANGED rows
        PROVE  session'[t] = "revoked" /\ successor'[t] = successor[t]
    <3>1. Replace(presented[r], fresh[r]) /\ session[presented[r]] = "active"
      BY <2>3 DEF Rotate, Rotatable
    <3>2. session[fresh[r]] = "absent"
      BY <1>1, <2>3 DEF Rotate, FreshIsAbsent
    <3>3. /\ session' = [session EXCEPT ![presented[r]] = "revoked", ![fresh[r]] = "active"]
          /\ successor' = [successor EXCEPT ![presented[r]] = fresh[r]]
      BY <3>1 DEF Replace
    <3>4. t # fresh[r] /\ t # presented[r]
      BY <3>1, <3>2
    <3> QED
      BY <1>1, <3>3, <3>4
  <2>4. ASSUME NEW s \in Tokens, Logout(s)
        PROVE  session'[t] = "revoked" /\ successor'[t] = successor[t]
    BY <2>4 DEF Logout
  <2> QED
    BY <1>1, <2>1, <2>2, <2>3, <2>4
       DEF Next, vars, rows, Register, Login, Lookup, CheckUser, Abandon, Refresh, Expire, Deactivate
<1> QED
  BY <1>1, SessionInvariance, PTL DEF Spec, RevokedIsFinal
-----------------------------------------------------------------------------
(* The refinement of SessionChain.  Current is what it is meant to be,     *)
(* before and after a step.                                                *)
LEMMA CurrentIs ==
  ASSUME NEW login \in Tokens
  PROVE  /\ OneActivePerLogin => \A t \in Tokens : Active(login, t) => Current[login] = t
         /\ (\A t \in Tokens : ~Active(login, t)) => Current[login] = NoToken
         /\ Current = [l \in Tokens |-> Current[l]]
<1>1. ASSUME OneActivePerLogin, NEW t \in Tokens, Active(login, t)
      PROVE  Current[login] = t
  <2>1. \A s \in Tokens : Active(login, s) => s = t
    BY <1>1 DEF Active, OneActivePerLogin
  <2> QED
    BY <1>1, <2>1 DEF Current
<1>2. (\A t \in Tokens : ~Active(login, t)) => Current[login] = NoToken
  BY DEF Current
<1>3. Current = [l \in Tokens |-> Current[l]]
  BY DEF Current
<1> QED
  BY <1>1, <1>2, <1>3

LEMMA CurrentIsNext ==
  ASSUME NEW login \in Tokens
  PROVE  /\ OneActivePerLogin' => \A t \in Tokens : Active(login, t)' => Current'[login] = t
         /\ (\A t \in Tokens : ~Active(login, t)') => Current'[login] = NoToken
         /\ Current' = [l \in Tokens |-> Current'[l]]
<1>1. ASSUME OneActivePerLogin', NEW t \in Tokens, Active(login, t)'
      PROVE  Current'[login] = t
  <2>1. \A s \in Tokens : Active(login, s)' => s = t
    BY <1>1 DEF Active, OneActivePerLogin
  <2> QED
    BY <1>1, <2>1 DEF Current
<1>2. (\A t \in Tokens : ~Active(login, t)') => Current'[login] = NoToken
  BY DEF Current
<1>3. Current' = [l \in Tokens |-> Current'[l]]
  BY DEF Current
<1> QED
  BY <1>1, <1>2, <1>3

LEMMA CurrentKept ==
  ASSUME OneActivePerLogin, OneActivePerLogin', NEW login \in Tokens,
         \A t \in Tokens : Active(login, t)' <=> Active(login, t)
  PROVE  Current'[login] = Current[login]
<1>1. CASE \E t \in Tokens : Active(login, t)
  BY <1>1, CurrentIs, CurrentIsNext
<1>2. CASE \A t \in Tokens : ~Active(login, t)
  BY <1>2, CurrentIs, CurrentIsNext
<1> QED
  BY <1>1, <1>2

LEMMA CurrentMoves ==
  ASSUME OneActivePerLogin, OneActivePerLogin', NEW login \in Tokens, NEW token,
         Current'[login] = token,
         \A l \in Tokens \ {login} : \A t \in Tokens : Active(l, t)' <=> Active(l, t)
  PROVE  Current' = [Current EXCEPT ![login] = token]
<1>1. \A l \in Tokens \ {login} : Current'[l] = Current[l]
  BY CurrentKept
<1> QED
  BY <1>1, CurrentIs, CurrentIsNext

(* The first session of a login starts a chain.                            *)
LEMMA InsertStarts ==
  ASSUME IInv, IInv', NEW t \in Tokens, session[t] = "absent", InsertSession(t, t),
         UNCHANGED expired
  PROVE  Chains!Start(t)
<1> USE DEF IInv
<1>1. /\ session'[t] = "active" /\ origin'[t] = t
      /\ \A s \in Tokens \ {t} : session'[s] = session[s] /\ origin'[s] = origin[s]
  BY DEF TypeOK, InsertSession
<1>2. Issued' = Issued \cup {t} /\ t \notin Issued
  BY <1>1 DEF Issued
<1>3. Current'[t] = t
  BY <1>1, CurrentIsNext DEF Active
<1>4. \A l \in Tokens \ {t} : \A s \in Tokens : Active(l, s)' <=> Active(l, s)
  BY <1>1 DEF Active
<1>5. Current' = [Current EXCEPT ![t] = t]
  BY <1>3, <1>4, CurrentMoves
<1> QED
  BY <1>2, <1>5 DEF Chains!Start

(* A rotation hands the working token of a login on.                       *)
LEMMA ReplaceHandsOn ==
  ASSUME IInv, IInv', NEW old \in Tokens, NEW new \in Tokens, Rotatable(old),
         session[new] = "absent", Replace(old, new), UNCHANGED expired
  PROVE  Chains!Next
<1> USE DEF IInv
<1> PICK login \in Tokens : login = origin[old]
  BY DEF Rotatable, OriginExists
<1>1. login \in Tokens /\ Active(login, old) /\ old \notin expired
  BY DEF Rotatable, Active
<1>2. /\ session'[old] = "revoked" /\ session'[new] = "active"
      /\ origin'[new] = login /\ origin'[old] = login
      /\ \A s \in Tokens \ {old, new} : session'[s] = session[s] /\ origin'[s] = origin[s]
  BY <1>1 DEF TypeOK, Replace, Rotatable
<1>3. Issued' = Issued \cup {new} /\ new \notin Issued
  BY <1>1, <1>2 DEF Issued, Active
<1>4. Current[login] = old
  BY <1>1, CurrentIs
<1>5. Current'[login] = new
  BY <1>1, <1>2, CurrentIsNext DEF Active
<1>6. \A l \in Tokens \ {login} : \A s \in Tokens : Active(l, s)' <=> Active(l, s)
  BY <1>2 DEF Active
<1>7. Current' = [Current EXCEPT ![login] = new]
  BY <1>1, <1>5, <1>6, CurrentMoves
<1>8. Chains!HandOn(login, new)
  BY <1>1, <1>3, <1>4, <1>7 DEF Chains!HandOn
<1> QED
  BY <1>1, <1>8 DEF Chains!Next

(* A logout ends the chain of the token if it was the working one.         *)
LEMMA LogoutStops ==
  ASSUME IInv, IInv', NEW t \in Tokens, Logout(t)
  PROVE  [Chains!Next]_(Chains!vars)
<1> USE DEF IInv
<1>1. /\ session[t] # "absent" /\ session'[t] = "revoked"
      /\ \A s \in Tokens \ {t} : session'[s] = session[s]
      /\ origin' = origin /\ expired' = expired
  BY DEF TypeOK, Logout
<1>2. Issued' = Issued
  BY <1>1 DEF Issued
<1>3. CASE session[t] = "active"
  <2> PICK login \in Tokens : login = origin[t]
    BY <1>3 DEF OriginExists
  <2>1. login \in Tokens /\ Active(login, t)
    BY <1>3 DEF Active
  <2>2. Current[login] = t
    BY <2>1, CurrentIs
  <2>3. Current'[login] = NoToken
    <3>1. \A s \in Tokens : ~Active(login, s)'
      <4> SUFFICES ASSUME NEW s \in Tokens, session'[s] = "active", origin'[s] = login
                   PROVE  FALSE
        BY DEF Active
      <4>1. s # t /\ session[s] = "active" /\ origin[s] = origin[t]
        BY <1>1
      <4> QED
        BY <1>3, <4>1 DEF OneActivePerLogin
    <3> QED
      BY <2>1, <3>1, CurrentIsNext
  <2>4. \A l \in Tokens \ {login} : \A s \in Tokens : Active(l, s)' <=> Active(l, s)
    BY <1>1 DEF Active
  <2>5. Current' = [Current EXCEPT ![login] = NoToken]
    BY <2>1, <2>3, <2>4, CurrentMoves
  <2>6. Chains!Stop(login)
    BY <1>1, <1>2, <2>2, <2>5, TokensAssumption DEF Chains!Stop
  <2> QED
    BY <2>1, <2>6 DEF Chains!Next
<1>4. CASE session[t] # "active"
  <2>1. \A l, s \in Tokens : Active(l, s)' <=> Active(l, s)
    BY <1>1, <1>4 DEF Active
  <2>2. \A l \in Tokens : Current'[l] = Current[l]
    BY <2>1, CurrentKept
  <2>3. Current' = Current
    BY <2>2, CurrentIs, CurrentIsNext DEF Current
  <2> QED
    BY <1>1, <1>2, <2>3 DEF Chains!vars
<1> QED
  BY <1>3, <1>4

LEMMA ChainStep ==
  ASSUME IInv, IInv', [Next]_vars
  PROVE  [Chains!Next]_(Chains!vars)
<1> USE DEF IInv
<1>1. ASSUME UNCHANGED rows PROVE Issued' = Issued /\ Current' = Current
  BY <1>1 DEF rows, Issued, Current, Active
<1>2. ASSUME UNCHANGED <<rows, expired>> PROVE UNCHANGED Chains!vars
  BY <1>1, <1>2 DEF Chains!vars
<1>3. ASSUME NEW r \in Requests, Persist(r) PROVE [Chains!Next]_(Chains!vars)
  <2>1. fresh[r] \in Tokens /\ session[fresh[r]] = "absent" /\ UNCHANGED expired
    BY <1>3 DEF Persist, TypeOK, FreshIsAbsent
  <2>2. CASE InsertSession(fresh[r], fresh[r])
    BY <2>1, <2>2, InsertStarts DEF Chains!Next
  <2>3. CASE UNCHANGED rows
    BY <1>2, <2>1, <2>3
  <2> QED
    BY <1>3, <2>2, <2>3 DEF Persist
<1>4. ASSUME NEW r \in Requests, Rotate(r) PROVE [Chains!Next]_(Chains!vars)
  <2>1. /\ presented[r] \in Tokens /\ fresh[r] \in Tokens
        /\ session[fresh[r]] = "absent" /\ UNCHANGED expired
    BY <1>4 DEF Rotate, TypeOK, FreshIsAbsent
  <2>2. CASE Rotatable(presented[r]) /\ Replace(presented[r], fresh[r])
    BY <2>1, <2>2, ReplaceHandsOn
  <2>3. CASE UNCHANGED rows
    BY <1>2, <2>1, <2>3
  <2> QED
    BY <1>4, <2>2, <2>3 DEF Rotate
<1>5. ASSUME NEW t \in Tokens, Expire(t) PROVE Chains!Next
  <2>1. Chains!Expire(t)
    BY <1>1, <1>5 DEF Expire, Chains!Expire
  <2> QED
    BY <2>1 DEF Chains!Next
<1>6. ASSUME NEW t \in Tokens, Logout(t) PROVE [Chains!Next]_(Chains!vars)
  BY <1>6, LogoutStops
<1>7. ASSUME NEW r \in Requests,
             \/ Register(r) \/ Login(r) \/ Lookup(r) \/ CheckUser(r) \/ Abandon(r)
             \/ \E t \in Tokens : Refresh(r, t)
      PROVE  UNCHANGED <<rows, expired>>
  BY <1>7 DEF Register, Login, Lookup, CheckUser, Abandon, Refresh
<1>8. Deactivate \/ UNCHANGED vars => UNCHANGED <<rows, expired>>
  BY DEF Deactivate, vars, rows
<1> QED
  BY <1>2, <1>3, <1>4, <1>5, <1>6, <1>7, <1>8 DEF Next

LEMMA ChainsStart == Init => Chains!Init
<1> SUFFICES ASSUME Init PROVE Chains!Init
  OBVIOUS
<1>1. Issued = {} /\ \A l, t \in Tokens : ~Active(l, t)
  BY DEF Init, Issued, Active
<1>2. Current = [login \in Tokens |-> NoToken]
  BY <1>1 DEF Current
<1> QED
  BY <1>1, <1>2 DEF Chains!Init, Init

(* The rows implement chains of tokens, for any set of tokens and requests *)
(* and whatever statements fail: a chain does not fork, is not continued   *)
(* from an expired token, and does not come back (auth_service.go:78-119). *)
THEOREM SessionsAreChains == Spec => ChainsImplemented
<1>1. IInv /\ IInv' /\ [Next]_vars => [Chains!Next]_(Chains!vars)
  BY ChainStep
<1> QED
  BY <1>1, ChainsStart, SessionInvariance, PTL DEF Spec, ChainsImplemented, Chains!Spec
=============================================================================
