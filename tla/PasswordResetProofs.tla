-------------------------- MODULE PasswordResetProofs --------------------------
(***************************************************************************)
(* Proofs about PasswordReset for any number of tokens and resets.         *)
(***************************************************************************)
EXTENDS PasswordReset, TLAPS

\* A request that is still invalidating has every usable token on its list.
Listed == requestPc = "invalidate" => \A t \in Tokens : Valid(t) => t \in previous

LEMMA ResetTyped ==
    ASSUME TypeOK, NEW p \in Resets, reset[p] # NoReset
    PROVE  reset[p].token \in Tokens /\ reset[p] \in Running
BY DEF TypeOK, Running

\* Type correctness.
THEOREM TypeCorrect == Spec => []TypeOK
<1>1. Init => TypeOK
  BY DEF Init, TypeOK
<1>2. TypeOK /\ [Next]_vars => TypeOK'
  <2> SUFFICES ASSUME TypeOK, [Next]_vars PROVE TypeOK'
    OBVIOUS
  <2> USE DEF TypeOK
  <2>1. CASE RequestReset
    BY <2>1 DEF RequestReset
  <2>2. ASSUME NEW t \in Tokens, Invalidate(t) PROVE TypeOK'
    BY <2>2 DEF Invalidate
  <2>3. ASSUME NEW t \in Tokens, CreateToken(t) PROVE TypeOK'
    BY <2>3 DEF CreateToken
  <2>4. ASSUME NEW t \in Tokens, Expire(t) PROVE TypeOK'
    BY <2>4 DEF Expire
  <2>5. ASSUME NEW p \in Resets, NEW t \in Tokens, CheckToken(p, t) PROVE TypeOK'
    BY <2>5 DEF CheckToken, Running
  <2>6. ASSUME NEW p \in Resets, ChangePassword(p) PROVE TypeOK'
    <3>1. reset[p] # NoReset
      BY <2>6 DEF ChangePassword, NoReset
    <3>2. reset[p].token \in Tokens /\ reset[p] \in Running
      BY <3>1, ResetTyped
    <3>3. [reset[p] EXCEPT !.phase = "changed"] \in Running
      BY <3>2 DEF Running
    <3>4. reset' \in [Resets -> Running \cup {NoReset}]
      BY <2>6, <3>3 DEF ChangePassword
    <3>5. changes' \in [Tokens -> Nat]
      BY <2>6, <3>2 DEF ChangePassword
    <3> QED
      BY <2>6, <3>4, <3>5 DEF ChangePassword
  <2>7. ASSUME NEW p \in Resets, MarkUsed(p) PROVE TypeOK'
    <3>1. reset[p] # NoReset
      BY <2>7 DEF MarkUsed, NoReset
    <3> QED
      BY <2>7, <3>1, ResetTyped DEF MarkUsed
  <2>8. ASSUME NEW p \in Resets, ResetFails(p) PROVE TypeOK'
    BY <2>8 DEF ResetFails, Fault
  <2>9. CASE DeleteAccount
    BY <2>9 DEF DeleteAccount
  <2>10. CASE RequestFails
    BY <2>10 DEF RequestFails, Fault
  <2>11. CASE ApiRestarts
    BY <2>11 DEF ApiRestarts, Fault
  <2>12. CASE UNCHANGED vars
    BY <2>12 DEF vars
  <2> QED
    BY <2>1, <2>2, <2>3, <2>4, <2>5, <2>6, <2>7, <2>8, <2>9, <2>10, <2>11, <2>12 DEF Next
<1> QED
  BY <1>1, <1>2, PTL DEF Spec

\* The only token that can still be used is the one created last, wherever a
\* request or a reset is cut short.
THEOREM NewestOnly == Spec => []ActiveIsNewest
<1>1. Init => Listed /\ ActiveIsNewest
  BY DEF Init, Listed, ActiveIsNewest, Valid
<1>2. TypeOK /\ Listed /\ ActiveIsNewest /\ [Next]_vars => Listed' /\ ActiveIsNewest'
  <2> SUFFICES ASSUME TypeOK, Listed, ActiveIsNewest, [Next]_vars
               PROVE  Listed' /\ ActiveIsNewest'
    OBVIOUS
  <2> USE DEF TypeOK, Listed, ActiveIsNewest, Valid
  <2>1. ASSUME UNCHANGED <<token, expired, requestPc, previous, newest>>
        PROVE  Listed' /\ ActiveIsNewest'
    BY <2>1
  <2>2. CASE RequestReset
    BY <2>2 DEF RequestReset
  <2>3. ASSUME NEW t \in Tokens, Invalidate(t) PROVE Listed' /\ ActiveIsNewest'
    BY <2>3 DEF Invalidate
  <2>4. ASSUME NEW t \in Tokens, CreateToken(t) PROVE Listed' /\ ActiveIsNewest'
    <3>1. \A u \in Tokens : ~Valid(u)
      BY <2>4 DEF CreateToken
    <3> QED
      BY <2>4, <3>1 DEF CreateToken
  <2>5. ASSUME NEW t \in Tokens, Expire(t) PROVE Listed' /\ ActiveIsNewest'
    BY <2>5 DEF Expire
  <2>6. ASSUME NEW p \in Resets, NEW t \in Tokens, CheckToken(p, t) PROVE Listed' /\ ActiveIsNewest'
    BY <2>1, <2>6 DEF CheckToken
  <2>7. ASSUME NEW p \in Resets, ChangePassword(p) PROVE Listed' /\ ActiveIsNewest'
    BY <2>1, <2>7 DEF ChangePassword
  <2>8. ASSUME NEW p \in Resets, MarkUsed(p) PROVE Listed' /\ ActiveIsNewest'
    <3>1. \A u \in Tokens : token'[u] = "active" => token[u] = "active"
      BY <2>8 DEF MarkUsed
    <3>2. UNCHANGED <<expired, requestPc, previous, newest>>
      BY <2>8 DEF MarkUsed
    <3> QED
      BY <3>1, <3>2
  <2>9. ASSUME NEW p \in Resets, ResetFails(p) PROVE Listed' /\ ActiveIsNewest'
    BY <2>1, <2>9 DEF ResetFails
  <2>10. CASE DeleteAccount
    BY <2>10 DEF DeleteAccount
  <2>11. CASE RequestFails \/ ApiRestarts
    BY <2>11 DEF RequestFails, ApiRestarts
  <2>12. CASE UNCHANGED vars
    BY <2>1, <2>12 DEF vars
  <2> QED
    BY <2>2, <2>3, <2>4, <2>5, <2>6, <2>7, <2>8, <2>9, <2>10, <2>11, <2>12 DEF Next
<1> QED
  BY <1>1, <1>2, TypeCorrect, PTL DEF Spec
=============================================================================
