----------------------------- MODULE PasswordReset -----------------------------
(***************************************************************************)
(* Password reset tokens of one account                                    *)
(* (src/app/controllers/auth/password_reset.py).                           *)
(*                                                                         *)
(* request_password_reset is a coroutine whose database work has no await  *)
(* in it, so requests (and the deletion of the account) run one after      *)
(* another on the event loop.  reset_password_with_token is a plain def:   *)
(* FastAPI runs it in a thread, next to the loop and to other resets.      *)
(* Both commit more than once, and any commit may be the last one before a *)
(* database error or a restart.                                            *)
(***************************************************************************)
EXTENDS Naturals

CONSTANTS
    Tokens,     \* tokens that may be created
    Resets,     \* resets that may run at once
    NoToken,
    MaxFaults   \* bound: database errors and restarts

ASSUME NoTokenAssumption == NoToken \notin Tokens
ASSUME BoundAssumption == MaxFaults \in Nat

VARIABLES
    account,    \* the user's row exists
    token,      \* table password_resets
    expired,    \* tokens whose expires_at has passed
    requestPc,  \* where create_reset_token is
    previous,   \* active tokens it has still to invalidate
    reset,      \* where each perform_password_reset is, and its token
    newest,     \* history: the token created last
    changes,    \* history: password changes each token was good for
    faults

vars == <<account, token, expired, requestPc, previous, reset, newest, changes, faults>>

NoReset == [phase |-> "idle"]
Running == [phase : {"checked", "changed"}, token : Tokens]

TypeOK ==
    /\ account \in BOOLEAN
    /\ token \in [Tokens -> {"none", "active", "used"}]
    /\ expired \subseteq Tokens
    /\ requestPc \in {"idle", "invalidate"}
    /\ previous \subseteq Tokens
    /\ reset \in [Resets -> Running \cup {NoReset}]
    /\ newest \in Tokens \cup {NoToken}
    /\ changes \in [Tokens -> Nat]
    /\ faults \in Nat

Init ==
    /\ account = TRUE
    /\ token = [t \in Tokens |-> "none"]
    /\ expired = {} /\ requestPc = "idle" /\ previous = {}
    /\ reset = [p \in Resets |-> NoReset]
    /\ newest = NoToken
    /\ changes = [t \in Tokens |-> 0]
    /\ faults = 0

\* token.used is false and expires_at lies ahead.
Valid(t) == token[t] = "active" /\ t \notin expired

-----------------------------------------------------------------------------
(* Requesting a token *)

\* reset_password finds the account and create_reset_token lists its tokens.
\* Without an account it answers the same and changes nothing.
RequestReset ==
    /\ requestPc = "idle"
    /\ account
    /\ requestPc' = "invalidate"
    /\ previous' = {t \in Tokens : Valid(t)}
    /\ UNCHANGED <<account, token, expired, reset, newest, changes, faults>>

\* Each previous token is marked in a transaction of its own.
Invalidate(t) ==
    /\ requestPc = "invalidate"
    /\ t \in previous
    /\ token' = [token EXCEPT ![t] = "used"]
    /\ previous' = previous \ {t}
    /\ UNCHANGED <<account, expired, requestPc, reset, newest, changes, faults>>

\* Seeded fault: the token is created before the previous ones are invalidated.
CreateTokenFirst(t) ==
    /\ requestPc = "invalidate"
    /\ token[t] = "none"
    /\ token' = [token EXCEPT ![t] = "active"]
    /\ newest' = t
    /\ requestPc' = "idle"
    /\ UNCHANGED <<account, expired, previous, reset, changes, faults>>

CreateToken(t) ==
    /\ requestPc = "invalidate"
    /\ previous = {}
    /\ token[t] = "none"
    /\ token' = [token EXCEPT ![t] = "active"]
    /\ newest' = t
    /\ requestPc' = "idle"
    /\ UNCHANGED <<account, expired, previous, reset, changes, faults>>

-----------------------------------------------------------------------------
(* Using one *)

\* The token is found, unused and in time; any other answer changes nothing.
CheckToken(p, t) ==
    /\ reset[p] = NoReset
    /\ Valid(t)
    /\ reset' = [reset EXCEPT ![p] = [phase |-> "checked", token |-> t]]
    /\ UNCHANGED <<account, token, expired, requestPc, previous, newest, changes, faults>>

\* The first commit, the password; or a 404 for an account that is gone.
ChangePassword(p) ==
    /\ reset[p].phase = "checked"
    /\ IF account
          THEN /\ changes' = [changes EXCEPT ![reset[p].token] = @ + 1]
               /\ reset' = [reset EXCEPT ![p].phase = "changed"]
          ELSE changes' = changes /\ reset' = [reset EXCEPT ![p] = NoReset]
    /\ UNCHANGED <<account, token, expired, requestPc, previous, newest, faults>>

\* Seeded fault: the token is consumed but the reset does not end.
MarkUsedLoops(p) ==
    /\ reset[p].phase = "changed"
    /\ token' = [token EXCEPT ![reset[p].token] = "used"]
    /\ reset' = [reset EXCEPT ![p].phase = "idle"]
    /\ UNCHANGED <<account, expired, requestPc, previous, newest, changes, faults>>

\* The second commit, token.used; the row may have gone with its account.
MarkUsed(p) ==
    /\ reset[p].phase = "changed"
    /\ LET t == reset[p].token IN
       token' = IF token[t] = "none" THEN token ELSE [token EXCEPT ![t] = "used"]
    /\ reset' = [reset EXCEPT ![p] = NoReset]
    /\ UNCHANGED <<account, expired, requestPc, previous, newest, changes, faults>>

-----------------------------------------------------------------------------
(* What happens around them *)

Expire(t) ==
    /\ token[t] # "none"
    /\ t \notin expired
    /\ expired' = expired \cup {t}
    /\ UNCHANGED <<account, token, requestPc, previous, reset, newest, changes, faults>>

\* delete_user takes the tokens with it; it is a coroutine like the requests.
DeleteAccount ==
    /\ requestPc = "idle"
    /\ account
    /\ account' = FALSE
    /\ token' = [t \in Tokens |-> "none"]
    /\ UNCHANGED <<expired, requestPc, previous, reset, newest, changes, faults>>

Fault == faults < MaxFaults /\ faults' = faults + 1

RequestFails ==
    /\ Fault
    /\ requestPc = "invalidate"
    /\ requestPc' = "idle" /\ previous' = {}
    /\ UNCHANGED <<account, token, expired, reset, newest, changes>>

ResetFails(p) ==
    /\ Fault
    /\ reset[p] # NoReset
    /\ reset' = [reset EXCEPT ![p] = NoReset]
    /\ UNCHANGED <<account, token, expired, requestPc, previous, newest, changes>>

ApiRestarts ==
    /\ Fault
    /\ requestPc' = "idle" /\ previous' = {}
    /\ reset' = [p \in Resets |-> NoReset]
    /\ UNCHANGED <<account, token, expired, newest, changes>>

Next ==
    \/ RequestReset
    \/ \E t \in Tokens : Invalidate(t) \/ CreateToken(t) \/ Expire(t)
    \/ \E p \in Resets : \/ \E t \in Tokens : CheckToken(p, t)
                         \/ ChangePassword(p) \/ MarkUsed(p) \/ ResetFails(p)
    \/ DeleteAccount \/ RequestFails \/ ApiRestarts

Spec == Init /\ [][Next]_vars

-----------------------------------------------------------------------------
(* Properties *)

\* "Requesting a new reset token invalidates previous unused tokens": whatever
\* resets run beside the request, and wherever it is cut short, the only token
\* that can still be used is the one created last.
ActiveIsNewest == \A t \in Tokens : Valid(t) => t = newest

\* tests/integration/test_password_reset.py: "Token cannot be used twice for
\* password reset."
SingleUse == \A t \in Tokens : changes[t] <= 1
=============================================================================
