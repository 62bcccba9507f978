----------------------------- MODULE AccountStore -----------------------------
(***************************************************************************)
(* What src/include/player_store.h promises its callers, without files:    *)
(* an account has at most one password, creation never replaces one, and   *)
(* once player_store_create has returned 0 the account keeps its password  *)
(* for ever, across crashes too.  Until then a creation may be undone.     *)
(***************************************************************************)
CONSTANTS Account, Password, None

VARIABLES
    account,    \* the password of each account, None when there is none
    promised    \* the accounts whose creation has been reported

vars == <<account, promised>>

Init ==
    /\ account \in [Account -> Password \cup {None}]
    /\ promised = {a \in Account : account[a] # None}

create(a, p) ==
    /\ account[a] = None
    /\ account' = [account EXCEPT ![a] = p]
    /\ UNCHANGED promised

report(a) ==
    /\ account[a] # None
    /\ promised' = promised \cup {a}
    /\ UNCHANGED account

undo(a) ==
    /\ a \notin promised
    /\ account' = [account EXCEPT ![a] = None]
    /\ UNCHANGED promised

\* A creation that was not reported may survive a crash, vanish, or come back.
crash ==
    /\ account' \in [Account -> Password \cup {None}]
    /\ \A a \in promised : account'[a] = account[a]
    /\ UNCHANGED promised

Next ==
    \/ \E a \in Account : report(a) \/ undo(a) \/ \E p \in Password : create(a, p)
    \/ crash

Spec == Init /\ [][Next]_vars
=============================================================================
