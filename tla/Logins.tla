------------------------------- MODULE Logins -------------------------------
(***************************************************************************)
(* What rotation, logout, the reuse alarm, the account operations and the  *)
(* purge promise about a login: it is opened once, it may end, and one     *)
(* that has ended is never opened again, whatever token of it is still     *)
(* presented and whatever was on its way when it ended.                    *)
(***************************************************************************)

CONSTANT Chains   \* the logins, each named by its first token

VARIABLE login    \* of each: none yet, open, or over

Init == login = [ c \in Chains |-> "none" ]

Open(c) ==
    /\ login[c] = "none"
    /\ login' = [login EXCEPT ![c] = "open"]

\* One statement may end several.
End(S) ==
    /\ \A c \in S : login[c] = "open"
    /\ login' = [ c \in Chains |-> IF c \in S THEN "over" ELSE login[c] ]

Next ==
    \/ \E c \in Chains : Open(c)
    \/ \E S \in SUBSET Chains : End(S)

Spec == Init /\ [][Next]_login
=============================================================================
