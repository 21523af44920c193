----------------------------- MODULE ResetToken -----------------------------
(***************************************************************************)
(* resetPassword: a reset token, a JWT that lives for ten minutes, is      *)
(* exchanged for a new password, and its jti is blacklisted in Redis for   *)
(* the rest of its life.                                                   *)
(*                                                                         *)
(* The clock ticks Resolution times a second.  iat and exp are whole       *)
(* seconds, so what a token has left when it is signed is its lifetime     *)
(* less the fraction of the second that has passed.                        *)
(***************************************************************************)
EXTENDS Naturals

CONSTANTS
    Procs,      \* requests being served at the same time
    Tokens,     \* reset tokens, by their jti
    Lifetime,   \* expiresIn of a reset token, in seconds
    Resolution, \* ticks of the clock in a second
    NoToken

ASSUME ResetTokenAssumption ==
    /\ Lifetime \in Nat \ {0}
    /\ Resolution \in Nat \ {0}
    /\ NoToken \notin Tokens

VARIABLES
    signed,     \* tokens that verifyOtp has handed out
    left,       \* ticks until exp of a token: 0 when it has passed
    blacklist,  \* ticks blacklist:<jti> has left in Redis: 0 when it is absent
    req,        \* where each request is, and its token
    \* History, read by no step.
    honoured    \* tokens whose request has been answered with success

vars == <<signed, left, blacklist, req, honoured>>

Idle  == [ at |-> "idle", token |-> NoToken ]
Ticks == 0 .. Lifetime * Resolution

\* Every value keeps its type: no clock runs longer than a whole lifetime.
TypeOK ==
    /\ signed \subseteq Tokens
    /\ left \in [ Tokens -> Ticks ]
    /\ blacklist \in [ Tokens -> Ticks ]
    /\ req \in [ Procs -> [ at : { "idle", "hash", "blacklist" },
                            token : Tokens \cup {NoToken} ] ]
    /\ honoured \subseteq Tokens

Init ==
    /\ signed = {}
    /\ left = [ t \in Tokens |-> 0 ]
    /\ blacklist = [ t \in Tokens |-> 0 ]
    /\ req = [ p \in Procs |-> Idle ]
    /\ honoured = {}

-----------------------------------------------------------------------------
\* The last step of verifyOtp; late is the part of a second since iat.
Sign(t) ==
    /\ t \notin signed
    /\ signed' = signed \cup {t}
    /\ \E late \in 0 .. Resolution - 1 :
         left' = [left EXCEPT ![t] = Lifetime * Resolution - late]
    /\ UNCHANGED <<blacklist, req, honoured>>

\* verify looks at the signature and at exp, then the blacklist is read; a
\* token that fails either is answered at once.
Begin(p, t) ==
    /\ req[p].at = "idle"
    /\ left[t] > 0
    /\ blacklist[t] = 0
    /\ req' = [req EXCEPT ![p] = [ at |-> "hash", token |-> t ]]
    /\ UNCHANGED <<signed, left, blacklist, honoured>>

\* The new password has been hashed and the transaction commits.
Reset(p) ==
    /\ req[p].at = "hash"
    /\ req' = [req EXCEPT ![p].at = "blacklist"]
    /\ UNCHANGED <<signed, left, blacklist, honoured>>

\* Slip: exp less the second that is next, instead of the one that has begun.
RemainingTtl_Ceil(t) == left[t] \div Resolution

\* Slip: a second is added for safety.
RemainingTtl_Padded(t) == (left[t] + Resolution) \div Resolution

\* exp - floor(now), in seconds.
RemainingTtl(t) == (left[t] + Resolution - 1) \div Resolution

\* SET with EX, if anything remains, and the answer.
Blacklist(p) ==
    LET t == req[p].token IN
    /\ req[p].at = "blacklist"
    /\ blacklist' = IF RemainingTtl(t) > 0
                      THEN [blacklist EXCEPT ![t] = RemainingTtl(t) * Resolution]
                      ELSE blacklist
    /\ honoured' = honoured \cup {t}
    /\ req' = [req EXCEPT ![p] = Idle]
    /\ UNCHANGED <<signed, left>>

\* The transaction or a call to Redis fails, or the server stops.
Fail(p) ==
    /\ req[p].at # "idle"
    /\ req' = [req EXCEPT ![p] = Idle]
    /\ UNCHANGED <<signed, left, blacklist, honoured>>

Older(n) == IF n = 0 THEN 0 ELSE n - 1

Tick ==
    /\ \E t \in Tokens : left[t] > 0 \/ blacklist[t] > 0
    /\ left' = [ t \in Tokens |-> Older(left[t]) ]
    /\ blacklist' = [ t \in Tokens |-> Older(blacklist[t]) ]
    /\ UNCHANGED <<signed, req, honoured>>

Next ==
    \/ \E p \in Procs :
         \/ \E t \in Tokens : Begin(p, t)
         \/ Reset(p) \/ Blacklist(p) \/ Fail(p)
    \/ \E t \in Tokens : Sign(t)
    \/ Tick

Spec == Init /\ [][Next]_vars

-----------------------------------------------------------------------------
(* Properties.                                                             *)

\* A token that has been exchanged, and whose owner has been told so, cannot
\* be presented again: its entry in the blacklist lasts at least as long as
\* the token, whatever part of a second each was cut off by, and less than a
\* second longer.
HonouredIsRefused ==
    \A t \in Tokens :
        /\ t \in honoured => blacklist[t] >= left[t]
        /\ blacklist[t] > 0 => blacklist[t] < left[t] + Resolution

\* The inductive invariant: a request is about a token that was signed, and
\* nothing is known of a token before.
ResetTokenInv ==
    /\ TypeOK
    /\ HonouredIsRefused
    /\ \A p \in Procs : req[p].at # "idle" => req[p].token \in signed
    /\ \A t \in Tokens \ signed : left[t] = 0 /\ blacklist[t] = 0 /\ t \notin honoured

=============================================================================
