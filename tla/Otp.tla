-------------------------------- MODULE Otp --------------------------------
(***************************************************************************)
(* The one-time code of a forgotten password: forgotPassword stores it in  *)
(* Redis next to a counter of attempts, verifyOtp exchanges it for a reset *)
(* token.                                                                  *)
(*                                                                         *)
(* Keys of different addresses never meet, so there is one address.  Each  *)
(* await is a step; a pipeline is one write on the server's connection and *)
(* Redis runs it without a break.  But each of its commands can fail by    *)
(* itself: exec() does not reject then, and nobody looks at the error in   *)
(* its result.  A value that could not be read is taken for no value, and  *)
(* one that could not be written is not missed.  The clock ticks in thirds *)
(* of a second, the coarsest unit in which TTL, which rounds to the        *)
(* nearest second, rounds both up and down.  Codes are named by the order  *)
(* they are issued in: two that happen to have the same six digits are not *)
(* modelled.                                                               *)
(***************************************************************************)
EXTENDS Naturals, FiniteSets

CONSTANTS
    Procs,       \* requests being served at the same time
    MaxCodes,    \* bound on the number of codes that are issued
    MaxFaults,   \* bound on the number of pipelines with a command that fails
    OtpTtl,      \* RESET_OTP_TTL_SECONDS
    MaxAttempts  \* RESET_OTP_MAX_ATTEMPTS

ASSUME OtpAssumption ==
    /\ IsFiniteSet(Procs)
    /\ MaxCodes \in Nat
    /\ MaxFaults \in Nat
    /\ OtpTtl \in Nat \ {0}
    /\ MaxAttempts \in Nat \ {0}

NoCode == 0
Codes  == 1 .. MaxCodes

\* What a key without an expiry has left.
Forever == 3 * OtpTtl + 1

VARIABLES
    otp,        \* otp:<email>, its value and the ticks it has left
    attempts,   \* otp_attempts:<email>, likewise
    req,        \* where each request is and what it has read
    mailed,     \* codes whose send_otp job was added to the queue
    \* History, read by no step.
    issued,     \* the number of codes issued
    compared,   \* how often each code was compared with a submitted one
    matched,    \* codes that were submitted correctly
    consumed,   \* codes that a request deleted after a match
    undisturbed,\* codes issued while no verifyOtp had something left to write,
                \*   and that no failed command has touched
    faults      \* the number of pipelines with a command that failed

store   == <<otp, attempts>>
history == <<issued, compared, matched, consumed, undisturbed, faults>>
vars    == <<store, req, mailed, history>>

Places == { "idle", "set", "enqueue", "dropAttempts", "dropBoth", "count", "consume", "sign" }
Verifying == { "dropAttempts", "dropBoth", "count", "consume" }

Absent == [ value |-> 0, left |-> 0 ]
Idle   == [ at |-> "idle", code |-> NoCode, ttl |-> 0, right |-> FALSE ]

\* Every value keeps its type, and a key that has run out is absent.
TypeOK ==
    /\ otp \in [ value : Codes \cup {NoCode}, left : 0 .. 3 * OtpTtl ]
    /\ attempts \in [ value : Nat, left : 0 .. Forever ]
    /\ req \in [ Procs -> [ at : Places, code : Codes \cup {NoCode},
                            ttl : 0 .. OtpTtl, right : BOOLEAN ] ]
    /\ mailed \subseteq Codes
    /\ issued \in 0 .. MaxCodes
    /\ compared \in [ Codes -> Nat ]
    /\ matched \subseteq Codes
    /\ consumed \subseteq Codes
    /\ undisturbed \subseteq Codes
    /\ faults \in 0 .. MaxFaults
    /\ otp.left = 0 => otp = Absent
    /\ attempts.left = 0 => attempts = Absent

Init ==
    /\ otp = Absent /\ attempts = Absent
    /\ req = [ p \in Procs |-> Idle ]
    /\ mailed = {}
    /\ issued = 0
    /\ compared = [ c \in Codes |-> 0 ]
    /\ matched = {} /\ consumed = {} /\ undisturbed = {}
    /\ faults = 0

-----------------------------------------------------------------------------
(* Redis.                                                                  *)

\* SET with EX, and EXPIRE, whose argument is in seconds.
Stored(value, seconds) == [ value |-> value, left |-> 3 * seconds ]

\* TTL: milliseconds plus 500, divided by 1000.
Ttl(key) == (key.left + 1) \div 3

Older(key) ==
    IF key.left = Forever THEN key
    ELSE IF key.left > 1 THEN [key EXCEPT !.left = @ - 1]
    ELSE Absent

\* INCR of an absent key makes one without an expiry; EXPIRE of an absent key
\* does nothing.  A command of "lost" has failed.
Incr(key, lost) ==
    IF "incr" \in lost
      THEN key
      ELSE [ value |-> key.value + 1, left |-> IF key.left = 0 THEN Forever ELSE key.left ]

Expire(key, seconds, lost) ==
    IF "expire" \in lost \/ key.left = 0 THEN key ELSE Stored(key.value, seconds)

\* A pipeline some of whose commands failed.  Bound: the number of them.
Faulty(lost) ==
    /\ faults' = IF lost = {} THEN faults ELSE faults + 1
    /\ faults' <= MaxFaults

Answer(p) == req' = [req EXCEPT ![p] = Idle]
Goto(p, to) == req' = [req EXCEPT ![p].at = to]

-----------------------------------------------------------------------------
(* forgotPassword.                                                         *)

\* The user is looked up; for an unknown address nothing else happens.
ForgotPassword(p) ==
    /\ req[p].at = "idle"
    /\ Goto(p, "set")
    /\ UNCHANGED <<store, mailed, history>>

\* A new code is undisturbed when no request can confuse it, and a pipeline
\* that failed in part disturbs the code it leaves in place.
Issued(c, lost) ==
    /\ issued' = c
    /\ undisturbed' = IF lost # {} THEN undisturbed \ {otp.value}
                      ELSE IF \E q \in Procs : req[q].at \in Verifying THEN undisturbed
                      ELSE undisturbed \cup {c}

\* Slip: the counter of the code before is not reset.
SetOtp_KeepsAttempts(p, lost) ==
    LET c == issued + 1 IN
    /\ req[p].at = "set"
    /\ c \in Codes
    /\ Faulty(lost)
    /\ req' = [req EXCEPT ![p].at = "enqueue", ![p].code = c]
    /\ otp' = IF "otp" \in lost THEN otp ELSE Stored(c, OtpTtl)
    /\ Issued(c, lost)
    /\ UNCHANGED <<attempts, mailed, compared, matched, consumed>>

\* The pipeline of two SETs.  Bound: a code is left to be issued.
SetOtp(p, lost) ==
    LET c == issued + 1 IN
    /\ req[p].at = "set"
    /\ c \in Codes
    /\ Faulty(lost)
    /\ req' = [req EXCEPT ![p].at = "enqueue", ![p].code = c]
    /\ otp' = IF "otp" \in lost THEN otp ELSE Stored(c, OtpTtl)
    /\ attempts' = IF "attempts" \in lost THEN attempts ELSE Stored(0, OtpTtl)
    /\ Issued(c, lost)
    /\ UNCHANGED <<mailed, compared, matched, consumed>>

\* The code is mailed, stored or not.
Enqueue(p) ==
    /\ req[p].at = "enqueue"
    /\ mailed' = mailed \cup {req[p].code}
    /\ Answer(p)
    /\ UNCHANGED <<store, history>>

-----------------------------------------------------------------------------
(* verifyOtp.                                                              *)

\* Slip: the limit is passed by one.
Outcome_OneMore(lost) ==
    IF otp.left = 0 \/ "otp" \in lost THEN "dropAttempts"
    ELSE IF attempts.value > MaxAttempts /\ "attempts" \notin lost THEN "dropBoth"
    ELSE "count"

\* What the first reads decide.  An absent counter reads as none used, and so
\* does one that could not be read.
Outcome(lost) ==
    IF otp.left = 0 \/ "otp" \in lost THEN "dropAttempts"
    ELSE IF attempts.value >= MaxAttempts /\ "attempts" \notin lost THEN "dropBoth"
    ELSE "count"

\* What is wrong about a TTL does the code no harm.
Misread(lost) == undisturbed' = IF lost \subseteq {"ttl"} THEN undisturbed
                                ELSE undisturbed \ {otp.value}

\* Slip: a TTL of no seconds is handed on to EXPIRE.
VerifyOtp_ZeroTtl(p, submitted, lost) ==
    /\ req[p].at = "idle"
    /\ Faulty(lost)
    /\ submitted \in mailed \cup {NoCode}
    /\ req' = [req EXCEPT ![p] =
                 IF Outcome(lost) = "count"
                   THEN [ at |-> "count", code |-> otp.value, ttl |-> Ttl(otp),
                          right |-> submitted = otp.value ]
                   ELSE [Idle EXCEPT !.at = Outcome(lost)]]
    /\ Misread(lost)
    /\ UNCHANGED <<store, mailed, issued, compared, matched, consumed>>

\* The pipeline GET, GET, TTL.  The code that is submitted is one that was
\* mailed, or a wrong one.  A TTL of no seconds is taken for a full one, and
\* so is none.
VerifyOtp(p, submitted, lost) ==
    /\ req[p].at = "idle"
    /\ Faulty(lost)
    /\ submitted \in mailed \cup {NoCode}
    /\ req' = [req EXCEPT ![p] =
                 IF Outcome(lost) = "count"
                   THEN [ at |-> "count", code |-> otp.value,
                          ttl |-> IF Ttl(otp) > 0 /\ "ttl" \notin lost
                                    THEN Ttl(otp) ELSE OtpTtl,
                          right |-> submitted = otp.value ]
                   ELSE [Idle EXCEPT !.at = Outcome(lost)]]
    /\ Misread(lost)
    /\ UNCHANGED <<store, mailed, issued, compared, matched, consumed>>

DropAttempts(p) ==
    /\ req[p].at = "dropAttempts"
    /\ attempts' = Absent
    /\ Answer(p)
    /\ UNCHANGED <<otp, mailed, history>>

DropBoth(p) ==
    /\ req[p].at = "dropBoth"
    /\ otp' = Absent /\ attempts' = Absent
    /\ Answer(p)
    /\ UNCHANGED <<mailed, history>>

\* incrementOtpAttempts, a pipeline of INCR and EXPIRE, then the comparison
\* with the code as it was read, whether or not it was counted.
Count(p, lost) ==
    LET c == req[p].code IN
    /\ req[p].at = "count"
    /\ Faulty(lost)
    /\ attempts' = Expire(Incr(attempts, lost), req[p].ttl, lost)
    /\ compared' = [compared EXCEPT ![c] = @ + 1]
    /\ IF req[p].right
         THEN /\ Goto(p, "consume")
              /\ matched' = matched \cup {c}
         ELSE /\ Answer(p)
              /\ UNCHANGED matched
    /\ undisturbed' = IF lost = {} THEN undisturbed ELSE undisturbed \ {c}
    /\ UNCHANGED <<otp, mailed, issued, consumed>>

\* Slip: a match deletes the counter and leaves the code.
Consume_KeepsOtp(p) ==
    /\ req[p].at = "consume"
    /\ attempts' = Absent
    /\ consumed' = consumed \cup {req[p].code}
    /\ Goto(p, "sign")
    /\ UNCHANGED <<otp, mailed, issued, compared, matched, undisturbed, faults>>

Consume(p) ==
    /\ req[p].at = "consume"
    /\ otp' = Absent /\ attempts' = Absent
    /\ consumed' = consumed \cup {req[p].code}
    /\ Goto(p, "sign")
    /\ UNCHANGED <<mailed, issued, compared, matched, undisturbed, faults>>

\* The user is looked up again and the reset token signed.
Sign(p) ==
    /\ req[p].at = "sign"
    /\ Answer(p)
    /\ UNCHANGED <<store, mailed, history>>

\* A DEL is rejected, a pipeline has no results at all, a statement or a call
\* to the queue fails, or the server stops.
Fail(p) ==
    /\ req[p].at # "idle"
    /\ Answer(p)
    /\ UNCHANGED <<store, mailed, history>>

Tick ==
    /\ otp.left + attempts.left > 0
    /\ otp' = Older(otp)
    /\ attempts' = Older(attempts)
    /\ UNCHANGED <<req, mailed, history>>

Next ==
    \/ \E p \in Procs :
         \/ ForgotPassword(p) \/ Enqueue(p)
         \/ \E lost \in SUBSET {"otp", "attempts"} : SetOtp(p, lost)
         \/ \E submitted \in Codes \cup {NoCode}, lost \in SUBSET {"attempts", "otp", "ttl"} :
              VerifyOtp(p, submitted, lost)
         \/ \E lost \in SUBSET {"incr", "expire"} : Count(p, lost)
         \/ DropAttempts(p) \/ DropBoth(p) \/ Consume(p) \/ Sign(p)
         \/ Fail(p)
    \/ Tick

Spec == Init /\ [][Next]_vars

-----------------------------------------------------------------------------
(* Properties.                                                             *)

\* As many as one run of the counter lets through.
Guesses == MaxAttempts + Cardinality(Procs) - 1

\* How often one code can be guessed at.  The limit is checked against a
\* value read before the increment, so every request in flight may pass it
\* once; and the counter, whose expiry is set again from a rounded TTL, can
\* lapse just before the code and start anew, but never twice.  Codes that
\* were issued while an older verifyOtp was still running are left out, and
\* so are those a failed command has touched: an INCR that fails leaves a
\* guess uncounted, and nothing bounds how often.
GuessesBounded ==
    \A c \in undisturbed : compared[c] <= 2 * Guesses

\* A code that is still valid goes away for a reason of its own: a newer one,
\* a correct submission of this code, or too many wrong ones for this code;
\* the leftovers of an earlier code never cost the user a new one.  (A counter
\* that could not be reset may, and such codes are left out.)
CodeEndsForCause ==
    [][ \A c \in undisturbed :
          otp.value = c /\ otp.left > 1 /\ otp'.value = NoCode =>
              c \in matched \/ compared[c] >= MaxAttempts ]_vars

\* What the comment on incrementOtpAttempts promises: no code is compared with
\* a submitted one that is not counted as well ("Count every verification
\* attempt independently from OTP comparison").
EveryAttemptIsCounted ==
    [][ compared' # compared => attempts'.value = attempts.value + 1 ]_vars

\* Once a request has consumed a code, no later one can read it: whoever is
\* given a second token for it was already past its reads.
ConsumedIsGone == otp.left > 0 => otp.value \notin consumed

\* What a request has read of a code still holds, or no longer matters: a
\* request that will count or delete on behalf of an undisturbed code has
\* read that code.
Remembers(p) ==
    /\ req[p].at \in { "enqueue", "count", "consume" } => req[p].code \in 1 .. issued
    /\ req[p].at = "count" => req[p].ttl > 0
    /\ req[p].at = "consume" => req[p].code \in matched
    /\ otp.value \in undisturbed =>
         /\ req[p].at # "dropAttempts"
         /\ req[p].at = "dropBoth" => compared[otp.value] >= MaxAttempts
         /\ req[p].at \in { "count", "consume" } => req[p].code = otp.value

\* What is behind CodeEndsForCause and ConsumedIsGone.
CodeInv ==
    /\ TypeOK
    /\ ConsumedIsGone
    /\ otp.left > 0 => otp.value \in 1 .. issued
    /\ consumed \cup undisturbed \subseteq 1 .. issued
    /\ otp.value \in undisturbed => attempts.value <= compared[otp.value]
    /\ \A p \in Procs : Remembers(p)

\* The requests that are past the limit and have yet to count and compare.
Counting(c) == { p \in Procs : req[p].at = "count" /\ req[p].code = c }

\* While a code is stored, the counter and the requests in flight together
\* stay within one run of the counter.  Until the code's last tick the counter
\* holds every comparison, since it is never given less time than the code has
\* left but for the rounding of TTL; so it can lapse once, and what it held by
\* then was one run.
WithinRun(c) ==
    /\ attempts.value + Cardinality(Counting(c)) <= Guesses
    /\ compared[c] <= attempts.value + Guesses
    /\ compared[c] # attempts.value => otp.left <= 1
    /\ otp.left <= attempts.left + 1
    /\ \A p \in Counting(c) : otp.left <= 3 * req[p].ttl + 1

\* What is behind GuessesBounded.
GuessInv ==
    /\ \A c \in Codes : c > issued => compared[c] = 0
    /\ \A c \in undisturbed :
         /\ compared[c] + Cardinality(Counting(c)) <= 2 * Guesses
         /\ otp.value = c => WithinRun(c)

\* The inductive invariant.
OtpInv == CodeInv /\ GuessInv

=============================================================================
