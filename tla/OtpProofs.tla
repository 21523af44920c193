----------------------------- MODULE OtpProofs -----------------------------
(***************************************************************************)
(* One-time codes end for a cause of their own and are gone once consumed, *)
(* for any number of requests and codes, any lifetime and any limit.       *)
(***************************************************************************)
EXTENDS Otp, FiniteSetTheorems, TLAPS

-----------------------------------------------------------------------------
(* Redis keys.                                                             *)

\* The clock gives a key no time, and takes none of its value while it lasts.
LEMMA OlderKey ==
    ASSUME NEW V, NEW m \in { 3 * OtpTtl, Forever },
           NEW k \in [ value : V, left : 0 .. m ],
           0 \in V, k.left = 0 => k = Absent
    PROVE  /\ Older(k) \in [ value : V, left : 0 .. m ]
           /\ Older(k).left = 0 => Older(k) = Absent
           /\ Older(k).left > 0 => k.left > 0 /\ Older(k).value = k.value
           /\ Older(k).value \in { 0, k.value }
           /\ k.left > 1 => Older(k).value = k.value
           /\ k.left > 1 => Older(k).left >= k.left - 1
           /\ k.left > 1 /\ k.left # Forever => Older(k).left = k.left - 1
  BY OtpAssumption DEF Older, Absent, Forever

\* The same of the counter.
LEMMA OlderAttempts ==
    ASSUME attempts \in [ value : Nat, left : 0 .. Forever ],
           attempts.left = 0 => attempts = Absent
    PROVE  /\ Older(attempts) \in [ value : Nat, left : 0 .. Forever ]
           /\ Older(attempts).left = 0 => Older(attempts) = Absent
           /\ Older(attempts).value \in { 0, attempts.value }
           /\ attempts.left > 1 => /\ Older(attempts).value = attempts.value
                                   /\ Older(attempts).left >= attempts.left - 1
  BY OtpAssumption DEF Older, Absent, Forever

\* What incrementOtpAttempts makes of the counter.
LEMMA CountedKey ==
    ASSUME NEW k \in [ value : Nat, left : 0 .. Forever ], k.left = 0 => k = Absent,
           NEW s \in 1 .. OtpTtl, NEW lost
    PROVE  /\ Expire(Incr(k, lost), s, lost) \in [ value : Nat, left : 0 .. Forever ]
           /\ Expire(Incr(k, lost), s, lost).left = 0 => Expire(Incr(k, lost), s, lost) = Absent
           /\ lost = {} => Expire(Incr(k, lost), s, lost)
                              = [ value |-> k.value + 1, left |-> 3 * s ]
<1> DEFINE i == Incr(k, lost)
<1>1. /\ i \in [ value : Nat, left : 0 .. Forever ]
      /\ i.left = 0 => i = Absent
      /\ lost = {} => i.value = k.value + 1 /\ i.left # 0
  BY OtpAssumption DEF Incr, Forever
<1> HIDE DEF i
<1>2. Stored(i.value, s) \in [ value : Nat, left : 0 .. Forever ] /\ Stored(i.value, s).left # 0
  BY <1>1, OtpAssumption DEF Stored, Forever
<1>3. /\ Expire(i, s, lost) \in [ value : Nat, left : 0 .. Forever ]
      /\ Expire(i, s, lost).left = 0 => Expire(i, s, lost) = Absent
  BY <1>1, <1>2 DEF Expire
<1>4. lost = {} => Expire(i, s, lost) = [ value |-> k.value + 1, left |-> 3 * s ]
  BY <1>1 DEF Expire, Stored
<1> QED BY <1>3, <1>4 DEF i

\* The number of faulty pipelines keeps its type.
LEMMA FaultsCounted ==
    ASSUME faults \in 0 .. MaxFaults, NEW lost, Faulty(lost)
    PROVE  faults' \in 0 .. MaxFaults
  BY OtpAssumption DEF Faulty

\* A TTL of a key is a number of seconds it may be set to again.
LEMMA TtlInRange ==
    ASSUME NEW V, NEW k \in [ value : V, left : 0 .. 3 * OtpTtl ]
    PROVE  Ttl(k) \in 0 .. OtpTtl
  BY OtpAssumption DEF Ttl

\* The codes that were issued are codes.
LEMMA IssuedCodes ==
    ASSUME CodeInv
    PROVE  /\ issued \in Nat
           /\ 1 .. issued \subseteq Codes
           /\ 0 \notin undisturbed
           /\ \A p \in Procs : req[p].at \in { "enqueue", "count", "consume" } =>
                 req[p].code \in 1 .. issued
<1>1. issued \in 0 .. MaxCodes
  BY DEF CodeInv, TypeOK
<1>2. MaxCodes \in Nat
  BY OtpAssumption
<1> QED BY <1>1, <1>2 DEF CodeInv, Remembers, Codes

-----------------------------------------------------------------------------
(* The steps of a request.                                                 *)

LEMMA ForgotPasswordKeeps ==
    ASSUME CodeInv, NEW p \in Procs, ForgotPassword(p) PROVE CodeInv'
<1>1. /\ UNCHANGED <<otp, attempts, mailed, issued, compared, matched, consumed, undisturbed, faults>>
      /\ req \in [ Procs -> [ at : Places, code : Codes \cup {NoCode},
                              ttl : 0 .. OtpTtl, right : BOOLEAN ] ]
      /\ req' = [req EXCEPT ![p].at = "set"]
  BY DEF CodeInv, TypeOK, ForgotPassword, Goto, store, history
<1>2. TypeOK'
  BY <1>1 DEF CodeInv, TypeOK, Places
<1>3. \A q \in Procs : Remembers(q)'
  BY <1>1 DEF CodeInv, Remembers
<1> QED BY <1>1, <1>2, <1>3 DEF CodeInv, ConsumedIsGone

\* Whatever a request answers, it leaves nothing behind but what it stored.
LEMMA AnswerRemembers ==
    ASSUME TypeOK, NEW p \in Procs, Answer(p)
    PROVE  /\ req' \in [ Procs -> [ at : Places, code : Codes \cup {NoCode},
                                    ttl : 0 .. OtpTtl, right : BOOLEAN ] ]
           /\ req'[p].at = "idle"
           /\ \A q \in Procs \ {p} : req'[q] = req[q]
  BY OtpAssumption DEF TypeOK, Answer, Idle, Places, NoCode

LEMMA EndsKeep ==
    ASSUME CodeInv, NEW p \in Procs, Enqueue(p) \/ Sign(p) \/ Fail(p)
    PROVE  CodeInv'
<1>1. /\ UNCHANGED <<otp, attempts, issued, compared, matched, consumed, undisturbed, faults>>
      /\ Answer(p)
      /\ mailed' = mailed \/ (req[p].at = "enqueue" /\ mailed' = mailed \cup {req[p].code})
  BY DEF Enqueue, Sign, Fail, store, history
<1>4. mailed' \subseteq Codes
  <2>1. req[p].at = "enqueue" => req[p].code \in Codes
    BY IssuedCodes
  <2> QED BY <1>1, <2>1 DEF CodeInv, TypeOK
<1>2. TypeOK'
  BY <1>1, <1>4, AnswerRemembers DEF CodeInv, TypeOK
<1>3. \A q \in Procs : Remembers(q)'
  BY <1>1, AnswerRemembers DEF CodeInv, Remembers
<1> QED BY <1>1, <1>2, <1>3 DEF CodeInv, ConsumedIsGone

\* A new code is undisturbed exactly when no request can confuse it.
LEMMA SetOtpKeeps ==
    ASSUME CodeInv, NEW p \in Procs, NEW lost, SetOtp(p, lost) PROVE CodeInv'
<1> DEFINE c == issued + 1
<1>1. /\ req[p].at = "set" /\ c \in Codes /\ issued \in Nat
      /\ req' = [req EXCEPT ![p].at = "enqueue", ![p].code = c]
      /\ otp' = [ value |-> c, left |-> 3 * OtpTtl ] \/ (otp' = otp /\ lost # {})
      /\ \/ attempts' = [ value |-> 0, left |-> 3 * OtpTtl ]
         \/ attempts' = attempts /\ lost # {}
      /\ issued' = c
      /\ undisturbed' = IF lost # {} THEN undisturbed \ {otp.value}
                        ELSE IF \E q \in Procs : req[q].at \in Verifying THEN undisturbed
                        ELSE undisturbed \cup {c}
      /\ UNCHANGED <<mailed, compared, matched, consumed>>
      /\ faults' \in 0 .. MaxFaults
  BY FaultsCounted DEF CodeInv, TypeOK, SetOtp, Stored, Codes, Issued
<1>2. 3 * OtpTtl \in Nat /\ 3 * OtpTtl > 0
  BY OtpAssumption
<1>3. /\ c \notin undisturbed /\ c \notin consumed
      /\ 1 .. issued \subseteq 1 .. c /\ c \in 1 .. c /\ c # 0
      /\ c \in 0 .. MaxCodes
      /\ lost # {} => otp'.value \notin undisturbed'
  BY <1>1 DEF CodeInv, Codes
<1> HIDE DEF c
<1>4. TypeOK'
  <2>1. req' \in [ Procs -> [ at : Places, code : Codes \cup {NoCode},
                             ttl : 0 .. OtpTtl, right : BOOLEAN ] ]
    <3>1. req[p] \in [ at : Places, code : Codes \cup {NoCode},
                       ttl : 0 .. OtpTtl, right : BOOLEAN ]
      BY DEF CodeInv, TypeOK
    <3>2. [req[p] EXCEPT !.at = "enqueue", !.code = c]
            \in [ at : Places, code : Codes \cup {NoCode}, ttl : 0 .. OtpTtl, right : BOOLEAN ]
      BY <1>1, <3>1 DEF Places
    <3>3. req' = [req EXCEPT ![p] = [req[p] EXCEPT !.at = "enqueue", !.code = c]]
      BY <1>1 DEF CodeInv, TypeOK
    <3> QED BY <3>2, <3>3 DEF CodeInv, TypeOK
  <2>2. /\ otp' \in [ value : Codes \cup {NoCode}, left : 0 .. 3 * OtpTtl ]
        /\ attempts' \in [ value : Nat, left : 0 .. Forever ]
        /\ otp'.left = 0 => otp' = Absent
        /\ attempts'.left = 0 => attempts' = Absent
    <3>1. otp' = otp \/ otp' = [ value |-> c, left |-> 3 * OtpTtl ]
      BY <1>1
    <3>2. attempts' = attempts \/ attempts' = [ value |-> 0, left |-> 3 * OtpTtl ]
      BY <1>1
    <3>3. 3 * OtpTtl \in 0 .. 3 * OtpTtl /\ 3 * OtpTtl \in 0 .. Forever
      BY <1>2 DEF Forever
    <3>4. /\ otp' \in [ value : Codes \cup {NoCode}, left : 0 .. 3 * OtpTtl ]
          /\ otp'.left = 0 => otp' = Absent
      BY <1>1, <1>2, <3>1, <3>3 DEF CodeInv, TypeOK
    <3>5. /\ attempts' \in [ value : Nat, left : 0 .. Forever ]
          /\ attempts'.left = 0 => attempts' = Absent
      BY <1>2, <3>2, <3>3 DEF CodeInv, TypeOK
    <3> QED BY <3>4, <3>5
  <2>3. undisturbed' \subseteq Codes
    BY <1>1 DEF CodeInv, TypeOK
  <2> QED BY <1>1, <1>3, <2>1, <2>2, <2>3 DEF CodeInv, TypeOK
<1>5. ASSUME NEW q \in Procs PROVE Remembers(q)'
  <2>1. /\ q # p => req'[q] = req[q]
        /\ req'[p].at = "enqueue" /\ req'[p].code = c
    BY <1>1 DEF CodeInv, TypeOK
  <2>2. CASE q = p
    BY <1>1, <1>3, <2>1, <2>2 DEF Remembers
  <2>3. CASE q # p
    <3>1. req[q].code \in 1 .. issued => req[q].code \in 1 .. issued'
      BY <1>1, <1>3
    <3>2. otp'.value \in undisturbed' => req[q].at \notin Verifying
      <4>1. CASE lost # {}
        BY <1>3, <4>1
      <4>2. CASE lost = {}
        BY <1>1, <1>3, <4>2
      <4> QED BY <4>1, <4>2
    <3> QED BY <1>1, <2>1, <2>3, <3>1, <3>2 DEF CodeInv, Remembers, Verifying
  <2> QED BY <2>2, <2>3
<1>6. (otp.value \in undisturbed => attempts.value <= compared[otp.value])'
  <2>1. CASE lost # {}
    BY <1>3, <2>1
  <2>2. CASE lost = {}
    BY <1>1, <2>2 DEF CodeInv, TypeOK
  <2> QED BY <2>1, <2>2
<1>7. (consumed \cup undisturbed \subseteq 1 .. issued)'
  BY <1>1, <1>3 DEF CodeInv
<1>8. ConsumedIsGone' /\ (otp.left > 0 => otp.value \in 1 .. issued)'
  BY <1>1, <1>3 DEF ConsumedIsGone, CodeInv
<1> QED BY <1>4, <1>5, <1>6, <1>7, <1>8 DEF CodeInv

\* A request that begins reads the code that is stored.
LEMMA VerifyOtpKeeps ==
    ASSUME CodeInv, NEW p \in Procs, NEW submitted \in Codes \cup {NoCode},
           NEW lost, VerifyOtp(p, submitted, lost)
    PROVE  CodeInv'
<1> DEFINE r == req'[p]
<1>1. /\ UNCHANGED <<otp, attempts, mailed, issued, compared, matched, consumed>>
      /\ faults' \in 0 .. MaxFaults
      /\ undisturbed' \subseteq undisturbed
      /\ otp.value \in undisturbed' => "otp" \notin lost /\ "attempts" \notin lost
      /\ req' = [req EXCEPT ![p] =
                 IF Outcome(lost) = "count"
                   THEN [ at |-> "count", code |-> otp.value,
                          ttl |-> IF Ttl(otp) > 0 /\ "ttl" \notin lost
                                    THEN Ttl(otp) ELSE OtpTtl,
                          right |-> submitted = otp.value ]
                   ELSE [Idle EXCEPT !.at = Outcome(lost)]]
  BY FaultsCounted DEF VerifyOtp, store, Misread, CodeInv, TypeOK
<1>2. CASE Outcome(lost) = "count"
  <2>1. /\ otp.left > 0
        /\ otp.value \in 1 .. issued
    BY <1>2 DEF Outcome, CodeInv, TypeOK
  <2>2. Ttl(otp) \in 0 .. OtpTtl
    BY TtlInRange DEF CodeInv, TypeOK
  <2>3. /\ r = [ at |-> "count", code |-> otp.value,
                 ttl |-> IF Ttl(otp) > 0 /\ "ttl" \notin lost
                                    THEN Ttl(otp) ELSE OtpTtl,
                 right |-> submitted = otp.value ]
        /\ \A q \in Procs \ {p} : req'[q] = req[q]
    BY <1>1, <1>2 DEF CodeInv, TypeOK
  <2>4. r \in [ at : Places, code : Codes \cup {NoCode},
                ttl : 0 .. OtpTtl, right : BOOLEAN ]
    BY <2>2, <2>3, OtpAssumption DEF CodeInv, TypeOK, Places
  <2>5. r.at = "count" /\ r.code = otp.value /\ r.ttl > 0
    BY <2>2, <2>3, OtpAssumption
  <2> HIDE DEF r
  <2>6. TypeOK'
    BY <1>1, <2>4 DEF CodeInv, TypeOK, r
  <2>7. \A q \in Procs : Remembers(q)'
    BY <1>1, <2>1, <2>3, <2>5 DEF CodeInv, Remembers, r
  <2> QED BY <1>1, <2>6, <2>7 DEF CodeInv, ConsumedIsGone
<1>3. CASE Outcome(lost) # "count"
  <2>1. /\ Outcome(lost) \in { "dropAttempts", "dropBoth" }
        /\ Outcome(lost) = "dropAttempts" => otp.left = 0 \/ "otp" \in lost
        /\ Outcome(lost) = "dropBoth" => attempts.value >= MaxAttempts
    BY <1>3 DEF Outcome
  <2>2. /\ r = [Idle EXCEPT !.at = Outcome(lost)]
        /\ \A q \in Procs \ {p} : req'[q] = req[q]
    BY <1>1, <1>3 DEF CodeInv, TypeOK
  <2>3. /\ r \in [ at : Places, code : Codes \cup {NoCode},
                   ttl : 0 .. OtpTtl, right : BOOLEAN ]
        /\ r.at = Outcome(lost)
    <3>1. r = [ at |-> Outcome(lost), code |-> NoCode, ttl |-> 0, right |-> FALSE ]
      BY <2>2 DEF Idle
    <3>2. 0 \in 0 .. OtpTtl /\ Outcome(lost) \in Places
      BY <2>1, OtpAssumption DEF Places
    <3> QED BY <3>1, <3>2
  <2>4. otp.left = 0 => otp.value \notin undisturbed
    BY DEF CodeInv, TypeOK, Absent
  <2>5. otp.value \in undisturbed /\ Outcome(lost) = "dropBoth" => compared[otp.value] >= MaxAttempts
    BY <2>1, OtpAssumption DEF CodeInv, TypeOK
  <2> HIDE DEF r
  <2>6. TypeOK'
    BY <1>1, <2>3 DEF CodeInv, TypeOK, r
  <2>7. \A q \in Procs : Remembers(q)'
    BY <1>1, <2>1, <2>2, <2>3, <2>4, <2>5 DEF CodeInv, Remembers, r
  <2> QED BY <1>1, <2>6, <2>7 DEF CodeInv, ConsumedIsGone
<1> QED BY <1>2, <1>3

\* What is deleted was too often guessed at, or is no longer undisturbed.
LEMMA DropsKeep ==
    ASSUME CodeInv, NEW p \in Procs, DropAttempts(p) \/ DropBoth(p)
    PROVE  CodeInv'
<1>1. /\ UNCHANGED <<mailed, issued, compared, matched, consumed, undisturbed, faults>>
      /\ Answer(p)
      /\ attempts' = Absent
      /\ otp' = Absent \/ (otp' = otp /\ otp.value \notin undisturbed)
  BY DEF CodeInv, Remembers, DropAttempts, DropBoth, store, history
<1>2. 0 \notin undisturbed
  BY DEF CodeInv
<1>3. TypeOK'
  BY <1>1, AnswerRemembers, OtpAssumption DEF CodeInv, TypeOK, Absent, NoCode, Forever
<1>4. otp'.value \notin undisturbed'
  BY <1>1, <1>2 DEF Absent
<1>5. \A q \in Procs : Remembers(q)'
  BY <1>1, <1>4, AnswerRemembers DEF CodeInv, Remembers
<1> QED BY <1>1, <1>3, <1>4, <1>5 DEF CodeInv, ConsumedIsGone, Absent

\* Every attempt on an undisturbed code is counted for that code at once.
LEMMA CountKeeps ==
    ASSUME CodeInv, NEW p \in Procs, NEW lost, Count(p, lost) PROVE CodeInv'
<1> DEFINE c == req[p].code
<1>1. /\ req[p].at = "count" /\ c \in 1 .. issued /\ c \in Codes /\ c \in Nat
      /\ req[p].ttl \in 0 .. OtpTtl /\ req[p].ttl > 0
      /\ otp.value \in undisturbed => c = otp.value
  <2>1. req[p].at = "count"
    BY DEF Count
  <2>2. c \in 1 .. issued /\ c \in Codes /\ c \in Nat
    BY <2>1, IssuedCodes
  <2> QED BY <2>1, <2>2 DEF CodeInv, Remembers, TypeOK
<1>2. /\ attempts' = Expire(Incr(attempts, lost), req[p].ttl, lost)
      /\ compared' = [compared EXCEPT ![c] = @ + 1]
      /\ \/ Goto(p, "consume") /\ matched' = matched \cup {c}
         \/ Answer(p) /\ UNCHANGED matched
      /\ UNCHANGED <<otp, mailed, issued, consumed>>
      /\ undisturbed' = IF lost = {} THEN undisturbed ELSE undisturbed \ {c}
      /\ faults' \in 0 .. MaxFaults
  BY FaultsCounted DEF Count, CodeInv, TypeOK
<1>a. /\ attempts' \in [ value : Nat, left : 0 .. Forever ]
      /\ attempts'.left = 0 => attempts' = Absent
      /\ lost = {} => attempts' = [ value |-> attempts.value + 1, left |-> 3 * req[p].ttl ]
  <2>1. req[p].ttl \in 1 .. OtpTtl
    BY <1>1, OtpAssumption
  <2> QED BY <1>2, <2>1, CountedKey DEF CodeInv, TypeOK
<1>b. /\ undisturbed' \subseteq undisturbed
      /\ otp.value \in undisturbed' => lost = {}
  BY <1>1, <1>2
<1>3. /\ \A d \in Codes : compared[d] \in Nat /\ compared'[d] \in Nat /\ compared'[d] >= compared[d]
      /\ compared'[c] = compared[c] + 1
      /\ compared' \in [ Codes -> Nat ]
  BY <1>1, <1>2 DEF CodeInv, TypeOK
<1>4. /\ req' \in [ Procs -> [ at : Places, code : Codes \cup {NoCode},
                               ttl : 0 .. OtpTtl, right : BOOLEAN ] ]
      /\ \A q \in Procs \ {p} : req'[q] = req[q]
      /\ \/ req'[p].at = "consume" /\ req'[p].code = c /\ c \in matched'
         \/ req'[p].at = "idle"
  <2>1. CASE Goto(p, "consume") /\ matched' = matched \cup {c}
    BY <2>1 DEF Goto, CodeInv, TypeOK, Places
  <2>2. CASE Answer(p) /\ UNCHANGED matched
    BY <2>2, AnswerRemembers DEF CodeInv
  <2> QED BY <1>2, <2>1, <2>2
<1>5. matched \subseteq matched' /\ matched' \subseteq Codes
  BY <1>1, <1>2 DEF CodeInv, TypeOK
<1> HIDE DEF c
<1>6. TypeOK'
  BY <1>2, <1>3, <1>4, <1>5, <1>a, <1>b DEF CodeInv, TypeOK
<1>7. \A q \in Procs : Remembers(q)'
  <2> SUFFICES ASSUME NEW q \in Procs PROVE Remembers(q)'
    OBVIOUS
  <2>1. /\ otp.value \in undisturbed => otp.value \in Codes
        /\ MaxAttempts \in Nat
    BY OtpAssumption DEF CodeInv, TypeOK
  <2>2. CASE q = p
    BY <1>1, <1>2, <1>4, <1>b, <2>2 DEF Remembers
  <2>3. CASE q # p
    BY <1>2, <1>3, <1>4, <1>5, <1>b, <2>1, <2>3 DEF CodeInv, Remembers
  <2> QED BY <2>2, <2>3
<1>8. (otp.value \in undisturbed => attempts.value <= compared[otp.value])'
  BY <1>1, <1>2, <1>3, <1>a, <1>b DEF CodeInv, TypeOK
<1> QED BY <1>2, <1>6, <1>7, <1>8, <1>b DEF CodeInv, ConsumedIsGone

LEMMA ConsumeKeeps ==
    ASSUME CodeInv, NEW p \in Procs, Consume(p) PROVE CodeInv'
<1>1. /\ otp' = Absent /\ attempts' = Absent
      /\ consumed' = consumed \cup {req[p].code}
      /\ req[p].code \in 1 .. issued /\ req[p].code \in Codes
      /\ Goto(p, "sign")
      /\ UNCHANGED <<mailed, issued, compared, matched, undisturbed, faults>>
  BY DEF Consume, CodeInv, Remembers, TypeOK, Codes
<1>2. /\ req' \in [ Procs -> [ at : Places, code : Codes \cup {NoCode},
                               ttl : 0 .. OtpTtl, right : BOOLEAN ] ]
      /\ req'[p].at = "sign"
      /\ \A q \in Procs \ {p} : req'[q] = req[q]
  BY <1>1 DEF Goto, CodeInv, TypeOK, Places
<1>3. otp'.value \notin undisturbed' /\ otp'.left = 0
  BY <1>1 DEF CodeInv, Absent
<1>4. TypeOK'
  <2>1. /\ Absent \in [ value : Codes \cup {NoCode}, left : 0 .. 3 * OtpTtl ]
        /\ Absent \in [ value : Nat, left : 0 .. Forever ]
    BY OtpAssumption DEF Absent, NoCode, Forever
  <2> QED BY <1>1, <1>2, <2>1 DEF CodeInv, TypeOK
<1>5. \A q \in Procs : Remembers(q)'
  BY <1>1, <1>2, <1>3 DEF CodeInv, Remembers
<1> QED BY <1>1, <1>3, <1>4, <1>5 DEF CodeInv, ConsumedIsGone

LEMMA TickKeeps == ASSUME CodeInv, Tick PROVE CodeInv'
<1>1. /\ otp \in [ value : Codes \cup {NoCode}, left : 0 .. 3 * OtpTtl ]
      /\ attempts \in [ value : Nat, left : 0 .. Forever ]
      /\ otp.left = 0 => otp = Absent
      /\ attempts.left = 0 => attempts = Absent
      /\ 0 \notin undisturbed
  BY DEF CodeInv, TypeOK
<1>2. /\ otp' = Older(otp) /\ attempts' = Older(attempts)
      /\ UNCHANGED <<req, mailed, issued, compared, matched, consumed, undisturbed, faults>>
  BY DEF Tick, history
<1>3. /\ otp' \in [ value : Codes \cup {NoCode}, left : 0 .. 3 * OtpTtl ]
      /\ otp'.left = 0 => otp' = Absent
      /\ otp'.left > 0 => otp.left > 0 /\ otp'.value = otp.value
      /\ otp'.value \in { 0, otp.value }
  <2> DEFINE V == Codes \cup {NoCode}
  <2>1. otp \in [ value : V, left : 0 .. 3 * OtpTtl ] /\ 0 \in V
    BY <1>1 DEF NoCode
  <2> HIDE DEF V
  <2>2. /\ Older(otp) \in [ value : V, left : 0 .. 3 * OtpTtl ]
        /\ Older(otp).left = 0 => Older(otp) = Absent
        /\ Older(otp).left > 0 => otp.left > 0 /\ Older(otp).value = otp.value
        /\ Older(otp).value \in { 0, otp.value }
    BY <1>1, <2>1, OlderKey
  <2> QED BY <1>2, <2>2 DEF V
<1>4. /\ attempts' \in [ value : Nat, left : 0 .. Forever ]
      /\ attempts'.left = 0 => attempts' = Absent
      /\ attempts'.value <= attempts.value
  <2>1. /\ Older(attempts) \in [ value : Nat, left : 0 .. Forever ]
        /\ Older(attempts).left = 0 => Older(attempts) = Absent
        /\ Older(attempts).value \in { 0, attempts.value }
    BY <1>1, OlderAttempts
  <2>2. attempts.value \in Nat
    BY <1>1
  <2> QED BY <1>2, <2>1, <2>2
<1>5. otp'.value \in undisturbed => otp'.value = otp.value
  BY <1>1, <1>3
<1>6. TypeOK'
  BY <1>2, <1>3, <1>4 DEF CodeInv, TypeOK
<1>7. \A q \in Procs : Remembers(q)'
  BY <1>2, <1>5 DEF CodeInv, Remembers
<1>8. (otp.value \in undisturbed => attempts.value <= compared[otp.value])'
  BY <1>1, <1>2, <1>4, <1>5 DEF CodeInv, TypeOK
<1> QED BY <1>2, <1>3, <1>6, <1>7, <1>8 DEF CodeInv, ConsumedIsGone

-----------------------------------------------------------------------------
(* Guesses.                                                                *)

LEMMA Numbers ==
    ASSUME CodeInv
    PROVE  /\ Cardinality(Procs) \in Nat /\ MaxAttempts \in Nat \ {0} /\ Guesses \in Nat
           /\ otp.left \in Nat /\ attempts.value \in Nat /\ attempts.left \in Nat
           /\ \A c \in Codes : compared[c] \in Nat /\ c # NoCode /\ c \in Nat
           /\ undisturbed \subseteq Codes /\ NoCode \notin undisturbed
           /\ issued \in Nat /\ 1 .. issued \subseteq Codes
<1>1. Cardinality(Procs) \in Nat
  BY FS_CardinalityType, OtpAssumption
<1>2. MaxAttempts \in Nat \ {0} /\ 3 * OtpTtl \in Nat /\ Forever \in Nat
  BY OtpAssumption DEF Forever
<1>3. Guesses \in Nat
  BY <1>1, <1>2 DEF Guesses
<1>4. /\ otp.left \in Nat /\ attempts.value \in Nat /\ attempts.left \in Nat
      /\ \A c \in Codes : compared[c] \in Nat
      /\ undisturbed \subseteq Codes
  BY <1>2 DEF CodeInv, TypeOK
<1>5. issued \in Nat /\ 1 .. issued \subseteq Codes /\ NoCode \notin undisturbed
  BY IssuedCodes DEF NoCode
<1>6. \A c \in Codes : c # NoCode /\ c \in Nat
  BY DEF Codes, NoCode
<1> QED BY <1>1, <1>2, <1>3, <1>4, <1>5, <1>6

\* No more requests are in flight than there are.
LEMMA InFlight ==
    ASSUME NEW c
    PROVE  /\ IsFiniteSet(Counting(c))
           /\ Cardinality(Counting(c)) \in Nat
           /\ Cardinality(Counting(c)) <= Cardinality(Procs)
<1>1. Counting(c) \subseteq Procs
  BY DEF Counting
<1>2. IsFiniteSet(Counting(c)) /\ Cardinality(Counting(c)) <= Cardinality(Procs)
  BY <1>1, FS_Subset, OtpAssumption
<1> QED BY <1>2, FS_CardinalityType

\* The same of the requests as they are after a step.
LEMMA InFlightNext ==
    ASSUME NEW c
    PROVE  /\ IsFiniteSet(Counting(c)')
           /\ Cardinality(Counting(c)') \in Nat
           /\ Cardinality(Counting(c)') <= Cardinality(Procs)
<1>1. Counting(c)' \subseteq Procs
  BY DEF Counting
<1>2. IsFiniteSet(Counting(c)') /\ Cardinality(Counting(c)') <= Cardinality(Procs)
  BY <1>1, FS_Subset, OtpAssumption
<1> QED BY <1>2, FS_CardinalityType

\* A step that sends no request past the limit leaves no more in flight.
LEMMA NoMoreInFlight ==
    ASSUME NEW c, \A p \in Procs : req'[p].at = "count" => req'[p] = req[p]
    PROVE  /\ Counting(c)' \subseteq Counting(c)
           /\ Cardinality(Counting(c)') <= Cardinality(Counting(c))
<1>1. Counting(c)' \subseteq Counting(c)
  BY DEF Counting
<1> QED BY <1>1, FS_Subset, InFlight

\* Steps that touch neither the store nor what was compared.
LEMMA QuietSpares ==
    ASSUME OtpInv, UNCHANGED <<otp, attempts, issued, compared, undisturbed>>,
           \A p \in Procs : req'[p].at = "count" => req'[p] = req[p]
    PROVE  GuessInv'
<1>1. ASSUME NEW c
      PROVE  /\ Counting(c)' \subseteq Counting(c)
             /\ Cardinality(Counting(c)') <= Cardinality(Counting(c))
             /\ Cardinality(Counting(c)') \in Nat /\ Cardinality(Counting(c)) \in Nat
  BY NoMoreInFlight, InFlight, InFlightNext
<1>2. \A p \in Procs : req'[p].at = "count" => req'[p].ttl = req[p].ttl
  OBVIOUS
<1>3. GuessInv /\ CodeInv
  BY DEF OtpInv
<1>4. (\A c \in Codes : c > issued => compared[c] = 0)'
  BY <1>3 DEF GuessInv
<1>5. ASSUME NEW c \in undisturbed
      PROVE compared[c] + Cardinality(Counting(c)') <= 2 * Guesses
  <2>1. compared[c] + Cardinality(Counting(c)) <= 2 * Guesses
    BY <1>3 DEF GuessInv
  <2> QED BY <2>1, <1>1, <1>3, Numbers
<1>6. ASSUME NEW c \in undisturbed, otp.value = c
      PROVE WithinRun(c)'
  <2>1. WithinRun(c)
    BY <1>3, <1>6 DEF GuessInv
  <2>2. \A p \in Counting(c)' : p \in Counting(c) /\ req'[p].ttl = req[p].ttl
    BY <1>1, <1>2 DEF Counting
  <2>3. attempts.value + Cardinality(Counting(c)') <= Guesses
    BY <2>1, <1>1, <1>3, Numbers DEF WithinRun
  <2> QED BY <2>1, <2>2, <2>3 DEF WithinRun, Guesses
<1> QED BY <1>3, <1>4, <1>5, <1>6 DEF GuessInv, Guesses

LEMMA EndsSpare ==
    ASSUME OtpInv, NEW p \in Procs,
           ForgotPassword(p) \/ Enqueue(p) \/ Sign(p) \/ Fail(p)
    PROVE  GuessInv'
<1>1. UNCHANGED <<otp, attempts, issued, compared, undisturbed>>
  BY DEF ForgotPassword, Enqueue, Sign, Fail, store, history
<1>2. /\ req' = [req EXCEPT ![p].at = "set"] \/ req' = [req EXCEPT ![p] = Idle]
      /\ req \in [ Procs -> [ at : Places, code : Codes \cup {NoCode},
                              ttl : 0 .. OtpTtl, right : BOOLEAN ] ]
  BY DEF ForgotPassword, Enqueue, Sign, Fail, Goto, Answer, OtpInv, CodeInv, TypeOK
<1>3. ASSUME NEW q \in Procs, req'[q].at = "count" PROVE req'[q] = req[q]
  BY <1>2, <1>3 DEF Idle
<1> QED BY <1>1, <1>3, QuietSpares

\* With the code gone, or touched by a fault, nothing is left to guess at.
LEMMA GoneSpares ==
    ASSUME OtpInv, otp'.value \notin undisturbed', undisturbed' \subseteq undisturbed,
           (\A c \in Codes : c > issued => compared[c] = 0)',
           \A c \in undisturbed' :
              /\ compared'[c] = compared[c]
              /\ Cardinality(Counting(c)') <= Cardinality(Counting(c))
    PROVE  GuessInv'
<1>1. GuessInv /\ CodeInv
  BY DEF OtpInv
<1>2. ASSUME NEW c \in undisturbed'
      PROVE compared'[c] + Cardinality(Counting(c)') <= 2 * Guesses
  <2>1. compared[c] + Cardinality(Counting(c)) <= 2 * Guesses
    BY <1>1 DEF GuessInv
  <2>2. /\ Cardinality(Counting(c)') <= Cardinality(Counting(c))
        /\ Cardinality(Counting(c)') \in Nat /\ Cardinality(Counting(c)) \in Nat
    BY InFlight, InFlightNext
  <2> QED BY <2>1, <2>2, <1>1, Numbers
<1> QED BY <1>1, <1>2 DEF GuessInv, Guesses

LEMMA DropsSpare ==
    ASSUME OtpInv, NEW p \in Procs, DropAttempts(p) \/ DropBoth(p) \/ Consume(p)
    PROVE  GuessInv'
<1>1. /\ UNCHANGED <<issued, compared, undisturbed>>
      /\ otp' = Absent \/ (otp' = otp /\ otp.value \notin undisturbed)
      /\ req' = [req EXCEPT ![p].at = "sign"] \/ req' = [req EXCEPT ![p] = Idle]
  BY DEF OtpInv, CodeInv, Remembers, DropAttempts, DropBoth, Consume, Goto, Answer, store, history
<1>2. ASSUME NEW q \in Procs, req'[q].at = "count" PROVE req'[q] = req[q]
  BY <1>1, <1>2 DEF Idle, OtpInv, CodeInv, TypeOK
<1>3. otp'.value \notin undisturbed'
  BY <1>1, Numbers DEF OtpInv, Absent, NoCode
<1>4. \A c : Cardinality(Counting(c)') <= Cardinality(Counting(c))
  BY <1>2, NoMoreInFlight
<1> QED BY <1>1, <1>3, <1>4, GoneSpares DEF OtpInv, GuessInv

\* A new code has not been compared with, and no request in flight has read it.
LEMMA SetOtpSpares ==
    ASSUME OtpInv, NEW p \in Procs, NEW lost, SetOtp(p, lost) PROVE GuessInv'
<1>c. PICK c : c = issued + 1
  OBVIOUS
<1>1. /\ c \in Codes /\ issued \in Nat
      /\ req' = [req EXCEPT ![p].at = "enqueue", ![p].code = c]
      /\ lost = {} => /\ otp' = [ value |-> c, left |-> 3 * OtpTtl ]
                      /\ attempts' = [ value |-> 0, left |-> 3 * OtpTtl ]
      /\ otp'.value \in { c, otp.value }
      /\ issued' = c
      /\ undisturbed' \subseteq undisturbed \cup {c}
      /\ lost # {} => undisturbed' = undisturbed \ {otp.value}
      /\ UNCHANGED compared
  BY <1>c DEF OtpInv, CodeInv, TypeOK, SetOtp, Issued, Stored, Codes
<1>2. GuessInv /\ CodeInv
  BY DEF OtpInv
<1>3. compared[c] = 0
  BY <1>c, <1>1, <1>2 DEF GuessInv
<1>4. ASSUME NEW q \in Procs, req'[q].at = "count"
      PROVE  req'[q] = req[q] /\ req[q].code # c
  <2>1. req'[q] = req[q]
    BY <1>1, <1>4 DEF OtpInv, CodeInv, TypeOK
  <2>2. req[q].code \in 1 .. issued
    BY <2>1, <1>2, <1>4, IssuedCodes
  <2> QED BY <2>1, <2>2, <1>1, <1>c
<1>5. Counting(c)' = {} /\ Cardinality(Counting(c)') = 0
  <2>1. Counting(c)' = {}
    BY <1>4 DEF Counting
  <2> QED BY <2>1, FS_EmptySet
<1>6. ASSUME NEW d \in undisturbed'
      PROVE compared[d] + Cardinality(Counting(d)') <= 2 * Guesses
  <2>1. CASE d = c
    BY <2>1, <1>2, <1>3, <1>5, Numbers
  <2>2. CASE d \in undisturbed
    <3>1. compared[d] + Cardinality(Counting(d)) <= 2 * Guesses
      BY <1>2, <2>2 DEF GuessInv
    <3>2. /\ Cardinality(Counting(d)') <= Cardinality(Counting(d))
          /\ Cardinality(Counting(d)') \in Nat /\ Cardinality(Counting(d)) \in Nat
      BY <1>4, NoMoreInFlight, InFlight, InFlightNext
    <3> QED BY <3>1, <3>2, <2>2, <1>2, Numbers
  <2> QED BY <1>1, <1>6, <2>1, <2>2
<1>7. (\A d \in Codes : d > issued => compared[d] = 0)'
  <2>1. \A d \in Codes : d > issued' => d > issued
    BY <1>1, <1>c DEF Codes
  <2> QED BY <2>1, <1>1, <1>2 DEF GuessInv
<1>f. CASE lost # {}
  <2>1. c \notin undisturbed
    BY <1>c, <1>1, <1>2 DEF CodeInv
  <2>2. otp'.value \notin undisturbed' /\ undisturbed' \subseteq undisturbed
    BY <1>1, <1>f, <2>1
  <2>3. \A d : Cardinality(Counting(d)') <= Cardinality(Counting(d))
    BY <1>4, NoMoreInFlight
  <2> QED BY <1>1, <1>7, <2>2, <2>3, GoneSpares
<1>8. ASSUME lost = {} PROVE WithinRun(c)'
  <2>1. 3 * OtpTtl \in Nat /\ Guesses \in Nat
    BY <1>2, Numbers, OtpAssumption
  <2> QED BY <2>1, <1>1, <1>3, <1>5, <1>8 DEF WithinRun, Guesses
<1>9. ASSUME lost = {}, NEW d \in undisturbed', otp'.value = d
      PROVE WithinRun(d)'
  <2>1. d = c
    BY <1>1, <1>9
  <2> QED BY <2>1, <1>8, <1>9
<1> QED BY <1>1, <1>6, <1>7, <1>9, <1>f DEF GuessInv, Guesses

\* A request goes past the limit only while a run of the counter has room, and
\* what it remembers of the code's life is at most one tick short.
LEMMA VerifyOtpSpares ==
    ASSUME OtpInv, NEW p \in Procs, NEW submitted \in Codes \cup {NoCode},
           NEW lost, VerifyOtp(p, submitted, lost)
    PROVE  GuessInv'
<1>1. /\ UNCHANGED <<otp, attempts, issued, compared>>
      /\ undisturbed' = IF lost \subseteq {"ttl"} THEN undisturbed ELSE undisturbed \ {otp.value}
      /\ req[p].at = "idle"
      /\ \A q \in Procs \ {p} : req'[q] = req[q]
      /\ Outcome(lost) = "count" =>
           /\ req'[p].code = otp.value
           /\ req'[p].ttl = IF Ttl(otp) > 0 /\ "ttl" \notin lost
                               THEN Ttl(otp) ELSE OtpTtl
      /\ Outcome(lost) # "count" => req'[p].at # "count"
  BY DEF OtpInv, CodeInv, TypeOK, VerifyOtp, Misread, store, Outcome, Idle
<1>2. GuessInv /\ CodeInv
  BY DEF OtpInv
<1>5. CASE ~(lost \subseteq {"ttl"})
  <2>1. otp'.value \notin undisturbed' /\ undisturbed' \subseteq undisturbed
    BY <1>1, <1>5
  <2>2. ASSUME NEW c \in undisturbed' PROVE Cardinality(Counting(c)') <= Cardinality(Counting(c))
    <3>1. c # otp.value
      BY <1>1, <1>5
    <3>2. Counting(c)' \subseteq Counting(c)
      BY <1>1, <3>1 DEF Counting
    <3> QED BY <3>2, FS_Subset, InFlight
  <2> QED BY <1>1, <1>2, <2>1, <2>2, GoneSpares DEF GuessInv
<1>3. CASE Outcome(lost) # "count" /\ lost \subseteq {"ttl"}
  <2>1. UNCHANGED <<otp, attempts, issued, compared, undisturbed>>
    BY <1>1, <1>3
  <2>2. \A q \in Procs : req'[q].at = "count" => req'[q] = req[q]
    BY <1>1, <1>3
  <2> QED BY <2>1, <2>2, QuietSpares
<1>4. CASE Outcome(lost) = "count" /\ lost \subseteq {"ttl"}
  <2>1. attempts.value < MaxAttempts
    BY <1>2, <1>4, Numbers DEF Outcome
  <2>2. otp.left <= 3 * req'[p].ttl + 1
    BY <1>1, <1>4, <1>2, Numbers, OtpAssumption DEF Ttl, CodeInv, TypeOK
  <2>3. ASSUME NEW c \in undisturbed, c # otp.value
        PROVE  compared[c] + Cardinality(Counting(c)') <= 2 * Guesses
    <3>1. Counting(c)' \subseteq Counting(c)
      BY <1>1, <1>4, <2>3 DEF Counting
    <3>2. Cardinality(Counting(c)') <= Cardinality(Counting(c))
      BY <3>1, FS_Subset, InFlight
    <3>3. compared[c] + Cardinality(Counting(c)) <= 2 * Guesses
      BY <1>2 DEF GuessInv
    <3> QED BY <3>2, <3>3, <1>2, Numbers, InFlight, InFlightNext
  <2>4. ASSUME NEW c \in undisturbed, c = otp.value
        PROVE  /\ compared[c] + Cardinality(Counting(c)') <= 2 * Guesses
               /\ WithinRun(c)'
    <3>1. WithinRun(c)
      BY <1>2, <2>4 DEF GuessInv
    <3>2. attempts.value + Cardinality(Counting(c)') <= Guesses
      BY <2>1, <1>2, Numbers, InFlightNext DEF Guesses
    <3>3. compared[c] + Cardinality(Counting(c)') <= 2 * Guesses
      BY <3>1, <3>2, <1>2, Numbers, InFlightNext DEF WithinRun
    <3>4. \A q \in Counting(c)' : otp.left <= 3 * req'[q].ttl + 1
      <4> SUFFICES ASSUME NEW q \in Counting(c)' PROVE otp.left <= 3 * req'[q].ttl + 1
        OBVIOUS
      <4>1. q \in Procs /\ req'[q].at = "count" /\ req'[q].code = c
        BY DEF Counting
      <4>2. CASE q = p
        BY <4>2, <2>2
      <4>3. CASE q # p
        BY <4>1, <4>3, <1>1, <3>1 DEF WithinRun, Counting
      <4> QED BY <4>2, <4>3
    <3> QED BY <3>1, <3>2, <3>3, <3>4, <1>1 DEF WithinRun, Guesses
  <2> QED BY <1>1, <1>2, <2>3, <2>4 DEF GuessInv, Guesses
<1> QED BY <1>3, <1>4, <1>5

\* A comparison takes its request out of those in flight and is counted at once.
LEMMA CountSpares ==
    ASSUME OtpInv, NEW p \in Procs, NEW lost, Count(p, lost) PROVE GuessInv'
<1>c. PICK c : c = req[p].code
  OBVIOUS
<1>1. /\ req[p].at = "count" /\ c \in Codes /\ c \in 1 .. issued
      /\ attempts' = Expire(Incr(attempts, lost), req[p].ttl, lost)
      /\ compared' = [compared EXCEPT ![c] = @ + 1]
      /\ UNCHANGED <<otp, issued>>
      /\ undisturbed' = IF lost = {} THEN undisturbed ELSE undisturbed \ {c}
      /\ req' = [req EXCEPT ![p].at = "consume"] \/ req' = [req EXCEPT ![p] = Idle]
  BY <1>c, IssuedCodes DEF OtpInv, Count, Goto, Answer
<1>2. GuessInv /\ CodeInv
  BY DEF OtpInv
<1>3. /\ req'[p].at # "count"
      /\ \A q \in Procs \ {p} : req'[q] = req[q]
  BY <1>1 DEF OtpInv, CodeInv, TypeOK, Idle
<1>4. /\ compared'[c] = compared[c] + 1
      /\ \A d \in Codes : d # c => compared'[d] = compared[d]
  BY <1>1, <1>2 DEF CodeInv, TypeOK
<1>5. Cardinality(Counting(c)') = Cardinality(Counting(c)) - 1
  <2>1. Counting(c)' = Counting(c) \ {p} /\ p \in Counting(c)
    BY <1>c, <1>1, <1>3 DEF Counting
  <2> QED BY <2>1, FS_RemoveElement, InFlight
<1>8. \A d \in Codes : d > issued => compared'[d] = 0
  <2>1. \A d \in Codes : d > issued => d # c
    BY <1>1, <1>2, Numbers DEF Codes
  <2> QED BY <2>1, <1>2, <1>4 DEF GuessInv
<1>f. CASE lost # {}
  <2>1. otp'.value \notin undisturbed' /\ undisturbed' \subseteq undisturbed
    BY <1>c, <1>1, <1>2, <1>f DEF CodeInv, Remembers
  <2>2. \A d \in undisturbed' : compared'[d] = compared[d]
    BY <1>1, <1>2, <1>4, <1>f, Numbers
  <2>3. \A d : Cardinality(Counting(d)') <= Cardinality(Counting(d))
    BY <1>3, NoMoreInFlight
  <2> QED BY <1>1, <1>8, <2>1, <2>2, <2>3, GoneSpares
<1>6. ASSUME NEW d \in undisturbed
      PROVE  compared'[d] + Cardinality(Counting(d)') <= 2 * Guesses
  <2>1. compared[d] + Cardinality(Counting(d)) <= 2 * Guesses /\ d \in Codes
    BY <1>2, Numbers DEF GuessInv
  <2>2. CASE d = c
    BY <2>1, <2>2, <1>2, <1>4, <1>5, Numbers, InFlight
  <2>3. CASE d # c
    <3>1. Cardinality(Counting(d)') <= Cardinality(Counting(d))
      BY <1>3, NoMoreInFlight
    <3> QED BY <3>1, <2>1, <2>3, <1>2, <1>4, Numbers, InFlight, InFlightNext
  <2> QED BY <2>2, <2>3
<1>7. ASSUME lost = {}, NEW d \in undisturbed, otp'.value = d
      PROVE  WithinRun(d)'
  <2>1. d = c /\ WithinRun(c)
    BY <1>c, <1>1, <1>2, <1>7 DEF CodeInv, Remembers, GuessInv
  <2>2. /\ attempts'.value = attempts.value + 1
        /\ attempts'.left = 3 * req[p].ttl
        /\ otp' = otp
    <3>1. req[p].ttl \in 1 .. OtpTtl
      BY <1>1, <1>2, OtpAssumption DEF CodeInv, Remembers, TypeOK
    <3> QED BY <1>1, <1>2, <1>7, <3>1, CountedKey DEF CodeInv, TypeOK
  <2>3. attempts'.value + Cardinality(Counting(c)') <= Guesses
    BY <2>1, <2>2, <1>2, <1>5, Numbers, InFlight DEF WithinRun
  <2>4. /\ compared'[c] <= attempts'.value + Guesses
        /\ compared'[c] # attempts'.value => otp.left <= 1
    BY <2>1, <2>2, <1>1, <1>2, <1>4, Numbers DEF WithinRun
  <2>5. otp.left <= attempts'.left + 1
    BY <1>c, <2>1, <2>2, <1>1 DEF WithinRun, Counting
  <2>6. \A q \in Counting(c)' : otp.left <= 3 * req'[q].ttl + 1
    BY <2>1, <1>3 DEF WithinRun, Counting
  <2> QED BY <2>1, <2>2, <2>3, <2>4, <2>5, <2>6 DEF WithinRun, Guesses
<1> QED BY <1>1, <1>6, <1>7, <1>8, <1>f DEF GuessInv, Guesses

\* The counter of a stored code lapses only when the code has one tick left.
LEMMA TickSpares == ASSUME OtpInv, Tick PROVE GuessInv'
<1>1. /\ otp' = Older(otp) /\ attempts' = Older(attempts)
      /\ UNCHANGED <<req, issued, compared, undisturbed>>
  BY DEF Tick, history
<1>2. GuessInv /\ CodeInv
  BY DEF OtpInv
<1>3. \A c : Counting(c)' = Counting(c)
  BY <1>1 DEF Counting
<1>4. ASSUME NEW c \in undisturbed, otp'.value = c
      PROVE  WithinRun(c)'
  <2>1. /\ otp.left > 1 /\ otp.value = c
        /\ otp'.left = otp.left - 1
    <3>1. otp.left # Forever /\ otp'.value # NoCode
      BY <1>2, <1>4, Numbers, OtpAssumption DEF CodeInv, TypeOK, Forever
    <3> QED BY <1>1, <1>2, <1>4, <3>1, Numbers DEF Older, Absent, NoCode, CodeInv, TypeOK
  <2>2. WithinRun(c)
    BY <2>1, <1>2 DEF GuessInv
  <2>3. compared[c] = attempts.value /\ compared[c] \in Nat
    BY <2>1, <2>2, <1>2, Numbers DEF WithinRun
  <2>4. CASE attempts.left > 1
    <3>1. attempts'.value = attempts.value /\ attempts'.left >= attempts.left - 1
          /\ attempts'.left \in Nat
      <4>1. attempts \in [ value : Nat, left : 0 .. Forever ] /\ (attempts.left = 0 => attempts = Absent)
        BY <1>2 DEF CodeInv, TypeOK
      <4>2. Older(attempts).left \in Nat
        BY <4>1, OlderAttempts, OtpAssumption DEF Forever
      <4> QED BY <2>4, <4>1, <4>2, <1>1, OlderAttempts
    <3>2. \A p \in Counting(c) : otp.left - 1 <= 3 * req[p].ttl + 1
      <4> SUFFICES ASSUME NEW p \in Counting(c) PROVE otp.left - 1 <= 3 * req[p].ttl + 1
        OBVIOUS
      <4>1. otp.left <= 3 * req[p].ttl + 1 /\ req[p].ttl \in Nat
        BY <2>2, <1>2, OtpAssumption DEF WithinRun, CodeInv, TypeOK, Counting
      <4> QED BY <4>1, <1>2, Numbers
    <3>3. /\ otp.left - 1 <= 1 \/ compared[c] = attempts.value
          /\ otp.left - 1 <= attempts.left - 1 + 1
      BY <2>2, <2>3, <1>2, Numbers DEF WithinRun
    <3>4. otp.left - 1 <= attempts'.left + 1
      BY <3>1, <3>3, <1>2, Numbers
    <3> QED BY <3>1, <3>2, <3>3, <3>4, <2>1, <2>2, <1>1, <1>3 DEF WithinRun, Guesses, Counting
  <2>5. CASE attempts.left <= 1
    <3>1. attempts'.value = 0 /\ attempts'.left = 0
      BY <2>5, <1>1, <1>2, Numbers, OtpAssumption DEF Older, Absent, Forever
    <3>2. otp'.left <= 1
      BY <2>1, <2>2, <2>5, <1>2, Numbers DEF WithinRun
    <3>3. Cardinality(Counting(c)) <= Guesses /\ compared[c] <= Guesses
      BY <2>2, <2>3, <1>2, Numbers, InFlight DEF WithinRun
    <3>4. \A p \in Counting(c) : otp'.left <= 3 * req[p].ttl + 1
      <4> SUFFICES ASSUME NEW p \in Counting(c) PROVE otp'.left <= 3 * req[p].ttl + 1
        OBVIOUS
      <4>1. req[p].ttl \in Nat
        BY <1>2, OtpAssumption DEF CodeInv, TypeOK, Counting
      <4> QED BY <4>1, <3>2, <2>1, <1>2, Numbers
    <3>5. /\ 0 + Cardinality(Counting(c)) <= Guesses
          /\ compared[c] <= 0 + Guesses
      BY <3>3, <1>2, <2>3, Numbers, InFlight
    <3> QED BY <3>1, <3>2, <3>4, <3>5, <2>1, <1>1, <1>2, <1>3, Numbers DEF WithinRun, Guesses
  <2> QED BY <2>4, <2>5, <1>2, Numbers
<1> QED BY <1>1, <1>2, <1>3, <1>4 DEF GuessInv, Guesses

-----------------------------------------------------------------------------
(* The theorems.                                                           *)

LEMMA InitEstablishes == Init => OtpInv
<1> SUFFICES ASSUME Init PROVE OtpInv
  OBVIOUS
<1>1. TypeOK
  BY OtpAssumption DEF Init, TypeOK, Absent, Idle, Places, NoCode, Forever
<1>2. CodeInv
  BY <1>1 DEF Init, CodeInv, ConsumedIsGone, Remembers, Absent, Idle
<1>3. GuessInv
  BY <1>2 DEF Init, GuessInv, CodeInv
<1> QED BY <1>2, <1>3 DEF OtpInv

\* The invariant of the one-time codes holds in every behaviour.
THEOREM OtpInvariant == Spec => []OtpInv
<1>1. OtpInv /\ [Next]_vars => OtpInv'
  <2> SUFFICES ASSUME OtpInv, [Next]_vars PROVE OtpInv'
    OBVIOUS
  <2>1. CASE UNCHANGED vars
    BY <2>1 DEF vars, store, history, OtpInv, CodeInv, TypeOK, ConsumedIsGone, Remembers,
                GuessInv, WithinRun, Counting
  <2>2. CASE Next
    <3>1. CodeInv'
      BY <2>2, ForgotPasswordKeeps, EndsKeep, SetOtpKeeps, VerifyOtpKeeps, DropsKeep,
         CountKeeps, ConsumeKeeps, TickKeeps DEF Next, OtpInv
    <3>2. GuessInv'
      BY <2>2, EndsSpare, SetOtpSpares, VerifyOtpSpares, DropsSpare,
         CountSpares, TickSpares DEF Next
    <3> QED BY <3>1, <3>2 DEF OtpInv
  <2> QED BY <2>1, <2>2
<1> QED BY <1>1, InitEstablishes, PTL DEF Spec

\* A code that was consumed is never read again (verifyOtp).
THEOREM ConsumedCodesAreGone == Spec => []ConsumedIsGone
<1>1. OtpInv => ConsumedIsGone
  BY DEF OtpInv, CodeInv
<1> QED BY <1>1, OtpInvariant, PTL

\* No code is guessed at oftener than two runs of the counter let through
\* (verifyOtp, whose limit is read before incrementOtpAttempts counts).
THEOREM GuessesAreBounded == Spec => []GuessesBounded
<1>1. OtpInv => GuessesBounded
  <2> SUFFICES ASSUME OtpInv, NEW c \in undisturbed PROVE compared[c] <= 2 * Guesses
    BY DEF GuessesBounded
  <2>1. compared[c] + Cardinality(Counting(c)) <= 2 * Guesses /\ CodeInv
    BY DEF OtpInv, GuessInv
  <2> QED BY <2>1, Numbers, InFlight
<1> QED BY <1>1, OtpInvariant, PTL

\* What one step may take away from an undisturbed code.
LEMMA StepEndsForCause ==
    ASSUME CodeInv, [Next]_vars, NEW c \in undisturbed,
           otp.value = c, otp.left > 1, otp'.value = NoCode
    PROVE  c \in matched \/ compared[c] >= MaxAttempts
<1>1. PICK p \in Procs : DropBoth(p) \/ Consume(p)
  <2>1. c # NoCode
    BY DEF CodeInv, NoCode
  <2>2. otp' # otp
    BY <2>1
  <2>3. ~Tick
    <3> SUFFICES ASSUME Tick PROVE FALSE
      OBVIOUS
    <3>1. otp' = Older(otp) /\ Older(otp).value = otp.value
      BY OlderKey DEF Tick, CodeInv, TypeOK, NoCode
    <3> QED BY <2>1, <3>1
  <2>4. \A p \in Procs : \A lost : ~SetOtp(p, lost)
    BY <2>1 DEF SetOtp, Stored, CodeInv, TypeOK, NoCode, Codes
  <2> QED BY <2>2, <2>3, <2>4
      DEF Next, vars, store, ForgotPassword, Enqueue, VerifyOtp, DropAttempts, Count, Sign, Fail
<1>2. CASE DropBoth(p)
  BY <1>2 DEF DropBoth, CodeInv, Remembers
<1>3. CASE Consume(p)
  BY <1>3 DEF Consume, CodeInv, Remembers
<1> QED BY <1>1, <1>2, <1>3

\* An undisturbed code that is still valid is removed only after it was matched
\* or guessed at too often (forgotPassword, verifyOtp).
THEOREM CodesEndForCause == Spec => CodeEndsForCause
<1>1. OtpInv /\ [Next]_vars =>
        [ \A c \in undisturbed :
            otp.value = c /\ otp.left > 1 /\ otp'.value = NoCode =>
                c \in matched \/ compared[c] >= MaxAttempts ]_vars
  BY StepEndsForCause DEF OtpInv
<1> QED BY <1>1, OtpInvariant, PTL DEF Spec, CodeEndsForCause

=============================================================================
