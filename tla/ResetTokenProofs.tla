-------------------------- MODULE ResetTokenProofs --------------------------
(***************************************************************************)
(* A reset token that has been honoured is refused for the rest of its     *)
(* life, for any lifetime, any resolution of the clock and any number of   *)
(* requests.                                                               *)
(***************************************************************************)
EXTENDS ResetToken, TLAPS

-----------------------------------------------------------------------------
(* Rounding to seconds.                                                    *)

\* The products of integers that the provers need to be told about.
LEMMA TimesMonotone ==
    ASSUME NEW a \in Nat, NEW b \in Nat, NEW c \in Nat, a <= b
    PROVE  a * c <= b * c
  OBVIOUS

\* What division leaves.
LEMMA DivBounds ==
    ASSUME NEW x \in Nat, NEW d \in Nat \ {0}
    PROVE  /\ x \div d \in Nat
           /\ (x \div d) * d <= x
           /\ x < (x \div d) * d + d
  OBVIOUS

\* The seconds that remain, in ticks, cover what a token has left by less
\* than a second and never exceed a lifetime (exp - floor(now)).
LEMMA RemainingCovers ==
    ASSUME TypeOK, NEW t \in Tokens
    PROVE  /\ RemainingTtl(t) * Resolution \in Ticks
           /\ RemainingTtl(t) * Resolution >= left[t]
           /\ RemainingTtl(t) * Resolution < left[t] + Resolution
           /\ left[t] > 0 => RemainingTtl(t) > 0
<1> DEFINE n == RemainingTtl(t)
           r == Resolution
<1>1. left[t] \in Nat /\ left[t] <= Lifetime * r /\ r \in Nat \ {0} /\ Lifetime \in Nat
  BY ResetTokenAssumption DEF TypeOK, Ticks
<1>2. /\ n \in Nat
      /\ n * r <= left[t] + r - 1
      /\ left[t] + r - 1 < n * r + r
  <2>1. left[t] + r - 1 \in Nat
    BY <1>1
  <2> QED BY <1>1, <2>1, DivBounds DEF RemainingTtl
<1> HIDE DEF n, r
<1>3. n * r \in Nat /\ Lifetime * r \in Nat
  BY <1>1, <1>2
<1>4. n <= Lifetime
  <2> SUFFICES ASSUME n >= Lifetime + 1 PROVE FALSE
    BY <1>1, <1>2
  <2>1. (Lifetime + 1) * r <= n * r
    BY <1>1, <1>2, TimesMonotone
  <2>2. (Lifetime + 1) * r = Lifetime * r + r
    BY <1>1
  <2> QED BY <1>1, <1>2, <1>3, <2>1, <2>2
<1>5. n * r <= Lifetime * r
  BY <1>1, <1>2, <1>4, TimesMonotone
<1>6. n = 0 => n * r = 0
  BY <1>1
<1>7. /\ n * r \in 0 .. Lifetime * r
      /\ n * r >= left[t]
      /\ n * r < left[t] + r
      /\ left[t] > 0 => n > 0
  BY <1>1, <1>2, <1>3, <1>5, <1>6
<1> QED BY <1>7 DEF n, r, Ticks

-----------------------------------------------------------------------------
(* The invariant is inductive.                                             *)

LEMMA LifetimeInTicks == Lifetime * Resolution \in Nat /\ Resolution \in Nat \ {0}
  BY ResetTokenAssumption

\* A new token has at least the ticks it had before, none.
LEMMA SignKeeps ==
    ASSUME ResetTokenInv, NEW t \in Tokens, Sign(t)
    PROVE  ResetTokenInv'
<1> PICK late \in 0 .. Resolution - 1 :
       left' = [left EXCEPT ![t] = Lifetime * Resolution - late]
  BY DEF Sign
<1>1. Resolution <= Lifetime * Resolution
  BY ResetTokenAssumption, TimesMonotone, 1 * Resolution = Resolution
<1>2. Lifetime * Resolution - late \in Ticks
  BY <1>1, LifetimeInTicks DEF Ticks
<1>3. TypeOK'
  BY <1>2 DEF ResetTokenInv, TypeOK, Sign
<1>4. HonouredIsRefused'
  <2> SUFFICES ASSUME NEW x \in Tokens
               PROVE  /\ x \in honoured => blacklist[x] >= left'[x]
                      /\ blacklist[x] > 0 => blacklist[x] < left'[x] + Resolution
    BY DEF HonouredIsRefused, Sign
  <2>1. CASE x = t
    BY <2>1 DEF ResetTokenInv, Sign
  <2>2. CASE x # t
    BY <2>2 DEF ResetTokenInv, HonouredIsRefused, TypeOK
  <2> QED BY <2>1, <2>2
<1> QED BY <1>3, <1>4 DEF ResetTokenInv, Sign

\* The entry in the blacklist is what RemainingCovers says of it.
LEMMA BlacklistKeeps ==
    ASSUME ResetTokenInv, NEW p \in Procs, Blacklist(p)
    PROVE  ResetTokenInv'
<1> DEFINE t == req[p].token
           n == RemainingTtl(t) * Resolution
<1>1. t \in Tokens /\ t \in signed
  BY DEF ResetTokenInv, TypeOK, Blacklist
<1>2. /\ n \in Ticks /\ n >= left[t] /\ n < left[t] + Resolution
      /\ left[t] > 0 => RemainingTtl(t) > 0
  BY <1>1, RemainingCovers DEF ResetTokenInv
<1>3. \A x \in Tokens : left[x] \in Nat /\ blacklist[x] \in Nat
  BY LifetimeInTicks DEF ResetTokenInv, TypeOK, Ticks
<1>4. /\ blacklist' \in [Tokens -> Ticks]
      /\ blacklist'[t] = n \/ (left[t] = 0 /\ blacklist'[t] = blacklist[t])
      /\ \A x \in Tokens \ {t} : blacklist'[x] = blacklist[x]
  <2> HIDE DEF n
  <2>1. blacklist' = IF RemainingTtl(t) > 0 THEN [blacklist EXCEPT ![t] = n] ELSE blacklist
    BY DEF Blacklist, n
  <2>2. blacklist \in [Tokens -> Ticks]
    BY DEF ResetTokenInv, TypeOK
  <2> HIDE DEF t
  <2>3. CASE RemainingTtl(t) > 0
    BY <1>1, <1>2, <2>1, <2>2, <2>3
  <2>4. CASE ~(RemainingTtl(t) > 0)
    BY <1>1, <1>2, <1>3, <2>1, <2>2, <2>4
  <2> QED BY <2>3, <2>4
<1> HIDE DEF n, t
<1>5. /\ UNCHANGED <<signed, left>>
      /\ honoured' = honoured \cup {t}
      /\ req' = [req EXCEPT ![p] = Idle]
  BY DEF Blacklist, t
<1>6. TypeOK'
  BY <1>1, <1>4, <1>5 DEF ResetTokenInv, TypeOK, Idle
<1>7. HonouredIsRefused'
  <2> SUFFICES ASSUME NEW x \in Tokens
               PROVE  /\ x \in honoured' => blacklist'[x] >= left[x]
                      /\ blacklist'[x] > 0 => blacklist'[x] < left[x] + Resolution
    BY <1>5 DEF HonouredIsRefused
  <2>1. CASE x = t /\ blacklist'[t] = n
    BY <1>2, <2>1
  <2>2. CASE x = t /\ left[t] = 0 /\ blacklist'[t] = blacklist[t]
    BY <1>3, <2>2 DEF ResetTokenInv, HonouredIsRefused
  <2>3. CASE x # t
    BY <1>4, <1>5, <2>3 DEF ResetTokenInv, HonouredIsRefused
  <2> QED BY <1>4, <2>1, <2>2, <2>3
<1> QED BY <1>1, <1>4, <1>5, <1>6, <1>7 DEF ResetTokenInv, TypeOK, Idle

\* Both clocks run at the same speed.
LEMMA TickKeeps == ASSUME ResetTokenInv, Tick PROVE ResetTokenInv'
<1>1. \A x \in Tokens :
        /\ left[x] \in Nat /\ blacklist[x] \in Nat
        /\ left'[x] = Older(left[x]) /\ blacklist'[x] = Older(blacklist[x])
  BY LifetimeInTicks DEF ResetTokenInv, TypeOK, Tick, Ticks
<1>2. \A n \in Ticks : Older(n) \in Ticks
  BY LifetimeInTicks DEF Ticks, Older
<1>3. TypeOK'
  BY <1>2 DEF ResetTokenInv, TypeOK, Tick
<1>4. HonouredIsRefused'
  BY <1>1, LifetimeInTicks DEF ResetTokenInv, HonouredIsRefused, Tick, Older
<1> QED BY <1>1, <1>3, <1>4 DEF ResetTokenInv, Tick, Older

\* The other steps leave the clocks alone.
LEMMA RequestKeeps ==
    ASSUME ResetTokenInv, NEW p \in Procs,
           (\E t \in Tokens : Begin(p, t)) \/ Reset(p) \/ Fail(p)
    PROVE  ResetTokenInv'
<1>1. CASE \E t \in Tokens : Begin(p, t)
  <2> PICK t \in Tokens : Begin(p, t)
    BY <1>1
  <2>1. t \in signed
    BY DEF ResetTokenInv, TypeOK, Ticks, Begin
  <2> QED BY <2>1 DEF ResetTokenInv, TypeOK, HonouredIsRefused, Begin
<1>2. CASE Reset(p)
  BY <1>2 DEF ResetTokenInv, TypeOK, HonouredIsRefused, Reset
<1>3. CASE Fail(p)
  BY <1>3 DEF ResetTokenInv, TypeOK, HonouredIsRefused, Fail, Idle
<1> QED BY <1>1, <1>2, <1>3

\* The invariant of the reset tokens holds in every behaviour.
THEOREM ResetTokenInvariant == Spec => []ResetTokenInv
<1>1. Init => ResetTokenInv
  BY LifetimeInTicks, ResetTokenAssumption
  DEF Init, ResetTokenInv, TypeOK, HonouredIsRefused, Ticks, Idle
<1>2. ResetTokenInv /\ [Next]_vars => ResetTokenInv'
  <2> SUFFICES ASSUME ResetTokenInv, [Next]_vars PROVE ResetTokenInv'
    OBVIOUS
  <2>1. CASE UNCHANGED vars
    BY <2>1 DEF vars, ResetTokenInv, TypeOK, HonouredIsRefused
  <2>2. CASE Next
    BY <2>2, SignKeeps, BlacklistKeeps, TickKeeps, RequestKeeps DEF Next
  <2> QED BY <2>1, <2>2
<1> QED BY <1>1, <1>2, PTL DEF Spec

\* A token whose exchange was answered with success is covered by its entry in
\* the blacklist until it expires (resetPassword).
THEOREM HonouredTokensAreRefused == Spec => []HonouredIsRefused
<1>1. ResetTokenInv => HonouredIsRefused
  BY DEF ResetTokenInv
<1> QED BY <1>1, ResetTokenInvariant, PTL

=============================================================================
