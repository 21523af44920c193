------------------------------ MODULE Throttler ------------------------------
(***************************************************************************)
(* The rate limiter's storage: for one key (a route, a client and a named  *)
(* limit) Redis counts the hits of a window and remembers a block.         *)
(*                                                                         *)
(* A request runs one Lua script, which Redis runs without a break, so an  *)
(* increment is one step however many requests there are.  A key is still  *)
(* there in the millisecond in which its time runs out: Redis drops it     *)
(* when the clock is past its expiry, not when it has reached it.          *)
(***************************************************************************)
EXTENDS Integers

CONSTANTS
    Limit,         \* requests let through in a window
    Ttl,           \* length of the window, in ticks of the clock
    BlockDuration, \* length of a block
    Second         \* ticks in a second

\* increment raises both times to at least 1.  Where no block duration is
\* configured, and none is, it is the length of the window.
ASSUME ThrottlerAssumption ==
    /\ Limit \in Nat \ {0}
    /\ Ttl \in Nat \ {0}
    /\ BlockDuration \in Nat /\ BlockDuration >= Ttl
    /\ Second \in Nat \ {0}

VARIABLES
    hits,   \* the counter: its value (0: no key) and PTTL
    block,  \* PTTL of the block key
    \* History, read by no step.
    told,   \* the longest wait some client was told and has not yet waited
    passed  \* the ages of the last requests let through, the latest first (Ttl: a
            \*   window old or older, or never)

vars == <<hits, block, told, passed>>

Gone   == -1  \* PTTL of a key that is not there
NoHits == [ count |-> 0, left |-> Gone ]
Last   == 1 .. 2 * Limit

TypeOK ==
    /\ hits \in [ count : Nat, left : Gone .. Ttl ]
    /\ block \in Gone .. BlockDuration
    /\ told \in 0 .. BlockDuration + Second - 1
    /\ passed \in [ Last -> 0 .. Ttl ]

Init ==
    /\ hits = NoHits
    /\ block = Gone
    /\ told = 0
    /\ passed = [ i \in Last |-> Ttl ]

-----------------------------------------------------------------------------
\* toHeaderSeconds: a second that has begun is told in full.
HeaderSeconds(left) == (left + Second - 1) \div Second

\* A request whose answer is lost fails closed: it is not let through, and
\* its client is told nothing.
Tell(answered, left) ==
    told' = IF answered /\ Second * HeaderSeconds(left) > told
              THEN Second * HeaderSeconds(left) ELSE told

LetThrough(answered) ==
    passed' = IF answered THEN [ i \in Last |-> IF i = 1 THEN 0 ELSE passed[i - 1] ]
              ELSE passed

\* Slip: a request is counted before the block is looked at.
Refuse_Counts(answered) ==
    /\ block > 0
    /\ hits' = [ count |-> hits.count + 1,
                 left  |-> IF hits.count = 0 THEN Ttl ELSE hits.left ]
    /\ Tell(answered, block)
    /\ UNCHANGED <<block, passed>>

\* Blocked: nothing is counted, and the answer is what is left of the block.
\* (The script also handles a block key without an expiry; PSETEX never
\* leaves one.)
Refuse(answered) ==
    /\ block > 0
    /\ Tell(answered, block)
    /\ UNCHANGED <<hits, block, passed>>

\* Slip: INCR without PEXPIRE.
Hit_NoExpiry == [ count |-> hits.count + 1, left |-> hits.left ]

\* INCR, with a window of its own for the first hit.
Hit == [ count |-> hits.count + 1,
         left  |-> IF hits.count = 0 THEN Ttl ELSE hits.left ]

\* Slip: the comparison lets one request more than the limit through.
Admit_OneMore(answered) ==
    /\ block <= 0
    /\ hits' = Hit
    /\ Hit.count <= Limit + 1
    /\ LetThrough(answered)
    /\ UNCHANGED <<block, told>>

\* Within the limit.
Admit(answered) ==
    /\ block <= 0
    /\ hits' = Hit
    /\ Hit.count <= Limit
    /\ LetThrough(answered)
    /\ UNCHANGED <<block, told>>

\* Slip: the block is announced and not stored.
Block_NotStored(answered) ==
    /\ block <= 0
    /\ hits' = Hit
    /\ Hit.count > Limit
    /\ Tell(answered, BlockDuration)
    /\ UNCHANGED <<block, passed>>

\* Over the limit: PSETEX starts a block, or starts it again.
Block(answered) ==
    /\ block <= 0
    /\ hits' = Hit
    /\ Hit.count > Limit
    /\ block' = BlockDuration
    /\ Tell(answered, BlockDuration)
    /\ UNCHANGED passed

Increment == \E answered \in BOOLEAN : Refuse(answered) \/ Admit(answered) \/ Block(answered)

Sooner(left) == IF left = Gone THEN Gone ELSE left - 1

Tick ==
    /\ hits' = IF hits.left <= 0 THEN NoHits ELSE [hits EXCEPT !.left = @ - 1]
    /\ block' = Sooner(block)
    /\ told' = IF told = 0 THEN 0 ELSE told - 1
    /\ passed' = [ i \in Last |-> IF passed[i] < Ttl THEN passed[i] + 1 ELSE Ttl ]

Next == Increment \/ Tick

Spec == Init /\ [][Next]_vars

-----------------------------------------------------------------------------
(* Properties.                                                             *)

\* Any stretch of time as long as the window, wherever it begins, sees fewer
\* than twice as many requests let through as the limit: at worst the last
\* ones of a window whose first came early, and then a full window (INCR and
\* the expiry of the first hit, in one script).
BurstBound == passed[2 * Limit] = Ttl

\* Nobody is let through while anybody has a second left of what he was told
\* to wait, whatever becomes of the counter in the meantime (the block is
\* looked at first).  The last second may be cut short, because waits are told
\* in whole seconds, rounded up.
WaitIsHonoured ==
    [][ passed' # passed /\ passed'[1] = 0 => told < Second ]_vars

\* A block ends: once it is over the counter that caused it is over too, so
\* that a client that has waited is let through and not blocked once more.
AfreshAfterBlock == block = Gone => hits.count <= Limit

\* What BurstBound rests on: the hits of the running window, of which no more
\* than the limit were let through, reach back to its beginning, and what was
\* let through before it leaves room for them.
Counted == IF hits.count < Limit THEN hits.count ELSE Limit
BurstInv ==
    /\ \A i, j \in Last : i <= j => passed[i] <= passed[j]
    /\ hits.count > 0 => passed[Counted] >= Ttl - hits.left
    /\ passed[Limit + Counted] = Ttl

\* The inductive invariant: a counter has an expiry from its first hit, one
\* over the limit dies before the block does, and the block outlives what was
\* told of it, but for the rounding.
ThrottlerInv ==
    /\ TypeOK
    /\ hits.count = 0 <=> hits.left = Gone
    /\ hits.count > Limit => block >= hits.left
    /\ told > 0 => told < block + Second
    /\ BurstInv

=============================================================================
