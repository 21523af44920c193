--------------------------- MODULE ThrottlerProofs ---------------------------
(***************************************************************************)
(* For every limit, window and block: the counter never outlives the block *)
(* it caused, nobody is let through a second before he was told, and       *)
(* bursts are bounded.                                                     *)
(***************************************************************************)
EXTENDS Throttler, TLAPS

\* What INCR leaves is a counter with an expiry.
LEMMA HitIsCounted ==
    ASSUME ThrottlerInv
    PROVE  /\ Hit \in [ count : Nat, left : Gone .. Ttl ]
           /\ Hit.count # 0 /\ Hit.left # Gone
           /\ Hit.left <= BlockDuration
<1>1. hits \in [ count : Nat, left : Gone .. Ttl ] /\ (hits.count = 0 <=> hits.left = Gone)
  BY DEF ThrottlerInv, TypeOK
<1>2. hits.count \in Nat /\ hits.left \in Gone .. Ttl
  BY <1>1
<1>3. Hit.count = hits.count + 1 /\ Hit.left = IF hits.count = 0 THEN Ttl ELSE hits.left
  BY DEF Hit
<1>4. Ttl \in Nat \ {0} /\ BlockDuration \in Nat /\ BlockDuration >= Ttl
  BY ThrottlerAssumption
<1>5. Hit.count \in Nat /\ Hit.count # 0 /\ Hit.left \in Gone .. Ttl /\ Hit.left # Gone
  BY <1>1, <1>2, <1>3, <1>4 DEF Gone
<1>6. Hit \in [ count : Nat, left : Gone .. Ttl ]
  BY <1>5 DEF Hit
<1> QED BY <1>4, <1>5, <1>6 DEF Gone

\* How far back the window reaches, and where its requests are looked for.
LEMMA CountedType ==
    ASSUME ThrottlerInv
    PROVE  /\ Limit \in Nat \ {0} /\ Ttl \in Nat \ {0} /\ BlockDuration \in Nat
           /\ hits.count \in Nat /\ hits.left \in Gone .. Ttl
           /\ Counted \in 0 .. Limit /\ Limit + Counted \in Last
           /\ hits.count > 0 => Counted \in Last /\ Counted <= Limit
           /\ passed \in [ Last -> 0 .. Ttl ]
<1>1. Limit \in Nat \ {0} /\ Ttl \in Nat \ {0} /\ BlockDuration \in Nat
  BY ThrottlerAssumption
<1>2. hits.count \in Nat /\ hits.left \in Gone .. Ttl /\ passed \in [ Last -> 0 .. Ttl ]
  BY DEF ThrottlerInv, TypeOK
<1>3. Counted \in 0 .. Limit
  BY <1>1, <1>2 DEF Counted
<1>4. Limit + Counted \in Last
  BY <1>1, <1>3 DEF Last
<1>5. hits.count > 0 => Counted \in Last /\ Counted <= Limit
  BY <1>1, <1>2, <1>3 DEF Counted, Last
<1> QED BY <1>1, <1>2, <1>3, <1>4, <1>5

\* A request that is counted, and let through if its answer arrives.
LEMMA AdmittedKeepsBurst ==
    ASSUME ThrottlerInv, NEW answered \in BOOLEAN, hits' = Hit, Hit.count <= Limit,
           LetThrough(answered)
    PROVE  passed' \in [ Last -> 0 .. Ttl ] /\ BurstInv'
<1>1. /\ Limit \in Nat \ {0} /\ Ttl \in Nat \ {0}
      /\ hits.count \in Nat /\ hits.left \in Gone .. Ttl
      /\ Counted \in 0 .. Limit /\ Limit + Counted \in Last
      /\ passed \in [ Last -> 0 .. Ttl ]
  BY CountedType
<1>2. hits'.count = hits.count + 1 /\ hits'.left = IF hits.count = 0 THEN Ttl ELSE hits.left
  BY DEF Hit
<1>3. hits.count < Limit /\ Counted = hits.count /\ Counted' = hits.count + 1
  BY <1>1, <1>2 DEF Counted
<1>4. /\ \A i, j \in Last : i <= j => passed[i] <= passed[j]
      /\ hits.count > 0 => passed[hits.count] >= Ttl - hits.left
      /\ passed[Limit + hits.count] = Ttl
  BY <1>3 DEF ThrottlerInv, BurstInv
<1>5. /\ hits.count + 1 \in Last /\ Limit + (hits.count + 1) \in Last
      /\ hits.count > 0 => hits.count \in Last
      /\ Limit + hits.count \in Last
  <2> DEFINE n == hits.count
  <2>1. n \in Nat /\ n + 1 <= Limit /\ Limit \in Nat
    BY <1>1, <1>3
  <2> HIDE DEF n
  <2>2. n + 1 \in Last /\ (n > 0 => n \in Last)
    BY <2>1 DEF Last
  <2>3. Limit + (n + 1) \in Last
    BY <2>1 DEF Last
  <2>4. Limit + n \in Last
    BY <1>1, <2>1 DEF Last
  <2> QED BY <2>2, <2>3, <2>4 DEF n
<1>6. Last \subseteq Nat /\ \A i \in Last : i # 1 => i - 1 \in Last
  BY <1>1 DEF Last
<1>7. CASE answered
  <2>1. passed' = [ i \in Last |-> IF i = 1 THEN 0 ELSE passed[i - 1] ]
    BY <1>7 DEF LetThrough
  <2>2. passed' \in [ Last -> 0 .. Ttl ]
    BY <1>1, <1>5, <1>6, <2>1
  <2>3. ASSUME NEW i \in Last, NEW j \in Last, i <= j PROVE passed'[i] <= passed'[j]
    <3>1. CASE i = 1
      BY <2>1, <2>2, <3>1
    <3>2. CASE i # 1
      <4>1. i \in Nat /\ j \in Nat /\ j # 1 /\ i - 1 <= j - 1
        BY <1>5, <1>6, <2>3, <3>2 DEF Last
      <4> QED BY <1>4, <1>5, <1>6, <2>1, <3>2, <4>1
    <3> QED BY <3>1, <3>2
  <2>4. passed'[hits.count + 1] >= Ttl - hits'.left
    <3>1. CASE hits.count = 0
      BY <1>1, <1>2, <1>5, <1>6, <2>1, <3>1
    <3>2. CASE hits.count # 0
      BY <1>1, <1>2, <1>4, <1>5, <1>6, <2>1, <3>2
    <3> QED BY <3>1, <3>2
  <2>5. passed'[Limit + (hits.count + 1)] = Ttl
    BY <1>1, <1>4, <1>5, <1>6, <2>1
  <2> QED BY <1>3, <2>2, <2>3, <2>4, <2>5 DEF BurstInv
<1>8. CASE ~answered
  <2>1. passed' = passed
    BY <1>8 DEF LetThrough
  <2>2. passed'[hits.count + 1] >= Ttl - hits'.left
    <3>1. passed[hits.count + 1] \in 0 .. Ttl
      BY <1>1, <1>5
    <3>2. CASE hits.count = 0
      BY <1>1, <1>2, <2>1, <3>1, <3>2
    <3>3. CASE hits.count # 0
      <4>1. hits.count \in Last /\ hits.count <= hits.count + 1 /\ hits.count > 0
        BY <1>1, <1>5, <1>6, <3>3
      <4>2. passed[hits.count] <= passed[hits.count + 1] /\ passed[hits.count] \in 0 .. Ttl
        BY <1>1, <1>4, <1>5, <1>6, <4>1
      <4>3. passed[hits.count] >= Ttl - hits.left /\ hits'.left = hits.left
        BY <1>2, <1>4, <3>3, <4>1
      <4> QED BY <1>1, <2>1, <3>1, <4>2, <4>3 DEF Gone
    <3> QED BY <3>2, <3>3
  <2>3. passed'[Limit + (hits.count + 1)] = Ttl
    <3>1. Limit + hits.count <= Limit + (hits.count + 1)
      BY <1>1
    <3>2. passed[Limit + hits.count] <= passed[Limit + (hits.count + 1)]
      BY <1>4, <1>5, <1>6, <3>1
    <3> QED BY <1>1, <1>4, <1>5, <1>6, <2>1, <3>2
  <2> QED BY <1>1, <1>3, <1>4, <2>1, <2>2, <2>3 DEF BurstInv
<1> QED BY <1>7, <1>8

\* A request over the limit is counted and not let through.
LEMMA BlockedKeepsBurst ==
    ASSUME ThrottlerInv, hits' = Hit, Hit.count > Limit, passed' = passed
    PROVE  BurstInv'
<1>1. /\ Limit \in Nat \ {0} /\ hits.count \in Nat /\ hits.left \in Gone .. Ttl
  BY CountedType
<1>2. hits'.count = hits.count + 1 /\ hits'.left = IF hits.count = 0 THEN Ttl ELSE hits.left
  BY DEF Hit
<1>3. hits.count >= Limit /\ Counted = Limit /\ Counted' = Limit
  BY <1>1, <1>2 DEF Counted
<1>4. hits.count > 0 /\ hits'.left = hits.left
  BY <1>1, <1>2, <1>3
<1> QED BY <1>3, <1>4 DEF ThrottlerInv, BurstInv

\* What a client is told of a wait, in ticks, is less than a second more.
LEMMA ToldInSeconds ==
    ASSUME NEW left \in 0 .. BlockDuration, NEW n \in Nat, told = n,
           NEW answered \in BOOLEAN, Tell(answered, left)
    PROVE  \/ told' = told
           \/ told' \in Nat /\ told' < left + Second /\ told' <= BlockDuration + Second - 1
<1>1. Second \in Nat \ {0} /\ BlockDuration \in Nat /\ left \in Nat /\ left <= BlockDuration
  BY ThrottlerAssumption
<1>2. PICK m : m = HeaderSeconds(left)
  OBVIOUS
<1>3. m \in Nat /\ Second * m <= left + Second - 1
  BY <1>1, <1>2 DEF HeaderSeconds
<1>4. Second * m \in Nat
  BY <1>1, <1>3
<1> QED BY <1>1, <1>2, <1>3, <1>4 DEF Tell

\* A refusal changes only what was told, and tells what is left of the block.
LEMMA RefuseKeepsInv ==
    ASSUME ThrottlerInv, NEW answered \in BOOLEAN, Refuse(answered)
    PROVE  ThrottlerInv'
<1>1. block > 0 /\ block \in Gone .. BlockDuration /\ told \in 0 .. BlockDuration + Second - 1
  BY DEF Refuse, ThrottlerInv, TypeOK
<1>2. Tell(answered, block) /\ UNCHANGED <<hits, block, passed>>
  BY DEF Refuse
<1>3. told' \in 0 .. BlockDuration + Second - 1 /\ (told' > 0 => told' < block + Second)
  BY <1>1, <1>2, ToldInSeconds, ThrottlerAssumption DEF ThrottlerInv, Gone
<1> QED BY <1>2, <1>3 DEF ThrottlerInv, TypeOK, BurstInv, Counted

\* A counter within the limit may die after the block; nobody was told to
\* wait, since there is no block.
LEMMA AdmitKeepsInv ==
    ASSUME ThrottlerInv, NEW answered \in BOOLEAN, Admit(answered)
    PROVE  ThrottlerInv'
<1>1. hits' = Hit /\ Hit.count <= Limit /\ UNCHANGED <<block, told>>
  BY DEF Admit
<1>2. passed' \in [ Last -> 0 .. Ttl ] /\ BurstInv'
  BY <1>1, AdmittedKeepsBurst DEF Admit
<1>3. hits' \in [ count : Nat, left : Gone .. Ttl ] /\ hits'.count # 0 /\ hits'.left # Gone
  BY <1>1, HitIsCounted
<1>4. ~(hits'.count > Limit)
  BY <1>1, <1>3, ThrottlerAssumption
<1>5. TypeOK'
  BY <1>1, <1>2, <1>3 DEF ThrottlerInv, TypeOK
<1> QED BY <1>1, <1>2, <1>3, <1>4, <1>5 DEF ThrottlerInv

\* A block that starts is at least as long as any counter.
LEMMA BlockKeepsInv ==
    ASSUME ThrottlerInv, NEW answered \in BOOLEAN, Block(answered)
    PROVE  ThrottlerInv'
<1>1. hits' = Hit /\ block' = BlockDuration /\ passed' = passed /\ Tell(answered, BlockDuration)
  BY DEF Block
<1>2. /\ hits' \in [ count : Nat, left : Gone .. Ttl ]
      /\ hits'.count # 0 /\ hits'.left # Gone
      /\ hits'.left <= BlockDuration
  BY <1>1, HitIsCounted
<1>3. /\ BlockDuration \in Nat /\ Second \in Nat \ {0} /\ told \in 0 .. BlockDuration + Second - 1
      /\ block \in Gone .. BlockDuration /\ (told > 0 => told < block + Second)
  BY ThrottlerAssumption DEF ThrottlerInv, TypeOK
<1>4. told' \in 0 .. BlockDuration + Second - 1 /\ block' \in Gone .. BlockDuration /\ told' < block' + Second
  BY <1>1, <1>3, ToldInSeconds DEF Gone
<1>5. hits'.left \in Int
  BY <1>2 DEF Gone
<1>6. block' >= hits'.left
  BY <1>1, <1>2, <1>3, <1>5
<1>7. TypeOK'
  BY <1>1, <1>2, <1>4 DEF ThrottlerInv, TypeOK
<1>8. BurstInv'
  BY <1>1, BlockedKeepsBurst DEF Block
<1> QED BY <1>2, <1>4, <1>6, <1>7, <1>8 DEF ThrottlerInv

\* Ages grow with the clock; when the window ends, all that was let through
\* in it is as old as a window.
LEMMA TickKeepsBurst ==
    ASSUME ThrottlerInv, Tick
    PROVE  passed' \in [ Last -> 0 .. Ttl ] /\ BurstInv'
<1>1. /\ Limit \in Nat \ {0} /\ Ttl \in Nat \ {0}
      /\ hits.count \in Nat /\ hits.left \in Gone .. Ttl
      /\ Counted \in 0 .. Limit /\ Limit + Counted \in Last
      /\ hits.count > 0 => Counted \in Last /\ Counted <= Limit
      /\ passed \in [ Last -> 0 .. Ttl ]
  BY CountedType
<1>2. passed' = [ i \in Last |-> IF passed[i] < Ttl THEN passed[i] + 1 ELSE Ttl ]
  BY DEF Tick
<1>3. ASSUME NEW i \in Last
      PROVE  passed[i] \in 0 .. Ttl /\ passed'[i] \in 0 .. Ttl /\ passed'[i] = IF passed[i] < Ttl THEN passed[i] + 1 ELSE Ttl
  BY <1>1, <1>2
<1>4. passed' \in [ Last -> 0 .. Ttl ]
  BY <1>2, <1>3
<1>5. /\ \A i, j \in Last : i <= j => passed[i] <= passed[j]
      /\ hits.count > 0 => passed[Counted] >= Ttl - hits.left
      /\ passed[Limit + Counted] = Ttl
  BY DEF ThrottlerInv, BurstInv
<1>6. ASSUME NEW i \in Last, NEW j \in Last, i <= j PROVE passed'[i] <= passed'[j]
  BY <1>1, <1>3, <1>5, <1>6
<1>7. CASE hits.left <= 0
  <2>1. hits'.count = 0 /\ Counted' = 0
    BY <1>1, <1>7 DEF Tick, NoHits, Counted
  <2>2. Limit \in Last /\ passed[Limit] \in 0 .. Ttl
    BY <1>1 DEF Last
  <2>3. passed[Limit] = Ttl
    <3>1. CASE hits.count = 0
      BY <1>1, <1>5, <3>1 DEF Counted
    <3>2. CASE hits.count # 0
      <4>1. passed[Counted] >= Ttl - hits.left /\ passed[Counted] <= passed[Limit] /\ passed[Counted] \in 0 .. Ttl
        BY <1>1, <1>3, <1>5, <2>2, <3>2
      <4>2. hits.left = 0 \/ hits.left = -1
        BY <1>1, <1>7 DEF Gone
      <4> QED BY <1>1, <2>2, <4>1, <4>2
    <3> QED BY <3>1, <3>2
  <2>4. passed'[Limit] = Ttl
    BY <1>1, <1>3, <2>2, <2>3
  <2>5. Limit + Counted' = Limit
    BY <1>1, <2>1
  <2>6. \A i, j \in Last : i <= j => passed'[i] <= passed'[j]
    BY <1>6
  <2>7. passed'[Limit + Counted'] = Ttl /\ ~(hits'.count > 0)
    BY <2>1, <2>4, <2>5
  <2> QED BY <1>4, <2>6, <2>7 DEF BurstInv
<1>8. CASE hits.left > 0
  <2>1. hits'.count = hits.count /\ hits'.left = hits.left - 1 /\ Counted' = Counted
    <3>1. hits' = [hits EXCEPT !.left = hits.left - 1]
      BY <1>1, <1>8 DEF Tick, Gone
    <3>2. hits \in [ count : Nat, left : Gone .. Ttl ]
      BY DEF ThrottlerInv, TypeOK
    <3>3. hits'.count = hits.count /\ hits'.left = hits.left - 1
      BY <3>1, <3>2
    <3> QED BY <3>3 DEF Counted
  <2>2. hits.count > 0 => passed'[Counted] >= Ttl - (hits.left - 1)
    <3> SUFFICES ASSUME hits.count > 0 PROVE passed'[Counted] >= Ttl - (hits.left - 1)
      OBVIOUS
    <3>1. Counted \in Last /\ passed[Counted] >= Ttl - hits.left
      BY <1>1, <1>5
    <3>2. /\ passed[Counted] \in 0 .. Ttl
          /\ passed'[Counted] = IF passed[Counted] < Ttl THEN passed[Counted] + 1 ELSE Ttl
      BY <1>3, <3>1
    <3> QED BY <1>1, <1>8, <3>1, <3>2 DEF Gone
  <2>3. passed'[Limit + Counted] = Ttl
    BY <1>1, <1>3, <1>5
  <2>4. \A i, j \in Last : i <= j => passed'[i] <= passed'[j]
    BY <1>6
  <2> QED BY <1>4, <2>1, <2>2, <2>3, <2>4 DEF BurstInv
<1> QED BY <1>1, <1>4, <1>7, <1>8 DEF Gone

\* All times run down together.
LEMMA TickKeepsInv ==
    ASSUME ThrottlerInv, Tick
    PROVE  ThrottlerInv'
<1>1. /\ hits \in [ count : Nat, left : Gone .. Ttl ]
      /\ hits.count \in Nat /\ hits.left \in Gone .. Ttl
      /\ block \in Gone .. BlockDuration /\ told \in 0 .. BlockDuration + Second - 1
      /\ passed \in [ Last -> 0 .. Ttl ]
  BY DEF ThrottlerInv, TypeOK
<1>2. Limit \in Nat /\ Ttl \in Nat \ {0} /\ BlockDuration \in Nat /\ Second \in Nat \ {0}
  BY ThrottlerAssumption
<1>3. passed' \in [ Last -> 0 .. Ttl ] /\ BurstInv'
  BY TickKeepsBurst
<1>4. /\ block' \in Gone .. BlockDuration /\ told' \in 0 .. BlockDuration + Second - 1
      /\ told' > 0 => told' < block' + Second
  BY <1>1, <1>2 DEF Tick, Sooner, ThrottlerInv, Gone
<1>5. CASE hits.left <= 0
  <2>1. hits' = NoHits
    BY <1>5 DEF Tick
  <2>2. hits' \in [ count : Nat, left : Gone .. Ttl ] /\ hits'.count = 0 /\ hits'.left = Gone
    BY <2>1, <1>2 DEF NoHits, Gone
  <2>3. ~(hits'.count > Limit)
    BY <2>2, <1>2
  <2>4. TypeOK'
    BY <1>3, <1>4, <2>2 DEF TypeOK
  <2> QED BY <1>3, <1>4, <2>2, <2>3, <2>4 DEF ThrottlerInv
<1>6. CASE hits.left > 0
  <2>1. hits' = [hits EXCEPT !.left = hits.left - 1]
    BY <1>1, <1>6 DEF Tick, Gone
  <2>2. hits'.count = hits.count /\ hits'.left = hits.left - 1
    BY <1>1, <2>1
  <2>3. hits.left - 1 \in Gone .. Ttl /\ hits.left - 1 # Gone /\ hits.count # 0
    BY <1>1, <1>2, <1>6 DEF Gone, ThrottlerInv
  <2>4. hits' \in [ count : Nat, left : Gone .. Ttl ]
    BY <1>1, <2>1, <2>3
  <2>5. hits'.count > Limit => block' >= hits'.left
    BY <1>1, <1>2, <1>6, <2>2 DEF ThrottlerInv, Tick, Sooner, Gone
  <2>6. TypeOK'
    BY <1>3, <1>4, <2>4 DEF TypeOK
  <2> QED BY <1>3, <1>4, <2>2, <2>3, <2>5, <2>6 DEF ThrottlerInv
<1> QED BY <1>1, <1>5, <1>6 DEF Gone

LEMMA InitHasInv == Init => ThrottlerInv
<1> SUFFICES ASSUME Init PROVE ThrottlerInv
  OBVIOUS
<1>1. Limit \in Nat /\ Ttl \in Nat \ {0} /\ BlockDuration \in Nat /\ Second \in Nat \ {0}
  BY ThrottlerAssumption
<1>2. hits \in [ count : Nat, left : Gone .. Ttl ] /\ hits.count = 0 /\ hits.left = Gone
  BY <1>1 DEF Init, NoHits, Gone
<1>3. TypeOK
  BY <1>1, <1>2 DEF Init, TypeOK, Gone
<1>4. BurstInv
  <2>1. Counted = 0 /\ Limit + Counted \in Last /\ \A i \in Last : passed[i] = Ttl
    BY <1>1, <1>2, ThrottlerAssumption DEF Init, Counted, Last
  <2> QED BY <1>1, <1>2, <2>1 DEF BurstInv
<1> QED BY <1>1, <1>2, <1>3, <1>4 DEF Init, ThrottlerInv

LEMMA NextKeepsInv == ThrottlerInv /\ [Next]_vars => ThrottlerInv'
<1> SUFFICES ASSUME ThrottlerInv, [Next]_vars PROVE ThrottlerInv'
  OBVIOUS
<1>1. ASSUME NEW answered \in BOOLEAN, Refuse(answered) PROVE ThrottlerInv'
  BY <1>1, RefuseKeepsInv
<1>2. ASSUME NEW answered \in BOOLEAN, Admit(answered) PROVE ThrottlerInv'
  BY <1>2, AdmitKeepsInv
<1>3. ASSUME NEW answered \in BOOLEAN, Block(answered) PROVE ThrottlerInv'
  BY <1>3, BlockKeepsInv
<1>4. CASE Tick
  BY <1>4, TickKeepsInv
<1>5. CASE UNCHANGED vars
  BY <1>5 DEF vars, ThrottlerInv, TypeOK, BurstInv, Counted
<1> QED BY <1>1, <1>2, <1>3, <1>4, <1>5 DEF Next, Increment

\* The inductive invariant of redis-throttler-storage.ts' script, for every
\* limit and every length of window and block.
THEOREM ThrottlerInvariant == Spec => []ThrottlerInv
<1>1. Init => ThrottlerInv
  BY InitHasInv
<1>2. ThrottlerInv /\ [Next]_vars => ThrottlerInv'
  BY NextKeepsInv
<1> QED BY <1>1, <1>2, PTL DEF Spec

\* A block that is over leaves no counter over the limit behind: the next
\* request is let through.
THEOREM BlocksEnd == Spec => []AfreshAfterBlock
<1>1. ThrottlerInv => AfreshAfterBlock
  <2> SUFFICES ASSUME ThrottlerInv, block = Gone, hits.count > Limit PROVE FALSE
    BY ThrottlerAssumption DEF AfreshAfterBlock, ThrottlerInv, TypeOK
  <2>1. hits.count \in Nat /\ hits.left \in Gone .. Ttl /\ Limit \in Nat
    BY ThrottlerAssumption DEF ThrottlerInv, TypeOK
  <2>2. hits.left = Gone /\ hits.count = 0
    BY <2>1 DEF ThrottlerInv, Gone
  <2> QED BY <2>1, <2>2
<1> QED BY <1>1, ThrottlerInvariant, PTL

\* Whoever is let through, nobody was told to wait a second longer.
THEOREM WaitsAreHonoured == Spec => WaitIsHonoured
<1>1. ThrottlerInv /\ [Next]_vars => [passed' # passed /\ passed'[1] = 0 => told < Second]_vars
  <2> SUFFICES ASSUME ThrottlerInv, Next, passed' # passed, passed'[1] = 0 PROVE told < Second
    BY DEF vars
  <2>1. 1 \in Last /\ passed[1] \in 0 .. Ttl /\ told \in 0 .. BlockDuration + Second - 1 /\ block \in Gone .. BlockDuration
    BY ThrottlerAssumption DEF ThrottlerInv, TypeOK, Last
  <2>2. ASSUME NEW answered \in BOOLEAN, Refuse(answered) \/ Block(answered) PROVE FALSE
    BY <2>1, <2>2 DEF Refuse, Block
  <2>3. ASSUME NEW answered \in BOOLEAN, Admit(answered) PROVE told < Second
    BY <2>1, <2>3, ThrottlerAssumption DEF Admit, ThrottlerInv, Gone
  <2>4. CASE Tick
    BY <2>1, <2>4, ThrottlerAssumption DEF Tick
  <2> QED BY <2>2, <2>3, <2>4 DEF Next, Increment
<1> QED BY <1>1, ThrottlerInvariant, PTL DEF Spec, WaitIsHonoured

\* Fewer than twice as many requests as the limit in any stretch as long as
\* the window, wherever it begins.
THEOREM BurstsAreBounded == Spec => []BurstBound
<1>1. ThrottlerInv => BurstBound
  <2> SUFFICES ASSUME ThrottlerInv PROVE passed[2 * Limit] = Ttl
    BY DEF BurstBound
  <2>1. /\ Limit \in Nat \ {0} /\ Ttl \in Nat \ {0} /\ Counted \in 0 .. Limit /\ Limit + Counted \in Last
        /\ passed \in [ Last -> 0 .. Ttl ]
    BY CountedType
  <2>2. 2 * Limit \in Last /\ Limit + Counted <= 2 * Limit
    BY <2>1 DEF Last
  <2>3. passed[Limit + Counted] = Ttl /\ passed[Limit + Counted] <= passed[2 * Limit]
    BY <2>1, <2>2 DEF ThrottlerInv, BurstInv
  <2>4. passed[2 * Limit] \in 0 .. Ttl
    BY <2>1, <2>2
  <2> QED BY <2>1, <2>3, <2>4
<1> QED BY <1>1, ThrottlerInvariant, PTL

=============================================================================
