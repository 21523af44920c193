-------------------------- MODULE EmailQueueProofs ---------------------------
(***************************************************************************)
(* A job is repeated only after a fault, is done only when its mail or its *)
(* row is out, and is not mailed again once it is marked, for any number   *)
(* of jobs, slots, attempts and faults.                                    *)
(*                                                                         *)
(* And what the requests make of the queue: every write that succeeded is  *)
(* accounted for, nothing else is, and accounts are changed only by whom   *)
(* the routes allow, for any number of users, requests and routes' roles.  *)
(***************************************************************************)
EXTENDS Requests, TLAPS

-----------------------------------------------------------------------------
(* What the properties rest on.                                            *)

\* The attempts and stalls of a job that may yet be worked are not used up,
\* and only a job that is worked has its lock held.
JobFits(j) ==
    /\ job[j].state \in Pending \cup {"absent"} => job[j].failed < Attempts /\ job[j].stalls <= MaxStalls
    /\ job[j].by # NoWorker => job[j].state = "active"

\* The mail is out, the row is written, or the user the row names is gone.
Delivered(j) ==
    \/ mails[j] > 0 \/ logged[j] > 0
    \/ job[j].user # NoUser /\ ~account[job[j].user].live

\* What a slot has done for its job.
SlotFits(w) ==
    LET j == worker[w].job IN
    \/ worker[w].at = "idle" /\ j = NoJob
    \/ /\ worker[w].at # "idle" /\ j \in Jobs /\ job[j].state # "absent"
       /\ worker[w].at = "mark" => mails[j] > 0
       /\ worker[w].at = "finish" => Delivered(j)
       /\ worker[w].at = "send" /\ j \in marked => j \in shared

\* A job no fault has met is worked by the slot that holds its lock, and what
\* is to be done once is not done before that slot does it.
Unfaulted(j) ==
    /\ \A w \in Workers : worker[w].job = j => job[j].by = w
    /\ job[j].state = "active" => \E w \in Workers : worker[w].job = j
    /\ mails[j] + logged[j] <= 1
    /\ job[j].state \in { "absent", "waiting", "delayed" } => mails[j] + logged[j] = 0
    /\ \A w \in Workers :
         worker[w].job = j /\ worker[w].at \in { "check", "send", "create", "throw" }
           => mails[j] + logged[j] = 0

\* The inductive invariant.
QueueInv ==
    /\ QueueTypeOK
    /\ \A j \in Jobs : JobFits(j)
    /\ \A w \in Workers : SlotFits(w)
    /\ \A j \in Jobs \ faulty : Unfaulted(j)
    /\ \A w, v \in Workers :
         worker[w].job = worker[v].job /\ worker[w].job \in Jobs /\ w # v
           => worker[w].job \in shared
    /\ \A j \in marked : mails[j] > 0
    /\ \A j \in Jobs : job[j].state = "done" => Delivered(j)

-----------------------------------------------------------------------------
(* The steps of a slot.                                                    *)

Places == { "idle", "check", "send", "mark", "create", "finish", "throw" }
Slot   == [ at : Places, job : Jobs \cup {NoJob} ]

LEMMA SlotType ==
    ASSUME QueueInv, NEW w \in Workers
    PROVE  /\ worker[w] \in Slot
           /\ worker[w].at # "idle" => worker[w].job \in Jobs /\ job[worker[w].job].state # "absent"
           /\ worker[w].at = "idle" <=> worker[w].job = NoJob
           /\ worker[w].at = "idle" => worker[w] = Rest
<1>1. worker[w] \in Slot
  BY DEF QueueInv, QueueTypeOK, Slot, Places
<1>2. SlotFits(w)
  BY DEF QueueInv
<1>3. worker[w].at = "idle" /\ worker[w].job = NoJob => worker[w] = Rest
  BY <1>1 DEF Slot, Rest
<1> QED BY <1>1, <1>2, <1>3, QueueAssumption DEF SlotFits

LEMMA GotoMoves ==
    ASSUME QueueInv, NEW w \in Workers, NEW to \in Places, WorkerGoto(w, to)
    PROVE  /\ worker' \in [ Workers -> Slot ]
           /\ worker'[w].at = to /\ worker'[w].job = worker[w].job
           /\ \A v \in Workers \ {w} : worker'[v] = worker[v]
           /\ \A v \in Workers : worker'[v].job = worker[v].job
<1>1. worker \in [ Workers -> Slot ]
  BY DEF QueueInv, QueueTypeOK, Slot, Places
<1> DEFINE next == [worker[w] EXCEPT !.at = to]
<1>2. next \in Slot /\ next.at = to /\ next.job = worker[w].job
  BY <1>1 DEF Slot
<1>3. worker' = [worker EXCEPT ![w] = next]
  BY DEF WorkerGoto
<1> HIDE DEF next
<1> QED BY <1>1, <1>2, <1>3

\* A slot that goes on with its job.
LEMMA GotoKeeps ==
    ASSUME QueueInv, QueueTypeOK', NEW w \in Workers, NEW to \in Places \ {"idle"},
           worker[w].at # "idle", WorkerGoto(w, to),
           UNCHANGED <<account, job, shared>>, faulty \subseteq faulty',
           NEW j, j = worker[w].job,
           \A i \in Jobs : mails'[i] >= mails[i] /\ logged'[i] >= logged[i],
           \A i \in Jobs \ {j} : mails'[i] = mails[i] /\ logged'[i] = logged[i],
           marked' \subseteq marked \cup {j}, j \in marked' => mails'[j] > 0,
           to = "mark" => mails'[j] > 0,
           to = "finish" => Delivered(j)',
           to = "send" => j \notin marked',
           j \notin faulty' =>
               /\ mails'[j] + logged'[j] <= 1
               /\ to \in { "check", "send", "create", "throw" } => mails'[j] + logged'[j] = 0
    PROVE  QueueInv'
<1>1. /\ worker' \in [ Workers -> Slot ]
      /\ worker'[w].at = to /\ worker'[w].job = worker[w].job
      /\ \A v \in Workers \ {w} : worker'[v] = worker[v]
      /\ \A v \in Workers : worker'[v].job = worker[v].job
  BY GotoMoves
<1>2. j \in Jobs /\ job[j].state # "absent"
  BY SlotType
<1>3. \A i \in Jobs : mails[i] \in Nat /\ logged[i] \in Nat /\ mails'[i] \in Nat /\ logged'[i] \in Nat
  BY DEF QueueInv, QueueTypeOK
<1>4. ASSUME NEW i \in Jobs PROVE JobFits(i)'
  BY DEF QueueInv, JobFits
<1>5. ASSUME NEW i \in Jobs, Delivered(i) PROVE Delivered(i)'
  BY <1>3, <1>5 DEF Delivered
<1>6. ASSUME NEW i \in marked' PROVE mails'[i] > 0
  <2>1. i \in Jobs
    BY <1>2 DEF QueueInv, QueueTypeOK
  <2> QED BY <1>3, <2>1 DEF QueueInv
<1>7. ASSUME NEW v \in Workers, NEW u \in Workers,
             worker'[v].job = worker'[u].job, worker'[v].job \in Jobs, v # u
      PROVE  worker'[v].job \in shared'
  BY <1>1, <1>7 DEF QueueInv
<1>8. ASSUME NEW v \in Workers PROVE SlotFits(v)'
  <2>1. CASE v = w
    BY <1>1, <1>2, <2>1 DEF SlotFits, Delivered
  <2>2. CASE v # w
    <3>1. worker'[v] = worker[v] /\ SlotFits(v)
      BY <1>1, <2>2 DEF QueueInv
    <3>2. CASE worker[v].at = "idle"
      BY <3>1, <3>2 DEF SlotFits
    <3>3. CASE worker[v].at # "idle"
      <4>1. PICK i \in Jobs : i = worker[v].job
        BY <3>3, SlotType
      <4>2. worker[v].at = "mark" => mails'[i] > 0
        BY <1>3, <3>1, <3>3, <4>1 DEF SlotFits
      <4>3. worker[v].at = "finish" => Delivered(i)'
        BY <1>5, <3>1, <3>3, <4>1 DEF SlotFits
      <4>4. worker[v].at = "send" /\ i \in marked' => i \in shared'
        <5>1. CASE i = j
          BY <2>2, <4>1, <5>1 DEF QueueInv
        <5>2. CASE i # j
          BY <3>1, <3>3, <4>1, <5>2 DEF SlotFits
        <5> QED BY <5>1, <5>2
      <4>5. worker'[v].at # "idle" /\ worker'[v].job = i /\ job'[i].state # "absent"
        BY <3>1, <3>3, <4>1, SlotType
      <4> QED BY <3>1, <4>1, <4>2, <4>3, <4>4, <4>5 DEF SlotFits, Delivered
    <3> QED BY <3>2, <3>3
  <2> QED BY <2>1, <2>2
<1>9. ASSUME NEW i \in Jobs \ faulty' PROVE Unfaulted(i)'
  <2>1. Unfaulted(i)
    BY DEF QueueInv
  <2>2. CASE i = j
    <3>1. job[j].by = w /\ job[j].state = "active" /\ \A v \in Workers : worker[v].job = j => v = w
      <4>1. job[j].by = w /\ \A v \in Workers : worker[v].job = j => v = w
        BY <2>1, <2>2 DEF Unfaulted
      <4> QED BY <1>2, <4>1, QueueAssumption DEF QueueInv, JobFits
    <3>2. mails'[j] + logged'[j] <= 1
      BY <2>2
    <3>3. to \in { "check", "send", "create", "throw" } => mails'[j] + logged'[j] = 0
      BY <2>2
    <3> QED BY <1>1, <2>2, <3>1, <3>2, <3>3 DEF Unfaulted
  <2>3. CASE i # j
    BY <1>1, <2>1, <2>3 DEF Unfaulted
  <2> QED BY <2>2, <2>3
<1>10. ASSUME NEW i \in Jobs, job'[i].state = "done" PROVE Delivered(i)'
  BY <1>5, <1>10 DEF QueueInv
<1> QED BY <1>4, <1>6, <1>7, <1>8, <1>9, <1>10 DEF QueueInv

LEMMA CheckKeeps ==
    ASSUME QueueInv, NEW w \in Workers, CheckSent(w) PROVE QueueInv'
<1> DEFINE to == IF worker[w].job \in marked THEN "finish" ELSE "send"
<1>1. PICK j \in Jobs : j = worker[w].job
  BY SlotType DEF CheckSent
<1>2. /\ worker[w].at = "check" /\ WorkerGoto(w, to) /\ to \in Places \ {"idle"}
      /\ UNCHANGED <<account, job, marked, mails, logged, faults, faulty, shared>>
  BY DEF CheckSent, Places
<1>3. /\ to = "send" => j \notin marked
      /\ to = "finish" => j \in marked
      /\ to \in { "finish", "send" }
  BY <1>1
<1> HIDE DEF to
<1>4. j \in marked => mails[j] > 0
  BY DEF QueueInv
<1>5. j \notin faulty => mails[j] + logged[j] = 0
  BY <1>1, <1>2 DEF QueueInv, Unfaulted
<1>6. mails[j] \in Nat /\ logged[j] \in Nat
  BY DEF QueueInv, QueueTypeOK
<1>7. QueueTypeOK'
  BY <1>2, GotoMoves DEF QueueInv, QueueTypeOK, Slot, Places
<1>8. \A i \in Jobs : mails'[i] >= mails[i] /\ logged'[i] >= logged[i]
  BY <1>2 DEF QueueInv, QueueTypeOK
<1>9. to = "finish" => Delivered(j)'
  BY <1>2, <1>3, <1>4 DEF Delivered
<1> QED BY <1>1, <1>2, <1>3, <1>4, <1>5, <1>6, <1>7, <1>8, <1>9, GotoKeeps

LEMMA SendKeeps ==
    ASSUME QueueInv, NEW w \in Workers, Send(w) PROVE QueueInv'
<1>1. PICK j \in Jobs : j = worker[w].job
  BY SlotType DEF Send
<1>2. /\ worker[w].at = "send" /\ mails' = [mails EXCEPT ![j] = @ + 1]
      /\ UNCHANGED <<account, job, marked, logged, shared>>
  BY <1>1 DEF Send
<1>3. PICK to \in { "mark", "throw" } :
        /\ WorkerGoto(w, to)
        /\ to = "mark" => NoFault
        /\ to = "throw" => Fault(j)
  BY <1>1 DEF Send
<1>4. /\ to \in Places \ {"idle"} /\ to # "finish" /\ to # "send"
      /\ faulty \subseteq faulty' /\ faulty' \subseteq Jobs /\ faults' \in 0 .. MaxFaults
      /\ j \notin faulty' => to = "mark" /\ j \notin faulty
  BY <1>3, QueueAssumption DEF Places, NoFault, Fault, QueueInv, QueueTypeOK
<1>5. mails[j] \in Nat /\ logged[j] \in Nat /\ mails'[j] = mails[j] + 1
  BY <1>2 DEF QueueInv, QueueTypeOK
<1>6. j \notin faulty => mails[j] + logged[j] = 0
  BY <1>1, <1>2 DEF QueueInv, Unfaulted
<1>7. QueueTypeOK'
  <2>1. mails' \in [ Jobs -> Nat ]
    BY <1>2 DEF QueueInv, QueueTypeOK
  <2>2. worker' \in [ Workers -> Slot ]
    BY <1>3, <1>4, GotoMoves
  <2> QED BY <1>2, <1>4, <2>1, <2>2 DEF QueueInv, QueueTypeOK, Slot, Places
<1>8. /\ \A i \in Jobs : mails'[i] >= mails[i] /\ logged'[i] >= logged[i]
      /\ \A i \in Jobs \ {j} : mails'[i] = mails[i] /\ logged'[i] = logged[i]
  BY <1>2 DEF QueueInv, QueueTypeOK
<1>9. mails'[j] > 0
  BY <1>5
<1>10. j \notin faulty' => /\ mails'[j] + logged'[j] <= 1
                           /\ to \notin { "check", "send", "create", "throw" }
  BY <1>2, <1>4, <1>5, <1>6
<1> QED BY <1>1, <1>2, <1>3, <1>4, <1>7, <1>8, <1>9, <1>10, GotoKeeps

LEMMA MarkKeeps ==
    ASSUME QueueInv, NEW w \in Workers, MarkSent(w) PROVE QueueInv'
<1>1. PICK j \in Jobs : j = worker[w].job
  BY SlotType DEF MarkSent
<1>2. /\ worker[w].at = "mark" /\ marked' = marked \cup {j} /\ WorkerGoto(w, "finish")
      /\ UNCHANGED <<account, job, mails, logged, faults, faulty, shared>>
  BY <1>1 DEF MarkSent
<1>3. mails[j] \in Nat /\ logged[j] \in Nat /\ mails[j] > 0
  BY <1>1, <1>2 DEF QueueInv, QueueTypeOK, SlotFits
<1>4. "finish" \in Places \ {"idle"}
  BY DEF Places
<1>5. QueueTypeOK'
  BY <1>2, <1>4, GotoMoves DEF QueueInv, QueueTypeOK, Slot, Places
<1>6. \A i \in Jobs : mails'[i] >= mails[i] /\ logged'[i] >= logged[i]
  BY <1>2 DEF QueueInv, QueueTypeOK
<1>7. Delivered(j)'
  BY <1>2, <1>3 DEF Delivered
<1>8. j \notin faulty' => mails'[j] + logged'[j] <= 1
  BY <1>2 DEF QueueInv, Unfaulted
<1> QED BY <1>1, <1>2, <1>3, <1>4, <1>5, <1>6, <1>7, <1>8, GotoKeeps

LEMMA CreateKeeps ==
    ASSUME QueueInv, NEW w \in Workers, Create(w) PROVE QueueInv'
<1>1. PICK j \in Jobs : j = worker[w].job
  BY SlotType DEF Create
<1> DEFINE here == job[j].user = NoUser \/ account[job[j].user].live
           to   == IF here THEN "finish" ELSE "throw"
<1>2. /\ worker[w].at = "create" /\ WorkerGoto(w, to)
      /\ logged' = IF here THEN [logged EXCEPT ![j] = @ + 1] ELSE logged
      /\ UNCHANGED <<account, job, marked, mails, faults, faulty, shared>>
  BY <1>1 DEF Create
<1>3. to \in { "finish", "throw" } /\ (to = "finish" <=> here)
  OBVIOUS
<1> HIDE DEF here, to
<1>4. to \in Places \ {"idle"}
  BY <1>3 DEF Places
<1>5. mails[j] \in Nat /\ logged[j] \in Nat /\ logged'[j] = IF here THEN logged[j] + 1 ELSE logged[j]
  BY <1>2 DEF QueueInv, QueueTypeOK
<1>6. j \notin faulty => mails[j] + logged[j] = 0
  BY <1>1, <1>2 DEF QueueInv, Unfaulted
<1>7. QueueTypeOK'
  <2>1. logged' \in [ Jobs -> Nat ]
    BY <1>2 DEF QueueInv, QueueTypeOK
  <2>2. worker' \in [ Workers -> Slot ]
    BY <1>2, <1>4, GotoMoves
  <2> QED BY <1>2, <2>1, <2>2 DEF QueueInv, QueueTypeOK, Slot, Places
<1>8. /\ \A i \in Jobs : mails'[i] >= mails[i] /\ logged'[i] >= logged[i]
      /\ \A i \in Jobs \ {j} : mails'[i] = mails[i] /\ logged'[i] = logged[i]
  BY <1>2 DEF QueueInv, QueueTypeOK
<1>9. to = "finish" => Delivered(j)'
  <2>1. to = "finish" => logged'[j] > 0
    BY <1>3, <1>5
  <2> QED BY <2>1 DEF Delivered
<1>10. j \notin faulty' => /\ mails'[j] + logged'[j] <= 1
                           /\ to = "throw" => mails'[j] + logged'[j] = 0
  BY <1>2, <1>3, <1>5, <1>6
<1>11. j \in marked' => mails'[j] > 0
  BY <1>2 DEF QueueInv
<1> QED BY <1>1, <1>2, <1>3, <1>4, <1>7, <1>8, <1>9, <1>10, <1>11, GotoKeeps

LEMMA ErrorKeeps ==
    ASSUME QueueInv, NEW w \in Workers, Error(w) PROVE QueueInv'
<1>1. PICK j \in Jobs : j = worker[w].job
  BY SlotType DEF Error
<1>2. /\ worker[w].at # "idle" /\ WorkerGoto(w, "throw") /\ Fault(j)
      /\ UNCHANGED <<account, job, marked, mails, logged, shared>>
  BY <1>1 DEF Error
<1>3. /\ "throw" \in Places \ {"idle"}
      /\ faulty' = faulty \cup {j} /\ faults' \in 0 .. MaxFaults
  BY <1>2, QueueAssumption DEF Places, Fault, QueueInv, QueueTypeOK
<1>4. QueueTypeOK'
  BY <1>2, <1>3, GotoMoves DEF QueueInv, QueueTypeOK, Slot, Places
<1>5. \A i \in Jobs : mails'[i] >= mails[i] /\ logged'[i] >= logged[i]
  BY <1>2 DEF QueueInv, QueueTypeOK
<1>6. j \in marked' => mails'[j] > 0
  BY <1>2 DEF QueueInv
<1>7. j \in faulty' /\ faulty \subseteq faulty'
  BY <1>3
<1> QED BY <1>1, <1>2, <1>3, <1>4, <1>5, <1>6, <1>7, GotoKeeps

-----------------------------------------------------------------------------
(* The steps of the queue.                                                 *)

\* A job changes, and a slot may be rid of it.
LEMMA JobKeeps ==
    ASSUME QueueInv, QueueTypeOK', NEW j \in Jobs,
           \A i \in Jobs \ {j} : job'[i] = job[i],
           \A v \in Workers : worker'[v] = worker[v] \/ (worker'[v] = Rest /\ worker[v].job = j),
           UNCHANGED <<account, marked, mails, logged, shared>>, faulty \subseteq faulty',
           job[j].state = "absent" \/ job'[j].user = job[j].user,
           job[j].state # "absent" => job'[j].state # "absent",
           JobFits(j)', job'[j].state = "done" => Delivered(j)',
           j \notin faulty' => Unfaulted(j)'
    PROVE  QueueInv'
<1>1. Rest.at = "idle" /\ Rest.job = NoJob /\ NoJob \notin Jobs
  BY QueueAssumption DEF Rest
<1>2. ASSUME NEW i \in Jobs PROVE JobFits(i)'
  <2>1. CASE i # j
    BY <2>1 DEF QueueInv, JobFits
  <2> QED BY <2>1
<1>3. ASSUME NEW i \in Jobs, Delivered(i), job[i].state # "absent" PROVE Delivered(i)'
  BY <1>3 DEF Delivered
<1>4. ASSUME NEW v \in Workers PROVE SlotFits(v)'
  <2>1. CASE worker'[v] = Rest
    BY <1>1, <2>1 DEF SlotFits
  <2>2. CASE worker'[v] = worker[v] /\ worker[v].at = "idle"
    BY <2>2, SlotType DEF SlotFits
  <2>3. CASE worker'[v] = worker[v] /\ worker[v].at # "idle"
    <3>1. PICK i \in Jobs : i = worker[v].job /\ job[i].state # "absent"
      BY <2>3, SlotType
    <3>2. SlotFits(v)
      BY DEF QueueInv
    <3>3. worker[v].at = "finish" => Delivered(i)'
      BY <1>3, <2>3, <3>1, <3>2, <1>1 DEF SlotFits
    <3>4. job'[i].state # "absent"
      BY <3>1
    <3> QED BY <1>1, <2>3, <3>1, <3>2, <3>3, <3>4 DEF SlotFits, Delivered
  <2> QED BY <2>1, <2>2, <2>3
<1>5. ASSUME NEW i \in Jobs \ faulty' PROVE Unfaulted(i)'
  <2>1. CASE i # j
    <3>1. Unfaulted(i)
      BY DEF QueueInv
    <3>2. \A v \in Workers : worker'[v].job = i <=> worker[v].job = i
      BY <1>1, <2>1
    <3>3. \A v \in Workers : worker'[v].job = i => worker'[v].at = worker[v].at
      BY <1>1, <2>1
    <3> QED BY <2>1, <3>1, <3>2, <3>3 DEF Unfaulted
  <2> QED BY <2>1
<1>6. ASSUME NEW v \in Workers, NEW u \in Workers,
             worker'[v].job = worker'[u].job, worker'[v].job \in Jobs, v # u
      PROVE  worker'[v].job \in shared'
  BY <1>1, <1>6 DEF QueueInv
<1>7. \A i \in marked' : mails'[i] > 0
  BY DEF QueueInv
<1>8. ASSUME NEW i \in Jobs, job'[i].state = "done" PROVE Delivered(i)'
  <2>1. CASE i # j
    BY <1>3, <1>8, <2>1 DEF QueueInv
  <2> QED BY <1>8, <2>1
<1> QED BY <1>2, <1>4, <1>5, <1>6, <1>7, <1>8 DEF QueueInv

\* A slot that is rid of its job.
LEMMA RestMoves ==
    ASSUME QueueInv, NEW w \in Workers, worker' = [worker EXCEPT ![w] = Rest]
    PROVE  /\ worker' \in [ Workers -> Slot ] /\ worker'[w] = Rest
           /\ \A v \in Workers \ {w} : worker'[v] = worker[v]
           /\ Rest.at = "idle" /\ Rest.job = NoJob /\ NoJob \notin Jobs
  BY QueueAssumption DEF QueueInv, QueueTypeOK, Slot, Places, Rest

LEMMA JobType == ASSUME QueueInv, NEW j \in Jobs
    PROVE  /\ job[j] \in [ state : Pending \cup { "absent", "failed", "done" },
                           user : Users \cup {NoUser}, failed : 0 .. Attempts,
                           stalls : 0 .. MaxStalls + 1, by : Workers \cup {NoWorker} ]
           /\ JobFits(j) /\ mails[j] \in Nat /\ logged[j] \in Nat
           /\ j \notin faulty => Unfaulted(j)
  BY DEF QueueInv, QueueTypeOK

LEMMA FinishKeeps ==
    ASSUME QueueInv, NEW w \in Workers, Finish(w) PROVE QueueInv'
<1>1. PICK j \in Jobs : j = worker[w].job /\ job[j].state # "absent"
  BY SlotType DEF Finish
<1> DEFINE next == [job[j] EXCEPT !.state = "done", !.by = NoWorker]
<1>2. /\ worker[w].at = "finish" /\ worker' = [worker EXCEPT ![w] = Rest]
      /\ job' = IF job[j].by = w THEN [job EXCEPT ![j] = next] ELSE job
      /\ UNCHANGED <<account, marked, mails, logged, faults, faulty, shared>>
  BY <1>1 DEF Finish
<1>3. /\ worker' \in [ Workers -> Slot ] /\ worker'[w] = Rest
      /\ \A v \in Workers \ {w} : worker'[v] = worker[v]
      /\ Rest.at = "idle" /\ Rest.job = NoJob /\ NoJob \notin Jobs
  BY <1>2, RestMoves
<1>4. next.state = "done" /\ next.by = NoWorker /\ next.user = job[j].user
  BY JobType
<1>5. QueueTypeOK'
  <2>1. next \in [ state : Pending \cup { "absent", "failed", "done" },
                   user : Users \cup {NoUser}, failed : 0 .. Attempts,
                   stalls : 0 .. MaxStalls + 1, by : Workers \cup {NoWorker} ]
    BY JobType
  <2> HIDE DEF next
  <2> QED BY <1>2, <1>3, <2>1 DEF QueueInv, QueueTypeOK, Slot, Places
<1> HIDE DEF next
<1>6. job'[j] = IF job[j].by = w THEN next ELSE job[j]
  BY <1>2 DEF QueueInv, QueueTypeOK
<1>7. Delivered(j)
  BY <1>1, <1>2, <1>3, QueueAssumption DEF QueueInv, SlotFits
<1>8. Delivered(j)'
  BY <1>2, <1>4, <1>6, <1>7 DEF Delivered
<1>9. JobFits(j)'
  BY <1>4, <1>6, JobType DEF JobFits, Pending
<1>10. ASSUME j \notin faulty' PROVE Unfaulted(j)'
  <2>1. Unfaulted(j)
    BY <1>2, <1>10, JobType
  <2>2. job[j].by = w /\ \A v \in Workers : worker[v].job = j => v = w
    BY <1>1, <2>1 DEF Unfaulted
  <2>3. \A v \in Workers : worker'[v].job # j
    BY <1>3, <2>2
  <2> QED BY <1>2, <1>4, <1>6, <2>1, <2>2, <2>3 DEF Unfaulted
<1> QED
  <2>1. \A i \in Jobs \ {j} : job'[i] = job[i]
    BY <1>2 DEF QueueInv, QueueTypeOK
  <2>2. \A v \in Workers : worker'[v] = worker[v] \/ (worker'[v] = Rest /\ worker[v].job = j)
    BY <1>1, <1>3
  <2>3. job'[j].user = job[j].user /\ job'[j].state # "absent"
    BY <1>1, <1>4, <1>6
  <2> QED BY <1>2, <1>5, <1>8, <1>9, <1>10, <2>1, <2>2, <2>3, JobKeeps

LEMMA ThrowKeeps ==
    ASSUME QueueInv, NEW w \in Workers, Throw(w) PROVE QueueInv'
<1>1. PICK j \in Jobs : j = worker[w].job /\ job[j].state # "absent"
  BY SlotType DEF Throw
<1> DEFINE state == IF job[j].failed + 1 < Attempts THEN "delayed" ELSE "failed"
           next  == [job[j] EXCEPT !.failed = job[j].failed + 1, !.by = NoWorker, !.state = state]
<1>2. /\ worker[w].at = "throw" /\ worker' = [worker EXCEPT ![w] = Rest]
      /\ job' = IF job[j].by # w THEN job ELSE [job EXCEPT ![j] = next]
      /\ UNCHANGED <<account, marked, mails, logged, faults, faulty, shared>>
  BY <1>1, JobType DEF Throw
<1>3. /\ worker' \in [ Workers -> Slot ] /\ worker'[w] = Rest
      /\ \A v \in Workers \ {w} : worker'[v] = worker[v]
      /\ Rest.at = "idle" /\ Rest.job = NoJob /\ NoJob \notin Jobs
  BY <1>2, RestMoves
<1>4. /\ next.state = state /\ next.by = NoWorker /\ next.user = job[j].user
      /\ next.failed = job[j].failed + 1 /\ next.stalls = job[j].stalls
      /\ state \in { "delayed", "failed" } /\ (state = "delayed" => job[j].failed + 1 < Attempts)
  BY JobType
<1> HIDE DEF state
<1>p. job[j].by = w => job[j].state = "active" /\ job[j].failed < Attempts /\ job[j].stalls <= MaxStalls
  BY JobType, QueueAssumption DEF JobFits, Pending
<1>5. QueueTypeOK'
  <2>1. ASSUME job[j].by = w
        PROVE  next \in [ state : Pending \cup { "absent", "failed", "done" },
                   user : Users \cup {NoUser}, failed : 0 .. Attempts,
                   stalls : 0 .. MaxStalls + 1, by : Workers \cup {NoWorker} ]
    <3>1. job[j].failed + 1 \in 0 .. Attempts
      BY <1>p, <2>1, JobType, QueueAssumption
    <3>2. state \in Pending \cup { "absent", "failed", "done" }
      BY <1>4 DEF Pending
    <3> QED BY <3>1, <3>2, JobType
  <2> HIDE DEF next
  <2> QED BY <1>2, <1>3, <2>1 DEF QueueInv, QueueTypeOK, Slot, Places
<1> HIDE DEF next
<1>6. job'[j] = IF job[j].by = w THEN next ELSE job[j]
  BY <1>2 DEF QueueInv, QueueTypeOK
<1>7. JobFits(j)'
  BY <1>p, <1>4, <1>6, JobType DEF JobFits, Pending
<1>8. ASSUME j \notin faulty' PROVE Unfaulted(j)'
  <2>1. Unfaulted(j)
    BY <1>2, <1>8, JobType
  <2>2. job[j].by = w /\ \A v \in Workers : worker[v].job = j => v = w
    BY <1>1, <2>1 DEF Unfaulted
  <2>3. \A v \in Workers : worker'[v].job # j
    BY <1>3, <2>2
  <2>4. mails[j] + logged[j] = 0
    BY <1>1, <1>2, <2>1 DEF Unfaulted
  <2> QED BY <1>2, <1>4, <1>6, <2>1, <2>2, <2>3, <2>4 DEF Unfaulted
<1>9. job'[j].state = "done" => Delivered(j)'
  <2>1. job'[j].state = "done" => job[j].state = "done" /\ job'[j] = job[j]
    BY <1>4, <1>6
  <2> QED BY <1>2, <2>1 DEF QueueInv, Delivered
<1> QED
  <2>1. \A i \in Jobs \ {j} : job'[i] = job[i]
    BY <1>2 DEF QueueInv, QueueTypeOK
  <2>2. \A v \in Workers : worker'[v] = worker[v] \/ (worker'[v] = Rest /\ worker[v].job = j)
    BY <1>1, <1>3
  <2>3. job'[j].user = job[j].user /\ job'[j].state # "absent"
    BY <1>1, <1>4, <1>6
  <2> QED BY <1>2, <1>5, <1>7, <1>8, <1>9, <2>1, <2>2, <2>3, JobKeeps

LEMMA DieKeeps ==
    ASSUME QueueInv, NEW w \in Workers, Die(w) PROVE QueueInv'
<1>1. PICK j \in Jobs : j = worker[w].job
  BY SlotType DEF Die
<1>2. /\ worker' = [worker EXCEPT ![w] = Rest]
      /\ faulty' = faulty \cup {j} /\ faults' \in 0 .. MaxFaults
      /\ UNCHANGED <<account, job, marked, mails, logged, shared>>
  BY <1>1, QueueAssumption DEF Die, Fault, QueueInv, QueueTypeOK
<1>3. /\ worker' \in [ Workers -> Slot ] /\ worker'[w] = Rest
      /\ \A v \in Workers \ {w} : worker'[v] = worker[v]
  BY <1>2, RestMoves
<1>4. QueueTypeOK'
  BY <1>2, <1>3 DEF QueueInv, QueueTypeOK, Slot, Places
<1>5. JobFits(j)' /\ (job'[j].state = "done" => Delivered(j)')
  BY <1>2 DEF QueueInv, JobFits, Delivered
<1> QED BY <1>1, <1>2, <1>3, <1>4, <1>5, JobKeeps

LEMMA RetryKeeps ==
    ASSUME QueueInv, NEW j \in Jobs, Retry(j) PROVE QueueInv'
<1> DEFINE next == [job[j] EXCEPT !.state = "waiting"]
<1>1. /\ job[j].state = "delayed" /\ job' = [job EXCEPT ![j] = next]
      /\ UNCHANGED <<account, worker, marked, mails, logged, faults, faulty, shared>>
  BY DEF Retry
<1>2. /\ next.state = "waiting" /\ next.by = job[j].by /\ next.user = job[j].user
      /\ next.failed = job[j].failed /\ next.stalls = job[j].stalls
      /\ next \in [ state : Pending \cup { "absent", "failed", "done" },
                    user : Users \cup {NoUser}, failed : 0 .. Attempts,
                    stalls : 0 .. MaxStalls + 1, by : Workers \cup {NoWorker} ]
  BY JobType DEF Pending
<1> HIDE DEF next
<1>3. QueueTypeOK' /\ job'[j] = next /\ \A i \in Jobs \ {j} : job'[i] = job[i]
  BY <1>1, <1>2 DEF QueueInv, QueueTypeOK
<1>4. JobFits(j)'
  BY <1>1, <1>2, <1>3, JobType DEF JobFits, Pending
<1>5. ASSUME j \notin faulty' PROVE Unfaulted(j)'
  <2>1. Unfaulted(j)
    BY <1>1, <1>5, JobType
  <2> QED BY <1>1, <1>2, <1>3, <2>1 DEF Unfaulted
<1> QED BY <1>1, <1>2, <1>3, <1>4, <1>5, JobKeeps

LEMMA StallKeeps ==
    ASSUME QueueInv, NEW j \in Jobs, Stall(j) PROVE QueueInv'
<1> DEFINE state == IF job[j].stalls < MaxStalls THEN "waiting" ELSE "failed"
           next  == [job[j] EXCEPT !.stalls = job[j].stalls + 1, !.by = NoWorker, !.state = state]
<1>1. /\ job[j].state = "active" /\ job' = [job EXCEPT ![j] = next]
      /\ IF Worked(j) THEN Fault(j) ELSE NoFault
      /\ UNCHANGED <<account, worker, marked, mails, logged, shared>>
  BY JobType DEF Stall
<1>p. job[j].failed < Attempts /\ job[j].stalls <= MaxStalls
  BY <1>1, JobType DEF JobFits, Pending
<1>2. /\ next.state = state /\ next.by = NoWorker /\ next.user = job[j].user
      /\ next.failed = job[j].failed /\ next.stalls = job[j].stalls + 1
      /\ state \in { "waiting", "failed" } /\ (state = "waiting" => job[j].stalls < MaxStalls)
  BY JobType
<1> HIDE DEF state
<1>3. next \in [ state : Pending \cup { "absent", "failed", "done" },
                 user : Users \cup {NoUser}, failed : 0 .. Attempts,
                 stalls : 0 .. MaxStalls + 1, by : Workers \cup {NoWorker} ]
  <2>1. job[j].stalls + 1 \in 0 .. MaxStalls + 1
    BY <1>p, JobType, QueueAssumption
  <2>2. state \in Pending \cup { "absent", "failed", "done" }
    BY <1>2 DEF Pending
  <2> QED BY <2>1, <2>2, JobType
<1> HIDE DEF next
<1>4. faulty \subseteq faulty' /\ faulty' \subseteq Jobs /\ faults' \in 0 .. MaxFaults
  BY <1>1, QueueAssumption DEF Fault, NoFault, QueueInv, QueueTypeOK
<1>5. QueueTypeOK' /\ job'[j] = next /\ \A i \in Jobs \ {j} : job'[i] = job[i]
  BY <1>1, <1>3, <1>4 DEF QueueInv, QueueTypeOK
<1>6. JobFits(j)'
  BY <1>p, <1>2, <1>5, JobType, QueueAssumption DEF JobFits, Pending
<1>7. j \in faulty'
  <2>1. CASE Worked(j)
    BY <1>1, <2>1 DEF Fault
  <2>2. CASE ~Worked(j)
    <3>1. j \in faulty
      BY <1>1, <2>2, JobType DEF Unfaulted, Worked
    <3> QED BY <1>4, <3>1
  <2> QED BY <2>1, <2>2
<1> QED BY <1>1, <1>2, <1>4, <1>5, <1>6, <1>7, JobKeeps

\* A job is added, whoever it names.
LEMMA AddKeeps ==
    ASSUME QueueInv, NEW j \in Jobs, NEW u \in Users \cup {NoUser},
           job[j].state = "absent", Add(j, u),
           UNCHANGED <<account, worker, marked, mails, logged, faults, faulty, shared>>
    PROVE  QueueInv'
<1> DEFINE next == [job[j] EXCEPT !.state = "waiting", !.user = u]
<1>1. job' = [job EXCEPT ![j] = next]
  BY JobType DEF Add, QueueInv, QueueTypeOK
<1>2. /\ next.state = "waiting" /\ next.by = job[j].by
      /\ next.failed = job[j].failed /\ next.stalls = job[j].stalls
      /\ next \in [ state : Pending \cup { "absent", "failed", "done" },
                    user : Users \cup {NoUser}, failed : 0 .. Attempts,
                    stalls : 0 .. MaxStalls + 1, by : Workers \cup {NoWorker} ]
  BY JobType DEF Pending
<1> HIDE DEF next
<1>3. QueueTypeOK' /\ job'[j] = next /\ \A i \in Jobs \ {j} : job'[i] = job[i]
  BY <1>1, <1>2 DEF QueueInv, QueueTypeOK
<1>4. JobFits(j)'
  BY <1>1, <1>2, <1>3, JobType DEF JobFits, Pending
<1>5. ASSUME j \notin faulty' PROVE Unfaulted(j)'
  <2>1. Unfaulted(j)
    BY <1>1, <1>5, JobType
  <2> QED BY <1>1, <1>2, <1>3, <2>1 DEF Unfaulted
<1> QED BY <1>1, <1>2, <1>3, <1>4, <1>5, JobKeeps

LEMMA EnqueueKeeps ==
    ASSUME QueueInv, NEW j \in Jobs, NEW u \in Users \cup {NoUser}, Enqueue(j, u) PROVE QueueInv'
  BY AddKeeps DEF Enqueue

\* A slot takes a job: another may be at it still.
LEMMA TakeKeeps ==
    ASSUME QueueInv, NEW w \in Workers, NEW j \in Jobs, Take(w, j) PROVE QueueInv'
<1> DEFINE next == [job[j] EXCEPT !.state = "active", !.by = w]
           at   == IF j[1] = "send_otp" THEN "check" ELSE "create"
           slot == [ at |-> at, job |-> j ]
<1>1. /\ worker[w] = Rest /\ job[j].state = "waiting" /\ job' = [job EXCEPT ![j] = next]
      /\ worker' = [worker EXCEPT ![w] = slot]
      /\ shared' = IF Worked(j) THEN shared \cup {j} ELSE shared
      /\ UNCHANGED <<account, marked, mails, logged, faults, faulty>>
  BY DEF Take
<1>2. /\ next.state = "active" /\ next.by = w /\ next.user = job[j].user
      /\ next.failed = job[j].failed /\ next.stalls = job[j].stalls
      /\ next \in [ state : Pending \cup { "absent", "failed", "done" },
                    user : Users \cup {NoUser}, failed : 0 .. Attempts,
                    stalls : 0 .. MaxStalls + 1, by : Workers \cup {NoWorker} ]
  BY JobType DEF Pending
<1>3. slot \in Slot /\ slot.job = j /\ slot.at \in { "check", "create" }
  BY DEF Slot, Places
<1> HIDE DEF next, slot
<1>4. /\ job'[j] = next /\ \A i \in Jobs \ {j} : job'[i] = job[i]
      /\ worker' \in [ Workers -> Slot ]
      /\ worker'[w] = slot /\ \A v \in Workers \ {w} : worker'[v] = worker[v]
  BY <1>1, <1>3 DEF QueueInv, QueueTypeOK, Slot, Places
<1>5. QueueTypeOK'
  BY <1>1, <1>2, <1>4 DEF QueueInv, QueueTypeOK, Slot, Places
<1>6. ASSUME NEW i \in Jobs PROVE JobFits(i)'
  <2>1. CASE i = j
    BY <1>1, <1>2, <1>4, <2>1, JobType DEF JobFits, Pending
  <2>2. CASE i # j
    BY <1>4, <2>2 DEF QueueInv, JobFits
  <2> QED BY <2>1, <2>2
<1>7. ASSUME NEW i \in Jobs PROVE Delivered(i)' <=> Delivered(i)
  BY <1>1, <1>2, <1>4 DEF Delivered
<1>8. ASSUME NEW v \in Workers PROVE SlotFits(v)'
  <2>1. CASE v = w
    BY <1>2, <1>3, <1>4, <2>1 DEF SlotFits
  <2>2. CASE v # w /\ worker[v].at = "idle"
    BY <1>4, <2>2, SlotType DEF SlotFits
  <2>3. CASE v # w /\ worker[v].at # "idle"
    <3>1. PICK i \in Jobs : i = worker[v].job /\ job[i].state # "absent"
      BY <2>3, SlotType
    <3>2. SlotFits(v)
      BY DEF QueueInv
    <3>3. worker[v].at = "finish" => Delivered(i)'
      BY <1>7, <2>3, <3>1, <3>2 DEF SlotFits
    <3>4. job'[i].state # "absent"
      BY <1>2, <1>4, <3>1
    <3>5. worker[v].at = "send" /\ i \in marked => i \in shared'
      BY <1>1, <2>3, <3>1, <3>2 DEF SlotFits
    <3>6. worker[v].at = "mark" => mails[i] > 0
      BY <2>3, <3>1, <3>2 DEF SlotFits
    <3> QED BY <1>1, <1>4, <2>3, <3>1, <3>3, <3>4, <3>5, <3>6 DEF SlotFits, Delivered
  <2> QED BY <2>1, <2>2, <2>3
<1>9. ASSUME NEW i \in Jobs \ faulty' PROVE Unfaulted(i)'
  <2>1. Unfaulted(i)
    BY <1>1 DEF QueueInv
  <2>2. CASE i = j
    <3>1. \A v \in Workers : worker[v].job # j
      <4> SUFFICES ASSUME NEW v \in Workers, worker[v].job = j PROVE FALSE
        OBVIOUS
      <4>1. job[j].by = v /\ v # NoWorker
        BY <2>1, <2>2, QueueAssumption DEF Unfaulted
      <4> QED BY <1>1, <4>1, JobType DEF JobFits
    <3>2. mails[j] + logged[j] = 0
      BY <1>1, <2>1, <2>2 DEF Unfaulted
    <3>3. \A v \in Workers : worker'[v].job = j <=> v = w
      BY <1>3, <1>4, <3>1
    <3> QED BY <1>1, <1>2, <1>4, <2>2, <3>2, <3>3 DEF Unfaulted
  <2>3. CASE i # j
    <3>1. Rest.job = NoJob /\ NoJob \notin Jobs
      BY QueueAssumption DEF Rest
    <3>2. \A v \in Workers : worker'[v].job = i <=> worker[v].job = i
      BY <1>1, <1>3, <1>4, <2>3, <3>1
    <3>3. \A v \in Workers : worker'[v].job = i => worker'[v].at = worker[v].at
      BY <1>3, <1>4, <2>3
    <3> QED BY <1>1, <1>4, <2>1, <2>3, <3>2, <3>3 DEF Unfaulted
  <2> QED BY <2>2, <2>3
<1>10. ASSUME NEW v \in Workers, NEW u \in Workers,
              worker'[v].job = worker'[u].job, worker'[v].job \in Jobs, v # u
       PROVE  worker'[v].job \in shared'
  <2>1. CASE v # w /\ u # w
    BY <1>1, <1>4, <1>10, <2>1 DEF QueueInv
  <2>2. CASE v = w
    BY <1>1, <1>3, <1>4, <1>10, <2>2 DEF Worked
  <2>3. CASE u = w
    BY <1>1, <1>3, <1>4, <1>10, <2>3 DEF Worked
  <2> QED BY <2>1, <2>2, <2>3
<1>11. \A i \in marked' : mails'[i] > 0
  BY <1>1 DEF QueueInv
<1>12. ASSUME NEW i \in Jobs, job'[i].state = "done" PROVE Delivered(i)'
  BY <1>2, <1>4, <1>7, <1>12 DEF QueueInv
<1> QED BY <1>5, <1>6, <1>8, <1>9, <1>10, <1>11, <1>12 DEF QueueInv

\* The rows that name a user go with him.
LEMMA RowsGoKeeps ==
    ASSUME QueueInv, NEW u \in Users, RowsGo(u),
           UNCHANGED <<job, worker, marked, mails, faults, faulty, shared>>
    PROVE  QueueInv'
<1> DEFINE gone == [ live |-> FALSE, role |-> "user", blocked |-> FALSE ]
<1>1. /\ account' = [account EXCEPT ![u] = gone]
      /\ logged' = [ i \in Jobs |-> IF job[i].user = u THEN 0 ELSE logged[i] ]
      /\ UNCHANGED <<job, worker, marked, mails, faults, faulty, shared>>
  BY DEF RowsGo
<1>2. gone.live = FALSE /\ gone \in [ live : BOOLEAN, role : Roles, blocked : BOOLEAN ]
  BY DEF Roles
<1> HIDE DEF gone
<1>3. account'[u] = gone /\ \A x \in Users \ {u} : account'[x] = account[x]
  BY <1>1 DEF QueueInv, QueueTypeOK
<1>4. QueueTypeOK'
  <2>1. logged' \in [ Jobs -> Nat ]
    BY <1>1 DEF QueueInv, QueueTypeOK
  <2>2. account' \in [ Users -> [ live : BOOLEAN, role : Roles, blocked : BOOLEAN ] ]
    BY <1>1, <1>2 DEF QueueInv, QueueTypeOK
  <2> QED BY <1>1, <2>1, <2>2 DEF QueueInv, QueueTypeOK
<1>5. ASSUME NEW i \in Jobs, Delivered(i) PROVE Delivered(i)'
  <2>1. CASE job[i].user = u
    BY <1>1, <1>2, <1>3, <2>1, QueueAssumption DEF Delivered
  <2>2. CASE job[i].user # u
    <3>1. logged'[i] = logged[i] /\ job[i].user \in Users \cup {NoUser}
      BY <1>1, <2>2, JobType
    <3> QED BY <1>1, <1>3, <1>5, <2>2, <3>1 DEF Delivered
  <2> QED BY <2>1, <2>2
<1>6. ASSUME NEW i \in Jobs PROVE JobFits(i)'
  BY <1>1 DEF QueueInv, JobFits
<1>7. ASSUME NEW v \in Workers PROVE SlotFits(v)'
  <2>1. SlotFits(v)
    BY DEF QueueInv
  <2>2. CASE worker[v].at = "idle"
    BY <1>1, <2>2, SlotType DEF SlotFits
  <2>3. CASE worker[v].at # "idle"
    <3>1. PICK i \in Jobs : i = worker[v].job /\ job[i].state # "absent"
      BY <2>3, SlotType
    <3>2. worker[v].at = "finish" => Delivered(i)'
      BY <1>5, <2>1, <2>3, <3>1 DEF SlotFits
    <3> QED BY <1>1, <2>1, <2>3, <3>1, <3>2 DEF SlotFits, Delivered
  <2> QED BY <2>2, <2>3
<1>8. ASSUME NEW i \in Jobs \ faulty' PROVE Unfaulted(i)'
  <2>1. Unfaulted(i) /\ mails[i] \in Nat /\ logged[i] \in Nat
    BY <1>1, <1>8, JobType
  <2>2. logged'[i] \in Nat /\ logged'[i] <= logged[i]
    BY <1>1, <2>1
  <2>3. /\ mails[i] + logged'[i] <= mails[i] + logged[i]
        /\ mails[i] + logged[i] = 0 => mails[i] + logged'[i] = 0
        /\ mails[i] + logged[i] <= 1 => mails[i] + logged'[i] <= 1
    BY <2>1, <2>2
  <2> QED BY <1>1, <2>1, <2>3 DEF Unfaulted
<1>9. ASSUME NEW i \in Jobs, job'[i].state = "done" PROVE Delivered(i)'
  BY <1>1, <1>5, <1>9 DEF QueueInv
<1> QED BY <1>1, <1>4, <1>6, <1>7, <1>8, <1>9 DEF QueueInv

LEMMA DeleteKeeps ==
    ASSUME QueueInv, NEW u \in Users, DeleteUser(u) PROVE QueueInv'
  BY RowsGoKeeps DEF DeleteUser

\* An account changes, and nobody comes back.
LEMMA AccountKeeps ==
    ASSUME QueueInv, UNCHANGED <<queue, faulty, shared>>,
           account' \in [ Users -> [ live : BOOLEAN, role : Roles, blocked : BOOLEAN ] ],
           \A u \in Users : ~account[u].live => ~account'[u].live
    PROVE  QueueInv'
<1>1. UNCHANGED <<job, worker, marked, mails, logged, faults>>
  BY DEF queue
<1>2. ASSUME NEW i \in Jobs, Delivered(i) PROVE Delivered(i)'
  BY <1>1, <1>2, JobType DEF Delivered
<1>3. ASSUME NEW w \in Workers PROVE SlotFits(w)'
  <2>1. SlotFits(w)
    BY DEF QueueInv
  <2>2. CASE worker[w].at = "idle"
    BY <1>1, <2>2, SlotType DEF SlotFits
  <2>3. CASE worker[w].at # "idle"
    <3>1. PICK i \in Jobs : i = worker[w].job
      BY <2>3, SlotType
    <3>2. worker[w].at = "finish" => Delivered(i)'
      BY <1>2, <2>1, <2>3, <3>1 DEF SlotFits
    <3> QED BY <1>1, <2>1, <2>3, <3>1, <3>2 DEF SlotFits, Delivered
  <2> QED BY <2>2, <2>3
<1>4. ASSUME NEW i \in Jobs, job'[i].state = "done" PROVE Delivered(i)'
  BY <1>1, <1>2, <1>4 DEF QueueInv
<1> QED BY <1>1, <1>3, <1>4 DEF QueueInv, QueueTypeOK, JobFits, Unfaulted

-----------------------------------------------------------------------------
(* The theorems.                                                           *)

LEMMA InitInv == QueueSystemInit => QueueInv
<1> SUFFICES ASSUME QueueSystemInit PROVE QueueInv
  OBVIOUS
<1>1. /\ NewJob \in [ state : Pending \cup { "absent", "failed", "done" },
                      user : Users \cup {NoUser}, failed : 0 .. Attempts,
                      stalls : 0 .. MaxStalls + 1, by : Workers \cup {NoWorker} ]
      /\ NewJob.state = "absent" /\ NewJob.by = NoWorker
      /\ NewJob.failed = 0 /\ NewJob.stalls = 0
  BY QueueAssumption DEF NewJob, Pending
<1>2. Rest \in Slot /\ Rest.at = "idle" /\ Rest.job = NoJob /\ NoJob \notin Jobs
  BY QueueAssumption DEF Rest, Slot, Places
<1>3. QueueTypeOK
  BY <1>1, <1>2, QueueAssumption
     DEF QueueSystemInit, QueueInit, QueueTypeOK, Roles, Slot, Places
<1>4. \A j \in Jobs : JobFits(j)
  BY <1>1, QueueAssumption DEF QueueSystemInit, QueueInit, JobFits, Pending
<1>5. \A w \in Workers : SlotFits(w)
  BY <1>2 DEF QueueSystemInit, QueueInit, SlotFits
<1>6. \A j \in Jobs : Unfaulted(j)
  BY <1>1, <1>2 DEF QueueSystemInit, QueueInit, Unfaulted
<1> QED BY <1>1, <1>2, <1>3, <1>4, <1>5, <1>6 DEF QueueSystemInit, QueueInit, QueueInv

LEMMA NextInv == QueueInv /\ [QueueSystemNext]_queueVars => QueueInv'
<1> SUFFICES ASSUME QueueInv, [QueueSystemNext]_queueVars PROVE QueueInv'
  OBVIOUS
<1>1. ASSUME NEW w \in Workers, Work(w) \/ Error(w) \/ Die(w) PROVE QueueInv'
  BY <1>1, TakeKeeps, CheckKeeps, SendKeeps, MarkKeeps, CreateKeeps, FinishKeeps, ThrowKeeps,
     ErrorKeeps, DieKeeps DEF Work
<1>2. ASSUME NEW j \in Jobs, Retry(j) \/ Stall(j) PROVE QueueInv'
  BY <1>2, RetryKeeps, StallKeeps
<1>3. ASSUME NEW j \in Jobs, NEW u \in Users \cup {NoUser}, Enqueue(j, u) PROVE QueueInv'
  BY <1>3, EnqueueKeeps
<1>4. ASSUME NEW u \in Users, DeleteUser(u) PROVE QueueInv'
  BY <1>4, DeleteKeeps
<1>5. CASE UNCHANGED queueVars
  BY <1>5 DEF queueVars, queue, QueueInv, QueueTypeOK, JobFits, SlotFits, Unfaulted, Delivered
<1> QED BY <1>1, <1>2, <1>3, <1>4, <1>5 DEF QueueSystemNext, QueueNext

\* For any numbers of jobs, slots, attempts, stalls and faults.
THEOREM QueueInvariant == QueueSpec => []QueueInv
  BY InitInv, NextInv, PTL DEF QueueSpec

\* A job that no fault has met is mailed, or logged, at most once.
THEOREM OnlyFaultsRepeat == QueueSpec => []RepeatsAreFaults
<1>1. QueueInv => RepeatsAreFaults
  <2> SUFFICES ASSUME QueueInv, NEW j \in Jobs, mails[j] + logged[j] > 1 PROVE j \in faulty
    BY DEF RepeatsAreFaults
  <2> QED BY JobType DEF Unfaulted
<1> QED BY <1>1, QueueInvariant, PTL

\* A job that is done has sent its mail or written its row, or the user it
\* names is gone.
THEOREM DoneJobsAreDelivered == QueueSpec => []DoneIsDelivered
<1>1. QueueInv => DoneIsDelivered
  BY DEF QueueInv, DoneIsDelivered, Delivered
<1> QED BY <1>1, QueueInvariant, PTL

\* A mail whose job is marked is not sent again by a slot that has the job to
\* itself.
THEOREM MarkedAreSpared == QueueSpec => MarkedIsSpared
<1>1. ASSUME QueueInv, NEW w \in Workers, Send(w), worker[w].job \in marked
      PROVE  worker[w].job \in shared
  BY <1>1 DEF Send, QueueInv, SlotFits
<1>2. QueueInv /\ [QueueSystemNext]_queueVars =>
        [ \A w \in Workers :
            Send(w) /\ worker[w].job \in marked => worker[w].job \in shared ]_queueVars
  BY <1>1
<1> QED BY <1>2, QueueInvariant, PTL DEF QueueSpec, MarkedIsSpared

-----------------------------------------------------------------------------
(* The requests and their jobs.  What their properties rest on.            *)

\* The user that a job names has been deleted.
Gone(j) == job[j].user # NoUser /\ ~account[job[j].user].live

\* A job that no fault has met throws, and fails, only because the user it
\* names is gone; an audit job sends no mail.
FailsForCause(j) ==
    /\ job[j].state = "absent" => job[j].failed = 0
    /\ j \notin faulty /\ (job[j].failed > 0 \/ job[j].state = "failed") => Gone(j)
    /\ j[1] = "audit_log" => mails[j] = 0
    /\ \A w \in Workers : worker[w].job = j =>
         /\ j[1] = "audit_log" => worker[w].at \in { "create", "finish", "throw" }
         /\ worker[w].at = "throw" /\ j \notin faulty => Gone(j)

\* The number of a request is its own, and its jobs are yet to be queued.
Numbered(p) ==
    LET n == req[p].n IN
    req[p].at # "idle" =>
        /\ n \in 1 .. asked
        /\ \A q \in Procs : req[q].at # "idle" /\ req[q].n = n => q = p
        /\ job[<<"audit_log", n>>].state = "absent"
        /\ req[p].at # "audit" => job[<<"send_otp", n>>].state = "absent"
        /\ req[p].at = "audit" => n \in written

\* A caller the guards let through may still do what he asks, unless an admin
\* has changed him since.
Authorised(p) ==
    LET u == req[p].user IN
    req[p].at = "handle" /\ req[p].route.guard = "jwt" =>
        /\ u # NoUser
        /\ u \in changed[p] \/ (Valid(u) /\ Permitted(req[p].route, u))

\* An audit job is that of a write that succeeded; and every such write has
\* its job, or is about to queue it, or has lost it.
Accounted(n) ==
    LET j == <<"audit_log", n>> IN
    /\ job[j].state # "absent" => n \in written
    /\ n \in written => \/ job[j].state # "absent" \/ n \in lost
                        \/ \E p \in Procs : req[p].at = "audit" /\ req[p].n = n

\* The numbers, the jobs and what is known of the writes fit each other.
Kept ==
    /\ \A j \in Jobs : job[j].state # "absent" => j[2] <= asked
    /\ \A p \in Procs : Numbered(p)
    /\ \A n \in 1 .. MaxRequests : Accounted(n)

\* The inductive invariant.
RequestsInv ==
    /\ TypeOK /\ QueueInv /\ Kept
    /\ \A j \in Jobs : FailsForCause(j)
    /\ \A p \in Procs : Authorised(p)

-----------------------------------------------------------------------------
(* The routes.                                                             *)

Changing == { "role", "block", "unblock", "update", "delete" }

\* Only admins reach a handler that changes accounts.
LEMMA ChangingRoutes ==
    ASSUME NEW r \in Routes, r.effect \in Changing PROVE r.guard = "jwt" /\ r.roles = {"admin"}
<1>1. ASSUME r \in UsersRoutes PROVE r.guard = "jwt" /\ (r.effect \in Changing => r.roles = {"admin"})
  BY <1>1 DEF UsersRoutes, Only, Route, Changing
<1>2. CASE r \in UserCommandRoutes
  BY <1>2 DEF UserCommandRoutes, Route
<1>3. ASSUME r \in AuthRoutes PROVE r.effect = "none"
  BY <1>3 DEF AuthRoutes, Throttle, Public, Only, Route
<1>4. ASSUME r \in ResetRoutes PROVE r.effect \in {"none", "otp"}
  BY <1>4 DEF ResetRoutes, Throttle, Public, Only, Route
<1>5. ASSUME r \in ArticleReadRoutes \cup ArticleWriteRoutes PROVE r.effect = "none"
  BY <1>5 DEF ArticleReadRoutes, ArticleWriteRoutes, SkipThrottle, Only, Route
<1>6. ASSUME r \in PortfolioRoutes \cup PlanRoutes PROVE r.effect = "none"
  BY <1>6 DEF PortfolioRoutes, PlanRoutes, SkipThrottle, Public, Only, Route
<1>7. ASSUME r \in CategoryRoutes \cup TagRoutes \cup DashboardRoutes PROVE r.effect = "none"
  BY <1>7 DEF CategoryRoutes, TagRoutes, DashboardRoutes, SkipThrottle, Public, Only, Route
<1>8. ASSUME r \in SiteSettingRoutes \cup ContactRoutes \cup HealthRoutes PROVE r.effect = "none"
  BY <1>8 DEF SiteSettingRoutes, ContactRoutes, HealthRoutes, SkipThrottle, Throttle, Public, Only, Route
<1> QED BY <1>1, <1>2, <1>3, <1>4, <1>5, <1>6, <1>7, <1>8 DEF Routes, Changing

LEMMA ChangingSorts ==
    ASSUME NEW s \in Sorts, s.effect \in Changing PROVE s.guard = "jwt" /\ s.roles = {"admin"}
<1>1. PICK r \in Routes : s = Sort(r)
  BY DEF Sorts
<1>2. s.effect = r.effect /\ s.guard = r.guard /\ s.roles = r.roles
  BY <1>1 DEF Sort
<1> QED BY <1>1, <1>2, ChangingRoutes

LEMMA NoRouteIsASort == NoRoute \in Sorts
  BY DEF NoRoute, Sorts, Routes, PlanRoutes

-----------------------------------------------------------------------------
(* The queue under the requests: why jobs fail.                            *)

\* A slot that goes on with its job.
LEMMA GotoCauses ==
    ASSUME QueueInv, NEW w \in Workers, NEW to \in Places, WorkerGoto(w, to),
           UNCHANGED <<account, job>>, faulty \subseteq faulty',
           NEW j \in Jobs, j = worker[w].job, NEW i \in Jobs, FailsForCause(i),
           i[1] = "audit_log" => mails'[i] = mails[i],
           j[1] = "audit_log" => to \in { "create", "finish", "throw" },
           to = "throw" /\ j \notin faulty' => Gone(j)
    PROVE  FailsForCause(i)'
<1>1. /\ worker'[w].at = to /\ worker'[w].job = worker[w].job
      /\ \A v \in Workers \ {w} : worker'[v] = worker[v]
  BY GotoMoves
<1>2. ASSUME NEW v \in Workers, worker'[v].job = i
      PROVE  /\ i[1] = "audit_log" => worker'[v].at \in { "create", "finish", "throw" }
             /\ worker'[v].at = "throw" /\ i \notin faulty' => Gone(i)
  <2>1. CASE v = w
    BY <1>1, <1>2, <2>1
  <2>2. CASE v # w
    <3>1. worker'[v] = worker[v]
      BY <1>1, <2>2
    <3> QED BY <1>2, <3>1 DEF FailsForCause
  <2> QED BY <2>1, <2>2
<1> QED BY <1>2 DEF FailsForCause, Gone

\* A job changes, and a slot may be rid of it.
LEMMA JobCauses ==
    ASSUME QueueInv, NEW j \in Jobs,
           \A i \in Jobs \ {j} : job'[i] = job[i],
           \A v \in Workers : worker'[v] = worker[v] \/ (worker'[v] = Rest /\ worker[v].job = j),
           UNCHANGED <<account, mails>>, faulty \subseteq faulty',
           job'[j].user = job[j].user, job'[j].state # "absent",
           j \notin faulty' /\ (job'[j].failed > 0 \/ job'[j].state = "failed") => Gone(j),
           NEW i \in Jobs, FailsForCause(i)
    PROVE  FailsForCause(i)'
<1>1. Rest.job = NoJob /\ NoJob \notin Jobs
  BY QueueAssumption DEF Rest
<1>2. Gone(i)' <=> Gone(i)
  BY DEF Gone
<1>3. ASSUME NEW v \in Workers, worker'[v].job = i PROVE worker'[v] = worker[v]
  BY <1>1, <1>3
<1>4. /\ job'[i].state = "absent" => job'[i].failed = 0
      /\ i \notin faulty' /\ (job'[i].failed > 0 \/ job'[i].state = "failed") => Gone(i)
  <2>1. CASE i = j
    BY <2>1
  <2>2. CASE i # j
    BY <2>2 DEF FailsForCause
  <2> QED BY <2>1, <2>2
<1> QED BY <1>2, <1>3, <1>4 DEF FailsForCause

LEMMA SlotCauses ==
    ASSUME QueueInv, NEW w \in Workers, NEW i \in Jobs, FailsForCause(i),
           \A k \in Jobs : FailsForCause(k),
           Work(w) \/ Error(w) \/ Die(w)
    PROVE  FailsForCause(i)'
<1>1. ASSUME NEW j \in Jobs, Take(w, j) PROVE FailsForCause(i)'
  <2>1. /\ worker[w] = Rest /\ job[j].state = "waiting" /\ worker' \in [ Workers -> Slot ]
        /\ job' = [job EXCEPT ![j].state = "active", ![j].by = w]
        /\ worker' = [worker EXCEPT ![w] =
             [ at |-> IF j[1] = "send_otp" THEN "check" ELSE "create", job |-> j ]]
        /\ UNCHANGED <<account, mails, faulty>>
    <3>1. [ at |-> IF j[1] = "send_otp" THEN "check" ELSE "create", job |-> j ] \in Slot
      BY DEF Slot, Places
    <3> QED BY <1>1, <3>1 DEF Take, QueueInv, QueueTypeOK, Slot, Places
  <2>2. /\ job'[i].user = job[i].user /\ job'[i].failed = job[i].failed
        /\ job'[i].state = "absent" => job[i].state = "absent"
        /\ job'[i].state = "failed" => job[i].state = "failed"
    <3>1. CASE i = j
      BY <2>1, <3>1, JobType DEF QueueInv, QueueTypeOK
    <3>2. CASE i # j
      BY <2>1, <3>2 DEF QueueInv, QueueTypeOK
    <3> QED BY <3>1, <3>2
  <2>3. Gone(i)' <=> Gone(i)
    BY <2>1, <2>2 DEF Gone
  <2>4. ASSUME NEW v \in Workers, worker'[v].job = i
        PROVE  \/ worker'[v] = worker[v]
               \/ /\ worker'[v].at = "create" \/ i[1] # "audit_log"
                  /\ worker'[v].at # "throw"
    BY <2>1, <2>4 DEF QueueInv, QueueTypeOK
  <2> QED BY <2>1, <2>2, <2>3, <2>4 DEF FailsForCause
<1>2. ASSUME worker[w].at # "idle" PROVE worker[w].job \in Jobs
  BY <1>2, SlotType
<1>3. CASE CheckSent(w)
  <2>1. PICK j \in Jobs : j = worker[w].job
    BY <1>2, <1>3 DEF CheckSent
  <2>2. PICK to \in { "finish", "send" } : WorkerGoto(w, to)
    BY <1>3 DEF CheckSent
  <2>3. worker[w].at = "check" /\ UNCHANGED <<account, job, mails, faulty>> /\ to \in Places
    BY <1>3, <2>2 DEF CheckSent, Places
  <2>4. j[1] # "audit_log"
    BY <2>1, <2>3 DEF FailsForCause
  <2> QED BY <2>1, <2>2, <2>3, <2>4, GotoCauses
<1>4. CASE Send(w)
  <2>1. PICK j \in Jobs : j = worker[w].job
    BY <1>2, <1>4 DEF Send
  <2>2. PICK to \in { "mark", "throw" } : WorkerGoto(w, to) /\ (IF to = "throw" THEN Fault(j) ELSE NoFault)
    BY <1>4, <2>1 DEF Send
  <2>3. /\ worker[w].at = "send" /\ UNCHANGED <<account, job>> /\ to \in Places
        /\ mails' = [mails EXCEPT ![j] = @ + 1]
    BY <1>4, <2>1, <2>2 DEF Send, Places
  <2>4. j[1] # "audit_log"
    BY <2>1, <2>3 DEF FailsForCause
  <2>5. i[1] = "audit_log" => mails'[i] = mails[i]
    BY <2>3, <2>4 DEF QueueInv, QueueTypeOK
  <2>6. faulty \subseteq faulty' /\ (to = "throw" => j \in faulty')
    BY <2>2 DEF Fault, NoFault
  <2> QED BY <2>1, <2>2, <2>3, <2>4, <2>5, <2>6, GotoCauses
<1>5. CASE MarkSent(w)
  <2>1. PICK j \in Jobs : j = worker[w].job
    BY <1>2, <1>5 DEF MarkSent
  <2>2. /\ worker[w].at = "mark" /\ UNCHANGED <<account, job, mails, faulty>>
        /\ WorkerGoto(w, "finish") /\ "finish" \in Places
    BY <1>5 DEF MarkSent, Places
  <2> QED BY <2>1, <2>2, GotoCauses
<1>6. CASE Create(w)
  <2>1. PICK j \in Jobs : j = worker[w].job
    BY <1>2, <1>6 DEF Create
  <2>2. PICK to \in { "finish", "throw" } : WorkerGoto(w, to) /\ (to = "throw" => Gone(j))
    BY <1>6, <2>1 DEF Create, Gone
  <2>3. UNCHANGED <<account, job, mails, faulty>> /\ to \in Places
    BY <1>6, <2>2 DEF Create, Places
  <2> QED BY <2>1, <2>2, <2>3, GotoCauses
<1>7. CASE Error(w)
  <2>1. PICK j \in Jobs : j = worker[w].job
    BY <1>2, <1>7 DEF Error
  <2>2. /\ UNCHANGED <<account, job, mails>> /\ faulty' = faulty \cup {j}
        /\ WorkerGoto(w, "throw") /\ "throw" \in Places
    BY <1>7, <2>1 DEF Error, Fault, Places
  <2> QED BY <2>1, <2>2, GotoCauses
<1>8. CASE Finish(w)
  <2>1. PICK j \in Jobs : j = worker[w].job /\ job[j].state # "absent"
    BY <1>8, SlotType DEF Finish
  <2>2. /\ worker' = [worker EXCEPT ![w] = Rest] /\ UNCHANGED <<account, mails, faulty>>
        /\ job' = IF job[j].by = w THEN [job EXCEPT ![j].state = "done", ![j].by = NoWorker] ELSE job
    BY <1>8, <2>1 DEF Finish
  <2>3. /\ \A k \in Jobs \ {j} : job'[k] = job[k]
        /\ job'[j].user = job[j].user /\ job'[j].failed = job[j].failed
        /\ job'[j].state # "absent" /\ (job'[j].state = "failed" => job[j].state = "failed")
    BY <2>1, <2>2, JobType DEF QueueInv, QueueTypeOK
  <2>4. \A v \in Workers : worker'[v] = worker[v] \/ (worker'[v] = Rest /\ worker[v].job = j)
    BY <2>1, <2>2, RestMoves
  <2>5. j \notin faulty' /\ (job'[j].failed > 0 \/ job'[j].state = "failed") => Gone(j)
    BY <2>2, <2>3 DEF FailsForCause
  <2> QED BY <2>2, <2>3, <2>4, <2>5, JobCauses
<1>9. CASE Throw(w)
  <2>1. PICK j \in Jobs : j = worker[w].job /\ job[j].state # "absent"
    BY <1>9, SlotType DEF Throw
  <2> DEFINE state == IF job[j].failed + 1 < Attempts THEN "delayed" ELSE "failed"
             next  == [job[j] EXCEPT !.failed = job[j].failed + 1, !.by = NoWorker, !.state = state]
  <2>2. /\ worker[w].at = "throw" /\ worker' = [worker EXCEPT ![w] = Rest]
        /\ job' = IF job[j].by # w THEN job ELSE [job EXCEPT ![j] = next]
        /\ UNCHANGED <<account, mails, faulty>>
    BY <1>9, <2>1, JobType DEF Throw
  <2>3. next.state \in { "delayed", "failed" } /\ next.user = job[j].user
    BY JobType
  <2> HIDE DEF state, next
  <2>4. /\ \A k \in Jobs \ {j} : job'[k] = job[k]
        /\ job'[j].user = job[j].user /\ job'[j].state # "absent"
    BY <2>1, <2>2, <2>3 DEF QueueInv, QueueTypeOK
  <2>5. \A v \in Workers : worker'[v] = worker[v] \/ (worker'[v] = Rest /\ worker[v].job = j)
    BY <2>1, <2>2, RestMoves
  <2>6. j \notin faulty' => Gone(j)
    BY <2>1, <2>2 DEF FailsForCause
  <2> QED BY <2>2, <2>4, <2>5, <2>6, JobCauses
<1>10. CASE Die(w)
  <2>1. PICK j \in Jobs : j = worker[w].job /\ job[j].state # "absent"
    BY <1>10, SlotType DEF Die, Rest
  <2>2. /\ worker' = [worker EXCEPT ![w] = Rest] /\ UNCHANGED <<account, job, mails>>
        /\ faulty' = faulty \cup {j}
    BY <1>10, <2>1 DEF Die, Fault
  <2>3. \A v \in Workers : worker'[v] = worker[v] \/ (worker'[v] = Rest /\ worker[v].job = j)
    BY <2>1, <2>2, RestMoves
  <2> QED BY <2>1, <2>2, <2>3, JobCauses
<1> QED BY <1>1, <1>3, <1>4, <1>5, <1>6, <1>7, <1>8, <1>9, <1>10 DEF Work

LEMMA RetryCauses ==
    ASSUME QueueInv, NEW j \in Jobs, Retry(j) \/ Stall(j), NEW i \in Jobs,
           \A k \in Jobs : FailsForCause(k)
    PROVE  FailsForCause(i)'
<1>1. FailsForCause(i) /\ FailsForCause(j) /\ UNCHANGED <<account, worker, mails>>
  BY DEF Retry, Stall
<1>2. CASE Retry(j)
  <2>1. /\ \A k \in Jobs \ {j} : job'[k] = job[k]
        /\ job'[j].user = job[j].user /\ job'[j].failed = job[j].failed /\ job'[j].state = "waiting"
        /\ faulty' = faulty
    BY <1>2, JobType DEF Retry, QueueInv, QueueTypeOK
  <2>2. j \notin faulty' /\ (job'[j].failed > 0 \/ job'[j].state = "failed") => Gone(j)
    BY <1>1, <2>1 DEF FailsForCause
  <2> QED BY <1>1, <2>1, <2>2, JobCauses
<1>3. CASE Stall(j)
  <2> DEFINE state == IF job[j].stalls < MaxStalls THEN "waiting" ELSE "failed"
             next  == [job[j] EXCEPT !.stalls = job[j].stalls + 1, !.by = NoWorker, !.state = state]
  <2>1. /\ job[j].state = "active" /\ job' = [job EXCEPT ![j] = next]
        /\ IF Worked(j) THEN Fault(j) ELSE NoFault
    BY <1>3, JobType DEF Stall
  <2>2. next.state \in { "waiting", "failed" } /\ next.user = job[j].user
    BY JobType
  <2> HIDE DEF state, next
  <2>3. /\ \A k \in Jobs \ {j} : job'[k] = job[k]
        /\ job'[j].user = job[j].user /\ job'[j].state # "absent"
    BY <2>1, <2>2 DEF QueueInv, QueueTypeOK
  <2>4. faulty \subseteq faulty' /\ j \in faulty'
    <3>1. CASE Worked(j)
      BY <2>1, <3>1 DEF Fault
    <3>2. CASE ~Worked(j)
      BY <2>1, <3>2, JobType DEF Unfaulted, Worked, NoFault
    <3> QED BY <3>1, <3>2
  <2> QED BY <1>1, <2>3, <2>4, JobCauses
<1> QED BY <1>2, <1>3

\* A job is added.
LEMMA AddCauses ==
    ASSUME QueueInv, NEW j \in Jobs, NEW u \in Users \cup {NoUser},
           job[j].state = "absent", Add(j, u), UNCHANGED <<account, worker, mails, faulty>>,
           NEW i \in Jobs, FailsForCause(i)
    PROVE  FailsForCause(i)'
<1>1. job' = [job EXCEPT ![j].state = "waiting", ![j].user = u]
  BY DEF Add
<1>2. CASE i = j
  <2>1. job'[i].state = "waiting" /\ job'[i].failed = 0
    BY <1>1, <1>2, JobType DEF FailsForCause, QueueInv, QueueTypeOK
  <2>2. \A w \in Workers : worker[w].job # i
    BY <1>2, SlotType, QueueAssumption
  <2> QED BY <2>1, <2>2 DEF FailsForCause
<1>3. CASE i # j
  <2>1. job'[i] = job[i]
    BY <1>1, <1>3 DEF QueueInv, QueueTypeOK
  <2> QED BY <2>1 DEF FailsForCause, Gone
<1> QED BY <1>2, <1>3

\* Accounts change, and nobody comes back.
LEMMA AccountCauses ==
    ASSUME QueueInv, UNCHANGED <<job, worker, mails, faulty>>,
           \A u \in Users : ~account[u].live => ~account'[u].live,
           NEW i \in Jobs, FailsForCause(i)
    PROVE  FailsForCause(i)'
<1>1. Gone(i) => Gone(i)'
  BY JobType DEF Gone
<1> QED BY <1>1 DEF FailsForCause

\* The queue adds no job and drops none.
LEMMA QueuePresent ==
    ASSUME QueueInv, QueueNext, NEW i \in Jobs
    PROVE  /\ job'[i].state = "absent" <=> job[i].state = "absent"
           /\ account' = account
<1>1. ASSUME NEW w \in Workers, NEW j \in Jobs, Take(w, j)
      PROVE  account' = account /\ (job'[i].state = "absent" <=> job[i].state = "absent")
  BY <1>1 DEF Take, QueueInv, QueueTypeOK
<1>2. ASSUME NEW w \in Workers, CheckSent(w) \/ Send(w) \/ MarkSent(w) \/ Create(w) \/ Error(w) \/ Die(w)
      PROVE  account' = account /\ job' = job
  BY <1>2 DEF CheckSent, Send, MarkSent, Create, Error, Die
<1>3. ASSUME NEW w \in Workers, Finish(w) \/ Throw(w)
      PROVE  account' = account /\ (job'[i].state = "absent" <=> job[i].state = "absent")
  <2>1. PICK j \in Jobs : j = worker[w].job /\ job[j].state # "absent"
    BY <1>3, SlotType DEF Finish, Throw
  <2>2. CASE i = j
    <3>1. CASE Finish(w)
      BY <2>1, <2>2, <3>1 DEF Finish, QueueInv, QueueTypeOK
    <3>2. CASE Throw(w)
      BY <2>1, <2>2, <3>2 DEF Throw, QueueInv, QueueTypeOK
    <3> QED BY <1>3, <3>1, <3>2
  <2>3. CASE i # j
    BY <1>3, <2>1, <2>3 DEF Finish, Throw, QueueInv, QueueTypeOK
  <2> QED BY <2>2, <2>3
<1>4. ASSUME NEW j \in Jobs, Retry(j) \/ Stall(j)
      PROVE  account' = account /\ (job'[i].state = "absent" <=> job[i].state = "absent")
  BY <1>4 DEF Retry, Stall, QueueInv, QueueTypeOK
<1> QED BY <1>1, <1>2, <1>3, <1>4 DEF QueueNext, Work

-----------------------------------------------------------------------------
(* The steps of a request.                                                 *)

Request == [ at : { "idle", "limits", "guards", "handle", "otp", "audit" },
             n : 0 .. MaxRequests, route : Sorts,
             caller : Users \cup {NoUser}, user : Users \cup {NoUser} ]

LEMMA RequestType ==
    ASSUME RequestsInv, NEW p \in Procs
    PROVE  /\ req \in [ Procs -> Request ] /\ req[p] \in Request
           /\ Numbered(p) /\ Authorised(p)
           /\ asked \in 0 .. MaxRequests
           /\ req[p].at # "idle" => req[p].n \in 1 .. MaxRequests /\ req[p].n <= asked
  BY QueueAssumption DEF RequestsInv, Kept, TypeOK, Request, Numbered

LEMMA JobOf ==
    ASSUME NEW n \in 1 .. MaxRequests
    PROVE  /\ <<"audit_log", n>> \in Jobs /\ <<"send_otp", n>> \in Jobs
           /\ <<"audit_log", n>>[2] = n /\ <<"send_otp", n>>[2] = n
  BY DEF Jobs, Kinds

LEMMA IdleType == Idle \in Request /\ Idle.at = "idle"
  BY NoRouteIsASort, QueueAssumption DEF Idle, Request

\* A request moves on to r, and may queue a job of its own.
LEMMA MoveKept ==
    ASSUME RequestsInv, NEW p \in Procs, NEW n, n = req[p].n, req[p].at # "idle",
           NEW r \in Request, req' = [req EXCEPT ![p] = r],
           r.at # "idle" => r.n = n,
           asked' = asked, written \subseteq written', written' \subseteq written \cup {n},
           lost \subseteq lost',
           \A j \in Jobs : j[2] # n => (job'[j].state = "absent" <=> job[j].state = "absent"),
           r.at # "idle" => job'[<<"audit_log", n>>].state = "absent",
           r.at \notin { "idle", "audit" } => job'[<<"send_otp", n>>].state = "absent",
           r.at = "audit" => n \in written',
           job'[<<"audit_log", n>>].state # "absent" => n \in written',
           n \in written' => \/ job'[<<"audit_log", n>>].state # "absent" \/ n \in lost'
                             \/ r.at = "audit"
    PROVE  Kept'
<1>1. /\ req'[p] = r /\ \A q \in Procs \ {p} : req'[q] = req[q]
      /\ n \in 1 .. asked /\ n \in 1 .. MaxRequests /\ asked \in Nat
      /\ \A q \in Procs : req[q].at # "idle" /\ req[q].n = n => q = p
  BY RequestType, QueueAssumption DEF Numbered
<1>2. ASSUME NEW j \in Jobs, job'[j].state # "absent" PROVE j[2] <= asked'
  <2>1. CASE j[2] = n
    BY <1>1, <2>1
  <2>2. CASE j[2] # n
    BY <1>2, <2>2 DEF RequestsInv, Kept
  <2> QED BY <2>1, <2>2
<1>3. ASSUME NEW q \in Procs PROVE Numbered(q)'
  <2>1. CASE q = p
    BY <1>1, <2>1 DEF Numbered
  <2>2. CASE q # p /\ req[q].at # "idle"
    <3>1. PICK m \in 1 .. MaxRequests : m = req[q].n
      BY <2>2, RequestType
    <3>2. m # n /\ req'[q] = req[q] /\ Numbered(q)
      BY <1>1, <2>2, <3>1, RequestType
    <3>3. /\ <<"audit_log", m>> \in Jobs /\ <<"send_otp", m>> \in Jobs
          /\ <<"audit_log", m>>[2] # n /\ <<"send_otp", m>>[2] # n
      BY <3>2, JobOf
    <3>4. \A x \in Procs : req'[x].at # "idle" /\ req'[x].n = m => x = q
      BY <1>1, <2>2, <3>1, <3>2 DEF Numbered
    <3> QED BY <2>2, <3>1, <3>2, <3>3, <3>4 DEF Numbered
  <2>3. CASE q # p /\ req[q].at = "idle"
    BY <1>1, <2>3 DEF Numbered
  <2> QED BY <2>1, <2>2, <2>3
<1>4. ASSUME NEW m \in 1 .. MaxRequests PROVE Accounted(m)'
  <2>1. CASE m = n
    BY <1>1, <2>1 DEF Accounted
  <2>2. CASE m # n
    <3>1. <<"audit_log", m>> \in Jobs /\ <<"audit_log", m>>[2] # n
      BY <2>2, JobOf
    <3>2. job'[<<"audit_log", m>>].state = "absent" <=> job[<<"audit_log", m>>].state = "absent"
      BY <3>1
    <3>3. Accounted(m) /\ (m \in written' <=> m \in written)
      BY <2>2 DEF RequestsInv, Kept
    <3>4. ASSUME NEW q \in Procs, req[q].at = "audit", req[q].n = m
          PROVE  req'[q].at = "audit" /\ req'[q].n = m
      BY <1>1, <2>2, <3>4
    <3> QED BY <3>2, <3>3, <3>4 DEF Accounted
  <2> QED BY <2>1, <2>2
<1> QED BY <1>2, <1>3, <1>4 DEF Kept

\* A request moves on without the queue: its handler may have succeeded.
LEMMA StepKept ==
    ASSUME RequestsInv, NEW p \in Procs, req[p].at \notin { "idle", "audit" },
           NEW r \in Request, req' = [req EXCEPT ![p] = r],
           r.at # "idle" => r.n = req[p].n,
           written' = IF r.at = "audit" THEN written \cup {req[p].n} ELSE written,
           UNCHANGED <<job, asked, lost>>
    PROVE  Kept'
<1>1. PICK n \in 1 .. MaxRequests : n = req[p].n
  BY RequestType
<1>2. /\ Numbered(p) /\ Accounted(n)
      /\ \A q \in Procs : req[q].at # "idle" /\ req[q].n = n => q = p
  BY <1>1, RequestType DEF RequestsInv, Kept, Numbered
<1>3. /\ job[<<"audit_log", n>>].state = "absent" /\ job[<<"send_otp", n>>].state = "absent"
  BY <1>1, <1>2 DEF Numbered
<1>4. n \in written => n \in lost
  BY <1>2, <1>3 DEF Accounted
<1> QED BY <1>1, <1>3, <1>4, MoveKept

\* A caller who was let through stays so, or is known to have been changed.
LEMMA StaysAuthorised ==
    ASSUME RequestsInv, NEW p \in Procs, NEW r \in Request, req' = [req EXCEPT ![p] = r],
           r.at # "handle",
           \A q \in Procs : q # p /\ req[q].at = "handle" =>
             /\ changed[q] \subseteq changed'[q]
             /\ \A u \in Users : account'[u] = account[u] \/ u \in changed'[q],
           NEW q \in Procs
    PROVE  Authorised(q)'
<1>1. req'[p] = r /\ (q # p => req'[q] = req[q])
  BY RequestType
<1>2. CASE q = p
  BY <1>1, <1>2 DEF Authorised
<1>3. CASE q # p /\ req[q].at = "handle" /\ req[q].route.guard = "jwt"
  <2>1. PICK u, s : u = req[q].user /\ s = req[q].route
    OBVIOUS
  <2>2. req'[q].user = u /\ req'[q].route = s /\ u \in Users
    BY <1>1, <1>3, <2>1, RequestType DEF Authorised, Request
  <2>3. u \in changed[q] \/ (Valid(u) /\ Permitted(s, u))
    BY <1>3, <2>1, RequestType DEF Authorised
  <2>4. u \in changed'[q] \/ (Valid(u) /\ Permitted(s, u))'
    BY <1>3, <2>2, <2>3 DEF Valid, Permitted
  <2>5. u # NoUser
    BY <2>2, QueueAssumption
  <2> QED BY <1>3, <2>2, <2>4, <2>5 DEF Authorised
<1>4. CASE q # p /\ ~(req[q].at = "handle" /\ req[q].route.guard = "jwt")
  BY <1>1, <1>4 DEF Authorised
<1> QED BY <1>2, <1>3, <1>4

LEMMA Moves ==
    ASSUME RequestsInv, NEW p \in Procs, req[p].at # "idle", NEW to \in { "guards", "otp", "audit" },
           Goto(p, to) \/ Answer(p)
    PROVE  \E r \in Request :
             /\ req' = [req EXCEPT ![p] = r]
             /\ r.at # "idle" => r.n = req[p].n
             /\ (Goto(p, to) /\ r.at = to) \/ (Answer(p) /\ r = Idle)
<1>1. CASE Goto(p, to)
  <2> DEFINE r == [req[p] EXCEPT !.at = to]
  <2>1. r \in Request /\ r.at = to /\ r.n = req[p].n
    BY RequestType DEF Request
  <2>2. req' = [req EXCEPT ![p] = r]
    BY <1>1 DEF Goto
  <2> HIDE DEF r
  <2> QED BY <1>1, <2>1, <2>2
<1>2. CASE Answer(p)
  BY <1>2, IdleType DEF Answer
<1> QED BY <1>1, <1>2

LEMMA Succeeds ==
    ASSUME RequestsInv, NEW p \in Procs, req[p].at # "idle", Succeed(p)
    PROVE  \E r \in Request :
             /\ req' = [req EXCEPT ![p] = r]
             /\ r.at \in { "idle", "audit" }
             /\ r.at # "idle" => r.n = req[p].n
             /\ written' = IF r.at = "audit" THEN written \cup {req[p].n} ELSE written
<1>1. PICK r \in Request :
        /\ req' = [req EXCEPT ![p] = r]
        /\ r.at # "idle" => r.n = req[p].n
        /\ (Goto(p, "audit") /\ r.at = "audit") \/ (Answer(p) /\ r = Idle)
  BY Moves DEF Succeed
<1>2. req'[p] = r
  BY <1>1, RequestType
<1>3. r.at = "audit" <=> req[p].route.audited
  <2>1. CASE req[p].route.audited
    <3>1. req'[p].at = "audit"
      BY <2>1, RequestType DEF Succeed, Goto, Request
    <3> QED BY <1>2, <2>1, <3>1
  <2>2. CASE ~req[p].route.audited
    <3>1. req'[p] = Idle
      BY <2>2, RequestType DEF Succeed, Answer
    <3> QED BY <1>2, <2>2, <3>1, IdleType
  <2> QED BY <2>1, <2>2
<1> QED BY <1>1, <1>3, IdleType DEF Succeed

LEMMA StepType ==
    ASSUME RequestsInv, QueueInv', NEW p \in Procs, NEW r \in Request,
           req' = [req EXCEPT ![p] = r], claims' = claims, asked' \in 0 .. MaxRequests,
           written \subseteq written', written' \subseteq written \cup 1 .. MaxRequests,
           lost' \subseteq written', changed' \in [ Procs -> SUBSET Users ]
    PROVE  TypeOK'
<1>1. req' \in [ Procs -> Request ]
  BY RequestType
<1> QED BY <1>1 DEF TypeOK, RequestsInv, QueueInv, Request

\* A request moves on, and nothing but its record is touched.
LEMMA QuietKeeps ==
    ASSUME RequestsInv, NEW p \in Procs, req[p].at \notin { "idle", "audit" },
           NEW r \in Request, req' = [req EXCEPT ![p] = r],
           r.at # "idle" => r.n = req[p].n, r.at # "handle",
           written' = IF r.at = "audit" THEN written \cup {req[p].n} ELSE written,
           UNCHANGED <<queueVars, claims, asked, lost, changed>>
    PROVE  RequestsInv'
<1>1. UNCHANGED <<account, job, worker, marked, mails, logged, faults, faulty, shared>>
  BY DEF queueVars, queue
<1>2. QueueInv'
  BY <1>1 DEF RequestsInv, QueueInv, QueueTypeOK, JobFits, SlotFits, Unfaulted, Delivered
<1>3. \A j \in Jobs : FailsForCause(j)'
  BY <1>1 DEF RequestsInv, FailsForCause, Gone
<1>4. TypeOK'
  <2>1. req[p].n \in 1 .. MaxRequests
    BY RequestType
  <2>2. /\ changed' \in [ Procs -> SUBSET Users ] /\ lost' \subseteq written
        /\ asked' \in 0 .. MaxRequests
    BY DEF RequestsInv, TypeOK
  <2> QED BY <1>2, <2>1, <2>2, StepType
<1>5. Kept'
  BY <1>1, StepKept
<1>6. \A q \in Procs : Authorised(q)'
  BY <1>1, StaysAuthorised
<1> QED BY <1>2, <1>3, <1>4, <1>5, <1>6 DEF RequestsInv

LEMMA PassingKeeps ==
    ASSUME RequestsInv, NEW p \in Procs,
           Limit(p) \/ Refuse(p) \/ HandleOther(p) \/ HandleOtp(p)
    PROVE  RequestsInv'
<1>1. CASE Limit(p)
  <2>1. PICK r \in Request :
          /\ req' = [req EXCEPT ![p] = r] /\ (r.at # "idle" => r.n = req[p].n)
          /\ r.at \in { "guards", "idle" }
    BY <1>1, Moves, IdleType DEF Limit
  <2> QED BY <1>1, <2>1, QuietKeeps DEF Limit, Others
<1>2. CASE Refuse(p)
  <2>1. req' = [req EXCEPT ![p] = Idle]
    BY <1>2 DEF Refuse, Answer
  <2> QED BY <1>2, <2>1, IdleType, QuietKeeps DEF Refuse, Others
<1>3. ASSUME req[p].at = "handle", Succeed(p), UNCHANGED <<queueVars, claims, asked, lost, changed>>
      PROVE  RequestsInv'
  <2>1. PICK r \in Request :
          /\ req' = [req EXCEPT ![p] = r] /\ r.at \in { "idle", "audit" }
          /\ r.at # "idle" => r.n = req[p].n
          /\ written' = IF r.at = "audit" THEN written \cup {req[p].n} ELSE written
    BY <1>3, Succeeds
  <2> QED BY <1>3, <2>1, QuietKeeps
<1>4. ASSUME req[p].at = "handle", Goto(p, "otp"), UNCHANGED written,
             UNCHANGED <<queueVars, claims, asked, lost, changed>>
      PROVE  RequestsInv'
  <2> DEFINE r == [req[p] EXCEPT !.at = "otp"]
  <2>1. r \in Request /\ r.at = "otp" /\ r.n = req[p].n
    BY RequestType DEF Request
  <2>2. req' = [req EXCEPT ![p] = r]
    BY <1>4 DEF Goto
  <2> HIDE DEF r
  <2> QED BY <1>4, <2>1, <2>2, QuietKeeps
<1> QED BY <1>1, <1>2, <1>3, <1>4 DEF HandleOther, HandleOtp

\* The guards: who is let through may do what he asks.
LEMMA GuardsKeep ==
    ASSUME RequestsInv, NEW p \in Procs, Guards(p) PROVE RequestsInv'
<1>1. PICK g, u : g = req[p].route /\ u = req[p].caller
  OBVIOUS
<1>2. /\ req[p].at = "guards" /\ changed' = [changed EXCEPT ![p] = {}]
      /\ UNCHANGED <<account, job, worker, marked, mails, logged, faults, faulty, shared>>
      /\ UNCHANGED <<claims, asked, written, lost>>
  BY DEF Guards, queueVars, queue
<1>3. PICK r \in Request :
        /\ req' = [req EXCEPT ![p] = r] /\ r.at # "audit"
        /\ r.at # "idle" => r.n = req[p].n /\ r.route = g
        /\ r.at = "handle" /\ g.guard = "jwt" => Valid(r.user) /\ Permitted(g, r.user)
  <2>1. CASE g.guard = "jwt" /\ Valid(u) /\ Permitted(g, u)
    <3> DEFINE r == [req[p] EXCEPT !.at = "handle", !.user = u]
    <3>1. /\ r \in Request /\ r.at = "handle" /\ r.n = req[p].n /\ r.route = g /\ r.user = u
      BY <1>1, RequestType DEF Request
    <3>2. req' = [req EXCEPT ![p] = r]
      BY <1>1, <2>1 DEF Guards
    <3> QED BY <2>1, <3>1, <3>2
  <2>2. CASE g.guard = "jwt" /\ ~(Valid(u) /\ Permitted(g, u))
    <3>1. req' = [req EXCEPT ![p] = Idle]
      BY <1>1, <2>2 DEF Guards, Answer
    <3> QED BY <3>1, IdleType
  <2>3. CASE g.guard # "jwt"
    <3>1. PICK v \in Users \cup {NoUser} : req' = [req EXCEPT ![p].at = "handle", ![p].user = v]
      BY <1>1, <2>3, RequestType DEF Guards, Request
    <3> DEFINE r == [req[p] EXCEPT !.at = "handle", !.user = v]
    <3>2. /\ r \in Request /\ r.at = "handle" /\ r.n = req[p].n /\ r.route = g
      BY <1>1, RequestType DEF Request
    <3>3. req' = [req EXCEPT ![p] = r]
      BY <3>1
    <3> QED BY <2>3, <3>2, <3>3
  <2> QED BY <2>1, <2>2, <2>3
<1>4. QueueInv'
  BY <1>2 DEF RequestsInv, QueueInv, QueueTypeOK, JobFits, SlotFits, Unfaulted, Delivered
<1>5. \A j \in Jobs : FailsForCause(j)'
  BY <1>2 DEF RequestsInv, FailsForCause, Gone
<1>6. TypeOK'
  <2>1. changed' \in [ Procs -> SUBSET Users ] /\ lost' \subseteq written /\ asked' \in 0 .. MaxRequests
    BY <1>2 DEF RequestsInv, TypeOK
  <2> QED BY <1>2, <1>3, <1>4, <2>1, StepType
<1>7. Kept'
  BY <1>2, <1>3, StepKept
<1>8. ASSUME NEW q \in Procs PROVE Authorised(q)'
  <2>1. req'[p] = r /\ (q # p => req'[q] = req[q] /\ changed'[q] = changed[q])
    BY <1>2, <1>3, RequestType DEF RequestsInv, TypeOK
  <2>2. CASE q # p
    <3>1. Authorised(q)
      BY RequestType
    <3> QED BY <1>2, <2>1, <2>2, <3>1 DEF Authorised, Valid, Permitted
  <2>3. CASE q = p /\ r.at = "handle" /\ g.guard = "jwt"
    <3>1. PICK v : v = r.user
      OBVIOUS
    <3>2. Valid(v) /\ Permitted(g, v)
      BY <1>3, <2>3, <3>1
    <3>3. v # NoUser /\ Valid(v)' /\ Permitted(g, v)'
      BY <1>2, <3>2 DEF Valid, Permitted
    <3> QED BY <1>3, <2>1, <2>3, <3>1, <3>3 DEF Authorised
  <2>4. CASE q = p /\ ~(r.at = "handle" /\ g.guard = "jwt")
    BY <1>3, <2>1, <2>4, IdleType DEF Authorised
  <2> QED BY <2>2, <2>3, <2>4
<1> QED BY <1>4, <1>5, <1>6, <1>7, <1>8 DEF RequestsInv

\* A job of a request is queued.
LEMMA AddsOwnJob ==
    ASSUME RequestsInv, NEW p \in Procs, req[p].at # "idle", NEW n, n = req[p].n,
           NEW k \in Kinds, k = "send_otp" => req[p].at # "audit",
           NEW u \in Users \cup {NoUser}, Add(<<k, n>>, u),
           UNCHANGED <<account, worker, marked, mails, logged, faults, faulty, shared>>
    PROVE  /\ n \in 1 .. MaxRequests /\ <<k, n>> \in Jobs
           /\ job'[<<k, n>>].state = "waiting"
           /\ \A j \in Jobs \ {<<k, n>>} : job'[j] = job[j]
           /\ QueueInv'
           /\ \A j \in Jobs : FailsForCause(j)'
<1>1. n \in 1 .. MaxRequests
  BY RequestType
<1>2. <<k, n>> \in Jobs
  BY <1>1 DEF Jobs
<1>3. job[<<k, n>>].state = "absent"
  BY RequestType DEF Numbered, Kinds
<1>4. QueueInv /\ \A j \in Jobs : FailsForCause(j)
  BY DEF RequestsInv
<1>5. /\ job'[<<k, n>>].state = "waiting"
      /\ \A j \in Jobs \ {<<k, n>>} : job'[j] = job[j]
  BY <1>2, <1>4, JobType DEF Add, QueueInv, QueueTypeOK
<1> QED BY <1>1, <1>2, <1>3, <1>4, <1>5, AddKeeps, AddCauses

LEMMA EnqueueOtpKeeps ==
    ASSUME RequestsInv, NEW p \in Procs, EnqueueOtp(p) PROVE RequestsInv'
<1>1. PICK n : n = req[p].n
  OBVIOUS
<1>2. /\ req[p].at = "otp" /\ Add(<<"send_otp", n>>, NoUser) /\ Succeed(p)
      /\ UNCHANGED <<account, worker, marked, mails, logged, faults, faulty, shared, claims, asked, lost, changed>>
  BY <1>1 DEF EnqueueOtp
<1>3. PICK r \in Request :
        /\ req' = [req EXCEPT ![p] = r] /\ r.at \in { "idle", "audit" }
        /\ r.at # "idle" => r.n = n
        /\ written' = IF r.at = "audit" THEN written \cup {n} ELSE written
  BY <1>1, <1>2, Succeeds
<1>4. /\ n \in 1 .. MaxRequests /\ <<"send_otp", n>> \in Jobs
      /\ \A j \in Jobs \ {<<"send_otp", n>>} : job'[j] = job[j]
      /\ QueueInv' /\ \A j \in Jobs : FailsForCause(j)'
  BY <1>1, <1>2, AddsOwnJob DEF Kinds
<1>5. TypeOK'
  <2>1. changed' \in [ Procs -> SUBSET Users ] /\ lost' \subseteq written /\ asked' \in 0 .. MaxRequests
    BY <1>2 DEF RequestsInv, TypeOK
  <2> QED BY <1>2, <1>3, <1>4, <2>1, StepType
<1>6. Kept'
  <2>1. /\ Numbered(p) /\ Accounted(n)
        /\ \A q \in Procs : req[q].at # "idle" /\ req[q].n = n => q = p
    BY <1>1, <1>2, <1>4, RequestType DEF RequestsInv, Kept, Numbered
  <2>2. job[<<"audit_log", n>>].state = "absent"
    BY <1>1, <1>2, <2>1 DEF Numbered
  <2>3. <<"audit_log", n>> \in Jobs /\ <<"audit_log", n>> # <<"send_otp", n>>
    BY <1>4, JobOf
  <2>4. job'[<<"audit_log", n>>].state = "absent"
    BY <1>4, <2>2, <2>3
  <2>5. n \in written => n \in lost
    BY <1>2, <2>1, <2>2 DEF Accounted
  <2>6. \A j \in Jobs : j[2] # n => (job'[j].state = "absent" <=> job[j].state = "absent")
    <3>1. \A j \in Jobs : j[2] # n => j # <<"send_otp", n>>
      BY <1>4, JobOf
    <3> QED BY <1>4, <3>1
  <2>7. /\ asked' = asked /\ written \subseteq written' /\ written' \subseteq written \cup {n}
        /\ lost \subseteq lost' /\ req[p].at # "idle" /\ r.at \in { "idle", "audit" }
        /\ r.at = "audit" => n \in written'
        /\ n \in written' => n \in lost' \/ r.at = "audit"
    BY <1>2, <1>3, <2>5
  <2> QED BY <1>1, <1>3, <2>4, <2>6, <2>7, MoveKept
<1>7. \A q \in Procs : Authorised(q)'
  BY <1>2, <1>3, StaysAuthorised
<1> QED BY <1>4, <1>5, <1>6, <1>7 DEF RequestsInv

LEMMA AuditKeeps ==
    ASSUME RequestsInv, NEW p \in Procs, Audit(p) PROVE RequestsInv'
<1>1. PICK n, u : n = req[p].n /\ u = req[p].user
  OBVIOUS
<1>2. /\ req[p].at = "audit" /\ Add(<<"audit_log", n>>, u) /\ req' = [req EXCEPT ![p] = Idle]
      /\ UNCHANGED <<account, worker, marked, mails, logged, faults, faulty, shared>>
      /\ UNCHANGED <<claims, asked, written, lost, changed>>
      /\ u \in Users \cup {NoUser}
  BY <1>1, RequestType DEF Audit, Answer, Others, Request
<1>3. /\ n \in 1 .. MaxRequests /\ <<"audit_log", n>> \in Jobs
      /\ job'[<<"audit_log", n>>].state = "waiting"
      /\ \A j \in Jobs \ {<<"audit_log", n>>} : job'[j] = job[j]
      /\ QueueInv' /\ \A j \in Jobs : FailsForCause(j)'
  BY <1>1, <1>2, AddsOwnJob DEF Kinds
<1>4. TypeOK'
  <2>1. changed' \in [ Procs -> SUBSET Users ] /\ lost' \subseteq written /\ asked' \in 0 .. MaxRequests
    BY <1>2 DEF RequestsInv, TypeOK
  <2> QED BY <1>2, <1>3, <2>1, IdleType, StepType
<1>5. Kept'
  <2>1. n \in written
    BY <1>1, <1>2, RequestType DEF Numbered
  <2>2. \A j \in Jobs : j[2] # n => (job'[j].state = "absent" <=> job[j].state = "absent")
    <3>1. \A j \in Jobs : j[2] # n => j # <<"audit_log", n>>
      BY <1>3, JobOf
    <3> QED BY <1>3, <3>1
  <2>3. /\ asked' = asked /\ written' = written /\ lost' = lost
        /\ req[p].at # "idle" /\ Idle.at = "idle" /\ Idle \in Request
    BY <1>2, IdleType
  <2>4. job'[<<"audit_log", n>>].state # "absent"
    BY <1>3
  <2> QED BY <1>1, <1>2, <2>1, <2>2, <2>3, <2>4, MoveKept
<1>6. \A q \in Procs : Authorised(q)'
  BY <1>2, IdleType, StaysAuthorised
<1> QED BY <1>3, <1>4, <1>5, <1>6 DEF RequestsInv

\* The job is not queued: the write is known to be lost to the audit.
LEMMA AuditFailsKeeps ==
    ASSUME RequestsInv, NEW p \in Procs, AuditFails(p) PROVE RequestsInv'
<1>1. PICK n \in 1 .. MaxRequests : n = req[p].n
  BY RequestType DEF AuditFails
<1>2. /\ req[p].at = "audit" /\ req' = [req EXCEPT ![p] = Idle]
      /\ lost' = IF n \in written THEN lost \cup {n} ELSE lost
      /\ UNCHANGED <<account, job, worker, marked, mails, logged, faults, faulty, shared>>
      /\ UNCHANGED <<claims, asked, written, changed>>
  BY <1>1 DEF AuditFails, Answer, queueVars, queue
<1>3. n \in written /\ job[<<"audit_log", n>>].state = "absent"
  BY <1>1, <1>2, RequestType DEF Numbered
<1>4. QueueInv'
  BY <1>2 DEF RequestsInv, QueueInv, QueueTypeOK, JobFits, SlotFits, Unfaulted, Delivered
<1>5. \A j \in Jobs : FailsForCause(j)'
  BY <1>2 DEF RequestsInv, FailsForCause, Gone
<1>6. TypeOK'
  <2>1. changed' \in [ Procs -> SUBSET Users ] /\ lost' \subseteq written /\ asked' \in 0 .. MaxRequests
    BY <1>2, <1>3 DEF RequestsInv, TypeOK
  <2> QED BY <1>2, <1>4, <2>1, IdleType, StepType
<1>7. Kept'
  BY <1>1, <1>2, <1>3, IdleType, MoveKept
<1>8. \A q \in Procs : Authorised(q)'
  BY <1>2, IdleType, StaysAuthorised
<1> QED BY <1>4, <1>5, <1>6, <1>7, <1>8 DEF RequestsInv

\* The accounts.
Account == [ live : BOOLEAN, role : Roles, blocked : BOOLEAN ]

LEMMA ChangeType ==
    ASSUME NEW old \in Account, NEW e, NEW a \in Change(e, old)
    PROVE  a \in Account /\ a.live = old.live /\ e \in { "role", "block", "unblock", "update" }
  BY RequestsAssumption DEF Change, Account

\* A handler has changed an account, and everyone is told.
LEMMA TellsKeep ==
    ASSUME RequestsInv, NEW p \in Procs, req[p].at = "handle", NEW t \in Users, Succeed(p),
           QueueInv', \A j \in Jobs : FailsForCause(j)',
           \A u \in Users \ {t} : account'[u] = account[u],
           changed' = [ q \in Procs |-> IF req'[q].at = "handle" THEN changed[q] \cup {t} ELSE {} ],
           UNCHANGED <<job, claims, asked, lost>>
    PROVE  RequestsInv'
<1>1. PICK r \in Request :
        /\ req' = [req EXCEPT ![p] = r] /\ r.at \in { "idle", "audit" }
        /\ r.at # "idle" => r.n = req[p].n
        /\ written' = IF r.at = "audit" THEN written \cup {req[p].n} ELSE written
  BY Succeeds
<1>2. changed \in [ Procs -> SUBSET Users ] /\ lost' \subseteq written /\ asked' \in 0 .. MaxRequests
  BY DEF RequestsInv, TypeOK
<1>3. changed' \in [ Procs -> SUBSET Users ]
  BY <1>2
<1>4. TypeOK'
  <2>1. req[p].n \in 1 .. MaxRequests
    BY RequestType
  <2> QED BY <1>1, <1>2, <1>3, <2>1, StepType
<1>5. Kept'
  BY <1>1, StepKept
<1>6. ASSUME NEW q \in Procs, q # p, req[q].at = "handle"
      PROVE  changed[q] \subseteq changed'[q] /\ t \in changed'[q]
  <2>1. req'[q] = req[q]
    BY <1>1, <1>6, RequestType
  <2> QED BY <1>6, <2>1
<1>7. \A q \in Procs : Authorised(q)'
  BY <1>1, <1>6, StaysAuthorised
<1> QED BY <1>4, <1>5, <1>7 DEF RequestsInv

LEMMA HandleKeeps ==
    ASSUME RequestsInv, NEW p \in Procs, NEW t \in Users,
           NEW a \in Change(req[p].route.effect, account[t]), Handle(p, t, a)
    PROVE  RequestsInv'
<1>1. account \in [ Users -> Account ]
  BY DEF RequestsInv, QueueInv, QueueTypeOK, Account
<1>2. a \in Account /\ a.live = account[t].live
  BY <1>1, ChangeType
<1>3. account' = [account EXCEPT ![t] = a] /\ UNCHANGED <<queue, faulty, shared, claims, asked, lost>>
  BY DEF Handle
<1>4. UNCHANGED <<job, worker, marked, mails, logged, faults>>
  BY <1>3 DEF queue
<1>5. /\ account' \in [ Users -> Account ]
      /\ \A u \in Users : ~account[u].live => ~account'[u].live
      /\ \A u \in Users \ {t} : account'[u] = account[u]
  BY <1>1, <1>2, <1>3
<1>6. QueueInv'
  BY <1>3, <1>5, AccountKeeps DEF RequestsInv, Account
<1>7. \A j \in Jobs : FailsForCause(j)'
  BY <1>3, <1>4, <1>5, AccountCauses DEF RequestsInv
<1> QED BY <1>3, <1>4, <1>5, <1>6, <1>7, TellsKeep DEF Handle

LEMMA HandleDeleteKeeps ==
    ASSUME RequestsInv, NEW p \in Procs, NEW t \in Users, HandleDelete(p, t) PROVE RequestsInv'
<1>1. account \in [ Users -> Account ]
  BY DEF RequestsInv, QueueInv, QueueTypeOK, Account
<1>2. /\ RowsGo(t)
      /\ UNCHANGED <<job, worker, marked, mails, faults, faulty, shared, claims, asked, lost>>
  BY DEF HandleDelete
<1>3. /\ \A u \in Users : ~account[u].live => ~account'[u].live
      /\ \A u \in Users \ {t} : account'[u] = account[u]
  BY <1>1, <1>2 DEF RowsGo
<1>4. QueueInv'
  BY <1>2, RowsGoKeeps DEF RequestsInv
<1>5. \A j \in Jobs : FailsForCause(j)'
  BY <1>2, <1>3, AccountCauses DEF RequestsInv
<1> QED BY <1>2, <1>3, <1>4, <1>5, TellsKeep DEF HandleDelete

\* A new request has a number of its own.
LEMMA ArriveKeeps ==
    ASSUME RequestsInv, NEW p \in Procs, NEW s \in Sorts, NEW u \in Users \cup {NoUser}, Arrive(p, s, u)
    PROVE  RequestsInv'
<1> DEFINE r == [Idle EXCEPT !.at = IF s.limited THEN "limits" ELSE "guards",
                             !.n = asked + 1, !.route = s, !.caller = u]
<1>1. /\ req[p].at = "idle" /\ asked < MaxRequests /\ asked' = asked + 1
      /\ req' = [req EXCEPT ![p] = r]
      /\ UNCHANGED <<account, job, worker, marked, mails, logged, faults, faulty, shared>>
      /\ UNCHANGED <<claims, written, lost, changed>>
  BY DEF Arrive, queueVars, queue
<1>2. asked \in Nat /\ asked + 1 \in 1 .. MaxRequests
  BY <1>1, RequestType, QueueAssumption
<1>3. /\ r \in Request /\ r.at \in { "limits", "guards" } /\ r.n = asked + 1
  <2>1. PICK at \in { "limits", "guards" } : at = IF s.limited THEN "limits" ELSE "guards"
    OBVIOUS
  <2>2. r = [Idle EXCEPT !.at = at, !.n = asked + 1, !.route = s, !.caller = u]
    BY <2>1
  <2>3. asked + 1 \in 0 .. MaxRequests
    BY <1>2
  <2> HIDE DEF r
  <2> QED BY <2>2, <2>3, IdleType DEF Request
<1> HIDE DEF r
<1>4. req'[p] = r /\ \A q \in Procs \ {p} : req'[q] = req[q]
  BY <1>1, RequestType
<1>5. QueueInv'
  BY <1>1 DEF RequestsInv, QueueInv, QueueTypeOK, JobFits, SlotFits, Unfaulted, Delivered
<1>6. \A j \in Jobs : FailsForCause(j)'
  BY <1>1 DEF RequestsInv, FailsForCause, Gone
<1>7. TypeOK'
  <2>1. /\ changed' \in [ Procs -> SUBSET Users ] /\ lost' \subseteq written
        /\ asked' \in 0 .. MaxRequests
    BY <1>1, <1>2 DEF RequestsInv, TypeOK
  <2> QED BY <1>1, <1>3, <1>5, <2>1, StepType
<1>8. Kept'
  <2>1. ASSUME NEW j \in Jobs, job[j].state # "absent" PROVE j[2] <= asked /\ j[2] # asked + 1
    <3>1. j[2] <= asked
      BY <2>1 DEF RequestsInv, Kept
    <3> QED BY <1>2, <3>1
  <2>2. \A j \in Jobs : job'[j].state # "absent" => j[2] <= asked'
    <3>1. \A j \in Jobs : j[2] \in Nat
      BY DEF Jobs
    <3> QED BY <1>1, <1>2, <2>1, <3>1
  <2>3. ASSUME NEW q \in Procs PROVE Numbered(q)'
    <3>1. ASSUME NEW x \in Procs, x # p, req[x].at # "idle"
          PROVE  req[x].n \in 1 .. asked /\ req[x].n # asked + 1
      BY <1>2, <3>1, RequestType
    <3>2. CASE q = p
      <4>1. PICK m : m = asked + 1
        OBVIOUS
      <4>2. m \in 1 .. MaxRequests /\ m \in 1 .. asked' /\ req'[q].n = m
        BY <1>1, <1>2, <1>3, <1>4, <3>2, <4>1
      <4>3. job'[<<"audit_log", m>>].state = "absent" /\ job'[<<"send_otp", m>>].state = "absent"
        BY <1>1, <2>1, <4>1, <4>2, JobOf
      <4>4. \A x \in Procs : req'[x].at # "idle" /\ req'[x].n = m => x = q
        BY <1>4, <3>1, <3>2, <4>1
      <4> QED BY <1>3, <1>4, <3>2, <4>2, <4>3, <4>4 DEF Numbered
    <3>3. CASE q # p /\ req[q].at # "idle"
      <4>1. PICK m : m = req[q].n
        OBVIOUS
      <4>2. m \in 1 .. asked /\ m \in 1 .. asked' /\ m # asked + 1
        BY <1>1, <1>2, <3>1, <3>3, <4>1
      <4>3. \A x \in Procs : req'[x].at # "idle" /\ req'[x].n = m => x = q
        <5>1. \A x \in Procs : req[x].at # "idle" /\ req[x].n = m => x = q
          BY <3>3, <4>1, RequestType DEF Numbered
        <5>2. req'[p].n # m
          BY <1>3, <1>4, <4>2
        <5> QED BY <1>4, <5>1, <5>2
      <4> QED BY <1>1, <1>4, <3>3, <4>1, <4>2, <4>3, RequestType DEF Numbered
    <3>4. CASE q # p /\ req[q].at = "idle"
      BY <1>4, <3>4 DEF Numbered
    <3> QED BY <3>2, <3>3, <3>4
  <2>4. ASSUME NEW n \in 1 .. MaxRequests PROVE Accounted(n)'
    <3>1. Accounted(n)
      BY DEF RequestsInv, Kept
    <3>2. ASSUME NEW q \in Procs, req[q].at = "audit", req[q].n = n
          PROVE  req'[q].at = "audit" /\ req'[q].n = n
      BY <1>1, <1>4, <3>2
    <3> QED BY <1>1, <3>1, <3>2 DEF Accounted
  <2> QED BY <2>2, <2>3, <2>4 DEF Kept
<1>9. \A q \in Procs : Authorised(q)'
  BY <1>1, <1>3, StaysAuthorised
<1> QED BY <1>5, <1>6, <1>7, <1>8, <1>9 DEF RequestsInv

\* The queue works while the requests stand.
LEMMA QueueKeeps ==
    ASSUME RequestsInv, QueueNext, UNCHANGED requestVars PROVE RequestsInv'
<1>1. UNCHANGED <<claims, req, asked, written, lost, changed>>
  BY DEF requestVars
<1>2. QueueInv /\ \A j \in Jobs : FailsForCause(j)
  BY DEF RequestsInv
<1>3. QueueInv'
  BY <1>2, NextInv DEF QueueSystemNext
<1>4. \A i \in Jobs : FailsForCause(i)'
  BY <1>2, SlotCauses, RetryCauses DEF QueueNext
<1>5. \A j \in Jobs : job'[j].state = "absent" <=> job[j].state = "absent"
  BY <1>2, QueuePresent
<1>6. account' = account
  <2>1. ASSUME NEW w \in Workers, Work(w) \/ Error(w) \/ Die(w) PROVE account' = account
    BY <2>1 DEF Work, Take, CheckSent, Send, MarkSent, Create, Finish, Throw, Error, Die
  <2>2. ASSUME NEW j \in Jobs, Retry(j) \/ Stall(j) PROVE account' = account
    BY <2>2 DEF Retry, Stall
  <2> QED BY <2>1, <2>2 DEF QueueNext
<1>7. TypeOK'
  BY <1>1, <1>3 DEF RequestsInv, TypeOK, QueueInv
<1>8. Kept'
  <2>1. ASSUME NEW p \in Procs PROVE Numbered(p)'
    <3>1. CASE req[p].at = "idle"
      BY <1>1, <3>1 DEF Numbered
    <3>2. CASE req[p].at # "idle"
      <4>1. PICK n \in 1 .. MaxRequests : n = req[p].n
        BY <3>2, RequestType
      <4>2. /\ job'[<<"audit_log", n>>].state = "absent" <=> job[<<"audit_log", n>>].state = "absent"
            /\ job'[<<"send_otp", n>>].state = "absent" <=> job[<<"send_otp", n>>].state = "absent"
        BY <1>5, JobOf
      <4> QED BY <1>1, <3>2, <4>1, <4>2, RequestType DEF Numbered
    <3> QED BY <3>1, <3>2
  <2>2. ASSUME NEW n \in 1 .. MaxRequests PROVE Accounted(n)'
    <3>1. job'[<<"audit_log", n>>].state = "absent" <=> job[<<"audit_log", n>>].state = "absent"
      BY <1>5, JobOf
    <3>2. Accounted(n)
      BY DEF RequestsInv, Kept
    <3> QED BY <1>1, <3>1, <3>2 DEF Accounted
  <2> QED BY <1>1, <1>5, <2>1, <2>2 DEF RequestsInv, Kept
<1>9. \A p \in Procs : Authorised(p)'
  BY <1>1, <1>6 DEF RequestsInv, Authorised, Valid, Permitted
<1> QED BY <1>3, <1>4, <1>7, <1>8, <1>9 DEF RequestsInv

LEMMA RequestsInitInv == Init => RequestsInv
<1> SUFFICES ASSUME Init PROVE RequestsInv
  OBVIOUS
<1>1. /\ QueueInit /\ req = [ p \in Procs |-> Idle ] /\ asked = 0 /\ written = {} /\ lost = {}
      /\ account \in [ Users -> Account ] /\ claims \in [ Users -> Roles ]
      /\ changed = [ p \in Procs |-> {} ]
  BY DEF Init, Account
<1>2. /\ NewJob \in [ state : Pending \cup { "absent", "failed", "done" },
                      user : Users \cup {NoUser}, failed : 0 .. Attempts,
                      stalls : 0 .. MaxStalls + 1, by : Workers \cup {NoWorker} ]
      /\ NewJob.state = "absent" /\ NewJob.by = NoWorker
      /\ NewJob.failed = 0 /\ NewJob.stalls = 0
  BY QueueAssumption DEF NewJob, Pending
<1>3. Rest \in Slot /\ Rest.at = "idle" /\ Rest.job = NoJob /\ NoJob \notin Jobs
  BY QueueAssumption DEF Rest, Slot, Places
<1>4. QueueTypeOK
  BY <1>1, <1>2, <1>3, QueueAssumption DEF QueueInit, QueueTypeOK, Account, Slot, Places
<1>5. QueueInv
  <2>1. \A j \in Jobs : JobFits(j)
    BY <1>1, <1>2, QueueAssumption DEF QueueInit, JobFits, Pending
  <2>2. \A w \in Workers : SlotFits(w)
    BY <1>1, <1>3 DEF QueueInit, SlotFits
  <2>3. \A j \in Jobs : Unfaulted(j)
    BY <1>1, <1>2, <1>3 DEF QueueInit, Unfaulted
  <2> QED BY <1>1, <1>2, <1>3, <1>4, <2>1, <2>2, <2>3 DEF QueueInit, QueueInv
<1>6. \A j \in Jobs : FailsForCause(j)
  BY <1>1, <1>2, <1>3 DEF QueueInit, FailsForCause
<1>7. TypeOK
  BY <1>1, <1>4, IdleType, QueueAssumption DEF TypeOK, Request
<1>8. Kept
  BY <1>1, <1>2, IdleType, JobOf DEF QueueInit, Kept, Numbered, Accounted
<1>9. \A p \in Procs : Authorised(p)
  BY <1>1, IdleType DEF Authorised
<1> QED BY <1>5, <1>6, <1>7, <1>8, <1>9 DEF RequestsInv

LEMMA RequestsNextInv == RequestsInv /\ [Next]_vars => RequestsInv'
<1> SUFFICES ASSUME RequestsInv, [Next]_vars PROVE RequestsInv'
  OBVIOUS
<1>1. ASSUME NEW p \in Procs, NEW s \in Sorts, NEW u \in Users \cup {NoUser}, Arrive(p, s, u)
      PROVE  RequestsInv'
  BY <1>1, ArriveKeeps
<1>2. ASSUME NEW p \in Procs, Serve(p) PROVE RequestsInv'
  BY <1>2, PassingKeeps, GuardsKeep, HandleDeleteKeeps, HandleKeeps, EnqueueOtpKeeps, AuditKeeps,
     AuditFailsKeeps DEF Serve
<1>3. CASE QueueNext /\ UNCHANGED requestVars
  BY <1>3, QueueKeeps
<1>4. CASE UNCHANGED vars
  <2>1. UNCHANGED <<account, job, worker, marked, mails, logged, faults, faulty, shared>>
    BY <1>4 DEF vars, queueVars, queue
  <2>2. UNCHANGED <<claims, req, asked, written, lost, changed>>
    BY <1>4 DEF vars, requestVars
  <2>3. QueueInv'
    BY <2>1 DEF RequestsInv, QueueInv, QueueTypeOK, JobFits, SlotFits, Unfaulted, Delivered
  <2>4. \A j \in Jobs : FailsForCause(j)'
    BY <2>1 DEF RequestsInv, FailsForCause, Gone
  <2>5. TypeOK'
    BY <2>2, <2>3 DEF RequestsInv, TypeOK, QueueInv
  <2>6. Kept'
    BY <2>1, <2>2 DEF RequestsInv, Kept, Numbered, Accounted
  <2>7. \A p \in Procs : Authorised(p)'
    BY <2>1, <2>2 DEF RequestsInv, Authorised, Valid, Permitted
  <2> QED BY <2>3, <2>4, <2>5, <2>6, <2>7 DEF RequestsInv
<1> QED BY <1>1, <1>2, <1>3, <1>4 DEF Next

\* For any numbers of users, requests, slots, attempts and faults.
THEOREM RequestsInvariant == Spec => []RequestsInv
  BY RequestsInitInv, RequestsNextInv, PTL DEF Spec

\* Every write that succeeded has its audit row or the job for it, or it is
\* known what became of them: the queue refused, faults used up the attempts,
\* or the user the row names was deleted.
THEOREM WritesLeaveTheirRow == Spec => []WritesAreAccounted
<1>1. RequestsInv => WritesAreAccounted
  <2> SUFFICES ASSUME RequestsInv, NEW n \in written
               PROVE  LET j == <<"audit_log", n>> IN
                      \/ logged[j] > 0
                      \/ job[j].state \in Pending
                      \/ job[j].state = "failed" /\ j \in faulty
                      \/ n \in lost
                      \/ job[j].user # NoUser /\ ~account[job[j].user].live
                      \/ \E p \in Procs : req[p].at = "audit" /\ req[p].n = n
    BY DEF WritesAreAccounted
  <2>1. n \in 1 .. MaxRequests /\ QueueInv /\ Accounted(n)
    BY DEF RequestsInv, TypeOK, Kept
  <2>2. PICK j \in Jobs : j = <<"audit_log", n>> /\ j[1] = "audit_log"
    BY <2>1, JobOf
  <2>3. FailsForCause(j)
    BY <2>2 DEF RequestsInv
  <2>4. mails[j] = 0
    BY <2>2, <2>3 DEF FailsForCause
  <2>5. CASE job[j].state = "absent"
    BY <2>1, <2>2, <2>5 DEF Accounted
  <2>6. CASE job[j].state = "failed"
    BY <2>2, <2>3, <2>6 DEF FailsForCause, Gone
  <2>7. CASE job[j].state = "done"
    <3>1. Delivered(j)
      BY <2>1, <2>7 DEF QueueInv
    <3> QED BY <2>2, <2>4, <3>1 DEF Delivered
  <2>8. CASE job[j].state \in Pending
    BY <2>2, <2>8
  <2> QED BY <2>1, <2>5, <2>6, <2>7, <2>8, JobType
<1> QED BY <1>1, RequestsInvariant, PTL

\* What was refused leaves no audit job and no row.
THEOREM OnlyWritesLeaveRows == Spec => []OnlyWritesAreAudited
<1>1. RequestsInv => OnlyWritesAreAudited
  BY DEF RequestsInv, Kept, Accounted, OnlyWritesAreAudited
<1> QED BY <1>1, RequestsInvariant, PTL

LEMMA AccountsStand ==
    ASSUME RequestsInv, Next, account' # account
    PROVE  \E q \in Procs :
             /\ req[q].at = "handle" /\ req[q].route.effect \in Changing
             /\ \A p \in Procs \ {q} : req'[p] = req[p]
<1>1. ASSUME NEW p \in Procs, NEW s \in Sorts, NEW u \in Users \cup {NoUser}, Arrive(p, s, u)
      PROVE  FALSE
  BY <1>1 DEF Arrive, queueVars
<1>2. ASSUME QueueNext PROVE FALSE
  <2>1. ASSUME NEW w \in Workers, Work(w) \/ Error(w) \/ Die(w) PROVE account' = account
    BY <2>1 DEF Work, Take, CheckSent, Send, MarkSent, Create, Finish, Throw, Error, Die
  <2>2. ASSUME NEW j \in Jobs, Retry(j) \/ Stall(j) PROVE account' = account
    BY <2>2 DEF Retry, Stall
  <2> QED BY <1>2, <2>1, <2>2 DEF QueueNext
<1>3. PICK q \in Procs : Serve(q)
  BY <1>1, <1>2 DEF Next
<1>4. ~(Limit(q) \/ Guards(q) \/ HandleOtp(q) \/ EnqueueOtp(q) \/ HandleOther(q) \/ Refuse(q)
        \/ Audit(q) \/ AuditFails(q))
  BY DEF Limit, Guards, HandleOtp, EnqueueOtp, HandleOther, Refuse, Audit, AuditFails, queueVars
<1>5. PICK t \in Users :
        HandleDelete(q, t) \/ \E a \in Change(req[q].route.effect, account[t]) : Handle(q, t, a)
  BY <1>3, <1>4 DEF Serve
<1>6. req[q].at = "handle" /\ Succeed(q)
  BY <1>5 DEF HandleDelete, Handle
<1>7. PICK e : e = req[q].route.effect
  OBVIOUS
<1>8. e \in Changing
  <2>1. CASE HandleDelete(q, t)
    BY <1>7, <2>1 DEF HandleDelete, Changing
  <2>2. CASE \E a \in Change(e, account[t]) : Handle(q, t, a)
    <3>1. account[t] \in Account
      BY DEF RequestsInv, QueueInv, QueueTypeOK, Account
    <3> QED BY <2>2, <3>1, ChangeType DEF Changing
  <2> QED BY <1>5, <1>7, <2>1, <2>2
<1>9. \E r : req' = [req EXCEPT ![q] = r]
  BY <1>6, Succeeds
<1>10. \A p \in Procs \ {q} : req'[p] = req[p]
  BY <1>9, RequestType
<1> QED BY <1>6, <1>7, <1>8, <1>10

\* An account is changed only for an admin who is one at that moment, and not
\* blocked, or who was changed between the guards and the handler.
THEOREM OnlyTheAllowedChange == Spec => ChangesAreAuthorised
<1>1. ASSUME RequestsInv, [Next]_vars, NEW p \in Procs, NEW t \in Users,
             account'[t] # account[t], req[p].at = "handle", req'[p] # req[p]
      PROVE  /\ req[p].user # NoUser
             /\ \/ req[p].user \in changed[p]
                \/ Valid(req[p].user) /\ account[req[p].user].role \in req[p].route.roles
  <2>1. Next
    BY <1>1 DEF vars, queueVars
  <2>2. req[p].route.effect \in Changing
    BY <1>1, <2>1, AccountsStand
  <2>3. req[p].route.guard = "jwt" /\ req[p].route.roles = {"admin"}
    <3>1. req[p].route \in Sorts
      BY <1>1, RequestType DEF Request
    <3> QED BY <2>2, <3>1, ChangingSorts
  <2>4. Authorised(p)
    BY <1>1, RequestType
  <2> QED BY <1>1, <2>3, <2>4 DEF Authorised, Permitted
<1>2. RequestsInv /\ [Next]_vars =>
        [ \A p \in Procs : \A t \in Users :
            account'[t] # account[t] /\ req[p].at = "handle" /\ req'[p] # req[p] =>
              LET u == req[p].user IN
              /\ u # NoUser
              /\ \/ u \in changed[p]
                 \/ Valid(u) /\ account[u].role \in req[p].route.roles ]_vars
  BY <1>1
<1> QED BY <1>2, RequestsInvariant, PTL DEF Spec, ChangesAreAuthorised

==============================================================================
