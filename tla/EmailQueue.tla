----------------------------- MODULE EmailQueue -----------------------------
(***************************************************************************)
(* The `email' queue: jobs that send a code or write an audit row, and the *)
(* slots of the processes that work them.                                  *)
(*                                                                         *)
(* BullMQ gives a job to a slot, which holds its lock; a lock that is not  *)
(* renewed in time (a busy or dead process) puts the job back although the *)
(* slot may still be working it.  A job that throws comes back after a     *)
(* delay until its attempts are used up.                                   *)
(***************************************************************************)
EXTENDS Naturals

CONSTANTS
    MaxRequests, \* bound on the number of requests; they number the jobs
    Workers,     \* slots (five in each process)
    Attempts,    \* attempts of a job: 3
    MaxStalls,   \* maxStalledCount: 1
    MaxFaults,   \* bound on the number of faults
    Users,
    NoUser, NoWorker, NoJob

Kinds == { "send_otp", "audit_log" }
Jobs  == Kinds \X (1 .. MaxRequests)

ASSUME QueueAssumption ==
    /\ MaxRequests \in Nat
    /\ Attempts \in Nat \ {0} /\ MaxStalls \in Nat /\ MaxFaults \in Nat
    /\ NoUser \notin Users /\ NoWorker \notin Workers /\ NoJob \notin Jobs

VARIABLES
    account, \* User rows: is it there, its role, is it blocked
    job,     \* the jobs: state, the user they name, failed attempts, stalls
             \*   and the slot that holds the lock
    worker,  \* the slots: where each is in the processor, and with which job
    marked,  \* email:sent:<id>; its 24 hours outlive the job's retries
    mails,   \* mails that left for each job
    logged,  \* audit rows of each job
    faults,  \* the number of faults so far
    \* History, read by no step.
    faulty,  \* jobs that met a fault: an error, a timeout, a lost lock
    shared   \* jobs two slots worked at the same time

queue     == <<job, worker, marked, mails, logged, faults>>
queueVars == <<account, queue, faulty, shared>>

Roles   == { "admin", "editor", "user" }
Pending == { "waiting", "active", "delayed" }
NewJob  == [ state |-> "absent", user |-> NoUser, failed |-> 0, stalls |-> 0, by |-> NoWorker ]
Rest    == [ at |-> "idle", job |-> NoJob ]

QueueTypeOK ==
    /\ account \in [ Users -> [ live : BOOLEAN, role : Roles, blocked : BOOLEAN ] ]
    /\ job \in [ Jobs -> [ state : Pending \cup { "absent", "failed", "done" },
                           user : Users \cup {NoUser}, failed : 0 .. Attempts,
                           stalls : 0 .. MaxStalls + 1, by : Workers \cup {NoWorker} ] ]
    /\ worker \in [ Workers -> [ at : { "idle", "check", "send", "mark", "create", "finish", "throw" },
                                 job : Jobs \cup {NoJob} ] ]
    /\ marked \subseteq Jobs
    /\ mails \in [ Jobs -> Nat ] /\ logged \in [ Jobs -> Nat ]
    /\ faults \in 0 .. MaxFaults
    /\ faulty \subseteq Jobs /\ shared \subseteq Jobs

QueueInit ==
    /\ job = [ j \in Jobs |-> NewJob ]
    /\ worker = [ w \in Workers |-> Rest ]
    /\ marked = {}
    /\ mails = [ j \in Jobs |-> 0 ] /\ logged = [ j \in Jobs |-> 0 ]
    /\ faults = 0
    /\ faulty = {} /\ shared = {}

\* queue.add.
Add(j, user) == job' = [job EXCEPT ![j].state = "waiting", ![j].user = user]

\* A fault that job j is met by.
Fault(j) ==
    /\ faults < MaxFaults
    /\ faults' = faults + 1
    /\ faulty' = faulty \cup {j}

\* Is a slot at it?
Worked(j) == \E w \in Workers : worker[w].job = j

NoFault == UNCHANGED <<faults, faulty>>

WorkerGoto(w, to) == worker' = [worker EXCEPT ![w].at = to]

-----------------------------------------------------------------------------
(* The processor.                                                          *)

\* A job is handed to a slot; process tells the kinds apart.
Take(w, j) ==
    /\ worker[w] = Rest /\ job[j].state = "waiting"
    /\ job' = [job EXCEPT ![j].state = "active", ![j].by = w]
    /\ worker' = [worker EXCEPT ![w] =
         [ at |-> IF j[1] = "send_otp" THEN "check" ELSE "create", job |-> j ]]
    /\ shared' = IF Worked(j) THEN shared \cup {j} ELSE shared
    /\ UNCHANGED <<account, marked, mails, logged, faults, faulty>>

\* Slip: the mark is not looked for.
CheckSent_Skipped(w) ==
    /\ worker[w].at = "check"
    /\ WorkerGoto(w, "send")
    /\ UNCHANGED <<account, job, marked, mails, logged, faults, faulty, shared>>

\* handleSendOtp: was the mail of this job sent already?
CheckSent(w) ==
    /\ worker[w].at = "check"
    /\ WorkerGoto(w, IF worker[w].job \in marked THEN "finish" ELSE "send")
    /\ UNCHANGED <<account, job, marked, mails, logged, faults, faulty, shared>>

\* sendMail; it may throw although the mail has left.
Send(w) ==
    LET j == worker[w].job IN
    /\ worker[w].at = "send"
    /\ mails' = [mails EXCEPT ![j] = @ + 1]
    /\ \/ WorkerGoto(w, "mark") /\ NoFault
       \/ WorkerGoto(w, "throw") /\ Fault(j)
    /\ UNCHANGED <<account, job, marked, logged, shared>>

MarkSent(w) ==
    /\ worker[w].at = "mark"
    /\ marked' = marked \cup {worker[w].job}
    /\ WorkerGoto(w, "finish")
    /\ UNCHANGED <<account, job, mails, logged, faults, faulty, shared>>

\* Slip: the job fails after its row was written.
Create_ThenThrows(w) ==
    LET j == worker[w].job
        u == job[j].user
    IN
    /\ worker[w].at = "create"
    /\ IF u = NoUser \/ account[u].live
         THEN logged' = [logged EXCEPT ![j] = @ + 1]
         ELSE UNCHANGED logged
    /\ WorkerGoto(w, "throw")
    /\ UNCHANGED <<account, job, marked, mails, faults, faulty, shared>>

\* handleAuditLog: the foreign key wants the user the job names.
Create(w) ==
    LET j == worker[w].job
        u == job[j].user
    IN
    /\ worker[w].at = "create"
    /\ IF u = NoUser \/ account[u].live
         THEN /\ logged' = [logged EXCEPT ![j] = @ + 1]
              /\ WorkerGoto(w, "finish")
         ELSE WorkerGoto(w, "throw") /\ UNCHANGED logged
    /\ UNCHANGED <<account, job, marked, mails, faults, faulty, shared>>

\* Redis, the mail server or the database fails.
Error(w) ==
    /\ worker[w].at \in { "check", "send", "mark", "create" }
    /\ WorkerGoto(w, "throw")
    /\ Fault(worker[w].job)
    /\ UNCHANGED <<account, job, marked, mails, logged, shared>>

-----------------------------------------------------------------------------
(* BullMQ.                                                                 *)

\* The result counts for the slot that holds the lock; a job that is done is
\* removed.
Finish(w) ==
    LET j == worker[w].job IN
    /\ worker[w].at = "finish"
    /\ worker' = [worker EXCEPT ![w] = Rest]
    /\ job' = IF job[j].by = w THEN [job EXCEPT ![j].state = "done", ![j].by = NoWorker] ELSE job
    /\ UNCHANGED <<account, marked, mails, logged, faults, faulty, shared>>

\* Slip: the error is logged and not thrown on.
Throw_Swallowed(w) ==
    LET j == worker[w].job IN
    /\ worker[w].at = "throw"
    /\ worker' = [worker EXCEPT ![w] = Rest]
    /\ job' = IF job[j].by = w THEN [job EXCEPT ![j].state = "done", ![j].by = NoWorker] ELSE job
    /\ UNCHANGED <<account, marked, mails, logged, faults, faulty, shared>>

\* Slip: no attempt is counted.
Throw_Uncounted(w) ==
    LET j == worker[w].job IN
    /\ worker[w].at = "throw"
    /\ worker' = [worker EXCEPT ![w] = Rest]
    /\ job' = IF job[j].by # w THEN job
              ELSE [job EXCEPT ![j].by = NoWorker, ![j].state = "delayed"]
    /\ UNCHANGED <<account, marked, mails, logged, faults, faulty, shared>>

\* Another attempt after a delay, or the job has failed, and is kept.
Throw(w) ==
    LET j == worker[w].job IN
    /\ worker[w].at = "throw"
    /\ worker' = [worker EXCEPT ![w] = Rest]
    /\ job' = IF job[j].by # w THEN job
              ELSE [job EXCEPT ![j].failed = @ + 1, ![j].by = NoWorker,
                               ![j].state = IF job[j].failed + 1 < Attempts THEN "delayed" ELSE "failed"]
    /\ UNCHANGED <<account, marked, mails, logged, faults, faulty, shared>>

\* The backoff is over.
Retry(j) ==
    /\ job[j].state = "delayed"
    /\ job' = [job EXCEPT ![j].state = "waiting"]
    /\ UNCHANGED <<account, worker, marked, mails, logged, faults, faulty, shared>>

\* The lock of an active job has run out, because its slot is too busy or
\* because no slot works it any more.
Stall(j) ==
    /\ job[j].state = "active"
    /\ IF Worked(j) THEN Fault(j) ELSE NoFault
    /\ job' = [job EXCEPT ![j].stalls = @ + 1, ![j].by = NoWorker,
                          ![j].state = IF job[j].stalls < MaxStalls THEN "waiting" ELSE "failed"]
    /\ UNCHANGED <<account, worker, marked, mails, logged, shared>>

\* The process of a slot ends, and is started again.
Die(w) ==
    /\ worker[w] # Rest
    /\ worker' = [worker EXCEPT ![w] = Rest]
    /\ Fault(worker[w].job)
    /\ UNCHANGED <<account, job, marked, mails, logged, shared>>

Work(w) ==
    \/ \E j \in Jobs : Take(w, j)
    \/ CheckSent(w) \/ Send(w) \/ MarkSent(w) \/ Create(w)
    \/ Finish(w) \/ Throw(w)

\* The lock of a job that no slot works runs out for certain.
Orphaned(j) == ~Worked(j) /\ Stall(j)

QueueNext ==
    \/ \E w \in Workers : Work(w) \/ Error(w) \/ Die(w)
    \/ \E j \in Jobs : Retry(j) \/ Stall(j)

-----------------------------------------------------------------------------
(* The queue with nothing but what it needs of the services.               *)

\* forgotPassword or the interceptor: a code, which names nobody, or the
\* audit row of a caller who is there.
Enqueue(j, u) ==
    /\ job[j].state = "absent"
    /\ u \in { NoUser } \cup { x \in Users : j[1] = "audit_log" /\ account[x].live }
    /\ Add(j, u)
    /\ UNCHANGED <<account, worker, marked, mails, logged, faults, faulty, shared>>

\* deleteUser: the audit rows that name the user go with him.
RowsGo(u) ==
    /\ account' = [account EXCEPT ![u] = [ live |-> FALSE, role |-> "user", blocked |-> FALSE ]]
    /\ logged' = [ j \in Jobs |-> IF job[j].user = u THEN 0 ELSE logged[j] ]

DeleteUser(u) ==
    /\ account[u].live
    /\ RowsGo(u)
    /\ UNCHANGED <<job, worker, marked, mails, faults, faulty, shared>>

QueueSystemNext ==
    \/ QueueNext
    \/ \E j \in Jobs, u \in Users \cup {NoUser} : Enqueue(j, u)
    \/ \E u \in Users : DeleteUser(u)

QueueSystemInit ==
    /\ account = [ u \in Users |-> [ live |-> TRUE, role |-> "user", blocked |-> FALSE ] ]
    /\ QueueInit

QueueSpec == QueueSystemInit /\ [][QueueSystemNext]_queueVars

\* Slots work, delays end, and the locks of jobs no slot works run out.
QueueFairness ==
    /\ \A w \in Workers : WF_queueVars(Work(w))
    /\ \A j \in Jobs : WF_queueVars(Retry(j)) /\ WF_queueVars(Orphaned(j))

FairQueueSpec == QueueSpec /\ QueueFairness

-----------------------------------------------------------------------------
(* Properties.                                                             *)

\* Every job comes to an end, done or failed, whatever fails, stalls or dies:
\* no lock is held for ever, and attempts are used up, also by a job that can
\* never succeed because the user it names has been deleted.
JobsEnd == \A j \in Jobs : job[j].state \in Pending ~> job[j].state \in { "done", "failed" }

\* A job that counts as done has sent its mail or written its row: an error
\* is never taken for success, and the mark is never set before the mail.
DoneIsDelivered ==
    \A j \in Jobs : job[j].state = "done" =>
        \/ mails[j] > 0 \/ logged[j] > 0
        \/ job[j].user # NoUser /\ ~account[job[j].user].live

\* A mail whose job was marked is not sent again, however often the job comes
\* back, unless the lock was lost and two slots worked it at the same time.
MarkedIsSpared ==
    [][ \A w \in Workers :
          Send(w) /\ worker[w].job \in marked => worker[w].job \in shared ]_queueVars

\* A code is mailed once, and an audit row written once, unless the job met a
\* fault.
RepeatsAreFaults ==
    \A j \in Jobs : mails[j] + logged[j] > 1 => j \in faulty

=============================================================================
