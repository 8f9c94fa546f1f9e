----------------------------- MODULE TaskQueue -----------------------------
(***************************************************************************)
(* Background tasks: a row in PostgreSQL says what became of a task, a     *)
(* BullMQ job of the same id brings it to a worker, and the two are        *)
(* written one after the other, by the API and by the workers.             *)
(*                                                                         *)
(* Source: packages/server/src/jobs/bullmq-queue.ts, jobs/persisted-job.ts,*)
(* db/database.ts (the statements on tasks), routes/tasks.ts (cancel),     *)
(* marketing-video/production.ts and repository.ts (continuing a video).   *)
(*                                                                         *)
(* BullMQ is external: a job is handed to one worker at a time, which      *)
(* holds its lock and renews it; a job whose lock is gone is handed out    *)
(* again, once (maxStalledCount 1), and then fails without a word to the   *)
(* row. Priorities, delays, progress, stages and the legacy queue are left *)
(* out. Names are distinct from those of the other modules, so that a      *)
(* module may extend several.                                              *)
(***************************************************************************)
EXTENDS Naturals, FiniteSets

CONSTANTS
    Tasks,        \* task ids
    Renders,      \* those of the long-render queue: one owner, one type
    Workers,      \* the slots in which a worker runs one job at a time
    NoTask, NoWorker,
    Retried,      \* the tasks enqueued with more than one attempt
    MaxAttempts,  \* and how many they have
    PerUser,      \* MarketingQueueLimits.perUser
    MaxDeaths,    \* bound: processes that die, and statements of theirs that fail
    MaxLapses,    \* bound: job locks that expire under a worker still alive
    MaxRequests   \* bound: what the owner asks of a task once it is there

ASSUME QueueAssumption ==
    /\ Renders \subseteq Tasks /\ Retried \subseteq Tasks \ Renders
    /\ NoTask \notin Tasks
    /\ NoWorker \notin Workers
    /\ {MaxAttempts, PerUser} \subseteq Nat \ {0}
    /\ {MaxDeaths, MaxLapses, MaxRequests} \subseteq Nat

VARIABLES
    row,       \* tasks: status and attempts of each
    job,       \* the BullMQ job of each task
    slot,      \* what each worker slot is doing
    request,   \* what the API still has to do for a task
    stranded,  \* history: open tasks that lost their job, see Stranding below
    used       \* what was used of the bounds

queueVars == <<row, job, slot, request, stranded, used>>

OpenRow == {"pending", "running"}
LiveJob == {"waiting", "active"}
RowStatus == OpenRow \union {"none", "succeeded", "failed", "cancelled"}
Places == {"idle", "picked", "looked", "claimed", "handling", "ended", "acking"}
Outcomes == {"none", "returned", "threw", "unrecoverable", "retry", "broken"}
HandlerOutcomes == Outcomes \ {"none", "retry", "broken"}

(* "waiting" stands for waiting, delayed and prioritized.                  *)
Jobs == [state : LiveJob \union {"none", "completed", "failed"},
         made : Nat, stalled : BOOLEAN, holder : Workers \union {NoWorker}]
Slots == [at : Places, task : Tasks \union {NoTask}, attempts : Nat,
          live : SUBSET Tasks, aborted : BOOLEAN, out : Outcomes]
Requests == [publish : BOOLEAN, deliver : BOOLEAN, withdraw : BOOLEAN, resumers : Nat]

NoJob == [state |-> "none", made |-> 0, stalled |-> FALSE, holder |-> NoWorker]
IdleSlot == [at |-> "idle", task |-> NoTask, attempts |-> 0, live |-> {},
             aborted |-> FALSE, out |-> "none"]
NoRequest == [publish |-> FALSE, deliver |-> FALSE, withdraw |-> FALSE, resumers |-> 0]

QueueInit ==
    /\ row = [t \in Tasks |-> [status |-> "none", attempts |-> 0]]
    /\ job = [t \in Tasks |-> NoJob]
    /\ slot = [k \in Workers |-> IdleSlot]
    /\ request = [t \in Tasks |-> NoRequest]
    /\ stranded = {}
    /\ used = [deaths |-> 0, lapses |-> 0, requests |-> 0]

QueueTypeOK ==
    /\ row \in [Tasks -> [status : RowStatus, attempts : Nat]]
    /\ job \in [Tasks -> Jobs]
    /\ slot \in [Workers -> Slots]
    /\ request \in [Tasks -> Requests]
    /\ stranded \subseteq Tasks
    /\ used \in [deaths : 0 .. MaxDeaths, lapses : 0 .. MaxLapses, requests : 0 .. MaxRequests]
-----------------------------------------------------------------------------
(* Reading the tables.                                                     *)

IsOpen(t) == row[t].status \in OpenRow
Holds(k) == LET j == job[slot[k].task] IN j.state = "active" /\ j.holder = k
Handling(t) == {k \in Workers : slot[k].task = t /\ slot[k].at = "handling"}
Busy(t) == {k \in Workers : slot[k].task = t}

(* What a job's record says once its worker, or nobody, gives it back.     *)
BackTo(t, state) == job' = [job EXCEPT ![t].state = state, ![t].holder = NoWorker]
To(k, place) == slot' = [slot EXCEPT ![k].at = place]
Acks(k, out) == slot' = [slot EXCEPT ![k].at = "acking", ![k].out = out]
Free(k) == slot' = [slot EXCEPT ![k] = IdleSlot]

(* Stranding: the row is open and its job is gone or will never run.       *)
Strand(t) == stranded' = IF IsOpen(t) THEN stranded \union {t} ELSE stranded
-----------------------------------------------------------------------------
(* enqueue: the row first, then the job.                                   *)

(* createTask; for a render reserve commits the row with the draft.        *)
CreateTask(t) ==
    /\ row[t].status = "none"
    /\ row' = [row EXCEPT ![t].status = "pending"]
    /\ request' = [request EXCEPT ![t].publish = t \notin Renders, ![t].deliver = t \in Renders]
    /\ UNCHANGED <<job, slot, stranded, used>>

(* publishPersistedJob: adding an id that is there already does nothing.   *)
Added(t) == IF job[t].state = "none" THEN [NoJob EXCEPT !.state = "waiting"] ELSE job[t]
Publish(t) ==
    /\ request[t].publish
    /\ job' = [job EXCEPT ![t] = Added(t)]
    /\ request' = [request EXCEPT ![t].publish = FALSE]
    /\ UNCHANGED <<row, slot, stranded, used>>

\* mutant: a job in a worker's hands is run again, too
RedeliveredAnyway(t) ==
    IF job[t].state = "none" THEN Added(t) ELSE [job[t] EXCEPT !.state = "waiting"]
(* deliverPersisted: an ended job is run again, with the attempts and the  *)
(* stall it has on record, and a missing one is added.                     *)
Redelivered(t) ==
    IF job[t].state \in {"completed", "failed"}
    THEN [job[t] EXCEPT !.state = "waiting"] ELSE Added(t)

Deliver(t) ==
    /\ request[t].deliver
    /\ job' = [job EXCEPT ![t] = IF IsOpen(t) THEN Redelivered(t) ELSE @]
    /\ request' = [request EXCEPT ![t].deliver = FALSE]
    /\ stranded' = IF IsOpen(t) /\ job[t].state # "active" THEN stranded \ {t} ELSE stranded
    /\ UNCHANGED <<row, slot, used>>

(* diagnosePending delivers a render that was never claimed and whose job  *)
(* is confirmed to be missing; for the others it only writes a stage.      *)
Diagnose(t) ==
    /\ t \in Renders
    /\ row[t] = [status |-> "pending", attempts |-> 0]
    /\ job[t].state = "none"
    /\ job' = [job EXCEPT ![t] = Added(t)]
    /\ stranded' = stranded \ {t}
    /\ UNCHANGED <<row, slot, request, used>>

(* The API process dies, or loses Redis, before it has done all it had to. *)
ApiDies(t) ==
    /\ request[t] # NoRequest
    /\ used.deaths < MaxDeaths
    /\ used' = [used EXCEPT !.deaths = @ + 1]
    /\ request' = [request EXCEPT ![t] = NoRequest]
    /\ stranded' = IF IsOpen(t) /\ job[t].state \notin LiveJob THEN stranded \union {t} ELSE stranded
    /\ UNCHANGED <<row, job, slot>>
-----------------------------------------------------------------------------
(* A worker's slot.                                                        *)

(* BullMQ hands a waiting job to an idle slot.                             *)
Pick(k, t) ==
    /\ slot[k].at = "idle" /\ job[t].state = "waiting"
    /\ job' = [job EXCEPT ![t].state = "active", ![t].holder = k]
    /\ slot' = [slot EXCEPT ![k] = [IdleSlot EXCEPT !.at = "picked", !.task = t,
                                                    !.attempts = job[t].made + 1]]
    /\ UNCHANGED <<row, request, stranded, used>>

(* getActive: which other renders are in some worker's hands.              *)
LookActive(k) ==
    /\ slot[k].at = "picked" /\ slot[k].task \in Renders
    /\ slot' = [slot EXCEPT ![k].at = "looked",
                            ![k].live = {u \in Renders \ {slot[k].task} : job[u].state = "active"}]
    /\ UNCHANGED <<row, job, request, stranded, used>>

(* UPDATE tasks SET status='running' WHERE status IN ('pending','running'). *)
Claims(t) == IsOpen(t)
RunningLive(k) == Cardinality({u \in slot[k].live : row[u].status = "running"})

(* markTaskRunning, or claimTaskWithinOwnerLimit with the list of before.  *)
Claim(k) == LET t == slot[k].task IN
    /\ slot[k].at = IF t \in Renders THEN "looked" ELSE "picked"
    /\ t \in Renders => RunningLive(k) < PerUser
    /\ IF Claims(t)
       THEN /\ row' = [row EXCEPT ![t] = [status |-> "running", attempts |-> slot[k].attempts]]
            /\ To(k, "claimed")
       ELSE Acks(k, "returned") /\ UNCHANGED row
    /\ UNCHANGED <<job, request, stranded, used>>

(* A statement on the tables, or on Redis, fails.                          *)
Fault == used.deaths < MaxDeaths /\ used' = [used EXCEPT !.deaths = @ + 1]

(* Before the handler's try there is nobody to write it into the row: only *)
(* BullMQ learns that the job failed.                                      *)
Breaks(k) ==
    /\ slot[k].at \in {"picked", "looked", "claimed"}
    /\ Fault /\ Acks(k, "broken")
    /\ UNCHANGED <<row, job, request, stranded>>

(* Busy: the job goes back to wait, if the slot still holds it.            *)
Postpone(k) == LET t == slot[k].task IN
    /\ slot[k].at = "looked" /\ RunningLive(k) >= PerUser
    /\ IF Holds(k) THEN BackTo(t, "waiting") ELSE UNCHANGED job
    /\ Free(k)
    /\ UNCHANGED <<row, request, stranded, used>>

(* The first look at the row: whoever finds it not running does nothing.   *)
Observe(k) ==
    /\ slot[k].at = "claimed"
    /\ IF row[slot[k].task].status = "running" THEN To(k, "handling") ELSE Acks(k, "returned")
    /\ UNCHANGED <<row, job, request, stranded, used>>

(* The first look at the row fails: inside the try, so it is an error like *)
(* one of the handler, which has not been entered.                         *)
LookFails(k) ==
    /\ slot[k].at = "claimed"
    /\ Fault /\ slot' = [slot EXCEPT ![k].at = "ended", ![k].out = "threw"]
    /\ UNCHANGED <<row, job, request, stranded>>

(* The cancellation timer, or cancel() in the process of the worker. A     *)
(* look at the row that fails aborts the handler just the same.            *)
Notice(k) ==
    /\ slot[k].at = "handling" /\ ~slot[k].aborted
    /\ \/ row[slot[k].task].status # "running" /\ UNCHANGED used
       \/ Fault
    /\ slot' = [slot EXCEPT ![k].aborted = TRUE]
    /\ UNCHANGED <<row, job, request, stranded>>

(* The handler of the task ends: what it does is another module's.         *)
HandlerEnds(k, out) ==
    /\ slot[k].at = "handling"
    /\ slot' = [slot EXCEPT ![k].at = "ended", ![k].out = out]
    /\ UNCHANGED <<row, job, request, stranded, used>>

(* bullJob.opts.attempts ?? 1 *)
Attempts(t) == IF t \in Retried THEN MaxAttempts ELSE 1

\* mutant: one attempt too many is promised
RetriesOnceMore(k) ==
    /\ slot[k].task \notin Renders
    /\ slot[k].attempts <= Attempts(slot[k].task)
    /\ slot[k].out = "threw"
Retries(k) ==
    /\ slot[k].task \notin Renders
    /\ slot[k].attempts < Attempts(slot[k].task)
    /\ slot[k].out = "threw"

\* mutant: what the handler came to is written for a status
RecordsOutcome(k) == slot[k].out
\* mutant: the result is written whatever became of the row
RecordsAnyway(k) == IF slot[k].out = "returned" THEN "succeeded" ELSE "failed"
(* setTaskResult, markTaskRetryPending or setTaskError: the row after it.  *)
Recorded(k) == LET r == row[slot[k].task] IN
    IF slot[k].out = "returned" THEN IF r.status \in OpenRow THEN "succeeded" ELSE r.status
    ELSE IF Retries(k)
         THEN IF r = [status |-> "running", attempts |-> slot[k].attempts]
              THEN "pending" ELSE r.status
    ELSE IF r.status \in OpenRow THEN "failed" ELSE r.status

Record(k) ==
    /\ slot[k].at = "ended"
    /\ row' = [row EXCEPT ![slot[k].task].status = Recorded(k)]
    /\ Acks(k, IF Retries(k) THEN "retry" ELSE slot[k].out)
    /\ UNCHANGED <<job, request, stranded, used>>

(* setTaskResult fails: the handler's success goes to the catch.           *)
ResultFails(k) ==
    /\ slot[k].at = "ended" /\ slot[k].out = "returned"
    /\ Fault /\ slot' = [slot EXCEPT ![k].out = "threw"]
    /\ UNCHANGED <<row, job, request, stranded>>

(* setTaskError or markTaskRetryPending fails: the row stays as it was.    *)
RecordFails(k) ==
    /\ slot[k].at = "ended" /\ slot[k].out # "returned"
    /\ Fault /\ Acks(k, "broken")
    /\ UNCHANGED <<row, job, request, stranded>>

(* The row is open although its worker is done: it was opened again, or    *)
(* handed to another worker, meanwhile (a continued render, a lock that    *)
(* lapsed), or a statement failed outside the handler.                     *)
LeftOpen(k) ==
    /\ Holds(k) /\ IsOpen(slot[k].task)
    /\ slot[k].task \in Renders \/ used.lapses > 0 \/ slot[k].out = "broken"

(* The worker reports to BullMQ, which listens to the holder of the lock   *)
(* only. After a plain error BullMQ counts the attempts itself.            *)
Ack(k) == LET t == slot[k].task  made == job[t].made + 1 IN
    /\ slot[k].at = "acking"
    /\ job' = IF ~Holds(k) THEN job
              ELSE [job EXCEPT ![t] = [@ EXCEPT
                      !.holder = NoWorker, !.made = made,
                      !.state = IF slot[k].out = "returned" THEN "completed"
                                ELSE IF slot[k].out \in {"retry", "broken"} /\ made < Attempts(t)
                                THEN "waiting" ELSE "failed"]]
    /\ Free(k)
    /\ stranded' = IF LeftOpen(k) /\ job'[t].state # "waiting"
                   THEN stranded \union {t} ELSE stranded
    /\ UNCHANGED <<row, request, used>>
-----------------------------------------------------------------------------
(* What goes wrong with workers.                                           *)

WorkerDies(k) ==
    /\ slot[k].at # "idle"
    /\ used.deaths < MaxDeaths
    /\ used' = [used EXCEPT !.deaths = @ + 1]
    /\ job' = IF Holds(k) THEN [job EXCEPT ![slot[k].task].holder = NoWorker] ELSE job
    /\ Free(k)
    /\ UNCHANGED <<row, request, stranded>>

(* The event loop is blocked, or Redis out of reach, for a lock's length.  *)
LockLapses(k) ==
    /\ slot[k].at # "idle" /\ Holds(k)
    /\ used.lapses < MaxLapses
    /\ used' = [used EXCEPT !.lapses = @ + 1]
    /\ job' = [job EXCEPT ![slot[k].task].holder = NoWorker]
    /\ UNCHANGED <<row, slot, request, stranded>>

(* BullMQ's stalled check: nobody listens for the failure it records.      *)
StalledCheck(t) ==
    /\ job[t].state = "active" /\ job[t].holder = NoWorker
    /\ IF job[t].stalled
       THEN BackTo(t, "failed") /\ Strand(t)
       ELSE /\ job' = [job EXCEPT ![t].state = "waiting", ![t].stalled = TRUE]
            /\ UNCHANGED stranded
    /\ UNCHANGED <<row, slot, request, used>>
-----------------------------------------------------------------------------
(* The owner.                                                              *)

Asks == used.requests < MaxRequests /\ used' = [used EXCEPT !.requests = @ + 1]

(* cancel: the row first; a job still waiting is withdrawn afterwards, and *)
(* whether the row changed or not.                                         *)
Cancel(t) ==
    /\ row[t].status # "none" /\ ~request[t].withdraw
    /\ Asks
    /\ row' = [row EXCEPT ![t].status = IF IsOpen(t) THEN "cancelled" ELSE @]
    /\ request' = [request EXCEPT ![t].withdraw = TRUE]
    /\ UNCHANGED <<job, slot, stranded>>

Withdraw(t) ==
    /\ request[t].withdraw
    /\ IF job[t].state = "waiting"
       THEN job' = [job EXCEPT ![t] = NoJob] /\ Strand(t)
       ELSE UNCHANGED <<job, stranded>>
    /\ request' = [request EXCEPT ![t].withdraw = FALSE]
    /\ UNCHANGED <<row, slot, used>>

(* canResumePersisted: no job of the task is in BullMQ's hands.            *)
CanResume(t) == job[t].state \notin LiveJob

(* Continuing a stopped render: the check, then reserve's update under the *)
(* render's advisory lock, then the delivery.                              *)
ResumeLooks(t) ==
    /\ t \in Renders /\ row[t].status \in {"failed", "cancelled"}
    /\ CanResume(t)
    /\ Asks
    /\ request' = [request EXCEPT ![t].resumers = @ + 1]
    /\ UNCHANGED <<row, job, slot, stranded>>

ResumeReserves(t) ==
    /\ request[t].resumers > 0
    /\ row' = [row EXCEPT ![t].status = IF @ \in {"failed", "cancelled"} THEN "pending" ELSE @]
    /\ request' = [request EXCEPT ![t].resumers = @ - 1, ![t].deliver = TRUE]
    /\ stranded' = stranded \ {t}
    /\ UNCHANGED <<job, slot, used>>

(* The worker of the render still has the lock.                            *)
ResumeRefused(t) ==
    /\ request[t].resumers > 0 /\ Handling(t) # {}
    /\ request' = [request EXCEPT ![t].resumers = @ - 1]
    /\ UNCHANGED <<row, job, slot, stranded, used>>

(* The owner opens a draft whose render is pending: it is delivered again. *)
DeliverAgain(t) ==
    /\ t \in Renders /\ row[t].status = "pending" /\ ~request[t].deliver
    /\ Asks
    /\ request' = [request EXCEPT ![t].deliver = TRUE]
    /\ UNCHANGED <<row, job, slot, stranded>>
-----------------------------------------------------------------------------
(* The steps that are the queue's alone. Other modules take part in the    *)
(* rest: who creates a task, what a handler does and what its death, or an *)
(* outcome that is not written, undoes, cancelling, and the lock a render  *)
(* is continued under.                                                     *)
QueueStep ==
    \/ \E t \in Tasks : \/ Publish(t) \/ Deliver(t) \/ Diagnose(t)
                        \/ StalledCheck(t) \/ Withdraw(t) \/ DeliverAgain(t)
    \/ \E k \in Workers, t \in Tasks : Pick(k, t)
    \/ \E k \in Workers : \/ LookActive(k) \/ Claim(k) \/ Breaks(k) \/ Postpone(k) \/ Observe(k)
                          \/ Notice(k) \/ Record(k) \/ Ack(k) \/ LockLapses(k)

(* What other modules count against the same bounds.                       *)
SpentElsewhere ==
    /\ used' \in [deaths : 0 .. MaxDeaths, lapses : {used.lapses}, requests : 0 .. MaxRequests]
    /\ UNCHANGED <<row, job, slot, request, stranded>>

QueueNext ==
    \/ QueueStep \/ SpentElsewhere
    \/ \E k \in Workers, out \in HandlerOutcomes : HandlerEnds(k, out)
    \/ \E k \in Workers : WorkerDies(k) \/ LookFails(k) \/ ResultFails(k) \/ RecordFails(k)
    \/ \E t \in Tasks : \/ CreateTask(t) \/ Cancel(t) \/ ApiDies(t)
                        \/ ResumeLooks(t) \/ ResumeReserves(t) \/ ResumeRefused(t)

QueueSpec == QueueInit /\ [][QueueNext]_queueVars
-----------------------------------------------------------------------------
(* A task that is open is on its way: its job is with BullMQ, a worker has *)
(* it, or the API is about to deliver it. What is left out are the ways in *)
(* which the code does lose it: the API died before the delivery (a render *)
(* is found again by diagnosePending), the job stalled twice, a late       *)
(* withdrawal took the job of a render the owner had continued meanwhile,  *)
(* or the last attempt met a statement that failed before the handler's    *)
(* try, or while its error was written to the row.                         *)
OpenTaskIsDelivered ==
    \A t \in Tasks : IsOpen(t) /\ t \notin stranded =>
        \/ job[t].state \in LiveJob
        \/ request[t].publish \/ request[t].deliver

(* As long as no lock lapses under a live worker, a task is in one slot at *)
(* a time, however often it is delivered, cancelled, continued and crashed. *)
OneWorkerPerTask ==
    used.lapses = 0 => \A t \in Tasks : Cardinality(Busy(t)) <= 1

(* The rows live the life TaskLife promises to the owner.                  *)
Life == INSTANCE TaskLife WITH status <- [t \in Tasks |-> row[t].status], Resumable <- Renders
LifeOfTasks == Life!LifeSpec
=============================================================================
