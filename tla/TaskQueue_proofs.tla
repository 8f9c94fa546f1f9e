--------------------------- MODULE TaskQueue_proofs ---------------------------
(***************************************************************************)
(* The task queue, for any tasks, workers, attempts and bounds.            *)
(*                                                                         *)
(* Neither OneWorkerPerTask nor OpenTaskIsDelivered is inductive. QueueInv *)
(* adds that whoever works on a task holds its job (HoldersWork), what a   *)
(* request may still do (RequestsFit), and, for tasks that are not         *)
(* renders, what a slot may conclude from its place about the row          *)
(* (PlainRows): the row it claimed is running with its attempt, and the    *)
(* one it gives back has ended or is put back for another attempt, unless  *)
(* a statement failed outside the handler.                                 *)
(***************************************************************************)
EXTENDS TaskQueue, FiniteSetTheorems, TLAPS

(* A slot at work has a task, and the task has a row.                      *)
SlotHasTask == \A k \in Workers :
    IF slot[k].at = "idle" THEN slot[k].task = NoTask
    ELSE slot[k].task \in Tasks /\ row[slot[k].task].status # "none"

(* As long as no lock lapses, whoever works on a task holds its job.       *)
HoldersWork ==
    used.lapses = 0 => \A k \in Workers : slot[k].at # "idle" => Holds(k)

(* What the API may still do, and for which tasks.                         *)
RequestsFit == \A t \in Tasks :
    /\ row[t].status = "none" => job[t].state = "none"
    /\ request[t].publish => t \notin Renders /\ job[t].state = "none" /\ row[t].status # "none"
    /\ request[t].deliver \/ request[t].resumers > 0 => t \in Renders

(* Whoever holds a job knows its attempt.                                  *)
AttemptsAgree == \A k \in Workers :
    slot[k].at # "idle" /\ Holds(k) => slot[k].attempts = job[slot[k].task].made + 1

(* Only the queue itself decides on a retry, or finds that it cannot.      *)
OutcomesFit == \A k \in Workers :
    slot[k].at \in {"picked", "looked", "claimed", "handling", "ended"} =>
        slot[k].out \notin {"retry", "broken"}

PlainRow(k) == LET t == slot[k].task IN
    /\ slot[k].at \in {"claimed", "handling", "ended"} /\ IsOpen(t) =>
           row[t] = [status |-> "running", attempts |-> slot[k].attempts]
    /\ slot[k].at = "acking" =>
           IF slot[k].out = "retry" THEN slot[k].attempts < Attempts(t)
           ELSE slot[k].out = "broken" \/ ~IsOpen(t)

PlainRows ==
    used.lapses = 0 => \A k \in Workers :
        slot[k].at # "idle" /\ slot[k].task \notin Renders => PlainRow(k)

QueueInv ==
    /\ QueueTypeOK /\ SlotHasTask /\ HoldersWork /\ RequestsFit
    /\ AttemptsAgree /\ OutcomesFit /\ PlainRows /\ OpenTaskIsDelivered
-----------------------------------------------------------------------------
(* Types.                                                                  *)

LEMMA Constants ==
    /\ NoTask \notin Tasks /\ NoWorker \notin Workers /\ Renders \subseteq Tasks
    /\ Retried \subseteq Tasks \ Renders
    /\ MaxAttempts \in Nat /\ PerUser \in Nat
    /\ MaxDeaths \in Nat /\ MaxLapses \in Nat /\ MaxRequests \in Nat
  BY QueueAssumption

(* The constant records have their types.                                  *)
LEMMA Records ==
    /\ NoJob \in Jobs /\ IdleSlot \in Slots /\ NoRequest \in Requests
    /\ "pending" \in RowStatus /\ "running" \in RowStatus /\ "succeeded" \in RowStatus
    /\ "failed" \in RowStatus /\ "cancelled" \in RowStatus /\ "none" \in RowStatus
  BY DEF NoJob, Jobs, IdleSlot, Slots, NoRequest, Requests, RowStatus, OpenRow, Places, Outcomes,
         LiveJob

(* The first state has its type.                                           *)
LEMMA QueueInitTypes == QueueInit => QueueTypeOK
  BY Constants, Records DEF QueueInit, QueueTypeOK

(* The invariant holds at first.                                           *)
LEMMA QueueInitInv == QueueInit => QueueInv
<1> SUFFICES ASSUME QueueInit PROVE QueueInv
  OBVIOUS
<1>1. QueueTypeOK
  BY QueueInitTypes
<1>2. SlotHasTask /\ HoldersWork /\ AttemptsAgree /\ OutcomesFit /\ PlainRows
  BY DEF QueueInit, SlotHasTask, HoldersWork, AttemptsAgree, OutcomesFit, PlainRows, IdleSlot
<1>3. RequestsFit /\ OpenTaskIsDelivered
  BY DEF QueueInit, RequestsFit, OpenTaskIsDelivered, NoJob, NoRequest, IsOpen, OpenRow
<1> QED
  BY <1>1, <1>2, <1>3 DEF QueueInv

(* What a step writes into slots of their type leaves them of their type.  *)
LEMMA SlotWrites ==
    ASSUME NEW f \in [Workers -> Slots], NEW k \in Workers
    PROVE  /\ \A s \in Slots : [f EXCEPT ![k] = s] \in [Workers -> Slots]
           /\ \A p \in Places : [f EXCEPT ![k].at = p] \in [Workers -> Slots]
           /\ \A o \in Outcomes : [f EXCEPT ![k].out = o] \in [Workers -> Slots]
           /\ \A l \in SUBSET Tasks : [f EXCEPT ![k].live = l] \in [Workers -> Slots]
           /\ \A b \in BOOLEAN : [f EXCEPT ![k].aborted = b] \in [Workers -> Slots]
<1>1. \A s \in Slots : [f EXCEPT ![k] = s] \in [Workers -> Slots]
  OBVIOUS
<1>2. /\ \A p \in Places : [f[k] EXCEPT !.at = p] \in Slots
      /\ \A o \in Outcomes : [f[k] EXCEPT !.out = o] \in Slots
      /\ \A l \in SUBSET Tasks : [f[k] EXCEPT !.live = l] \in Slots
      /\ \A b \in BOOLEAN : [f[k] EXCEPT !.aborted = b] \in Slots
  BY DEF Slots
<1> QED
  BY <1>1, <1>2

(* What a step writes into a job.                                          *)
LEMMA JobWrites ==
    ASSUME NEW f \in [Tasks -> Jobs], NEW t \in Tasks
    PROVE  /\ \A j \in Jobs : [f EXCEPT ![t] = j] \in [Tasks -> Jobs]
           /\ \A w \in Workers \union {NoWorker} : [f EXCEPT ![t].holder = w] \in [Tasks -> Jobs]
           /\ \A s \in LiveJob \union {"failed", "completed"} :
                 [f EXCEPT ![t].state = s] \in [Tasks -> Jobs]
           /\ \A s \in LiveJob \union {"failed", "completed"}, w \in Workers \union {NoWorker} :
                 [f EXCEPT ![t].state = s, ![t].holder = w] \in [Tasks -> Jobs]
           /\ \A s \in LiveJob \union {"failed", "completed"}, b \in BOOLEAN :
                 [f EXCEPT ![t].state = s, ![t].stalled = b] \in [Tasks -> Jobs]
<1>1. /\ \A s \in LiveJob \union {"failed", "completed"} : [f[t] EXCEPT !.state = s] \in Jobs
      /\ \A w \in Workers \union {NoWorker} : [f[t] EXCEPT !.holder = w] \in Jobs
  BY DEF Jobs, LiveJob
<1>2. \A s \in LiveJob \union {"failed", "completed"}, w \in Workers \union {NoWorker} :
          [[f[t] EXCEPT !.state = s] EXCEPT !.holder = w] \in Jobs
  BY DEF Jobs, LiveJob
<1>3. \A s \in LiveJob \union {"failed", "completed"}, b \in BOOLEAN :
          [[f[t] EXCEPT !.state = s] EXCEPT !.stalled = b] \in Jobs
  BY DEF Jobs, LiveJob
<1> QED
  BY <1>1, <1>2, <1>3

(* What a step writes into a request.                                      *)
LEMMA RequestWrites ==
    ASSUME NEW f \in [Tasks -> Requests], NEW t \in Tasks
    PROVE  /\ \A r \in Requests : [f EXCEPT ![t] = r] \in [Tasks -> Requests]
           /\ \A b \in BOOLEAN :
                /\ [f EXCEPT ![t].publish = b] \in [Tasks -> Requests]
                /\ [f EXCEPT ![t].deliver = b] \in [Tasks -> Requests]
                /\ [f EXCEPT ![t].withdraw = b] \in [Tasks -> Requests]
           /\ \A n \in Nat : [f EXCEPT ![t].resumers = n] \in [Tasks -> Requests]
           /\ \A b, d \in BOOLEAN :
                 [f EXCEPT ![t].publish = b, ![t].deliver = d] \in [Tasks -> Requests]
           /\ \A n \in Nat, b \in BOOLEAN :
                 [f EXCEPT ![t].resumers = n, ![t].deliver = b] \in [Tasks -> Requests]
<1>1. /\ \A b \in BOOLEAN : /\ [f[t] EXCEPT !.publish = b] \in Requests
                            /\ [f[t] EXCEPT !.deliver = b] \in Requests
                            /\ [f[t] EXCEPT !.withdraw = b] \in Requests
      /\ \A n \in Nat : [f[t] EXCEPT !.resumers = n] \in Requests
  BY DEF Requests
<1>2. /\ \A b, d \in BOOLEAN : [[f[t] EXCEPT !.publish = b] EXCEPT !.deliver = d] \in Requests
      /\ \A n \in Nat, b \in BOOLEAN :
             [[f[t] EXCEPT !.resumers = n] EXCEPT !.deliver = b] \in Requests
  BY DEF Requests
<1> QED
  BY <1>1, <1>2

(* What a step writes into a row.                                          *)
LEMMA RowWrites ==
    ASSUME QueueTypeOK, NEW t \in Tasks
    PROVE  /\ \A s \in RowStatus :
                [row EXCEPT ![t].status = s] \in [Tasks -> [status : RowStatus, attempts : Nat]]
           /\ \A n \in Nat :
                [row EXCEPT ![t] = [status |-> "running", attempts |-> n]]
                    \in [Tasks -> [status : RowStatus, attempts : Nat]]
  BY Records DEF QueueTypeOK

(* The steps in which a statement of a worker fails outside the handler.   *)
Failing(k) == Breaks(k) \/ LookFails(k) \/ ResultFails(k) \/ RecordFails(k)

(* A failure touches the worker's slot only, and sends it to the outcome.  *)
LEMMA FailingStep ==
    ASSUME QueueTypeOK, NEW k \in Workers, Failing(k)
    PROVE  /\ row' = row /\ job' = job /\ request' = request /\ stranded' = stranded
           /\ used.deaths < MaxDeaths /\ used' = [used EXCEPT !.deaths = @ + 1]
           /\ slot' \in [Workers -> Slots]
           /\ \A j \in Workers \ {k} : slot'[j] = slot[j]
           /\ slot[k].at \in {"picked", "looked", "claimed", "ended"}
           /\ slot'[k].task = slot[k].task /\ slot'[k].attempts = slot[k].attempts
           /\ \/ /\ slot[k].at \in {"claimed", "ended"}
                 /\ slot'[k].at = "ended" /\ slot'[k].out = "threw"
              \/ slot'[k].at = "acking" /\ slot'[k].out = "broken"
<1>1. slot \in [Workers -> Slots] /\ slot[k] \in Slots
  BY DEF QueueTypeOK
<1>2. /\ {"ended", "acking"} \subseteq Places /\ {"threw", "broken"} \subseteq Outcomes
  BY DEF Places, Outcomes
<1>3. /\ row' = row /\ job' = job /\ request' = request /\ stranded' = stranded
      /\ used.deaths < MaxDeaths /\ used' = [used EXCEPT !.deaths = @ + 1]
      /\ slot[k].at \in {"picked", "looked", "claimed", "ended"}
  BY DEF Failing, Breaks, LookFails, ResultFails, RecordFails, Fault
<1>4. \/ slot' = [slot EXCEPT ![k] = [slot[k] EXCEPT !.at = "acking", !.out = "broken"]]
      \/ /\ slot[k].at \in {"claimed", "ended"}
         /\ slot' = [slot EXCEPT ![k] = [slot[k] EXCEPT !.at = "ended", !.out = "threw"]]
  <2>1. CASE Breaks(k) \/ RecordFails(k)
    BY <1>1, <2>1 DEF Breaks, RecordFails, Acks, Slots
  <2>2. CASE LookFails(k)
    BY <1>1, <2>2 DEF LookFails, Slots
  <2>3. CASE ResultFails(k)
    <3>1. [slot[k] EXCEPT !.out = "threw"] = [slot[k] EXCEPT !.at = "ended", !.out = "threw"]
      BY <1>1, <2>3 DEF ResultFails, Slots
    <3> QED
      BY <1>1, <2>3, <3>1 DEF ResultFails
  <2> QED
    BY <2>1, <2>2, <2>3 DEF Failing
<1>5. /\ [slot[k] EXCEPT !.at = "acking", !.out = "broken"] \in Slots
      /\ [slot[k] EXCEPT !.at = "ended", !.out = "threw"] \in Slots
  BY <1>1, <1>2 DEF Slots
<1>6. slot' \in [Workers -> Slots] /\ \A j \in Workers \ {k} : slot'[j] = slot[j]
  BY <1>1, <1>4, <1>5
<1>7. \/ slot'[k] = [slot[k] EXCEPT !.at = "acking", !.out = "broken"]
      \/ /\ slot[k].at \in {"claimed", "ended"}
         /\ slot'[k] = [slot[k] EXCEPT !.at = "ended", !.out = "threw"]
  BY <1>1, <1>4
<1>8. /\ slot'[k].task = slot[k].task /\ slot'[k].attempts = slot[k].attempts
      /\ \/ /\ slot[k].at \in {"claimed", "ended"}
            /\ slot'[k].at = "ended" /\ slot'[k].out = "threw"
         \/ slot'[k].at = "acking" /\ slot'[k].out = "broken"
  BY <1>1, <1>7 DEF Slots
<1> QED
  BY <1>3, <1>6, <1>8

(* What a worker records is a status.                                      *)
LEMMA OutcomeTypes ==
    ASSUME QueueTypeOK, NEW k \in Workers, slot[k].task \in Tasks
    PROVE  Recorded(k) \in RowStatus
  BY Records DEF QueueTypeOK, Recorded

(* Every step leaves the tables of their type.                             *)
LEMMA QueueStepTypes ==
    ASSUME QueueTypeOK, SlotHasTask, QueueNext
    PROVE  QueueTypeOK'
<1> USE Constants, Records DEF QueueTypeOK
<1> DEFINE RowRecords == [status : RowStatus, attempts : Nat]
           Useds == [deaths : 0 .. MaxDeaths, lapses : 0 .. MaxLapses, requests : 0 .. MaxRequests]
<1>a. /\ {"idle", "picked", "looked", "claimed", "handling", "ended", "acking"} \subseteq Places
      /\ {"none", "returned", "threw", "unrecoverable", "retry", "broken"} \subseteq Outcomes
      /\ HandlerOutcomes \subseteq Outcomes
  BY DEF Places, Outcomes, HandlerOutcomes
<1>d. used.deaths < MaxDeaths => [used EXCEPT !.deaths = @ + 1] \in Useds
  <2> HAVE used.deaths < MaxDeaths
  <2>1. used.deaths \in 0 .. MaxDeaths
    OBVIOUS
  <2>2. used.deaths + 1 \in 0 .. MaxDeaths
    BY <2>1
  <2> QED
    BY <2>2
<1>l. used.lapses < MaxLapses => [used EXCEPT !.lapses = @ + 1] \in Useds
  <2> HAVE used.lapses < MaxLapses
  <2>1. used.lapses \in 0 .. MaxLapses
    OBVIOUS
  <2>2. used.lapses + 1 \in 0 .. MaxLapses
    BY <2>1
  <2> QED
    BY <2>2
<1>r. used.requests < MaxRequests => [used EXCEPT !.requests = @ + 1] \in Useds
  <2> HAVE used.requests < MaxRequests
  <2>1. used.requests \in 0 .. MaxRequests
    OBVIOUS
  <2>2. used.requests + 1 \in 0 .. MaxRequests
    BY <2>1
  <2> QED
    BY <2>2
<1>1. ASSUME NEW t \in Tasks, CreateTask(t) PROVE QueueTypeOK'
  <2>1. (t \notin Renders) \in BOOLEAN /\ (t \in Renders) \in BOOLEAN
    OBVIOUS
  <2>2. request' \in [Tasks -> Requests]
    BY <1>1, <2>1, RequestWrites DEF CreateTask
  <2> QED
    BY <1>1, <2>2, RowWrites DEF CreateTask
<1>2. ASSUME NEW t \in Tasks, Publish(t) \/ Deliver(t) \/ Diagnose(t) PROVE QueueTypeOK'
  <2>1. Added(t) \in Jobs /\ Redelivered(t) \in Jobs
    <3>1. job[t] \in Jobs
      OBVIOUS
    <3>2. [NoJob EXCEPT !.state = "waiting"] \in Jobs
      BY DEF NoJob, Jobs, LiveJob
    <3>3. [job[t] EXCEPT !.state = "waiting"] \in Jobs
      BY <3>1 DEF Jobs, LiveJob
    <3> QED
      BY <3>1, <3>2, <3>3 DEF Added, Redelivered
  <2>2. job' \in [Tasks -> Jobs]
    BY <1>2, <2>1, JobWrites DEF Publish, Deliver, Diagnose
  <2>3. request' \in [Tasks -> Requests]
    <3>1. /\ [request EXCEPT ![t].publish = FALSE] \in [Tasks -> Requests]
          /\ [request EXCEPT ![t].deliver = FALSE] \in [Tasks -> Requests]
      BY RequestWrites
    <3> QED
      BY <1>2, <3>1 DEF Publish, Deliver, Diagnose
  <2> QED
    BY <1>2, <2>2, <2>3 DEF Publish, Deliver, Diagnose
<1>3. ASSUME NEW t \in Tasks, ApiDies(t) PROVE QueueTypeOK'
  BY <1>3, <1>d, RequestWrites DEF ApiDies
<1>4. ASSUME NEW k \in Workers, NEW t \in Tasks, Pick(k, t) PROVE QueueTypeOK'
  <2>1. job[t].made + 1 \in Nat
    BY DEF Jobs
  <2>2. [IdleSlot EXCEPT !.at = "picked", !.task = t, !.attempts = job[t].made + 1] \in Slots
    BY <1>a, <2>1 DEF IdleSlot, Slots
  <2>3. "active" \in LiveJob
    BY DEF LiveJob
  <2> QED
    BY <1>4, <2>2, <2>3, SlotWrites, JobWrites DEF Pick
<1>5. ASSUME NEW k \in Workers, LookActive(k) PROVE QueueTypeOK'
  <2>1. {u \in Renders \ {slot[k].task} : job[u].state = "active"} \in SUBSET Tasks
    OBVIOUS
  <2> QED
    BY <1>5, <1>a, <2>1, SlotWrites DEF LookActive
<1>6. ASSUME NEW k \in Workers, Claim(k) PROVE QueueTypeOK'
  <2>1. slot[k].at # "idle" /\ slot[k].task \in Tasks
    BY <1>6 DEF Claim, SlotHasTask
  <2>2. slot[k].attempts \in Nat
    BY DEF Slots
  <2>3. row' \in [Tasks -> RowRecords]
    BY <1>6, <2>1, <2>2, RowWrites DEF Claim
  <2>4. slot' \in [Workers -> Slots]
    <3>1. [slot EXCEPT ![k].at = "claimed"] \in [Workers -> Slots]
      BY <1>a, SlotWrites
    <3>2. [slot EXCEPT ![k].at = "acking"] \in [Workers -> Slots]
      BY <1>a, SlotWrites
    <3>3. [slot EXCEPT ![k].at = "acking", ![k].out = "returned"] \in [Workers -> Slots]
      BY <1>a, <3>2, SlotWrites
    <3> QED
      BY <1>6, <3>1, <3>3 DEF Claim, To, Acks
  <2> QED
    BY <1>6, <2>3, <2>4 DEF Claim
<1>7. ASSUME NEW k \in Workers, Postpone(k) PROVE QueueTypeOK'
  <2>1. slot[k].task \in Tasks
    BY <1>7 DEF Postpone, SlotHasTask
  <2>2. "waiting" \in LiveJob
    BY DEF LiveJob
  <2>3. [job EXCEPT ![slot[k].task].state = "waiting", ![slot[k].task].holder = NoWorker]
            \in [Tasks -> Jobs]
    BY <2>1, <2>2, JobWrites
  <2> QED
    BY <1>7, <2>3, SlotWrites DEF Postpone, BackTo, Free
<1>8. ASSUME NEW k \in Workers, Observe(k) PROVE QueueTypeOK'
  BY <1>8, <1>a, SlotWrites DEF Observe, To, Acks
<1>9. ASSUME NEW k \in Workers, Notice(k) PROVE QueueTypeOK'
  BY <1>9, <1>d, SlotWrites DEF Notice, Fault
<1>10. ASSUME NEW k \in Workers, NEW out \in HandlerOutcomes, HandlerEnds(k, out)
       PROVE  QueueTypeOK'
  BY <1>10, <1>a, SlotWrites DEF HandlerEnds
<1>11. ASSUME NEW k \in Workers, Record(k) PROVE QueueTypeOK'
  <2>1. slot[k].task \in Tasks
    BY <1>11 DEF Record, SlotHasTask
  <2>2. slot[k].out \in Outcomes
    BY DEF Slots
  <2>3. Recorded(k) \in RowStatus
    BY <2>1, OutcomeTypes
  <2> QED
    BY <1>11, <1>a, <2>1, <2>2, <2>3, SlotWrites, RowWrites DEF Record, Acks
<1>12. ASSUME NEW k \in Workers, Ack(k) PROVE QueueTypeOK'
  <2>1. slot[k].task \in Tasks
    BY <1>12 DEF Ack, SlotHasTask
  <2>2. job[slot[k].task].made + 1 \in Nat
    BY <2>1 DEF Jobs
  <2>3. job' \in [Tasks -> Jobs]
    BY <1>12, <2>1, <2>2 DEF Ack, Jobs, LiveJob
  <2>4. stranded' \subseteq Tasks
    BY <1>12, <2>1 DEF Ack
  <2> QED
    BY <1>12, <2>3, <2>4, SlotWrites DEF Ack, Free
<1>13. ASSUME NEW k \in Workers, WorkerDies(k) PROVE QueueTypeOK'
  <2>1. slot[k].task \in Tasks
    BY <1>13 DEF WorkerDies, SlotHasTask
  <2> QED
    BY <1>13, <1>d, <2>1, SlotWrites, JobWrites DEF WorkerDies, Free
<1>14. ASSUME NEW k \in Workers, LockLapses(k) PROVE QueueTypeOK'
  <2>1. slot[k].task \in Tasks
    BY <1>14 DEF LockLapses, SlotHasTask
  <2> QED
    BY <1>14, <1>l, <2>1, JobWrites DEF LockLapses
<1>15. ASSUME NEW t \in Tasks, StalledCheck(t) PROVE QueueTypeOK'
  <2>1. "waiting" \in LiveJob
    BY DEF LiveJob
  <2>2. [job EXCEPT ![t].state = "failed", ![t].holder = NoWorker] \in [Tasks -> Jobs]
    BY JobWrites
  <2>3. [job EXCEPT ![t].state = "waiting", ![t].stalled = TRUE] \in [Tasks -> Jobs]
    BY <2>1, JobWrites
  <2> QED
    BY <1>15, <2>2, <2>3 DEF StalledCheck, BackTo, Strand
<1>16. ASSUME NEW t \in Tasks, Cancel(t) PROVE QueueTypeOK'
  <2>1. row[t].status \in RowStatus
    OBVIOUS
  <2> QED
    BY <1>16, <1>r, <2>1, RowWrites, RequestWrites DEF Cancel, Asks
<1>17. ASSUME NEW t \in Tasks, Withdraw(t) PROVE QueueTypeOK'
  <2>1. [job EXCEPT ![t] = NoJob] \in [Tasks -> Jobs]
    BY JobWrites
  <2>2. job' \in [Tasks -> Jobs] /\ stranded' \subseteq Tasks
    BY <1>17, <2>1 DEF Withdraw, Strand
  <2> QED
    BY <1>17, <2>2, RequestWrites DEF Withdraw
<1>18. ASSUME NEW t \in Tasks, ResumeLooks(t) PROVE QueueTypeOK'
  <2>1. request[t].resumers + 1 \in Nat
    BY DEF Requests
  <2> QED
    BY <1>18, <1>r, <2>1, RequestWrites DEF ResumeLooks, Asks
<1>19. ASSUME NEW t \in Tasks, ResumeReserves(t) \/ ResumeRefused(t) PROVE QueueTypeOK'
  <2>1. request[t].resumers \in Nat /\ request[t].resumers > 0
    BY <1>19 DEF Requests, ResumeReserves, ResumeRefused
  <2>2. request[t].resumers - 1 \in Nat
    BY <2>1
  <2>3. row[t].status \in RowStatus
    OBVIOUS
  <2>4. row' \in [Tasks -> RowRecords]
    BY <1>19, <2>3, RowWrites DEF ResumeReserves, ResumeRefused
  <2>5. request' \in [Tasks -> Requests]
    <3>1. /\ [request EXCEPT ![t].resumers = request[t].resumers - 1] \in [Tasks -> Requests]
          /\ [request EXCEPT ![t].resumers = request[t].resumers - 1, ![t].deliver = TRUE]
                 \in [Tasks -> Requests]
      BY <2>2, RequestWrites
    <3> QED
      BY <1>19, <3>1 DEF ResumeReserves, ResumeRefused
  <2> QED
    BY <1>19, <2>4, <2>5 DEF ResumeReserves, ResumeRefused
<1>20. ASSUME NEW t \in Tasks, DeliverAgain(t) PROVE QueueTypeOK'
  BY <1>20, <1>r, RequestWrites DEF DeliverAgain, Asks
<1>21. ASSUME SpentElsewhere PROVE QueueTypeOK'
  BY <1>21 DEF SpentElsewhere
<1>22. ASSUME NEW k \in Workers, Failing(k) PROVE QueueTypeOK'
  BY <1>22, <1>d, FailingStep
<1> QED
  BY <1>1, <1>2, <1>3, <1>4, <1>5, <1>6, <1>7, <1>8, <1>9, <1>10, <1>11, <1>12, <1>13, <1>14,
     <1>15, <1>16, <1>17, <1>18, <1>19, <1>20, <1>21, <1>22
  DEF QueueNext, QueueStep, Failing
-----------------------------------------------------------------------------
(* Slots, jobs and requests.                                               *)

(* A slot that moves on keeps its task and its attempt.                    *)
LEMMA Moving ==
    ASSUME QueueTypeOK, NEW k \in Workers
    PROVE  /\ \A p \in {"claimed", "handling"} : To(k, p) =>
                /\ slot'[k].at = p /\ slot'[k].task = slot[k].task
                /\ slot'[k].attempts = slot[k].attempts /\ slot'[k].out = slot[k].out
                /\ \A j \in Workers \ {k} : slot'[j] = slot[j]
           /\ \A o \in Outcomes : Acks(k, o) =>
                /\ slot'[k].at = "acking" /\ slot'[k].task = slot[k].task
                /\ slot'[k].attempts = slot[k].attempts /\ slot'[k].out = o
                /\ \A j \in Workers \ {k} : slot'[j] = slot[j]
<1>1. slot \in [Workers -> Slots] /\ slot[k] \in Slots
  BY DEF QueueTypeOK
<1>2. ASSUME NEW p \in {"claimed", "handling"}, To(k, p)
      PROVE  /\ slot'[k].at = p /\ slot'[k].task = slot[k].task
             /\ slot'[k].attempts = slot[k].attempts /\ slot'[k].out = slot[k].out
             /\ \A j \in Workers \ {k} : slot'[j] = slot[j]
  BY <1>1, <1>2 DEF To, Slots
<1>3. ASSUME NEW o \in Outcomes, Acks(k, o)
      PROVE  /\ slot'[k].at = "acking" /\ slot'[k].task = slot[k].task
             /\ slot'[k].attempts = slot[k].attempts /\ slot'[k].out = o
             /\ \A j \in Workers \ {k} : slot'[j] = slot[j]
  BY <1>1, <1>3 DEF Acks, Slots
<1> QED
  BY <1>2, <1>3

(* A task that has a row keeps it.                                         *)
LEMMA RowsRemain ==
    ASSUME QueueTypeOK, SlotHasTask, QueueNext
    PROVE  \A u \in Tasks : row[u].status # "none" => row'[u].status # "none"
<1> USE DEF QueueTypeOK
<1>1. ASSUME NEW t \in Tasks, CreateTask(t)
      PROVE  \A u \in Tasks : row[u].status # "none" => row'[u].status # "none"
  BY <1>1 DEF CreateTask
<1>2. ASSUME NEW k \in Workers, Claim(k)
      PROVE  \A u \in Tasks : row[u].status # "none" => row'[u].status # "none"
  BY <1>2 DEF Claim, Claims, To, Acks
<1>3. ASSUME NEW k \in Workers, Record(k)
      PROVE  \A u \in Tasks : row[u].status # "none" => row'[u].status # "none"
  BY <1>3 DEF Record, Acks, Recorded
<1>4. ASSUME NEW t \in Tasks, Cancel(t)
      PROVE  \A u \in Tasks : row[u].status # "none" => row'[u].status # "none"
  BY <1>4 DEF Cancel, Asks
<1>5. ASSUME NEW t \in Tasks, ResumeReserves(t)
      PROVE  \A u \in Tasks : row[u].status # "none" => row'[u].status # "none"
  BY <1>5 DEF ResumeReserves
<1>6. ASSUME \/ \E t \in Tasks : Publish(t) \/ Deliver(t) \/ Diagnose(t) \/ ApiDies(t) \/ StalledCheck(t) \/ Withdraw(t) \/ ResumeLooks(t) \/ ResumeRefused(t) \/ DeliverAgain(t)
             \/ \E k \in Workers : LookActive(k) \/ Postpone(k) \/ Observe(k) \/ Notice(k) \/ Ack(k) \/ WorkerDies(k) \/ LockLapses(k)
             \/ \E k \in Workers, out \in HandlerOutcomes : HandlerEnds(k, out)
             \/ \E k \in Workers, t \in Tasks : Pick(k, t)
             \/ SpentElsewhere
      PROVE  \A u \in Tasks : row[u].status # "none" => row'[u].status # "none"
  BY <1>6 DEF Publish, Added, Deliver, Redelivered, Diagnose, ApiDies, Pick, LookActive,
         Postpone, BackTo, Free, Holds, Observe, To, Acks, Notice, HandlerEnds,
         HandlerOutcomes, Ack, WorkerDies, LockLapses, StalledCheck, Strand, Withdraw,
         ResumeLooks, Asks, ResumeRefused, DeliverAgain, SpentElsewhere
<1>7. ASSUME NEW k \in Workers, Failing(k)
      PROVE  \A u \in Tasks : row[u].status # "none" => row'[u].status # "none"
  BY <1>7, FailingStep
<1> QED
  BY <1>1, <1>2, <1>3, <1>4, <1>5, <1>6, <1>7 DEF QueueNext, QueueStep, Failing

(* A slot takes a task with its job, and a task with a job has a row.      *)
LEMMA SlotHasTaskStep ==
    ASSUME QueueTypeOK, SlotHasTask, RequestsFit, QueueNext
    PROVE  SlotHasTask'
<1>r. \A u \in Tasks : row[u].status # "none" => row'[u].status # "none"
  BY RowsRemain
<1> USE DEF QueueTypeOK, SlotHasTask, RequestsFit
<1>1. ASSUME NEW k \in Workers, NEW t \in Tasks, Pick(k, t) PROVE SlotHasTask'
  BY <1>1, <1>r DEF Pick, IdleSlot
<1>2. ASSUME NEW k \in Workers, LookActive(k) PROVE SlotHasTask'
  BY <1>2, <1>r DEF LookActive
<1>3. ASSUME NEW k \in Workers, Claim(k) PROVE SlotHasTask'
  <2>1. /\ slot'[k].at # "idle" /\ slot'[k].task = slot[k].task
        /\ \A j \in Workers \ {k} : slot'[j] = slot[j]
    BY <1>3, Moving DEF Claim, Outcomes
  <2>2. slot[k].at # "idle"
    BY <1>3 DEF Claim
  <2> QED
    BY <1>r, <2>1, <2>2
<1>4. ASSUME NEW k \in Workers, Postpone(k) PROVE SlotHasTask'
  BY <1>4, <1>r DEF Postpone, BackTo, Free, Holds, IdleSlot
<1>5. ASSUME NEW k \in Workers, Observe(k) PROVE SlotHasTask'
  BY <1>5, <1>r, Moving DEF Observe, Outcomes
<1>6. ASSUME NEW k \in Workers, Notice(k) PROVE SlotHasTask'
  BY <1>6, <1>r DEF Notice
<1>7. ASSUME NEW k \in Workers, NEW out \in HandlerOutcomes, HandlerEnds(k, out) PROVE SlotHasTask'
  BY <1>7, <1>r DEF HandlerEnds, HandlerOutcomes
<1>8. ASSUME NEW k \in Workers, Record(k) PROVE SlotHasTask'
  BY <1>8, <1>r DEF Record, Acks, Recorded
<1>9. ASSUME NEW k \in Workers, Ack(k) PROVE SlotHasTask'
  BY <1>9, <1>r DEF Ack, Free, Holds, IdleSlot
<1>10. ASSUME NEW k \in Workers, WorkerDies(k) PROVE SlotHasTask'
  BY <1>10, <1>r DEF WorkerDies, Free, Holds, IdleSlot
<1>11. ASSUME \/ \E t \in Tasks : CreateTask(t) \/ Publish(t) \/ Deliver(t) \/ Diagnose(t) \/ ApiDies(t) \/ StalledCheck(t) \/ Cancel(t) \/ Withdraw(t) \/ ResumeLooks(t) \/ ResumeReserves(t) \/ ResumeRefused(t) \/ DeliverAgain(t)
             \/ \E k \in Workers : LockLapses(k)
             \/ SpentElsewhere
      PROVE  SlotHasTask'
  BY <1>11, <1>r DEF CreateTask, Publish, Added, Deliver, Redelivered, Diagnose, ApiDies,
         LockLapses, Holds, StalledCheck, BackTo, Strand, Cancel, Asks, Withdraw, ResumeLooks,
         ResumeReserves, ResumeRefused, DeliverAgain, SpentElsewhere
<1>12. ASSUME NEW k \in Workers, Failing(k) PROVE SlotHasTask'
  BY <1>12, <1>r, FailingStep
<1> QED
  BY <1>1, <1>2, <1>3, <1>4, <1>5, <1>6, <1>7, <1>8, <1>9, <1>10, <1>11, <1>12
  DEF QueueNext, QueueStep, Failing

(* A lapse is not forgotten.                                               *)
LEMMA LapsesGrow ==
    ASSUME QueueTypeOK, QueueNext
    PROVE  used'.lapses = 0 => used.lapses = 0
<1> USE Constants DEF QueueTypeOK
<1>1. ASSUME NEW t \in Tasks, ApiDies(t) PROVE used'.lapses = 0 => used.lapses = 0
  BY <1>1 DEF ApiDies
<1>2. ASSUME NEW k \in Workers, Notice(k) PROVE used'.lapses = 0 => used.lapses = 0
  BY <1>2 DEF Notice, Fault
<1>3. ASSUME NEW k \in Workers, WorkerDies(k) PROVE used'.lapses = 0 => used.lapses = 0
  BY <1>3 DEF WorkerDies, Free, Holds, IdleSlot
<1>4. ASSUME NEW k \in Workers, LockLapses(k) PROVE used'.lapses = 0 => used.lapses = 0
  BY <1>4 DEF LockLapses, Holds
<1>5. ASSUME NEW t \in Tasks, Cancel(t) PROVE used'.lapses = 0 => used.lapses = 0
  BY <1>5 DEF Cancel, Asks
<1>6. ASSUME NEW t \in Tasks, ResumeLooks(t) PROVE used'.lapses = 0 => used.lapses = 0
  BY <1>6 DEF ResumeLooks, Asks
<1>7. ASSUME NEW t \in Tasks, DeliverAgain(t) PROVE used'.lapses = 0 => used.lapses = 0
  BY <1>7 DEF DeliverAgain, Asks
<1>8. ASSUME SpentElsewhere PROVE used'.lapses = 0 => used.lapses = 0
  BY <1>8 DEF SpentElsewhere
<1>9. ASSUME \/ \E t \in Tasks : CreateTask(t) \/ Publish(t) \/ Deliver(t) \/ Diagnose(t) \/ StalledCheck(t) \/ Withdraw(t) \/ ResumeReserves(t) \/ ResumeRefused(t)
             \/ \E k \in Workers : LookActive(k) \/ Claim(k) \/ Postpone(k) \/ Observe(k) \/ Record(k) \/ Ack(k)
             \/ \E k \in Workers, out \in HandlerOutcomes : HandlerEnds(k, out)
             \/ \E k \in Workers, t \in Tasks : Pick(k, t)
      PROVE  used'.lapses = 0 => used.lapses = 0
  BY <1>9 DEF CreateTask, Publish, Added, Deliver, Redelivered, Diagnose, Pick, LookActive,
         Claim, Postpone, BackTo, Free, Holds, Observe, HandlerEnds, HandlerOutcomes, Record,
         Acks, Recorded, Ack, StalledCheck, Strand, Withdraw, ResumeReserves, ResumeRefused
<1>10. ASSUME NEW k \in Workers, Failing(k) PROVE used'.lapses = 0 => used.lapses = 0
  BY <1>10, FailingStep
<1> QED
  BY <1>1, <1>2, <1>3, <1>4, <1>5, <1>6, <1>7, <1>8, <1>9, <1>10
  DEF QueueNext, QueueStep, Failing

(* Only a lapse takes a job from a slot that is still at work.             *)
LEMMA HoldersWorkStep ==
    ASSUME QueueTypeOK, SlotHasTask, HoldersWork, QueueNext
    PROVE  HoldersWork'
<1>l. used'.lapses = 0 => used.lapses = 0
  BY LapsesGrow
<1> USE Constants DEF QueueTypeOK, SlotHasTask, HoldersWork, Holds, Jobs
<1>1. ASSUME NEW t \in Tasks, Publish(t) PROVE HoldersWork'
  BY <1>1, <1>l DEF Publish, Added
<1>2. ASSUME NEW t \in Tasks, Deliver(t) PROVE HoldersWork'
  BY <1>2, <1>l DEF Deliver, Added, Redelivered
<1>3. ASSUME NEW t \in Tasks, Diagnose(t) PROVE HoldersWork'
  BY <1>3, <1>l DEF Diagnose, Added
<1>4. ASSUME NEW k \in Workers, NEW t \in Tasks, Pick(k, t) PROVE HoldersWork'
  BY <1>4, <1>l DEF Pick, IdleSlot
<1>5. ASSUME NEW k \in Workers, LookActive(k) PROVE HoldersWork'
  BY <1>5, <1>l DEF LookActive
<1>6. ASSUME NEW k \in Workers, Claim(k) PROVE HoldersWork'
  <2>1. \A j \in Workers :
            slot'[j].task = slot[j].task /\ (slot'[j].at # "idle" => slot[j].at # "idle")
    BY <1>6, Moving DEF Claim, Outcomes
  <2> QED
    BY <1>6, <1>l, <2>1 DEF Claim
<1>7. ASSUME NEW k \in Workers, Postpone(k) PROVE HoldersWork'
  <2>1. slot'[k].at = "idle" /\ \A j \in Workers \ {k} : slot'[j] = slot[j]
    BY <1>7 DEF Postpone, Free, IdleSlot
  <2>2. /\ \A u \in Tasks \ {slot[k].task} : job'[u] = job[u]
        /\ Holds(k) \/ job' = job
    BY <1>7 DEF Postpone, BackTo
  <2> QED
    BY <1>7, <1>l, <2>1, <2>2 DEF Postpone
<1>8. ASSUME NEW k \in Workers, Observe(k) PROVE HoldersWork'
  BY <1>8, <1>l, Moving DEF Observe, Outcomes
<1>9. ASSUME NEW k \in Workers, Notice(k) PROVE HoldersWork'
  BY <1>9, <1>l DEF Notice
<1>10. ASSUME NEW k \in Workers, NEW out \in HandlerOutcomes, HandlerEnds(k, out) PROVE HoldersWork'
  BY <1>10, <1>l DEF HandlerEnds, HandlerOutcomes
<1>11. ASSUME NEW k \in Workers, Record(k) PROVE HoldersWork'
  <2>1. slot[k].out \in Outcomes /\ "retry" \in Outcomes
    BY DEF Slots, Outcomes
  <2> QED
    BY <1>11, <1>l, <2>1, Moving DEF Record
<1>12. ASSUME NEW k \in Workers, Ack(k) PROVE HoldersWork'
  BY <1>12, <1>l DEF Ack, Free, Holds, IdleSlot
<1>13. ASSUME NEW k \in Workers, WorkerDies(k) PROVE HoldersWork'
  BY <1>13, <1>l DEF WorkerDies, Free, Holds, IdleSlot
<1>14. ASSUME NEW k \in Workers, LockLapses(k) PROVE HoldersWork'
  BY <1>14, <1>l DEF LockLapses, Holds
<1>15. ASSUME NEW t \in Tasks, StalledCheck(t) PROVE HoldersWork'
  BY <1>15, <1>l DEF StalledCheck, BackTo, Strand
<1>16. ASSUME NEW t \in Tasks, Withdraw(t) PROVE HoldersWork'
  BY <1>16, <1>l DEF Withdraw, Strand, NoJob
<1>17. ASSUME \/ \E t \in Tasks : CreateTask(t) \/ ApiDies(t) \/ Cancel(t) \/ ResumeLooks(t) \/ ResumeReserves(t) \/ ResumeRefused(t) \/ DeliverAgain(t)
             \/ SpentElsewhere
      PROVE  HoldersWork'
  BY <1>17, <1>l DEF CreateTask, ApiDies, Cancel, Asks, ResumeLooks, ResumeReserves,
         ResumeRefused, DeliverAgain, SpentElsewhere
<1>18. ASSUME NEW k \in Workers, Failing(k) PROVE HoldersWork'
  <2>1. /\ job' = job /\ slot[k].at # "idle" /\ slot'[k].task = slot[k].task
        /\ \A j \in Workers \ {k} : slot'[j] = slot[j]
    BY <1>18, FailingStep
  <2> QED
    BY <1>l, <2>1
<1> QED
  BY <1>1, <1>2, <1>3, <1>4, <1>5, <1>6, <1>7, <1>8, <1>9, <1>10, <1>11, <1>12, <1>13, <1>14,
     <1>15, <1>16, <1>17, <1>18 DEF QueueNext, QueueStep, Failing

(* As long as a slot keeps its task, it keeps its attempt.                 *)
LEMMA SameTask ==
    ASSUME QueueTypeOK, NEW k \in Workers,
           \/ LookActive(k) \/ Claim(k) \/ Observe(k) \/ Notice(k) \/ Record(k)
           \/ \E out \in HandlerOutcomes : HandlerEnds(k, out)
           \/ Failing(k)
    PROVE  /\ job' = job
           /\ \A j \in Workers : /\ slot'[j].task = slot[j].task
                                 /\ slot'[j].attempts = slot[j].attempts
                                 /\ slot'[j].at # "idle" => slot[j].at # "idle"
<1> USE DEF QueueTypeOK
<1>1. CASE Claim(k)
  BY <1>1, Moving DEF Claim, Outcomes
<1>2. CASE Observe(k)
  BY <1>2, Moving DEF Observe, Outcomes
<1>3. CASE Record(k)
  <2>1. slot[k].out \in Outcomes /\ "retry" \in Outcomes
    BY DEF Slots, Outcomes
  <2> QED
    BY <1>3, <2>1, Moving DEF Record
<1>4. CASE LookActive(k)
  BY <1>4 DEF LookActive, Slots
<1>5. CASE Notice(k)
  BY <1>5 DEF Notice, Slots
<1>6. ASSUME NEW out \in HandlerOutcomes, HandlerEnds(k, out)
      PROVE  /\ job' = job
             /\ \A j \in Workers : /\ slot'[j].task = slot[j].task
                                   /\ slot'[j].attempts = slot[j].attempts
                                   /\ slot'[j].at # "idle" => slot[j].at # "idle"
  <2>1. \A j \in Workers \ {k} : slot'[j] = slot[j]
    BY <1>6 DEF HandlerEnds
  <2>2. slot[k] \in Slots
    OBVIOUS
  <2>3. slot'[k].task = slot[k].task /\ slot'[k].attempts = slot[k].attempts
    BY <1>6, <2>2 DEF HandlerEnds, Slots
  <2> QED
    BY <1>6, <2>1, <2>3 DEF HandlerEnds
<1>7. CASE Failing(k)
  BY <1>7, FailingStep
<1> QED
  BY <1>1, <1>2, <1>3, <1>4, <1>5, <1>6, <1>7

(* Jobs come after rows, and deliveries are for renders.                   *)
LEMMA RequestsFitStep ==
    ASSUME QueueTypeOK, SlotHasTask, RequestsFit, QueueNext
    PROVE  RequestsFit'
<1>r. \A u \in Tasks : row[u].status # "none" => row'[u].status # "none"
  BY RowsRemain
<1> USE Constants DEF QueueTypeOK, SlotHasTask, RequestsFit, Requests
<1>1. ASSUME NEW t \in Tasks, CreateTask(t) PROVE RequestsFit'
  BY <1>1, <1>r DEF CreateTask
<1>2. ASSUME NEW t \in Tasks, Publish(t) PROVE RequestsFit'
  BY <1>2, <1>r DEF Publish, Added
<1>3. ASSUME NEW t \in Tasks, Deliver(t) PROVE RequestsFit'
  <2>1. /\ request[t].deliver /\ row' = row
        /\ request' = [request EXCEPT ![t].deliver = FALSE]
    BY <1>3 DEF Deliver
  <2>2. /\ \A u \in Tasks \ {t} : job'[u] = job[u]
        /\ IsOpen(t) \/ job'[t] = job[t]
    BY <1>3 DEF Deliver
  <2>3. row[t].status = "none" => ~IsOpen(t)
    BY DEF IsOpen, OpenRow
  <2>4. t \in Renders /\ ~request[t].publish
    BY <2>1
  <2>5. ASSUME NEW u \in Tasks
        PROVE  /\ request'[u].publish = request[u].publish
               /\ request'[u].resumers = request[u].resumers
               /\ request'[u].deliver => request[u].deliver
    BY <2>1
  <2> QED
    BY <2>1, <2>2, <2>3, <2>4, <2>5
<1>4. ASSUME NEW t \in Tasks, Diagnose(t) PROVE RequestsFit'
  <2>1. /\ t \in Renders /\ row[t].status = "pending"
        /\ \A u \in Tasks \ {t} : job'[u] = job[u]
        /\ row' = row /\ request' = request
    BY <1>4 DEF Diagnose
  <2> QED
    BY <2>1
<1>5. ASSUME NEW t \in Tasks, ApiDies(t) PROVE RequestsFit'
  BY <1>5 DEF ApiDies, NoRequest
<1>6. ASSUME NEW k \in Workers, NEW t \in Tasks, Pick(k, t) PROVE RequestsFit'
  BY <1>6, <1>r DEF Pick, IdleSlot
<1>7. ASSUME NEW k \in Workers, Postpone(k) PROVE RequestsFit'
  BY <1>7, <1>r DEF Postpone, BackTo, Free, Holds, IdleSlot
<1>8. ASSUME NEW k \in Workers, Record(k) PROVE RequestsFit'
  BY <1>8, <1>r DEF Record
<1>9. ASSUME NEW k \in Workers, Ack(k) PROVE RequestsFit'
  BY <1>9, <1>r DEF Ack, Free, Holds, IdleSlot
<1>10. ASSUME NEW k \in Workers, WorkerDies(k) PROVE RequestsFit'
  BY <1>10, <1>r DEF WorkerDies, Free, Holds, IdleSlot
<1>11. ASSUME NEW k \in Workers, LockLapses(k) PROVE RequestsFit'
  BY <1>11, <1>r DEF LockLapses, Holds
<1>12. ASSUME NEW t \in Tasks, StalledCheck(t) PROVE RequestsFit'
  BY <1>12, <1>r DEF StalledCheck, BackTo, Strand
<1>13. ASSUME NEW t \in Tasks, Cancel(t) PROVE RequestsFit'
  BY <1>13, <1>r DEF Cancel, Asks
<1>14. ASSUME NEW t \in Tasks, Withdraw(t) PROVE RequestsFit'
  BY <1>14, <1>r DEF Withdraw, Strand, NoJob
<1>15. ASSUME NEW t \in Tasks, ResumeLooks(t) PROVE RequestsFit'
  BY <1>15, <1>r DEF ResumeLooks, Asks
<1>16. ASSUME NEW t \in Tasks, ResumeReserves(t) PROVE RequestsFit'
  BY <1>16, <1>r DEF ResumeReserves
<1>17. ASSUME NEW t \in Tasks, ResumeRefused(t) PROVE RequestsFit'
  BY <1>17, <1>r DEF ResumeRefused
<1>18. ASSUME NEW t \in Tasks, DeliverAgain(t) PROVE RequestsFit'
  BY <1>18, <1>r DEF DeliverAgain, Asks
<1>19. ASSUME NEW k \in Workers, Claim(k) PROVE RequestsFit'
  BY <1>19, <1>r DEF Claim
<1>20. ASSUME NEW k \in Workers, LookActive(k) PROVE RequestsFit'
  BY <1>20 DEF LookActive
<1>21. ASSUME NEW k \in Workers, Observe(k) \/ Notice(k) PROVE RequestsFit'
  BY <1>21 DEF Observe, Notice
<1>22. ASSUME NEW k \in Workers, NEW out \in HandlerOutcomes, HandlerEnds(k, out)
       PROVE  RequestsFit'
  BY <1>22 DEF HandlerEnds
<1>23. ASSUME SpentElsewhere PROVE RequestsFit'
  BY <1>23 DEF SpentElsewhere
<1>24. ASSUME NEW k \in Workers, Failing(k) PROVE RequestsFit'
  <2>1. row' = row /\ job' = job /\ request' = request
    BY <1>24, FailingStep
  <2> QED
    BY <2>1
<1> HIDE DEF QueueTypeOK, SlotHasTask, RequestsFit, Requests
<1> QED
  BY <1>1, <1>2, <1>3, <1>4, <1>5, <1>6, <1>7, <1>8, <1>9, <1>10, <1>11, <1>12, <1>13, <1>14,
     <1>15, <1>16, <1>17, <1>18, <1>19, <1>20, <1>21, <1>22, <1>23, <1>24
  DEF QueueNext, QueueStep, Failing

(* The attempts of a job grow when it is given back, never before.         *)
LEMMA AttemptsAgreeStep ==
    ASSUME QueueTypeOK, SlotHasTask, AttemptsAgree, QueueNext
    PROVE  AttemptsAgree'
<1> USE Constants DEF QueueTypeOK, SlotHasTask, AttemptsAgree, Holds, Jobs
<1>1. ASSUME NEW t \in Tasks, Publish(t) PROVE AttemptsAgree'
  BY <1>1 DEF Publish, Added
<1>2. ASSUME NEW t \in Tasks, Deliver(t) PROVE AttemptsAgree'
  BY <1>2 DEF Deliver, Added, Redelivered
<1>3. ASSUME NEW t \in Tasks, Diagnose(t) PROVE AttemptsAgree'
  BY <1>3 DEF Diagnose, Added
<1>4. ASSUME NEW k \in Workers, NEW t \in Tasks, Pick(k, t) PROVE AttemptsAgree'
  BY <1>4 DEF Pick, IdleSlot
<1>5. ASSUME NEW k \in Workers, LookActive(k) PROVE AttemptsAgree'
  BY <1>5, SameTask
<1>6. ASSUME NEW k \in Workers, Claim(k) PROVE AttemptsAgree'
  BY <1>6, SameTask
<1>7. ASSUME NEW k \in Workers, Postpone(k) PROVE AttemptsAgree'
  <2>1. slot'[k].at = "idle" /\ \A j \in Workers \ {k} : slot'[j] = slot[j]
    BY <1>7 DEF Postpone, Free, IdleSlot
  <2>2. /\ \A u \in Tasks \ {slot[k].task} : job'[u] = job[u]
        /\ Holds(k) \/ job' = job
    BY <1>7 DEF Postpone, BackTo
  <2>3. job'[slot[k].task].state = "waiting" \/ job' = job
    BY <1>7 DEF Postpone, BackTo
  <2> QED
    BY <1>7, <2>1, <2>2, <2>3 DEF Postpone
<1>8. ASSUME NEW k \in Workers, Observe(k) PROVE AttemptsAgree'
  BY <1>8, SameTask
<1>9. ASSUME NEW k \in Workers, Notice(k) PROVE AttemptsAgree'
  BY <1>9, SameTask
<1>10. ASSUME NEW k \in Workers, NEW out \in HandlerOutcomes, HandlerEnds(k, out)
      PROVE  AttemptsAgree'
  BY <1>10, SameTask
<1>11. ASSUME NEW k \in Workers, Record(k) PROVE AttemptsAgree'
  BY <1>11, SameTask
<1>12. ASSUME NEW k \in Workers, Ack(k) PROVE AttemptsAgree'
  BY <1>12 DEF Ack, Free, Holds, IdleSlot
<1>13. ASSUME NEW k \in Workers, WorkerDies(k) PROVE AttemptsAgree'
  BY <1>13 DEF WorkerDies, Free, Holds, IdleSlot
<1>14. ASSUME NEW k \in Workers, LockLapses(k) PROVE AttemptsAgree'
  <2>1. /\ \A u \in Tasks \ {slot[k].task} : job'[u] = job[u]
        /\ job'[slot[k].task].holder = NoWorker /\ slot' = slot
    BY <1>14 DEF LockLapses
  <2> QED
    BY <2>1
<1>15. ASSUME NEW t \in Tasks, StalledCheck(t) PROVE AttemptsAgree'
  <2>1. /\ \A u \in Tasks \ {t} : job'[u] = job[u]
        /\ job'[t].state # "active" /\ slot' = slot
    BY <1>15 DEF StalledCheck, BackTo
  <2> QED
    BY <2>1
<1>16. ASSUME NEW t \in Tasks, Withdraw(t) PROVE AttemptsAgree'
  <2>1. /\ \A u \in Tasks \ {t} : job'[u] = job[u]
        /\ job'[t].state # "active" \/ job' = job
        /\ slot' = slot
    BY <1>16 DEF Withdraw, NoJob
  <2> QED
    BY <2>1
<1>17. ASSUME \/ \E t \in Tasks : CreateTask(t) \/ ApiDies(t) \/ Cancel(t) \/ ResumeLooks(t) \/ ResumeReserves(t) \/ ResumeRefused(t) \/ DeliverAgain(t)
             \/ SpentElsewhere
      PROVE  AttemptsAgree'
  BY <1>17 DEF CreateTask, ApiDies, Cancel, Asks, ResumeLooks, ResumeReserves, ResumeRefused,
         DeliverAgain, SpentElsewhere
<1>18. ASSUME NEW k \in Workers, Failing(k) PROVE AttemptsAgree'
  BY <1>18, SameTask
<1> QED
  BY <1>1, <1>2, <1>3, <1>4, <1>5, <1>6, <1>7, <1>8, <1>9, <1>10, <1>11, <1>12, <1>13, <1>14,
     <1>15, <1>16, <1>17, <1>18 DEF QueueNext, QueueStep, Failing

(* No handler ends with a retry.                                           *)
LEMMA OutcomesFitStep ==
    ASSUME QueueTypeOK, OutcomesFit, QueueNext
    PROVE  OutcomesFit'
<1> USE DEF QueueTypeOK, OutcomesFit, Slots
<1>1. ASSUME NEW k \in Workers, NEW t \in Tasks, Pick(k, t) PROVE OutcomesFit'
  BY <1>1 DEF Pick, IdleSlot
<1>2. ASSUME NEW k \in Workers, LookActive(k) PROVE OutcomesFit'
  BY <1>2 DEF LookActive
<1>3. ASSUME NEW k \in Workers, Claim(k) PROVE OutcomesFit'
  BY <1>3, Moving DEF Claim, Outcomes
<1>4. ASSUME NEW k \in Workers, Postpone(k) PROVE OutcomesFit'
  BY <1>4 DEF Postpone, BackTo, Free, Holds, IdleSlot
<1>5. ASSUME NEW k \in Workers, Observe(k) PROVE OutcomesFit'
  BY <1>5, Moving DEF Observe, Outcomes
<1>6. ASSUME NEW k \in Workers, Notice(k) PROVE OutcomesFit'
  BY <1>6 DEF Notice
<1>7. ASSUME NEW k \in Workers, NEW out \in HandlerOutcomes, HandlerEnds(k, out) PROVE OutcomesFit'
  BY <1>7 DEF HandlerEnds, HandlerOutcomes
<1>8. ASSUME NEW k \in Workers, Record(k) PROVE OutcomesFit'
  <2>1. slot[k].out \in Outcomes /\ "retry" \in Outcomes
    BY DEF Slots, Outcomes
  <2> QED
    BY <1>8, <2>1, Moving DEF Record
<1>9. ASSUME NEW k \in Workers, Ack(k) PROVE OutcomesFit'
  BY <1>9 DEF Ack, Free, Holds, IdleSlot
<1>10. ASSUME NEW k \in Workers, WorkerDies(k) PROVE OutcomesFit'
  BY <1>10 DEF WorkerDies, Free, Holds, IdleSlot
<1>11. ASSUME \/ \E t \in Tasks : CreateTask(t) \/ Publish(t) \/ Deliver(t) \/ Diagnose(t) \/ ApiDies(t) \/ StalledCheck(t) \/ Cancel(t) \/ Withdraw(t) \/ ResumeLooks(t) \/ ResumeReserves(t) \/ ResumeRefused(t) \/ DeliverAgain(t)
             \/ \E k \in Workers : LockLapses(k)
             \/ SpentElsewhere
      PROVE  OutcomesFit'
  BY <1>11 DEF CreateTask, Publish, Added, Deliver, Redelivered, Diagnose, ApiDies, LockLapses,
         Holds, StalledCheck, BackTo, Strand, Cancel, Asks, Withdraw, ResumeLooks,
         ResumeReserves, ResumeRefused, DeliverAgain, SpentElsewhere
<1>12. ASSUME NEW k \in Workers, Failing(k) PROVE OutcomesFit'
  BY <1>12, FailingStep
<1> QED
  BY <1>1, <1>2, <1>3, <1>4, <1>5, <1>6, <1>7, <1>8, <1>9, <1>10, <1>11, <1>12
  DEF QueueNext, QueueStep, Failing

-----------------------------------------------------------------------------
(* What a slot may conclude about the row.                                 *)

(* As long as no lock lapses, two slots never work on one task.            *)
LEMMA SlotsApart ==
    ASSUME SlotHasTask, HoldersWork, used.lapses = 0,
           NEW j \in Workers, NEW k \in Workers, j # k,
           slot[j].at # "idle", slot[k].at # "idle"
    PROVE  slot[j].task # slot[k].task
  BY DEF SlotHasTask, HoldersWork, Holds

(* Nobody else writes the row of a plain task its worker has claimed.      *)
LEMMA PlainRowsStep ==
    ASSUME QueueTypeOK, SlotHasTask, HoldersWork, RequestsFit, OutcomesFit, PlainRows, QueueNext
    PROVE  PlainRows'
<1> SUFFICES ASSUME used'.lapses = 0, NEW j \in Workers,
                    slot'[j].at # "idle", slot'[j].task \notin Renders
             PROVE  PlainRow(j)'
  BY DEF PlainRows
<1>l. used.lapses = 0
  BY LapsesGrow
<1>t. slot[j].at # "idle" => slot[j].task \in Tasks /\ row[slot[j].task].status # "none"
  BY DEF SlotHasTask
<1>o. ASSUME slot[j].at # "idle", slot[j].task \notin Renders PROVE PlainRow(j)
  BY <1>o, <1>l DEF PlainRows
<1>f. ASSUME slot'[j] = slot[j],
             \/ row'[slot[j].task] = row[slot[j].task]
             \/ row'[slot[j].task].status \notin OpenRow
      PROVE  PlainRow(j)'
  BY <1>f, <1>o DEF PlainRow, IsOpen, Attempts
<1>1. ASSUME NEW t \in Tasks, CreateTask(t) PROVE PlainRow(j)'
  <2>1. slot' = slot /\ row[t].status = "none"
    BY <1>1 DEF CreateTask
  <2>2. row'[slot[j].task] = row[slot[j].task]
    BY <1>1, <1>t, <2>1 DEF CreateTask, QueueTypeOK
  <2> QED
    BY <1>f, <2>1, <2>2
<1>2. ASSUME NEW t \in Tasks,
             \/ Publish(t) \/ Deliver(t) \/ Diagnose(t) \/ ApiDies(t) \/ StalledCheck(t)
             \/ Withdraw(t) \/ ResumeLooks(t) \/ ResumeRefused(t) \/ DeliverAgain(t)
      PROVE  PlainRow(j)'
  <2>1. slot' = slot /\ row' = row
    BY <1>2 DEF Publish, Deliver, Diagnose, ApiDies, StalledCheck, Withdraw, ResumeLooks,
                ResumeRefused, DeliverAgain
  <2> QED
    BY <1>f, <2>1
<1>3. ASSUME NEW t \in Tasks, Cancel(t) PROVE PlainRow(j)'
  <2>1. slot' = slot
        /\ row' = [row EXCEPT ![t].status = IF IsOpen(t) THEN "cancelled" ELSE row[t].status]
    BY <1>3 DEF Cancel
  <2>2. \/ row'[slot[j].task] = row[slot[j].task]
        \/ row'[slot[j].task].status \notin OpenRow
    BY <1>t, <2>1 DEF QueueTypeOK, IsOpen, OpenRow
  <2> QED
    BY <1>f, <2>1, <2>2
<1>4. ASSUME NEW t \in Tasks, ResumeReserves(t) PROVE PlainRow(j)'
  <2>1. slot' = slot /\ request[t].resumers > 0
    BY <1>4 DEF ResumeReserves
  <2>2. t \in Renders
    BY <2>1 DEF RequestsFit
  <2>3. row'[slot[j].task] = row[slot[j].task]
    BY <1>4, <2>1, <2>2 DEF ResumeReserves
  <2> QED
    BY <1>f, <2>1, <2>3
<1>5. ASSUME NEW k \in Workers, NEW t \in Tasks, Pick(k, t) PROVE PlainRow(j)'
  <2>1. row' = row /\ \A i \in Workers \ {k} : slot'[i] = slot[i]
    BY <1>5 DEF Pick
  <2>2. slot'[k].at = "picked"
    BY <1>5 DEF Pick, IdleSlot, QueueTypeOK
  <2>3. CASE j = k
    BY <2>2, <2>3 DEF PlainRow
  <2> QED
    BY <1>f, <2>1, <2>3
<1>6. ASSUME NEW k \in Workers, Claim(k) PROVE PlainRow(j)'
  <2>1. slot[k].at # "idle" /\ slot[k].task \in Tasks
    BY <1>6 DEF Claim, SlotHasTask
  <2>2. CASE j # k
    <3>1. slot'[j] = slot[j]
      BY <1>6, <2>2, Moving DEF Claim, Outcomes
    <3>2. slot[j].task # slot[k].task
      BY <1>l, <2>1, <2>2, <3>1, SlotsApart
    <3>3. row'[slot[j].task] = row[slot[j].task]
      BY <1>6, <1>t, <3>1, <3>2 DEF Claim, QueueTypeOK
    <3> QED
      BY <1>f, <3>1, <3>3
  <2>3. CASE j = k /\ Claims(slot[k].task)
    <3>1. To(k, "claimed")
          /\ row' = [row EXCEPT ![slot[k].task] =
                        [status |-> "running", attempts |-> slot[k].attempts]]
      BY <1>6, <2>3 DEF Claim
    <3>2. slot'[k].at = "claimed" /\ slot'[k].task = slot[k].task
          /\ slot'[k].attempts = slot[k].attempts
      BY <3>1, Moving
    <3>3. row'[slot[k].task] = [status |-> "running", attempts |-> slot[k].attempts]
      BY <2>1, <3>1 DEF QueueTypeOK
    <3> QED
      BY <2>3, <3>2, <3>3 DEF PlainRow
  <2>4. CASE j = k /\ ~Claims(slot[k].task)
    <3>1. Acks(k, "returned") /\ row' = row
      BY <1>6, <2>4 DEF Claim
    <3>2. slot'[k].at = "acking" /\ slot'[k].task = slot[k].task /\ slot'[k].out = "returned"
      BY <3>1, Moving DEF Outcomes
    <3> QED
      BY <2>4, <3>1, <3>2 DEF PlainRow, Claims, IsOpen
  <2> QED
    BY <2>2, <2>3, <2>4
<1>7. ASSUME NEW k \in Workers, LookActive(k) \/ Postpone(k) \/ WorkerDies(k) \/ LockLapses(k)
      PROVE  PlainRow(j)'
  <2>1. row' = row /\ \A i \in Workers \ {k} : slot'[i] = slot[i]
    <3>1. CASE LookActive(k)
      BY <3>1 DEF LookActive, QueueTypeOK
    <3>2. CASE Postpone(k) \/ WorkerDies(k)
      BY <3>2 DEF Postpone, WorkerDies, Free, QueueTypeOK
    <3>3. CASE LockLapses(k)
      BY <3>3 DEF LockLapses
    <3> QED
      BY <1>7, <3>1, <3>2, <3>3
  <2>2. slot'[k] = slot[k] \/ slot'[k].at \in {"idle", "looked"}
    BY <1>7 DEF LookActive, Postpone, WorkerDies, LockLapses, Free, IdleSlot, QueueTypeOK, Slots
  <2>3. CASE slot'[j].at = "looked"
    BY <2>3 DEF PlainRow
  <2> QED
    BY <1>f, <2>1, <2>2, <2>3
<1>8. ASSUME NEW k \in Workers, Observe(k) PROVE PlainRow(j)'
  <2>1. row' = row
    BY <1>8 DEF Observe
  <2>2. CASE j # k
    <3>1. slot'[j] = slot[j]
      BY <1>8, <2>2, Moving DEF Observe, Outcomes
    <3> QED
      BY <1>f, <2>1, <3>1
  <2>3. CASE j = k
    <3>1. slot[k].at = "claimed"
      BY <1>8 DEF Observe
    <3>2. slot'[k].task = slot[k].task /\ slot'[k].attempts = slot[k].attempts
      BY <1>8, SameTask
    <3>3. IsOpen(slot[k].task) => row[slot[k].task] =
              [status |-> "running", attempts |-> slot[k].attempts]
      BY <1>o, <2>3, <3>1, <3>2 DEF PlainRow
    <3>4. CASE row[slot[k].task].status = "running"
      <4>1. slot'[k].at = "handling"
        BY <1>8, <3>4, Moving DEF Observe
      <4> QED
        BY <2>1, <2>3, <3>2, <3>3, <4>1 DEF PlainRow, IsOpen
    <3>5. CASE row[slot[k].task].status # "running"
      <4>1. slot'[k].at = "acking" /\ slot'[k].out = "returned"
        BY <1>8, <3>5, Moving DEF Observe, Outcomes
      <4>2. ~IsOpen(slot[k].task)
        BY <3>3, <3>5
      <4> QED
        BY <2>1, <2>3, <3>2, <4>1, <4>2 DEF PlainRow, IsOpen
    <3> QED
      BY <3>4, <3>5
  <2> QED
    BY <2>2, <2>3
<1>9. ASSUME NEW k \in Workers,
             Notice(k) \/ \E out \in HandlerOutcomes : HandlerEnds(k, out)
      PROVE  PlainRow(j)'
  <2>1. row' = row /\ \A i \in Workers \ {k} : slot'[i] = slot[i]
    <3>1. CASE Notice(k)
      BY <3>1 DEF Notice, QueueTypeOK
    <3>2. CASE \E out \in HandlerOutcomes : HandlerEnds(k, out)
      BY <3>2 DEF HandlerEnds, QueueTypeOK
    <3> QED
      BY <1>9, <3>1, <3>2
  <2>2. slot'[k].task = slot[k].task /\ slot'[k].attempts = slot[k].attempts
    BY <1>9, SameTask
  <2>3. slot[k].at = "handling" /\ slot'[k].at \in {"handling", "ended"}
    BY <1>9 DEF Notice, HandlerEnds, QueueTypeOK, Slots
  <2>4. CASE j = k
    BY <1>o, <2>1, <2>2, <2>3, <2>4 DEF PlainRow, IsOpen
  <2> QED
    BY <1>f, <2>1, <2>4
<1>10. ASSUME NEW k \in Workers, Record(k) PROVE PlainRow(j)'
  <2>1. slot[k].at = "ended" /\ slot[k].task \in Tasks /\ slot[k].out # "retry"
    BY <1>10 DEF Record, SlotHasTask, OutcomesFit
  <2>2. slot[k].out \in Outcomes /\ "retry" \in Outcomes
    BY DEF QueueTypeOK, Slots, Outcomes
  <2>3. Acks(k, IF Retries(k) THEN "retry" ELSE slot[k].out)
        /\ row' = [row EXCEPT ![slot[k].task].status = Recorded(k)]
    BY <1>10 DEF Record
  <2>4. CASE j # k
    <3>1. slot'[j] = slot[j]
      BY <2>2, <2>3, <2>4, Moving
    <3>2. slot[j].task # slot[k].task
      BY <1>l, <2>1, <2>4, <3>1, SlotsApart
    <3>3. row'[slot[j].task] = row[slot[j].task]
      BY <2>3, <3>2
    <3> QED
      BY <1>f, <3>1, <3>3
  <2>5. CASE j = k
    <3>1. /\ slot'[k].at = "acking" /\ slot'[k].task = slot[k].task
          /\ slot'[k].attempts = slot[k].attempts
          /\ slot'[k].out = IF Retries(k) THEN "retry" ELSE slot[k].out
      BY <2>2, <2>3, Moving
    <3>2. row'[slot[k].task].status = Recorded(k)
      BY <2>1, <2>3 DEF QueueTypeOK
    <3>3. CASE Retries(k)
      <4>1. slot[k].attempts < Attempts(slot[k].task)
        BY <3>3 DEF Retries
      <4> QED
        BY <2>5, <3>1, <3>3, <4>1 DEF PlainRow, Attempts
    <3>4. CASE ~Retries(k)
      <4>1. Recorded(k) \notin OpenRow
        BY <2>1, <3>4 DEF Recorded, OpenRow
      <4> QED
        BY <2>1, <2>5, <3>1, <3>2, <3>4, <4>1 DEF PlainRow, IsOpen
    <3> QED
      BY <3>3, <3>4
  <2> QED
    BY <2>4, <2>5
<1>11. ASSUME NEW k \in Workers, Ack(k) PROVE PlainRow(j)'
  <2>1. row' = row /\ \A i \in Workers \ {k} : slot'[i] = slot[i]
    BY <1>11 DEF Ack, Free
  <2>2. slot'[k].at = "idle"
    BY <1>11 DEF Ack, Free, IdleSlot, QueueTypeOK
  <2> QED
    BY <1>f, <2>1, <2>2
<1>12. ASSUME SpentElsewhere PROVE PlainRow(j)'
  BY <1>12, <1>f DEF SpentElsewhere
<1>13. ASSUME NEW k \in Workers, Failing(k) PROVE PlainRow(j)'
  <2>1. /\ row' = row /\ \A i \in Workers \ {k} : slot'[i] = slot[i]
        /\ slot[k].at # "idle"
        /\ slot'[k].task = slot[k].task /\ slot'[k].attempts = slot[k].attempts
        /\ \/ slot[k].at \in {"claimed", "ended"} /\ slot'[k].at = "ended"
           \/ slot'[k].at = "acking" /\ slot'[k].out = "broken"
    BY <1>13, FailingStep
  <2>2. CASE j = k
    BY <1>o, <2>1, <2>2 DEF PlainRow, IsOpen
  <2> QED
    BY <1>f, <2>1, <2>2
<1> QED
  BY <1>1, <1>2, <1>3, <1>4, <1>5, <1>6, <1>7, <1>8, <1>9, <1>10, <1>11, <1>12, <1>13
  DEF QueueNext, QueueStep, Failing

-----------------------------------------------------------------------------
(* Delivery.                                                               *)

(* A worker that gives its job back for good has left an ended row, or the *)
(* task is on record as stranded.                                          *)
LEMMA GivenBack ==
    ASSUME QueueTypeOK, SlotHasTask, AttemptsAgree, PlainRows, NEW k \in Workers, Ack(k),
           Holds(k), IsOpen(slot[k].task)
    PROVE  slot[k].task \in stranded' \/ job'[slot[k].task].state = "waiting"
<1> DEFINE t == slot[k].task
<1>1. slot[k].at = "acking" /\ t \in Tasks
  BY DEF Ack, SlotHasTask
<1>2. CASE t \in Renders \/ used.lapses > 0 \/ slot[k].out = "broken"
  <2>1. LeftOpen(k)
    BY <1>2 DEF LeftOpen
  <2> QED
    BY <2>1 DEF Ack
<1>3. CASE t \notin Renders /\ ~(used.lapses > 0) /\ slot[k].out # "broken"
  <2>1. used.lapses = 0
    BY <1>3, Constants DEF QueueTypeOK
  <2>2. PlainRow(k)
    BY <1>1, <1>3, <2>1 DEF PlainRows
  <2>3. slot[k].out = "retry" /\ slot[k].attempts < Attempts(t)
    BY <1>1, <1>3, <2>2 DEF PlainRow
  <2>4. job[t].made + 1 < Attempts(t)
    BY <1>1, <2>3 DEF AttemptsAgree
  <2>5. job' = [job EXCEPT ![t] = [job[t] EXCEPT !.holder = NoWorker, !.made = job[t].made + 1,
                                                !.state = "waiting"]]
    BY <2>3, <2>4 DEF Ack
  <2> QED
    BY <1>1, <2>5 DEF QueueTypeOK, Jobs
<1> QED
  BY <1>2, <1>3

(* No step leaves an open task behind, but on record as stranded.          *)
LEMMA DeliveryStep ==
    ASSUME QueueInv, QueueNext
    PROVE  OpenTaskIsDelivered'
<1> SUFFICES ASSUME NEW u \in Tasks, IsOpen(u)', u \notin stranded'
             PROVE  \/ job'[u].state \in LiveJob
                    \/ request'[u].publish \/ request'[u].deliver
  BY DEF OpenTaskIsDelivered
<1> DEFINE OnItsWay == \/ job'[u].state \in LiveJob
                       \/ request'[u].publish \/ request'[u].deliver
<1>a. QueueTypeOK /\ SlotHasTask /\ RequestsFit /\ AttemptsAgree /\ PlainRows
      /\ OpenTaskIsDelivered
  BY DEF QueueInv
<1>f. ASSUME IsOpen(u), u \notin stranded, job'[u].state \in LiveJob \union {job[u].state},
             request[u].publish => request'[u].publish,
             request[u].deliver => request'[u].deliver
      PROVE  OnItsWay
  BY <1>a, <1>f DEF OpenTaskIsDelivered
<1>o. ASSUME row' = row PROVE IsOpen(u)
  BY <1>o DEF IsOpen
<1>1. ASSUME NEW t \in Tasks, CreateTask(t) PROVE OnItsWay
  <2>1. CASE u = t
    BY <1>1, <1>a, <2>1 DEF CreateTask, QueueTypeOK, Requests
  <2>2. CASE u # t
    <3>1. row'[u] = row[u] /\ request'[u] = request[u] /\ job' = job /\ stranded' = stranded
      BY <1>1, <1>a, <2>2 DEF CreateTask, QueueTypeOK
    <3> QED
      BY <1>f, <3>1 DEF IsOpen
  <2> QED
    BY <2>1, <2>2
<1>2. ASSUME NEW t \in Tasks, Publish(t) PROVE OnItsWay
  <2>1. row' = row /\ stranded' = stranded /\ job[t].state = "none"
    BY <1>2, <1>a DEF Publish, RequestsFit
  <2>2. job' = [job EXCEPT ![t] = [NoJob EXCEPT !.state = "waiting"]]
    BY <1>2, <2>1 DEF Publish, Added
  <2>3. CASE u = t
    BY <1>a, <2>2, <2>3 DEF NoJob, LiveJob, QueueTypeOK
  <2>4. CASE u # t
    <3>1. job'[u] = job[u] /\ request'[u] = request[u]
      BY <1>2, <2>2, <2>4 DEF Publish
    <3> QED
      BY <1>f, <1>o, <2>1, <3>1
  <2> QED
    BY <2>3, <2>4
<1>3. ASSUME NEW t \in Tasks, Deliver(t) PROVE OnItsWay
  <2>1. row' = row
    BY <1>3 DEF Deliver
  <2>2. CASE u = t
    <3>1. job' = [job EXCEPT ![t] = Redelivered(t)]
      BY <1>3, <1>o, <2>1, <2>2 DEF Deliver
    <3>2. job[t] \in Jobs
      BY <1>a DEF QueueTypeOK
    <3>3. Redelivered(t).state \in LiveJob
      BY <3>2 DEF Redelivered, Added, NoJob, Jobs, LiveJob
    <3> QED
      BY <1>a, <2>2, <3>1, <3>3 DEF QueueTypeOK
  <2>3. CASE u # t
    <3>1. job'[u] = job[u] /\ request'[u] = request[u] /\ u \notin stranded
      BY <1>3, <2>3 DEF Deliver
    <3> QED
      BY <1>f, <1>o, <2>1, <3>1
  <2> QED
    BY <2>2, <2>3
<1>4. ASSUME NEW t \in Tasks, Diagnose(t) PROVE OnItsWay
  <2>1. job' = [job EXCEPT ![t] = [NoJob EXCEPT !.state = "waiting"]]
        /\ row' = row /\ request' = request
    BY <1>4 DEF Diagnose, Added
  <2>2. CASE u = t
    BY <1>a, <2>1, <2>2 DEF NoJob, LiveJob, QueueTypeOK
  <2>3. CASE u # t
    <3>1. job'[u] = job[u] /\ u \notin stranded
      BY <1>4, <2>1, <2>3 DEF Diagnose
    <3> QED
      BY <1>f, <1>o, <2>1, <3>1
  <2> QED
    BY <2>2, <2>3
<1>5. ASSUME NEW t \in Tasks, ApiDies(t) PROVE OnItsWay
  <2>1. row' = row /\ job' = job
    BY <1>5 DEF ApiDies
  <2>2. IsOpen(u)
    BY <1>o, <2>1
  <2>3. CASE u = t
    BY <1>5, <2>1, <2>2, <2>3 DEF ApiDies
  <2>4. CASE u # t
    <3>1. request'[u] = request[u] /\ u \notin stranded
      BY <1>5, <2>4 DEF ApiDies
    <3> QED
      BY <1>f, <2>1, <2>2, <3>1
  <2> QED
    BY <2>3, <2>4
<1>6. ASSUME NEW k \in Workers, NEW t \in Tasks, Pick(k, t) PROVE OnItsWay
  <2>1. row' = row /\ request' = request /\ stranded' = stranded
        /\ job'[u].state \in LiveJob \union {job[u].state}
    BY <1>6, <1>a DEF Pick, QueueTypeOK, Jobs, LiveJob
  <2> QED
    BY <1>f, <1>o, <2>1
<1>7. ASSUME NEW k \in Workers,
             \/ LookActive(k) \/ Observe(k) \/ Notice(k)
             \/ \E out \in HandlerOutcomes : HandlerEnds(k, out)
             \/ Failing(k)
      PROVE  OnItsWay
  <2>1. row' = row /\ job' = job /\ request' = request /\ stranded' = stranded
    BY <1>7, <1>a, FailingStep DEF LookActive, Observe, Notice, HandlerEnds
  <2> QED
    BY <1>f, <1>o, <2>1
<1>8. ASSUME NEW k \in Workers, Claim(k) \/ Record(k) PROVE OnItsWay
  <2>1. job' = job /\ request' = request /\ stranded' = stranded
    BY <1>8 DEF Claim, Record
  <2>2. slot[k].task \in Tasks
    BY <1>8, <1>a DEF Claim, Record, SlotHasTask
  <2>3. IsOpen(u)
    BY <1>8, <1>a, <2>2 DEF Claim, Claims, Record, Recorded, IsOpen, OpenRow, QueueTypeOK
  <2> QED
    BY <1>f, <2>1, <2>3
<1>9. ASSUME NEW k \in Workers, Postpone(k) \/ WorkerDies(k) \/ LockLapses(k) PROVE OnItsWay
  <2>1. row' = row /\ request' = request /\ stranded' = stranded
    BY <1>9 DEF Postpone, WorkerDies, LockLapses
  <2>2. slot[k].task \in Tasks
    BY <1>9, <1>a DEF Postpone, WorkerDies, LockLapses, SlotHasTask
  <2>3. job[u] \in Jobs /\ job \in [Tasks -> Jobs]
    BY <1>a DEF QueueTypeOK
  <2>4. job'[u].state \in LiveJob \union {job[u].state}
    <3>1. CASE Postpone(k)
      BY <2>2, <2>3, <3>1 DEF Postpone, BackTo, Jobs, LiveJob
    <3>2. CASE WorkerDies(k)
      BY <2>2, <2>3, <3>2 DEF WorkerDies, Jobs
    <3>3. CASE LockLapses(k)
      BY <2>2, <2>3, <3>3 DEF LockLapses, Jobs
    <3> QED
      BY <1>9, <3>1, <3>2, <3>3
  <2> QED
    BY <1>f, <1>o, <2>1, <2>4
<1>10. ASSUME NEW k \in Workers, Ack(k) PROVE OnItsWay
  <2>1. row' = row /\ request' = request /\ u \notin stranded
    BY <1>10 DEF Ack
  <2>2. CASE u = slot[k].task /\ Holds(k)
    BY <1>10, <1>a, <1>o, <2>1, <2>2, GivenBack DEF LiveJob
  <2>3. CASE ~(u = slot[k].task /\ Holds(k))
    <3>1. job'[u] = job[u]
      BY <1>10, <2>3 DEF Ack
    <3> QED
      BY <1>f, <1>o, <2>1, <3>1
  <2> QED
    BY <2>2, <2>3
<1>11. ASSUME NEW t \in Tasks, StalledCheck(t) PROVE OnItsWay
  <2>1. row' = row /\ request' = request /\ u \notin stranded
    BY <1>11 DEF StalledCheck, Strand
  <2>2. IsOpen(u)
    BY <1>o, <2>1
  <2>3. job'[u].state \in LiveJob \union {job[u].state}
    <3>1. job \in [Tasks -> Jobs] /\ job[t] \in Jobs
      BY <1>a DEF QueueTypeOK
    <3>2. CASE u = t
      <4>1. ~job[t].stalled
        BY <1>11, <2>2, <3>2 DEF StalledCheck, Strand
      <4> QED
        BY <1>11, <3>1, <3>2, <4>1 DEF StalledCheck, LiveJob, Jobs
    <3>3. CASE u # t
      BY <1>11, <3>1, <3>3 DEF StalledCheck, BackTo
    <3> QED
      BY <3>2, <3>3
  <2> QED
    BY <1>f, <2>1, <2>2, <2>3
<1>12. ASSUME NEW t \in Tasks, Cancel(t) PROVE OnItsWay
  <2>1. job' = job /\ stranded' = stranded
        /\ row' = [row EXCEPT ![t].status = IF IsOpen(t) THEN "cancelled" ELSE row[t].status]
        /\ request' = [request EXCEPT ![t].withdraw = TRUE]
    BY <1>12 DEF Cancel
  <2>2. IsOpen(u)
    BY <1>a, <2>1 DEF IsOpen, OpenRow, QueueTypeOK
  <2>3. request'[u].publish = request[u].publish /\ request'[u].deliver = request[u].deliver
    BY <1>a, <2>1 DEF QueueTypeOK, Requests
  <2> QED
    BY <1>f, <2>1, <2>2, <2>3
<1>13. ASSUME NEW t \in Tasks, Withdraw(t) PROVE OnItsWay
  <2>1. row' = row /\ u \notin stranded
        /\ request' = [request EXCEPT ![t].withdraw = FALSE]
    BY <1>13 DEF Withdraw, Strand
  <2>2. IsOpen(u)
    BY <1>o, <2>1
  <2>3. request'[u].publish = request[u].publish /\ request'[u].deliver = request[u].deliver
    BY <1>a, <2>1 DEF QueueTypeOK, Requests
  <2>4. job'[u] = job[u]
    <3>1. CASE u = t
      BY <1>13, <2>2, <3>1 DEF Withdraw, Strand
    <3>2. CASE u # t
      BY <1>13, <1>a, <3>2 DEF Withdraw, QueueTypeOK
    <3> QED
      BY <3>1, <3>2
  <2> QED
    BY <1>f, <2>1, <2>2, <2>3, <2>4
<1>14. ASSUME NEW t \in Tasks, ResumeLooks(t) \/ ResumeRefused(t) PROVE OnItsWay
  <2>1. row' = row /\ job' = job /\ stranded' = stranded
    BY <1>14 DEF ResumeLooks, ResumeRefused
  <2>2. request'[u].publish = request[u].publish /\ request'[u].deliver = request[u].deliver
    BY <1>14, <1>a DEF ResumeLooks, ResumeRefused, QueueTypeOK, Requests
  <2> QED
    BY <1>f, <1>o, <2>1, <2>2
<1>15. ASSUME NEW t \in Tasks, ResumeReserves(t) PROVE OnItsWay
  <2>1. CASE u = t
    BY <1>15, <1>a, <2>1 DEF ResumeReserves, QueueTypeOK, Requests
  <2>2. CASE u # t
    <3>1. /\ row'[u] = row[u] /\ request'[u] = request[u]
          /\ job' = job /\ u \notin stranded
      BY <1>15, <1>a, <2>2 DEF ResumeReserves, QueueTypeOK
    <3> QED
      BY <1>f, <3>1 DEF IsOpen
  <2> QED
    BY <2>1, <2>2
<1>16. ASSUME NEW t \in Tasks, DeliverAgain(t) PROVE OnItsWay
  <2>1. row' = row /\ job' = job /\ stranded' = stranded
    BY <1>16 DEF DeliverAgain
  <2>2. /\ request[u].publish => request'[u].publish
        /\ request[u].deliver => request'[u].deliver
    BY <1>16, <1>a DEF DeliverAgain, QueueTypeOK, Requests
  <2> QED
    BY <1>f, <1>o, <2>1, <2>2
<1>17. ASSUME SpentElsewhere PROVE OnItsWay
  BY <1>17, <1>f, <1>o DEF SpentElsewhere
<1> QED
  BY <1>1, <1>2, <1>3, <1>4, <1>5, <1>6, <1>7, <1>8, <1>9, <1>10, <1>11, <1>12, <1>13, <1>14,
     <1>15, <1>16, <1>17
  DEF QueueNext, QueueStep, Failing

(* The invariant is inductive.                                             *)
LEMMA QueueInvStep ==
    ASSUME QueueInv, [QueueNext]_queueVars
    PROVE  QueueInv'
<1>1. CASE QueueNext
  BY <1>1, QueueStepTypes, SlotHasTaskStep, HoldersWorkStep, RequestsFitStep, AttemptsAgreeStep,
     OutcomesFitStep, PlainRowsStep, DeliveryStep
  DEF QueueInv
<1>2. CASE UNCHANGED queueVars
  <2>1. /\ row' = row /\ job' = job /\ slot' = slot
        /\ request' = request /\ stranded' = stranded /\ used' = used
    BY <1>2 DEF queueVars
  <2>2. QueueTypeOK' /\ SlotHasTask' /\ RequestsFit' /\ OutcomesFit'
    BY <2>1 DEF QueueInv, QueueTypeOK, SlotHasTask, RequestsFit, OutcomesFit
  <2>3. HoldersWork' /\ AttemptsAgree'
    BY <2>1 DEF QueueInv, HoldersWork, AttemptsAgree, Holds
  <2>4. PlainRows' /\ OpenTaskIsDelivered'
    BY <2>1 DEF QueueInv, PlainRows, PlainRow, OpenTaskIsDelivered, IsOpen, Attempts
  <2> QED
    BY <2>2, <2>3, <2>4 DEF QueueInv
<1> QED
  BY <1>1, <1>2

(* The inductive invariant of the queue holds in every reachable state.    *)
THEOREM QueueInvariance == QueueSpec => []QueueInv
<1>1. QueueInit => QueueInv
  BY QueueInitInv
<1>2. QueueInv /\ [QueueNext]_queueVars => QueueInv'
  BY QueueInvStep
<1> QED
  BY <1>1, <1>2, PTL DEF QueueSpec

(* Every variable of the queue keeps its type.                             *)
THEOREM QueueTypeCorrect == QueueSpec => []QueueTypeOK
<1>1. QueueInv => QueueTypeOK
  BY DEF QueueInv
<1> QED
  BY <1>1, QueueInvariance, PTL

(* An open task has a job, or the API is about to deliver it, unless it is *)
(* on record as stranded: no other step of bullmq-queue.ts loses a task.   *)
THEOREM OpenTasksAreDelivered == QueueSpec => []OpenTaskIsDelivered
<1>1. QueueInv => OpenTaskIsDelivered
  BY DEF QueueInv
<1> QED
  BY <1>1, QueueInvariance, PTL

(* Two slots of bullmq-queue.ts never run one task at the same time, unless *)
(* a job's lock has lapsed under a live worker.                            *)
THEOREM TasksHaveOneWorker == QueueSpec => []OneWorkerPerTask
<1>1. ASSUME QueueInv PROVE OneWorkerPerTask
  <2> SUFFICES ASSUME used.lapses = 0, NEW t \in Tasks
               PROVE  Cardinality(Busy(t)) <= 1
    BY DEF OneWorkerPerTask
  <2>1. SlotHasTask /\ HoldersWork
    BY <1>1 DEF QueueInv
  <2>2. \A k \in Busy(t) : slot[k].at # "idle"
    BY <2>1, Constants DEF Busy, SlotHasTask
  <2>3. \A j, k \in Busy(t) : j = k
    BY <2>1, <2>2, SlotsApart DEF Busy
  <2>4. CASE Busy(t) = {}
    BY <2>4, FS_EmptySet
  <2>5. CASE Busy(t) # {}
    <3>1. PICK k \in Busy(t) : TRUE
      BY <2>5
    <3>2. Busy(t) = {k}
      BY <2>3, <3>1
    <3>3. Cardinality({k}) = 1
      BY FS_Singleton
    <3> QED
      BY <3>2, <3>3
  <2> QED
    BY <2>4, <2>5
<1> QED
  BY <1>1, QueueInvariance, PTL

-----------------------------------------------------------------------------
(* The rows live the life of TaskLife.                                     *)

Statuses == [t \in Tasks |-> row[t].status]

(* A row that is written changes the status of its task only.              *)
LEMMA StatusWritten ==
    ASSUME QueueTypeOK, NEW t \in Tasks, NEW s, row' = [row EXCEPT ![t].status = s]
    PROVE  Statuses' = [Statuses EXCEPT ![t] = s]
<1>1. \A u \in Tasks : row'[u].status = IF u = t THEN s ELSE row[u].status
  BY DEF QueueTypeOK
<1> QED
  BY <1>1 DEF Statuses

(* A step of the queue is a step of at most one life.                      *)
LEMMA LifeStep ==
    ASSUME QueueInv, [QueueNext]_queueVars
    PROVE  Life!LifeNext \/ Statuses' = Statuses
<1>a. QueueTypeOK /\ SlotHasTask /\ RequestsFit
  BY DEF QueueInv
<1>s. \A t \in Tasks : Statuses[t] = row[t].status
  BY DEF Statuses
<1>o. ASSUME row' = row PROVE Statuses' = Statuses
  BY <1>o DEF Statuses
<1>1. ASSUME NEW t \in Tasks, CreateTask(t) PROVE Life!LifeNext
  <2>1. row' = [row EXCEPT ![t].status = "pending"] /\ row[t].status = "none"
    BY <1>1 DEF CreateTask
  <2>2. Life!Submitted(t)
    BY <1>a, <1>s, <2>1, StatusWritten DEF Life!Submitted, Statuses
  <2> QED
    BY <2>2 DEF Life!LifeNext
<1>2. ASSUME NEW k \in Workers, Claim(k) PROVE Life!LifeNext \/ Statuses' = Statuses
  <2>1. slot[k].task \in Tasks
    BY <1>2, <1>a DEF Claim, SlotHasTask
  <2>t. PICK t \in Tasks : t = slot[k].task
    BY <2>1
  <2>2. CASE Claims(t)
    <3>1. row' = [row EXCEPT ![t] = [status |-> "running", attempts |-> slot[k].attempts]]
      BY <1>2, <2>t, <2>2 DEF Claim
    <3>2. \A u \in Tasks : row'[u].status = IF u = t THEN "running" ELSE row[u].status
      BY <1>a, <3>1 DEF QueueTypeOK
    <3>3. Statuses' = [Statuses EXCEPT ![t] = "running"]
      BY <3>2 DEF Statuses
    <3>4. CASE row[t].status = "pending"
      <4>1. Life!Begun(t)
        BY <1>s, <3>3, <3>4 DEF Life!Begun, Statuses
      <4> QED
        BY <4>1 DEF Life!LifeNext
    <3>5. CASE row[t].status = "running"
      BY <1>s, <3>3, <3>5 DEF Statuses
    <3> QED
      BY <2>2, <3>4, <3>5 DEF Claims, IsOpen, OpenRow
  <2>3. CASE ~Claims(t)
    BY <1>2, <1>o, <2>t, <2>3 DEF Claim
  <2> QED
    BY <2>2, <2>3
<1>3. ASSUME NEW k \in Workers, Record(k) PROVE Life!LifeNext \/ Statuses' = Statuses
  <2>1. slot[k].task \in Tasks
    BY <1>3, <1>a DEF Record, SlotHasTask
  <2>t. PICK t \in Tasks : t = slot[k].task
    BY <2>1
  <2>2. Statuses' = [Statuses EXCEPT ![t] = Recorded(k)]
    BY <1>3, <1>a, <2>t, StatusWritten DEF Record
  <2>3. CASE row[t].status \in OpenRow /\ Recorded(k) \in {"succeeded", "failed"}
    <3>1. PICK e \in {"succeeded", "failed"} : e = Recorded(k)
      BY <2>3
    <3>2. Life!EndedAs(t, e) /\ e \in Life!Ended
      BY <1>s, <2>2, <2>3, <3>1 DEF Life!EndedAs, Life!Open, Life!Ended, OpenRow, Statuses
    <3> QED
      BY <3>2 DEF Life!LifeNext
  <2>4. CASE row[t].status = "running" /\ Recorded(k) = "pending"
    <3>1. Life!PutBack(t)
      BY <1>s, <2>2, <2>4 DEF Life!PutBack, Statuses
    <3> QED
      BY <3>1 DEF Life!LifeNext
  <2>5. CASE Recorded(k) = row[t].status
    BY <1>s, <2>2, <2>5 DEF Statuses
  <2>6. \/ row[t].status \in OpenRow /\ Recorded(k) \in {"succeeded", "failed"}
        \/ row[t].status = "running" /\ Recorded(k) = "pending"
        \/ Recorded(k) = row[t].status
    BY <2>t DEF Recorded
  <2> QED
    BY <2>3, <2>4, <2>5, <2>6
<1>4. ASSUME NEW t \in Tasks, Cancel(t) PROVE Life!LifeNext \/ Statuses' = Statuses
  <2>1. Statuses' = [Statuses EXCEPT ![t] = IF IsOpen(t) THEN "cancelled" ELSE row[t].status]
    BY <1>4, <1>a, StatusWritten DEF Cancel
  <2>2. CASE IsOpen(t)
    <3>1. Life!EndedAs(t, "cancelled") /\ "cancelled" \in Life!Ended
      BY <1>s, <2>1, <2>2 DEF Life!EndedAs, Life!Open, Life!Ended, IsOpen, OpenRow, Statuses
    <3> QED
      BY <3>1 DEF Life!LifeNext
  <2>3. CASE ~IsOpen(t)
    BY <1>s, <2>1, <2>3 DEF Statuses
  <2> QED
    BY <2>2, <2>3
<1>5. ASSUME NEW t \in Tasks, ResumeReserves(t) PROVE Life!LifeNext \/ Statuses' = Statuses
  <2>1. t \in Renders
    BY <1>5, <1>a DEF ResumeReserves, RequestsFit
  <2>2. Statuses' = [Statuses EXCEPT
          ![t] = IF row[t].status \in {"failed", "cancelled"} THEN "pending" ELSE row[t].status]
    BY <1>5, <1>a, StatusWritten DEF ResumeReserves
  <2>3. CASE row[t].status \in {"failed", "cancelled"}
    <3>1. Life!Reopened(t)
      BY <1>s, <2>1, <2>2, <2>3 DEF Life!Reopened, Statuses
    <3> QED
      BY <3>1 DEF Life!LifeNext
  <2>4. CASE row[t].status \notin {"failed", "cancelled"}
    BY <1>s, <2>2, <2>4 DEF Statuses
  <2> QED
    BY <2>3, <2>4
<1>6. ASSUME NEW t \in Tasks,
             \/ Publish(t) \/ Deliver(t) \/ Diagnose(t) \/ ApiDies(t) \/ StalledCheck(t)
             \/ Withdraw(t) \/ ResumeLooks(t) \/ ResumeRefused(t) \/ DeliverAgain(t)
             \/ \E k \in Workers : Pick(k, t)
      PROVE  Statuses' = Statuses
  BY <1>6, <1>o DEF Publish, Deliver, Diagnose, ApiDies, StalledCheck, Withdraw, ResumeLooks,
                    ResumeRefused, DeliverAgain, Pick
<1>7. ASSUME NEW k \in Workers,
             \/ LookActive(k) \/ Postpone(k) \/ Observe(k) \/ Notice(k) \/ Ack(k)
             \/ LockLapses(k) \/ WorkerDies(k) \/ \E out \in HandlerOutcomes : HandlerEnds(k, out)
             \/ Failing(k)
      PROVE  Statuses' = Statuses
  BY <1>7, <1>a, <1>o, FailingStep
  DEF LookActive, Postpone, Observe, Notice, Ack, LockLapses, WorkerDies, HandlerEnds
<1>8. ASSUME SpentElsewhere \/ UNCHANGED queueVars PROVE Statuses' = Statuses
  BY <1>8, <1>o DEF SpentElsewhere, queueVars
<1> QED
  BY <1>1, <1>2, <1>3, <1>4, <1>5, <1>6, <1>7, <1>8 DEF QueueNext, QueueStep, Failing

(* Whatever the queue, its workers, their crashes and the owner do, a task *)
(* lives the life TaskLife promises: the status column of tasks moves as   *)
(* the statements of database.ts and of reserve let it, one end per life.  *)
THEOREM RowsLiveTheirLife == QueueSpec => LifeOfTasks
<1>1. QueueInit => Life!LifeInit
  BY DEF QueueInit, Life!LifeInit
<1>2. QueueInv /\ [QueueNext]_queueVars => [Life!LifeNext]_Statuses
  BY LifeStep
<1>3. QueueInv /\ [QueueNext]_queueVars => [Life!LifeNext]_[t \in Tasks |-> row[t].status]
  BY <1>2 DEF Statuses
<1> QED
  BY <1>1, <1>3, QueueInvariance, PTL DEF QueueSpec, LifeOfTasks, Life!LifeSpec
=============================================================================
