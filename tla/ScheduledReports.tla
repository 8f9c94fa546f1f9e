-------------------------- MODULE ScheduledReports --------------------------
(***************************************************************************)
(* Work the digital employee does on a timetable. Every API process looks  *)
(* for what is due once a minute, records a run for the occurrence and     *)
(* queues it; a worker takes the run up once, asks the model for a report, *)
(* and closes the run. Nothing is retried: a run that lost its dispatcher  *)
(* or its worker is closed half an hour later.                             *)
(*                                                                         *)
(* Source: packages/server/src/digital-employee/schedule-service.ts.       *)
(*                                                                         *)
(* One owner, one template, one day. The queue (TaskQueue) is reduced to a *)
(* job that reaches a worker, a second time if the first one died. What    *)
(* the template collects, time zones and acknowledgements are left out,    *)
(* and an update moves a schedule's next occurrence forward only.          *)
(***************************************************************************)
EXTENDS Naturals, FiniteSets

CONSTANTS
    Schedules, NoSchedule,
    Timetable,                \* the occurrences of each schedule within the day, how many
    Dispatchers, Executors,   \* API processes and worker slots
    NoExecutor,
    DailyLimit,               \* DAILY_RUN_LIMIT
    MaxRunFaults              \* bound: failures, deaths, and runs closed under a live worker

ASSUME ScheduleAssumption ==
    /\ Timetable \in [Schedules -> Nat \ {0}] /\ DailyLimit \in Nat \ {0}
    /\ MaxRunFaults \in Nat /\ NoExecutor \notin Executors /\ NoSchedule \notin Schedules

VARIABLES
    schedule,     \* de_employee_schedules
    report,       \* de_employee_schedule_runs, one row for each occurrence
    runJob,       \* the queue's job of each run
    dispatcher, executor,
    paid,         \* history: calls of the model that were paid for
    runFaults     \* how much of the bound was used

reportVars == <<schedule, report, runJob, dispatcher, executor, paid, runFaults>>

Occurrences == UNION {{s} \X (1 .. Timetable[s]) : s \in Schedules}
Never == 0
RunOpen == {"queued", "running"}
Counted == RunOpen \union {"succeeded", "failed", "cancelled"}
RunStatus == Counted \union {"none", "skipped", "missed"}

NobodysRun == <<NoSchedule, Never>>
IdleDispatcher == [at |-> "idle", run |-> NobodysRun]
IdleExecutor == [at |-> "idle", run |-> NobodysRun, out |-> "none"]

ReportInit ==
    /\ schedule = [s \in Schedules |-> [state |-> "none", next |-> Never]]
    /\ report = [o \in Occurrences |-> [status |-> "none", linked |-> FALSE]]
    /\ runJob = [o \in Occurrences |-> [state |-> "none", holder |-> NoExecutor]]
    /\ dispatcher = [d \in Dispatchers |-> IdleDispatcher]
    /\ executor = [k \in Executors |-> IdleExecutor]
    /\ paid = [o \in Occurrences |-> 0]
    /\ runFaults = 0

ReportTypeOK ==
    /\ schedule \in [Schedules -> [state : {"none", "kept", "removed"}, next : Nat]]
    /\ report \in [Occurrences -> [status : RunStatus, linked : BOOLEAN]]
    /\ runJob \in [Occurrences -> [state : {"none", "waiting", "active", "ended"},
                                   holder : Executors \union {NoExecutor}]]
    /\ dispatcher \in [Dispatchers -> [at : {"idle", "locked", "enqueue", "giveup"},
                                       run : Occurrences \union {NobodysRun}]]
    /\ executor \in [Executors -> [at : {"idle", "picked", "collect", "model", "finish"},
                                   run : Occurrences \union {NobodysRun},
                                   out : {"none", "succeeded", "failed", "cancelled", "skipped"}]]
    /\ paid \in [Occurrences -> Nat]
    /\ runFaults \in 0 .. MaxRunFaults
-----------------------------------------------------------------------------
RunFault == runFaults < MaxRunFaults /\ runFaults' = runFaults + 1
AtDispatch(d, place) == dispatcher[d].at = place
AtExec(k, place) == executor[k].at = place
Locked(s) == \E d \in Dispatchers : AtDispatch(d, "locked") /\ dispatcher[d].run[1] = s

(* finish: a run that is closed stays as it is.                            *)
RunCloses(o, status) ==
    report' = [report EXCEPT ![o].status = IF @ \in RunOpen THEN status ELSE @]

(* The owner. A removed schedule leaves its runs, which no longer name it. *)
KeepSchedule(s) ==
    /\ schedule[s].state = "none"
    /\ schedule' = [schedule EXCEPT ![s] = [state |-> "kept", next |-> 1]]
    /\ UNCHANGED <<report, runJob, dispatcher, executor, paid, runFaults>>

UpdateSchedule(s) ==
    /\ schedule[s].state = "kept" /\ ~Locked(s)
    /\ \E n \in {Never} \union ((schedule[s].next + 1) .. Timetable[s]) :
         schedule[s].next # Never /\ schedule' = [schedule EXCEPT ![s].next = n]
    /\ UNCHANGED <<report, runJob, dispatcher, executor, paid, runFaults>>

RemoveSchedule(s) ==
    /\ schedule[s].state = "kept" /\ ~Locked(s)
    /\ schedule' = [schedule EXCEPT ![s] = [state |-> "removed", next |-> Never]]
    /\ report' = [o \in Occurrences |->
         IF o[1] = s THEN [report[o] EXCEPT !.linked = FALSE] ELSE report[o]]
    /\ UNCHANGED <<runJob, dispatcher, executor, paid, runFaults>>
-----------------------------------------------------------------------------
(* A dispatcher.                                                           *)

(* FOR UPDATE SKIP LOCKED: one dispatcher takes a schedule that is due.    *)
TakeDue(d, s) ==
    /\ AtDispatch(d, "idle") /\ schedule[s].next # Never /\ ~Locked(s)
    /\ dispatcher' = [dispatcher EXCEPT ![d] = [at |-> "locked", run |-> <<s, schedule[s].next>>]]
    /\ UNCHANGED <<schedule, report, runJob, executor, paid, runFaults>>

StillAtIt(s) == \E o \in Occurrences : o[1] = s /\ report[o].linked /\ report[o].status \in RunOpen
UsedToday == Cardinality({o \in Occurrences : report[o].status \in Counted})

(* The schedule moves on, whatever becomes of the run. The advisory lock   *)
(* of the template is held from the count to the commit.                   *)
DispatchOne(d) == LET o == dispatcher[d].run  s == o[1] IN
    /\ AtDispatch(d, "locked")
    /\ \E n \in {Never} \union ((o[2] + 1) .. Timetable[s]) :
         schedule' = [schedule EXCEPT ![s].next = n]
    /\ \E late \in BOOLEAN :
         LET status == IF late THEN "missed"
                       ELSE IF StillAtIt(s) \/ UsedToday >= DailyLimit THEN "skipped" ELSE "queued" IN
         /\ report' = [report EXCEPT ![o] = [status |-> status, linked |-> TRUE]]
         /\ dispatcher' = [dispatcher EXCEPT ![d] =
              IF status = "queued" THEN [@ EXCEPT !.at = "enqueue"] ELSE IdleDispatcher]
    /\ UNCHANGED <<runJob, executor, paid, runFaults>>

(* The job is queued; or it is not, or nobody knows.                       *)
EnqueueRun(d) == LET o == dispatcher[d].run
                     added == [runJob EXCEPT ![o].state = "waiting"] IN
    /\ AtDispatch(d, "enqueue")
    /\ \/ /\ runJob' = added /\ UNCHANGED runFaults
          /\ dispatcher' = [dispatcher EXCEPT ![d] = IdleDispatcher]
       \/ /\ RunFault /\ runJob' \in {runJob, added}
          /\ dispatcher' = [dispatcher EXCEPT ![d].at = "giveup"]
    /\ UNCHANGED <<schedule, report, executor, paid>>

GiveRunUp(d) ==
    /\ AtDispatch(d, "giveup")
    /\ RunCloses(dispatcher[d].run, "failed")
    /\ dispatcher' = [dispatcher EXCEPT ![d] = IdleDispatcher]
    /\ UNCHANGED <<schedule, runJob, executor, paid, runFaults>>

DispatcherDies(d) ==
    /\ ~AtDispatch(d, "idle") /\ RunFault
    /\ dispatcher' = [dispatcher EXCEPT ![d] = IdleDispatcher]
    /\ UNCHANGED <<schedule, report, runJob, executor, paid>>

(* closeAbandoned: a run half an hour old. Somebody may still be at it, or *)
(* its job still in the queue.                                             *)
OnItsWay(o) ==
    \/ \E d \in Dispatchers : dispatcher[d].run = o
    \/ \E k \in Executors : executor[k].run = o
    \/ runJob[o].state \in {"waiting", "active"}
CloseAbandoned(o) ==
    /\ report[o].status \in RunOpen
    /\ IF OnItsWay(o) THEN RunFault ELSE UNCHANGED runFaults
    /\ RunCloses(o, "failed")
    /\ UNCHANGED <<schedule, runJob, dispatcher, executor, paid>>
-----------------------------------------------------------------------------
(* A worker: execute.                                                      *)

PickReport(k, o) ==
    /\ AtExec(k, "idle") /\ runJob[o].state = "waiting"
    /\ runJob' = [runJob EXCEPT ![o] = [state |-> "active", holder |-> k]]
    /\ executor' = [executor EXCEPT ![k] = [IdleExecutor EXCEPT !.at = "picked", !.run = o]]
    /\ UNCHANGED <<schedule, report, dispatcher, paid, runFaults>>

Returns(k) == LET o == executor[k].run IN
    /\ executor' = [executor EXCEPT ![k] = IdleExecutor]
    /\ runJob' = IF runJob[o].holder = k THEN [runJob EXCEPT ![o].state = "ended"] ELSE runJob
EndsAs(k, out) == executor' = [executor EXCEPT ![k].at = "finish", ![k].out = out]

\* mutant: a run that was taken up before is taken up again
TakesOpen(status) == status \in RunOpen
(* UPDATE ... WHERE status='queued' *)
Takes(status) == status = "queued"

TakeUp(k) == LET o == executor[k].run IN
    /\ AtExec(k, "picked")
    /\ IF Takes(report[o].status)
       THEN /\ report' = [report EXCEPT ![o].status = "running"]
            /\ IF report[o].linked
               THEN executor' = [executor EXCEPT ![k].at = "collect"]
               ELSE EndsAs(k, "skipped")
            /\ UNCHANGED runJob
       ELSE Returns(k) /\ UNCHANGED report
    /\ UNCHANGED <<schedule, dispatcher, paid, runFaults>>

(* Nothing to do, no quota, an error, a cancellation; or on to the model.  *)
Collect(k) ==
    /\ AtExec(k, "collect")
    /\ \/ executor' = [executor EXCEPT ![k].at = "model"]
       \/ \E out \in {"skipped", "failed", "cancelled"} : EndsAs(k, out)
    /\ UNCHANGED <<schedule, report, runJob, dispatcher, paid, runFaults>>

(* What the gateway refuses for lack of quota costs nothing; an error or a *)
(* cancellation comes before or after the model was paid.                  *)
Generate(k) == LET o == executor[k].run IN
    /\ AtExec(k, "model")
    /\ \/ EndsAs(k, "skipped") /\ UNCHANGED paid
       \/ \E out \in {"succeeded", "failed", "cancelled"} :
            EndsAs(k, out) /\ paid' = [paid EXCEPT ![o] = @ + 1]
    /\ UNCHANGED <<schedule, report, runJob, dispatcher, runFaults>>

FinishReport(k) ==
    /\ AtExec(k, "finish")
    /\ RunCloses(executor[k].run, executor[k].out)
    /\ Returns(k)
    /\ UNCHANGED <<schedule, dispatcher, paid, runFaults>>

(* The worker dies, or its lock lapses and it goes on; the job is handed   *)
(* out again, or has failed.                                               *)
ExecutorDies(k) == LET o == executor[k].run IN
    /\ ~AtExec(k, "idle") /\ RunFault
    /\ executor' \in {executor, [executor EXCEPT ![k] = IdleExecutor]}
    /\ \E s \in {"waiting", "ended"} :
         runJob' = IF runJob[o].holder # k THEN runJob
                   ELSE [runJob EXCEPT ![o] = [state |-> s, holder |-> NoExecutor]]
    /\ UNCHANGED <<schedule, report, dispatcher, paid>>

ExecutorStep(k) == TakeUp(k) \/ Collect(k) \/ Generate(k) \/ FinishReport(k)

ReportNext ==
    \/ \E s \in Schedules : KeepSchedule(s) \/ UpdateSchedule(s) \/ RemoveSchedule(s)
    \/ \E d \in Dispatchers, s \in Schedules : TakeDue(d, s)
    \/ \E d \in Dispatchers : DispatchOne(d) \/ EnqueueRun(d) \/ GiveRunUp(d) \/ DispatcherDies(d)
    \/ \E o \in Occurrences : CloseAbandoned(o)
    \/ \E k \in Executors, o \in Occurrences : PickReport(k, o)
    \/ \E k \in Executors : ExecutorStep(k) \/ ExecutorDies(k)

ReportSpec == ReportInit /\ [][ReportNext]_reportVars
-----------------------------------------------------------------------------
(* The model is paid for at most DAILY_RUN_LIMIT reports of a template a   *)
(* day, with any number of schedules, dispatchers and workers, with runs   *)
(* delivered twice, closed under their worker, or left behind by a crash.  *)
(* No report is paid for twice.                                            *)
WithinDailyLimit ==
    /\ \A o \in Occurrences : paid[o] <= 1
    /\ Cardinality({o \in Occurrences : paid[o] > 0}) <= DailyLimit
=============================================================================
