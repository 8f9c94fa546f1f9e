------------------------------ MODULE RunLedger ------------------------------
(***************************************************************************)
(* The execution records of one conversation: the run lease on the         *)
(* conversation, agent_runs, and agent_steps, the journal of the writes an *)
(* agent makes outside this system. Chat turns and background turns share  *)
(* them; so does the sweep of AssignmentTree, whose model of the journal   *)
(* is coarser than this one.                                               *)
(*                                                                         *)
(* Source: packages/server/src/services/run-repository.ts and the lease in *)
(* packages/server/src/db/database.ts.                                     *)
(*                                                                         *)
(* A write is a tool with its arguments (tool_name, input_hash). Reads and *)
(* what results say are left out. inflight and applied are the world       *)
(* outside: a request that was sent may take effect at any later time, its *)
(* sender dead or not, until an answer says that it failed.                *)
(***************************************************************************)
EXTENDS Naturals, FiniteSets

CONSTANTS
    Writes,      \* what an agent may want to write
    NoWrite,
    MaxRuns,     \* bound: runs
    MaxSteps,    \* bound: steps on record
    MaxStalls,   \* bound: leases that lapse under a worker still alive
    MaxSweeps    \* bound: sweeps

ASSUME LedgerAssumption ==
    /\ NoWrite \notin Writes
    /\ {MaxRuns, MaxSteps, MaxStalls, MaxSweeps} \subseteq Nat

Runs == 1 .. MaxRuns
Steps == 1 .. MaxSteps
NoRun == 0
NoStep == 0

VARIABLES
    active,    \* conversations.active_run_id
    stale,     \* run_started_at is older than the stale time
    run,       \* agent_runs.status, "none" before the row is there
    step,      \* agent_steps: status, run and write
    started,   \* how many steps are on record
    pc, call,  \* each run's process, and the step it is in
    inflight,  \* steps whose request is under way
    applied,   \* steps that took effect
    denied,    \* steps the owner said did not execute
    sweep,     \* sweepOrphans between its first update and its commit
    spent      \* what was used of the bounds

vars == <<active, stale, run, step, started, pc, call, inflight, applied, denied, sweep, spent>>
worker == <<pc, call>>
world == <<inflight, applied>>

StepStatus == {"unused", "running", "succeeded", "failed", "unknown_outcome"}
Outcomes == {"succeeded", "failed", "unknown_outcome"}
Pcs == {"idle", "claimed", "working", "calling", "closing", "releasing", "over", "dead"}

StepRecords ==
    [status : StepStatus, run : Runs \union {NoRun}, write : Writes \union {NoWrite}]

Unused == [status |-> "unused", run |-> NoRun, write |-> NoWrite]
NoSweep == [busy |-> FALSE, closing |-> {}]

Init ==
    /\ active = NoRun /\ stale = FALSE
    /\ run = [r \in Runs |-> "none"]
    /\ step = [s \in Steps |-> Unused]
    /\ started = 0
    /\ pc = [r \in Runs |-> "idle"] /\ call = [r \in Runs |-> NoStep]
    /\ inflight = {} /\ applied = {} /\ denied = {}
    /\ sweep = NoSweep
    /\ spent = [stalls |-> 0, sweeps |-> 0]

Live(r) == pc[r] \notin {"idle", "over", "dead"}
Stall == spent.stalls < MaxStalls /\ spent' = [spent EXCEPT !.stalls = @ + 1]

Ambiguous(s) == step[s].status \in {"running", "unknown_outcome"}
-----------------------------------------------------------------------------
(* The lease.                                                              *)

ClaimRun(r) ==
    /\ pc[r] = "idle"
    /\ active = NoRun \/ stale
    /\ active' = r /\ stale' = FALSE
    /\ pc' = [pc EXCEPT ![r] = "claimed"]
    /\ UNCHANGED <<run, step, started, call, world, denied, sweep, spent>>

(* Background turns renew, chat turns do not.                              *)
Renew(r) ==
    /\ Live(r) /\ active = r /\ stale
    /\ stale' = FALSE
    /\ UNCHANGED <<active, run, step, started, worker, world, denied, sweep, spent>>

\* mutant: the release clears the lease whoever holds it
ReleasedAnyway(r) == NoRun
Released(r) == IF active = r THEN NoRun ELSE active

Release(r) ==
    /\ pc[r] = "releasing"
    /\ active' = Released(r)
    /\ stale' = (stale /\ active # r)
    /\ pc' = [pc EXCEPT ![r] = "over"]
    /\ UNCHANGED <<run, step, started, call, world, denied, sweep, spent>>

GoesStale ==
    /\ active # NoRun /\ ~stale
    /\ IF Live(active) THEN Stall ELSE UNCHANGED spent
    /\ stale' = TRUE
    /\ UNCHANGED <<active, run, step, started, worker, world, denied, sweep>>

Crash(r) ==
    /\ Live(r)
    /\ pc' = [pc EXCEPT ![r] = "dead"]
    /\ UNCHANGED <<active, stale, run, step, started, call, world, denied, sweep, spent>>
-----------------------------------------------------------------------------
(* Runs.                                                                   *)

RunningRuns == {r \in Runs : run[r] = "running"}
RunningSteps(runs) == {s \in Steps : step[s].status = "running" /\ step[s].run \in runs}

\* mutants: a write that was cut off is closed as failed, as a read is; with
\* a status nobody knows; or not at all
ClosedAsInterrupted(steps) ==
    [s \in Steps |-> IF s \in steps THEN [step[s] EXCEPT !.status = "interrupted"] ELSE step[s]]
NotClosed(steps) == step
ClosedAsFailed(steps) ==
    [s \in Steps |-> IF s \in steps THEN [step[s] EXCEPT !.status = "failed"] ELSE step[s]]
Closed(steps) ==
    [s \in Steps |-> IF s \in steps THEN [step[s] EXCEPT !.status = "unknown_outcome"] ELSE step[s]]

\* mutant: an earlier run stays on record as running
OnlyStarted(r) == [run EXCEPT ![r] = "running"]
StartedAlone(r) ==
    [q \in Runs |-> IF q = r THEN "running" ELSE IF run[q] = "running" THEN "ended" ELSE run[q]]

(* begin under the conversation's lock: it fails for a run that has lost   *)
(* the lease meanwhile, and closes what an earlier run left behind. The    *)
(* sweep's locks on those rows make it wait.                               *)
Begin(r) ==
    /\ pc[r] = "claimed" /\ ~sweep.busy
    /\ IF active = r
       THEN /\ step' = Closed(RunningSteps(RunningRuns))
            /\ run' = StartedAlone(r)
            /\ pc' = [pc EXCEPT ![r] = "working"]
       ELSE /\ pc' = [pc EXCEPT ![r] = "releasing"]
            /\ UNCHANGED <<step, run>>
    /\ UNCHANGED <<active, stale, started, call, world, denied, sweep, spent>>

(* The agent stopped, or was stopped; RunRepository.finish.                *)
StopRun(r) ==
    /\ pc[r] = "working"
    /\ pc' = [pc EXCEPT ![r] = "closing"]
    /\ UNCHANGED <<active, stale, run, step, started, call, world, denied, sweep, spent>>

FinishRun(r) ==
    /\ pc[r] = "closing" /\ ~sweep.busy
    /\ step' = Closed(RunningSteps({r}))
    /\ run' = [run EXCEPT ![r] = IF @ = "running" THEN "ended" ELSE @]
    /\ pc' = [pc EXCEPT ![r] = "releasing"]
    /\ UNCHANGED <<active, stale, started, call, world, denied, sweep, spent>>
-----------------------------------------------------------------------------
(* Steps.                                                                  *)

(* Writes of this kind whose outcome is not on record, of any run of the   *)
(* conversation.                                                           *)
\* mutant: only the run's own
PriorOfThisRun(r, w) == {s \in Steps : Ambiguous(s) /\ step[s].write = w /\ step[s].run = r}
Prior(r, w) == {s \in Steps : Ambiguous(s) /\ step[s].write = w}

(* journal.start: with a prior attempt the answer is unknown_outcome,      *)
(* nothing is sent, and the agent ends its run.                            *)
StartWrite(r, w) ==
    /\ pc[r] = "working" /\ active = r
    /\ IF Prior(r, w) # {}
       THEN /\ pc' = [pc EXCEPT ![r] = "closing"]
            /\ UNCHANGED <<step, started, call, inflight>>
       ELSE /\ started < MaxSteps
            /\ started' = started + 1
            /\ step' = [step EXCEPT ![started + 1] = [status |-> "running", run |-> r, write |-> w]]
            /\ pc' = [pc EXCEPT ![r] = "calling"]
            /\ call' = [call EXCEPT ![r] = started + 1]
            /\ inflight' = inflight \union {started + 1}
    /\ UNCHANGED <<active, stale, run, applied, denied, sweep, spent>>

(* A run that lost the lease learns so from its next journal entry.        *)
StartRefused(r) ==
    /\ pc[r] = "working" /\ active # r
    /\ pc' = [pc EXCEPT ![r] = "closing"]
    /\ UNCHANGED <<active, stale, run, step, started, call, world, denied, sweep, spent>>

EffectLands(s) ==
    /\ s \in inflight
    /\ inflight' = inflight \ {s} /\ applied' = applied \union {s}
    /\ UNCHANGED <<active, stale, run, step, started, worker, denied, sweep, spent>>

\* mutant: a late result overwrites whatever is on record
RecordedAnyway(r, s, outcome) == [step EXCEPT ![s].status = outcome]
Recorded(r, s, outcome) ==
    IF Ambiguous(s) /\ step[s].run = r THEN [step EXCEPT ![s].status = outcome] ELSE step

(* The tool answers and journal.finish records it, also for a worker that  *)
(* has lost the lease. A timeout, an abort or a lost connection is         *)
(* unknown_outcome: the request may still be under way.                    *)
ToolReturns(r, outcome) ==
    LET s == call[r]
    IN  /\ pc[r] = "calling"
        /\ s \notin sweep.closing
        /\ outcome = "succeeded" => s \in applied
        /\ outcome = "failed" => s \notin applied
        /\ step' = Recorded(r, s, outcome)
        /\ inflight' = IF outcome = "failed" THEN inflight \ {s} ELSE inflight
        /\ pc' = [pc EXCEPT ![r] = IF outcome = "unknown_outcome" THEN "closing" ELSE "working"]
        /\ UNCHANGED <<active, stale, run, started, call, applied, denied, sweep, spent>>

(* resolve: the owner looked. What is under way has not executed yet.      *)
Resolve(s, outcome) ==
    /\ active = NoRun
    /\ step[s].status = "unknown_outcome" /\ run[step[s].run] # "running"
    /\ s \notin sweep.closing
    /\ outcome = IF s \in applied THEN "succeeded" ELSE "failed"
    /\ step' = [step EXCEPT ![s].status = outcome]
    /\ denied' = IF outcome = "failed" THEN denied \union {s} ELSE denied
    /\ UNCHANGED <<active, stale, run, started, worker, world, sweep, spent>>
-----------------------------------------------------------------------------
(* sweepOrphans, for a conversation whose background worker let its node   *)
(* go: the steps, then the runs, then the lease, visible at the commit.    *)
SweepLooks ==
    /\ ~sweep.busy /\ spent.sweeps < MaxSweeps
    /\ IF \E r \in Runs : Live(r)
       THEN /\ spent.stalls < MaxStalls
            /\ spent' = [spent EXCEPT !.sweeps = @ + 1, !.stalls = @ + 1]
       ELSE spent' = [spent EXCEPT !.sweeps = @ + 1]
    /\ sweep' = [busy |-> TRUE, closing |-> RunningSteps(RunningRuns)]
    /\ UNCHANGED <<active, stale, run, step, started, worker, world, denied>>

SweepActs ==
    /\ sweep.busy
    /\ step' = Closed(sweep.closing)
    /\ run' = [r \in Runs |-> IF run[r] = "running" THEN "ended" ELSE run[r]]
    /\ active' = NoRun /\ stale' = FALSE
    /\ sweep' = NoSweep
    /\ UNCHANGED <<started, worker, world, denied, spent>>
-----------------------------------------------------------------------------
RunStep(r) ==
    \/ ClaimRun(r) \/ Renew(r) \/ Release(r) \/ Crash(r)
    \/ Begin(r) \/ StopRun(r) \/ FinishRun(r)
    \/ \E w \in Writes : StartWrite(r, w)
    \/ StartRefused(r)
    \/ \E outcome \in Outcomes : ToolReturns(r, outcome)

StepStep(s) ==
    \/ EffectLands(s)
    \/ \E outcome \in {"succeeded", "failed"} : Resolve(s, outcome)

Next ==
    \/ \E r \in Runs : RunStep(r)
    \/ \E s \in Steps : StepStep(s)
    \/ GoesStale \/ SweepLooks \/ SweepActs

Spec == Init /\ [][Next]_vars
-----------------------------------------------------------------------------
TypeOK ==
    /\ active \in Runs \union {NoRun} /\ stale \in BOOLEAN
    /\ run \in [Runs -> {"none", "running", "ended"}]
    /\ step \in [Steps -> StepRecords]
    /\ started \in 0 .. MaxSteps
    /\ pc \in [Runs -> Pcs] /\ call \in [Runs -> Steps \union {NoStep}]
    /\ inflight \subseteq Steps /\ applied \subseteq Steps /\ denied \subseteq Steps
    /\ sweep \in [busy : BOOLEAN, closing : SUBSET Steps]
    /\ spent \in [stalls : Nat, sweeps : Nat]

(* Two attempts at the same write are never both without a known outcome,  *)
(* whichever runs, workers and takeovers they come from: a second attempt  *)
(* is only sent once the first is settled.                                 *)
AmbiguousWriteUnique ==
    \A s, u \in Steps :
        Ambiguous(s) /\ Ambiguous(u) /\ step[s].write = step[u].write => s = u

(* "Ambiguous writes are never replayed automatically": a write that took  *)
(* effect takes effect again only if it was on record as done, so that the *)
(* model knew, or after the owner said that it had not executed. Whatever  *)
(* crashed, and however late a request landed or a worker answered.        *)
NoBlindRepeat ==
    \A s, u \in Steps :
        s < u /\ step[s].write = step[u].write /\ s \in applied /\ u \in applied
            => step[s].status = "succeeded" \/ s \in denied

(* At most one run of a conversation is on record as running, also while a *)
(* worker that lost the lease has not noticed yet.                         *)
OneRunningRun == \A r, q \in RunningRuns : r = q

(* A step left running can still be closed: by its run's own end, by the    *)
(* next begin or by the sweep, and the latter two only look at runs on     *)
(* record as running. Otherwise the write is refused for ever, and the     *)
(* owner is not asked about it. Workers may die anywhere; one that stalls  *)
(* and writes on while it is swept can leave such a step behind.           *)
RunningStepCanBeClosed ==
    spent.stalls = 0 =>
        \A s \in Steps : step[s].status = "running" => step[s].run \in RunningRuns

(* The lease is only taken from a run that let it grow stale, that gives   *)
(* it back itself, or that the sweep has judged: a run that was replaced   *)
(* and ends late does not take it from its successor.                      *)
LeaseIsFenced ==
    [][active # NoRun /\ active' # active
         => stale \/ pc[active] = "releasing" \/ sweep.busy]_vars

(* What a record says of a write is final once it is settled: a worker     *)
(* that answers late does not overturn the owner's verdict.                *)
SettledStaysSettled ==
    [][\A s \in Steps :
          step[s].status \in {"succeeded", "failed"} => step'[s] = step[s]]_vars
=============================================================================
