# lot-agent in TLA+

This directory models the parts of lot-agent that decide what runs, when, and
what must never run, be paid for or be sent twice: the background tasks
("assignments") of the digital employee, the execution records that chats and
tasks share, the task queue with the handlers that pay vendors, scheduled
reports, the daily scan for opportunities and what the owner confirms of it,
payments, the indexing of the knowledge base, and the Feishu inbox.
The sources are in `packages/server/src`; `PROJECT.json` maps every definition
to its lines.

    tlc -workers 2 -config background.cfg MCBackground.tla
    tlapm BackgroundJobs_proofs.tla

## The system

lot-agent is a server with worker processes over one PostgreSQL database, Redis
queues (BullMQ), a web client, a desktop client and a mini program.

| Part | State | Operations | Meets | Hard |
|---|---|---|---|---|
| Assignments (`digital-employee/assignment-*.ts`) | `de_assignments`, decisions, board, events | claim, turn, settle, wait, wake, sweep, cancel, answer, retry, follow up, add, pause, resume | agent service, run ledger, Feishu | several workers, crashes, statements that read before they lock |
| Run ledger (`services/run-repository.ts`, lease in `db/database.ts`) | `conversations.active_run_id`, `agent_runs`, `agent_steps` | claim, renew, release, begin, journal, finish, resolve | every turn, the sweep | takeovers, late answers, unknown outcomes |
| Agent loop (`packages/core/src/agent`, `tools`) | the turn's history in memory | stream, call tools, stop | journal, models, tools | budgets, aborts, detached tools |
| Chat service (`services/agent-service.ts`) | messages | stream a turn | lease, ledger, queue | never renews its lease |
| Task queue (`jobs/bullmq-queue.ts`, tasks in `db/database.ts`) | `tasks` rows, BullMQ jobs | enqueue, deliver, claim, record, retry, cancel, continue | all handlers below | two stores written one after the other, stalled jobs run again |
| Media jobs (`generation/run-job.ts`) | card, vendor task id, result cache, meter | create, poll, download, bill, finish | vendor, queue | paid twice on a crash, cancel racing completion |
| Marketing videos (`marketing-video/run.ts`) | clips, session lock, final asset | claim, submit, poll, bill, compose, continue | vendor, queue | submissions with an unknown outcome, two workers |
| Schedules (`digital-employee/schedule-service.ts`) | schedules, runs | dispatch due, execute, abandon | queue | several dispatchers, one daily limit |
| Opportunities (`digital-employee/opportunity-service.ts`) | scan runs, suggestions, follow-up actions, automation settings | scan, decide, create, move, execute, report a result | queue, drafts | several tickers, a run linked to its task after the task began |
| Drafts (`digital-employee/conversation-drafts.ts`) | proposals that wait for a confirmation | prepare, claim, apply, mark, release, dismiss | chat, opportunities | claim, effect and mark are three statements |
| Knowledge (`knowledge/`) | items, revisions, ingestion runs, outbox | edit, delete, dispatch, claim, publish, cancel | queue, storage, vectors | leases, two stores, late workers |
| Payments (`payments/`) | orders | create, claim, query, report, confirm, finish | provider, accounting | stale copies, lost answers |
| Feishu (`feishu/`) | inbox, send records | receive, route, claim, execute, send, expire | assignments, chat | redelivery, order, lost workers |
| In-memory queue (`packages/core/src/jobs`) | jobs | enqueue, cancel | tests, single process | concurrency limit |
| Web client (`packages/web`) | chat reducer | fold events | server events | reconnection |

What makes each of them correct, in a line: a node of a task belongs to one
turn, ends along the transition table, is never run again over an unconfirmed
write, and is never left without somebody who will move it; a write that may
have happened is not sent again unless the record or the owner says so; a
queue delivers a task until it ends, to one worker at a time, and an ended
task stays ended; a media job pays the vendor once and bills the owner once,
but for what a crash takes; a day's scan is done, and a proposal takes effect
once; no more reports than the daily limit are paid for; an order that was
paid is delivered, or its refund kept; the searched revision only moves
forward; a message reaches the assistant once, and what it sends is sent once.

## Modules

| Module | Models |
|---|---|
| `AssignmentState` | the pure decisions of `assignment-state.ts`: transitions, `decideTurn`, `planWakes` |
| `MCAssignmentState` | those decisions over all their inputs |
| `AssignmentTree` | one task: its nodes, the workers, the sweep, the owner (extends `AssignmentState`) |
| `MCAssignmentTree` | instances of it |
| `RunLedger` | one conversation: its lease, runs and journal |
| `FollowUps` | suggested opportunities, follow-up actions, results, and the drafts that propose them |
| `DailyScan` | one day's scan: the tickers that queue it, the workers that do it |
| `MCRunLedger` | instances of the last three |
| `TaskQueue` | task rows, BullMQ jobs, worker slots, the API's unfinished requests |
| `TaskLife` | what the rows of tasks promise: the abstract specification of `TaskQueue` |
| `MediaJob` | one generated image or video and its second download (extends `TaskQueue`) |
| `MarketingVideo` | one video of several clips (extends `TaskQueue`) |
| `BackgroundJobs` | queue and handlers together |
| `ScheduledReports` | schedules, their runs, dispatchers and workers of one day |
| `MCBackground` | instances of `BackgroundJobs` and `ScheduledReports`, as scenarios |
| `VirtualPayments` | one order, the provider, the accounting service, several reconcilers |
| `KnowledgeIngestion` | one item, its revisions and runs, outbox, queue and workers |
| `FeishuChannel` | one owner's inbox, ports, consumers and send records |
| `MCServices` | instances of the last three |
| `AssignmentState_proofs`, `AssignmentTree_proofs`, `AssignmentTables_proofs`, `RunLedger_proofs`, `Ledgers_proofs`, `TaskQueue_proofs`, `BackgroundJobs_proofs`, `Services_proofs` | theorems, checked by TLAPS |

`BackgroundJobs` composes: `MediaJob` and `MarketingVideo` extend `TaskQueue`,
their handlers run on its slots and end with its `HandlerEnds`, and the
routes' cancellations and the deaths of processes are one action over all of
their variables.

**AssignmentState.** A turn result is the record `decideTurn` receives, its
texts left out. `RouteTurn` follows the order of `routeTurn`. `PlanWakes`
returns a function from the nodes to wake to their reasons. `heard` stands for
"a finding or an output of that node with an id above `since`".

**AssignmentTree.** `row` is the row of each node of `de_assignments`,
`undecided` the unanswered decisions of a node, `lease` the conversation's
`active_run_id`. `turn` is the worker's side: one record per claimed turn, with
its place in `execute` (claimed, working, calling a tool, closing, settling,
waking), what it will report, and its unfinished write in `agent_steps`.
Statements that lock what they read are one action. These are split, because
other statements can come in between:

- `conclude` reads the row and counts the open subtasks (`Conclude`); `settle`
  writes later, guarded by version and status (`Settle`); `wakeTree` follows in
  a transaction of its own (`TurnWakes`). The service's and the sweep's calls of
  `wakeTree` are counted in `wakesDue`.
- `sweepOrphans` locks the node and reads the journal (`SweepLooks`), then
  closes steps, runs and the conversation's lease, and moves the node
  (`SweepActs`). A batch of nodes is swept one node at a time.
- `cancelTree` locks the root and sees the decisions (`CancelLooks`), then sees
  and cancels the nodes (`CancelActs`). `cancelSubtask` is split alike.
- a tool is called (`CallTool`: the journal's row is there first) and returns.

Merged: `claimConversation`, `recordRun` and `begin` (`RunLedger` has them
apart); the two reads of `conclude`; the read and the guarded update of
`retry`, `resume` and `recordWait`; an answer of "end" with the `cancelTree` in
its transaction. One owner request and one sweep are in progress at a time.

Time is a choice: `LeaseLapses` and `ConversationStale` may happen whenever
nobody alive renews, and `MaxStalls` times although somebody does. `not_before`
only delays, so it is left out. Costs, search counts, texts, titles, events,
reminders and read marks are left out, and so are limits on the number of
subtasks, which only refuse.

**RunLedger.** `inflight` and `applied` are the world outside: a request that
was sent may take effect at any later moment, its worker dead or not, until an
answer says that it failed. `denied` remembers which steps the owner said did
not execute. Only writes are kept; a read may be repeated freely, and the
journal's check for the same call of the same run never fires, because a run
numbers its calls afresh. The sweep of `AssignmentTree` is here again, finer,
and closes steps that were running when it looked.

**FollowUps.** An `order` is what a draft's payload asks for, with the version
its target had when it was read; `Carry` is the dispatch to `decide`,
`insertManualAction`, `updateAction` and `addResult`, each of them one action,
as each locks or guards what it reads. Confirming a draft is four: the look
(`get`), the claim, the effect, and the mark or release. `written` counts the
effects of a draft; `confirmFaults` counts what may add one: a death, an error
after the effect, a claim that outlives its five minutes under its holder.

**DailyScan.** `ticker` is how far an API process is in `enqueueDueDiscoveries`
for the owner, `scanner` a worker's place in `runDiscovery`. The insert, the
job, the link of the task's id and the move of the schedule are one action
each; so are the claim of the run, each stored opportunity, and the end.
`lost` is on record when a delivery dies with the run it had taken up, or fails
as the last one.

**TaskQueue.** `row` is the `tasks` row, `job` the BullMQ job of the same id,
`slot` a worker's place between taking the job and acknowledging it, `request`
what the API still owes a task (the job after the row, a delivery, a withdrawal
after a cancellation, continuations past their first look). Each statement and
each call of BullMQ is one action: the claim is apart from the look at the live
jobs before it, the result apart from the acknowledgement after it. And each
may fail where it stands in `startWorker`: before the `try` (`Breaks`: only
BullMQ learns of it), at the first line of the `try` (`LookFails`: an error of
the handler that was never entered), at the result (`ResultFails`: a success
that goes to the catch) and in the catch (`RecordFails`: the row stays as it
was). A fault counts against `MaxDeaths`, like a process that dies. BullMQ
follows its documentation as `bullmq-queue.ts` uses it: a job has one holder, a
job without a holder is handed out again once and then fails unheard, and an
acknowledgement counts only from the holder. `stranded` records the ways in
which the code loses a job of an open row; an error outside the handler is one
only after the last attempt, since BullMQ repeats the others.

**MediaJob**, **MarketingVideo.** `step` and `place` are how far a handler is
between two calls that another process can see. `vendor.made`, `clip.paid` and
the charges count what was paid; `lost` and `forgiven` count what explains a
second payment: an id that did not reach the row, a failure by the vendor, the
owner's consent. A media handler fails inside its `try`, which moves the card
(`GenFails`, `FinishFails`), or outside, where nobody does (`Untold`: `genDeps`
in `workers/index.ts` is awaited before the job's function, and the write to the
card may itself fail); `RowFails` of `BackgroundJobs` is the queue's share of
that. `runMarketingVideo` works on several clips at once, so each
clip moves by itself.

**ScheduledReports.** A run is queued in the transaction that counts the day's
runs under the schedule's lock; the queue is reduced to a job that may be
delivered twice. **VirtualPayments.** `reconciler.copy` is the copy of the order
that `reconcileClaimed` mutates and `finish` writes back whole, fenced by the
lease. **KnowledgeIngestion.** `run.token` is the lease, `item.generation` what
fences an older run. **FeishuChannel.** `record` are the send records under both
ids of a text; a claim expires by the time it began.

## Runs

| Run | Instance | States | Properties |
|---|---|---|---|
| `decisions` | all 30 720 turn results half decided and decided; all trees of a root and 3 children | 58 k | `LegalSettle`, `OpenChildrenKeepTheTaskOpen`, `NobodyStandsStill` |
| `tree_responsive` | lead and 2 subtasks, 3 turns, 1 owner request, 1 death or shutdown | 777 k | `TypeOK`, `HeldTurnHoldsLease`, `WaitingNodeHasItsDecision`, `CancelledTaskIsQuiet`, `QueuedNodeIsVerified`, `NobodyToWakeWhenQuiet` |
| `tree_team` | lead and up to 2 subtasks, autonomous, 3 turns, 2 owner requests | 282 k | `SucceededTaskIsClosed`, `QueuedNodeIsVerified` |
| `tree_stalls` | lead and up to 2 subtasks, 3 turns, 1 request, 1 stall | 422 k | `OneTurnPerNode`, `EveryMoveIsATransition`, `EndedStaysEnded` |
| `tree_fair` | lead and 1 subtask, 3 turns, 2 deaths, 1 request, fairness | 78 k | `RunningNodeLeavesItsWorker`, `LeadHearsOfTheLastSubtask` |
| `ledger` | one of: 2 writes, 3 runs, 2 steps, 2 stalls, 1 sweep; 1 draft, 1 opportunity, 2 actions, 2 confirmations at once, 1 fault; a scan of 2 opportunities with 2 tickers, 2 workers, 3 jobs of 2 attempts, 2 faults | 3.1 M | `LedgerTypeOK`, `NoBlindRepeat`, `RunningStepCanBeClosed`, `ConfirmedOnce`, `ScanIsNotForgotten`, `LeaseIsFenced`, `SettledStaysSettled` |
| `background` | 2 workers; ten scenarios, see below | 641 k | `BackgroundTypeOK`, `OpenTaskIsDelivered`, `OneWorkerPerTask`, `PaidOnce`, `ChargedOnce`, `CardIsSettled`, `ClipsPaidAndBilled`, `WithinDailyLimit`, `LifeOfTasks` |
| `services` | one of: an order with 2 reconcilers; an item of 2 revisions and 2 runs with 2 workers; 2 messages with 2 consumers; fairness | 166 k | `ServicesTypeOK`, `CreditedIsReported`, `RefundIsKept`, `PaidArrives`, `SearchMovesForward`, `RunsEnd`, `SentOnce`, `NobodyWaitsForever` |
| `reopened_lead`, `cancel_meets_question`, `cancel_meets_retry`, `added_before_success` | one each | until violated | see below |

All background work at once is out of reach, so `MCBackground` chooses at the
start which tasks there are and what may happen to them:

| Tasks | deaths and faults | lapsed locks | owner's requests | what it is for |
|---|---|---|---|---|
| a plain task with 2 attempts | 2 | 1 | 1 | retries against stalls, failing statements, cancellation and a late worker |
| a render | 1 | 1 | 2 | a late worker against cancel, continue and redelivery |
| a render | 2 | 0 | 2 | cancel, continue, redelivery, withdrawal around deaths |
| a generation | 2 | 0 | 1 | two deaths or faults and a cancellation between two payments |
| a generation and its second download | 1 | 0 | 1 | the same across both tasks of a card |
| a generation and its second download | 2 | 0 | 0 | a loss in each of the two |
| a video of 2 clips | 1 | 0 | 2 | crash, continue, accepting an unknown submission |
| a video of 2 clips | 0 | 1 | 0 | two workers at one video |
| a video and a render | 0 | 0 | 0 | the owner's limit |
| none; two schedules, one due twice, 2 dispatchers, 2 workers | 1 fault | | | the daily limit |

`LifeOfTasks` is the refinement: with the status of each row for `status`, the
rows implement `TaskLife`, in which a task is submitted, begins, may be put back
for another attempt, ends once, and comes back only as a stopped render its
owner continues. `OneWorkerPerTask`, `PaidOnce` and `ChargedOnce` promise
nothing after a lock lapsed under a living worker: the queue then runs a job
twice at a time, and nothing in the handlers tells. `ClipsPaidAndBilled` holds
even then, thanks to the session lock and the claim of each submission.

`MCRunLedger` chooses likewise between journal, drafts and scan, which share
only the database. `AmbiguousWriteUnique` and `OneRunningRun` of `RunLedger` are
proved and need no run.

Why the bounds are enough. Every race of a task or a conversation is between
one turn and one of: the next turn of the same node, the sweep, an owner
request, a teammate's turn. Two children give a waiter a teammate and the lead
something still open; three turns give a node that was lost a second owner
while another node runs; two runs plus a successor give a takeover of a
takeover. In `decisions` three children allow a cycle of waits and an outsider
that others wait for. The passing runs fire every action of the modules
between them. In the queue, a race is between one task's worker, its next
worker, the API and the owner: two slots, two deaths and two requests give
each of them an interrupted predecessor. In the services it is between a
holder of a lease, its successor and a third party that edits, refunds or
disconnects. A draft needs two confirmations and one fault for a claim to be
taken over, a scan two tickers and three jobs for a run to be queued again
while its first worker is at it. Deadlock is not checked: a task that has
ended, or that waits for its owner, stops, and so does a behaviour that has
used its bounds.

Symmetry is used on subtasks, the writes of the journal, workers and clips,
which the code never orders, in runs without liveness.

### Fairness

`tree_fair` assumes weak fairness of what a process does by itself: it takes or
gives back what it claimed, a tool returns (it has a timeout), a turn that has
ended is concluded, the sweep and the timer's wakes run (`setInterval` in
`AssignmentRunner.start`), an unrenewed lease lapses, and an owner's request
that has begun is finished. Ending a turn has strong fairness, because a model
may call tools in between, but the loop limits iterations and time; so has
looking at an orphan, because another sweep or cancellation may hold the row.
Nothing is assumed of the owner, and claiming needs no fairness for either
property.

`services` assumes weak fairness of each service's own timers and workers only.
Payments: some due order is claimed (the reconciling timer of any process), an
abandoned lease runs out, and a reconciler that is at work goes on; the
provider and the payer owe nothing. Knowledge: the outbox is dispatched by its
timer, BullMQ looks for stalled jobs and hands out waiting ones, an orphan's
lease runs out, and a worker goes on with what it does or dies. Feishu: a
waiting message is claimed and an abandoned one expires (both by `pump`), and a
consumer goes on; an execution is ended by its half hour's timeout. Faults are
bounded, so they stop at some point: the three properties say what happens when
the outside works again.

## What the code does not keep

Four runs end in a counterexample, each against a sentence of the repository:

- `reopened_lead`: the owner's retry of a subtask moves a failed root to
  `waiting_children` without asking for the root's own unconfirmed writes; the
  next wake queues it. `retry` of that root refuses.
- `cancel_meets_question`: a turn that settles with a question between the two
  updates of `cancelTree` leaves an open decision on a cancelled node. Every
  answer to it is refused, and it stays on the owner's list.
- `cancel_meets_retry`: `retryByTeam` does not look at the root, so a teammate
  that has not noticed the cancellation yet queues a subtask under it.
- `added_before_success`: a subtask the owner adds between `conclude`'s count
  and `settle` is left open under a task reported as succeeded.

The queue and the handlers lose these, on record in the models and left out of
their properties by name, as the code or its comments accept them or say
nothing:

- a job that stalls twice fails in BullMQ while its row stays open, and an API
  that dies between row and job leaves a pending row; only renders are found
  again (`stranded`);
- on the last attempt, a statement that fails before the handler's `try`
  (bullmq-queue.ts:96-118), or the one in its catch that writes the error
  (166-167), fails the job while the row stays open. `diagnosePending` delivers
  a render only when its job is missing, not when it has failed (`stranded`);
- a withdrawal that comes late may take the job of a render its owner has
  continued meanwhile (`stranded`);
- an id, or an entry of the meter, lost between an outside call and the row is
  paid or billed again (`lost.ids`, `lost.charges`);
- a second download aborted by anything but its cancellation leaves its card
  generating; so does an error outside the job's `try`: no key for the owner, or
  a failing read of it, in `genDeps` (workers/index.ts:225, awaited at 308, 312
  and 337), the queue's first look at the row (bullmq-queue.ts:155), or a write
  to the card. The task has failed by then, and nothing visits the card again:
  `markMessageGenerationFailed` (database.ts:682), which its comment gives to a
  "stale-task reaper", has no caller (`lost.card`);
- two renders picked up at the same moment both pass the owner's limit, as the
  list of live jobs is read before the lock (`LookActive`, `Claim`);
- a Feishu message delivered again while its first copy is being routed is both
  routed and executed (`Route`, `Enqueue`).

Of the scan and of drafts:

- "Applies a draft at most once" (conversation-drafts.ts:82) holds of decisions,
  results and changes of an action, which have a row to ask. A draft that
  creates an action is applied again after a death or an error between the
  effect and the mark, or by a second request when the first outlives its claim;
  and a request that gives its claim back gives back another's too (`ReleaseDraft`
  asks for an open draft only). `ConfirmedOnce` allows one more effect per fault;
- two tickers, or one after a lost answer, queue a run twice; the second job
  finds it taken (`ClaimScan`), or, when the late link has put the run back to
  pending, does it again, and the rows' keys keep the result the same;
- a worker that dies with a run leaves it `running`, and nothing takes it up
  again (`lost`);
- `syncProfileCadence` (opportunity-service.ts:1150) takes the earliest action
  by its own snapshot, so a profile's next follow-up may stay behind an action
  committed at the same moment. Not modelled: nothing but a page reads it.

In the database `answerDecision` and `cancelTree` lock the root and a decision
in opposite orders, and one of two such transactions may be aborted; and two
claims at the same moment may pass `runningPerUser` by one, which a comment
accepts. Locks inside PostgreSQL are guards here, so neither is a property.

Four more show with other constants, and are kept as notes. With `MaxStalls = 1`
and `Tools = {"write"}`, `QueuedNodeIsVerified` fails: a worker that stalled,
and wakes up between the sweep's look at the journal and its commit, starts a
write, and the node is queued over it (hence `tree_stalls` does not check it).
With `OwnerOps = {"cancel", "retry_subtask"}` and two requests,
`CancelledTaskIsQuiet` fails without any race. When a lead's new subtasks have
all ended before its own turn is concluded, the turn counts as one that said
nothing and the task fails with `model_failed`. And without its first line
`RunningStepCanBeClosed` fails in `RunLedger`: a step started during a sweep by
a stalled worker stays `running` under a run that has ended, where neither
`begin` nor `resolve` touches it.

`HeldTurnHoldsLease` is likewise a property of workers that renew in time.

## What is proved

`RunLedger_proofs` proves, for all writes and any number of runs, steps, stalls
and sweeps, from `LedgerAssumption` (bounds are numbers, `NoWrite` is no write):

- `TypeCorrect`, `AmbiguousWritesAreUnique`, `NoWriteRepeatsBlindly`,
  `OneRunIsRunning`, `RunningStepsCanBeClosed`: invariants of `Spec`;
- `VerdictsAreFinal`, `ReleaseIsFenced`: what a step may never do.

The argument. `AmbiguousWriteUnique` is not inductive. It holds because steps
are numbered as they start (`Numbered`) and, when one starts, every earlier
attempt at its write is settled (`Ordered`); nothing unsettles a step again.
The one statement that could is the sweep's, which commits what it looked up
earlier; it holds the rows of those steps (`SweepHolds`), so they are still
running. `NoBlindRepeat` follows from `Ordered` and from `FailedIsKnown`: a step
on record as failed has not taken effect and is not under way, unless it is the
owner who said so. `LedgerInv` is the conjunction. Each of the lemmas
`ClosingResettles`, `SettlingResettles` and `ResettlingKeepsOrder` says what a
kind of update does to the records, and the step lemma `NextInv` has one step
per action.

`RunningStepsCanBeClosed` needs an invariant of its own, `NoStallInv`: while no
lease has lapsed under a live worker, the worker of a begun run has the lease
and its run is on record as running (`WorkerIsOnRecord`), a stale lease belongs
to a dead one (`StaleIsDead`), and the sweep never runs beside a worker, so what
it looked up is still everything there is to close (`SweepIsAlone`).

`AssignmentTree_proofs` proves, for every set of subtasks, either mode, all
tools, endings and requests, and any number of turns, crashes and stalls, from
`TreeAssumption`:

- `TreeTypeCorrect`, `NodesHaveOneTurn`: invariants of `Spec`;
- `MovesAreTransitions`, `EndedNodesStayEnded`: what a step may never do.

The argument. `OneTurnPerNode` says that two live turns never both pass the
guard "this version, and running". By itself it does not exclude that a turn
that lost its node gets it back by the version coming round. `TreeInv` says that
the version a live turn remembers is not above the node's (`TurnsAreBehind`),
and that no two remember the same one (`TurnsAreDistinct`); a claim hands out a
version above all. Both rest on one fact about rows, `RowMoves`: a step leaves
status and version alone, adds a row, or moves the status along `TRANSITIONS`
and counts the version up. It is proved action by action, and it is what the two
action properties follow from too. The sweep writes a row whose status it read
earlier; `SweepLocks` says that the row is still running, as everything else
that would move it waits for its lock.

`AssignmentTables_proofs` proves, over the same constants, what relates the
tables to one another. No single statement keeps any of it; each part has an
invariant of its own, and each hypothesis is one without which a run above, or a
note, shows the property fail.

- `WaitingNodesHaveTheirDecision`, from `DecisionInv`: the converse is needed,
  too. What is unanswered belongs to a node that waits, or to one cancelled just
  as it asked (the finding `cancel_meets_question`).
- `HeldTurnsHoldTheirLease`, as long as no worker stalls, from `LeaseInv`: a
  lease turns stale, and a node late, only when its workers are gone
  (`StaleIsDead`, `LateIsLost`), so a successor takes over from a dead one; who
  is at work holds the node, unless it was cancelled under it (`BusyHolds`).
- `QueuedNodesAreVerified`, as long as no worker stalls, from `StepInv`: an open
  step lies with the one turn that may settle the node, and as far as its place
  allows; a settle that finds it stops the node, and so does the sweep. Subtasks
  always; the root only where the owner cannot use `retry_subtask`, which is the
  finding `reopened_lead`.
- `CancelledTasksAreQuiet`, from `QuietInv`, where nobody runs a failed subtask
  again, or the task is responsive, so nothing fails (`NeverFails`). Otherwise
  it is the finding `cancel_meets_retry`.
- `SucceededTasksAreClosed`, as long as no worker stalls, from `ClosedInv`: from
  the lead's conclusion, which counted the open subtasks, to its settle nobody
  opens one (`NobodyOpens`). The team cannot, since a teammate at work holds its
  node and a live lead is the only one to hold the root; the owner can (the
  finding `added_before_success`), and so can a teammate that was cancelled and
  does not know, so `NobodyOpensLate` leaves those out.
- `NobodyIsLeftToWake`, from `WakeInv`: `Asleep` says that `planWakes` would
  name nobody. Steps that cannot stir anybody keep it (`Calm`), `wakeTree`
  establishes it (`WakingIsEnough`), and whoever stirs somebody has a wake to
  make (`StirredIsDue`). A post to the board and its wakes are two statements:
  there `PostersGoOn` asks that no worker stalls and no request cancels the
  poster, who would be stopped in between.

`AssignmentState_proofs` proves the properties of `decisions` for every set of
subtasks. `SettlesAreLegal` and `OpenChildrenComeFirst` follow `decideTurn` case
by case. `NobodyIsLeftStandingStill` follows from `WakingOnceIsEnough`: what
`wakeTree` does leaves the open subtasks open and the failed ones failed, so who
slept goes on sleeping, and who was woken waits no more.

`TaskQueue_proofs` proves, for all tasks, workers, attempts, deaths, lapses and
requests, from `QueueAssumption`, that `QueueSpec` keeps `QueueInv`, and from it
`QueueTypeOK`, `OpenTaskIsDelivered`, `OneWorkerPerTask` and the refinement
`LifeOfTasks`. The argument. A slot that works on a task holds its job as long
as no lock lapsed (`HoldersWork`), and a job has one holder: that is
`OneWorkerPerTask`. `OpenTaskIsDelivered` needs, for tasks that are not renders,
what a slot may conclude from its place about the row (`PlainRows`: the claimed
row is running with the slot's attempt, the one given back has ended or is
waiting again, unless a statement failed outside the handler), that attempts in
slot and job agree (`AttemptsAgree`), and what the API may still do
(`RequestsFit`). `DeliveryStep` has one step per action. The four ways in which
a worker's statement fails touch its slot only and send it to the outcome
(`FailingStep`), so they share a case.

`BackgroundJobs_proofs` proves `JobsImplementTheQueue`: every step of the
composition is a step of the queue or none, so the four theorems above hold of
`JobsSpec`, the specification the run checks. On top:

- `ClipsArePaidAndBilled`, from `VideoInv`: whoever is at the clips has the
  session lock, and the place of a clip in its handler says what its row holds;
  what was paid is at most what was forgiven, plus one once the vendor has it;
- `GenerationsArePaidOnce`, from `MediaInv`: as long as no lock lapses one slot
  is between the vendor and the row, and the vendor made one task for each lost
  id, plus one that is with the row or in that slot's hands;
- `CardsAreChargedOnce`, from `BillInv`: `ChargesAccountedFor` adds to the
  charges those that are still possible - the generation's handler may meter
  until the result is cached, the second download's until its row is closed -
  and the sum is one more than the lost entries at most. A worker that dies
  with a result in hand (`CrashCharges`), or whose result cannot be stored
  (`RowFailsCharges`), makes a charge possible again, and is one of the lost;
- `CardsAreSettled`, from `CardInv`: while the card says "generating" and nobody
  submits or cancels, its newest task is open and no handler of it has ended
  (`Unfinished`); only the owner closes it behind the handler's back, and tells
  the card; an error that keeps a handler from the card is on record in
  `lost.card`, and no other step ends one unheard (`EndsAreHandlers`);
- `JobsTypeCorrect`.

The same module proves `ReportsStayWithinTheLimit`, for any timetable,
dispatchers, workers and faults, from `ScheduleAssumption`. The argument.
`Timetabled` says that a run still to come is not on record, so the dispatcher
that locked its schedule is the first to record it. From then the run has one
worker at most (`ExecutorsFit`: only "queued" is taken up, and nothing becomes
"queued" again), which pays once and only for a run whose status counts from
then on (`PaidFits`); and the runs that count are within the limit since
`DispatchOne` adds one only below it (`LimitGrows`). `BackgroundRuns` says that
`MCBackground` only leaves steps out, which gives `BackgroundTypeCorrect`.

`Ledgers_proofs` proves `DraftsTakeEffectOnce`, for any drafts,
opportunities, actions, requests and faults, from `FollowAssumption` (finitely
many requests at a time). The argument. Each claim is a unit, held by its
request until it applies the draft, when it becomes an effect, or gives it
back. `PaidFor` says that effects and units of a draft are at most one more
than the faults, and no more than the faults whenever the draft may be
claimed, so that the next claim has room: a claim comes free by a unit given
back, or by age, which is a fault if its holder is alive, and if nobody is,
the unit went with a death. `OnceFor` says that a draft that took effect left
its target decided, completed or at a higher version, which `Grows` says no
operation undoes.

It proves `ScanIsNeverForgotten`, for any opportunities,
tickers, workers, jobs, attempts and faults, from `ScanAssumption`.
`TakenCareOf`, the conclusion, is stable: no step of anybody undoes it
(`TakenCareOfStep`). It is reached when a ticker adds a job, because then the
run is open, or a worker is at it, or it was scanned (`RecordsAreTrue`,
`NoRunNoJob`); and only from there does the schedule move on
(`LinkedIsTakenCareOf`). `LedgersTypeCorrect` puts journal, drafts and scan
together.

`Services_proofs` proves `CreditIsNeverAhead` and `RefundsAreNeverLost`,
for any reconcilers, amount and faults, from `PayAssumption`. The argument.
`CopiesFit` says of every reconciler's copy of the order, however old, what
`CreditedIsReported` says of the row: a step puts into its copy what the
accounting service has by then acknowledged, and that only grows. A late copy is
thus never wrong about credit; it could still lack a refund. `HolderIsUpToDate`
excludes that: who has the lease read the row after the last write to it.

In `KnowledgeIngestion` it proves `SearchNeverFallsBack`, from
`IndexAssumption` (`IndexInv`: what is pending is newer than what is active, and
a live run indexes a revision there was; an older run is fenced by the
generation). In `FeishuChannel` it proves `MessagesAreSentOnce`, from
`FeishuAssumption` (`FeishuInv`: a message that can still be claimed has not been
executed and nobody is at it; what was delivered is on record under one of the
two identities, and not as failed, so `send` finds it). `ServicesTypeCorrect`
puts the three together.

So every invariant and every action property that a passing run checks is
proved. Only model-checked: liveness (`RunningNodeLeavesItsWorker`,
`LeadHearsOfTheLastSubtask`, `PaidArrives`, `RunsEnd`, `NobodyWaitsForever`),
which is out of the prover's reach, as is that the bounded runs reach what they
are meant to. Where a theorem has a hypothesis, it is a state predicate or one
about the constants, written in the theorem; the run checks the property on an
instance that meets it.

## Plan

1. An abstract task that `AssignmentTree` implements, as `TaskLife` is for the
   queue; an abstract outbox for `FeishuChannel` and the ledger of charges for
   `MediaJob`.
2. Weaker hypotheses: `QueuedNodesAreVerified` and `SucceededTasksAreClosed`
   with stalls, which needs the moments in which a stalled worker may still
   write.
3. More modules: the settings and the profile's cadence around `FollowUps` and
   `DailyScan`, the commit of a product import, the voice checkpoints of a
   generation, the in-memory queue.

## Not modelled

The rest of the repository (clients, text processing, calls to models and
vendors, rendering, deployment) keeps little shared state, or none, and is
listed in `PROJECT.json` with the reason it is not modelled. Most of its lines
are pages, texts, prompts and checks of one request.
