--------------------------- MODULE AssignmentTree ---------------------------
(***************************************************************************)
(* One task of the digital employee: a root node and the subtasks under    *)
(* it, the worker processes that run their turns, the owner who starts,    *)
(* stops and answers, the sweep for nodes whose worker died, and the       *)
(* wake-ups.                                                               *)
(*                                                                         *)
(* Source: packages/server/src/digital-employee/assignment-repository.ts   *)
(* (the SQL), assignment-runner.ts (the turn), assignment-service.ts (the  *)
(* owner), assignment-team-tools.ts and assignment-tools.ts (what the      *)
(* model may call), db/database.ts (the conversation's run lease).         *)
(*                                                                         *)
(* Everything runs under READ COMMITTED. A statement, or a transaction     *)
(* whose rows are locked from its first read, is one action. A transaction *)
(* that reads before it locks is two actions, and the rows it holds in     *)
(* between are not Free.                                                   *)
(*                                                                         *)
(* A turn is named by a number and never reused, as its run id is fresh.   *)
(* Left out: what is said, spent and searched; not_before and the age of   *)
(* a lease are replaced by "any time may have passed".                     *)
(***************************************************************************)
EXTENDS AssignmentState, Sequences

CONSTANTS
    Root, Children,   \* the nodes; the children not in Started have no row yet
    Started,          \* the subtasks the owner gave at creation
    Mode,             \* the mode of the tree: children inherit the root's
    Tools,            \* what the model may call: a subset of ToolNames
    Endings,          \* how a turn may end when no tool ends it: see EndTurn
    OwnerOps,         \* what the owner may do: a subset of OwnerOpNames
    Deadlines,        \* whether a wait may set minutes: a subset of BOOLEAN
    RunningPerUser,   \* runningPerUser: nodes of the account running at once
    TeamRetries,      \* subtaskRetries: how often a teammate may wake a node
    MaxTurns,         \* bound: turns claimed in a behaviour
    MaxOwnerOps,      \* bound: what the owner does in a behaviour
    MaxCrashes,       \* bound: workers that die
    MaxStalls         \* bound: leases that lapse under a worker still alive

ToolNames == {"write", "finish", "wait", "ask", "create", "post", "retry"}
OwnerOpNames == {"cancel", "cancel_subtask", "answer", "retry", "retry_subtask",
                 "follow_up", "add", "resume", "verify"}

Nodes == Children \union {Root}
Turns == 1 .. MaxTurns
NoTurn == 0

ASSUME TreeAssumption ==
    /\ Root \notin Children
    /\ Started \subseteq Children
    /\ IsFiniteSet(Children)
    /\ Mode \in AssignmentMode
    /\ Tools \subseteq ToolNames
    /\ Endings \subseteq TurnStatus \union {"quota", "over_limit"}
    /\ OwnerOps \subseteq OwnerOpNames
    /\ Deadlines \subseteq BOOLEAN
    /\ {RunningPerUser, TeamRetries, MaxTurns, MaxOwnerOps, MaxCrashes, MaxStalls}
         \subseteq Nat

VARIABLES
    row,        \* de_assignments, one record per node
    undecided,  \* de_assignment_decisions: the kinds of the unanswered rows of a node
    paused,     \* paused_reason of the root: "no" is NULL
    lease,      \* conversations.active_run_id: the turn holding it
    late,       \* the nodes whose lease_until has passed
    stale,      \* the nodes whose conversation lease is CONVERSATION_STALE_MS old
    turn,       \* the worker side: one record per turn
    sweep,      \* sweepOrphans between its reads and its writes
    owner,      \* cancelTree / cancelSubtask between their two updates
    wakesDue,   \* wakeTree calls the service or the sweep still has to make
    spent       \* what was used of the bounds

vars == <<row, undecided, paused, lease, late, stale, turn, sweep, owner, wakesDue, spent>>

Statuses == AssignmentStatus \union {"absent"}
Reasons == {"none", "unknown_outcome", "other"}
Pauses == {"no", "quota", "cost_limit"}
Waits == [until : Untils \union {"none"}, targets : SUBSET Nodes, heard : SUBSET Nodes]

Rows == [status : Statuses, version : Nat, endIntent : EndIntents, waitFor : Waits,
         deadline : BOOLEAN, reason : Reasons, autoResumed : BOOLEAN, retries : Nat]

Results == [status : TurnStatus, question : BOOLEAN, quota : BOOLEAN, paused : BOOLEAN]

(* step is the turn's unfinished write in agent_steps, if it has one.      *)
TurnRecords ==
    [pc : {"unused", "claimed", "working", "calling", "posted", "closing", "ended",
           "settling", "waking", "over", "dead"},
     node : Nodes, version : Nat, tool : ToolNames \union {"none"},
     step : {"none", "running", "unknown_outcome"}, result : Results, decision : Decisions]

NoResult == [status |-> "threw", question |-> FALSE, quota |-> FALSE, paused |-> FALSE]
NoDecision == Decide("cancel", "none")
NoSweep == [node |-> Root, active |-> FALSE, unverified |-> FALSE]
NoCancel == [op |-> "none", node |-> Root, closing |-> {}]

NewRow(status) ==
    [status |-> status, version |-> 0, endIntent |-> "none", waitFor |-> NoWait,
     deadline |-> FALSE, reason |-> "none", autoResumed |-> FALSE, retries |-> 0]

(* AssignmentRepository.create: with subtasks planning is skipped.         *)
Init ==
    /\ row = [n \in Nodes |->
                NewRow(IF n = Root /\ Started # {} THEN "waiting_children"
                       ELSE IF n \in Started \union {Root} THEN "queued" ELSE "absent")]
    /\ undecided = [n \in Nodes |-> <<>>]
    /\ paused = "no"
    /\ lease = [n \in Nodes |-> NoTurn]
    /\ late = {} /\ stale = {}
    /\ turn = [t \in Turns |->
                 [pc |-> "unused", node |-> Root, version |-> 0, tool |-> "none",
                  step |-> "none", result |-> NoResult, decision |-> NoDecision]]
    /\ sweep = NoSweep /\ owner = NoCancel /\ wakesDue = 0
    /\ spent = [owner |-> 0, crashes |-> 0, stalls |-> 0]
-----------------------------------------------------------------------------
(* Reading the tables.                                                     *)

Tree == {n \in Nodes : row[n].status # "absent"}
StatusOf == [n \in Tree |-> row[n].status]
OpenSubtasks == OpenChildren(Root, StatusOf)
TurnsOf(n) == {t \in Turns : turn[t].pc # "unused" /\ turn[t].node = n}
Live(t) == turn[t].pc \notin {"unused", "over", "dead"}

(* UNVERIFIED: writes of the node whose result nobody confirmed.           *)
\* mutant: nobody asks the journal
NeverUnverified(n) == FALSE
Unverified(n) == \E t \in TurnsOf(n) : turn[t].step = "unknown_outcome"

(* Rows held by a transaction that is not finished.                        *)
Free(n) ==
    /\ ~(sweep.active /\ sweep.node = n)
    /\ ~(owner.op = "cancel" /\ n = Root)

(* WHERE id AND version AND status='running': the row is still this turn's. *)
HeldByStatus(t) == row[turn[t].node].status = "running"
\* mutant: the version is forgotten
HeldInAnyVersion(t) == HeldByStatus(t)
Held(t) ==
    /\ row[turn[t].node].version = turn[t].version
    /\ row[turn[t].node].status = "running"

HoldsLease(t) == lease[turn[t].node] = t

\* mutant: every conversation of the task is freed
FreedAll(n) == [m \in Nodes |-> NoTurn]
Freed(n) == [lease EXCEPT ![n] = NoTurn]

(* An UPDATE of one row: every one of them counts the version up.          *)
Update(n, new) == [row EXCEPT ![n] = [new EXCEPT !.version = row[n].version + 1]]

Requeue(n) == [row[n] EXCEPT !.status = "queued"]

(* wakeTree: late waits are those whose deadline has passed by now.        *)
AfterWake(dueNow) ==
    LET wakes  == PlanWakes(Root, StatusOf, [n \in Tree |-> row[n].waitFor], dueNow)
        status == Woken(StatusOf, wakes)
    IN  [n \in Nodes |->
            IF n \in Tree /\ status[n] # row[n].status
            THEN [row[n] EXCEPT !.status = status[n], !.version = @ + 1,
                                !.waitFor = NoWait, !.deadline = FALSE]
            ELSE row[n]]

Deadlined == {n \in Tree : row[n].status = "waiting_team" /\ row[n].deadline}

WakeTree == Free(Root) /\ \E dueNow \in SUBSET Deadlined : row' = AfterWake(dueNow)
-----------------------------------------------------------------------------
(* The worker: claiming a node and its conversation.                       *)

Running == {n \in Tree : row[n].status = "running"}

(* runningPerUser is compared with a count that takes no lock, so a claim  *)
(* made at the same moment may be missing from it.                         *)
HasRoom == Cardinality(Running) <= RunningPerUser

Claim(t, n) ==
    /\ turn[t].pc = "unused" /\ \A u \in 1 .. t - 1 : turn[u].pc # "unused"
    /\ row[n].status = "queued" /\ paused = "no" /\ Free(n)
    /\ HasRoom
    /\ row' = Update(n, [row[n] EXCEPT !.status = "running", !.endIntent = "none"])
    /\ late' = late \ {n}
    /\ turn' = [turn EXCEPT ![t].pc = "claimed", ![t].node = n,
                            ![t].version = row[n].version + 1]
    /\ UNCHANGED <<undecided, paused, lease, stale, sweep, owner, wakesDue, spent>>

(* The process has nothing more to do with the node; only its unfinished   *)
(* write stays behind, in the journal.                                     *)
Leave(t, pc) ==
    turn' = [turn EXCEPT ![t] = [@ EXCEPT !.pc = pc, !.version = 0, !.tool = "none",
                                          !.result = NoResult, !.decision = NoDecision]]

(* A run that takes the conversation closes the steps an earlier one left  *)
(* running (RunRepository.begin).                                          *)
CloseSteps(n) ==
    [u \in Turns |-> IF u \in TurnsOf(n) /\ turn[u].step = "running"
                     THEN [turn[u] EXCEPT !.step = "unknown_outcome"] ELSE turn[u]]

(* claimConversation, then recordRun and begin.                            *)
TakeConversation(t) ==
    LET n == turn[t].node
    IN  /\ turn[t].pc = "claimed"
        /\ lease[n] = NoTurn \/ n \in stale
        /\ lease' = [lease EXCEPT ![n] = t]
        /\ stale' = stale \ {n}
        /\ turn' = [CloseSteps(n) EXCEPT ![t].pc = "working"]
        /\ UNCHANGED <<row, undecided, paused, late, sweep, owner, wakesDue, spent>>

(* The conversation is still held by a dying run: the node is put back.    *)
ConversationBusy(t) ==
    LET n == turn[t].node
    IN  /\ turn[t].pc = "claimed"
        /\ lease[n] # NoTurn /\ n \notin stale
        /\ Free(n)
        /\ row' = IF Held(t) THEN Update(n, Requeue(n)) ELSE row
        /\ late' = IF Held(t) THEN late \ {n} ELSE late
        /\ Leave(t, "over")
        /\ UNCHANGED <<undecided, paused, lease, stale, sweep, owner, wakesDue, spent>>

(* watch(): every RENEW_MS the node's lease, then the conversation's.      *)
Renew(t) ==
    LET n == turn[t].node
    IN  /\ turn[t].pc \in {"working", "calling", "posted", "closing"}
        /\ Held(t) /\ Free(n)
        /\ n \in late \/ (HoldsLease(t) /\ n \in stale)
        /\ late' = late \ {n}
        /\ stale' = IF HoldsLease(t) THEN stale \ {n} ELSE stale
        /\ UNCHANGED <<row, undecided, paused, lease, turn, sweep, owner, wakesDue, spent>>

(* The turn is over for the agent; what it reports goes with it, a tool's  *)
(* earlier refusal for lack of balance included.                           *)
Close(t, result) ==
    turn' = [turn EXCEPT ![t].pc = "closing", ![t].tool = "none",
                         ![t].result = [result EXCEPT !.quota = result.quota \/ turn[t].result.quota]]

Ended(status) == [NoResult EXCEPT !.status = status]

(* The tool answered, and journal.finish recorded a known outcome.         *)
Back(t) ==
    turn' = [turn EXCEPT ![t].pc = "working", ![t].tool = "none", ![t].step = "none"]

WriteTools == {"write", "create", "post", "retry"}
-----------------------------------------------------------------------------
(* The turn: what the model may call while it holds the conversation.      *)

(* createTeamTools and assignmentAllowedTools.                             *)
Offered(t, tool) ==
    /\ tool \in Tools
    /\ tool = "wait" => turn[t].node # Root
    /\ tool = "ask" => Mode = "responsive"
    /\ tool = "retry" => Mode = "autonomous" /\ TeamRetries > 0

(* journal.start: the step is on record before the tool runs, and only for *)
(* the run the conversation belongs to (assertLease).                      *)
CallTool(t, tool) ==
    /\ turn[t].pc = "working" /\ Offered(t, tool) /\ HoldsLease(t)
    /\ turn' = [turn EXCEPT ![t].pc = "calling", ![t].tool = tool,
                            ![t].step = IF tool \in WriteTools THEN "running" ELSE @]
    /\ UNCHANGED <<row, undecided, paused, lease, late, stale, sweep, owner, wakesDue, spent>>

Calling(t, tool) == turn[t].pc = "calling" /\ turn[t].tool = tool

(* The tool did what it does outside this system, or refused: no such      *)
(* teammate, no room under the subtask limit, unread news before finishing.*)
ToolReturns(t) ==
    /\ turn[t].pc = "calling"
    /\ Back(t)
    /\ UNCHANGED <<row, undecided, paused, lease, late, stale, sweep, owner, wakesDue, spent>>

(* A write that timed out or lost its connection: the registry reports     *)
(* unknown_outcome, and the agent ends the run with that status.           *)
WriteUnknown(t) ==
    /\ turn[t].pc = "calling" /\ turn[t].tool \in WriteTools
    /\ turn' = [turn EXCEPT ![t].pc = "closing", ![t].tool = "none",
                            ![t].step = "unknown_outcome",
                            ![t].result = Ended("unknown_outcome")]
    /\ UNCHANGED <<row, undecided, paused, lease, late, stale, sweep, owner, wakesDue, spent>>

(* pause(): only the first call writes, and only while the root is open.   *)
Pause(reason) ==
    IF paused = "no" /\ IsOpen(row[Root].status) THEN reason ELSE paused

(* A tool was refused for lack of balance: the task is paused at once.     *)
ToolOutOfQuota(t) ==
    /\ turn[t].pc = "calling" /\ "quota" \in Endings
    /\ turn' = [turn EXCEPT ![t].pc = "working", ![t].tool = "none", ![t].step = "none",
                            ![t].result.quota = TRUE]
    /\ paused' = Pause("quota")
    /\ UNCHANGED <<row, undecided, lease, late, stale, sweep, owner, wakesDue, spent>>

(* finish_task with its guard, then recordEndIntent, which names the       *)
(* conversation and the status but not the version.                        *)
FinishTask(t, outcome) ==
    LET n == turn[t].node
    IN  /\ Calling(t, "finish")
        /\ n = Root => OpenSubtasks = {}
        /\ HeldByStatus(t) /\ Free(n)
        /\ row' = [row EXCEPT ![n].endIntent = outcome]
        /\ Close(t, Ended("awaiting_input"))
        /\ UNCHANGED <<undecided, paused, lease, late, stale, sweep, owner, wakesDue, spent>>

(* wait_for_team: only teammates still open count.                         *)
WaitForTeam(t, until, targets, deadline) ==
    LET n == turn[t].node
    IN  /\ Calling(t, "wait")
        /\ targets # {} /\ targets \subseteq OpenSubtasks \ {n}
        /\ Free(n)
        /\ row' = IF HeldByStatus(t)
                  THEN [row EXCEPT ![n].endIntent = "wait", ![n].deadline = deadline,
                            ![n].waitFor = [until |-> until, targets |-> targets, heard |-> {}]]
                  ELSE row
        /\ Close(t, Ended("awaiting_input"))
        /\ UNCHANGED <<undecided, paused, lease, late, stale, sweep, owner, wakesDue, spent>>

AskUser(t) ==
    /\ Calling(t, "ask")
    /\ Close(t, [Ended("awaiting_input") EXCEPT !.question = TRUE])
    /\ UNCHANGED <<row, undecided, paused, lease, late, stale, sweep, owner, wakesDue, spent>>

Added(new) == [n \in Nodes |-> IF n \in new THEN NewRow("queued") ELSE row[n]]

(* create_subtasks under the root's lock. It ends the lead's turn; under a *)
(* root that is not open the ConflictError is classified "unknown", which  *)
(* for a write is an unknown outcome.                                      *)
CreateSubtasks(t, new) ==
    /\ Calling(t, "create") /\ Free(Root)
    /\ new # {} /\ new \subseteq Children \ Tree
    /\ IsOpen(row[Root].status)
    /\ row' = Added(new)
    /\ IF turn[t].node = Root
       THEN turn' = [turn EXCEPT ![t].pc = "closing", ![t].tool = "none", ![t].step = "none",
                                 ![t].result = Ended("awaiting_input")]
       ELSE Back(t)
    /\ UNCHANGED <<undecided, paused, lease, late, stale, sweep, owner, wakesDue, spent>>

(* post_team_update, and the wakeTree that follows it.                     *)
Post(t) ==
    LET n == turn[t].node
    IN  /\ Calling(t, "post")
        /\ row' = [m \in Nodes |-> IF n \in row[m].waitFor.targets
                                   THEN [row[m] EXCEPT !.waitFor.heard = @ \union {n}]
                                   ELSE row[m]]
        /\ turn' = [turn EXCEPT ![t].pc = "posted"]
        /\ UNCHANGED <<undecided, paused, lease, late, stale, sweep, owner, wakesDue, spent>>

PostWakes(t) ==
    /\ turn[t].pc = "posted"
    /\ WakeTree
    /\ Back(t)
    /\ UNCHANGED <<undecided, paused, lease, late, stale, sweep, owner, wakesDue, spent>>

(* retryByTeam: the row of the failed subtask is locked, the root's is not *)
(* and its status is not read.                                             *)
RetryByTeam(t, c) ==
    /\ Calling(t, "retry") /\ c \in Children /\ Free(c)
    /\ row[c].status = "failed" /\ row[c].retries < TeamRetries
    /\ row[c].reason # "unknown_outcome" /\ ~Unverified(c)
    /\ row' = Update(c, [Requeue(c) EXCEPT !.retries = @ + 1, !.reason = "none",
                                           !.endIntent = "none"])
    /\ Back(t)
    /\ UNCHANGED <<undecided, paused, lease, late, stale, sweep, owner, wakesDue, spent>>
-----------------------------------------------------------------------------
(* The turn: how it ends.                                                  *)

(* The stream ended by itself. "quota" is a model call refused for lack of *)
(* balance; "over_limit" is checkpoint() finding the cost limit reached,   *)
(* which pauses the task and stops the turn at an iteration boundary.      *)
EndTurn(t, ending) ==
    /\ turn[t].pc = "working" /\ ending \in Endings
    /\ paused' = IF ending = "over_limit" THEN Pause("cost_limit") ELSE paused
    /\ Close(t, CASE ending = "quota"      -> [Ended("failed") EXCEPT !.quota = TRUE]
                  [] ending = "over_limit" -> [Ended("budget_exhausted") EXCEPT !.paused = TRUE]
                  [] OTHER                 -> Ended(ending))
    /\ UNCHANGED <<row, undecided, lease, late, stale, sweep, owner, wakesDue, spent>>

(* checkpoint() found the task paused by another of its nodes.             *)
StopWhenPaused(t) ==
    /\ turn[t].pc = "working" /\ paused # "no"
    /\ Close(t, [Ended("budget_exhausted") EXCEPT !.paused = TRUE])
    /\ UNCHANGED <<row, undecided, paused, lease, late, stale, sweep, owner, wakesDue, spent>>

(* The run lost the conversation: its next journal entry or message throws.*)
LoseLease(t) ==
    /\ turn[t].pc = "working" /\ ~HoldsLease(t)
    /\ Close(t, Ended("failed"))
    /\ UNCHANGED <<row, undecided, paused, lease, late, stale, sweep, owner, wakesDue, spent>>

(* An abort in the middle of a write leaves its outcome unknown, and that  *)
(* is the status the run then reports.                                     *)
Aborted(t) ==
    IF turn[t].tool \in WriteTools
    THEN turn' = [turn EXCEPT ![t].pc = "closing", ![t].tool = "none",
                              ![t].step = "unknown_outcome",
                              ![t].result = Ended("unknown_outcome")]
    ELSE Close(t, Ended("cancelled"))

(* watch() found the node or the conversation no longer this turn's.       *)
AbortLost(t) ==
    /\ turn[t].pc \in {"working", "calling", "posted"}
    /\ ~Held(t) \/ ~HoldsLease(t)
    /\ Aborted(t)
    /\ UNCHANGED <<row, undecided, paused, lease, late, stale, sweep, owner, wakesDue, spent>>

(* stop(): the worker shuts down and the grace period is over.             *)
Shutdown(t) ==
    /\ turn[t].pc \in {"working", "calling", "posted"}
    /\ spent.crashes < MaxCrashes
    /\ Aborted(t)
    /\ spent' = [spent EXCEPT !.crashes = @ + 1]
    /\ UNCHANGED <<row, undecided, paused, lease, late, stale, sweep, owner, wakesDue>>

(* RunRepository.finish, then releaseConversationRun, which is fenced.     *)
EndRun(t) ==
    LET n == turn[t].node
    IN  /\ turn[t].pc = "closing"
        /\ turn' = [turn EXCEPT ![t].pc = "ended",
                                ![t].step = IF @ = "running" THEN "unknown_outcome" ELSE @]
        /\ lease' = IF HoldsLease(t) THEN Freed(n) ELSE lease
        /\ stale' = IF HoldsLease(t) THEN stale \ {n} ELSE stale
        /\ UNCHANGED <<row, undecided, paused, late, sweep, owner, wakesDue, spent>>

(* conclude() up to its switch: read the row and the subtasks, decide, and *)
(* pause the task when the turn stopped for lack of balance.               *)
TurnRead(t, progress, previous, stopping) ==
    LET n == turn[t].node
        result == turn[t].result
    IN  [mode |-> Mode, status |-> result.status, endIntent |-> row[n].endIntent,
         openChildren |-> n = Root /\ OpenSubtasks # {}, question |-> result.question,
         quota |-> result.quota, paused |-> result.paused, shuttingDown |-> stopping,
         madeProgress |-> progress, previous |-> previous]

(* stopping is a worker within its grace period, which a turn that threw   *)
(* notices; for an aborted turn it makes no difference to the row.         *)
Conclude(t, stuck, stopping) ==
    LET read == IF stuck THEN TurnRead(t, FALSE, "no_progress", stopping)
                ELSE TurnRead(t, TRUE, "none", stopping)
        decision == DecideTurn(read)
    IN  /\ turn[t].pc = "ended"
        /\ stuck => turn[t].result.status = "budget_exhausted"
        /\ stopping => turn[t].result.status = "threw" /\ spent.crashes < MaxCrashes
        /\ spent' = IF stopping THEN [spent EXCEPT !.crashes = @ + 1] ELSE spent
        /\ turn' = [turn EXCEPT ![t].pc = "settling", ![t].decision = decision,
                                ![t].result = NoResult]
        /\ paused' = IF turn[t].result.quota /\ decision.next \in {"pause", "wait_children"}
                     THEN Pause("quota") ELSE paused
        /\ UNCHANGED <<row, undecided, lease, late, stale, sweep, owner, wakesDue>>

\* mutant: the decision's own reason is kept
RawReason(decision, old) == IF decision.reason = "none" THEN old ELSE decision.reason
ReasonOf(decision, old) ==
    CASE decision.reason = "unknown_outcome" -> "unknown_outcome"
      [] decision.reason = "none"            -> old
      [] OTHER                               -> "other"

AskOwner(n, kind) == [undecided EXCEPT ![n] = Append(@, kind)]

(* settle(): only if the row is still this turn's, so a node the owner     *)
(* cancelled meanwhile stays cancelled. Its decision is in the same        *)
(* transaction.                                                            *)
\* mutant: the row is written whoever has it by now
WritesAnyway(t) == SettleTo(turn[t].decision) # "none"
Writes(t) == SettleTo(turn[t].decision) # "none" /\ Held(t)

Settle(t) ==
    LET n == turn[t].node
        decision == turn[t].decision
        wins == Writes(t)
    IN  /\ turn[t].pc = "settling" /\ Free(n)
        /\ turn' = [turn EXCEPT ![t].pc = "waking", ![t].decision = NoDecision]
        /\ row' = IF wins
                  THEN Update(n, [row[n] EXCEPT !.status = SettleTo(decision), !.endIntent = "none",
                                                !.reason = ReasonOf(decision, @)])
                  ELSE row
        /\ late' = IF wins THEN late \ {n} ELSE late
        /\ undecided' = CASE wins /\ decision.next = "ask"         -> AskOwner(n, "question")
                          [] wins /\ decision.next = "ask_failure" -> AskOwner(n, "failure")
                          [] OTHER                                 -> undecided
        /\ UNCHANGED <<paused, lease, stale, sweep, owner, wakesDue, spent>>

TurnWakes(t) ==
    /\ turn[t].pc = "waking"
    /\ WakeTree
    /\ Leave(t, "over")
    /\ UNCHANGED <<undecided, paused, lease, late, stale, sweep, owner, wakesDue, spent>>

(* The worker process dies: nothing it was about to do happens.            *)
Crash(t) ==
    /\ Live(t) /\ spent.crashes < MaxCrashes
    /\ Leave(t, "dead")
    /\ spent' = [spent EXCEPT !.crashes = @ + 1]
    /\ UNCHANGED <<row, undecided, paused, lease, late, stale, sweep, owner, wakesDue>>
-----------------------------------------------------------------------------
(* Time, and the sweep.                                                    *)

Stall == spent.stalls < MaxStalls /\ spent' = [spent EXCEPT !.stalls = @ + 1]

(* LEASE_SECONDS without a renewal: nobody renews, or the process holding  *)
(* the node was kept from doing so.                                        *)
LeaseLapses(n) ==
    /\ row[n].status = "running" /\ n \notin late
    /\ IF \E t \in TurnsOf(n) : Live(t) /\ Held(t) THEN Stall ELSE UNCHANGED spent
    /\ late' = late \union {n}
    /\ UNCHANGED <<row, undecided, paused, lease, stale, turn, sweep, owner, wakesDue>>

ConversationStale(n) ==
    /\ lease[n] # NoTurn /\ n \notin stale
    /\ IF Live(lease[n]) THEN Stall ELSE UNCHANGED spent
    /\ stale' = stale \union {n}
    /\ UNCHANGED <<row, undecided, paused, lease, late, turn, sweep, owner, wakesDue>>

\* mutant: only what was closed already counts
ClosedWrites(n) == Unverified(n)
MayHaveWritten(n) == \E t \in TurnsOf(n) : turn[t].step \in {"running", "unknown_outcome"}

\* mutant: a node resumed once is not looked at again
OrphanedOnce(n) == row[n].status = "running" /\ n \in late /\ ~row[n].autoResumed
Orphaned(n) == row[n].status = "running" /\ n \in late

\* mutant: the wake is forgotten
WakeNever == wakesDue
WakeLater == wakesDue + 1

(* sweepOrphans up to its first update: the row is locked, and the journal *)
(* is read.                                                                *)
SweepLooks(n) ==
    /\ ~sweep.active
    /\ Orphaned(n) /\ Free(n)
    /\ sweep' = [node |-> n, active |-> TRUE, unverified |-> MayHaveWritten(n)]
    /\ UNCHANGED <<row, undecided, paused, lease, late, stale, turn, owner, wakesDue, spent>>

(* The rest of it: the journal and the lease are closed whatever happened  *)
(* since, and the node goes on by what was read. The sweep then wakes.     *)
SweepActs ==
    LET n == sweep.node
        resumed == ~sweep.unverified /\ ~row[n].autoResumed
        reason == IF sweep.unverified THEN "unknown_outcome" ELSE "other"
    IN  /\ sweep.active
        /\ turn' = CloseSteps(n)
        /\ lease' = Freed(n)
        /\ stale' = stale \ {n} /\ late' = late \ {n}
        /\ row' = Update(n,
             IF resumed THEN [Requeue(n) EXCEPT !.autoResumed = TRUE]
             ELSE [row[n] EXCEPT !.reason = reason,
                                 !.status = IF Mode = "responsive" THEN "waiting_user"
                                            ELSE "failed"])
        /\ undecided' = IF ~resumed /\ Mode = "responsive" THEN AskOwner(n, "failure")
                        ELSE undecided
        /\ sweep' = NoSweep
        /\ wakesDue' = WakeLater
        /\ UNCHANGED <<paused, owner, spent>>

(* wakeTree from the service, or from the sweep that has just run.         *)
WakeDue ==
    /\ wakesDue > 0
    /\ WakeTree
    /\ wakesDue' = wakesDue - 1
    /\ UNCHANGED <<undecided, paused, lease, late, stale, turn, sweep, owner, spent>>

(* wakeWaiting on the timer.                                               *)
TimerWakes ==
    /\ \E n \in Tree : row[n].status \in {"waiting_team", "waiting_children"}
    /\ WakeTree
    /\ UNCHANGED <<undecided, paused, lease, late, stale, turn, sweep, owner, wakesDue, spent>>
-----------------------------------------------------------------------------
(* The owner. One of these at a time.                                      *)

OwnerActs(op) ==
    /\ op \in OwnerOps /\ owner.op = "none"
    /\ spent.owner < MaxOwnerOps
    /\ spent' = [spent EXCEPT !.owner = @ + 1]

\* mutants: what ended is cancelled too; what waits is not
CancelledAll(nodes) ==
    [n \in Nodes |->
        IF n \in nodes THEN [row[n] EXCEPT !.status = "cancelled", !.version = @ + 1] ELSE row[n]]
CancelledBusy(nodes) ==
    [n \in Nodes |->
        IF n \in nodes /\ row[n].status \in {"queued", "running", "waiting_children"}
        THEN [row[n] EXCEPT !.status = "cancelled", !.version = @ + 1] ELSE row[n]]
Cancelled(nodes) ==
    [n \in Nodes |->
        IF n \in nodes /\ IsOpen(row[n].status)
        THEN [row[n] EXCEPT !.status = "cancelled", !.version = @ + 1] ELSE row[n]]

OpenNodes == {n \in Tree : IsOpen(row[n].status)}

(* cancelTree's first two statements: the root's row, then the decisions   *)
(* of the tree as they are now. What they close shows at the commit.       *)
CancelLooks ==
    /\ OwnerActs("cancel") /\ OpenNodes # {} /\ Free(Root)
    /\ owner' = [op |-> "cancel", node |-> Root, closing |-> {n \in Tree : undecided[n] # <<>>}]
    /\ UNCHANGED <<row, undecided, paused, lease, late, stale, turn, sweep, wakesDue>>

Closed(nodes) == [n \in Nodes |-> IF n \in nodes THEN <<>> ELSE undecided[n]]

(* Its third: whatever is open by now is cancelled.                        *)
CancelActs ==
    /\ owner.op = "cancel"
    /\ \A n \in OpenNodes \ {Root} : Free(n)
    /\ row' = Cancelled(Tree)
    /\ late' = late \ OpenNodes
    /\ undecided' = Closed(owner.closing)
    /\ owner' = NoCancel
    /\ UNCHANGED <<paused, lease, stale, turn, sweep, wakesDue, spent>>

(* cancelSubtask, in the same order; the service wakes if it did cancel.   *)
CancelSubtaskLooks(c) ==
    /\ OwnerActs("cancel_subtask") /\ c \in OpenNodes \ {Root}
    /\ owner' = [op |-> "cancel_subtask", node |-> c,
                 closing |-> {n \in {c} : undecided[n] # <<>>}]
    /\ UNCHANGED <<row, undecided, paused, lease, late, stale, turn, sweep, wakesDue>>

CancelSubtaskActs ==
    LET c == owner.node
        open == IsOpen(row[c].status)
    IN  /\ owner.op = "cancel_subtask" /\ Free(c)
        /\ row' = IF open
                  THEN [Cancelled({c}) EXCEPT ![c].waitFor = NoWait, ![c].deadline = FALSE]
                  ELSE row
        /\ late' = IF open THEN late \ {c} ELSE late
        /\ undecided' = Closed(owner.closing)
        /\ owner' = NoCancel
        /\ wakesDue' = IF open THEN WakeLater ELSE wakesDue
        /\ UNCHANGED <<paused, lease, stale, turn, sweep, spent>>

Choices(kind) == IF kind = "question" THEN {"continue"} ELSE {"continue", "skip", "end"}

\* mutant: the answer does not close the decision
StillAsked(n) == undecided
Answered(n) == [undecided EXCEPT ![n] = Tail(@)]

(* answerDecision: the node must still be waiting, and to run it again     *)
(* nothing may be unconfirmed. "end", and "skip" on the root, cancel the   *)
(* tree in the same transaction. The service wakes.                        *)
Answer(n, choice) ==
    LET ends == choice = "end" \/ (choice = "skip" /\ n = Root)
        open == OpenNodes \ (IF choice = "skip" THEN {n} ELSE {})
        mine == CASE choice = "continue" -> [Requeue(n) EXCEPT !.reason = "none"]
                  [] choice = "skip"     -> [row[n] EXCEPT !.status = "skipped"]
                  [] choice = "end"      -> row[n]
    IN  /\ OwnerActs("answer") /\ undecided[n] # <<>> /\ choice \in Choices(Head(undecided[n]))
        /\ Free(n) /\ row[n].status = "waiting_user"
        /\ choice = "continue" => ~Unverified(n)
        /\ ends => \A m \in open : Free(m)
        /\ row' = IF ends THEN [Cancelled(Tree \ (IF choice = "skip" THEN {n} ELSE {})) EXCEPT ![n] =
                                  IF choice = "skip" THEN Update(n, mine)[n] ELSE @]
                  ELSE Update(n, mine)
        /\ late' = IF ends THEN late \ open ELSE late
        /\ undecided' = IF ends THEN Closed(Tree) ELSE Answered(n)
        /\ wakesDue' = WakeLater
        /\ UNCHANGED <<paused, lease, stale, turn, sweep, owner>>

Again(n) == [Requeue(n) EXCEPT !.reason = "none", !.endIntent = "none"]

(* retry: the root of a failed task.                                       *)
RetryTask ==
    /\ OwnerActs("retry") /\ Free(Root)
    /\ row[Root].status = "failed" /\ ~Unverified(Root)
    /\ row' = Update(Root, Again(Root))
    /\ UNCHANGED <<undecided, paused, lease, late, stale, turn, sweep, owner, wakesDue>>

(* retrySubtask: a task that had succeeded or failed opens again.          *)
RetrySubtask(c) ==
    LET reopened == [row[Root] EXCEPT !.status = "waiting_children", !.reason = "none"]
    IN  /\ OwnerActs("retry_subtask") /\ Free(Root) /\ Free(c)
        /\ row[c].status = "failed" /\ ~Unverified(c)
        /\ row' = IF row[Root].status \in {"succeeded", "failed"}
                  THEN [Update(Root, reopened) EXCEPT ![c] = Update(c, Again(c))[c]]
                  ELSE Update(c, Again(c))
        /\ UNCHANGED <<undecided, paused, lease, late, stale, turn, sweep, owner, wakesDue>>

FollowUp ==
    /\ OwnerActs("follow_up") /\ Free(Root)
    /\ row[Root].status \in {"succeeded", "failed"} /\ ~Unverified(Root)
    /\ row' = Update(Root, Again(Root))
    /\ UNCHANGED <<undecided, paused, lease, late, stale, turn, sweep, owner, wakesDue>>

AddSubtask(c) ==
    /\ OwnerActs("add") /\ Free(Root) /\ c \in Children \ Tree
    /\ IsOpen(row[Root].status)
    /\ row' = Added({c})
    /\ UNCHANGED <<undecided, paused, lease, late, stale, turn, sweep, owner, wakesDue>>

(* resume and resumeQuotaPaused; the service asks for a limit with room.   *)
Resume ==
    /\ OwnerActs("resume") /\ paused # "no"
    /\ paused' = "no"
    /\ UNCHANGED <<row, undecided, lease, late, stale, turn, sweep, owner, wakesDue>>

(* RunRepository.resolve: the owner looked, and says what became of it.    *)
Verify(t) ==
    /\ OwnerActs("verify")
    /\ turn[t].pc # "unused" /\ turn[t].step = "unknown_outcome"
    /\ lease[turn[t].node] = NoTurn
    /\ turn' = [turn EXCEPT ![t].step = "none"]
    /\ UNCHANGED <<row, undecided, paused, lease, late, stale, sweep, owner, wakesDue>>
-----------------------------------------------------------------------------
ToolStep(t) ==
    \/ \E tool \in ToolNames : CallTool(t, tool)
    \/ ToolReturns(t) \/ ToolOutOfQuota(t) \/ WriteUnknown(t) \/ AskUser(t) \/ Post(t) \/ PostWakes(t)
    \/ \E outcome \in {"done", "blocked"} : FinishTask(t, outcome)
    \/ \E until \in Untils, targets \in SUBSET Children, deadline \in Deadlines :
         WaitForTeam(t, until, targets, deadline)
    \/ \E new \in SUBSET Children : CreateSubtasks(t, new)
    \/ \E c \in Children : RetryByTeam(t, c)

StopStep(t) ==
    \/ \E ending \in Endings : EndTurn(t, ending)
    \/ StopWhenPaused(t) \/ LoseLease(t) \/ AbortLost(t)

AfterTurn(t) ==
    \/ EndRun(t)
    \/ \E stuck, stopping \in BOOLEAN : Conclude(t, stuck, stopping)
    \/ Settle(t) \/ TurnWakes(t)

TurnStep(t) ==
    \/ \E n \in Nodes : Claim(t, n)
    \/ TakeConversation(t) \/ ConversationBusy(t) \/ Renew(t)
    \/ ToolStep(t) \/ StopStep(t) \/ AfterTurn(t)

SweepStep ==
    \/ \E n \in Nodes : SweepLooks(n)
    \/ SweepActs \/ WakeDue \/ TimerWakes

TimeStep ==
    \/ \E n \in Nodes : LeaseLapses(n) \/ ConversationStale(n)
    \/ \E t \in Turns : Crash(t) \/ Shutdown(t)

OwnerStep ==
    \/ CancelLooks \/ CancelActs \/ CancelSubtaskActs
    \/ \E c \in Children : CancelSubtaskLooks(c) \/ RetrySubtask(c) \/ AddSubtask(c)
    \/ \E n \in Nodes, choice \in {"continue", "skip", "end"} : Answer(n, choice)
    \/ RetryTask \/ FollowUp \/ Resume
    \/ \E t \in Turns : Verify(t)

Next ==
    \/ \E t \in Turns : TurnStep(t)
    \/ SweepStep \/ TimeStep \/ OwnerStep

Spec == Init /\ [][Next]_vars

(* What the process does by itself: a turn ends because the agent loop has *)
(* an iteration limit and a time limit, however often the model calls a    *)
(* tool before; a tool has a timeout; the sweep and the wakes run on a     *)
(* timer; and time passes for a lease nobody renews. Nothing is assumed of *)
(* the owner, except that a request once begun is finished.                *)
Fairness ==
    /\ \A t \in Turns :
        /\ WF_vars(TakeConversation(t) \/ ConversationBusy(t))
        /\ WF_vars(ToolReturns(t)) /\ WF_vars(PostWakes(t))
        /\ SF_vars(StopStep(t)) /\ WF_vars(AfterTurn(t))
    /\ \A n \in Nodes : WF_vars(LeaseLapses(n)) /\ SF_vars(SweepLooks(n))
    /\ WF_vars(SweepActs) /\ WF_vars(TimerWakes)
    /\ WF_vars(CancelActs) /\ WF_vars(CancelSubtaskActs)

FairSpec == Spec /\ Fairness
-----------------------------------------------------------------------------
TypeOK ==
    /\ row \in [Nodes -> Rows]
    /\ undecided \in [Nodes -> Seq({"question", "failure"})]
    /\ paused \in Pauses
    /\ lease \in [Nodes -> Turns \union {NoTurn}]
    /\ late \in SUBSET Nodes /\ stale \in SUBSET Nodes
    /\ turn \in [Turns -> TurnRecords]
    /\ sweep \in [node : Nodes, active : BOOLEAN, unverified : BOOLEAN]
    /\ owner \in [op : {"none", "cancel", "cancel_subtask"}, node : Nodes,
                  closing : SUBSET Nodes]
    /\ wakesDue \in Nat
    /\ spent \in [owner : Nat, crashes : Nat, stalls : Nat]
-----------------------------------------------------------------------------
(* Safety.                                                                 *)

(* A node belongs to one live turn: whatever claims, releases, sweeps,     *)
(* cancellations and wakes went before, two workers that both remember     *)
(* having claimed it are never both still entitled to settle it.           *)
OneTurnPerNode ==
    \A t, u \in Turns :
        Live(t) /\ Live(u) /\ Held(t) /\ Held(u) /\ turn[t].node = turn[u].node => t = u

(* The two locks agree: a turn at work on a node it still holds is the one *)
(* its conversation is leased to, so its messages and its journal entries  *)
(* are accepted. True as long as a lease lapses only under a dead worker.  *)
HeldTurnHoldsLease ==
    \A t \in Turns :
        turn[t].pc \in {"working", "calling", "posted", "closing"} /\ Held(t) => HoldsLease(t)

(* A node that waits for the owner has exactly one decision to answer, and *)
(* no node ever has two: the question cannot be lost, nor asked twice.     *)
WaitingNodeHasItsDecision ==
    \A n \in Nodes :
        /\ Len(undecided[n]) <= 1
        /\ row[n].status = "waiting_user" => undecided[n] # <<>>

(* An unanswered decision is one that still can be answered: its node is   *)
(* waiting for it. What the interface and the reminders list as open would *)
(* otherwise refuse every answer.                                          *)
OpenDecisionCanBeAnswered ==
    \A n \in Nodes : undecided[n] # <<>> => row[n].status = "waiting_user"

(* Cancelling a task takes everything open with it, for good: nothing under*)
(* a cancelled or skipped root is left, added, woken or queued again.      *)
CancelledTaskIsQuiet ==
    row[Root].status \in {"cancelled", "skipped"} =>
        \A c \in Children : row[c].status \notin OpenStatuses

(* A task reported as succeeded has no subtask still open under it, whose  *)
(* result nobody would then combine.                                       *)
SucceededTaskIsClosed ==
    row[Root].status = "succeeded" => \A c \in Children : row[c].status \notin OpenStatuses

(* A node that will be run again without the owner has no write behind it  *)
(* whose result is unconfirmed.                                            *)
QueuedNodeIsVerified ==
    \A n \in Nodes : row[n].status = "queued" => \A t \in TurnsOf(n) : turn[t].step = "none"

(* No wake is lost. When no turn, no request and no sweep still has a      *)
(* wakeTree to make, there is nobody to wake, except for deadlines, which  *)
(* are the timer's. (A worker that dies between settling and waking leaves *)
(* its wake to the timer, too.)                                            *)
NobodyToWakeWhenQuiet ==
    /\ spent.crashes = 0
    /\ wakesDue = 0
    /\ \A t \in Turns : turn[t].pc \notin {"posted", "waking"}
    => AfterWake({}) = row

(* Every status change there is goes along TRANSITIONS, also those of the  *)
(* statements that never call transitionAssignment: the sweep, the wakes,  *)
(* the cancellations.                                                      *)
EveryMoveIsATransition ==
    [][\A n \in Tree :
          row'[n].status # row[n].status => CanGo(row[n].status, row'[n].status)]_vars

(* What ended stays ended: a cancelled or skipped node, and a subtask that *)
(* succeeded and whose result its teammates use. Late turns included.      *)
EndedStaysEnded ==
    [][\A n \in Nodes :
          \/ row[n].status \in {"cancelled", "skipped"}
          \/ row[n].status = "succeeded" /\ n # Root
          => row'[n].status = row[n].status]_vars
-----------------------------------------------------------------------------
(* Liveness, under FairSpec.                                               *)

(* No node stays with a worker for ever: not one whose worker died at any  *)
(* point of its turn, was shut down, or lost the node, even twice.         *)
RunningNodeLeavesItsWorker ==
    \A n \in Nodes : row[n].status = "running" ~> row[n].status # "running"

(* A lead whose subtasks have all ended does not wait for ever, even when  *)
(* the worker died that should have woken it. (Another subtask may be      *)
(* added before it is woken; then it waits for that one.)                  *)
LeadHearsOfTheLastSubtask ==
    row[Root].status = "waiting_children" /\ OpenSubtasks = {}
        ~> row[Root].status # "waiting_children" \/ OpenSubtasks # {}
=============================================================================
