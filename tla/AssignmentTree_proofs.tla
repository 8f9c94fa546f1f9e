------------------------ MODULE AssignmentTree_proofs ------------------------
(***************************************************************************)
(* The assignment tree, for any number of subtasks, turns, requests,       *)
(* crashes and stalls.                                                     *)
(*                                                                         *)
(* OneTurnPerNode is not inductive: a turn that lost its node must not get *)
(* it back when the version counts up. TreeInv says that versions only     *)
(* grow (TurnsAreBehind) and that no two live turns were given the same    *)
(* one (TurnsAreDistinct). Along with it goes the lock of the sweep        *)
(* (SweepLocks), without which its late write could move a node that has   *)
(* ended. What any step may do to a row is RowMoves, to a turn TurnMoves.  *)
(***************************************************************************)
EXTENDS AssignmentTree, TLAPS

(* The row the sweep has locked does not move under it.                    *)
SweepLocks ==
    sweep.active => /\ row[sweep.node].status = "running"
                    /\ owner.op = "cancel" => sweep.node # Root

AbsentIsNew == \A n \in Nodes : row[n].status = "absent" => row[n].version = 0

TurnsAreBehind ==
    \A t \in Turns : Live(t) => turn[t].version <= row[turn[t].node].version

TurnsAreDistinct ==
    \A t, u \in Turns :
        /\ Live(t) /\ Live(u)
        /\ turn[t].node = turn[u].node /\ turn[t].version = turn[u].version
        => t = u

TreeInv == TypeOK /\ SweepLocks /\ AbsentIsNew /\ TurnsAreBehind /\ TurnsAreDistinct
-----------------------------------------------------------------------------
(* What a step may do to a row: change what a turn notes on it, start it,  *)
(* or move it along TRANSITIONS and count the version up.                  *)
RowMove(old, new, isRoot) ==
    \/ new.status = old.status /\ new.version = old.version
    \/ old.status = "absent" /\ new.status = "queued" /\ new.version = 0
    \/ /\ new.version = old.version + 1
       /\ old.status # "absent" /\ CanGo(old.status, new.status)
       /\ old.status = "succeeded" => isRoot

RowMoves == \A n \in Nodes : RowMove(row[n], row'[n], n = Root)

(* What a step that claims nothing may do to a turn.                       *)
TurnMoves ==
    \A t \in Turns :
        Live(t)' => /\ Live(t)
                    /\ turn'[t].node = turn[t].node /\ turn'[t].version = turn[t].version

RowsTyped == row \in [Nodes -> Rows]
TurnsTyped == turn \in [Turns -> TurnRecords]
-----------------------------------------------------------------------------
(* The operators the actions are built from.                               *)

LEMMA RootIsNode == Root \in Nodes /\ MaxTurns \in Nat
  BY TreeAssumption DEF Nodes

LEMMA NewRowTyped ==
    ASSUME NEW status \in Statuses
    PROVE  NewRow(status) \in Rows
  BY DEF NewRow, Rows, EndIntents, Waits, NoWait, Reasons

LEMMA UpdateMoves ==
    ASSUME RowsTyped, NEW n \in Nodes, NEW new \in Rows, row' = Update(n, new),
           row[n].status # "absent", CanGo(row[n].status, new.status),
           row[n].status = "succeeded" => n = Root
    PROVE  RowsTyped' /\ RowMoves /\ \A m \in Nodes \ {n} : row'[m] = row[m]
<1>1. row[n] \in Rows /\ row[n].version \in Nat
  BY DEF RowsTyped, Rows
<1>2. /\ row'[n] \in Rows
      /\ row'[n].status = new.status /\ row'[n].version = row[n].version + 1
  BY <1>1 DEF RowsTyped, Update, Rows
<1>3. \A m \in Nodes \ {n} : row'[m] = row[m]
  BY DEF RowsTyped, Update
<1>4. RowsTyped'
  BY <1>2, <1>3 DEF RowsTyped, Update
<1> QED
  BY <1>2, <1>3, <1>4 DEF RowMoves, RowMove

LEMMA NotingMoves ==
    ASSUME RowsTyped, NEW n \in Nodes, NEW new \in Rows, row' = [row EXCEPT ![n] = new],
           new.status = row[n].status, new.version = row[n].version
    PROVE  RowsTyped' /\ RowMoves /\ \A m \in Nodes : row'[m].status = row[m].status
BY DEF RowsTyped, RowMoves, RowMove

(* wakeTree only moves nodes that wait.                                    *)
LEMMA WakingMoves ==
    ASSUME RowsTyped, WakeTree
    PROVE  /\ RowsTyped' /\ RowMoves
           /\ \A n \in Nodes : row[n].status = "running" => row'[n] = row[n]
<1>1. PICK dueNow \in SUBSET Deadlined : row' = AfterWake(dueNow)
  BY DEF WakeTree
<1> DEFINE wakes == PlanWakes(Root, StatusOf, [n \in Tree |-> row[n].waitFor], dueNow)
           status == Woken(StatusOf, wakes)
<1>2. \A n \in Nodes : row'[n] = IF n \in Tree /\ status[n] # row[n].status
            THEN [row[n] EXCEPT !.status = status[n], !.version = @ + 1,
                                !.waitFor = NoWait, !.deadline = FALSE]
            ELSE row[n]
  BY <1>1 DEF AfterWake
<1>3. \A n \in Tree : status[n] # row[n].status =>
          status[n] = "queued" /\ row[n].status \in {"waiting_team", "waiting_children"}
  BY DEF Woken, StatusOf
<1> HIDE DEF status
<1>4. \A n \in Nodes : row[n] \in Rows /\ row[n].version \in Nat
  BY DEF RowsTyped, Rows
<1>5. ASSUME NEW n \in Nodes, n \in Tree, status[n] # row[n].status
      PROVE  row'[n] \in Rows /\ RowMove(row[n], row'[n], n = Root)
  <2> DEFINE old == row[n]
             next == old.version + 1
  <2>a. row'[n] = [old EXCEPT !.status = "queued", !.version = next,
                              !.waitFor = NoWait, !.deadline = FALSE]
    BY <1>2, <1>3, <1>5
  <2>b. NoWait \in Waits /\ "queued" \in Statuses
    BY DEF NoWait, Waits, Statuses, AssignmentStatus
  <2>c. old \in Rows /\ next \in Nat
    BY <1>4
  <2> HIDE DEF old, next
  <2>1. row'[n] \in Rows /\ row'[n].status = "queued" /\ row'[n].version = next
    BY <2>a, <2>b, <2>c DEF Rows
  <2>2. CanGo(row[n].status, "queued") /\ row[n].status \notin {"absent", "succeeded"}
    BY <1>3, <1>5 DEF CanGo, Transitions
  <2> QED
    BY <2>1, <2>2 DEF RowMove, old, next
<1>6. \A n \in Nodes : row'[n] \in Rows /\ RowMove(row[n], row'[n], n = Root)
  BY <1>2, <1>4, <1>5 DEF RowMove
<1>7. row' = [n \in Nodes |-> row'[n]]
  BY <1>1 DEF AfterWake
<1>8. \A n \in Nodes : row[n].status = "running" => row'[n] = row[n]
  BY <1>2, <1>3
<1> QED
  BY <1>6, <1>7, <1>8 DEF RowsTyped, RowMoves

(* Cancelling only touches what is open.                                   *)
LEMMA CancellingMoves ==
    ASSUME RowsTyped, NEW nodes \in SUBSET Nodes, NEW n \in Nodes
    PROVE  Cancelled(nodes)[n] \in Rows /\ RowMove(row[n], Cancelled(nodes)[n], n = Root)
<1> DEFINE old == row[n]
           next == old.version + 1
           new == Cancelled(nodes)[n]
<1>1. old \in Rows /\ next \in Nat
  BY DEF RowsTyped, Rows
<1>2. CASE n \in nodes /\ IsOpen(old.status)
  <2>1. new = [old EXCEPT !.status = "cancelled", !.version = next]
    BY <1>2 DEF Cancelled
  <2>2. CanGo(old.status, "cancelled") /\ old.status \notin {"absent", "succeeded"}
    BY <1>2 DEF IsOpen, OpenStatuses, CanGo, Transitions
  <2>3. "cancelled" \in Statuses
    BY DEF Statuses, AssignmentStatus
  <2> HIDE DEF old, new, next
  <2>4. new \in Rows /\ new.status = "cancelled" /\ new.version = next
    BY <1>1, <2>1, <2>3 DEF Rows
  <2> QED
    BY <2>2, <2>4 DEF RowMove, old, new, next
<1>3. CASE ~(n \in nodes /\ IsOpen(old.status))
  <2>1. new = old
    BY <1>3 DEF Cancelled
  <2> QED
    BY <1>1, <2>1 DEF RowMove
<1> QED
  BY <1>2, <1>3

LEMMA AddingMoves ==
    ASSUME RowsTyped, NEW new \in SUBSET Nodes, new \intersect Tree = {}, row' = Added(new)
    PROVE  RowsTyped' /\ RowMoves
<1>1. NewRow("queued") \in Rows
  BY NewRowTyped DEF Statuses, AssignmentStatus
<1>2. RowsTyped'
  BY <1>1 DEF RowsTyped, Added
<1>3. \A n \in new : row[n].status = "absent"
  BY DEF Tree
<1>4. NewRow("queued").status = "queued" /\ NewRow("queued").version = 0
  BY DEF NewRow
<1> QED
  BY <1>2, <1>3, <1>4 DEF Added, RowMoves, RowMove

(* The parts of a turn that its own steps change.                          *)
LEMMA TurnMovesAt ==
    ASSUME TurnsTyped, NEW t \in Turns, NEW new \in TurnRecords,
           turn' = [turn EXCEPT ![t] = new], Live(t),
           new.pc \in {"over", "dead"} \/ (new.node = turn[t].node /\ new.version = turn[t].version)
    PROVE  TurnsTyped' /\ TurnMoves
BY DEF TurnsTyped, TurnMoves, Live

LEMMA CloseMoves ==
    ASSUME TurnsTyped, NEW t \in Turns, Live(t), NEW result \in Results, Close(t, result)
    PROVE  TurnsTyped' /\ TurnMoves
<1> DEFINE new == [turn[t] EXCEPT !.pc = "closing", !.tool = "none",
                                  !.result = [result EXCEPT !.quota = result.quota \/ turn[t].result.quota]]
<1>1. turn' = [turn EXCEPT ![t] = new]
  BY DEF Close, TurnsTyped, TurnRecords
<1>2. turn[t].result.quota \in BOOLEAN /\ turn[t] \in TurnRecords
  BY DEF TurnsTyped, TurnRecords, Results
<1>3. [result EXCEPT !.quota = result.quota \/ turn[t].result.quota] \in Results
  BY <1>2 DEF Results
<1>4. new \in TurnRecords /\ new.node = turn[t].node /\ new.version = turn[t].version
  BY <1>2, <1>3 DEF TurnRecords
<1> QED
  BY <1>1, <1>4, TurnMovesAt

LEMMA BackMoves ==
    ASSUME TurnsTyped, NEW t \in Turns, Live(t), Back(t)
    PROVE  TurnsTyped' /\ TurnMoves
<1> DEFINE new == [turn[t] EXCEPT !.pc = "working", !.tool = "none", !.step = "none"]
<1>1. turn' = [turn EXCEPT ![t] = new]
  BY DEF Back, TurnsTyped, TurnRecords
<1>2. new \in TurnRecords /\ new.node = turn[t].node /\ new.version = turn[t].version
  BY DEF TurnsTyped, TurnRecords
<1> QED
  BY <1>1, <1>2, TurnMovesAt

LEMMA LeaveMoves ==
    ASSUME TurnsTyped, NEW t \in Turns, Live(t), NEW pc \in {"over", "dead"}, Leave(t, pc)
    PROVE  TurnsTyped' /\ TurnMoves
<1> DEFINE new == [turn[t] EXCEPT !.pc = pc, !.version = 0, !.tool = "none",
                                  !.result = NoResult, !.decision = NoDecision]
<1>1. turn' = [turn EXCEPT ![t] = new]
  BY DEF Leave
<1>2. NoResult \in Results /\ NoDecision \in Decisions
  BY DEF NoResult, Results, TurnStatus, NoDecision, Decide, Decisions
<1>3. new \in TurnRecords /\ new.pc = pc
  BY <1>2 DEF TurnsTyped, TurnRecords
<1> QED
  BY <1>1, <1>3, TurnMovesAt

LEMMA AbortedMoves ==
    ASSUME TurnsTyped, NEW t \in Turns, Live(t), Aborted(t)
    PROVE  TurnsTyped' /\ TurnMoves
<1>1. Ended("unknown_outcome") \in Results /\ Ended("cancelled") \in Results
  BY DEF Ended, NoResult, Results, TurnStatus, RunStatus
<1>2. CASE turn[t].tool \in WriteTools
  <2> DEFINE new == [turn[t] EXCEPT !.pc = "closing", !.tool = "none", !.step = "unknown_outcome",
                                    !.result = Ended("unknown_outcome")]
  <2>1. turn' = [turn EXCEPT ![t] = new]
    BY <1>2 DEF Aborted, TurnsTyped, TurnRecords
  <2>2. new \in TurnRecords /\ new.node = turn[t].node /\ new.version = turn[t].version
    BY <1>1 DEF TurnsTyped, TurnRecords
  <2> QED
    BY <2>1, <2>2, TurnMovesAt
<1>3. CASE turn[t].tool \notin WriteTools
  BY <1>1, <1>3, CloseMoves DEF Aborted
<1> QED
  BY <1>2, <1>3

LEMMA CloseStepsTyped ==
    ASSUME TurnsTyped, NEW n \in Nodes
    PROVE  /\ CloseSteps(n) \in [Turns -> TurnRecords]
           /\ \A t \in Turns : /\ CloseSteps(n)[t].pc = turn[t].pc
                               /\ CloseSteps(n)[t].node = turn[t].node
                               /\ CloseSteps(n)[t].version = turn[t].version
<1>1. \A t \in Turns : turn[t] \in TurnRecords
  BY DEF TurnsTyped
<1>2. ASSUME NEW old \in TurnRecords
      PROVE  LET new == [old EXCEPT !.step = "unknown_outcome"]
             IN  /\ new \in TurnRecords /\ new.pc = old.pc
                 /\ new.node = old.node /\ new.version = old.version
  BY DEF TurnRecords
<1> QED
  BY <1>1, <1>2 DEF CloseSteps

LEMMA AskingTyped ==
    ASSUME undecided \in [Nodes -> Seq({"question", "failure"})], NEW n \in Nodes,
           NEW kind \in {"question", "failure"}
    PROVE  AskOwner(n, kind) \in [Nodes -> Seq({"question", "failure"})]
BY DEF AskOwner

LEMMA SpendingTyped ==
    ASSUME spent \in [owner : Nat, crashes : Nat, stalls : Nat]
    PROVE  /\ [spent EXCEPT !.owner = @ + 1] \in [owner : Nat, crashes : Nat, stalls : Nat]
           /\ [spent EXCEPT !.crashes = @ + 1] \in [owner : Nat, crashes : Nat, stalls : Nat]
           /\ [spent EXCEPT !.stalls = @ + 1] \in [owner : Nat, crashes : Nat, stalls : Nat]
<1>1. spent.owner + 1 \in Nat /\ spent.crashes + 1 \in Nat /\ spent.stalls + 1 \in Nat
  OBVIOUS
<1> QED
  BY <1>1

(* decideTurn always decides.                                              *)
LEMMA DecidingTyped ==
    ASSUME NEW read \in TurnResults
    PROVE  DecideTurn(read) \in Decisions
<1>1. RouteTurn(read) \in Decisions
  BY DEF TurnResults, RouteTurn, RouteAwaiting, RouteBudget, Decide, Decisions
<1>2. \A d \in Decisions : d.next = "fail" => [d EXCEPT !.next = "ask_failure"] \in Decisions
  BY DEF Decisions
<1> QED
  BY <1>1, <1>2 DEF DecideTurn

LEMMA SettlingCanGo ==
    ASSUME NEW decision \in Decisions, SettleTo(decision) # "none"
    PROVE  CanGo("running", SettleTo(decision)) /\ SettleTo(decision) \in Statuses
BY DEF Decisions, SettleTo, CanGo, Transitions, Statuses, AssignmentStatus

LEMMA ReasonTyped ==
    ASSUME NEW decision \in Decisions, NEW old \in Reasons
    PROVE  ReasonOf(decision, old) \in Reasons
BY DEF ReasonOf, Reasons
-----------------------------------------------------------------------------
(* What every step keeps, the claim's effect on the turns apart.           *)
Keeps == TypeOK' /\ SweepLocks' /\ RowMoves

LEMMA SameRows ==
    ASSUME RowsTyped, UNCHANGED row
    PROVE  RowsTyped' /\ RowMoves
BY DEF RowsTyped, RowMoves, RowMove

LEMMA SameTurns ==
    ASSUME TurnsTyped, UNCHANGED turn
    PROVE  TurnsTyped' /\ TurnMoves
BY DEF TurnsTyped, TurnMoves, Live

(* The steps of a turn that leave the rows alone.                          *)
LEMMA QuietTurnSteps ==
    ASSUME TypeOK, SweepLocks, NEW t \in Turns,
           \/ \E tool \in ToolNames : CallTool(t, tool)
           \/ ToolReturns(t) \/ ToolOutOfQuota(t) \/ WriteUnknown(t) \/ AskUser(t)
           \/ StopStep(t) \/ EndRun(t) \/ Crash(t) \/ Shutdown(t)
           \/ \E stuck, stopping \in BOOLEAN : Conclude(t, stuck, stopping)
    PROVE  Keeps /\ TurnMoves
<1>1. TurnsTyped /\ RowsTyped /\ turn[t] \in TurnRecords
  BY DEF TypeOK, TurnsTyped, RowsTyped
<1>2. RowsTyped' /\ RowMoves /\ UNCHANGED <<row, undecided, late, sweep, owner, wakesDue>>
  <2>1. UNCHANGED <<row, undecided, late, sweep, owner, wakesDue>>
    BY DEF CallTool, ToolReturns, ToolOutOfQuota, WriteUnknown, AskUser, StopStep, EndTurn,
           StopWhenPaused, LoseLease, AbortLost, EndRun, Crash, Shutdown, Conclude
  <2> QED
    BY <1>1, <2>1, SameRows
<1>3. SweepLocks'
  BY <1>2 DEF SweepLocks
<1>4. lease' \in [Nodes -> Turns \union {NoTurn}] /\ stale' \in SUBSET Nodes
  <2>1. CASE UNCHANGED <<lease, stale>>
    BY <2>1 DEF TypeOK
  <2>2. CASE EndRun(t)
    BY <2>2 DEF EndRun, Freed, TypeOK
  <2> QED
    BY <2>1, <2>2 DEF CallTool, ToolReturns, ToolOutOfQuota, WriteUnknown, AskUser, StopStep,
       EndTurn, StopWhenPaused, LoseLease, AbortLost, Crash, Shutdown, Conclude
<1>5. paused' \in Pauses
  BY DEF CallTool, ToolReturns, ToolOutOfQuota, WriteUnknown, AskUser, StopStep, EndTurn,
     StopWhenPaused, LoseLease, AbortLost, EndRun, Crash, Shutdown, Conclude, Pause, Pauses, TypeOK
<1>6. spent' \in [owner : Nat, crashes : Nat, stalls : Nat]
  <2>1. [spent EXCEPT !.crashes = @ + 1] \in [owner : Nat, crashes : Nat, stalls : Nat]
    BY SpendingTyped DEF TypeOK
  <2>2. spent' = spent \/ spent' = [spent EXCEPT !.crashes = @ + 1]
    BY DEF CallTool, ToolReturns, ToolOutOfQuota, WriteUnknown, AskUser, StopStep, EndTurn,
       StopWhenPaused, LoseLease, AbortLost, EndRun, Crash, Shutdown, Conclude
  <2> QED
    BY <2>1, <2>2 DEF TypeOK
<1>7. TurnsTyped' /\ TurnMoves
  <2>1. CASE \E tool \in ToolNames : CallTool(t, tool)
    <3>1. PICK tool \in ToolNames : CallTool(t, tool)
      BY <2>1
    <3> DEFINE new == [turn[t] EXCEPT !.pc = "calling", !.tool = tool,
                          !.step = IF tool \in WriteTools THEN "running" ELSE @]
    <3>2. turn' = [turn EXCEPT ![t] = new] /\ Live(t)
      BY <1>1, <3>1 DEF CallTool, Live, TurnsTyped, TurnRecords
    <3>3. new \in TurnRecords /\ new.node = turn[t].node /\ new.version = turn[t].version
      BY <1>1 DEF TurnRecords
    <3> QED
      BY <1>1, <3>2, <3>3, TurnMovesAt
  <2>2. CASE ToolReturns(t)
    BY <1>1, <2>2, BackMoves DEF ToolReturns, Live
  <2>3. CASE ToolOutOfQuota(t)
    <3> DEFINE new == [turn[t] EXCEPT !.pc = "working", !.tool = "none", !.step = "none",
                          !.result = [@ EXCEPT !.quota = TRUE]]
    <3>1. turn' = [turn EXCEPT ![t] = new] /\ Live(t)
      BY <1>1, <2>3 DEF ToolOutOfQuota, Live, TurnsTyped, TurnRecords
    <3>2. [turn[t].result EXCEPT !.quota = TRUE] \in Results
      BY <1>1 DEF TurnRecords, Results
    <3>3. new \in TurnRecords /\ new.node = turn[t].node /\ new.version = turn[t].version
      BY <1>1, <3>2 DEF TurnRecords
    <3> QED
      BY <1>1, <3>1, <3>3, TurnMovesAt
  <2>4. CASE WriteUnknown(t)
    <3> DEFINE new == [turn[t] EXCEPT !.pc = "closing", !.tool = "none",
                          !.step = "unknown_outcome", !.result = Ended("unknown_outcome")]
    <3>1. turn' = [turn EXCEPT ![t] = new] /\ Live(t)
      BY <1>1, <2>4 DEF WriteUnknown, Live, TurnsTyped, TurnRecords
    <3>2. Ended("unknown_outcome") \in Results
      BY DEF Ended, NoResult, Results, TurnStatus, RunStatus
    <3>3. new \in TurnRecords /\ new.node = turn[t].node /\ new.version = turn[t].version
      BY <1>1, <3>2 DEF TurnRecords
    <3> QED
      BY <1>1, <3>1, <3>3, TurnMovesAt
  <2>5. CASE AskUser(t) \/ StopWhenPaused(t) \/ LoseLease(t)
    <3>1. PICK result \in Results : Close(t, result)
      BY <2>5 DEF AskUser, StopWhenPaused, LoseLease, Ended, NoResult, Results, TurnStatus, RunStatus
    <3>2. Live(t)
      BY <2>5 DEF AskUser, StopWhenPaused, LoseLease, Calling, Live
    <3> QED
      BY <1>1, <3>1, <3>2, CloseMoves
  <2>6. ASSUME NEW ending \in Endings, EndTurn(t, ending) PROVE TurnsTyped' /\ TurnMoves
    <3> DEFINE result == CASE ending = "quota"      -> [Ended("failed") EXCEPT !.quota = TRUE]
                           [] ending = "over_limit" -> [Ended("budget_exhausted") EXCEPT !.paused = TRUE]
                           [] OTHER                 -> Ended(ending)
    <3>1. Close(t, result) /\ Live(t)
      BY <2>6 DEF EndTurn, Live
    <3>2. result \in Results
      <4>1. ending \in TurnStatus \union {"quota", "over_limit"}
        BY TreeAssumption
      <4> QED
        BY <4>1 DEF Ended, NoResult, Results, TurnStatus, RunStatus
    <3> HIDE DEF result
    <3> QED
      BY <1>1, <3>1, <3>2, CloseMoves
  <2>7. CASE AbortLost(t) \/ Shutdown(t)
    BY <1>1, <2>7, AbortedMoves DEF AbortLost, Shutdown, Live
  <2>8. CASE EndRun(t)
    <3> DEFINE new == [turn[t] EXCEPT !.pc = "ended",
                          !.step = IF @ = "running" THEN "unknown_outcome" ELSE @]
    <3>1. turn' = [turn EXCEPT ![t] = new] /\ Live(t)
      BY <1>1, <2>8 DEF EndRun, Live, TurnsTyped, TurnRecords
    <3>2. new \in TurnRecords /\ new.node = turn[t].node /\ new.version = turn[t].version
      BY <1>1 DEF TurnRecords
    <3> QED
      BY <1>1, <3>1, <3>2, TurnMovesAt
  <2>9. CASE Crash(t)
    BY <1>1, <2>9, LeaveMoves DEF Crash
  <2>10. ASSUME NEW stuck \in BOOLEAN, NEW stopping \in BOOLEAN, Conclude(t, stuck, stopping)
         PROVE  TurnsTyped' /\ TurnMoves
    <3> DEFINE read == IF stuck THEN TurnRead(t, FALSE, "no_progress", stopping)
                       ELSE TurnRead(t, TRUE, "none", stopping)
               decision == DecideTurn(read)
               new == [turn[t] EXCEPT !.pc = "settling", !.decision = decision, !.result = NoResult]
    <3>1. turn' = [turn EXCEPT ![t] = new] /\ Live(t)
      BY <1>1, <2>10 DEF Conclude, Live, TurnsTyped, TurnRecords
    <3>2. read \in TurnResults
      <4>1. turn[t].result \in Results /\ row[turn[t].node].endIntent \in EndIntents
        BY <1>1 DEF TurnRecords, RowsTyped, Rows
      <4> QED
        BY <4>1, TreeAssumption DEF TurnRead, TurnResults, Results, Previous
    <3> HIDE DEF read
    <3>3. decision \in Decisions
      BY <3>2, DecidingTyped
    <3> HIDE DEF decision
    <3>4. NoResult \in Results
      BY DEF NoResult, Results, TurnStatus
    <3>5. new \in TurnRecords /\ new.node = turn[t].node /\ new.version = turn[t].version
      BY <1>1, <3>3, <3>4 DEF TurnRecords
    <3> QED
      BY <1>1, <3>1, <3>5, TurnMovesAt
  <2> QED
    BY <2>1, <2>2, <2>3, <2>4, <2>5, <2>6, <2>7, <2>8, <2>9, <2>10 DEF StopStep
<1> QED
  BY <1>2, <1>3, <1>4, <1>5, <1>6, <1>7 DEF Keeps, TypeOK, RowsTyped, TurnsTyped

(* The steps of a turn that write rows.                                    *)
LEMMA RowTurnSteps ==
    ASSUME TypeOK, SweepLocks, NEW t \in Turns,
           \/ ConversationBusy(t) \/ Settle(t) \/ Post(t) \/ PostWakes(t) \/ TurnWakes(t)
           \/ \E outcome \in {"done", "blocked"} : FinishTask(t, outcome)
           \/ \E until \in Untils, targets \in SUBSET Children, deadline \in Deadlines :
                WaitForTeam(t, until, targets, deadline)
           \/ \E new \in SUBSET Children : CreateSubtasks(t, new)
           \/ \E c \in Children : RetryByTeam(t, c)
    PROVE  Keeps /\ TurnMoves
<1> DEFINE n == turn[t].node
<1>1. TurnsTyped /\ RowsTyped /\ turn[t] \in TurnRecords /\ n \in Nodes /\ row[n] \in Rows
  BY DEF TypeOK, TurnsTyped, RowsTyped, TurnRecords
<1> HIDE DEF n
<1>2. UNCHANGED <<paused, lease, stale, sweep, owner, wakesDue, spent>>
  BY DEF ConversationBusy, Settle, Post, PostWakes, TurnWakes, FinishTask, WaitForTeam,
         CreateSubtasks, RetryByTeam
<1>3. late' \in SUBSET Nodes
  BY DEF ConversationBusy, Settle, Post, PostWakes, TurnWakes, FinishTask, WaitForTeam,
         CreateSubtasks, RetryByTeam, TypeOK
<1>4. undecided' \in [Nodes -> Seq({"question", "failure"})]
  <2>1. undecided' \in {undecided, AskOwner(n, "question"), AskOwner(n, "failure")}
    BY DEF ConversationBusy, Settle, Post, PostWakes, TurnWakes, FinishTask, WaitForTeam,
           CreateSubtasks, RetryByTeam, n
  <2>2. undecided \in [Nodes -> Seq({"question", "failure"})]
    BY DEF TypeOK
  <2>3. /\ AskOwner(n, "question") \in [Nodes -> Seq({"question", "failure"})]
        /\ AskOwner(n, "failure") \in [Nodes -> Seq({"question", "failure"})]
    BY <1>1, <2>2, AskingTyped
  <2> QED
    BY <2>1, <2>2, <2>3
<1> DEFINE Good == RowsTyped' /\ RowMoves /\ TurnsTyped' /\ TurnMoves
                   /\ (sweep.active => row'[sweep.node].status = "running")
<1>5. sweep.active => row[sweep.node].status = "running" /\ sweep.node \in Nodes
  BY DEF SweepLocks, TypeOK
<1>6. Good
  <2>1. CASE ConversationBusy(t)
    <3>1. TurnsTyped' /\ TurnMoves
      BY <1>1, <2>1, LeaveMoves DEF ConversationBusy, Live
    <3>2. CASE Held(t)
      <4>1. row' = Update(n, Requeue(n)) /\ row[n].status = "running" /\ Free(n)
        BY <2>1, <3>2 DEF ConversationBusy, Held, n
      <4>2. Requeue(n) \in Rows /\ Requeue(n).status = "queued"
        BY <1>1 DEF Requeue, Rows, Statuses, AssignmentStatus
      <4>3. CanGo("running", "queued")
        BY DEF CanGo, Transitions
      <4>4. RowsTyped' /\ RowMoves /\ \A m \in Nodes \ {n} : row'[m] = row[m]
        BY <1>1, <4>1, <4>2, <4>3, UpdateMoves
      <4> QED
        BY <1>5, <3>1, <4>1, <4>4 DEF Free
    <3>3. CASE ~Held(t)
      BY <1>1, <1>5, <2>1, <3>1, <3>3, SameRows DEF ConversationBusy
    <3> QED
      BY <3>2, <3>3
  <2>2. CASE Settle(t)
    <3> DEFINE decision == turn[t].decision
    <3>1. decision \in Decisions
      BY <1>1 DEF TurnRecords
    <3>2. TurnsTyped' /\ TurnMoves
      <4> DEFINE new == [turn[t] EXCEPT !.pc = "waking", !.decision = NoDecision]
      <4>1. turn' = [turn EXCEPT ![t] = new] /\ Live(t)
        BY <1>1, <2>2 DEF Settle, Live, TurnsTyped, TurnRecords
      <4>2. NoDecision \in Decisions
        BY DEF NoDecision, Decide, Decisions
      <4>3. new \in TurnRecords /\ new.node = turn[t].node /\ new.version = turn[t].version
        BY <1>1, <4>2 DEF TurnRecords
      <4> QED
        BY <1>1, <4>1, <4>3, TurnMovesAt
    <3>3. CASE Writes(t)
      <4> DEFINE new == [row[n] EXCEPT !.status = SettleTo(decision), !.endIntent = "none",
                                       !.reason = ReasonOf(decision, @)]
      <4>1. row' = Update(n, new) /\ Free(n) /\ row[n].status = "running" /\ SettleTo(decision) # "none"
        BY <2>2, <3>3 DEF Settle, Writes, Held, n
      <4>2. CanGo("running", SettleTo(decision)) /\ SettleTo(decision) \in Statuses
        BY <3>1, <4>1, SettlingCanGo
      <4>3. ReasonOf(decision, row[n].reason) \in Reasons
        BY <1>1, <3>1, ReasonTyped DEF Rows
      <4>4. new \in Rows /\ new.status = SettleTo(decision)
        BY <1>1, <4>2, <4>3 DEF Rows, EndIntents
      <4> HIDE DEF new
      <4>5. RowsTyped' /\ RowMoves /\ \A m \in Nodes \ {n} : row'[m] = row[m]
        BY <1>1, <4>1, <4>2, <4>4, UpdateMoves
      <4> QED
        BY <1>5, <3>2, <4>1, <4>5 DEF Free
    <3>4. CASE ~Writes(t)
      BY <1>1, <1>5, <2>2, <3>2, <3>4, SameRows DEF Settle
    <3> QED
      BY <3>3, <3>4
  <2>3. CASE Post(t)
    <3>1. TurnsTyped' /\ TurnMoves
      <4> DEFINE new == [turn[t] EXCEPT !.pc = "posted"]
      <4>1. turn' = [turn EXCEPT ![t] = new] /\ Live(t)
        BY <1>1, <2>3 DEF Post, Calling, Live
      <4>2. new \in TurnRecords /\ new.node = turn[t].node /\ new.version = turn[t].version
        BY <1>1 DEF TurnRecords
      <4> QED
        BY <1>1, <4>1, <4>2, TurnMovesAt
    <3>2. row' = [m \in Nodes |-> IF n \in row[m].waitFor.targets
                                   THEN [row[m] EXCEPT !.waitFor =
                                          [row[m].waitFor EXCEPT !.heard = row[m].waitFor.heard \union {n}]]
                                   ELSE row[m]]
      BY <2>3 DEF Post, n
    <3>3. ASSUME NEW m \in Nodes
          PROVE  /\ row'[m] \in Rows
                 /\ row'[m].status = row[m].status /\ row'[m].version = row[m].version
      <4> DEFINE wait == [row[m].waitFor EXCEPT !.heard = row[m].waitFor.heard \union {n}]
      <4>1. row[m] \in Rows /\ wait \in Waits
        <5>1. row[m] \in Rows /\ row[m].waitFor \in Waits
          BY <1>1 DEF RowsTyped, Rows
        <5>2. row[m].waitFor.heard \union {n} \in SUBSET Nodes
          BY <1>1, <5>1 DEF Waits
        <5> QED
          BY <5>1, <5>2 DEF Waits
      <4>2. row'[m] = row[m] \/ row'[m] = [row[m] EXCEPT !.waitFor = wait]
        BY <3>2
      <4> HIDE DEF wait
      <4> QED
        BY <4>1, <4>2 DEF Rows
    <3> QED
      BY <1>5, <3>1, <3>2, <3>3 DEF RowsTyped, RowMoves, RowMove
  <2>4. CASE PostWakes(t)
    <3>1. TurnsTyped' /\ TurnMoves
      BY <1>1, <2>4, BackMoves DEF PostWakes, Live
    <3> QED
      BY <1>1, <1>5, <2>4, <3>1, WakingMoves DEF PostWakes
  <2>5. CASE TurnWakes(t)
    <3>1. TurnsTyped' /\ TurnMoves
      BY <1>1, <2>5, LeaveMoves DEF TurnWakes, Live
    <3> QED
      BY <1>1, <1>5, <2>5, <3>1, WakingMoves DEF TurnWakes
  <2>6. ASSUME NEW outcome \in {"done", "blocked"}, FinishTask(t, outcome) PROVE Good
    <3>1. Close(t, Ended("awaiting_input")) /\ Live(t)
      BY <2>6 DEF FinishTask, Calling, Live
    <3>2. Ended("awaiting_input") \in Results
      BY DEF Ended, NoResult, Results, TurnStatus, RunStatus
    <3>3. TurnsTyped' /\ TurnMoves
      BY <1>1, <3>1, <3>2, CloseMoves
    <3> DEFINE new == [row[n] EXCEPT !.endIntent = outcome]
    <3>4. row' = [row EXCEPT ![n] = new]
      BY <2>6 DEF FinishTask, n
    <3>5. new \in Rows /\ new.status = row[n].status /\ new.version = row[n].version
      BY <1>1 DEF Rows, EndIntents
    <3> QED
      BY <1>1, <1>5, <3>3, <3>4, <3>5, NotingMoves
  <2>7. ASSUME NEW until \in Untils, NEW targets \in SUBSET Children, NEW deadline \in Deadlines,
               WaitForTeam(t, until, targets, deadline)
        PROVE  Good
    <3>1. Close(t, Ended("awaiting_input")) /\ Live(t)
      BY <2>7 DEF WaitForTeam, Calling, Live
    <3>2. Ended("awaiting_input") \in Results
      BY DEF Ended, NoResult, Results, TurnStatus, RunStatus
    <3>3. TurnsTyped' /\ TurnMoves
      BY <1>1, <3>1, <3>2, CloseMoves
    <3> DEFINE wait == [until |-> until, targets |-> targets, heard |-> {}]
               new == [row[n] EXCEPT !.endIntent = "wait", !.deadline = deadline, !.waitFor = wait]
    <3>4. row' = [row EXCEPT ![n] = new] \/ row' = row
      BY <1>1, <2>7 DEF WaitForTeam, RowsTyped, n
    <3>5. wait \in Waits /\ deadline \in BOOLEAN
      BY TreeAssumption DEF Waits, Nodes
    <3> HIDE DEF wait
    <3>6. new \in Rows /\ new.status = row[n].status /\ new.version = row[n].version
      BY <1>1, <3>5 DEF Rows, EndIntents
    <3> HIDE DEF new
    <3> QED
      BY <1>1, <1>5, <3>3, <3>4, <3>6, NotingMoves, SameRows
  <2>8. ASSUME NEW new \in SUBSET Children, CreateSubtasks(t, new) PROVE Good
    <3>1. row' = Added(new) /\ new \in SUBSET Nodes /\ new \intersect Tree = {} /\ Live(t)
      BY <2>8 DEF CreateSubtasks, Nodes, Calling, Live
    <3>2. TurnsTyped' /\ TurnMoves
      <4>1. CASE turn[t].node = Root
        <5> DEFINE after == [turn[t] EXCEPT !.pc = "closing", !.tool = "none", !.step = "none",
                                            !.result = Ended("awaiting_input")]
        <5>1. turn' = [turn EXCEPT ![t] = after]
          BY <1>1, <2>8, <4>1 DEF CreateSubtasks, TurnsTyped, TurnRecords
        <5>2. Ended("awaiting_input") \in Results
          BY DEF Ended, NoResult, Results, TurnStatus, RunStatus
        <5>3. after \in TurnRecords /\ after.node = turn[t].node /\ after.version = turn[t].version
          BY <1>1, <5>2 DEF TurnRecords
        <5> QED
          BY <1>1, <3>1, <5>1, <5>3, TurnMovesAt
      <4>2. CASE turn[t].node # Root
        BY <1>1, <2>8, <3>1, <4>2, BackMoves DEF CreateSubtasks
      <4> QED
        BY <4>1, <4>2
    <3>3. RowsTyped' /\ RowMoves
      BY <1>1, <3>1, AddingMoves
    <3>4. sweep.active => row'[sweep.node] = row[sweep.node]
      BY <1>5, <3>1 DEF Added, Tree
    <3> QED
      BY <1>5, <3>2, <3>3, <3>4
  <2>9. ASSUME NEW c \in Children, RetryByTeam(t, c) PROVE Good
    <3>1. TurnsTyped' /\ TurnMoves
      BY <1>1, <2>9, BackMoves DEF RetryByTeam, Calling, Live
    <3> DEFINE new == [Requeue(c) EXCEPT !.retries = @ + 1, !.reason = "none", !.endIntent = "none"]
    <3>2. row' = Update(c, new) /\ row[c].status = "failed" /\ c \in Nodes
      BY <2>9 DEF RetryByTeam, Nodes
    <3>3. Requeue(c) \in Rows /\ Requeue(c).status = "queued" /\ Requeue(c).retries + 1 \in Nat
      BY <1>1, <3>2 DEF RowsTyped, Requeue, Rows, Statuses, AssignmentStatus
    <3>4. new \in Rows /\ new.status = "queued"
      BY <3>3 DEF Rows, Reasons, EndIntents
    <3>5. CanGo("failed", "queued")
      BY DEF CanGo, Transitions
    <3> HIDE DEF new
    <3>6. RowsTyped' /\ RowMoves /\ \A m \in Nodes \ {c} : row'[m] = row[m]
      BY <1>1, <3>2, <3>4, <3>5, UpdateMoves
    <3> QED
      BY <1>5, <3>1, <3>2, <3>6
  <2> QED
    BY <2>1, <2>2, <2>3, <2>4, <2>5, <2>6, <2>7, <2>8, <2>9
<1> QED
  BY <1>2, <1>3, <1>4, <1>6 DEF Keeps, TypeOK, SweepLocks, RowsTyped, TurnsTyped

(* A turn's dealings with the two leases.                                  *)
LEMMA LeaseSteps ==
    ASSUME TypeOK, SweepLocks, NEW t \in Turns, TakeConversation(t) \/ Renew(t)
    PROVE  Keeps /\ TurnMoves
<1> DEFINE n == turn[t].node
<1>1. TurnsTyped /\ RowsTyped /\ turn[t] \in TurnRecords /\ n \in Nodes
  BY DEF TypeOK, TurnsTyped, RowsTyped, TurnRecords
<1>2. UNCHANGED <<row, undecided, paused, sweep, owner, wakesDue, spent>>
  BY DEF TakeConversation, Renew
<1>3. RowsTyped' /\ RowMoves /\ SweepLocks'
  BY <1>1, <1>2, SameRows DEF SweepLocks
<1>4. /\ late' \in SUBSET Nodes /\ stale' \in SUBSET Nodes
      /\ lease' \in [Nodes -> Turns \union {NoTurn}]
  BY <1>1 DEF TakeConversation, Renew, TypeOK
<1>5. TurnsTyped' /\ TurnMoves
  <2>1. CASE TakeConversation(t)
    <3> DEFINE closed == CloseSteps(n)
               new == [closed[t] EXCEPT !.pc = "working"]
    <3>1. /\ closed \in [Turns -> TurnRecords]
          /\ \A u \in Turns : closed[u].pc = turn[u].pc /\ closed[u].node = turn[u].node
                              /\ closed[u].version = turn[u].version
      BY <1>1, CloseStepsTyped
    <3>2. turn' = [closed EXCEPT ![t] = new] /\ turn[t].pc = "claimed"
      BY <2>1 DEF TakeConversation
    <3> HIDE DEF closed
    <3>3. /\ new \in TurnRecords /\ new.pc = "working"
          /\ new.node = turn[t].node /\ new.version = turn[t].version
      BY <3>1 DEF TurnRecords
    <3> HIDE DEF new
    <3>4. turn'[t] = new /\ \A u \in Turns \ {t} : turn'[u] = closed[u]
      BY <3>1, <3>2
    <3> QED
      BY <3>1, <3>2, <3>3, <3>4 DEF TurnsTyped, TurnMoves, Live
  <2>2. CASE Renew(t)
    BY <1>1, <2>2, SameTurns DEF Renew
  <2> QED
    BY <2>1, <2>2
<1> QED
  BY <1>2, <1>3, <1>4, <1>5 DEF Keeps, TypeOK, RowsTyped, TurnsTyped

(* A claim gives the turn a version of the node that no other turn has.    *)
LEMMA ClaimSteps ==
    ASSUME TypeOK, SweepLocks, NEW t \in Turns, NEW n \in Nodes, Claim(t, n)
    PROVE  /\ Keeps
           /\ \A u \in Turns \ {t} : turn'[u] = turn[u]
           /\ turn'[t].node = n /\ turn'[t].version = row[n].version + 1
           /\ row'[n].version = row[n].version + 1
<1>1. TurnsTyped /\ RowsTyped /\ turn[t] \in TurnRecords /\ row[n] \in Rows
  BY DEF TypeOK, TurnsTyped, RowsTyped
<1>2. UNCHANGED <<undecided, paused, lease, stale, sweep, owner, wakesDue, spent>>
  BY DEF Claim
<1> DEFINE taken == [row[n] EXCEPT !.status = "running", !.endIntent = "none"]
           next == row[n].version + 1
           new == [turn[t] EXCEPT !.pc = "claimed", !.node = n, !.version = next]
<1>3. row' = Update(n, taken) /\ row[n].status = "queued" /\ Free(n)
  BY DEF Claim
<1>4. taken \in Rows /\ taken.status = "running"
  BY <1>1 DEF Rows, Statuses, AssignmentStatus, EndIntents
<1>5. CanGo("queued", "running")
  BY DEF CanGo, Transitions
<1>6. turn' = [turn EXCEPT ![t] = new]
  BY <1>1 DEF Claim, TurnsTyped, TurnRecords
<1>7. next \in Nat
  BY <1>1 DEF Rows
<1>8. row'[n].version = next
  BY <1>1, <1>3 DEF Update, RowsTyped, Rows
<1> HIDE DEF taken, next
<1>9. new \in TurnRecords /\ new.node = n /\ new.version = next
  BY <1>1, <1>7 DEF TurnRecords
<1> HIDE DEF new
<1>10. /\ turn'[t] = new /\ \A u \in Turns \ {t} : turn'[u] = turn[u]
       /\ TurnsTyped'
  BY <1>1, <1>6, <1>9 DEF TurnsTyped
<1>11. RowsTyped' /\ RowMoves /\ \A m \in Nodes \ {n} : row'[m] = row[m]
  BY <1>1, <1>3, <1>4, <1>5, UpdateMoves
<1>12. late' \in SUBSET Nodes
  BY DEF Claim, TypeOK
<1>13. SweepLocks'
  BY <1>2, <1>3, <1>11 DEF SweepLocks, TypeOK, Free
<1>14. Keeps
  BY <1>2, <1>10, <1>11, <1>12, <1>13 DEF Keeps, TypeOK, RowsTyped, TurnsTyped
<1> QED
  BY <1>8, <1>9, <1>10, <1>14 DEF next

(* The sweep, the timer and the passing of time.                           *)
LEMMA SweepSteps ==
    ASSUME TypeOK, SweepLocks, SweepStep \/ \E n \in Nodes : LeaseLapses(n) \/ ConversationStale(n)
    PROVE  Keeps /\ TurnMoves
<1>1. TurnsTyped /\ RowsTyped
  BY DEF TypeOK, TurnsTyped, RowsTyped
<1>2. sweep.active => row[sweep.node].status = "running" /\ sweep.node \in Nodes
  BY DEF SweepLocks, TypeOK
<1>3. ASSUME NEW n \in Nodes, LeaseLapses(n) \/ ConversationStale(n) PROVE Keeps /\ TurnMoves
  <2>1. spent' = spent \/ spent' = [spent EXCEPT !.stalls = @ + 1]
    BY <1>3 DEF LeaseLapses, ConversationStale, Stall
  <2>2. spent' \in [owner : Nat, crashes : Nat, stalls : Nat]
    <3>1. spent \in [owner : Nat, crashes : Nat, stalls : Nat]
      BY DEF TypeOK
    <3> QED
      BY <2>1, <3>1, SpendingTyped
  <2>3. UNCHANGED <<row, undecided, paused, lease, turn, sweep, owner, wakesDue>>
    BY <1>3 DEF LeaseLapses, ConversationStale
  <2>4. late' \in SUBSET Nodes /\ stale' \in SUBSET Nodes
    BY <1>3 DEF LeaseLapses, ConversationStale, TypeOK
  <2> QED
    BY <1>1, <2>2, <2>3, <2>4, SameRows, SameTurns DEF Keeps, TypeOK, SweepLocks, RowsTyped, TurnsTyped
<1>4. ASSUME NEW n \in Nodes, SweepLooks(n) PROVE Keeps /\ TurnMoves
  <2>1. UNCHANGED <<row, undecided, paused, lease, late, stale, turn, owner, wakesDue, spent>>
    BY <1>4 DEF SweepLooks
  <2>2. sweep' = [node |-> n, active |-> TRUE, unverified |-> MayHaveWritten(n)]
    BY <1>4 DEF SweepLooks
  <2>3. MayHaveWritten(n) \in BOOLEAN
    BY DEF MayHaveWritten
  <2>4. sweep' \in [node : Nodes, active : BOOLEAN, unverified : BOOLEAN]
    BY <2>2, <2>3
  <2>5. SweepLocks'
    BY <1>4, <2>1, <2>2 DEF SweepLooks, Orphaned, Free, SweepLocks
  <2> QED
    BY <1>1, <2>1, <2>4, <2>5, SameRows, SameTurns DEF Keeps, TypeOK, RowsTyped, TurnsTyped
<1>5. CASE SweepActs
  <2> DEFINE n == sweep.node
             resumed == ~sweep.unverified /\ ~row[n].autoResumed
             reason == IF sweep.unverified THEN "unknown_outcome" ELSE "other"
             again == [Requeue(n) EXCEPT !.autoResumed = TRUE]
             status == IF Mode = "responsive" THEN "waiting_user" ELSE "failed"
             stopped == [row[n] EXCEPT !.reason = reason, !.status = status]
  <2>1. /\ row' = Update(n, IF resumed THEN again ELSE stopped)
        /\ lease' = Freed(n) /\ stale' = stale \ {n} /\ late' = late \ {n}
        /\ turn' = CloseSteps(n) /\ sweep' = NoSweep /\ wakesDue' = WakeLater
        /\ undecided' \in {undecided, AskOwner(n, "failure")}
        /\ UNCHANGED <<paused, owner, spent>> /\ sweep.active
    BY <1>5 DEF SweepActs
  <2>2. n \in Nodes /\ row[n].status = "running" /\ row[n] \in Rows
    BY <1>1, <1>2, <2>1 DEF RowsTyped
  <2>3. /\ again \in Rows /\ again.status = "queued"
        /\ stopped \in Rows /\ stopped.status = status
    <3>1. Requeue(n) \in Rows /\ Requeue(n).status = "queued"
      BY <2>2 DEF Requeue, Rows, Statuses, AssignmentStatus
    <3>2. reason \in Reasons /\ status \in Statuses
      BY DEF Reasons, Statuses, AssignmentStatus
    <3> HIDE DEF reason, status
    <3> QED
      BY <2>2, <3>1, <3>2 DEF Rows
  <2>4. CanGo("running", "queued") /\ CanGo("running", status)
    BY DEF CanGo, Transitions
  <2> HIDE DEF again, stopped, resumed, status
  <2>5. RowsTyped' /\ RowMoves
    BY <1>1, <2>1, <2>2, <2>3, <2>4, UpdateMoves
  <2>6. TurnsTyped' /\ TurnMoves
    BY <1>1, <2>1, <2>2, CloseStepsTyped DEF TurnsTyped, TurnMoves, Live
  <2>7. undecided' \in [Nodes -> Seq({"question", "failure"})]
    <3>1. undecided \in [Nodes -> Seq({"question", "failure"})]
      BY DEF TypeOK
    <3>2. AskOwner(n, "failure") \in [Nodes -> Seq({"question", "failure"})]
      BY <2>2, <3>1, AskingTyped
    <3> QED
      BY <2>1, <3>1, <3>2
  <2>8. /\ lease' \in [Nodes -> Turns \union {NoTurn}]
        /\ late' \in SUBSET Nodes /\ stale' \in SUBSET Nodes
        /\ sweep' \in [node : Nodes, active : BOOLEAN, unverified : BOOLEAN]
        /\ wakesDue' \in Nat
    BY <2>1, <2>2, RootIsNode DEF TypeOK, Freed, NoSweep, WakeLater
  <2>9. SweepLocks'
    BY <2>1 DEF SweepLocks, NoSweep
  <2> QED
    BY <2>1, <2>5, <2>6, <2>7, <2>8, <2>9 DEF Keeps, TypeOK, RowsTyped, TurnsTyped
<1>6. CASE WakeDue \/ TimerWakes
  <2>1. WakeTree /\ UNCHANGED <<undecided, paused, lease, late, stale, turn, sweep, owner, spent>>
    BY <1>6 DEF WakeDue, TimerWakes
  <2>2. RowsTyped' /\ RowMoves /\ \A n \in Nodes : row[n].status = "running" => row'[n] = row[n]
    BY <1>1, <2>1, WakingMoves
  <2>3. wakesDue' \in Nat
    BY <1>6 DEF WakeDue, TimerWakes, TypeOK
  <2>4. SweepLocks'
    BY <1>2, <2>1, <2>2 DEF SweepLocks
  <2> QED
    BY <1>1, <2>1, <2>2, <2>3, <2>4, SameTurns DEF Keeps, TypeOK, RowsTyped, TurnsTyped
<1> QED
  BY <1>3, <1>4, <1>5, <1>6 DEF SweepStep

(* What the owner asks for.                                                *)
LEMMA OwnerSteps ==
    ASSUME TypeOK, SweepLocks, OwnerStep
    PROVE  Keeps /\ TurnMoves
<1>1. TurnsTyped /\ RowsTyped /\ Root \in Nodes /\ Children \subseteq Nodes
  BY DEF TypeOK, TurnsTyped, RowsTyped, Nodes
<1>2. UNCHANGED <<lease, stale, sweep>>
  BY DEF OwnerStep, CancelLooks, CancelActs, CancelSubtaskLooks, CancelSubtaskActs, Answer,
         RetryTask, RetrySubtask, FollowUp, AddSubtask, Resume, Verify
<1>3. sweep.active => /\ row[sweep.node].status = "running" /\ sweep.node \in Nodes
                      /\ owner.op = "cancel" => sweep.node # Root
  BY DEF SweepLocks, TypeOK
<1>4. spent' \in [owner : Nat, crashes : Nat, stalls : Nat]
  <2>1. spent' = spent \/ spent' = [spent EXCEPT !.owner = @ + 1]
    BY DEF OwnerStep, CancelLooks, CancelActs, CancelSubtaskLooks, CancelSubtaskActs, Answer,
           RetryTask, RetrySubtask, FollowUp, AddSubtask, Resume, Verify, OwnerActs
  <2>2. spent \in [owner : Nat, crashes : Nat, stalls : Nat]
    BY DEF TypeOK
  <2> QED
    BY <2>1, <2>2, SpendingTyped
<1>5. /\ paused' \in Pauses /\ late' \in SUBSET Nodes /\ wakesDue' \in Nat
      /\ owner' \in [op : {"none", "cancel", "cancel_subtask"}, node : Nodes, closing : SUBSET Nodes]
  <2>1. paused' \in Pauses /\ late' \in SUBSET Nodes
    BY DEF OwnerStep, CancelLooks, CancelActs, CancelSubtaskLooks, CancelSubtaskActs, Answer,
           RetryTask, RetrySubtask, FollowUp, AddSubtask, Resume, Verify, TypeOK, Pauses
  <2>2. wakesDue' \in {wakesDue, WakeLater}
    BY DEF OwnerStep, CancelLooks, CancelActs, CancelSubtaskLooks, CancelSubtaskActs, Answer,
           RetryTask, RetrySubtask, FollowUp, AddSubtask, Resume, Verify
  <2>3. wakesDue' \in Nat
    BY <2>2 DEF WakeLater, TypeOK
  <2>4. owner' \in {owner, NoCancel} \/ CancelLooks \/ \E c \in Children : CancelSubtaskLooks(c)
    BY DEF OwnerStep, CancelActs, CancelSubtaskActs, Answer,
           RetryTask, RetrySubtask, FollowUp, AddSubtask, Resume, Verify
  <2>5. owner' \in [op : {"none", "cancel", "cancel_subtask"}, node : Nodes, closing : SUBSET Nodes]
    BY <1>1, <2>4 DEF CancelLooks, CancelSubtaskLooks, NoCancel, TypeOK, Tree
  <2> QED
    BY <2>1, <2>3, <2>5
<1>6. undecided' \in [Nodes -> Seq({"question", "failure"})]
  <2>1. undecided \in [Nodes -> Seq({"question", "failure"})]
    BY DEF TypeOK
  <2>2. \A nodes \in SUBSET Nodes : Closed(nodes) \in [Nodes -> Seq({"question", "failure"})]
    BY <2>1 DEF Closed
  <2>3. ASSUME NEW n \in Nodes, undecided[n] # <<>>
        PROVE  Answered(n) \in [Nodes -> Seq({"question", "failure"})]
    <3>1. Tail(undecided[n]) \in Seq({"question", "failure"})
      BY <2>1, <2>3
    <3> QED
      BY <2>1, <3>1 DEF Answered
  <2>4. owner.closing \in SUBSET Nodes /\ Tree \in SUBSET Nodes
    BY DEF TypeOK, Tree
  <2>5. \/ undecided' = undecided
        \/ \E nodes \in SUBSET Nodes : undecided' = Closed(nodes)
        \/ \E n \in Nodes : undecided[n] # <<>> /\ undecided' = Answered(n)
    BY <2>4 DEF OwnerStep, CancelLooks, CancelActs, CancelSubtaskLooks, CancelSubtaskActs, Answer,
           RetryTask, RetrySubtask, FollowUp, AddSubtask, Resume, Verify
  <2> QED
    BY <2>1, <2>2, <2>3, <2>5
<1>7. TurnsTyped' /\ TurnMoves
  <2>1. CASE UNCHANGED turn
    BY <1>1, <2>1, SameTurns
  <2>2. ASSUME NEW t \in Turns, Verify(t) PROVE TurnsTyped' /\ TurnMoves
    <3> DEFINE new == [turn[t] EXCEPT !.step = "none"]
    <3>1. turn' = [turn EXCEPT ![t] = new]
      BY <2>2 DEF Verify
    <3>2. /\ new \in TurnRecords /\ new.pc = turn[t].pc
          /\ new.node = turn[t].node /\ new.version = turn[t].version
      BY <1>1 DEF TurnsTyped, TurnRecords
    <3> HIDE DEF new
    <3> QED
      BY <1>1, <3>1, <3>2 DEF TurnsTyped, TurnMoves, Live
  <2> QED
    BY <2>1, <2>2 DEF OwnerStep, CancelLooks, CancelActs, CancelSubtaskLooks, CancelSubtaskActs,
       Answer, RetryTask, RetrySubtask, FollowUp, AddSubtask, Resume
<1> DEFINE Good == RowsTyped' /\ RowMoves /\ SweepLocks'
<1>8. \A n \in Nodes : row[n].status \in {"failed", "succeeded", "waiting_user"} =>
          /\ Requeue(n) \in Rows /\ Requeue(n).status = "queued"
          /\ Again(n) \in Rows /\ Again(n).status = "queued"
          /\ CanGo(row[n].status, "queued")
  <2> SUFFICES ASSUME NEW n \in Nodes, row[n].status \in {"failed", "succeeded", "waiting_user"}
               PROVE  /\ Requeue(n) \in Rows /\ Requeue(n).status = "queued"
                      /\ Again(n) \in Rows /\ Again(n).status = "queued"
                      /\ CanGo(row[n].status, "queued")
    OBVIOUS
  <2>1. row[n] \in Rows
    BY <1>1 DEF RowsTyped
  <2>2. Requeue(n) \in Rows /\ Requeue(n).status = "queued"
    BY <2>1 DEF Requeue, Rows, Statuses, AssignmentStatus
  <2>3. Again(n) \in Rows /\ Again(n).status = "queued"
    BY <2>2 DEF Again, Rows, Reasons, EndIntents
  <2> QED
    BY <2>2, <2>3 DEF CanGo, Transitions
<1>9. ASSUME UNCHANGED row /\ ~CancelLooks PROVE Good
  <2>1. owner' \in {owner, NoCancel} \/ \E c \in Children : CancelSubtaskLooks(c)
    BY <1>9 DEF OwnerStep, CancelActs, CancelSubtaskActs, Answer,
           RetryTask, RetrySubtask, FollowUp, AddSubtask, Resume, Verify
  <2>2. owner'.op = "cancel" => owner.op = "cancel"
    BY <2>1 DEF CancelSubtaskLooks, NoCancel
  <2> QED
    BY <1>1, <1>2, <1>3, <1>9, <2>2, SameRows DEF SweepLocks
<1>10. ASSUME CancelLooks PROVE Good
  BY <1>1, <1>2, <1>3, <1>10, SameRows DEF CancelLooks, SweepLocks, Free
<1>11. ASSUME CancelActs PROVE Good
  <2>1. row' = Cancelled(Tree) /\ owner.op = "cancel" /\ owner' = NoCancel
    BY <1>11 DEF CancelActs
  <2>2. \A n \in Nodes : row'[n] \in Rows /\ RowMove(row[n], row'[n], n = Root)
    BY <1>1, <2>1, CancellingMoves DEF Tree
  <2>3. row' = [n \in Nodes |-> row'[n]]
    BY <2>1 DEF Cancelled
  <2>4. sweep.active => FALSE
    BY <1>3, <1>11, <2>1 DEF CancelActs, OpenNodes, Tree, Free, IsOpen, OpenStatuses
  <2> QED
    BY <1>2, <2>2, <2>3, <2>4 DEF RowsTyped, RowMoves, SweepLocks
<1>12. ASSUME CancelSubtaskActs PROVE Good
  <2> DEFINE c == owner.node
  <2>1. c \in Nodes /\ owner' = NoCancel /\ Free(c)
    BY <1>12 DEF CancelSubtaskActs, TypeOK
  <2>2. CASE ~IsOpen(row[c].status)
    <3>1. UNCHANGED row
      BY <1>12, <2>2 DEF CancelSubtaskActs
    <3> QED
      BY <1>1, <1>2, <1>3, <2>1, <3>1, SameRows DEF SweepLocks, NoCancel
  <2>3. CASE IsOpen(row[c].status)
    <3> DEFINE cancelled == Cancelled({c})
               new == [cancelled[c] EXCEPT !.waitFor = NoWait, !.deadline = FALSE]
    <3>1. \A n \in Nodes : cancelled[n] \in Rows /\ RowMove(row[n], cancelled[n], n = Root)
      BY <1>1, <2>1, CancellingMoves
    <3>2. \A n \in Nodes \ {c} : cancelled[n] = row[n]
      BY DEF Cancelled
    <3>3. cancelled = [n \in Nodes |-> cancelled[n]]
      BY DEF Cancelled
    <3>4. row' = [cancelled EXCEPT ![c].waitFor = NoWait, ![c].deadline = FALSE]
      BY <1>12, <2>3 DEF CancelSubtaskActs
    <3> HIDE DEF cancelled
    <3>a. cancelled \in [Nodes -> Rows]
      BY <3>1, <3>3
    <3>5. row' = [cancelled EXCEPT ![c] = new]
      BY <2>1, <3>4, <3>a DEF Rows
    <3>6. new \in Rows /\ new.status = cancelled[c].status /\ new.version = cancelled[c].version
      <4>1. NoWait \in Waits /\ cancelled[c] \in Rows
        BY <2>1, <3>1 DEF Waits, NoWait
      <4> QED
        BY <4>1 DEF Rows
    <3> HIDE DEF new
    <3>7. row'[c] = new /\ (\A n \in Nodes \ {c} : row'[n] = row[n]) /\ RowsTyped'
      BY <2>1, <3>1, <3>2, <3>3, <3>5, <3>6 DEF RowsTyped
    <3>8. RowMoves
      BY <1>1, <2>1, <3>1, <3>6, <3>7 DEF RowMoves, RowMove
    <3>9. SweepLocks'
      BY <1>2, <1>3, <2>1, <3>7 DEF SweepLocks, NoCancel, Free
    <3> QED
      BY <3>7, <3>8, <3>9
  <2> QED
    BY <2>2, <2>3
<1>13. ASSUME NEW n \in Nodes, NEW choice \in {"continue", "skip", "end"}, Answer(n, choice)
       PROVE  Good
  <2> DEFINE again == [Requeue(n) EXCEPT !.reason = "none"]
             skipped == [row[n] EXCEPT !.status = "skipped"]
  <2>1. row[n].status = "waiting_user" /\ row[n] \in Rows /\ UNCHANGED owner /\ Free(n)
    BY <1>1, <1>13 DEF Answer, RowsTyped
  <2>2. again \in Rows /\ again.status = "queued" /\ CanGo("waiting_user", "queued")
    BY <1>8, <2>1 DEF Rows, Reasons
  <2>3. skipped \in Rows /\ skipped.status = "skipped" /\ CanGo("waiting_user", "skipped")
    BY <2>1 DEF Rows, Statuses, AssignmentStatus, CanGo, Transitions
  <2>4. \/ row' = Update(n, again) \/ row' = Update(n, skipped)
        \/ /\ \A m \in OpenNodes \ {n} : Free(m)
           /\ row' = Cancelled(Tree) \/ row' = [Cancelled(Tree \ {n}) EXCEPT ![n] = Update(n, skipped)[n]]
    <3>1. CASE choice = "continue"
      BY <1>13, <3>1 DEF Answer
    <3>2. CASE choice = "skip"
      BY <1>13, <3>2 DEF Answer
    <3>3. CASE choice = "end"
      <4>1. row' = [Cancelled(Tree) EXCEPT ![n] = @] /\ \A m \in OpenNodes : Free(m)
        BY <1>13, <3>3 DEF Answer
      <4>2. row' = Cancelled(Tree)
        BY <4>1 DEF Cancelled
      <4> QED
        BY <4>1, <4>2
    <3> QED
      BY <3>1, <3>2, <3>3
  <2> HIDE DEF again, skipped
  <2>5. CASE row' = Update(n, again) \/ row' = Update(n, skipped)
    <3>1. RowsTyped' /\ RowMoves /\ \A m \in Nodes \ {n} : row'[m] = row[m]
      BY <1>1, <2>1, <2>2, <2>3, <2>5, UpdateMoves
    <3> QED
      BY <1>2, <1>3, <2>1, <3>1 DEF SweepLocks
  <2>6. CASE /\ \A m \in OpenNodes \ {n} : Free(m)
             /\ row' = Cancelled(Tree) \/ row' = [Cancelled(Tree \ {n}) EXCEPT ![n] = Update(n, skipped)[n]]
    <3>1. ~sweep.active
      BY <1>3, <2>1, <2>6 DEF OpenNodes, Tree, Free, IsOpen, OpenStatuses
    <3>2. SweepLocks'
      BY <1>2, <3>1 DEF SweepLocks
    <3>3. CASE row' = Cancelled(Tree)
      <4>1. \A m \in Nodes : row'[m] \in Rows /\ RowMove(row[m], row'[m], m = Root)
        BY <1>1, <3>3, CancellingMoves DEF Tree
      <4>2. row' = [m \in Nodes |-> row'[m]]
        BY <3>3 DEF Cancelled
      <4> QED
        BY <3>2, <4>1, <4>2 DEF RowsTyped, RowMoves
    <3>4. CASE row' = [Cancelled(Tree \ {n}) EXCEPT ![n] = Update(n, skipped)[n]]
      <4> DEFINE cancelled == Cancelled(Tree \ {n})
                 new == Update(n, skipped)[n]
      <4>1. \A m \in Nodes : cancelled[m] \in Rows /\ RowMove(row[m], cancelled[m], m = Root)
        BY <1>1, CancellingMoves DEF Tree
      <4>2. cancelled = [m \in Nodes |-> cancelled[m]]
        BY DEF Cancelled
      <4>3. new \in Rows /\ RowMove(row[n], new, n = Root)
        <5>1. row[n].version + 1 \in Nat
          BY <2>1 DEF Rows
        <5>2. new = [skipped EXCEPT !.version = row[n].version + 1]
          BY <1>1 DEF Update, RowsTyped
        <5>3. new \in Rows /\ new.status = "skipped" /\ new.version = row[n].version + 1
          BY <2>3, <5>1, <5>2 DEF Rows
        <5> QED
          BY <2>1, <2>3, <5>3 DEF RowMove
      <4> HIDE DEF cancelled, new
      <4>5. row' = [cancelled EXCEPT ![n] = new]
        BY <3>4 DEF cancelled, new
      <4>6. row' \in [Nodes -> Rows] /\ \A m \in Nodes : row'[m] = IF m = n THEN new ELSE cancelled[m]
        BY <4>1, <4>2, <4>3, <4>5
      <4> QED
        BY <3>2, <4>1, <4>3, <4>6 DEF RowsTyped, RowMoves
    <3> QED
      BY <2>6, <3>3, <3>4
  <2> QED
    BY <2>4, <2>5, <2>6
<1>14. ASSUME RetryTask \/ FollowUp PROVE Good
  <2>1. /\ row' = Update(Root, Again(Root)) /\ UNCHANGED owner
        /\ row[Root].status \in {"failed", "succeeded"}
    BY <1>14 DEF RetryTask, FollowUp
  <2>2. RowsTyped' /\ RowMoves /\ \A m \in Nodes \ {Root} : row'[m] = row[m]
    BY <1>1, <1>8, <2>1, UpdateMoves
  <2> QED
    BY <1>2, <1>3, <2>1, <2>2 DEF SweepLocks
<1>15. ASSUME NEW c \in Children, RetrySubtask(c) PROVE Good
  <2> DEFINE reopened == [row[Root] EXCEPT !.status = "waiting_children", !.reason = "none"]
  <2>1. row[c].status = "failed" /\ c \in Nodes /\ c # Root /\ UNCHANGED owner
    BY <1>1, <1>15, TreeAssumption DEF RetrySubtask
  <2>2. CASE row[Root].status \in {"succeeded", "failed"}
    <3> DEFINE updated == Update(Root, reopened)
               new == Update(c, Again(c))[c]
    <3>1. row' = [updated EXCEPT ![c] = new]
      BY <1>15, <2>2 DEF RetrySubtask
    <3>2. reopened \in Rows /\ reopened.status = "waiting_children"
      BY <1>1 DEF RowsTyped, Rows, Statuses, AssignmentStatus, Reasons
    <3>3. CanGo(row[Root].status, "waiting_children")
      BY <2>2 DEF CanGo, Transitions
    <3>4. row[c] \in Rows /\ row[Root] \in Rows /\ row[c].version + 1 \in Nat /\ row[Root].version + 1 \in Nat
      BY <1>1, <2>1 DEF RowsTyped, Rows
    <3>5. /\ new = [Again(c) EXCEPT !.version = row[c].version + 1]
          /\ updated[Root] = [reopened EXCEPT !.version = row[Root].version + 1]
          /\ updated = [m \in Nodes |-> updated[m]]
          /\ \A m \in Nodes \ {Root} : updated[m] = row[m]
      BY <1>1, <2>1 DEF Update, RowsTyped
    <3> HIDE DEF updated, new, reopened
    <3>6. new \in Rows /\ RowMove(row[c], new, c = Root)
      <4>1. new \in Rows /\ new.status = "queued" /\ new.version = row[c].version + 1
        BY <1>8, <2>1, <3>4, <3>5 DEF Rows
      <4> QED
        BY <1>8, <2>1, <4>1 DEF RowMove
    <3>7. updated[Root] \in Rows /\ RowMove(row[Root], updated[Root], TRUE)
      <4>1. /\ updated[Root] \in Rows /\ updated[Root].status = "waiting_children"
            /\ updated[Root].version = row[Root].version + 1
        BY <3>2, <3>4, <3>5 DEF Rows
      <4> QED
        BY <2>2, <3>3, <4>1 DEF RowMove
    <3>8. /\ row' \in [Nodes -> Rows]
          /\ \A m \in Nodes : row'[m] = IF m = c THEN new ELSE IF m = Root THEN updated[Root] ELSE row[m]
      BY <1>1, <2>1, <3>1, <3>5, <3>6, <3>7 DEF RowsTyped
    <3>9. RowMoves
      BY <2>1, <3>6, <3>7, <3>8 DEF RowMoves, RowMove
    <3>10. SweepLocks'
      BY <1>2, <1>3, <2>1, <2>2, <3>8 DEF SweepLocks
    <3> QED
      BY <3>8, <3>9, <3>10 DEF RowsTyped
  <2>3. CASE row[Root].status \notin {"succeeded", "failed"}
    <3>1. row' = Update(c, Again(c))
      BY <1>15, <2>3 DEF RetrySubtask
    <3>2. RowsTyped' /\ RowMoves /\ \A m \in Nodes \ {c} : row'[m] = row[m]
      BY <1>1, <1>8, <2>1, <3>1, UpdateMoves
    <3> QED
      BY <1>2, <1>3, <2>1, <3>2 DEF SweepLocks
  <2> QED
    BY <2>2, <2>3
<1>16. ASSUME NEW c \in Children, AddSubtask(c) PROVE Good
  <2>1. row' = Added({c}) /\ {c} \in SUBSET Nodes /\ {c} \intersect Tree = {} /\ UNCHANGED owner
    BY <1>1, <1>16 DEF AddSubtask
  <2>2. RowsTyped' /\ RowMoves
    BY <1>1, <2>1, AddingMoves
  <2>3. sweep.active => row'[sweep.node] = row[sweep.node]
    BY <1>3, <2>1 DEF Added, Tree
  <2> QED
    BY <1>2, <1>3, <2>1, <2>2, <2>3 DEF SweepLocks
<1>17. Good
  <2>1. UNCHANGED row \/ CancelActs \/ CancelSubtaskActs \/ RetryTask \/ FollowUp
        \/ (\E n \in Nodes, choice \in {"continue", "skip", "end"} : Answer(n, choice))
        \/ \E c \in Children : RetrySubtask(c) \/ AddSubtask(c)
    BY DEF OwnerStep, CancelLooks, CancelSubtaskLooks, Resume, Verify
  <2> QED
    BY <1>9, <1>10, <1>11, <1>12, <1>13, <1>14, <1>15, <1>16, <2>1
<1> QED
  BY <1>2, <1>4, <1>5, <1>6, <1>7, <1>17 DEF Keeps, TypeOK, RowsTyped, TurnsTyped
-----------------------------------------------------------------------------
LEMMA InitTree == Init => TreeInv
<1> SUFFICES ASSUME Init PROVE TreeInv
  OBVIOUS
<1> USE RootIsNode
<1>1. \A n \in Nodes : \E status \in Statuses : row[n] = NewRow(status)
  BY DEF Init, Statuses, AssignmentStatus
<1>2. row \in [Nodes -> Rows]
  <2>1. \A n \in Nodes : row[n] \in Rows
    BY <1>1, NewRowTyped
  <2>2. row = [n \in Nodes |-> row[n]]
    BY DEF Init
  <2> QED
    BY <2>1, <2>2
<1>3. turn \in [Turns -> TurnRecords]
  <2> DEFINE unused == [pc |-> "unused", node |-> Root, version |-> 0, tool |-> "none",
                        step |-> "none", result |-> NoResult, decision |-> NoDecision]
  <2>1. NoResult \in Results /\ NoDecision \in Decisions
    BY DEF NoResult, Results, TurnStatus, NoDecision, Decide, Decisions
  <2>2. unused \in TurnRecords
    BY <2>1 DEF TurnRecords
  <2>3. turn = [t \in Turns |-> unused]
    BY DEF Init
  <2> QED
    BY <2>2, <2>3
<1>4. /\ undecided \in [Nodes -> Seq({"question", "failure"})]
      /\ lease \in [Nodes -> Turns \union {NoTurn}]
      /\ late \in SUBSET Nodes /\ stale \in SUBSET Nodes
      /\ paused \in Pauses /\ wakesDue \in Nat
  BY DEF Init, Pauses
<1>5. /\ sweep \in [node : Nodes, active : BOOLEAN, unverified : BOOLEAN]
      /\ owner \in [op : {"none", "cancel", "cancel_subtask"}, node : Nodes, closing : SUBSET Nodes]
      /\ spent \in [owner : Nat, crashes : Nat, stalls : Nat]
  BY DEF Init, NoSweep, NoCancel
<1>6. TypeOK
  BY <1>2, <1>3, <1>4, <1>5 DEF TypeOK
<1>7. \A t \in Turns : ~Live(t)
  BY DEF Init, Live
<1>8. SweepLocks /\ AbsentIsNew
  BY <1>1 DEF Init, SweepLocks, NoSweep, AbsentIsNew, NewRow
<1> QED
  BY <1>6, <1>7, <1>8 DEF TreeInv, TurnsAreBehind, TurnsAreDistinct

(* Every step keeps to RowMoves; one that claims nothing, to TurnMoves.    *)
LEMMA NextKeeps ==
    ASSUME TypeOK, SweepLocks, Next
    PROVE  /\ Keeps
           /\ TurnMoves \/ \E t \in Turns, n \in Nodes : Claim(t, n)
<1>1. ASSUME NEW t \in Turns, TurnStep(t)
      PROVE  Keeps /\ (TurnMoves \/ \E n \in Nodes : Claim(t, n))
  BY <1>1, QuietTurnSteps, RowTurnSteps, LeaseSteps, ClaimSteps DEF TurnStep, ToolStep, AfterTurn
<1>2. ASSUME NEW t \in Turns, Crash(t) \/ Shutdown(t) PROVE Keeps /\ TurnMoves
  BY <1>2, QuietTurnSteps
<1>3. CASE SweepStep \/ \E n \in Nodes : LeaseLapses(n) \/ ConversationStale(n)
  BY <1>3, SweepSteps
<1>4. CASE OwnerStep
  BY <1>4, OwnerSteps
<1> QED
  BY <1>1, <1>2, <1>3, <1>4 DEF Next, TimeStep

(* The version of a node never goes back while a turn may remember it.     *)
LEMMA VersionsGrow ==
    ASSUME RowsTyped, AbsentIsNew, RowMoves
    PROVE  AbsentIsNew' /\ \A n \in Nodes : row'[n].version >= row[n].version
<1>1. \A n \in Nodes : row[n].version \in Nat
  BY DEF RowsTyped, Rows
<1>2. \A n \in Nodes : row'[n].version >= row[n].version
  BY <1>1 DEF RowMoves, RowMove, AbsentIsNew
<1>3. \A from \in Statuses \ {"absent"} : ~CanGo(from, "absent")
  BY DEF CanGo, Transitions, Statuses, AssignmentStatus
<1>4. \A n \in Nodes : row[n].status \in Statuses
  BY DEF RowsTyped, Rows
<1>5. AbsentIsNew'
  BY <1>3, <1>4 DEF AbsentIsNew, RowMoves, RowMove
<1> QED
  BY <1>2, <1>5

LEMMA NextTree == TreeInv /\ [Next]_vars => TreeInv'
<1> SUFFICES ASSUME TreeInv, [Next]_vars PROVE TreeInv'
  OBVIOUS
<1>1. CASE UNCHANGED vars
  <2>1. TypeOK'
    BY <1>1 DEF vars, TreeInv, TypeOK
  <2>2. SweepLocks' /\ AbsentIsNew' /\ TurnsAreBehind' /\ TurnsAreDistinct'
    BY <1>1 DEF vars, TreeInv, SweepLocks, AbsentIsNew, TurnsAreBehind, TurnsAreDistinct, Live
  <2> QED
    BY <2>1, <2>2 DEF TreeInv
<1>2. CASE Next
  <2>1. TypeOK' /\ SweepLocks' /\ RowMoves
    BY <1>2, NextKeeps DEF TreeInv, Keeps
  <2>2. AbsentIsNew' /\ \A n \in Nodes : row'[n].version >= row[n].version
    BY <2>1, VersionsGrow DEF TreeInv, TypeOK, RowsTyped
  <2>3. /\ \A t \in Turns : turn[t].node \in Nodes /\ turn[t].version \in Nat
        /\ \A n \in Nodes : row[n].version \in Nat /\ row'[n].version \in Nat
    BY <2>1 DEF TreeInv, TypeOK, TurnRecords, Rows
  <2>4. CASE TurnMoves
    <3>1. TurnsAreBehind'
      BY <2>2, <2>3, <2>4 DEF TreeInv, TurnMoves, TurnsAreBehind
    <3>2. TurnsAreDistinct'
      BY <2>4 DEF TreeInv, TurnMoves, TurnsAreDistinct
    <3> QED
      BY <2>1, <2>2, <3>1, <3>2 DEF TreeInv
  <2>5. ASSUME NEW t \in Turns, NEW n \in Nodes, Claim(t, n) PROVE TreeInv'
    <3>1. /\ \A u \in Turns \ {t} : turn'[u] = turn[u]
          /\ turn'[t].node = n /\ turn'[t].version = row[n].version + 1
          /\ row'[n].version = row[n].version + 1
      BY <2>5, ClaimSteps DEF TreeInv
    <3>2. TurnsAreBehind'
      BY <2>2, <2>3, <3>1 DEF TreeInv, TurnsAreBehind, Live
    <3>3. ASSUME NEW u \in Turns \ {t}, Live(u)', turn'[u].node = n
          PROVE  turn'[u].version # turn'[t].version
      BY <2>3, <3>1, <3>3 DEF TreeInv, TurnsAreBehind, Live
    <3>4. TurnsAreDistinct'
      <4> SUFFICES ASSUME NEW u \in Turns, NEW v \in Turns, Live(u)', Live(v)',
                          turn'[u].node = turn'[v].node, turn'[u].version = turn'[v].version
                   PROVE  u = v
        BY DEF TurnsAreDistinct
      <4>1. CASE u # t /\ v # t
        BY <3>1, <4>1 DEF TreeInv, TurnsAreDistinct, Live
      <4>2. CASE u = t \/ v = t
        BY <3>1, <3>3, <4>2
      <4> QED
        BY <4>1, <4>2
    <3> QED
      BY <2>1, <2>2, <3>2, <3>4 DEF TreeInv
  <2> QED
    BY <1>2, <2>4, <2>5, NextKeeps DEF TreeInv
<1> QED
  BY <1>1, <1>2

THEOREM TreeInvariance == Spec => []TreeInv
  BY InitTree, NextTree, PTL DEF Spec
-----------------------------------------------------------------------------
(* Every variable keeps its type: in particular every settle writes a      *)
(* status, and decideTurn decides whatever the turn reports.               *)
THEOREM TreeTypeCorrect == Spec => []TypeOK
  BY TreeInvariance, PTL DEF TreeInv

(* claim, release, settle and the sweep: two workers that both remember    *)
(* having claimed a node are never both entitled to write it, however many *)
(* crashes, stalls, sweeps, cancellations and retries went before.         *)
THEOREM NodesHaveOneTurn == Spec => []OneTurnPerNode
<1>1. TreeInv => OneTurnPerNode
  BY DEF TreeInv, TurnsAreDistinct, OneTurnPerNode, Held
<1> QED
  BY <1>1, TreeInvariance, PTL

(* No statement moves a node against TRANSITIONS, the ones that do not call *)
(* transitionAssignment included.                                           *)
THEOREM MovesAreTransitions == Spec => EveryMoveIsATransition
<1> DEFINE Kept == \A n \in Tree :
               row'[n].status # row[n].status => CanGo(row[n].status, row'[n].status)
<1>1. TreeInv /\ [Next]_vars => [Kept]_vars
  BY NextKeeps DEF TreeInv, Keeps, RowMoves, RowMove, Tree
<1> QED
  BY <1>1, TreeInvariance, PTL DEF Spec, EveryMoveIsATransition

(* A cancelled or skipped node, and a subtask that succeeded, stay so,     *)
(* whatever turn or request comes late.                                    *)
THEOREM EndedNodesStayEnded == Spec => EndedStaysEnded
<1> DEFINE Kept == \A n \in Nodes :
               \/ row[n].status \in {"cancelled", "skipped"}
               \/ row[n].status = "succeeded" /\ n # Root
               => row'[n].status = row[n].status
<1>1. TreeInv /\ [Next]_vars => [Kept]_vars
  <2>1. \A to : ~CanGo("cancelled", to) /\ ~CanGo("skipped", to)
    BY DEF CanGo, Transitions
  <2> QED
    BY <2>1, NextKeeps DEF TreeInv, Keeps, RowMoves, RowMove
<1> QED
  BY <1>1, TreeInvariance, PTL DEF Spec, EndedStaysEnded
=============================================================================
