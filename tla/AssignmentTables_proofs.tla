------------------------ MODULE AssignmentTables_proofs ------------------------
(***************************************************************************)
(* What the tables say of a node agrees: its status with its decisions,    *)
(* its lease with that of its conversation, the write-ahead steps with     *)
(* where its turns are, the end of the task with its subtasks, and those   *)
(* who wait with what they wait for. Each is an invariant that no single   *)
(* statement keeps; each section strengthens one until every step does.    *)
(*                                                                         *)
(*   DecisionInv  a decision belongs to a node that waits (or was          *)
(*                cancelled as it asked)                                   *)
(*   LeaseInv     stale conversations and late nodes have lost their       *)
(*                workers; who works holds the node, or it is cancelled    *)
(*   StepInv      an open step lies with the one turn that may settle the  *)
(*                node, with the sweep, or behind a node that stopped      *)
(*   QuietInv     nothing of a responsive task fails                       *)
(*   ClosedInv    a lead about to succeed has no open subtask              *)
(*   WakeInv      where no wake is under way, nobody is to be woken        *)
(***************************************************************************)
EXTENDS AssignmentTree_proofs

-----------------------------------------------------------------------------
(* How the statuses move, action by action.                                *)

SameStatuses == \A n \in Nodes : row'[n].status = row[n].status
MovesOnly(n, from, to) ==
    /\ row[n].status = from /\ row'[n].status = to
    /\ \A m \in Nodes \ {n} : row'[m] = row[m]
WakesSome ==
    \A n \in Nodes :
        \/ row'[n] = row[n]
        \/ row[n].status \in {"waiting_team", "waiting_children"} /\ row'[n].status = "queued"
AddsOnly(new) ==
    /\ IsOpen(row[Root].status) /\ new \subseteq Children
    /\ \A n \in Nodes : IF n \in new THEN row[n].status = "absent" /\ row'[n].status = "queued"
                        ELSE row'[n] = row[n]
CancelsOnly(nodes) ==
    \A n \in Nodes : row'[n].status = IF n \in nodes /\ IsOpen(row[n].status) THEN "cancelled"
                                      ELSE row[n].status

(* Whoever cancels a subtask named one, and closes no other's decision.    *)
CancelFits ==
    owner.op = "cancel_subtask" => owner.node \in Children /\ owner.closing \subseteq {owner.node}

(* Update writes one row.                                                  *)
LEMMA UpdateIsLocal ==
    ASSUME RowsTyped, NEW n \in Nodes, NEW new \in Rows, row' = Update(n, new)
    PROVE  row'[n].status = new.status /\ \A m \in Nodes \ {n} : row'[m] = row[m]
<1>1. row[n].version \in Nat
  BY DEF RowsTyped, Rows
<1>2. row'[n] = [new EXCEPT !.version = row[n].version + 1] /\ \A m \in Nodes \ {n} : row'[m] = row[m]
  BY DEF RowsTyped, Update
<1> QED
  BY <1>2 DEF Rows

(* wakeTree moves only nodes that wait, and only to the queue.             *)
LEMMA WakingStatuses ==
    ASSUME RowsTyped, WakeTree
    PROVE  WakesSome
<1>1. PICK dueNow \in SUBSET Deadlined : row' = AfterWake(dueNow)
  BY DEF WakeTree
<1> DEFINE wakes == PlanWakes(Root, StatusOf, [n \in Tree |-> row[n].waitFor], dueNow)
           status == Woken(StatusOf, wakes)
<1>2. \A n \in Nodes : row'[n] = IF n \in Tree /\ status[n] # row[n].status
            THEN [row[n] EXCEPT !.status = status[n], !.version = @ + 1,
                                !.waitFor = NoWait, !.deadline = FALSE]
            ELSE row[n]
  BY <1>1 DEF AfterWake
<1>3. \A n \in Tree : status[n] # row[n].status =>
          status[n] = "queued" /\ row[n].status \in {"waiting_team", "waiting_children"}
  BY DEF Woken, StatusOf
<1> HIDE DEF status
<1>4. ASSUME NEW n \in Tree, status[n] # row[n].status PROVE row'[n].status = "queued"
  BY <1>2, <1>3, <1>4 DEF RowsTyped, Rows, Tree
<1> QED
  BY <1>2, <1>3, <1>4 DEF WakesSome

LEMMA ClaimStatuses ==
    ASSUME RowsTyped, NEW t \in Turns, NEW n \in Nodes, Claim(t, n)
    PROVE  MovesOnly(n, "queued", "running")
<1> DEFINE taken == [row[n] EXCEPT !.status = "running", !.endIntent = "none"]
<1>1. row' = Update(n, taken) /\ row[n].status = "queued"
  BY DEF Claim
<1>2. taken \in Rows /\ taken.status = "running"
  BY DEF RowsTyped, Rows, Statuses, AssignmentStatus, EndIntents
<1> HIDE DEF taken
<1> QED
  BY <1>1, <1>2, UpdateIsLocal DEF MovesOnly

LEMMA SettleStatuses ==
    ASSUME RowsTyped, TurnsTyped, NEW t \in Turns, Settle(t), Writes(t)
    PROVE  MovesOnly(turn[t].node, "running", SettleTo(turn[t].decision))
<1> DEFINE n == turn[t].node
           decision == turn[t].decision
           new == [row[n] EXCEPT !.status = SettleTo(decision), !.endIntent = "none",
                                 !.reason = ReasonOf(decision, @)]
<1>1. turn[t] \in TurnRecords /\ n \in Nodes /\ row[n] \in Rows
  BY DEF TurnsTyped, RowsTyped, TurnRecords
<1>2. row' = Update(n, new) /\ row[n].status = "running" /\ SettleTo(decision) # "none"
  BY DEF Settle, Writes, Held
<1>3. decision \in Decisions
  BY <1>1 DEF TurnRecords
<1>4. SettleTo(decision) \in Statuses /\ ReasonOf(decision, row[n].reason) \in Reasons
  BY <1>1, <1>2, <1>3, SettlingCanGo, ReasonTyped DEF Rows
<1>5. new \in Rows /\ new.status = SettleTo(decision)
  BY <1>1, <1>4 DEF Rows, EndIntents
<1> HIDE DEF new
<1> QED
  BY <1>1, <1>2, <1>5, UpdateIsLocal DEF MovesOnly

(* The statuses a step of a turn moves: all writes of the runner are       *)
(* listed here.                                                            *)
LEMMA TurnStatuses ==
    ASSUME RowsTyped, TurnsTyped, NEW t \in Turns, TurnStep(t)
    PROVE  \/ SameStatuses
           \/ \E n \in Nodes : Claim(t, n) /\ MovesOnly(n, "queued", "running")
           \/ /\ ConversationBusy(t) /\ Held(t)
              /\ MovesOnly(turn[t].node, "running", "queued")
           \/ /\ Settle(t) /\ Writes(t)
              /\ MovesOnly(turn[t].node, "running", SettleTo(turn[t].decision))
           \/ (PostWakes(t) \/ TurnWakes(t)) /\ WakesSome
           \/ \E new \in SUBSET Children : CreateSubtasks(t, new) /\ AddsOnly(new)
           \/ \E c \in Children : RetryByTeam(t, c) /\ MovesOnly(c, "failed", "queued")
<1> DEFINE n == turn[t].node
<1>1. turn[t] \in TurnRecords /\ n \in Nodes /\ row[n] \in Rows
  BY DEF TurnsTyped, RowsTyped, TurnRecords
<1>2. CASE UNCHANGED row
  BY <1>2 DEF SameStatuses
<1>3. ASSUME NEW m \in Nodes, Claim(t, m) PROVE MovesOnly(m, "queued", "running")
  BY <1>3, ClaimStatuses
<1>4. ASSUME ConversationBusy(t), Held(t) PROVE MovesOnly(n, "running", "queued")
  <2>1. row' = Update(n, Requeue(n)) /\ row[n].status = "running"
    BY <1>4 DEF ConversationBusy, Held
  <2>2. Requeue(n) \in Rows /\ Requeue(n).status = "queued"
    BY <1>1 DEF Requeue, Rows, Statuses, AssignmentStatus
  <2> QED
    BY <1>1, <2>1, <2>2, UpdateIsLocal DEF MovesOnly
<1>5. ASSUME Settle(t), Writes(t) PROVE MovesOnly(n, "running", SettleTo(turn[t].decision))
  BY <1>5, SettleStatuses
<1>6. ASSUME PostWakes(t) \/ TurnWakes(t) PROVE WakesSome
  BY <1>6, WakingStatuses DEF PostWakes, TurnWakes
<1>7. ASSUME NEW new \in SUBSET Children, CreateSubtasks(t, new) PROVE AddsOnly(new)
  <2>1. row' = Added(new) /\ IsOpen(row[Root].status) /\ new \subseteq Children \ Tree
    BY <1>7 DEF CreateSubtasks
  <2> QED
    BY <2>1 DEF Added, AddsOnly, Tree, NewRow, Nodes
<1>8. ASSUME NEW c \in Children, RetryByTeam(t, c) PROVE MovesOnly(c, "failed", "queued")
  <2> DEFINE new == [Requeue(c) EXCEPT !.retries = @ + 1, !.reason = "none", !.endIntent = "none"]
  <2>1. row' = Update(c, new) /\ row[c].status = "failed" /\ c \in Nodes
    BY <1>8 DEF RetryByTeam, Nodes
  <2>2. Requeue(c) \in Rows /\ Requeue(c).status = "queued" /\ Requeue(c).retries + 1 \in Nat
    BY <2>1 DEF RowsTyped, Requeue, Rows, Statuses, AssignmentStatus
  <2>3. new \in Rows /\ new.status = "queued"
    BY <2>2 DEF Rows, Reasons, EndIntents
  <2> HIDE DEF new
  <2> QED
    BY <2>1, <2>3, UpdateIsLocal DEF MovesOnly
<1>9. ASSUME \/ ConversationBusy(t) /\ ~Held(t)
             \/ Settle(t) /\ ~Writes(t)
             \/ \E outcome \in {"done", "blocked"} : FinishTask(t, outcome)
             \/ \E until \in Untils, targets \in SUBSET Children, deadline \in Deadlines :
                  WaitForTeam(t, until, targets, deadline)
             \/ Post(t)
      PROVE  SameStatuses
  <2>1. CASE ConversationBusy(t) /\ ~Held(t)
    BY <2>1 DEF ConversationBusy, SameStatuses
  <2>2. CASE Settle(t) /\ ~Writes(t)
    BY <2>2 DEF Settle, SameStatuses
  <2>3. CASE \E outcome \in {"done", "blocked"} : FinishTask(t, outcome)
    <3>1. PICK outcome : row' = [row EXCEPT ![n] = [row[n] EXCEPT !.endIntent = outcome]]
      BY <2>3 DEF FinishTask
    <3>2. [row[n] EXCEPT !.endIntent = outcome].status = row[n].status
      BY <1>1 DEF Rows
    <3> QED
      BY <1>1, <3>1, <3>2 DEF SameStatuses, RowsTyped
  <2>4. CASE \E until \in Untils, targets \in SUBSET Children, deadline \in Deadlines :
                  WaitForTeam(t, until, targets, deadline)
    <3>1. PICK until, targets, deadline : WaitForTeam(t, until, targets, deadline)
      BY <2>4
    <3> DEFINE wait == [until |-> until, targets |-> targets, heard |-> {}]
               new == [row[n] EXCEPT !.endIntent = "wait", !.deadline = deadline, !.waitFor = wait]
    <3>2. row' = [row EXCEPT ![n] = new] \/ row' = row
      BY <1>1, <3>1 DEF WaitForTeam, RowsTyped
    <3>3. new.status = row[n].status
      BY <1>1 DEF Rows
    <3> HIDE DEF new
    <3> QED
      BY <1>1, <3>2, <3>3 DEF SameStatuses, RowsTyped
  <2>5. CASE Post(t)
    <3>1. row' = [m \in Nodes |-> IF n \in row[m].waitFor.targets
                                   THEN [row[m] EXCEPT !.waitFor.heard = @ \union {n}]
                                   ELSE row[m]]
      BY <2>5 DEF Post
    <3>2. \A m \in Nodes : row'[m].status = row[m].status
      <4> SUFFICES ASSUME NEW m \in Nodes PROVE row'[m].status = row[m].status
        OBVIOUS
      <4>1. row[m] \in Rows
        BY DEF RowsTyped
      <4> QED
        BY <3>1, <4>1 DEF Rows
    <3> QED
      BY <3>2 DEF SameStatuses
  <2> QED
    BY <1>9, <2>1, <2>2, <2>3, <2>4, <2>5
<1>10. \/ UNCHANGED row
       \/ \E m \in Nodes : Claim(t, m)
       \/ ConversationBusy(t) \/ Settle(t) \/ PostWakes(t) \/ TurnWakes(t) \/ Post(t)
       \/ \E outcome \in {"done", "blocked"} : FinishTask(t, outcome)
       \/ \E until \in Untils, targets \in SUBSET Children, deadline \in Deadlines :
            WaitForTeam(t, until, targets, deadline)
       \/ \E new \in SUBSET Children : CreateSubtasks(t, new)
       \/ \E c \in Children : RetryByTeam(t, c)
  BY DEF TurnStep, ToolStep, StopStep, AfterTurn, TakeConversation, Renew, CallTool, ToolReturns,
         ToolOutOfQuota, WriteUnknown, AskUser, EndTurn, StopWhenPaused, LoseLease, AbortLost,
         EndRun, Conclude
<1> QED
  BY <1>2, <1>3, <1>4, <1>5, <1>6, <1>7, <1>8, <1>9, <1>10

(* The statuses a step of the sweep or of the timer moves.                 *)
LEMMA SweepStatuses ==
    ASSUME RowsTyped, sweep.node \in Nodes, sweep.active => row[sweep.node].status = "running",
           SweepStep
    PROVE  \/ SameStatuses /\ \E n \in Nodes : SweepLooks(n)
           \/ /\ SweepActs
              /\ MovesOnly(sweep.node, "running",
                    IF ~sweep.unverified /\ ~row[sweep.node].autoResumed THEN "queued"
                    ELSE IF Mode = "responsive" THEN "waiting_user" ELSE "failed")
           \/ (WakeDue \/ TimerWakes) /\ WakesSome
<1>1. ASSUME NEW n \in Nodes, SweepLooks(n) PROVE SameStatuses
  BY <1>1 DEF SweepLooks, SameStatuses
<1>2. CASE WakeDue \/ TimerWakes
  BY <1>2, WakingStatuses DEF WakeDue, TimerWakes
<1>3. CASE SweepActs
  <2> DEFINE n == sweep.node
             resumed == ~sweep.unverified /\ ~row[n].autoResumed
             reason == IF sweep.unverified THEN "unknown_outcome" ELSE "other"
             again == [Requeue(n) EXCEPT !.autoResumed = TRUE]
             status == IF Mode = "responsive" THEN "waiting_user" ELSE "failed"
             stopped == [row[n] EXCEPT !.reason = reason, !.status = status]
  <2>1. row' = Update(n, IF resumed THEN again ELSE stopped)
    BY <1>3 DEF SweepActs
  <2>2. n \in Nodes /\ row[n].status = "running" /\ row[n] \in Rows
    BY <1>3 DEF RowsTyped, SweepActs
  <2>3. /\ again \in Rows /\ again.status = "queued"
        /\ stopped \in Rows /\ stopped.status = status
    <3>1. Requeue(n) \in Rows /\ Requeue(n).status = "queued"
      BY <2>2 DEF Requeue, Rows, Statuses, AssignmentStatus
    <3>2. reason \in Reasons /\ status \in Statuses
      BY DEF Reasons, Statuses, AssignmentStatus
    <3> HIDE DEF reason, status
    <3> QED
      BY <2>2, <3>1, <3>2 DEF Rows
  <2> HIDE DEF again, stopped
  <2> QED
    BY <1>3, <2>1, <2>2, <2>3, UpdateIsLocal DEF MovesOnly
<1> QED
  BY <1>1, <1>2, <1>3 DEF SweepStep

(* The statuses a request of the owner moves.                              *)
LEMMA OwnerStatuses ==
    ASSUME RowsTyped, owner.node \in Nodes, CancelFits, OwnerStep
    PROVE  \/ SameStatuses /\ (CancelLooks \/ \E c \in Children : CancelSubtaskLooks(c))
           \/ SameStatuses /\ (Resume \/ \E t \in Turns : Verify(t))
           \/ CancelActs /\ CancelsOnly(Nodes)
           \/ CancelSubtaskActs /\ owner.node \in Children /\ CancelsOnly({owner.node})
           \/ \E n \in Nodes :
                \/ Answer(n, "continue") /\ MovesOnly(n, "waiting_user", "queued")
                \/ Answer(n, "skip") /\ n # Root /\ MovesOnly(n, "waiting_user", "skipped")
                \/ Answer(n, "skip") /\ n = Root /\ row'[n].status = "skipped"
                   /\ \A m \in Children : row'[m].status = IF IsOpen(row[m].status) THEN "cancelled"
                                                          ELSE row[m].status
                \/ Answer(n, "end") /\ CancelsOnly(Nodes)
           \/ (RetryTask \/ FollowUp) /\ MovesOnly(Root, row[Root].status, "queued")
              /\ row[Root].status \in {"succeeded", "failed"}
           \/ \E c \in Children :
                \/ /\ RetrySubtask(c) /\ row[c].status = "failed" /\ row'[c].status = "queued"
                   /\ \A m \in Children \ {c} : row'[m] = row[m]
                   /\ \/ row'[Root] = row[Root]
                      \/ /\ row[Root].status \in {"succeeded", "failed"}
                         /\ row'[Root].status = "waiting_children"
                \/ AddSubtask(c) /\ AddsOnly({c})
<1> USE TreeAssumption DEF Nodes
<1>1. \A nodes : \A n \in Nodes :
        Cancelled(nodes)[n].status = IF n \in nodes /\ IsOpen(row[n].status) THEN "cancelled"
                                     ELSE row[n].status
  BY DEF Cancelled, RowsTyped, Rows
<1>2. \A n \in Nodes : n \notin Tree => ~IsOpen(row[n].status)
  BY DEF Tree, IsOpen, OpenStatuses
<1>3. \A n \in Nodes : row[n] \in Rows
  BY DEF RowsTyped
<1>4. CASE CancelActs
  BY <1>1, <1>2, <1>4 DEF CancelActs, CancelsOnly
<1>5. CASE CancelSubtaskActs
  <2> DEFINE c == owner.node
             cancelled == Cancelled({c})
  <2>1. c \in Children /\ owner.op = "cancel_subtask"
    BY <1>5 DEF CancelSubtaskActs, CancelFits
  <2>2. CASE ~IsOpen(row[c].status)
    BY <1>5, <2>1, <2>2 DEF CancelSubtaskActs, CancelsOnly
  <2>3. CASE IsOpen(row[c].status)
    <3>1. row' = [cancelled EXCEPT ![c].waitFor = NoWait, ![c].deadline = FALSE]
      BY <1>5, <2>3 DEF CancelSubtaskActs
    <3>2. cancelled = [n \in Nodes |-> cancelled[n]] /\ \A n \in Nodes : cancelled[n] \in Rows
      BY CancellingMoves DEF Cancelled
    <3> HIDE DEF cancelled
    <3>3. \A n \in Nodes : row'[n].status = cancelled[n].status
      BY <3>1, <3>2 DEF Rows
    <3> QED
      BY <1>1, <1>5, <2>1, <3>3 DEF CancelsOnly, cancelled
  <2> QED
    BY <2>2, <2>3
<1>6. ASSUME NEW n \in Nodes, NEW choice \in {"continue", "skip", "end"}, Answer(n, choice)
      PROVE  \/ choice = "continue" /\ MovesOnly(n, "waiting_user", "queued")
             \/ choice = "skip" /\ n # Root /\ MovesOnly(n, "waiting_user", "skipped")
             \/ choice = "skip" /\ n = Root /\ row'[n].status = "skipped"
                /\ \A m \in Children : row'[m].status = IF IsOpen(row[m].status) THEN "cancelled"
                                                       ELSE row[m].status
             \/ choice = "end" /\ CancelsOnly(Nodes)
  <2> DEFINE again == [Requeue(n) EXCEPT !.reason = "none"]
             skipped == [row[n] EXCEPT !.status = "skipped"]
  <2>1. row[n].status = "waiting_user" /\ row[n] \in Rows /\ row[n].version \in Nat
    BY <1>3, <1>6 DEF Answer, Rows
  <2>2. again \in Rows /\ again.status = "queued"
    <3>1. Requeue(n) \in Rows /\ Requeue(n).status = "queued"
      BY <2>1 DEF Requeue, Rows, Statuses, AssignmentStatus
    <3> QED
      BY <3>1 DEF Rows, Reasons
  <2>3. skipped \in Rows /\ skipped.status = "skipped"
    BY <2>1 DEF Rows, Statuses, AssignmentStatus
  <2>4. CASE choice = "continue"
    <3>1. row' = Update(n, again)
      BY <1>6, <2>4 DEF Answer
    <3> QED
      BY <2>1, <2>2, <2>4, <3>1, UpdateIsLocal DEF MovesOnly
  <2>5. CASE choice = "skip" /\ n # Root
    <3>1. row' = Update(n, skipped)
      BY <1>6, <2>5 DEF Answer
    <3> QED
      BY <2>1, <2>3, <2>5, <3>1, UpdateIsLocal DEF MovesOnly
  <2>6. CASE choice = "skip" /\ n = Root
    <3> DEFINE cancelled == Cancelled(Tree \ {n})
               new == Update(n, skipped)[n]
    <3>1. row' = [cancelled EXCEPT ![n] = new]
      BY <1>6, <2>6 DEF Answer
    <3>2. new = [skipped EXCEPT !.version = row[n].version + 1]
      BY <2>1 DEF Update, RowsTyped
    <3>3. new.status = "skipped"
      BY <2>3, <3>2 DEF Rows
    <3>4. DOMAIN cancelled = Nodes
      BY DEF Cancelled
    <3> HIDE DEF cancelled, new
    <3>5. row'[n] = new /\ \A m \in Nodes \ {n} : row'[m] = cancelled[m]
      BY <3>1, <3>4
    <3>6. \A m \in Children : m # n
      BY <2>6
    <3> QED
      BY <1>1, <1>2, <2>6, <3>3, <3>5, <3>6 DEF cancelled
  <2>7. CASE choice = "end"
    <3>1. row' = [Cancelled(Tree) EXCEPT ![n] = @]
      BY <1>6, <2>7 DEF Answer
    <3>2. row' = Cancelled(Tree)
      BY <3>1 DEF Cancelled
    <3> QED
      BY <1>1, <1>2, <2>7, <3>2 DEF CancelsOnly
  <2> QED
    BY <2>4, <2>5, <2>6, <2>7
<1>7. \A n \in Nodes : row[n].status \in {"failed", "succeeded"} =>
          Again(n) \in Rows /\ Again(n).status = "queued"
  <2> SUFFICES ASSUME NEW n \in Nodes PROVE Again(n) \in Rows /\ Again(n).status = "queued"
    OBVIOUS
  <2>1. Requeue(n) \in Rows /\ Requeue(n).status = "queued"
    BY <1>3 DEF Requeue, Rows, Statuses, AssignmentStatus
  <2> QED
    BY <2>1 DEF Again, Rows, Reasons, EndIntents
<1>8. ASSUME RetryTask \/ FollowUp
      PROVE  MovesOnly(Root, row[Root].status, "queued") /\ row[Root].status \in {"succeeded", "failed"}
  BY <1>7, <1>8, UpdateIsLocal DEF RetryTask, FollowUp, MovesOnly
<1>9. ASSUME NEW c \in Children, RetrySubtask(c)
      PROVE  /\ row[c].status = "failed" /\ row'[c].status = "queued"
             /\ \A m \in Children \ {c} : row'[m] = row[m]
             /\ \/ row'[Root] = row[Root]
                \/ /\ row[Root].status \in {"succeeded", "failed"}
                   /\ row'[Root].status = "waiting_children"
  <2> DEFINE reopened == [row[Root] EXCEPT !.status = "waiting_children", !.reason = "none"]
             new == Update(c, Again(c))[c]
             updated == Update(Root, reopened)
  <2>1. row[c].status = "failed" /\ c # Root /\ Again(c) \in Rows /\ Again(c).status = "queued"
    BY <1>7, <1>9 DEF RetrySubtask
  <2>2. CASE row[Root].status \notin {"succeeded", "failed"}
    <3>1. row' = Update(c, Again(c))
      BY <1>9, <2>2 DEF RetrySubtask
    <3> QED
      BY <2>1, <3>1, UpdateIsLocal
  <2>3. CASE row[Root].status \in {"succeeded", "failed"}
    <3>1. row' = [updated EXCEPT ![c] = new]
      BY <1>9, <2>3 DEF RetrySubtask
    <3>2. /\ new = [Again(c) EXCEPT !.version = row[c].version + 1]
          /\ updated[Root] = [reopened EXCEPT !.version = row[Root].version + 1]
          /\ DOMAIN updated = Nodes
          /\ \A m \in Nodes \ {Root} : updated[m] = row[m]
      BY <1>3 DEF Update, RowsTyped
    <3>3. row[Root] \in Rows
      BY <1>3
    <3> HIDE DEF new, updated
    <3>4. new.status = "queued" /\ updated[Root].status = "waiting_children"
      BY <2>1, <3>2, <3>3 DEF Rows
    <3>5. row'[c] = new /\ \A m \in Nodes \ {c} : row'[m] = updated[m]
      BY <3>1, <3>2
    <3> QED
      BY <2>1, <2>3, <3>2, <3>4, <3>5
  <2> QED
    BY <2>2, <2>3
<1>10. ASSUME NEW c \in Children, AddSubtask(c) PROVE AddsOnly({c})
  BY <1>10 DEF AddSubtask, AddsOnly, Added, Tree, NewRow
<1>11. ASSUME CancelLooks \/ (\E c \in Children : CancelSubtaskLooks(c)) \/ Resume
              \/ \E t \in Turns : Verify(t)
       PROVE  SameStatuses
  BY <1>11 DEF CancelLooks, CancelSubtaskLooks, Resume, Verify, SameStatuses
<1> HIDE DEF Nodes
<1> QED
  BY <1>4, <1>5, <1>6, <1>8, <1>9, <1>10, <1>11 DEF OwnerStep
-----------------------------------------------------------------------------
(* Decisions. That a waiting node has one is inductive with the converse:  *)
(* what is unanswered belongs to a node that waits, or was cancelled just  *)
(* as it asked (CancelActs closes only what CancelLooks saw).              *)
DecisionFits(status, asked) ==
    /\ Len(asked) <= 1
    /\ status = "waiting_user" => asked # <<>>
    /\ asked # <<>> => status \in {"waiting_user", "cancelled"}
DecisionsFit == \A n \in Nodes : DecisionFits(row[n].status, undecided[n])

DecisionInv == TreeInv /\ CancelFits /\ DecisionsFit

(* A node that asks its owner had asked nothing before.                    *)
LEMMA AskingFits ==
    ASSUME undecided \in [Nodes -> Seq({"question", "failure"})], DecisionsFit,
           NEW n \in Nodes, NEW kind \in {"question", "failure"},
           MovesOnly(n, "running", "waiting_user"), undecided' = AskOwner(n, kind)
    PROVE  DecisionsFit'
<1>1. undecided[n] = <<>>
  BY DEF MovesOnly, DecisionsFit, DecisionFits
<1>2. undecided'[n] = Append(<<>>, kind) /\ \A m \in Nodes \ {n} : undecided'[m] = undecided[m]
  BY <1>1 DEF AskOwner
<1>3. Append(<<>>, kind) = <<kind>> /\ Len(<<kind>>) = 1 /\ <<kind>> # <<>>
  OBVIOUS
<1>4. DecisionFits(row'[n].status, undecided'[n])
  BY <1>2, <1>3 DEF MovesOnly, DecisionFits
<1>5. \A m \in Nodes \ {n} : DecisionFits(row'[m].status, undecided'[m])
  BY <1>2 DEF MovesOnly, DecisionsFit
<1> QED
  BY <1>4, <1>5 DEF DecisionsFit

(* Steps that ask nothing and answer nothing.                              *)
LEMMA UnaskedFits ==
    ASSUME RowsTyped, DecisionsFit, UNCHANGED undecided,
           \A n \in Nodes :
              \/ row'[n].status = row[n].status
              \/ row[n].status # "waiting_user" /\ row'[n].status # "waiting_user"
                 /\ row[n].status # "cancelled"
    PROVE  DecisionsFit'
BY DEF DecisionsFit, DecisionFits

(* Nobody but the sweep and settle() asks, and who leaves the wait has been *)
(* answered or is cancelled.                                                *)
LEMMA TurnDecisions ==
    ASSUME TypeOK, DecisionsFit, NEW t \in Turns, TurnStep(t)
    PROVE  DecisionsFit'
<1>1. RowsTyped /\ TurnsTyped /\ undecided \in [Nodes -> Seq({"question", "failure"})]
  BY DEF TypeOK, RowsTyped, TurnsTyped
<1> DEFINE n == turn[t].node
           decision == turn[t].decision
<1>2. n \in Nodes /\ decision \in Decisions /\ Root \in Nodes /\ Children \subseteq Nodes
  BY <1>1 DEF TurnsTyped, TurnRecords, Nodes
<1>3. CASE Settle(t) /\ Writes(t)
  <2>0. MovesOnly(n, "running", SettleTo(decision))
    BY <1>1, <1>3, SettleStatuses
  <2>1. CASE decision.next \in {"ask", "ask_failure"}
    <3>1. SettleTo(decision) = "waiting_user"
      BY <2>1 DEF SettleTo
    <3>2. undecided' \in {AskOwner(n, "question"), AskOwner(n, "failure")}
      BY <1>3, <2>1 DEF Settle
    <3> QED
      BY <1>1, <1>2, <2>0, <3>1, <3>2, AskingFits
  <2>2. CASE decision.next \notin {"ask", "ask_failure"}
    <3>1. UNCHANGED undecided
      BY <1>3, <2>2 DEF Settle
    <3>2. SettleTo(decision) # "waiting_user"
      BY <1>2, <2>2 DEF SettleTo, Decisions
    <3> QED
      BY <1>1, <1>2, <2>0, <3>1, <3>2, UnaskedFits DEF MovesOnly
  <2> QED
    BY <2>1, <2>2
<1>4. CASE ~(Settle(t) /\ Writes(t))
  <2>1. UNCHANGED undecided
    BY <1>4 DEF TurnStep, ToolStep, StopStep, AfterTurn, Claim, TakeConversation, ConversationBusy,
       Renew, CallTool, ToolReturns, ToolOutOfQuota, WriteUnknown, AskUser, Post, PostWakes,
       FinishTask, WaitForTeam, CreateSubtasks, RetryByTeam, EndTurn, StopWhenPaused, LoseLease,
       AbortLost, EndRun, Conclude, Settle, TurnWakes
  <2>2. CASE SameStatuses
    BY <1>1, <2>1, <2>2, UnaskedFits DEF SameStatuses
  <2>3. CASE \E m \in Nodes : \/ MovesOnly(m, "queued", "running")
                              \/ MovesOnly(m, "running", "queued")
                              \/ MovesOnly(m, "failed", "queued")
    BY <1>1, <2>1, <2>3, UnaskedFits DEF MovesOnly
  <2>4. CASE WakesSome
    BY <1>1, <2>1, <2>4, UnaskedFits DEF WakesSome
  <2>5. CASE \E new \in SUBSET Children : AddsOnly(new)
    BY <1>1, <2>1, <2>5, UnaskedFits DEF AddsOnly
  <2> QED
    BY <1>1, <1>2, <1>4, <2>2, <2>3, <2>4, <2>5, TurnStatuses
<1> QED
  BY <1>3, <1>4

(* The sweep asks when it may not resume a node, and the timer asks        *)
(* nothing.                                                                *)
LEMMA SweepDecisions ==
    ASSUME TypeOK, SweepLocks, DecisionsFit, SweepStep
    PROVE  DecisionsFit'
<1>1. /\ RowsTyped /\ undecided \in [Nodes -> Seq({"question", "failure"})]
      /\ sweep.node \in Nodes /\ (sweep.active => row[sweep.node].status = "running")
  BY DEF TypeOK, RowsTyped, SweepLocks
<1> DEFINE n == sweep.node
           resumed == ~sweep.unverified /\ ~row[n].autoResumed
           to == IF resumed THEN "queued" ELSE IF Mode = "responsive" THEN "waiting_user" ELSE "failed"
<1>2. CASE SweepActs /\ MovesOnly(n, "running", to)
  <2>1. CASE ~resumed /\ Mode = "responsive"
    <3>1. undecided' = AskOwner(n, "failure") /\ to = "waiting_user"
      BY <1>2, <2>1 DEF SweepActs
    <3> QED
      BY <1>1, <1>2, <3>1, AskingFits
  <2>2. CASE ~(~resumed /\ Mode = "responsive")
    <3>1. undecided' = undecided /\ to # "waiting_user"
      BY <1>2, <2>2 DEF SweepActs
    <3> HIDE DEF to
    <3> QED
      BY <1>1, <1>2, <3>1, UnaskedFits DEF MovesOnly
  <2> QED
    BY <2>1, <2>2
<1>3. CASE SameStatuses /\ \E m \in Nodes : SweepLooks(m)
  BY <1>1, <1>3, UnaskedFits DEF SameStatuses, SweepLooks
<1>4. CASE (WakeDue \/ TimerWakes) /\ WakesSome
  BY <1>1, <1>4, UnaskedFits DEF WakesSome, WakeDue, TimerWakes
<1> QED
  BY <1>1, <1>2, <1>3, <1>4, SweepStatuses

(* The owner's requests close the decisions of the nodes they move.        *)
LEMMA OwnerDecisions ==
    ASSUME TypeOK, CancelFits, DecisionsFit, OwnerStep
    PROVE  DecisionsFit'
<1>1. /\ RowsTyped /\ undecided \in [Nodes -> Seq({"question", "failure"})]
      /\ owner.node \in Nodes /\ Root \in Nodes /\ Children \subseteq Nodes
  BY DEF TypeOK, RowsTyped, Nodes
<1>2. \A n \in Nodes : row[n].status = "waiting_user" => IsOpen(row[n].status)
  BY DEF IsOpen, OpenStatuses
<1>3. CASE \/ SameStatuses /\ (CancelLooks \/ \E c \in Children : CancelSubtaskLooks(c))
           \/ SameStatuses /\ (Resume \/ \E t \in Turns : Verify(t))
  BY <1>1, <1>3, UnaskedFits DEF SameStatuses, CancelLooks, CancelSubtaskLooks, Resume, Verify
<1>4. CASE CancelActs /\ CancelsOnly(Nodes)
  <2>1. \A n \in Nodes : undecided'[n] \in {<<>>, undecided[n]}
    BY <1>4 DEF CancelActs, Closed
  <2> QED
    BY <1>2, <1>4, <2>1 DEF CancelsOnly, DecisionsFit, DecisionFits
<1>5. CASE CancelSubtaskActs /\ CancelsOnly({owner.node})
  <2>1. \A n \in Nodes : undecided'[n] = IF n \in owner.closing THEN <<>> ELSE undecided[n]
    BY <1>5 DEF CancelSubtaskActs, Closed
  <2>2. owner.closing \subseteq {owner.node}
    BY <1>5 DEF CancelSubtaskActs, CancelFits
  <2> QED
    BY <1>2, <1>5, <2>1, <2>2 DEF CancelsOnly, DecisionsFit, DecisionFits
<1>6. ASSUME NEW n \in Nodes, NEW choice \in {"continue", "skip"}, Answer(n, choice),
             NEW to \in {"queued", "skipped"}, MovesOnly(n, "waiting_user", to),
             undecided' = Answered(n)
      PROVE  DecisionsFit'
  <2>1. undecided'[n] = Tail(undecided[n]) /\ \A m \in Nodes \ {n} : undecided'[m] = undecided[m]
    BY <1>1, <1>6 DEF Answered
  <2>2. undecided[n] \in Seq({"question", "failure"}) /\ undecided[n] # <<>> /\ Len(undecided[n]) <= 1
    BY <1>1, <1>6 DEF Answer, DecisionsFit, DecisionFits
  <2>3. Tail(undecided[n]) = <<>>
    BY <2>2
  <2> QED
    <3>1. DecisionFits(row'[n].status, undecided'[n])
      <4>1. undecided'[n] = <<>> /\ Len(<<>>) = 0 /\ row'[n].status # "waiting_user"
        BY <1>6, <2>1, <2>3 DEF MovesOnly
      <4> QED
        BY <4>1 DEF DecisionFits
    <3>2. \A m \in Nodes \ {n} : DecisionFits(row'[m].status, undecided'[m])
      BY <1>6, <2>1 DEF MovesOnly, DecisionsFit
    <3> QED
      BY <3>1, <3>2 DEF DecisionsFit
<1>7. ASSUME NEW n \in Nodes,
             \/ Answer(n, "continue") /\ MovesOnly(n, "waiting_user", "queued")
             \/ Answer(n, "skip") /\ n # Root /\ MovesOnly(n, "waiting_user", "skipped")
      PROVE  DecisionsFit'
  BY <1>6, <1>7 DEF Answer
<1>8. ASSUME NEW n \in Nodes,
             \/ /\ Answer(n, "skip") /\ n = Root /\ row'[n].status = "skipped"
                /\ \A m \in Children : row'[m].status = IF IsOpen(row[m].status) THEN "cancelled"
                                                       ELSE row[m].status
             \/ Answer(n, "end") /\ CancelsOnly(Nodes)
      PROVE  DecisionsFit'
  <2>1. undecided' = Closed(Tree)
    BY <1>8 DEF Answer
  <2>2. \A m \in Nodes : undecided'[m] = IF row[m].status # "absent" THEN <<>> ELSE undecided[m]
    BY <2>1 DEF Closed, Tree
  <2>3. \A m \in Nodes : row'[m].status # "waiting_user"
    BY <1>2, <1>8 DEF Nodes, CancelsOnly
  <2>4. \A m \in Nodes : row[m].status = "absent" => undecided[m] = <<>>
    BY DEF DecisionsFit, DecisionFits
  <2> QED
    BY <2>2, <2>3, <2>4 DEF DecisionsFit, DecisionFits
<1>9. CASE \/ /\ RetryTask \/ FollowUp
              /\ MovesOnly(Root, row[Root].status, "queued")
              /\ row[Root].status \in {"succeeded", "failed"}
           \/ \E c \in Children :
                \/ /\ RetrySubtask(c) /\ row[c].status = "failed" /\ row'[c].status = "queued"
                   /\ \A m \in Children \ {c} : row'[m] = row[m]
                   /\ \/ row'[Root] = row[Root]
                      \/ /\ row[Root].status \in {"succeeded", "failed"}
                         /\ row'[Root].status = "waiting_children"
                \/ AddSubtask(c) /\ AddsOnly({c})
  <2>1. UNCHANGED undecided
    BY <1>9 DEF RetryTask, FollowUp, RetrySubtask, AddSubtask
  <2>2. \A n \in Nodes :
              \/ row'[n].status = row[n].status
              \/ row[n].status # "waiting_user" /\ row'[n].status # "waiting_user"
                 /\ row[n].status # "cancelled"
    BY <1>9 DEF MovesOnly, AddsOnly, Nodes
  <2> QED
    BY <1>1, <2>1, <2>2, UnaskedFits
<1> QED
  BY <1>1, <1>3, <1>4, <1>5, <1>7, <1>8, <1>9, OwnerStatuses

(* Nothing but a new request changes what is being cancelled.              *)
LEMMA CancelKeepsFit == TypeOK /\ CancelFits /\ Next => CancelFits'
<1> SUFFICES ASSUME TypeOK, CancelFits, Next PROVE CancelFits'
  OBVIOUS
<1>1. ASSUME NEW c \in Children, CancelSubtaskLooks(c) PROVE CancelFits'
  BY <1>1 DEF CancelSubtaskLooks, CancelFits
<1>2. CASE CancelLooks \/ owner' \in {owner, NoCancel}
  BY <1>2 DEF CancelLooks, CancelFits, NoCancel
<1>3. CASE OwnerStep
  BY <1>1, <1>2, <1>3 DEF OwnerStep, CancelActs, CancelSubtaskActs, Answer, RetryTask, RetrySubtask,
     FollowUp, AddSubtask, Resume, Verify
<1>4. CASE SweepStep \/ TimeStep
  BY <1>2, <1>4 DEF SweepStep, SweepLooks, SweepActs, WakeDue, TimerWakes, TimeStep, LeaseLapses,
     ConversationStale, Crash, Shutdown
<1>5. ASSUME NEW t \in Turns, TurnStep(t) PROVE UNCHANGED owner
  BY <1>5 DEF TurnStep, ToolStep, StopStep, AfterTurn, Claim, TakeConversation, ConversationBusy,
       Renew, CallTool, ToolReturns, ToolOutOfQuota, WriteUnknown, AskUser, Post, PostWakes,
       FinishTask, WaitForTeam, CreateSubtasks, RetryByTeam, EndTurn, StopWhenPaused, LoseLease,
       AbortLost, EndRun, Conclude, Settle, TurnWakes
<1> QED
  BY <1>2, <1>3, <1>4, <1>5 DEF Next

(* Nodes and their decisions fit, inductively.                             *)
THEOREM DecisionInvariance == Spec => []DecisionInv
<1>1. Init => DecisionInv
  <2>1. Init => CancelFits
    BY DEF Init, NoCancel, CancelFits
  <2>2. Init => DecisionsFit
    BY DEF Init, DecisionsFit, DecisionFits, NewRow
  <2> QED
    BY <2>1, <2>2, InitTree DEF DecisionInv
<1>2. DecisionInv /\ [Next]_vars => DecisionInv'
  <2> SUFFICES ASSUME DecisionInv, [Next]_vars PROVE DecisionInv'
    OBVIOUS
  <2>1. TreeInv'
    BY NextTree DEF DecisionInv
  <2>2. CASE UNCHANGED vars
    BY <2>1, <2>2 DEF DecisionInv, vars, CancelFits, DecisionsFit
  <2>3. CASE Next
    <3>1. CancelFits'
      BY <2>3, CancelKeepsFit DEF DecisionInv, TreeInv
    <3>2. ASSUME NEW t \in Turns, TurnStep(t) PROVE DecisionsFit'
      BY <3>2, TurnDecisions DEF DecisionInv, TreeInv
    <3>3. ASSUME SweepStep PROVE DecisionsFit'
      BY <3>3, SweepDecisions DEF DecisionInv, TreeInv
    <3>4. ASSUME OwnerStep PROVE DecisionsFit'
      BY <3>4, OwnerDecisions DEF DecisionInv, TreeInv
    <3>5. ASSUME TimeStep PROVE DecisionsFit'
      BY <3>5 DEF TimeStep, LeaseLapses, ConversationStale, Crash, Shutdown, DecisionInv, DecisionsFit
    <3> QED
      BY <2>1, <2>3, <3>1, <3>2, <3>3, <3>4, <3>5 DEF Next, DecisionInv
  <2> QED
    BY <2>2, <2>3
<1> QED
  BY <1>1, <1>2, PTL DEF Spec

(* A node in waiting_user always has its one question or failure in the    *)
(* decision center, whoever parked it (settle, askUser or the sweep) and   *)
(* whatever else was answered or cancelled at the time: there is           *)
(* something the owner can answer.                                         *)
THEOREM WaitingNodesHaveTheirDecision == Spec => []WaitingNodeHasItsDecision
<1>1. DecisionInv => WaitingNodeHasItsDecision
  BY DEF DecisionInv, DecisionsFit, DecisionFits, WaitingNodeHasItsDecision
<1> QED
  BY <1>1, DecisionInvariance, PTL
-----------------------------------------------------------------------------
(* The two leases. As long as no lease lapsed under a live worker: a       *)
(* conversation is stale, and a node late, only when its worker is gone;   *)
(* and a worker that has not settled yet still holds its node, unless it   *)
(* was cancelled. What every step may do to a turn's place is PcMove.      *)
AtWork == {"working", "calling", "posted", "closing"}

LeaseFits ==
    \A n \in Nodes : lease[n] # NoTurn =>
        /\ turn[lease[n]].node = n
        /\ turn[lease[n]].pc \in AtWork \union {"dead"}

StaleIsDead == \A n \in stale : lease[n] # NoTurn /\ ~Live(lease[n])
Lost(n) == \A t \in Turns : Live(t) /\ Held(t) => turn[t].node # n
LateIsLost == (\A n \in late : Lost(n)) /\ (sweep.active => Lost(sweep.node))
Busy(t) == Live(t) /\ turn[t].pc # "waking"
BusyHolds == \A t \in Turns : Busy(t) => Held(t) \/ row[turn[t].node].status = "cancelled"

LeasesAgree == StaleIsDead /\ LateIsLost /\ BusyHolds /\ HeldTurnHoldsLease
LeaseInv == TreeInv /\ CancelFits /\ LeaseFits /\ (spent.stalls = 0 => LeasesAgree)

PcMove(u) ==
    /\ turn[u].pc # "unused" => turn'[u].node = turn[u].node
    /\ \/ turn'[u].pc = turn[u].pc
       \/ \E n \in Nodes : Claim(u, n)
       \/ TakeConversation(u) /\ turn'[u].pc = "working"
       \/ turn[u].pc \in AtWork /\ turn'[u].pc \in AtWork \ {"posted"}
       \/ Post(u) /\ turn[u].pc \in AtWork /\ turn'[u].pc = "posted"
       \/ EndRun(u) /\ turn'[u].pc = "ended"
       \/ /\ turn[u].pc = "ended" /\ turn'[u].pc = "settling"
          /\ \E stuck, stopping \in BOOLEAN : Conclude(u, stuck, stopping)
       \/ Settle(u) /\ turn'[u].pc = "waking"
       \/ turn[u].pc = "claimed" /\ turn'[u].pc = "over"
       \/ TurnWakes(u) /\ turn[u].pc = "waking" /\ turn'[u].pc = "over"
       \/ Crash(u) /\ Live(u) /\ turn'[u].pc = "dead"

(* A step is one turn's, and of the others it only closes open steps; or   *)
(* it is nobody's.                                                         *)
OthersStay(t) ==
    \A u \in Turns \ {t} : /\ turn'[u].pc = turn[u].pc /\ turn'[u].node = turn[u].node
                           /\ turn'[u].version = turn[u].version

(* How a turn leaves, closes, goes back to work, or is aborted.            *)
LEMMA LeavingMoves ==
    ASSUME TurnsTyped, NEW t \in Turns, NEW pc \in {"over", "dead"}, Leave(t, pc)
    PROVE  turn'[t].pc = pc /\ turn'[t].node = turn[t].node /\ turn'[t].step = turn[t].step
           /\ \A u \in Turns \ {t} : turn'[u] = turn[u]
BY DEF Leave, TurnsTyped, TurnRecords

LEMMA ClosingMoves ==
    ASSUME TurnsTyped, NEW t \in Turns, NEW result, Close(t, result)
    PROVE  turn'[t].pc = "closing" /\ turn'[t].node = turn[t].node /\ turn'[t].step = turn[t].step
           /\ \A u \in Turns \ {t} : turn'[u] = turn[u]
<1>1. turn[t] \in TurnRecords
  BY DEF TurnsTyped
<1>2. turn'[t] = [turn[t] EXCEPT !.pc = "closing", !.tool = "none",
            !.result = [result EXCEPT !.quota = result.quota \/ turn[t].result.quota]]
      /\ \A u \in Turns \ {t} : turn'[u] = turn[u]
  BY DEF Close, TurnsTyped, TurnRecords
<1> DEFINE r == [result EXCEPT !.quota = result.quota \/ turn[t].result.quota]
<1> HIDE DEF r
<1>3. turn'[t] = [turn[t] EXCEPT !.pc = "closing", !.tool = "none", !.result = r]
  BY <1>2 DEF r
<1> QED
  BY <1>1, <1>2, <1>3 DEF TurnRecords

LEMMA BackingMoves ==
    ASSUME TurnsTyped, NEW t \in Turns, Back(t)
    PROVE  turn'[t].pc = "working" /\ turn'[t].node = turn[t].node /\ turn'[t].step = "none"
           /\ \A u \in Turns \ {t} : turn'[u] = turn[u]
BY DEF Back, TurnsTyped, TurnRecords

LEMMA AbortingMoves ==
    ASSUME TurnsTyped, NEW t \in Turns, Aborted(t)
    PROVE  /\ turn'[t].pc = "closing" /\ turn'[t].node = turn[t].node
           /\ IF turn[t].tool \in WriteTools
              THEN turn'[t].step = "unknown_outcome" /\ turn'[t].result.status = "unknown_outcome"
              ELSE turn'[t].step = turn[t].step
           /\ \A u \in Turns \ {t} : turn'[u] = turn[u]
<1>1. CASE turn[t].tool \in WriteTools
  <2>1. Ended("unknown_outcome").status = "unknown_outcome"
    BY DEF Ended, NoResult
  <2> QED
    BY <1>1, <2>1 DEF Aborted, TurnsTyped, TurnRecords
<1>2. CASE turn[t].tool \notin WriteTools
  BY <1>2, ClosingMoves DEF Aborted
<1> QED
  BY <1>1, <1>2

(* A step of a turn moves its own place only.                              *)
LEMMA TurnPcs ==
    ASSUME TurnsTyped, NEW t \in Turns, TurnStep(t) \/ Crash(t) \/ Shutdown(t)
    PROVE  PcMove(t) /\ OthersStay(t)
<1>1. turn[t] \in TurnRecords
  BY DEF TurnsTyped
<1>2. ASSUME NEW n \in Nodes, Claim(t, n) PROVE PcMove(t) /\ OthersStay(t)
  BY <1>2 DEF Claim, TurnsTyped, TurnRecords, PcMove, OthersStay
<1>3. CASE TakeConversation(t)
  <2>1. turn' = [CloseSteps(turn[t].node) EXCEPT ![t].pc = "working"]
    BY <1>3 DEF TakeConversation
  <2>2. /\ CloseSteps(turn[t].node) \in [Turns -> TurnRecords]
        /\ \A u \in Turns : /\ CloseSteps(turn[t].node)[u].pc = turn[u].pc
                            /\ CloseSteps(turn[t].node)[u].node = turn[u].node
                            /\ CloseSteps(turn[t].node)[u].version = turn[u].version
    BY <1>1, CloseStepsTyped DEF TurnRecords
  <2>3. /\ turn'[t].pc = "working" /\ turn'[t].node = turn[t].node
        /\ \A u \in Turns \ {t} : turn'[u] = CloseSteps(turn[t].node)[u]
    BY <2>1, <2>2 DEF TurnRecords
  <2> QED
    BY <1>3, <2>2, <2>3 DEF PcMove, OthersStay
<1>4. CASE ConversationBusy(t) \/ TurnWakes(t)
  <2>1. turn[t].pc = (IF TurnWakes(t) THEN "waking" ELSE "claimed") /\ Leave(t, "over")
    BY <1>4 DEF ConversationBusy, TurnWakes
  <2> QED
    BY <2>1, LeavingMoves DEF PcMove, OthersStay
<1>5. CASE Crash(t)
  BY <1>5, LeavingMoves DEF Crash, PcMove, OthersStay
<1>6. CASE Renew(t)
  BY <1>6 DEF Renew, PcMove, OthersStay
<1>7. ASSUME NEW tool \in ToolNames, CallTool(t, tool) PROVE PcMove(t) /\ OthersStay(t)
  BY <1>7 DEF CallTool, TurnsTyped, TurnRecords, PcMove, OthersStay, AtWork
<1>8. CASE ToolReturns(t) \/ PostWakes(t) \/ \E c \in Children : RetryByTeam(t, c)
  <2>1. Back(t) /\ turn[t].pc \in AtWork
    BY <1>8 DEF ToolReturns, PostWakes, RetryByTeam, Calling, AtWork
  <2> QED
    BY <2>1, BackingMoves DEF PcMove, OthersStay, AtWork
<1>9. CASE ToolOutOfQuota(t)
  <2>1. /\ turn'[t].pc = "working" /\ turn'[t].node = turn[t].node
        /\ \A u \in Turns \ {t} : turn'[u] = turn[u]
    BY <1>9 DEF ToolOutOfQuota, TurnsTyped, TurnRecords
  <2> QED
    BY <1>9, <2>1 DEF ToolOutOfQuota, PcMove, OthersStay, AtWork
<1>10. CASE WriteUnknown(t)
  BY <1>10 DEF WriteUnknown, TurnsTyped, TurnRecords, PcMove, OthersStay, AtWork
<1>11. CASE \/ AskUser(t) \/ StopWhenPaused(t) \/ LoseLease(t)
            \/ \E ending \in Endings : EndTurn(t, ending)
            \/ \E outcome \in {"done", "blocked"} : FinishTask(t, outcome)
            \/ \E until \in Untils, targets \in SUBSET Children, deadline \in Deadlines :
                 WaitForTeam(t, until, targets, deadline)
  <2>1. turn[t].pc \in AtWork /\ \E result : Close(t, result)
    BY <1>11 DEF AskUser, StopWhenPaused, LoseLease, EndTurn, FinishTask, WaitForTeam, Calling, AtWork
  <2> QED
    BY <2>1, ClosingMoves DEF PcMove, OthersStay, AtWork
<1>12. CASE AbortLost(t) \/ Shutdown(t)
  <2>1. turn[t].pc \in AtWork /\ Aborted(t)
    BY <1>12 DEF AbortLost, Shutdown, AtWork
  <2> QED
    BY <2>1, AbortingMoves DEF PcMove, OthersStay, AtWork
<1>13. CASE Post(t)
  BY <1>13 DEF Post, Calling, TurnsTyped, TurnRecords, PcMove, OthersStay, AtWork
<1>14. ASSUME NEW new \in SUBSET Children, CreateSubtasks(t, new) PROVE PcMove(t) /\ OthersStay(t)
  <2>1. turn[t].pc \in AtWork
    BY <1>14 DEF CreateSubtasks, Calling, AtWork
  <2>2. CASE turn[t].node = Root
    BY <1>14, <2>1, <2>2 DEF CreateSubtasks, TurnsTyped, TurnRecords, PcMove, OthersStay, AtWork
  <2>3. CASE turn[t].node # Root
    BY <1>14, <2>1, <2>3, BackingMoves DEF CreateSubtasks, PcMove, OthersStay, AtWork
  <2> QED
    BY <2>2, <2>3
<1>15. CASE EndRun(t)
  BY <1>15 DEF EndRun, TurnsTyped, TurnRecords, PcMove, OthersStay
<1>16. ASSUME NEW stuck \in BOOLEAN, NEW stopping \in BOOLEAN, Conclude(t, stuck, stopping)
       PROVE  PcMove(t) /\ OthersStay(t)
  <2>1. PICK decision : turn' = [turn EXCEPT ![t].pc = "settling", ![t].decision = decision,
                                            ![t].result = NoResult]
    BY <1>16 DEF Conclude
  <2>2. /\ turn'[t].pc = "settling" /\ turn'[t].node = turn[t].node
        /\ \A u \in Turns \ {t} : turn'[u] = turn[u]
    BY <2>1 DEF TurnsTyped, TurnRecords
  <2>3. turn[t].pc = "ended"
    BY <1>16 DEF Conclude
  <2> QED
    BY <1>16, <2>2, <2>3 DEF PcMove, OthersStay
<1>17. CASE Settle(t)
  BY <1>17 DEF Settle, TurnsTyped, TurnRecords, PcMove, OthersStay
<1> QED
  BY <1>2, <1>3, <1>4, <1>5, <1>6, <1>7, <1>8, <1>9, <1>10, <1>11, <1>12, <1>13, <1>14, <1>15,
     <1>16, <1>17 DEF TurnStep, ToolStep, StopStep, AfterTurn

(* The whole step: where each turn may go.                                 *)
LEMMA PcMoves ==
    ASSUME TurnsTyped, sweep.node \in Nodes, Next
    PROVE  \A u \in Turns : PcMove(u)
<1>1. ASSUME NEW t \in Turns, TurnStep(t) \/ Crash(t) \/ Shutdown(t)
      PROVE  \A u \in Turns : PcMove(u)
  BY <1>1, TurnPcs DEF OthersStay, PcMove
<1>2. CASE UNCHANGED turn
  BY <1>2 DEF PcMove
<1>3. CASE SweepActs
  BY <1>3, CloseStepsTyped DEF SweepActs, PcMove
<1>4. ASSUME NEW t \in Turns, Verify(t) PROVE \A u \in Turns : PcMove(u)
  BY <1>4 DEF Verify, PcMove, TurnsTyped, TurnRecords
<1>5. CASE SweepStep
  BY <1>2, <1>3, <1>5 DEF SweepStep, SweepLooks, WakeDue, TimerWakes
<1>6. CASE \E n \in Nodes : LeaseLapses(n) \/ ConversationStale(n)
  BY <1>2, <1>6 DEF LeaseLapses, ConversationStale
<1>7. CASE OwnerStep
  BY <1>2, <1>4, <1>7 DEF OwnerStep, CancelLooks, CancelActs, CancelSubtaskLooks, CancelSubtaskActs,
     Answer, RetryTask, RetrySubtask, FollowUp, AddSubtask, Resume
<1> QED
  BY <1>1, <1>5, <1>6, <1>7 DEF Next, TimeStep

(* Who may move a running node.                                            *)
LEMMA LeavesRunning ==
    ASSUME TypeOK, SweepLocks, CancelFits, Next, NEW n \in Nodes,
           row[n].status = "running", row'[n].status # "running"
    PROVE  \/ row'[n].status = "cancelled"
           \/ \E t \in Turns : /\ turn[t].node = n /\ Held(t)
                               /\ ConversationBusy(t) \/ Settle(t)
           \/ SweepActs /\ n = sweep.node
<1>1. /\ RowsTyped /\ TurnsTyped /\ sweep.node \in Nodes /\ owner.node \in Nodes
      /\ sweep.active => row[sweep.node].status = "running"
  BY DEF TypeOK, RowsTyped, TurnsTyped, SweepLocks
<1>2. ~SameStatuses /\ ~WakesSome
  BY DEF SameStatuses, WakesSome
<1>3. \A m \in Nodes : \A from, to : MovesOnly(m, from, to) => n = m /\ from = "running"
  BY DEF MovesOnly
<1>4. \A new : ~AddsOnly(new)
  BY DEF AddsOnly
<1>5. \A nodes : CancelsOnly(nodes) => row'[n].status = "cancelled"
  BY DEF CancelsOnly
<1>6. ASSUME NEW t \in Turns, TurnStep(t)
      PROVE  turn[t].node = n /\ Held(t) /\ (ConversationBusy(t) \/ Settle(t))
  <2>1. turn[t].node \in Nodes /\ Children \subseteq Nodes
    BY <1>1 DEF TurnsTyped, TurnRecords, Nodes
  <2>2. Writes(t) => Held(t)
    BY DEF Writes
  <2> QED
    BY <1>1, <1>2, <1>3, <1>4, <1>6, <2>1, <2>2, TurnStatuses
<1>7. CASE SweepStep
  BY <1>1, <1>2, <1>3, <1>7, SweepStatuses
<1>8. CASE OwnerStep
  <2>1. ASSUME NEW m \in Nodes, row'[m].status = "skipped", m = Root,
               \A c \in Children : row'[c].status = IF IsOpen(row[c].status) THEN "cancelled"
                                                    ELSE row[c].status,
               row[m].status = "waiting_user"
        PROVE  row'[n].status = "cancelled"
    BY <2>1 DEF Nodes
  <2>2. \A c \in Children : RetrySubtask(c) => row[c].status = "failed"
    BY DEF RetrySubtask
  <2>3. \A m \in Nodes : Answer(m, "skip") => row[m].status = "waiting_user"
    BY DEF Answer
  <2>4. ASSUME NEW c \in Children, row[c].status = "failed",
               \A m \in Children \ {c} : row'[m] = row[m],
               \/ row'[Root] = row[Root]
               \/ row[Root].status \in {"succeeded", "failed"}
        PROVE  FALSE
    BY <2>4 DEF Nodes
  <2>5. CancelSubtaskActs => owner.node \in Nodes
    BY <1>1
  <2>6. \A m \in Nodes : Answer(m, "continue") \/ Answer(m, "end") => row[m].status = "waiting_user"
    BY DEF Answer
  <2>7. ~(MovesOnly(Root, row[Root].status, "queued") /\ row[Root].status \in {"succeeded", "failed"})
    BY <1>3 DEF Nodes
  <2>8. \A m \in Nodes : \A to : ~MovesOnly(m, "waiting_user", to)
    BY <1>3
  <2> QED
    BY <1>1, <1>2, <1>4, <1>5, <1>8, <2>1, <2>3, <2>4, <2>5, <2>7, <2>8, OwnerStatuses
<1>9. CASE TimeStep
  BY <1>2, <1>9 DEF TimeStep, LeaseLapses, ConversationStale, Crash, Shutdown, SameStatuses
<1> QED
  BY <1>6, <1>7, <1>8, <1>9 DEF Next

(* Who may move a conversation's lease.                                    *)
LEMMA LeaseMoves ==
    ASSUME TypeOK, Next
    PROVE  \/ UNCHANGED lease
           \/ \E t \in Turns : /\ TakeConversation(t)
                               /\ lease' = [lease EXCEPT ![turn[t].node] = t]
           \/ \E t \in Turns : EndRun(t) /\ HoldsLease(t) /\ lease' = Freed(turn[t].node)
           \/ SweepActs /\ lease' = Freed(sweep.node)
<1>1. ASSUME NEW t \in Turns, TurnStep(t), ~TakeConversation(t), ~(EndRun(t) /\ HoldsLease(t))
      PROVE  UNCHANGED lease
  BY <1>1 DEF TurnStep, ToolStep, StopStep, AfterTurn, Claim, ConversationBusy,
       Renew, CallTool, ToolReturns, ToolOutOfQuota, WriteUnknown, AskUser, Post, PostWakes,
       FinishTask, WaitForTeam, CreateSubtasks, RetryByTeam, EndTurn, StopWhenPaused, LoseLease,
       AbortLost, EndRun, Conclude, Settle, TurnWakes
<1>2. CASE SweepStep \/ TimeStep \/ OwnerStep
  BY <1>2 DEF SweepStep, SweepLooks, SweepActs, WakeDue, TimerWakes, TimeStep, LeaseLapses,
     ConversationStale, Crash, Shutdown, OwnerStep, CancelLooks, CancelActs, CancelSubtaskLooks,
     CancelSubtaskActs, Answer, RetryTask, RetrySubtask, FollowUp, AddSubtask, Resume, Verify
<1>3. \A t \in Turns : TakeConversation(t) => lease' = [lease EXCEPT ![turn[t].node] = t]
  BY DEF TakeConversation
<1>4. \A t \in Turns : EndRun(t) /\ HoldsLease(t) => lease' = Freed(turn[t].node)
  BY DEF EndRun
<1> QED
  BY <1>1, <1>2, <1>3, <1>4 DEF Next

(* A conversation's lease names a turn that works on it, or died doing     *)
(* so.                                                                     *)
LEMMA LeaseKeepsFit ==
    ASSUME TypeOK, LeaseFits, Next
    PROVE  LeaseFits'
<1>1. /\ TurnsTyped /\ sweep.node \in Nodes /\ lease \in [Nodes -> Turns \union {NoTurn}]
      /\ \A t \in Turns : turn[t].node \in Nodes /\ t # NoTurn
  BY DEF TypeOK, TurnsTyped, TurnRecords, Turns, NoTurn
<1>2. \A u \in Turns : PcMove(u)
  BY <1>1, PcMoves
<1>3. ASSUME NEW n \in Nodes, lease'[n] = lease[n], lease[n] # NoTurn,
             ~(EndRun(lease[n]) /\ HoldsLease(lease[n]))
      PROVE  turn'[lease[n]].node = n /\ turn'[lease[n]].pc \in AtWork \union {"dead"}
  <2> DEFINE t == lease[n]
  <2>1. t \in Turns /\ turn[t].node = n /\ turn[t].pc \in AtWork \union {"dead"} /\ HoldsLease(t)
    BY <1>1, <1>3 DEF LeaseFits, HoldsLease
  <2>2. PcMove(t)
    BY <1>2, <2>1
  <2> HIDE DEF t
  <2>3. turn[t].pc # "claimed" /\ ~\E m \in Nodes : Claim(t, m)
    BY <2>1 DEF AtWork, Claim
  <2> QED
    BY <1>3, <2>1, <2>2, <2>3 DEF PcMove, AtWork, TakeConversation, Settle, t
<1>4. CASE UNCHANGED lease /\ ~\E t \in Turns : EndRun(t) /\ HoldsLease(t)
  BY <1>1, <1>3, <1>4 DEF LeaseFits
<1>5. ASSUME NEW t \in Turns, TakeConversation(t) PROVE LeaseFits'
  <2>1. lease' = [lease EXCEPT ![turn[t].node] = t]
    BY <1>5 DEF TakeConversation
  <2>2. turn'[t].node = turn[t].node /\ turn'[t].pc \in AtWork \union {"dead"} /\ turn[t].pc = "claimed"
    <3>1. turn[t].pc = "claimed" /\ turn'[t].pc = "working"
      BY <1>1, <1>5, CloseStepsTyped DEF TakeConversation
    <3> QED
      BY <1>2, <3>1 DEF PcMove, AtWork
  <2>3. \A n \in Nodes \ {turn[t].node} : lease'[n] = lease[n]
    BY <1>1, <2>1
  <2>4. \A n \in Nodes \ {turn[t].node} : lease[n] # NoTurn => ~EndRun(lease[n])
    <3> SUFFICES ASSUME NEW n \in Nodes \ {turn[t].node}, lease[n] # NoTurn, EndRun(lease[n])
                 PROVE  FALSE
      OBVIOUS
    <3>1. lease[n] \in Turns /\ lease[n] # t
      BY <1>1 DEF LeaseFits
    <3>2. PcMove(lease[n]) /\ OthersStay(t)
      BY <1>1, <1>2, <1>5, <3>1, TurnPcs DEF TurnStep
    <3>3. turn'[lease[n]].pc = turn[lease[n]].pc /\ turn[lease[n]].pc = "closing"
      BY <3>1, <3>2 DEF OthersStay, EndRun
    <3>4. turn'[lease[n]].pc = "ended"
      BY <3>1, <1>1 DEF EndRun, TurnsTyped, TurnRecords
    <3> QED
      BY <3>3, <3>4
  <2> QED
    BY <1>1, <1>3, <2>1, <2>2, <2>3, <2>4 DEF LeaseFits
<1>6. ASSUME NEW t \in Turns, EndRun(t), HoldsLease(t) PROVE LeaseFits'
  <2>1. lease' = Freed(turn[t].node)
    BY <1>6 DEF EndRun
  <2>2. lease'[turn[t].node] = NoTurn /\ \A n \in Nodes \ {turn[t].node} : lease'[n] = lease[n]
    BY <1>1, <2>1 DEF Freed
  <2>3. \A n \in Nodes \ {turn[t].node} : lease[n] # NoTurn => ~EndRun(lease[n])
    <3> SUFFICES ASSUME NEW n \in Nodes \ {turn[t].node}, lease[n] # NoTurn, EndRun(lease[n])
                 PROVE  FALSE
      OBVIOUS
    <3>1. lease[n] \in Turns /\ lease[n] # t
      BY <1>1 DEF LeaseFits
    <3>2. OthersStay(t)
      BY <1>1, <1>6, TurnPcs DEF TurnStep, AfterTurn
    <3>3. turn'[lease[n]].pc = turn[lease[n]].pc /\ turn[lease[n]].pc = "closing"
      BY <3>1, <3>2 DEF OthersStay, EndRun
    <3>4. turn'[lease[n]].pc = "ended"
      BY <3>1, <1>1 DEF EndRun, TurnsTyped, TurnRecords
    <3> QED
      BY <3>3, <3>4
  <2> QED
    BY <1>1, <1>3, <2>2, <2>3 DEF LeaseFits
<1>7. CASE SweepActs
  <2>1. lease' = Freed(sweep.node)
    BY <1>7 DEF SweepActs
  <2>2. lease'[sweep.node] = NoTurn /\ \A n \in Nodes \ {sweep.node} : lease'[n] = lease[n]
    BY <1>1, <2>1 DEF Freed
  <2>3. \A t \in Turns : ~EndRun(t)
    BY <1>1, <1>7 DEF SweepActs, EndRun, NoSweep
  <2> QED
    BY <1>1, <1>3, <2>2, <2>3 DEF LeaseFits
<1> QED
  BY <1>4, <1>5, <1>6, <1>7, LeaseMoves

(* A turn that holds its node after a step that claimed nothing held it    *)
(* before; and it goes on holding what keeps running.                      *)
LEMMA HeldBefore ==
    ASSUME TypeOK, TurnsAreBehind, RowMoves, NEW t \in Turns, Live(t),
           turn'[t].node = turn[t].node, turn'[t].version = turn[t].version
    PROVE  /\ Held(t)' => Held(t)
           /\ Held(t) /\ row'[turn[t].node].status = "running" => Held(t)'
<1> DEFINE n == turn[t].node
<1>1. /\ n \in Nodes /\ turn[t].version \in Nat /\ row[n].version \in Nat
      /\ turn[t].version <= row[n].version
  BY DEF TypeOK, TurnRecords, Rows, TurnsAreBehind
<1>2. RowMove(row[n], row'[n], n = Root)
  BY <1>1 DEF RowMoves
<1>3. ~CanGo("running", "running")
  BY DEF CanGo, Transitions
<1> QED
  BY <1>1, <1>2, <1>3 DEF RowMove, Held

(* What stays true of the turns that did not claim in this step.           *)
LEMMA LostStays ==
    ASSUME TypeOK, TurnsAreBehind, RowMoves, NEW n \in Nodes, Lost(n),
           \A t \in Turns : Live(t)' /\ turn'[t].node = n =>
               /\ Live(t)
               /\ turn'[t].node = turn[t].node /\ turn'[t].version = turn[t].version
    PROVE  Lost(n)'
BY HeldBefore DEF Lost

(* As long as no live worker stalled, only leases of the dead lapse.       *)
LEMMA NoStallBefore ==
    ASSUME TypeOK, Next, spent'.stalls = 0
    PROVE  /\ spent.stalls = 0
           /\ \A n \in Nodes : LeaseLapses(n) => Lost(n)
           /\ \A n \in Nodes : ConversationStale(n) => ~Live(lease[n])
<1>1. spent \in [owner : Nat, crashes : Nat, stalls : Nat] /\ spent.stalls \in Nat
  BY DEF TypeOK
<1>2. \/ spent' = spent \/ spent' = [spent EXCEPT !.owner = @ + 1]
      \/ spent' = [spent EXCEPT !.crashes = @ + 1] \/ spent' = [spent EXCEPT !.stalls = @ + 1]
  <2>1. ASSUME NEW t \in Turns, TurnStep(t)
        PROVE  spent' = spent \/ spent' = [spent EXCEPT !.crashes = @ + 1]
    BY <2>1 DEF TurnStep, ToolStep, StopStep, AfterTurn, Claim, TakeConversation, ConversationBusy,
       Renew, CallTool, ToolReturns, ToolOutOfQuota, WriteUnknown, AskUser, Post, PostWakes,
       FinishTask, WaitForTeam, CreateSubtasks, RetryByTeam, EndTurn, StopWhenPaused, LoseLease,
       AbortLost, EndRun, Conclude, Settle, TurnWakes
  <2>2. CASE SweepStep \/ TimeStep
    BY <2>2 DEF SweepStep, SweepLooks, SweepActs, WakeDue, TimerWakes, TimeStep, LeaseLapses,
       ConversationStale, Crash, Shutdown, Stall
  <2>3. CASE OwnerStep
    BY <2>3 DEF OwnerStep, CancelLooks, CancelActs, CancelSubtaskLooks, OwnerActs,
       CancelSubtaskActs, Answer, RetryTask, RetrySubtask, FollowUp, AddSubtask, Resume, Verify
  <2> QED
    BY <2>1, <2>2, <2>3 DEF Next
<1>3. ~Stall /\ spent.stalls = 0
  BY <1>1, <1>2 DEF Stall
<1>4. ASSUME NEW n \in Nodes, LeaseLapses(n) PROVE Lost(n)
  <2>1. ~\E t \in TurnsOf(n) : Live(t) /\ Held(t)
    BY <1>3, <1>4 DEF LeaseLapses
  <2> QED
    BY <2>1 DEF Lost, TurnsOf, Live
<1>5. ASSUME NEW n \in Nodes, ConversationStale(n) PROVE ~Live(lease[n])
  BY <1>3, <1>5 DEF ConversationStale
<1> QED
  BY <1>3, <1>4, <1>5

(* The conversation of a live turn does not become stale.                  *)
LEMMA StaleStaysDead ==
    ASSUME TypeOK, LeaseFits, StaleIsDead, Next, spent'.stalls = 0,
           TurnMoves \/ \E t \in Turns, n \in Nodes : Claim(t, n)
    PROVE  StaleIsDead'
<1>1. /\ TurnsTyped /\ lease \in [Nodes -> Turns \union {NoTurn}] /\ stale \in SUBSET Nodes
      /\ \A t \in Turns : turn[t].node \in Nodes
      /\ sweep.node \in Nodes
  BY DEF TypeOK, TurnsTyped, TurnRecords
<1>2. ASSUME NEW n \in Nodes, lease[n] # NoTurn, ~Live(lease[n]) PROVE ~Live(lease[n])'
           \/ lease'[n] # lease[n]
  <2>1. lease[n] \in Turns /\ turn[lease[n]].pc # "unused"
    BY <1>1, <1>2 DEF LeaseFits, AtWork
  <2>2. CASE TurnMoves
    BY <1>2, <2>1, <2>2 DEF TurnMoves, Live
  <2>3. ASSUME NEW t \in Turns, NEW m \in Nodes, Claim(t, m)
        PROVE  turn'[lease[n]] = turn[lease[n]]
    BY <1>1, <2>1, <2>3 DEF Claim, TurnsTyped
  <2> QED
    BY <1>2, <2>1, <2>2, <2>3 DEF Live
<1>3. ASSUME NEW n \in stale', n \in stale PROVE lease'[n] = lease[n]
  <2>1. n \in Nodes
    BY <1>1, <1>3
  <2>2. ASSUME NEW t \in Turns, TakeConversation(t) PROVE n # turn[t].node
    BY <1>3, <2>2 DEF TakeConversation
  <2>3. ASSUME NEW t \in Turns, EndRun(t), HoldsLease(t) PROVE n # turn[t].node
    BY <1>3, <2>3 DEF EndRun
  <2>4. SweepActs => n # sweep.node
    BY <1>3 DEF SweepActs
  <2> QED
    BY <1>1, <2>1, <2>2, <2>3, <2>4, LeaseMoves DEF Freed
<1>4. ASSUME NEW n \in stale', n \notin stale
      PROVE  ConversationStale(n) /\ n \in Nodes
  <2>1. ASSUME NEW t \in Turns, TurnStep(t) PROVE stale' \subseteq stale
    BY <2>1 DEF TurnStep, ToolStep, StopStep, AfterTurn, Claim, TakeConversation, ConversationBusy,
       Renew, CallTool, ToolReturns, ToolOutOfQuota, WriteUnknown, AskUser, Post, PostWakes,
       FinishTask, WaitForTeam, CreateSubtasks, RetryByTeam, EndTurn, StopWhenPaused, LoseLease,
       AbortLost, EndRun, Conclude, Settle, TurnWakes
  <2>2. CASE SweepStep \/ OwnerStep
    BY <1>4, <2>2 DEF SweepStep, SweepLooks, SweepActs, WakeDue, TimerWakes, OwnerStep, CancelLooks,
       CancelActs, CancelSubtaskLooks, CancelSubtaskActs, Answer, RetryTask, RetrySubtask, FollowUp,
       AddSubtask, Resume, Verify
  <2>3. CASE TimeStep
    BY <1>4, <2>3 DEF TimeStep, LeaseLapses, ConversationStale, Crash, Shutdown
  <2> QED
    BY <1>4, <2>1, <2>2, <2>3 DEF Next
<1>5. \A n \in Nodes : ConversationStale(n) =>
         lease[n] # NoTurn /\ ~Live(lease[n]) /\ lease' = lease /\ UNCHANGED turn
  BY NoStallBefore DEF ConversationStale
<1>6. stale' \subseteq Nodes
  BY <1>1, <1>4
<1> QED
  BY <1>2, <1>3, <1>4, <1>5, <1>6 DEF StaleIsDead

(* No live turn's node becomes late, or is what the sweep has locked.      *)
LEMMA LateStaysLost ==
    ASSUME TypeOK, TurnsAreBehind, SweepLocks, LateIsLost, RowMoves, Next, spent'.stalls = 0,
           TurnMoves \/ \E t \in Turns, n \in Nodes : Claim(t, n)
    PROVE  LateIsLost'
<1>1. TurnsTyped /\ late \in SUBSET Nodes /\ sweep.node \in Nodes
  BY DEF TypeOK, TurnsTyped
<1>2. ASSUME NEW t \in Turns, NEW n \in Nodes, Claim(t, n) PROVE LateIsLost'
  <2>1. late' = late \ {n} /\ sweep' = sweep /\ Free(n)
    BY <1>2 DEF Claim
  <2>2. turn'[t].node = n /\ \A u \in Turns \ {t} : turn'[u] = turn[u]
    BY <1>1, <1>2, ClaimSteps
  <2>3. ASSUME NEW m \in Nodes, m # n, Lost(m) PROVE Lost(m)'
    BY <2>2, <2>3, LostStays DEF Live
  <2>4. sweep.active => sweep.node # n
    BY <2>1 DEF Free
  <2> QED
    BY <1>1, <2>1, <2>3, <2>4 DEF LateIsLost
<1>3. CASE TurnMoves
  <2>1. \A n \in Nodes : Lost(n) => Lost(n)'
    BY <1>3, LostStays DEF TurnMoves
  <2>2. ASSUME NEW n \in Nodes, LeaseLapses(n) PROVE LateIsLost'
    <3>1. Lost(n) /\ late' = late \union {n} /\ sweep' = sweep
      BY <2>2, NoStallBefore DEF LeaseLapses
    <3> QED
      BY <1>1, <2>1, <3>1 DEF LateIsLost
  <2>3. ASSUME NEW n \in Nodes, SweepLooks(n) PROVE LateIsLost'
    <3>1. n \in late /\ late' = late /\ sweep'.node = n
      BY <2>3 DEF SweepLooks, Orphaned
    <3> QED
      BY <1>1, <2>1, <3>1 DEF LateIsLost
  <2>4. ASSUME late' \subseteq late, sweep' \in {sweep, NoSweep} PROVE LateIsLost'
    BY <1>1, <2>1, <2>4 DEF LateIsLost, NoSweep
  <2>5. ASSUME NEW t \in Turns, TurnStep(t) PROVE late' \subseteq late /\ sweep' = sweep
    BY <2>5 DEF TurnStep, ToolStep, StopStep, AfterTurn, Claim, TakeConversation, ConversationBusy,
       Renew, CallTool, ToolReturns, ToolOutOfQuota, WriteUnknown, AskUser, Post, PostWakes,
       FinishTask, WaitForTeam, CreateSubtasks, RetryByTeam, EndTurn, StopWhenPaused, LoseLease,
       AbortLost, EndRun, Conclude, Settle, TurnWakes
  <2>6. CASE SweepStep
    BY <2>3, <2>4, <2>6 DEF SweepStep, SweepActs, WakeDue, TimerWakes
  <2>7. CASE OwnerStep
    BY <2>4, <2>7 DEF OwnerStep, CancelLooks, CancelActs, CancelSubtaskLooks, CancelSubtaskActs,
       Answer, RetryTask, RetrySubtask, FollowUp, AddSubtask, Resume, Verify
  <2>8. CASE TimeStep
    BY <2>2, <2>4, <2>8 DEF TimeStep, ConversationStale, Crash, Shutdown
  <2> QED
    BY <2>4, <2>5, <2>6, <2>7, <2>8 DEF Next
<1> QED
  BY <1>2, <1>3

(* While no lease lapses under a live worker, only cancelling, the turn    *)
(* itself, and the sweep of a dead worker's node move a running node.      *)
LEMMA BusyStaysHolding ==
    ASSUME TypeOK, SweepLocks, TurnsAreBehind, TurnsAreDistinct, CancelFits, LateIsLost, BusyHolds,
           RowMoves, Next, TurnMoves \/ \E t \in Turns, n \in Nodes : Claim(t, n)
    PROVE  BusyHolds'
<1>1. TurnsTyped /\ sweep.node \in Nodes /\ \A t \in Turns : turn[t].node \in Nodes
  BY DEF TypeOK, TurnsTyped, TurnRecords
<1>2. ASSUME NEW t \in Turns, Busy(t)', Live(t),
             turn'[t].node = turn[t].node, turn'[t].version = turn[t].version
      PROVE  Held(t)' \/ row'[turn'[t].node].status = "cancelled"
  <2> DEFINE n == turn[t].node
  <2>1. PcMove(t) /\ n \in Nodes
    BY <1>1, PcMoves
  <2>2. Busy(t)
    BY <1>2, <2>1 DEF PcMove, Busy, Live, AtWork, Claim, TakeConversation, EndRun, Settle
  <2>3. CASE row[n].status = "cancelled"
    <3>1. RowMove(row[n], row'[n], n = Root)
      BY <2>1 DEF RowMoves
    <3>2. \A to : ~CanGo("cancelled", to)
      BY DEF CanGo, Transitions
    <3> QED
      BY <1>2, <2>3, <3>1, <3>2 DEF RowMove
  <2>4. CASE Held(t) /\ row'[n].status = "running"
    BY <1>2, <2>4, HeldBefore
  <2>5. CASE Held(t) /\ row'[n].status # "running"
    <3>1. row[n].status = "running"
      BY <2>5 DEF Held
    <3>2. ASSUME NEW u \in Turns, turn[u].node = n, Held(u), ConversationBusy(u) \/ Settle(u)
          PROVE  FALSE
      <4>1. Live(u)
        BY <3>2 DEF ConversationBusy, Settle, Live
      <4>2. u = t
        BY <1>2, <2>5, <3>2, <4>1 DEF TurnsAreDistinct, Held
      <4>3. turn'[u].pc \in {"over", "waking"}
        BY <1>1, <3>2 DEF ConversationBusy, Leave, Settle, TurnsTyped, TurnRecords
      <4> QED
        BY <1>2, <4>2, <4>3 DEF Busy, Live
    <3>3. ~(SweepActs /\ n = sweep.node)
      BY <1>2, <2>5 DEF LateIsLost, Lost, SweepActs
    <3> QED
      BY <1>2, <2>1, <2>5, <3>1, <3>2, <3>3, LeavesRunning
  <2> QED
    BY <2>2, <2>3, <2>4, <2>5 DEF BusyHolds
<1>3. CASE TurnMoves
  BY <1>2, <1>3 DEF BusyHolds, TurnMoves, Busy
<1>4. ASSUME NEW t \in Turns, NEW n \in Nodes, Claim(t, n) PROVE BusyHolds'
  <2>1. /\ \A u \in Turns \ {t} : turn'[u] = turn[u]
        /\ turn'[t].node = n /\ turn'[t].version = row'[n].version
    BY <1>4, ClaimSteps
  <2>2. row'[n].status = "running"
    BY <1>4, ClaimStatuses DEF MovesOnly, TypeOK, RowsTyped
  <2>3. Held(t)'
    BY <2>1, <2>2 DEF Held
  <2>4. ASSUME NEW u \in Turns \ {t}, Busy(u)' PROVE Held(u)' \/ row'[turn'[u].node].status = "cancelled"
    BY <1>2, <2>1, <2>4 DEF Busy, Live
  <2> QED
    BY <2>3, <2>4 DEF BusyHolds
<1> QED
  BY <1>3, <1>4

(* Who holds the node and works on it goes on holding the conversation.    *)
LEMMA HoldersKeepTheLease ==
    ASSUME TypeOK, TurnsAreBehind, LeaseFits, StaleIsDead, LateIsLost, HeldTurnHoldsLease,
           RowMoves, Next, TurnMoves \/ \E t \in Turns, n \in Nodes : Claim(t, n)
    PROVE  HeldTurnHoldsLease'
<1>1. /\ TurnsTyped /\ sweep.node \in Nodes /\ lease \in [Nodes -> Turns \union {NoTurn}]
      /\ \A t \in Turns : turn[t].node \in Nodes
  BY DEF TypeOK, TurnsTyped, TurnRecords
<1>a. \A t \in Turns : t # NoTurn
  BY DEF Turns, NoTurn
<1>2. ASSUME NEW t \in Turns, turn'[t].pc \in AtWork, Held(t)' PROVE lease'[turn'[t].node] = t
  <2> DEFINE n == turn[t].node
  <2>1. PcMove(t) /\ n \in Nodes
    BY <1>1, PcMoves
  <2>2. ASSUME NEW m \in Nodes, Claim(t, m) PROVE FALSE
    <3>1. turn'[t].pc = "claimed"
      <4>1. turn' = [turn EXCEPT ![t] = [turn[t] EXCEPT !.pc = "claimed", !.node = m,
                                                        !.version = row[m].version + 1]]
        BY <1>1, <2>2 DEF Claim, TurnsTyped, TurnRecords
      <4> QED
        BY <1>1, <4>1 DEF TurnsTyped, TurnRecords
    <3> QED
      BY <1>2, <3>1 DEF AtWork
  <2>3. Live(t)' /\ turn[t].pc # "unused"
    BY <1>2, <2>1, <2>2 DEF PcMove, AtWork, Live, TakeConversation, EndRun, Settle
  <2>4. Live(t) /\ turn'[t].node = n /\ turn'[t].version = turn[t].version
    <3>1. ASSUME NEW u \in Turns \ {t}, NEW m \in Nodes, Claim(u, m) PROVE turn'[t] = turn[t]
      BY <1>1, <3>1 DEF Claim, TurnsTyped
    <3> QED
      BY <2>2, <2>3, <3>1 DEF TurnMoves, Live
  <2>5. CASE TakeConversation(t)
    BY <1>1, <2>4, <2>5 DEF TakeConversation
  <2>6. CASE ~TakeConversation(t)
    <3>1. turn[t].pc \in AtWork
      BY <1>2, <2>1, <2>2, <2>6 DEF PcMove, AtWork, EndRun, Settle
    <3>2. Held(t)
      BY <1>2, <2>4, HeldBefore
    <3>3. lease[n] = t /\ n \notin stale
      BY <2>1, <2>4, <3>1, <3>2 DEF HeldTurnHoldsLease, HoldsLease, StaleIsDead, AtWork
    <3>4. ASSUME NEW u \in Turns, TakeConversation(u) PROVE turn[u].node # n
      BY <1>1, <1>a, <3>3, <3>4 DEF TakeConversation
    <3>5. ASSUME NEW u \in Turns, EndRun(u), HoldsLease(u) PROVE turn[u].node # n
      <4>1. SUFFICES ASSUME turn[u].node = n PROVE FALSE
        OBVIOUS
      <4>2. u = t
        BY <3>3, <3>5, <4>1 DEF HoldsLease
      <4>3. turn'[t].pc = "ended"
        BY <1>1, <3>5, <4>2 DEF EndRun, TurnsTyped, TurnRecords
      <4> QED
        BY <1>2, <4>3 DEF AtWork
    <3>6. SweepActs => sweep.node # n
      BY <2>4, <3>2 DEF LateIsLost, Lost, SweepActs
    <3>7. lease'[n] = lease[n]
      BY <1>1, <2>1, <3>4, <3>5, <3>6, LeaseMoves DEF Freed
    <3> QED
      BY <2>4, <3>3, <3>7
  <2> QED
    BY <2>5, <2>6
<1> QED
  BY <1>2 DEF HeldTurnHoldsLease, HoldsLease, AtWork

(* The leases agree, inductively.                                          *)
LEMMA NextLease == LeaseInv /\ [Next]_vars => LeaseInv'
<1> SUFFICES ASSUME LeaseInv, [Next]_vars PROVE LeaseInv'
  OBVIOUS
<1>1. TreeInv'
  BY NextTree DEF LeaseInv
<1>2. CASE UNCHANGED vars
  <2>1. CancelFits' /\ LeaseFits'
    BY <1>2 DEF vars, LeaseInv, CancelFits, LeaseFits
  <2>2. spent'.stalls = 0 => LeasesAgree'
    BY <1>2 DEF vars, LeaseInv, LeasesAgree, StaleIsDead, LateIsLost, Lost, BusyHolds, Busy, Live, Held,
       HeldTurnHoldsLease, HoldsLease
  <2> QED
    BY <1>1, <2>1, <2>2 DEF LeaseInv
<1>3. CASE Next
  <2>1. CancelFits' /\ LeaseFits'
    BY <1>3, CancelKeepsFit, LeaseKeepsFit DEF LeaseInv, TreeInv
  <2>2. RowMoves /\ (TurnMoves \/ \E t \in Turns, n \in Nodes : Claim(t, n))
    BY <1>3, NextKeeps DEF LeaseInv, TreeInv, Keeps
  <2>3. ASSUME spent'.stalls = 0 PROVE LeasesAgree'
    <3>1. LeasesAgree
      BY <1>3, <2>3, NoStallBefore DEF LeaseInv, TreeInv
    <3> QED
      BY <1>3, <2>2, <2>3, <3>1, StaleStaysDead, LateStaysLost, BusyStaysHolding, HoldersKeepTheLease
         DEF LeaseInv, TreeInv, LeasesAgree
  <2> QED
    BY <1>1, <2>1, <2>3 DEF LeaseInv
<1> QED
  BY <1>2, <1>3

(* At first there is no turn, and no lease.                                *)
LEMMA InitLease == Init => LeaseInv
<1> SUFFICES ASSUME Init PROVE LeaseInv
  OBVIOUS
<1>1. \A t \in Turns : ~Live(t) /\ turn[t].pc = "unused"
  BY DEF Init, Live
<1>2. LeaseFits /\ CancelFits
  BY DEF Init, LeaseFits, CancelFits, NoCancel
<1>3. LeasesAgree
  BY <1>1 DEF Init, LeasesAgree, StaleIsDead, LateIsLost, Lost, BusyHolds, Busy, HeldTurnHoldsLease,
     NoSweep
<1> QED
  BY <1>2, <1>3, InitTree DEF LeaseInv

(* The two leases, of the node and of its conversation, agree in every     *)
(* state.                                                                  *)
THEOREM LeaseInvariance == Spec => []LeaseInv
  BY InitLease, NextLease, PTL DEF Spec

(* As long as no worker stalled past a lease while alive, a turn that is   *)
(* entitled to settle its node also holds the lease of the node's          *)
(* conversation until it is done writing there: nobody else appends to     *)
(* the conversation of a node this turn will settle, whatever crashed      *)
(* before.                                                                 *)
THEOREM HeldTurnsHoldTheirLease == Spec => [](spent.stalls = 0 => HeldTurnHoldsLease)
<1>1. LeaseInv => (spent.stalls = 0 => HeldTurnHoldsLease)
  BY DEF LeaseInv, LeasesAgree
<1> QED
  BY <1>1, LeaseInvariance, PTL
-----------------------------------------------------------------------------
(* Unconfirmed writes. A turn that holds its node alone may have an open   *)
(* step there, and only as far as its place in the turn allows (StepFits); *)
(* when it settles, an unconfirmed step stops the node (NodeSteps), and so *)
(* does one the sweep read (SweptSteps).                                   *)
StepFits(t) ==
    /\ turn[t].step # "none" =>
         \/ turn[t].pc \in {"calling", "posted"} /\ turn[t].tool \in WriteTools
         \/ /\ turn[t].pc \in {"closing", "ended"} /\ turn[t].step = "unknown_outcome"
            /\ turn[t].result.status = "unknown_outcome"
         \/ /\ turn[t].pc = "settling" /\ turn[t].step = "unknown_outcome"
            /\ turn[t].decision.reason = "unknown_outcome"
    /\ turn[t].pc = "posted" => turn[t].tool = "post"

NoneOpen(n) == \A t \in TurnsOf(n) : turn[t].step = "none"
NoneRunning(n) == \A t \in TurnsOf(n) : turn[t].step # "running"

(* retrySubtask opens a failed task again without asking for the root's    *)
(* unconfirmed writes; what follows holds of the root without it.          *)
CheckedNodes == IF "retry_subtask" \in OwnerOps THEN Children ELSE Nodes

HeldSteps ==
    \A t \in Turns : Live(t) /\ Held(t) /\ turn[t].node \in CheckedNodes =>
        /\ StepFits(t)
        /\ \A u \in TurnsOf(turn[t].node) \ {t} : turn[u].step = "none"
NodeSteps ==
    \A n \in CheckedNodes :
        /\ row[n].status \in {"absent", "queued", "waiting_team", "waiting_children", "succeeded"}
             => NoneOpen(n)
        /\ row[n].status \in {"waiting_user", "failed", "skipped"} => NoneRunning(n)
SweptSteps ==
    sweep.active /\ ~sweep.unverified /\ sweep.node \in CheckedNodes => NoneOpen(sweep.node)
UnusedSteps == \A t \in Turns : turn[t].pc = "unused" => turn[t].step = "none"

StepInv ==
    LeaseInv /\ UnusedSteps /\ (spent.stalls = 0 => HeldSteps /\ NodeSteps /\ SweptSteps)

(* What claiming does to the turns.                                        *)
LEMMA ClaimNode ==
    ASSUME TurnsTyped, NEW t \in Turns, NEW n \in Nodes, Claim(t, n)
    PROVE  /\ turn'[t].node = n /\ turn'[t].pc = "claimed" /\ turn'[t].step = turn[t].step
           /\ turn[t].pc = "unused" /\ \A u \in Turns \ {t} : turn'[u] = turn[u]
<1>1. turn' = [turn EXCEPT ![t] = [turn[t] EXCEPT !.pc = "claimed", !.node = n,
                                                  !.version = row[n].version + 1]]
      /\ turn[t].pc = "unused"
  BY DEF Claim, TurnsTyped, TurnRecords
<1> QED
  BY <1>1 DEF TurnsTyped, TurnRecords

(* How a step in the journal moves: its own turn opens, confirms or loses  *)
(* it; a later run and the sweep close it; the owner confirms it.          *)
StepMove(u) ==
    \/ turn'[u].step = turn[u].step
    \/ \E tool \in WriteTools : CallTool(u, tool) /\ turn'[u].step = "running"
    \/ Live(u) /\ turn[u].pc # "waking" /\ turn'[u].step \in {"none", "unknown_outcome"}
    \/ turn[u].step = "running" /\ turn'[u].step = "unknown_outcome"
    \/ turn'[u].step = "none"

(* The whole step: how each turn's last unconfirmed step may change.       *)
LEMMA StepMoves ==
    ASSUME TurnsTyped, sweep.node \in Nodes, Next
    PROVE  \A u \in Turns : StepMove(u)
<1>1. \A u \in Turns : turn[u] \in TurnRecords
  BY DEF TurnsTyped
<1>2. ASSUME NEW n \in Nodes
      PROVE  \A u \in Turns : \/ CloseSteps(n)[u].step = turn[u].step
                              \/ turn[u].step = "running" /\ CloseSteps(n)[u].step = "unknown_outcome"
  BY <1>1 DEF CloseSteps, TurnRecords
<1>3. ASSUME NEW t \in Turns, TurnStep(t) \/ Crash(t) \/ Shutdown(t)
      PROVE  \A u \in Turns : StepMove(u)
  <2>1. CASE TakeConversation(t)
    <3>1. turn' = [CloseSteps(turn[t].node) EXCEPT ![t].pc = "working"] /\ turn[t].node \in Nodes
      BY <1>1, <2>1 DEF TakeConversation, TurnRecords
    <3>2. CloseSteps(turn[t].node) \in [Turns -> TurnRecords]
      BY <3>1, CloseStepsTyped
    <3>3. \A u \in Turns : turn'[u].step = CloseSteps(turn[t].node)[u].step
      BY <3>1, <3>2 DEF TurnRecords
    <3> QED
      BY <1>2, <3>1, <3>3 DEF StepMove
  <2>2. CASE \/ \E n \in Nodes : Claim(t, n)
             \/ Renew(t) \/ Post(t) \/ Settle(t)
             \/ \E stuck, stopping \in BOOLEAN : Conclude(t, stuck, stopping)
    <3> DEFINE Same == \A u \in Turns : turn'[u].step = turn[u].step
    <3>1. CASE \E n \in Nodes : Claim(t, n)
      BY <3>1, ClaimNode DEF StepMove
    <3>2. CASE Renew(t) \/ Post(t)
      <4>1. Same
        BY <1>1, <3>2 DEF Renew, Post, TurnsTyped, TurnRecords
      <4> QED
        BY <4>1 DEF StepMove
    <3>3. CASE Settle(t)
      <4>1. Same
        BY <1>1, <3>3 DEF Settle, TurnsTyped, TurnRecords
      <4> QED
        BY <4>1 DEF StepMove
    <3>4. CASE \E stuck, stopping \in BOOLEAN : Conclude(t, stuck, stopping)
      <4>1. PICK decision : turn' = [turn EXCEPT ![t].pc = "settling", ![t].decision = decision,
                                                 ![t].result = NoResult]
        BY <3>4 DEF Conclude
      <4>2. Same
        BY <1>1, <4>1 DEF TurnsTyped, TurnRecords
      <4> QED
        BY <4>2 DEF StepMove
    <3> QED
      BY <2>2, <3>1, <3>2, <3>3, <3>4
  <2>3. CASE ConversationBusy(t) \/ TurnWakes(t) \/ Crash(t)
    BY <2>3, LeavingMoves DEF ConversationBusy, TurnWakes, Crash, StepMove
  <2>4. ASSUME NEW tool \in ToolNames, CallTool(t, tool) PROVE \A u \in Turns : StepMove(u)
    <3>1. /\ \A u \in Turns \ {t} : turn'[u] = turn[u]
          /\ turn'[t].step = IF tool \in WriteTools THEN "running" ELSE turn[t].step
      BY <1>1, <2>4 DEF CallTool, TurnsTyped, TurnRecords
    <3> QED
      BY <2>4, <3>1 DEF StepMove
  <2>5. CASE ToolReturns(t) \/ PostWakes(t) \/ \E c \in Children : RetryByTeam(t, c)
    BY <2>5, BackingMoves DEF ToolReturns, PostWakes, RetryByTeam, StepMove
  <2>6. CASE ToolOutOfQuota(t) \/ WriteUnknown(t) \/ EndRun(t)
    <3>1. \A u \in Turns \ {t} : turn'[u] = turn[u]
      BY <2>6 DEF ToolOutOfQuota, WriteUnknown, EndRun, TurnsTyped
    <3>2. turn'[t].step \in {"none", "unknown_outcome"} \/ turn'[t].step = turn[t].step
      BY <1>1, <2>6 DEF ToolOutOfQuota, WriteUnknown, EndRun, TurnsTyped, TurnRecords
    <3>3. Live(t) /\ turn[t].pc # "waking"
      BY <2>6 DEF ToolOutOfQuota, WriteUnknown, EndRun, Live
    <3> QED
      BY <3>1, <3>2, <3>3 DEF StepMove
  <2>7. CASE \/ AskUser(t) \/ StopWhenPaused(t) \/ LoseLease(t)
             \/ \E ending \in Endings : EndTurn(t, ending)
             \/ \E outcome \in {"done", "blocked"} : FinishTask(t, outcome)
             \/ \E until \in Untils, targets \in SUBSET Children, deadline \in Deadlines :
                  WaitForTeam(t, until, targets, deadline)
    <3>1. \E result : Close(t, result)
      BY <2>7 DEF AskUser, StopWhenPaused, LoseLease, EndTurn, FinishTask, WaitForTeam
    <3> QED
      BY <3>1, ClosingMoves DEF StepMove
  <2>8. CASE AbortLost(t) \/ Shutdown(t)
    <3>1. Live(t) /\ turn[t].pc # "waking" /\ Aborted(t)
      BY <2>8 DEF AbortLost, Shutdown, Live
    <3> QED
      BY <3>1, AbortingMoves DEF StepMove
  <2>9. ASSUME NEW new \in SUBSET Children, CreateSubtasks(t, new) PROVE \A u \in Turns : StepMove(u)
    <3>1. CASE turn[t].node = Root
      <4>1. turn'[t].step = "none" /\ \A u \in Turns \ {t} : turn'[u] = turn[u]
        BY <1>1, <2>9, <3>1 DEF CreateSubtasks, TurnsTyped, TurnRecords
      <4> QED
        BY <4>1 DEF StepMove
    <3>2. CASE turn[t].node # Root
      BY <2>9, <3>2, BackingMoves DEF CreateSubtasks, StepMove
    <3> QED
      BY <3>1, <3>2
  <2> QED
    BY <1>3, <2>1, <2>2, <2>3, <2>4, <2>5, <2>6, <2>7, <2>8, <2>9 DEF TurnStep, ToolStep, StopStep, AfterTurn
<1>4. CASE UNCHANGED turn
  BY <1>4 DEF StepMove
<1>5. CASE SweepActs
  BY <1>2, <1>5 DEF SweepActs, StepMove
<1>6. ASSUME NEW t \in Turns, Verify(t) PROVE \A u \in Turns : StepMove(u)
  BY <1>1, <1>6 DEF Verify, StepMove, TurnsTyped, TurnRecords
<1>7. CASE SweepStep
  BY <1>4, <1>5, <1>7 DEF SweepStep, SweepLooks, WakeDue, TimerWakes
<1>8. CASE \E n \in Nodes : LeaseLapses(n) \/ ConversationStale(n)
  BY <1>4, <1>8 DEF LeaseLapses, ConversationStale
<1>9. CASE OwnerStep
  BY <1>4, <1>6, <1>9 DEF OwnerStep, CancelLooks, CancelActs, CancelSubtaskLooks, CancelSubtaskActs,
     Answer, RetryTask, RetrySubtask, FollowUp, AddSubtask, Resume
<1> QED
  BY <1>3, <1>7, <1>8, <1>9 DEF Next, TimeStep

(* A turn that has not begun has no step.                                  *)
LEMMA UnusedStay ==
    ASSUME TypeOK, UnusedSteps, Next
    PROVE  UnusedSteps'
<1>1. \A u \in Turns : PcMove(u) /\ StepMove(u)
  BY PcMoves, StepMoves DEF TypeOK, TurnsTyped
<1>2. ASSUME NEW u \in Turns, turn'[u].pc = "unused" PROVE turn'[u].step = "none"
  <2>1. turn[u].pc = "unused"
    <3>1. ASSUME NEW n \in Nodes, Claim(u, n) PROVE FALSE
      BY <1>2, <3>1, ClaimNode DEF TypeOK, TurnsTyped
    <3> QED
      BY <1>1, <1>2, <3>1 DEF PcMove, AtWork
  <2>2. turn[u].step = "none"
    BY <2>1 DEF UnusedSteps
  <2> QED
    BY <1>1, <2>1, <2>2 DEF StepMove, CallTool, Live
<1> QED
  BY <1>2 DEF UnusedSteps

(* Who is not busy opens no step.                                          *)
LEMMA BystanderSteps ==
    ASSUME TurnsTyped, sweep.node \in Nodes, Next, NEW u \in Turns, ~Busy(u)
    PROVE  /\ turn[u].step = "none" => turn'[u].step = "none"
           /\ turn[u].step # "running" => turn'[u].step # "running"
<1>1. StepMove(u)
  BY StepMoves
<1>2. \A tool : ~CallTool(u, tool)
  BY DEF CallTool, Busy, Live
<1> QED
  BY <1>1, <1>2 DEF StepMove, Busy

(* A node that neither runs nor is cancelled has no busy turn; so nothing  *)
(* is opened behind it.                                                    *)
LEMMA QuietNodes ==
    ASSUME TypeOK, BusyHolds, Next, NEW n \in Nodes, row[n].status \notin {"running", "cancelled"},
           \A t \in Turns : ~Claim(t, n)
    PROVE  /\ NoneOpen(n) => NoneOpen(n)'
           /\ NoneRunning(n) => NoneRunning(n)'
<1>1. TurnsTyped /\ sweep.node \in Nodes
  BY DEF TypeOK, TurnsTyped
<1>2. ASSUME NEW u \in Turns, turn'[u].pc # "unused", turn'[u].node = n
      PROVE  u \in TurnsOf(n) /\ ~Busy(u)
  <2>1. PcMove(u)
    BY <1>1, PcMoves
  <2>2. turn[u].pc # "unused"
    <3>1. ASSUME NEW m \in Nodes, Claim(u, m) PROVE FALSE
      <4>1. m = n
        BY <1>2, <3>1, <1>1, ClaimNode
      <4> QED
        BY <3>1, <4>1
    <3> QED
      BY <1>2, <2>1, <3>1 DEF PcMove, AtWork, TakeConversation, EndRun, Settle, Live
  <2>3. turn[u].node = n
    BY <1>2, <2>1, <2>2 DEF PcMove
  <2> QED
    BY <2>2, <2>3 DEF TurnsOf, BusyHolds, Held
<1> QED
  BY <1>1, <1>2, BystanderSteps DEF NoneOpen, NoneRunning, TurnsOf

(* A step of a turn leaves the others as they are; but for the run that    *)
(* takes a conversation, which closes the steps left open in it.           *)
LEMMA OthersSame ==
    ASSUME TurnsTyped, NEW t \in Turns, TurnStep(t) \/ Crash(t) \/ Shutdown(t), NEW u \in Turns \ {t},
           TakeConversation(t) => turn[u].node # turn[t].node
    PROVE  turn'[u] = turn[u]
<1>1. turn[t] \in TurnRecords /\ turn[u] \in TurnRecords
  BY DEF TurnsTyped
<1>2. CASE TakeConversation(t)
  <2>1. turn' = [CloseSteps(turn[t].node) EXCEPT ![t].pc = "working"] /\ turn[t].node \in Nodes
    BY <1>1, <1>2 DEF TakeConversation, TurnRecords
  <2>2. CloseSteps(turn[t].node)[u] = turn[u] /\ DOMAIN CloseSteps(turn[t].node) = Turns
    BY <1>2 DEF CloseSteps, TurnsOf
  <2> QED
    BY <2>1, <2>2
<1>3. CASE \E n \in Nodes : Claim(t, n)
  BY <1>3, ClaimNode
<1>4. CASE ConversationBusy(t) \/ TurnWakes(t) \/ Crash(t)
  BY <1>4, LeavingMoves DEF ConversationBusy, TurnWakes, Crash
<1>5. CASE ToolReturns(t) \/ PostWakes(t) \/ \E c \in Children : RetryByTeam(t, c)
  BY <1>5, BackingMoves DEF ToolReturns, PostWakes, RetryByTeam
<1>6. CASE \/ AskUser(t) \/ StopWhenPaused(t) \/ LoseLease(t)
           \/ \E ending \in Endings : EndTurn(t, ending)
           \/ \E outcome \in {"done", "blocked"} : FinishTask(t, outcome)
           \/ \E until \in Untils, targets \in SUBSET Children, deadline \in Deadlines :
                WaitForTeam(t, until, targets, deadline)
  <2>1. \E result : Close(t, result)
    BY <1>6 DEF AskUser, StopWhenPaused, LoseLease, EndTurn, FinishTask, WaitForTeam
  <2> QED
    BY <2>1, ClosingMoves
<1>7. CASE AbortLost(t) \/ Shutdown(t)
  BY <1>7, AbortingMoves DEF AbortLost, Shutdown
<1>8. CASE \E new \in SUBSET Children : CreateSubtasks(t, new)
  BY <1>8, BackingMoves DEF CreateSubtasks, TurnsTyped
<1>9. CASE \/ \E tool \in ToolNames : CallTool(t, tool)
           \/ Renew(t) \/ Post(t) \/ ToolOutOfQuota(t) \/ WriteUnknown(t) \/ EndRun(t) \/ Settle(t)
  BY <1>9 DEF CallTool, Renew, Post, ToolOutOfQuota, WriteUnknown, EndRun, Settle, TurnsTyped
<1>10. CASE \E stuck, stopping \in BOOLEAN : Conclude(t, stuck, stopping)
  <2>1. PICK decision : turn' = [turn EXCEPT ![t].pc = "settling", ![t].decision = decision,
                                             ![t].result = NoResult]
    BY <1>10 DEF Conclude
  <2> QED
    BY <2>1 DEF TurnsTyped
<1> QED
  BY <1>2, <1>3, <1>4, <1>5, <1>6, <1>7, <1>8, <1>9, <1>10 DEF TurnStep, ToolStep, StopStep, AfterTurn

(* decideTurn stops a node whose write is unconfirmed, and names it.       *)
LEMMA UnknownIsNamed ==
    ASSUME NEW read \in TurnResults, read.status = "unknown_outcome"
    PROVE  DecideTurn(read).reason = "unknown_outcome"
BY DEF DecideTurn, RouteTurn, Decide

LEMMA OwnSteps ==
    ASSUME TypeOK, NEW t \in Turns, Live(t), StepFits(t),
           TurnStep(t) \/ Crash(t) \/ Shutdown(t), Live(t)', turn'[t].pc # "waking"
    PROVE  StepFits(t)'
<1>1. turn[t] \in TurnRecords /\ TurnsTyped
  BY DEF TypeOK, TurnsTyped
<1>2. ~\E n \in Nodes : Claim(t, n)
  BY DEF Claim, Live
<1>3. CASE TakeConversation(t)
  <2>1. turn[t].step = "none"
    BY <1>3 DEF StepFits, TakeConversation
  <2>2. turn' = [CloseSteps(turn[t].node) EXCEPT ![t].pc = "working"] /\ turn[t].node \in Nodes
    BY <1>1, <1>3 DEF TakeConversation, TurnRecords
  <2>3. CloseSteps(turn[t].node)[t] = turn[t] /\ CloseSteps(turn[t].node) \in [Turns -> TurnRecords]
    BY <1>1, <2>1, <2>2, CloseStepsTyped DEF CloseSteps
  <2>4. turn'[t] = [turn[t] EXCEPT !.pc = "working"]
    BY <2>2, <2>3
  <2> QED
    BY <1>1, <2>1, <2>4 DEF StepFits, TurnRecords
<1>4. CASE ConversationBusy(t) \/ TurnWakes(t) \/ Crash(t)
  BY <1>1, <1>4, LeavingMoves DEF ConversationBusy, TurnWakes, Crash, Live
<1>5. CASE Renew(t)
  BY <1>5 DEF Renew, StepFits
<1>6. ASSUME NEW tool \in ToolNames, CallTool(t, tool) PROVE StepFits(t)'
  <2>1. turn[t].step = "none"
    BY <1>6 DEF CallTool, StepFits
  <2>2. turn' = [turn EXCEPT ![t] = [turn[t] EXCEPT !.pc = "calling", !.tool = tool,
                            !.step = IF tool \in WriteTools THEN "running" ELSE turn[t].step]]
    BY <1>1, <1>6 DEF CallTool, TurnsTyped, TurnRecords
  <2>3. turn'[t] = [turn[t] EXCEPT !.pc = "calling", !.tool = tool,
                            !.step = IF tool \in WriteTools THEN "running" ELSE turn[t].step]
    BY <1>1, <2>2 DEF TurnsTyped
  <2> QED
    BY <1>1, <2>1, <2>3 DEF StepFits, TurnRecords
<1>7. CASE ToolReturns(t) \/ PostWakes(t) \/ \E c \in Children : RetryByTeam(t, c)
  BY <1>1, <1>7, BackingMoves DEF ToolReturns, PostWakes, RetryByTeam, StepFits
<1>8. CASE ToolOutOfQuota(t)
  <2>1. turn'[t].step = "none" /\ turn'[t].pc = "working"
    BY <1>1, <1>8 DEF ToolOutOfQuota, TurnsTyped, TurnRecords
  <2> QED
    BY <2>1 DEF StepFits
<1>9. CASE WriteUnknown(t)
  <2>1. Ended("unknown_outcome").status = "unknown_outcome"
    BY DEF Ended, NoResult
  <2>2. /\ turn'[t].step = "unknown_outcome" /\ turn'[t].pc = "closing"
        /\ turn'[t].result.status = "unknown_outcome"
    BY <1>1, <1>9, <2>1 DEF WriteUnknown, TurnsTyped, TurnRecords
  <2> QED
    BY <2>2 DEF StepFits
<1>10. CASE \/ AskUser(t) \/ StopWhenPaused(t) \/ LoseLease(t)
            \/ \E ending \in Endings : EndTurn(t, ending)
            \/ \E outcome \in {"done", "blocked"} : FinishTask(t, outcome)
            \/ \E until \in Untils, targets \in SUBSET Children, deadline \in Deadlines :
                 WaitForTeam(t, until, targets, deadline)
  <2>1. turn[t].pc = "working" \/ (turn[t].pc = "calling" /\ turn[t].tool \notin WriteTools)
    BY <1>10 DEF AskUser, StopWhenPaused, LoseLease, EndTurn, FinishTask, WaitForTeam, Calling, WriteTools
  <2>2. \E result : Close(t, result)
    BY <1>10 DEF AskUser, StopWhenPaused, LoseLease, EndTurn, FinishTask, WaitForTeam
  <2> QED
    BY <1>1, <2>1, <2>2, ClosingMoves DEF StepFits
<1>11. CASE AbortLost(t) \/ Shutdown(t)
  <2>1. turn[t].pc \in {"working", "calling", "posted"} /\ Aborted(t)
    BY <1>11 DEF AbortLost, Shutdown
  <2>2. turn[t].tool \notin WriteTools => turn[t].step = "none"
    BY <2>1 DEF StepFits
  <2> QED
    BY <1>1, <2>1, <2>2, AbortingMoves DEF StepFits
<1>12. CASE Post(t)
  <2>1. turn' = [turn EXCEPT ![t].pc = "posted"] /\ turn[t].tool = "post"
    BY <1>12 DEF Post, Calling
  <2>2. turn'[t] = [turn[t] EXCEPT !.pc = "posted"]
    BY <1>1, <2>1 DEF TurnsTyped
  <2> QED
    BY <1>1, <2>1, <2>2 DEF StepFits, TurnRecords, WriteTools
<1>13. ASSUME NEW new \in SUBSET Children, CreateSubtasks(t, new) PROVE StepFits(t)'
  <2>1. CASE turn[t].node = Root
    <3>1. turn'[t].step = "none" /\ turn'[t].pc = "closing"
      BY <1>1, <1>13, <2>1 DEF CreateSubtasks, TurnsTyped, TurnRecords
    <3> QED
      BY <3>1 DEF StepFits
  <2>2. CASE turn[t].node # Root
    BY <1>1, <1>13, <2>2, BackingMoves DEF CreateSubtasks, StepFits
  <2> QED
    BY <2>1, <2>2
<1>14. CASE EndRun(t)
  <2>1. turn'[t] = [turn[t] EXCEPT !.pc = "ended",
                                   !.step = IF turn[t].step = "running" THEN "unknown_outcome"
                                            ELSE turn[t].step] /\ turn[t].pc = "closing"
    BY <1>1, <1>14 DEF EndRun, TurnsTyped, TurnRecords
  <2> QED
    BY <1>1, <2>1 DEF StepFits, TurnRecords
<1>15. ASSUME NEW stuck \in BOOLEAN, NEW stopping \in BOOLEAN, Conclude(t, stuck, stopping)
       PROVE  StepFits(t)'
  <2> DEFINE read == IF stuck THEN TurnRead(t, FALSE, "no_progress", stopping)
                     ELSE TurnRead(t, TRUE, "none", stopping)
             decision == DecideTurn(read)
  <2>1. turn' = [turn EXCEPT ![t].pc = "settling", ![t].decision = decision, ![t].result = NoResult]
        /\ turn[t].pc = "ended"
    BY <1>15 DEF Conclude
  <2>2. read \in TurnResults /\ read.status = turn[t].result.status
    <3>1. turn[t].result \in Results /\ row[turn[t].node].endIntent \in EndIntents
      BY <1>1 DEF TurnRecords, TypeOK, Rows
    <3> QED
      BY <3>1, TreeAssumption DEF TurnRead, TurnResults, Results, Previous
  <2>3. turn[t].result.status = "unknown_outcome" => decision.reason = "unknown_outcome"
    BY <2>2, UnknownIsNamed
  <2> HIDE DEF decision
  <2>4. turn'[t] = [turn[t] EXCEPT !.pc = "settling", !.decision = decision, !.result = NoResult]
    BY <1>1, <2>1 DEF TurnsTyped, TurnRecords
  <2>5. /\ turn'[t].pc = "settling" /\ turn'[t].step = turn[t].step
        /\ turn'[t].decision.reason = decision.reason
    BY <1>1, <2>4 DEF TurnRecords
  <2> QED
    BY <2>1, <2>3, <2>5 DEF StepFits
<1>16. CASE Settle(t)
  <2>1. turn'[t].pc = "waking"
    BY <1>1, <1>16 DEF Settle, TurnsTyped, TurnRecords
  <2> QED
    BY <2>1
<1> QED
  BY <1>2, <1>3, <1>4, <1>5, <1>6, <1>7, <1>8, <1>9, <1>10, <1>11, <1>12, <1>13, <1>14, <1>15,
     <1>16 DEF TurnStep, ToolStep, StopStep, AfterTurn

(* A turn that settles its node leaves no step open, unless the node then  *)
(* waits for somebody who asks first.                                      *)
LEMMA SettlingSteps ==
    ASSUME TurnsTyped, NEW t \in Turns, Settle(t), StepFits(t)
    PROVE  /\ turn'[t].step = turn[t].step /\ turn[t].step # "running"
           /\ SettleTo(turn[t].decision) \notin {"waiting_user", "failed"} => turn[t].step = "none"
<1>1. turn[t] \in TurnRecords /\ turn[t].pc = "settling" /\ turn'[t].step = turn[t].step
  BY DEF Settle, TurnsTyped, TurnRecords
<1>2. turn[t].step # "none" => turn[t].step = "unknown_outcome" /\ turn[t].decision.reason = "unknown_outcome"
  BY <1>1 DEF StepFits
<1>3. turn[t].decision.reason = "unknown_outcome" => SettleTo(turn[t].decision) \in {"waiting_user", "failed"}
  BY <1>1 DEF TurnRecords, Decisions, SettleTo
<1> QED
  BY <1>1, <1>2, <1>3

(* A turn that holds its node alone may have an open step there.           *)
LEMMA HolderSteps ==
    ASSUME TypeOK, SweepLocks, TurnsAreBehind, TurnsAreDistinct, LateIsLost, BusyHolds, UnusedSteps,
           HeldSteps, NodeSteps, RowMoves, Next, TurnMoves \/ \E t \in Turns, n \in Nodes : Claim(t, n)
    PROVE  HeldSteps'
<1>1. TurnsTyped /\ RowsTyped /\ sweep.node \in Nodes /\ \A t \in Turns : turn[t].node \in Nodes
  BY DEF TypeOK, TurnsTyped, RowsTyped, TurnRecords
<1> SUFFICES ASSUME NEW t \in Turns, Live(t)', Held(t)', turn'[t].node \in CheckedNodes
             PROVE  /\ StepFits(t)'
                    /\ \A u \in Turns \ {t} :
                          turn'[u].pc # "unused" /\ turn'[u].node = turn'[t].node => turn'[u].step = "none"
  BY DEF HeldSteps, TurnsOf
<1>2. ASSUME NEW n \in Nodes, Claim(t, n)
      PROVE  /\ StepFits(t)'
             /\ \A u \in Turns \ {t} :
                   turn'[u].pc # "unused" /\ turn'[u].node = turn'[t].node => turn'[u].step = "none"
  <2>1. /\ turn'[t].node = n /\ turn'[t].pc = "claimed" /\ turn'[t].step = turn[t].step
        /\ turn[t].pc = "unused" /\ \A u \in Turns \ {t} : turn'[u] = turn[u]
    BY <1>1, <1>2, ClaimNode
  <2>2. row[n].status = "queued"
    BY <1>2 DEF Claim
  <2>3. \A u \in TurnsOf(n) : turn[u].step = "none"
    BY <2>1, <2>2 DEF NodeSteps, NoneOpen
  <2>4. turn[t].step = "none"
    BY <2>1 DEF UnusedSteps
  <2> QED
    BY <2>1, <2>3, <2>4 DEF StepFits, TurnsOf
<1>3. CASE ~\E n \in Nodes : Claim(t, n)
  <2>a. Live(t) /\ turn'[t].node = turn[t].node /\ turn'[t].version = turn[t].version
    <3>1. ASSUME NEW u \in Turns, NEW n \in Nodes, Claim(u, n) PROVE turn'[t] = turn[t]
      BY <1>1, <1>3, <3>1, ClaimNode
    <3> QED
      BY <3>1 DEF TurnMoves, Live
  <2> DEFINE n == turn[t].node
  <2>1. Held(t) /\ row[n].status = "running" /\ row'[n].status = "running"
    BY <2>a, HeldBefore DEF Held
  <2>2. StepFits(t) /\ \A u \in TurnsOf(n) \ {t} : turn[u].step = "none"
    BY <2>a, <2>1 DEF HeldSteps
  <2>3. ASSUME NEW u \in Turns \ {t}, Busy(u), turn[u].node = n PROVE FALSE
    <3>1. Live(u) /\ Held(u)
      BY <2>1, <2>3 DEF BusyHolds, Busy
    <3> QED
      BY <2>a, <2>1, <2>3, <3>1 DEF TurnsAreDistinct, Held
  <2>4. ASSUME NEW u \in Turns \ {t}, turn'[u].pc # "unused", turn'[u].node = n
        PROVE  turn'[u].step = "none"
    <3>1. PcMove(u)
      BY <1>1, PcMoves
    <3>2. ASSUME NEW m \in Nodes, Claim(u, m) PROVE FALSE
      <4>1. m = n
        BY <1>1, <2>4, <3>2, ClaimNode
      <4> QED
        BY <2>1, <3>2, <4>1 DEF Claim
    <3>3. turn[u].pc # "unused" /\ turn[u].node = n
      BY <2>4, <3>1, <3>2 DEF PcMove, AtWork, TakeConversation, EndRun, Settle, Live
    <3>4. ~Busy(u) /\ turn[u].step = "none"
      BY <2>2, <2>3, <3>3 DEF TurnsOf
    <3> QED
      BY <1>1, <3>4, BystanderSteps
  <2>5. StepFits(t)'
    <3>1. CASE TurnStep(t) \/ Crash(t) \/ Shutdown(t)
      <4>1. CASE turn'[t].pc # "waking"
        BY <2>a, <2>2, <3>1, <4>1, OwnSteps
      <4>2. CASE turn'[t].pc = "waking" /\ turn[t].pc = "waking"
        <5>1. turn[t].step = "none"
          BY <2>2, <4>2 DEF StepFits
        <5>2. ~Busy(t)
          BY <4>2 DEF Busy
        <5>3. turn'[t].step = "none"
          BY <1>1, <5>1, <5>2, BystanderSteps
        <5> QED
          BY <4>2, <5>3 DEF StepFits
      <4>3. CASE turn'[t].pc = "waking" /\ turn[t].pc # "waking"
        <5>1. Settle(t)
          BY <1>1, <1>3, <4>3, PcMoves DEF PcMove, AtWork
        <5>2. turn'[t].step = turn[t].step
              /\ (SettleTo(turn[t].decision) \notin {"waiting_user", "failed"} => turn[t].step = "none")
          BY <1>1, <2>2, <5>1, SettlingSteps
        <5>3. SettleTo(turn[t].decision) = "none"
          <6>1. SUFFICES ASSUME Writes(t) PROVE FALSE
            BY <2>1 DEF Writes
          <6>2. MovesOnly(n, "running", SettleTo(turn[t].decision))
            BY <1>1, <5>1, <6>1, SettleStatuses
          <6>3. SettleTo(turn[t].decision) # "running"
            <7>1. turn[t].decision \in Decisions
              BY <1>1 DEF TurnsTyped, TurnRecords
            <7> QED
              BY <7>1 DEF SettleTo, Decisions
          <6> QED
            BY <2>1, <6>2, <6>3 DEF MovesOnly
        <5> QED
          BY <4>3, <5>2, <5>3 DEF StepFits
      <4> QED
        BY <4>1, <4>2, <4>3
    <3>2. ASSUME turn'[t] = turn[t] PROVE StepFits(t)'
      BY <2>2, <3>2 DEF StepFits
    <3>3. ASSUME NEW u \in Turns \ {t}, TurnStep(u) \/ Crash(u) \/ Shutdown(u) PROVE turn'[t] = turn[t]
      <4>1. TakeConversation(u) => turn[t].node # turn[u].node
        BY <2>3 DEF TakeConversation, Busy, Live
      <4> QED
        BY <1>1, <3>3, <4>1, OthersSame
    <3>4. SweepActs => turn'[t] = turn[t]
      <4>1. SweepActs => sweep.node # n
        BY <2>a, <2>1 DEF LateIsLost, Lost, SweepActs
      <4> QED
        BY <4>1 DEF SweepActs, CloseSteps, TurnsOf
    <3>5. ASSUME NEW u \in Turns, Verify(u) PROVE StepFits(t)'
      <4>1. turn' = [turn EXCEPT ![u] = [turn[u] EXCEPT !.step = "none"]]
        BY <1>1, <3>5 DEF Verify
      <4>2. CASE u = t
        <5>1. turn'[t] = [turn[t] EXCEPT !.step = "none"] /\ turn[t] \in TurnRecords
          BY <1>1, <4>1, <4>2 DEF TurnsTyped
        <5> QED
          BY <2>2, <5>1 DEF StepFits, TurnRecords
      <4>3. CASE u # t
        BY <1>1, <3>2, <4>1, <4>3 DEF TurnsTyped
      <4> QED
        BY <4>2, <4>3
    <3>6. CASE SweepStep
      BY <3>2, <3>4, <3>6 DEF SweepStep, SweepLooks, WakeDue, TimerWakes
    <3>7. CASE \E m \in Nodes : LeaseLapses(m) \/ ConversationStale(m)
      BY <3>2, <3>7 DEF LeaseLapses, ConversationStale
    <3>8. CASE OwnerStep
      BY <3>2, <3>5, <3>8 DEF OwnerStep, CancelLooks, CancelActs, CancelSubtaskLooks,
         CancelSubtaskActs, Answer, RetryTask, RetrySubtask, FollowUp, AddSubtask, Resume
    <3> QED
      BY <3>1, <3>2, <3>3, <3>6, <3>7, <3>8 DEF Next, TimeStep
  <2> QED
    BY <2>a, <2>4, <2>5
<1> QED
  BY <1>2, <1>3

(* What the sweep read of a lost turn stays as it read it.                 *)
LEMMA SweepReads ==
    ASSUME TypeOK, SweepLocks, LateIsLost, BusyHolds, SweptSteps, Next
    PROVE  SweptSteps'
<1>1. TurnsTyped /\ sweep.node \in Nodes /\ (sweep.active => row[sweep.node].status = "running")
  BY DEF TypeOK, TurnsTyped, SweepLocks
<1>2. ASSUME NEW n \in Nodes, SweepLooks(n) PROVE SweptSteps'
  <2>1. /\ sweep' = [node |-> n, active |-> TRUE, unverified |-> MayHaveWritten(n)]
        /\ UNCHANGED turn
    BY <1>2 DEF SweepLooks
  <2>2. ~MayHaveWritten(n) => NoneOpen(n)
    BY <1>1 DEF MayHaveWritten, NoneOpen, TurnsOf, TurnsTyped, TurnRecords
  <2> QED
    BY <2>1, <2>2 DEF SweptSteps, NoneOpen, TurnsOf
<1>3. CASE sweep' = NoSweep
  BY <1>3 DEF SweptSteps, NoSweep
<1>4. CASE UNCHANGED sweep
  <2> SUFFICES ASSUME sweep.active, NoneOpen(sweep.node), NEW u \in Turns, turn'[u].pc # "unused",
                      turn'[u].node = sweep.node
               PROVE  turn'[u].step = "none"
    BY <1>4 DEF SweptSteps, NoneOpen, TurnsOf
  <2>1. PcMove(u)
    BY <1>1, PcMoves
  <2>2. ASSUME NEW m \in Nodes, Claim(u, m) PROVE FALSE
    <3>1. m = sweep.node
      BY <1>1, <2>2, ClaimNode
    <3> QED
      BY <1>1, <2>2, <3>1 DEF Claim
  <2>3. turn[u].pc # "unused" /\ turn[u].node = sweep.node
    BY <2>1, <2>2 DEF PcMove, AtWork, TakeConversation, EndRun, Settle, Live
  <2>4. ~Busy(u) /\ turn[u].step = "none"
    BY <1>1, <2>3 DEF NoneOpen, TurnsOf, BusyHolds, Busy, LateIsLost, Lost
  <2> QED
    BY <1>1, <2>4, BystanderSteps
<1>5. sweep' \in {sweep, NoSweep} \/ \E n \in Nodes : SweepLooks(n)
  <2>1. ASSUME NEW t \in Turns, TurnStep(t) PROVE sweep' = sweep
    BY <2>1 DEF TurnStep, ToolStep, StopStep, AfterTurn, Claim, TakeConversation, ConversationBusy,
       Renew, CallTool, ToolReturns, ToolOutOfQuota, WriteUnknown, AskUser, Post, PostWakes,
       FinishTask, WaitForTeam, CreateSubtasks, RetryByTeam, EndTurn, StopWhenPaused, LoseLease,
       AbortLost, EndRun, Conclude, Settle, TurnWakes
  <2>2. CASE SweepStep \/ TimeStep
    BY <2>2 DEF SweepStep, SweepActs, WakeDue, TimerWakes, TimeStep, LeaseLapses, ConversationStale,
       Crash, Shutdown
  <2>3. CASE OwnerStep
    BY <2>3 DEF OwnerStep, CancelLooks, CancelActs, CancelSubtaskLooks, CancelSubtaskActs,
       Answer, RetryTask, RetrySubtask, FollowUp, AddSubtask, Resume, Verify
  <2> QED
    BY <2>1, <2>2, <2>3 DEF Next
<1> QED
  BY <1>2, <1>3, <1>4, <1>5

OpenEnds == {"absent", "queued", "waiting_team", "waiting_children", "succeeded"}
AskedFirst == {"waiting_user", "failed", "skipped"}

(* A node nobody runs, moved by whoever asked for its unconfirmed writes   *)
(* where the one before it had not.                                        *)
LEMMA IdleNodeFits ==
    ASSUME TypeOK, BusyHolds, NodeSteps, Next, NEW n \in CheckedNodes, n \in Nodes,
           row[n].status \notin {"running", "cancelled"}, \A t \in Turns : ~Claim(t, n),
           row[n].status \in AskedFirst /\ row'[n].status \in OpenEnds => ~Unverified(n)
    PROVE  /\ row'[n].status \in OpenEnds => NoneOpen(n)'
           /\ row'[n].status \in AskedFirst => NoneRunning(n)'
<1>1. NoneOpen(n) => NoneRunning(n)
  BY DEF NoneOpen, NoneRunning
<1>2. row[n].status \in OpenEnds \union AskedFirst
  <2>1. row[n].status \in Statuses
    BY DEF TypeOK, Rows
  <2> QED
    BY <2>1 DEF Statuses, AssignmentStatus, OpenEnds, AskedFirst
<1>3. NoneRunning(n) /\ ~Unverified(n) => NoneOpen(n)
  BY DEF NoneOpen, NoneRunning, Unverified, TypeOK, TurnRecords, TurnsOf
<1>4. row[n].status \in OpenEnds => NoneOpen(n)
  BY DEF NodeSteps, OpenEnds
<1>5. row[n].status \in AskedFirst => NoneRunning(n)
  BY DEF NodeSteps, AskedFirst
<1>6. (NoneOpen(n) => NoneOpen(n)') /\ (NoneRunning(n) => NoneRunning(n)')
  BY QuietNodes
<1>7. NoneOpen(n)' => NoneRunning(n)'
  BY DEF NoneOpen, NoneRunning
<1> QED
  BY <1>1, <1>2, <1>3, <1>4, <1>5, <1>6, <1>7

(* A node its own turn gives back, or settles.                             *)
LEMMA GivenBackFits ==
    ASSUME TypeOK, HeldSteps, NEW t \in Turns, NEW n \in CheckedNodes, turn[t].node = n, Held(t),
           ConversationBusy(t) \/ (Settle(t) /\ row'[n].status = SettleTo(turn[t].decision))
    PROVE  /\ row'[n].status \in OpenEnds => NoneOpen(n)'
           /\ row'[n].status \in AskedFirst => NoneRunning(n)'
<1>1. TurnsTyped
  BY DEF TypeOK, TurnsTyped
<1>2. Live(t) /\ StepFits(t) /\ \A u \in TurnsOf(n) \ {t} : turn[u].step = "none"
  BY DEF HeldSteps, Live, ConversationBusy, Settle
<1>3. turn'[t].step = turn[t].step /\ \A u \in Turns \ {t} : turn'[u] = turn[u]
  <2>1. CASE ConversationBusy(t)
    BY <1>1, <2>1, LeavingMoves DEF ConversationBusy
  <2>2. CASE Settle(t)
    BY <1>1, <2>2 DEF Settle, TurnsTyped, TurnRecords
  <2> QED
    BY <2>1, <2>2
<1>4. \A u \in Turns : turn'[u].pc # "unused" /\ turn'[u].node = n /\ u # t => turn'[u].step = "none"
  BY <1>2, <1>3 DEF TurnsOf
<1>5. CASE ConversationBusy(t)
  <2>1. turn'[t].step = "none"
    BY <1>2, <1>3, <1>5 DEF ConversationBusy, StepFits
  <2> QED
    BY <1>4, <2>1 DEF NoneOpen, NoneRunning, TurnsOf
<1>6. CASE Settle(t) /\ row'[n].status = SettleTo(turn[t].decision)
  <2>1. /\ turn'[t].step # "running"
        /\ row'[n].status \notin {"waiting_user", "failed"} => turn'[t].step = "none"
    BY <1>1, <1>2, <1>6, SettlingSteps
  <2> QED
    BY <1>4, <2>1 DEF NoneOpen, NoneRunning, OpenEnds, TurnsOf
<1> QED
  BY <1>5, <1>6

(* A node the sweep took from a worker that died.                          *)
LEMMA SweptFits ==
    ASSUME TypeOK, SweptSteps, SweepActs, NEW n \in CheckedNodes, n = sweep.node,
           \/ row'[n].status = "queued" /\ ~sweep.unverified
           \/ row'[n].status \in {"waiting_user", "failed"}
    PROVE  /\ row'[n].status \in OpenEnds => NoneOpen(n)'
           /\ row'[n].status \in AskedFirst => NoneRunning(n)'
<1>1. \A u \in Turns : turn[u] \in TurnRecords
  BY DEF TypeOK
<1>2. turn' = CloseSteps(n) /\ sweep.active
  BY DEF SweepActs
<1>3. \A u \in Turns : turn'[u] = IF u \in TurnsOf(n) /\ turn[u].step = "running"
                     THEN [turn[u] EXCEPT !.step = "unknown_outcome"] ELSE turn[u]
  BY <1>2 DEF CloseSteps
<1>4. \A u \in Turns : /\ turn'[u].pc = turn[u].pc /\ turn'[u].node = turn[u].node
                       /\ u \in TurnsOf(n) => turn'[u].step # "running"
                       /\ turn[u].step = "none" => turn'[u].step = "none"
  BY <1>1, <1>3 DEF TurnRecords
<1>5. NoneRunning(n)'
  BY <1>4 DEF NoneRunning, TurnsOf
<1>6. ASSUME ~sweep.unverified PROVE NoneOpen(n)'
  <2>1. NoneOpen(n)
    BY <1>2, <1>6 DEF SweptSteps
  <2> QED
    BY <1>4, <2>1 DEF NoneOpen, TurnsOf
<1> QED
  BY <1>5, <1>6 DEF OpenEnds

(* Who moves a node that is not running, and asked first where he must.    *)
LEMMA MovesAskFirst ==
    ASSUME TypeOK, SweepLocks, CancelFits, Next, NEW n \in CheckedNodes, n \in Nodes,
           row[n].status \in AskedFirst, row'[n].status \in OpenEnds
    PROVE  ~Unverified(n)
<1>1. /\ RowsTyped /\ TurnsTyped /\ sweep.node \in Nodes /\ owner.node \in Nodes
      /\ sweep.active => row[sweep.node].status = "running"
  BY DEF TypeOK, RowsTyped, TurnsTyped, SweepLocks
<1>2. ~SameStatuses /\ ~WakesSome
  BY DEF SameStatuses, WakesSome, AskedFirst, OpenEnds
<1>3. \A m \in Nodes : \A from, to : MovesOnly(m, from, to) =>
          m = n /\ from \in AskedFirst /\ to \in OpenEnds
  BY DEF MovesOnly, AskedFirst, OpenEnds
<1>4. \A new : ~AddsOnly(new)
  BY DEF AddsOnly, AskedFirst, OpenEnds
<1>5. \A nodes : ~CancelsOnly(nodes)
  BY DEF CancelsOnly, AskedFirst, OpenEnds
<1>6. "running" \notin AskedFirst /\ "queued" \notin AskedFirst /\ "skipped" \notin OpenEnds
  BY DEF AskedFirst, OpenEnds
<1>7. ASSUME NEW t \in Turns, TurnStep(t) PROVE ~Unverified(n)
  <2>1. turn[t].node \in Nodes /\ Children \subseteq Nodes
    BY <1>1 DEF TurnsTyped, TurnRecords, Nodes
  <2>2. \E c \in Children : RetryByTeam(t, c) /\ MovesOnly(c, "failed", "queued")
    BY <1>1, <1>2, <1>3, <1>4, <1>6, <1>7, <2>1, TurnStatuses
  <2>3. RetryByTeam(t, n)
    BY <1>3, <2>1, <2>2
  <2> QED
    BY <2>3 DEF RetryByTeam
<1>8. ~SweepStep
  BY <1>1, <1>2, <1>3, <1>6, SweepStatuses
<1>9. CASE OwnerStep
  <2>0. Root \in Nodes /\ Children \subseteq Nodes
    BY DEF Nodes
  <2>1. ASSUME NEW m \in Nodes,
               \/ Answer(m, "continue") /\ MovesOnly(m, "waiting_user", "queued")
               \/ Answer(m, "skip") /\ m # Root /\ MovesOnly(m, "waiting_user", "skipped")
               \/ /\ Answer(m, "skip") /\ m = Root /\ row'[m].status = "skipped"
                  /\ \A k \in Children : row'[k].status = IF IsOpen(row[k].status) THEN "cancelled"
                                                          ELSE row[k].status
               \/ Answer(m, "end") /\ CancelsOnly(Nodes)
        PROVE  ~Unverified(n)
    <3>1. CASE Answer(m, "continue") /\ MovesOnly(m, "waiting_user", "queued")
      BY <1>3, <3>1 DEF Answer
    <3>2. CASE MovesOnly(m, "waiting_user", "skipped")
      BY <1>3, <1>6, <3>2
    <3>3. ~(m = Root /\ row'[m].status = "skipped"
            /\ \A k \in Children : row'[k].status = IF IsOpen(row[k].status) THEN "cancelled"
                                                    ELSE row[k].status)
      BY DEF AskedFirst, OpenEnds, Nodes
    <3> QED
      BY <1>5, <2>1, <3>1, <3>2, <3>3
  <2>2. CASE (RetryTask \/ FollowUp) /\ MovesOnly(Root, row[Root].status, "queued")
    BY <1>3, <2>0, <2>2 DEF RetryTask, FollowUp
  <2>3. ASSUME NEW c \in Children, RetrySubtask(c), row[c].status = "failed",
               \A m \in Children \ {c} : row'[m] = row[m]
        PROVE  ~Unverified(n)
    <3>1. n = c
      <4>1. n \in Children
        BY <2>3 DEF CheckedNodes, RetrySubtask, OwnerActs
      <4> QED
        BY <2>3, <4>1 DEF AskedFirst, OpenEnds
    <3> QED
      BY <2>3, <3>1 DEF RetrySubtask
  <2> QED
    BY <1>1, <1>2, <1>4, <1>5, <1>9, <2>1, <2>2, <2>3, OwnerStatuses
<1>10. ~TimeStep
  BY <1>2 DEF TimeStep, LeaseLapses, ConversationStale, Crash, Shutdown, SameStatuses
<1> QED
  BY <1>7, <1>8, <1>9, <1>10 DEF Next

(* Who takes a node from running.                                          *)
LEMMA NodesFit ==
    ASSUME TypeOK, SweepLocks, TurnsAreBehind, CancelFits, BusyHolds, HeldSteps, NodeSteps,
           SweptSteps, RowMoves, Next
    PROVE  NodeSteps'
<1>1. /\ RowsTyped /\ TurnsTyped /\ sweep.node \in Nodes /\ CheckedNodes \subseteq Nodes
      /\ sweep.active => row[sweep.node].status = "running"
  BY DEF TypeOK, RowsTyped, TurnsTyped, SweepLocks, CheckedNodes, Nodes
<1>2. SUFFICES ASSUME NEW n \in CheckedNodes
               PROVE  /\ row'[n].status \in OpenEnds => NoneOpen(n)'
                      /\ row'[n].status \in AskedFirst => NoneRunning(n)'
  BY DEF NodeSteps, OpenEnds, AskedFirst
<1>3. CASE row'[n].status \in {"running", "cancelled"}
  BY <1>3 DEF OpenEnds, AskedFirst
<1>4. CASE row[n].status \notin {"running", "cancelled"} /\ row'[n].status \notin {"running", "cancelled"}
  <2>1. ASSUME NEW t \in Turns, Claim(t, n) PROVE FALSE
    BY <1>1, <1>4, <2>1, ClaimStatuses DEF MovesOnly
  <2> QED
    BY <1>1, <1>4, <2>1, IdleNodeFits, MovesAskFirst
<1>5. row[n].status = "cancelled" => row'[n].status = "cancelled"
  <2>1. RowMove(row[n], row'[n], n = Root)
    BY <1>1 DEF RowMoves
  <2>2. \A to : ~CanGo("cancelled", to)
    BY DEF CanGo, Transitions
  <2> QED
    BY <2>1, <2>2 DEF RowMove
<1>6. CASE row[n].status = "running" /\ row'[n].status \notin {"running", "cancelled"}
  <2>1. ASSUME NEW t \in Turns, turn[t].node = n, Held(t), ConversationBusy(t) \/ Settle(t)
        PROVE  /\ row'[n].status \in OpenEnds => NoneOpen(n)'
               /\ row'[n].status \in AskedFirst => NoneRunning(n)'
    <3>1. Settle(t) => row'[n].status = SettleTo(turn[t].decision)
      <4>1. Settle(t) /\ ~Writes(t) => row' = row
        BY DEF Settle
      <4>2. Settle(t) /\ Writes(t) => MovesOnly(n, "running", SettleTo(turn[t].decision))
        BY <1>1, <2>1, SettleStatuses
      <4> QED
        BY <1>6, <4>1, <4>2 DEF MovesOnly
    <3> QED
      BY <2>1, <3>1, GivenBackFits
  <2>2. ASSUME SweepActs, n = sweep.node
        PROVE  /\ row'[n].status \in OpenEnds => NoneOpen(n)'
               /\ row'[n].status \in AskedFirst => NoneRunning(n)'
    <3>1. SweepActs /\ MovesOnly(sweep.node, "running",
                    IF ~sweep.unverified /\ ~row[sweep.node].autoResumed THEN "queued"
                    ELSE IF Mode = "responsive" THEN "waiting_user" ELSE "failed")
      <4>1. ~SameStatuses /\ ~WakesSome
        BY <1>1, <1>6 DEF SameStatuses, WakesSome
      <4> QED
        BY <1>1, <2>2, <4>1, SweepStatuses DEF SweepStep
    <3>2. \/ row'[n].status = "queued" /\ ~sweep.unverified
          \/ row'[n].status \in {"waiting_user", "failed"}
      BY <2>2, <3>1 DEF MovesOnly
    <3> QED
      BY <2>2, <3>2, SweptFits
  <2> QED
    BY <1>1, <1>6, <2>1, <2>2, LeavesRunning
<1> QED
  BY <1>3, <1>4, <1>5, <1>6

(* Steps, turns and nodes fit, inductively.                                *)
THEOREM StepInvariance == Spec => []StepInv
<1>1. Init => StepInv
  <2> SUFFICES ASSUME Init PROVE StepInv
    OBVIOUS
  <2>1. \A t \in Turns : turn[t].pc = "unused" /\ turn[t].step = "none" /\ ~Live(t)
    BY DEF Init, Live
  <2>2. UnusedSteps /\ HeldSteps /\ NodeSteps /\ SweptSteps
    BY <2>1 DEF Init, UnusedSteps, HeldSteps, NodeSteps, SweptSteps, NoneOpen, NoneRunning, TurnsOf, NoSweep
  <2> QED
    BY <2>2, InitLease DEF StepInv
<1>2. StepInv /\ [Next]_vars => StepInv'
  <2> SUFFICES ASSUME StepInv, [Next]_vars PROVE StepInv'
    OBVIOUS
  <2>1. LeaseInv'
    BY NextLease DEF StepInv
  <2>2. CASE UNCHANGED vars
    BY <2>1, <2>2 DEF vars, StepInv, UnusedSteps, HeldSteps, NodeSteps, SweptSteps, NoneOpen,
       NoneRunning, TurnsOf, StepFits, Live, Held
  <2>3. CASE Next
    <3>1. UnusedSteps'
      BY <2>3, UnusedStay DEF StepInv, LeaseInv, TreeInv
    <3>2. RowMoves /\ (TurnMoves \/ \E t \in Turns, n \in Nodes : Claim(t, n))
      BY <2>3, NextKeeps DEF StepInv, LeaseInv, TreeInv, Keeps
    <3>3. ASSUME spent'.stalls = 0 PROVE HeldSteps' /\ NodeSteps' /\ SweptSteps'
      <4>1. spent.stalls = 0
        BY <2>3, <3>3, NoStallBefore DEF StepInv, LeaseInv, TreeInv
      <4>2. LeasesAgree /\ HeldSteps /\ NodeSteps /\ SweptSteps
        BY <4>1 DEF StepInv, LeaseInv
      <4>3. /\ TypeOK /\ SweepLocks /\ TurnsAreBehind /\ TurnsAreDistinct /\ CancelFits
            /\ LateIsLost /\ BusyHolds /\ UnusedSteps
        BY <4>2 DEF StepInv, LeaseInv, TreeInv, LeasesAgree
      <4>4. HeldSteps'
        BY <2>3, <3>2, <4>2, <4>3, HolderSteps
      <4>5. NodeSteps'
        BY <2>3, <3>2, <4>2, <4>3, NodesFit
      <4>6. SweptSteps'
        BY <2>3, <4>2, <4>3, SweepReads
      <4> QED
        BY <4>4, <4>5, <4>6
    <3> QED
      BY <2>1, <3>1, <3>3 DEF StepInv
  <2> QED
    BY <2>2, <2>3
<1> QED
  BY <1>1, <1>2, PTL DEF Spec

(* As long as no worker stalled past its lease, a node in the queue has    *)
(* no unconfirmed write behind it, and will not run over one: settle and   *)
(* the sweep stop at it, and every request that queues a node asks first.  *)
(* But retrySubtask, which opens a failed task again, does not ask for     *)
(* the root's; the theorem says so, and then holds of the subtasks.        *)
THEOREM QueuedNodesAreVerified ==
    Spec => [](spent.stalls = 0 =>
        /\ "retry_subtask" \notin OwnerOps => QueuedNodeIsVerified
        /\ \A c \in Children : row[c].status = "queued" => \A t \in TurnsOf(c) : turn[t].step = "none")
<1>1. ASSUME StepInv, spent.stalls = 0
      PROVE  /\ "retry_subtask" \notin OwnerOps => QueuedNodeIsVerified
             /\ \A c \in Children : row[c].status = "queued" => \A t \in TurnsOf(c) : turn[t].step = "none"
  BY <1>1 DEF StepInv, NodeSteps, CheckedNodes, NoneOpen, QueuedNodeIsVerified, Nodes
<1> QED
  BY <1>1, StepInvariance, PTL
-----------------------------------------------------------------------------
(* What ends with its task. A failed subtask may be run again whatever     *)
(* became of the task, by a teammate or by the owner; where neither can,   *)
(* or no task fails, a cancelled task is quiet.                            *)
NobodyRetries == Mode = "responsive" \/ ("retry" \notin Tools /\ "retry_subtask" \notin OwnerOps)

NeverFails ==
    Mode = "responsive" =>
        /\ \A n \in Nodes : row[n].status # "failed"
        /\ \A t \in Turns : turn[t].decision.next # "fail"
ToolsOnly == \A t \in Turns : turn[t].tool \in Tools \union {"none"}

QuietInv ==
    TreeInv /\ CancelFits /\ NeverFails /\ ToolsOnly /\ (NobodyRetries => CancelledTaskIsQuiet)

(* What a turn remembers: the tool it called, and the decision it made.    *)
ToolMove(u) ==
    turn'[u].tool \in {turn[u].tool, "none"} \/ \E tool \in Tools : turn'[u].tool = tool
DecisionMove(u) ==
    \/ turn'[u].decision \in {turn[u].decision, NoDecision}
    \/ /\ \E stuck, stopping \in BOOLEAN : Conclude(u, stuck, stopping)
       /\ \E read \in TurnResults : read.mode = Mode /\ turn'[u].decision = DecideTurn(read)

(* conclude() decides by what it reads of the subtasks.                    *)
LEMMA ConcludesBy ==
    ASSUME TypeOK, NEW t \in Turns, NEW stuck \in BOOLEAN, NEW stopping \in BOOLEAN,
           Conclude(t, stuck, stopping)
    PROVE  \E read \in TurnResults :
               /\ read.mode = Mode /\ (read.openChildren <=> turn[t].node = Root /\ OpenSubtasks # {})
               /\ turn'[t].decision = DecideTurn(read)
               /\ turn'[t].tool = turn[t].tool
<1>1. turn[t] \in TurnRecords /\ turn \in [Turns -> TurnRecords]
  BY DEF TypeOK
<1> DEFINE read == IF stuck THEN TurnRead(t, FALSE, "no_progress", stopping)
                   ELSE TurnRead(t, TRUE, "none", stopping)
           decision == DecideTurn(read)
<1>2. turn' = [turn EXCEPT ![t].pc = "settling", ![t].decision = decision, ![t].result = NoResult]
  BY DEF Conclude
<1>3. /\ read \in TurnResults /\ read.mode = Mode
      /\ read.openChildren <=> turn[t].node = Root /\ OpenSubtasks # {}
  <2>1. turn[t].result \in Results /\ row[turn[t].node].endIntent \in EndIntents
    BY <1>1 DEF TurnRecords, TypeOK, Rows
  <2> QED
    BY <2>1, TreeAssumption DEF TurnRead, TurnResults, Results, Previous
<1> HIDE DEF decision, read
<1>4. turn'[t].tool = turn[t].tool /\ turn'[t].decision = decision
  BY <1>1, <1>2 DEF TurnRecords
<1> QED
  BY <1>3, <1>4 DEF decision

(* The whole step: what each turn may remember of its tool and decision.   *)
LEMMA Remembers ==
    ASSUME TypeOK, Next
    PROVE  \A u \in Turns : ToolMove(u) /\ DecisionMove(u)
<1>1. TurnsTyped /\ \A u \in Turns : turn[u] \in TurnRecords
  BY DEF TypeOK, TurnsTyped
<1>2. ASSUME NEW u \in Turns, turn'[u] = turn[u] PROVE ToolMove(u) /\ DecisionMove(u)
  BY <1>2 DEF ToolMove, DecisionMove
<1>3. ASSUME NEW u \in Turns, NEW n \in Nodes
      PROVE  CloseSteps(n)[u].tool = turn[u].tool /\ CloseSteps(n)[u].decision = turn[u].decision
  BY <1>1 DEF CloseSteps, TurnRecords
<1>4. ASSUME NEW t \in Turns, TurnStep(t) \/ Crash(t) \/ Shutdown(t), ~TakeConversation(t)
      PROVE  ToolMove(t) /\ DecisionMove(t)
  <2>1. CASE \/ \E n \in Nodes : Claim(t, n)
             \/ Renew(t) \/ Post(t) \/ EndRun(t) \/ Settle(t)
    <3>1. CASE \E n \in Nodes : Claim(t, n)
      <4>1. PICK n \in Nodes :
              turn' = [turn EXCEPT ![t] = [turn[t] EXCEPT !.pc = "claimed", !.node = n,
                                                          !.version = row[n].version + 1]]
        BY <1>1, <3>1 DEF Claim, TurnsTyped, TurnRecords
      <4>2. turn'[t].tool = turn[t].tool /\ turn'[t].decision = turn[t].decision
        BY <1>1, <4>1 DEF TurnsTyped, TurnRecords
      <4> QED
        BY <4>2 DEF ToolMove, DecisionMove
    <3>2. CASE Renew(t) \/ Post(t) \/ EndRun(t)
      <4>1. turn'[t].tool = turn[t].tool /\ turn'[t].decision = turn[t].decision
        BY <1>1, <3>2 DEF Renew, Post, EndRun, TurnsTyped, TurnRecords
      <4> QED
        BY <4>1 DEF ToolMove, DecisionMove
    <3>3. CASE Settle(t)
      <4>1. turn'[t].tool = turn[t].tool /\ turn'[t].decision = NoDecision
        BY <1>1, <3>3 DEF Settle, TurnsTyped, TurnRecords
      <4> QED
        BY <4>1 DEF ToolMove, DecisionMove
    <3> QED
      BY <2>1, <3>1, <3>2, <3>3
  <2>2. CASE ConversationBusy(t) \/ TurnWakes(t) \/ Crash(t)
    <3>1. turn'[t].tool = "none" /\ turn'[t].decision = NoDecision
      BY <1>1, <2>2 DEF ConversationBusy, TurnWakes, Crash, Leave, TurnsTyped, TurnRecords
    <3> QED
      BY <3>1 DEF ToolMove, DecisionMove
  <2>3. ASSUME NEW tool \in ToolNames, CallTool(t, tool) PROVE ToolMove(t) /\ DecisionMove(t)
    <3>1. turn' = [turn EXCEPT ![t] = [turn[t] EXCEPT !.pc = "calling", !.tool = tool,
                            !.step = IF tool \in WriteTools THEN "running" ELSE turn[t].step]]
      BY <1>1, <2>3 DEF CallTool, TurnsTyped, TurnRecords
    <3>2. turn'[t].tool = tool /\ turn'[t].decision = turn[t].decision /\ tool \in Tools
      BY <1>1, <2>3, <3>1 DEF TurnsTyped, TurnRecords, CallTool, Offered
    <3> QED
      BY <3>2 DEF ToolMove, DecisionMove
  <2>4. ASSUME Back(t) PROVE ToolMove(t) /\ DecisionMove(t)
    <3>1. turn'[t].tool = "none" /\ turn'[t].decision = turn[t].decision
      BY <1>1, <2>4 DEF Back, TurnsTyped, TurnRecords
    <3> QED
      BY <3>1 DEF ToolMove, DecisionMove
  <2>5. CASE ToolOutOfQuota(t) \/ WriteUnknown(t)
    <3>1. turn'[t].tool = "none" /\ turn'[t].decision = turn[t].decision
      BY <1>1, <2>5 DEF ToolOutOfQuota, WriteUnknown, TurnsTyped, TurnRecords
    <3> QED
      BY <3>1 DEF ToolMove, DecisionMove
  <2>6. ASSUME NEW result, Close(t, result) PROVE ToolMove(t) /\ DecisionMove(t)
    <3> DEFINE r == [result EXCEPT !.quota = result.quota \/ turn[t].result.quota]
    <3>1. turn' = [turn EXCEPT ![t] = [turn[t] EXCEPT !.pc = "closing", !.tool = "none", !.result = r]]
      BY <1>1, <2>6 DEF Close, TurnsTyped, TurnRecords
    <3> HIDE DEF r
    <3>2. turn'[t].tool = "none" /\ turn'[t].decision = turn[t].decision
      BY <1>1, <3>1 DEF TurnsTyped, TurnRecords
    <3> QED
      BY <3>2 DEF ToolMove, DecisionMove
  <2>7. ASSUME Aborted(t) PROVE ToolMove(t) /\ DecisionMove(t)
    <3>1. CASE turn[t].tool \in WriteTools
      <4>1. turn'[t].tool = "none" /\ turn'[t].decision = turn[t].decision
        BY <1>1, <2>7, <3>1 DEF Aborted, TurnsTyped, TurnRecords
      <4> QED
        BY <4>1 DEF ToolMove, DecisionMove
    <3>2. CASE turn[t].tool \notin WriteTools
      BY <2>6, <2>7, <3>2 DEF Aborted
    <3> QED
      BY <3>1, <3>2
  <2>8. ASSUME NEW new \in SUBSET Children, CreateSubtasks(t, new) PROVE ToolMove(t) /\ DecisionMove(t)
    <3>1. CASE turn[t].node = Root
      <4>1. turn'[t].tool = "none" /\ turn'[t].decision = turn[t].decision
        BY <1>1, <2>8, <3>1 DEF CreateSubtasks, TurnsTyped, TurnRecords
      <4> QED
        BY <4>1 DEF ToolMove, DecisionMove
    <3>2. CASE turn[t].node # Root
      BY <2>4, <2>8, <3>2 DEF CreateSubtasks
    <3> QED
      BY <3>1, <3>2
  <2>9. ASSUME NEW stuck \in BOOLEAN, NEW stopping \in BOOLEAN, Conclude(t, stuck, stopping)
        PROVE  ToolMove(t) /\ DecisionMove(t)
    BY <2>9, ConcludesBy DEF ToolMove, DecisionMove
  <2> QED
    BY <1>4, <2>1, <2>2, <2>3, <2>4, <2>5, <2>6, <2>7, <2>8, <2>9 DEF TurnStep, ToolStep, StopStep,
       AfterTurn, ToolReturns, PostWakes, RetryByTeam, AskUser, StopWhenPaused, LoseLease, EndTurn,
       FinishTask, WaitForTeam, AbortLost, Shutdown
<1>5. ASSUME NEW t \in Turns, TurnStep(t) \/ Crash(t) \/ Shutdown(t)
      PROVE  \A u \in Turns : ToolMove(u) /\ DecisionMove(u)
  <2>1. CASE TakeConversation(t)
    <3>1. turn' = [CloseSteps(turn[t].node) EXCEPT ![t].pc = "working"] /\ turn[t].node \in Nodes
      BY <1>1, <2>1 DEF TakeConversation, TurnRecords
    <3>2. CloseSteps(turn[t].node) \in [Turns -> TurnRecords]
      BY <1>1, <3>1, CloseStepsTyped
    <3>3. \A u \in Turns : /\ turn'[u].tool = CloseSteps(turn[t].node)[u].tool
                           /\ turn'[u].decision = CloseSteps(turn[t].node)[u].decision
      BY <3>1, <3>2 DEF TurnRecords
    <3> QED
      BY <1>3, <3>1, <3>3 DEF ToolMove, DecisionMove
  <2>2. CASE ~TakeConversation(t)
    <3>1. \A u \in Turns \ {t} : turn'[u] = turn[u]
      BY <1>1, <1>5, <2>2, OthersSame
    <3> QED
      BY <1>2, <1>4, <1>5, <2>2, <3>1
  <2> QED
    BY <2>1, <2>2
<1>6. CASE UNCHANGED turn
  BY <1>2, <1>6
<1>7. CASE SweepActs
  BY <1>3, <1>7 DEF SweepActs, ToolMove, DecisionMove, TypeOK
<1>8. ASSUME NEW t \in Turns, Verify(t) PROVE \A u \in Turns : ToolMove(u) /\ DecisionMove(u)
  BY <1>1, <1>8 DEF Verify, ToolMove, DecisionMove, TurnsTyped, TurnRecords
<1>9. CASE SweepStep
  BY <1>6, <1>7, <1>9 DEF SweepStep, SweepLooks, WakeDue, TimerWakes
<1>10. CASE \E n \in Nodes : LeaseLapses(n) \/ ConversationStale(n)
  BY <1>6, <1>10 DEF LeaseLapses, ConversationStale
<1>11. CASE OwnerStep
  BY <1>6, <1>8, <1>11 DEF OwnerStep, CancelLooks, CancelActs, CancelSubtaskLooks, CancelSubtaskActs,
     Answer, RetryTask, RetrySubtask, FollowUp, AddSubtask, Resume
<1> QED
  BY <1>5, <1>9, <1>10, <1>11 DEF Next, TimeStep

(* A responsive task asks its owner instead of failing.                    *)
LEMMA DecidedBy ==
    ASSUME NEW read \in TurnResults, read.mode = "responsive"
    PROVE  DecideTurn(read).next # "fail"
<1>1. RouteTurn(read) \in Decisions
  BY DEF RouteTurn, RouteAwaiting, RouteBudget, Decide, Decisions, TurnResults, TurnStatus, RunStatus,
     EndIntents, Previous, IsInterrupted, WaitsForChildren
<1> DEFINE decision == RouteTurn(read)
<1>2. DecideTurn(read) = IF decision.next = "fail" THEN [decision EXCEPT !.next = "ask_failure"]
                         ELSE decision
  BY DEF DecideTurn
<1> HIDE DEF decision
<1>3. CASE decision.next = "fail"
  BY <1>1, <1>2, <1>3 DEF Decisions
<1> QED
  BY <1>2, <1>3

(* Nothing in a responsive task fails.                                     *)
LEMMA NeverFailsStays ==
    ASSUME TreeInv, CancelFits, NeverFails, Next
    PROVE  NeverFails'
<1>1. /\ RowsTyped /\ TurnsTyped /\ sweep.node \in Nodes /\ owner.node \in Nodes
      /\ sweep.active => row[sweep.node].status = "running"
  BY DEF TreeInv, TypeOK, RowsTyped, TurnsTyped, SweepLocks
<1> SUFFICES ASSUME Mode = "responsive"
             PROVE  /\ \A n \in Nodes : row'[n].status # "failed"
                    /\ \A t \in Turns : turn'[t].decision.next # "fail"
  BY DEF NeverFails
<1>2. \A t \in Turns : turn'[t].decision.next # "fail"
  <2>1. \A t \in Turns : DecisionMove(t)
    BY Remembers DEF TreeInv
  <2>2. NoDecision.next # "fail"
    BY DEF NoDecision, Decide
  <2> QED
    BY <2>1, <2>2, DecidedBy DEF NeverFails, DecisionMove
<1>3. ASSUME NEW n \in Nodes, row'[n].status = "failed" PROVE FALSE
  <2>0. row[n].status # "failed"
    BY DEF NeverFails
  <2>1. ~SameStatuses /\ ~WakesSome
    BY <1>3, <2>0 DEF SameStatuses, WakesSome
  <2>2. \A m \in Nodes : \A from, to : MovesOnly(m, from, to) => to = "failed"
    BY <1>3, <2>0 DEF MovesOnly
  <2>3. (\A new : ~AddsOnly(new)) /\ \A nodes : ~CancelsOnly(nodes)
    BY <1>3, <2>0 DEF AddsOnly, CancelsOnly
  <2>4. ASSUME NEW t \in Turns, TurnStep(t) PROVE FALSE
    <3>1. turn[t].node \in Nodes /\ Children \subseteq Nodes
      BY <1>1 DEF TurnsTyped, TurnRecords, Nodes
    <3>2. SettleTo(turn[t].decision) = "failed"
      BY <1>1, <2>1, <2>2, <2>3, <2>4, <3>1, TurnStatuses
    <3>3. turn[t].decision \in Decisions /\ turn[t].decision.next # "fail"
      BY <1>1 DEF TurnsTyped, TurnRecords, NeverFails
    <3> QED
      BY <3>2, <3>3 DEF SettleTo, Decisions
  <2>5. CASE SweepStep
    BY <1>1, <2>1, <2>2, <2>5, SweepStatuses
  <2>6. CASE OwnerStep
    <3>1. Root \in Nodes /\ Children \subseteq Nodes
      BY DEF Nodes
    <3>2. \A c \in Children : row[c].status # "failed"
      BY <3>1 DEF NeverFails
    <3>3. ~(\E m \in Nodes : m = Root /\ row'[m].status = "skipped"
                   /\ \A k \in Children : row'[k].status = IF IsOpen(row[k].status) THEN "cancelled"
                                                            ELSE row[k].status)
      BY <1>3, <2>0 DEF Nodes
    <3> QED
      BY <1>1, <2>1, <2>2, <2>3, <2>6, <3>1, <3>2, <3>3, OwnerStatuses
  <2>7. CASE TimeStep
    BY <2>1, <2>7 DEF TimeStep, LeaseLapses, ConversationStale, Crash, Shutdown, SameStatuses
  <2> QED
    BY <2>4, <2>5, <2>6, <2>7 DEF Next
<1> QED
  BY <1>2, <1>3

(* What became of the children and of the root in one step keeps a         *)
(* cancelled task quiet, if it is one of these.                            *)
LEMMA QuietMoves ==
    ASSUME CancelledTaskIsQuiet,
           \/ SameStatuses \/ WakesSome
           \/ \E n \in Nodes : \E from \in {"queued", "running", "waiting_user"} :
                  \E to \in Statuses \ {"cancelled"} :
                     MovesOnly(n, from, to) /\ (n = Root => to # "skipped")
           \/ \E new \in SUBSET Children : AddsOnly(new)
           \/ \E nodes : CancelsOnly(nodes) /\ (nodes = Nodes \/ nodes \subseteq Children)
    PROVE  CancelledTaskIsQuiet'
<1>1. Root \in Nodes /\ Children \subseteq Nodes /\ Root \notin Children
  BY TreeAssumption DEF Nodes
<1>2. CASE SameStatuses
  BY <1>1, <1>2 DEF SameStatuses, CancelledTaskIsQuiet
<1>3. CASE WakesSome
  BY <1>1, <1>3 DEF WakesSome, CancelledTaskIsQuiet, OpenStatuses
<1>4. ASSUME NEW n \in Nodes, NEW from \in {"queued", "running", "waiting_user"},
             NEW to \in Statuses \ {"cancelled"}, MovesOnly(n, from, to), n = Root => to # "skipped"
      PROVE  CancelledTaskIsQuiet'
  <2>1. CASE n = Root
    BY <1>1, <1>4, <2>1 DEF MovesOnly, CancelledTaskIsQuiet
  <2>2. CASE n # Root
    <3>1. n \in Children /\ row'[Root] = row[Root] /\ row[n].status \in OpenStatuses
      BY <1>1, <1>4, <2>2 DEF MovesOnly, Nodes, OpenStatuses
    <3> QED
      BY <1>1, <3>1 DEF CancelledTaskIsQuiet
  <2> QED
    BY <2>1, <2>2
<1>5. ASSUME NEW new \in SUBSET Children, AddsOnly(new) PROVE CancelledTaskIsQuiet'
  <2>1. row'[Root] = row[Root] /\ row[Root].status \notin {"cancelled", "skipped"}
    BY <1>1, <1>5 DEF AddsOnly, IsOpen, OpenStatuses
  <2> QED
    BY <2>1 DEF CancelledTaskIsQuiet
<1>6. ASSUME NEW nodes, CancelsOnly(nodes), nodes = Nodes \/ nodes \subseteq Children
      PROVE  CancelledTaskIsQuiet'
  <2>1. CASE nodes = Nodes
    BY <1>1, <1>6, <2>1 DEF CancelsOnly, CancelledTaskIsQuiet, IsOpen, OpenStatuses
  <2>2. CASE nodes \subseteq Children
    BY <1>1, <1>6, <2>2 DEF CancelsOnly, CancelledTaskIsQuiet, IsOpen, OpenStatuses
  <2> QED
    BY <1>6, <2>1, <2>2
<1> QED
  BY <1>2, <1>3, <1>4, <1>5, <1>6

(* A cancelled task stays quiet through every step.                        *)
LEMMA QuietStays ==
    ASSUME TreeInv, CancelFits, NeverFails, ToolsOnly, NobodyRetries, CancelledTaskIsQuiet, Next
    PROVE  CancelledTaskIsQuiet'
<1>1. /\ RowsTyped /\ TurnsTyped /\ sweep.node \in Nodes /\ owner.node \in Nodes
      /\ sweep.active => row[sweep.node].status = "running"
  BY DEF TreeInv, TypeOK, RowsTyped, TurnsTyped, SweepLocks
<1>2. {"queued", "running", "waiting_user", "failed", "skipped"} \subseteq Statuses \ {"cancelled"}
  BY DEF Statuses, AssignmentStatus
<1>3. Root \in Nodes /\ Children \subseteq Nodes /\ Root \notin Children
  BY TreeAssumption DEF Nodes
<1>4. ASSUME NEW t \in Turns, TurnStep(t) PROVE CancelledTaskIsQuiet'
  <2>1. turn[t].node \in Nodes /\ turn[t].decision \in Decisions
    BY <1>1 DEF TurnsTyped, TurnRecords
  <2>2. CASE MovesOnly(turn[t].node, "running", SettleTo(turn[t].decision)) /\ Writes(t)
    <3>1. SettleTo(turn[t].decision) \in Statuses \ {"cancelled", "skipped"}
      BY <2>1, <2>2 DEF Writes, SettleTo, Decisions, Statuses, AssignmentStatus
    <3> QED
      BY <2>1, <2>2, <3>1, QuietMoves
  <2>3. ASSUME NEW c \in Children, RetryByTeam(t, c) PROVE FALSE
    <3>1. turn[t].tool = "retry" /\ row[c].status = "failed"
      BY <2>3 DEF RetryByTeam, Calling
    <3> QED
      BY <1>3, <3>1 DEF ToolsOnly, NobodyRetries, NeverFails
  <2>4. CASE SameStatuses \/ WakesSome \/ \E new \in SUBSET Children : AddsOnly(new)
    BY <2>4, QuietMoves
  <2>5. ASSUME NEW n \in Nodes, MovesOnly(n, "queued", "running") \/ MovesOnly(n, "running", "queued")
        PROVE  CancelledTaskIsQuiet'
    BY <1>2, <2>5, QuietMoves
  <2> QED
    BY <1>1, <1>4, <2>1, <2>2, <2>3, <2>4, <2>5, TurnStatuses
<1>5. CASE SweepStep
  <2>1. CASE SameStatuses \/ WakesSome
    BY <2>1, QuietMoves
  <2>2. ASSUME NEW to \in {"queued", "waiting_user", "failed"}, MovesOnly(sweep.node, "running", to)
        PROVE  CancelledTaskIsQuiet'
    BY <1>1, <1>2, <2>2, QuietMoves
  <2> QED
    BY <1>1, <1>5, <2>1, <2>2, SweepStatuses
<1>6. CASE OwnerStep
  <2>1. CASE SameStatuses \/ CancelsOnly(Nodes)
    BY <2>1, QuietMoves
  <2>2. CASE owner.node \in Children /\ CancelsOnly({owner.node})
    BY <2>2, QuietMoves
  <2>3. ASSUME NEW n \in Nodes,
               \/ MovesOnly(n, "waiting_user", "queued")
               \/ n # Root /\ MovesOnly(n, "waiting_user", "skipped")
        PROVE  CancelledTaskIsQuiet'
    BY <1>2, <2>3, QuietMoves
  <2>4. CASE \A k \in Children : row'[k].status = IF IsOpen(row[k].status) THEN "cancelled"
                                                 ELSE row[k].status
    BY <2>4 DEF CancelledTaskIsQuiet, IsOpen, OpenStatuses
  <2>5. CASE MovesOnly(Root, row[Root].status, "queued")
    BY <2>5 DEF MovesOnly, CancelledTaskIsQuiet
  <2>6. ASSUME NEW c \in Children, RetrySubtask(c) PROVE FALSE
    <3>1. "retry_subtask" \in OwnerOps /\ row[c].status = "failed"
      BY <2>6 DEF RetrySubtask, OwnerActs
    <3> QED
      BY <1>3, <3>1 DEF NobodyRetries, NeverFails
  <2>7. ASSUME NEW c \in Children, AddsOnly({c}) PROVE CancelledTaskIsQuiet'
    BY <2>7, QuietMoves
  <2> QED
    BY <1>1, <1>6, <2>1, <2>2, <2>3, <2>4, <2>5, <2>6, <2>7, OwnerStatuses
<1>7. CASE TimeStep
  <2>1. SameStatuses
    BY <1>7 DEF TimeStep, LeaseLapses, ConversationStale, Crash, Shutdown, SameStatuses
  <2> QED
    BY <2>1, QuietMoves
<1> QED
  BY <1>4, <1>5, <1>6, <1>7 DEF Next

(* That a cancelled task is quiet, inductively.                            *)
THEOREM QuietInvariance == Spec => []QuietInv
<1>1. Init => QuietInv
  <2> SUFFICES ASSUME Init PROVE QuietInv
    OBVIOUS
  <2>1. \A n \in Nodes : row[n].status \in {"waiting_children", "queued", "absent"}
    BY DEF Init, NewRow
  <2>2. \A t \in Turns : turn[t].tool = "none" /\ turn[t].decision.next # "fail"
    BY DEF Init, NoDecision, Decide
  <2>3. NeverFails /\ ToolsOnly /\ CancelledTaskIsQuiet
    BY <2>1, <2>2 DEF NeverFails, ToolsOnly, CancelledTaskIsQuiet, Nodes
  <2> QED
    BY <2>3, InitTree DEF QuietInv, Init, CancelFits, NoCancel
<1>2. QuietInv /\ [Next]_vars => QuietInv'
  <2> SUFFICES ASSUME QuietInv, [Next]_vars PROVE QuietInv'
    OBVIOUS
  <2>1. TreeInv'
    BY NextTree DEF QuietInv
  <2>2. CASE UNCHANGED vars
    BY <2>1, <2>2 DEF vars, QuietInv, CancelFits, NeverFails, ToolsOnly, CancelledTaskIsQuiet
  <2>3. CASE Next
    <3>1. CancelFits'
      BY <2>3, CancelKeepsFit DEF QuietInv, TreeInv
    <3>2. NeverFails'
      BY <2>3, NeverFailsStays DEF QuietInv
    <3>3. ToolsOnly'
      BY <2>3, Remembers DEF QuietInv, TreeInv, ToolsOnly, ToolMove
    <3>4. NobodyRetries => CancelledTaskIsQuiet'
      BY <2>3, QuietStays DEF QuietInv
    <3> QED
      BY <2>1, <3>1, <3>2, <3>3, <3>4 DEF QuietInv, NobodyRetries
  <2> QED
    BY <2>2, <2>3
<1> QED
  BY <1>1, <1>2, PTL DEF Spec

(* Where nobody runs a failed subtask again, by tool or by request, or     *)
(* where nothing fails (responsive tasks), a task that was cancelled or    *)
(* skipped has no open subtask, and never gets one: not by a teammate's    *)
(* turn that has not noticed, the sweep, a late answer or a wake.          *)
THEOREM CancelledTasksAreQuiet == Spec => [](NobodyRetries => CancelledTaskIsQuiet)
<1>1. QuietInv => (NobodyRetries => CancelledTaskIsQuiet)
  BY DEF QuietInv
<1> QED
  BY <1>1, QuietInvariance, PTL
-----------------------------------------------------------------------------
(* Success. The lead's turn looks at its subtasks once, when it is         *)
(* concluded. From then until the root is settled, and after, nobody opens *)
(* one: not the owner, where that is not asked for; and not a teammate's   *)
(* turn, since none that may still write runs (unless its node has been    *)
(* cancelled, and it does not know).                                       *)
OpenTeam == {c \in Children : IsOpen(row[c].status)}

(* The tree and the team name the same open subtasks.                      *)
LEMMA OpenTeamIs == OpenSubtasks = OpenTeam
<1>1. \A n \in Nodes : row[n].status = "absent" => ~IsOpen(row[n].status)
  BY DEF IsOpen, OpenStatuses
<1>2. OpenSubtasks = {n \in Tree \ {Root} : IsOpen(row[n].status)}
  BY DEF OpenSubtasks, OpenChildren, StatusOf
<1> QED
  BY <1>1, <1>2, TreeAssumption DEF OpenTeam, Tree, Nodes

Cancelling == {"cancel", "cancel_subtask", "answer"}
NobodyOpensLate ==
    /\ OwnerOps \intersect {"add", "retry_subtask"} = {}
    /\ Tools \intersect {"create", "retry"} = {} \/ OwnerOps \intersect Cancelling = {}

OwnerFits == owner.op \in OwnerOps \union {"none"}
NobodyCancelled ==
    OwnerOps \intersect Cancelling = {} => \A n \in Nodes : row[n].status # "cancelled"
SuccessIsClosed ==
    \A t \in Turns :
        /\ turn[t].pc = "settling" /\ turn[t].node = Root /\ turn[t].decision.next = "succeed"
        /\ Held(t)
        => OpenTeam = {}

ClosedInv ==
    /\ LeaseInv /\ ToolsOnly /\ OwnerFits /\ NobodyCancelled
    /\ spent.stalls = 0 /\ NobodyOpensLate => SucceededTaskIsClosed /\ SuccessIsClosed

(* The owner asks only for what the instance lets them ask for.            *)
LEMMA OwnerFitsStays == TypeOK /\ OwnerFits /\ Next => OwnerFits'
<1> SUFFICES ASSUME OwnerFits, Next PROVE OwnerFits'
  OBVIOUS
<1>1. CASE owner' \in {owner, NoCancel}
  BY <1>1 DEF OwnerFits, NoCancel
<1>2. CASE CancelLooks \/ \E c \in Children : CancelSubtaskLooks(c)
  BY <1>2 DEF CancelLooks, CancelSubtaskLooks, OwnerActs, OwnerFits
<1>3. CASE OwnerStep
  BY <1>1, <1>2, <1>3 DEF OwnerStep, CancelActs, CancelSubtaskActs, Answer, RetryTask, RetrySubtask,
     FollowUp, AddSubtask, Resume, Verify
<1>4. CASE SweepStep \/ TimeStep
  BY <1>1, <1>4 DEF SweepStep, SweepLooks, SweepActs, WakeDue, TimerWakes, TimeStep, LeaseLapses,
     ConversationStale, Crash, Shutdown
<1>5. ASSUME NEW t \in Turns, TurnStep(t) PROVE UNCHANGED owner
  BY <1>5 DEF TurnStep, ToolStep, StopStep, AfterTurn, Claim, TakeConversation, ConversationBusy,
       Renew, CallTool, ToolReturns, ToolOutOfQuota, WriteUnknown, AskUser, Post, PostWakes,
       FinishTask, WaitForTeam, CreateSubtasks, RetryByTeam, EndTurn, StopWhenPaused, LoseLease,
       AbortLost, EndRun, Conclude, Settle, TurnWakes
<1> QED
  BY <1>1, <1>3, <1>4, <1>5 DEF Next

(* Only the owner's requests cancel.                                       *)
LEMMA NobodyCancels ==
    ASSUME TypeOK, SweepLocks, CancelFits, OwnerFits, NobodyCancelled, Next
    PROVE  NobodyCancelled'
<1>1. /\ RowsTyped /\ TurnsTyped /\ sweep.node \in Nodes /\ owner.node \in Nodes
      /\ sweep.active => row[sweep.node].status = "running"
      /\ Root \in Nodes /\ Children \subseteq Nodes
  BY DEF TypeOK, RowsTyped, TurnsTyped, SweepLocks, Nodes
<1> SUFFICES ASSUME OwnerOps \intersect Cancelling = {}, NEW n \in Nodes, row'[n].status = "cancelled"
             PROVE  FALSE
  BY DEF NobodyCancelled
<1>2. row[n].status # "cancelled"
  BY DEF NobodyCancelled
<1>3. ~SameStatuses /\ ~WakesSome /\ \A new : ~AddsOnly(new)
  BY <1>2 DEF SameStatuses, WakesSome, AddsOnly
<1>4. \A m \in Nodes : \A from, to : MovesOnly(m, from, to) => to = "cancelled"
  BY <1>2 DEF MovesOnly
<1>5. ASSUME NEW t \in Turns, TurnStep(t) PROVE FALSE
  <2>1. turn[t].node \in Nodes /\ turn[t].decision \in Decisions
    BY <1>1 DEF TurnsTyped, TurnRecords
  <2>2. Writes(t) => SettleTo(turn[t].decision) # "cancelled"
    BY <2>1 DEF Writes, SettleTo, Decisions
  <2> QED
    BY <1>1, <1>3, <1>4, <1>5, <2>1, <2>2, TurnStatuses
<1>6. CASE SweepStep
  BY <1>1, <1>3, <1>4, <1>6, SweepStatuses
<1>7. CASE OwnerStep
  <2>1. ~CancelActs /\ ~CancelSubtaskActs /\ \A m \in Nodes : \A choice : ~Answer(m, choice)
    BY DEF CancelActs, CancelSubtaskActs, Answer, OwnerActs, OwnerFits, Cancelling
  <2> QED
    BY <1>1, <1>2, <1>3, <1>4, <1>7, <2>1, OwnerStatuses DEF Nodes
<1>8. CASE TimeStep
  BY <1>3, <1>8 DEF TimeStep, LeaseLapses, ConversationStale, Crash, Shutdown, SameStatuses
<1> QED
  BY <1>5, <1>6, <1>7, <1>8 DEF Next

(* A subtask is open that was not: somebody added it, or runs it again.    *)
LEMMA WhoOpens ==
    ASSUME TypeOK, SweepLocks, CancelFits, Next, OpenTeam = {}, OpenTeam' # {}
    PROVE  \/ \E t \in Turns : \/ \E new \in SUBSET Children : CreateSubtasks(t, new)
                               \/ \E c \in Children : RetryByTeam(t, c)
           \/ \E c \in Children : RetrySubtask(c) \/ AddSubtask(c)
<1>1. /\ RowsTyped /\ TurnsTyped /\ sweep.node \in Nodes /\ owner.node \in Nodes
      /\ sweep.active => row[sweep.node].status = "running"
      /\ Root \in Nodes /\ Children \subseteq Nodes /\ Root \notin Children
  BY TreeAssumption DEF TypeOK, RowsTyped, TurnsTyped, SweepLocks, Nodes
<1>2. PICK c \in Children : ~IsOpen(row[c].status) /\ IsOpen(row'[c].status)
  BY DEF OpenTeam
<1>3. ~SameStatuses /\ ~WakesSome /\ \A nodes : ~CancelsOnly(nodes)
  BY <1>1, <1>2 DEF SameStatuses, WakesSome, CancelsOnly, IsOpen, OpenStatuses
<1>4. \A m \in Nodes : \A from, to : MovesOnly(m, from, to) =>
          m = c /\ from \notin {"queued", "running", "waiting_user"}
  BY <1>1, <1>2 DEF MovesOnly, IsOpen, OpenStatuses
<1>5. ASSUME NEW t \in Turns, TurnStep(t)
      PROVE  \/ \E new \in SUBSET Children : CreateSubtasks(t, new)
             \/ \E k \in Children : RetryByTeam(t, k)
  <2>1. turn[t].node \in Nodes
    BY <1>1 DEF TurnsTyped, TurnRecords
  <2> QED
    BY <1>1, <1>3, <1>4, <1>5, <2>1, TurnStatuses
<1>6. ~SweepStep
  BY <1>1, <1>3, <1>4, SweepStatuses
<1>7. CASE OwnerStep
  <2>1. ~(\A m \in Children : row'[m].status = IF IsOpen(row[m].status) THEN "cancelled"
                                              ELSE row[m].status)
    BY <1>2 DEF IsOpen, OpenStatuses
  <2> QED
    BY <1>1, <1>3, <1>4, <1>7, <2>1, OwnerStatuses
<1>8. ~TimeStep
  BY <1>3 DEF TimeStep, LeaseLapses, ConversationStale, Crash, Shutdown, SameStatuses
<1> QED
  BY <1>5, <1>6, <1>7, <1>8 DEF Next

(* Nobody opens a subtask of a task that is about to succeed, or has.      *)
LEMMA NobodyOpens ==
    ASSUME TypeOK, SweepLocks, TurnsAreDistinct, CancelFits, BusyHolds, ToolsOnly, NobodyCancelled,
           NobodyOpensLate, Next, OpenTeam = {},
           \/ row[Root].status = "succeeded"
           \/ \E t \in Turns : turn[t].pc = "settling" /\ turn[t].node = Root /\ Held(t)
    PROVE  OpenTeam' = {}
<1> SUFFICES ASSUME OpenTeam' # {} PROVE FALSE
  OBVIOUS
<1>1. \A c \in Children : ~RetrySubtask(c) /\ ~AddSubtask(c)
  BY DEF RetrySubtask, AddSubtask, OwnerActs, NobodyOpensLate
<1>2. PICK u \in Turns : \/ \E new \in SUBSET Children : CreateSubtasks(u, new)
                         \/ \E c \in Children : RetryByTeam(u, c)
  BY <1>1, WhoOpens
<1>3. turn[u].pc = "calling" /\ turn[u].tool \in {"create", "retry"} /\ Busy(u)
  BY <1>2 DEF CreateSubtasks, RetryByTeam, Calling, Busy, Live
<1>4. Held(u)
  <2>1. turn[u].node \in Nodes
    BY DEF TypeOK, TurnRecords
  <2>2. OwnerOps \intersect Cancelling = {}
    BY <1>3 DEF ToolsOnly, NobodyOpensLate
  <2> QED
    BY <1>3, <2>1, <2>2 DEF BusyHolds, NobodyCancelled
<1>5. turn[u].node = Root
  BY <1>4 DEF Held, OpenTeam, IsOpen, OpenStatuses, TypeOK, TurnRecords, Nodes
<1>6. PICK t \in Turns : turn[t].pc = "settling" /\ turn[t].node = Root /\ Held(t)
  BY <1>4, <1>5 DEF Held
<1>7. t = u
  BY <1>3, <1>4, <1>5, <1>6 DEF TurnsAreDistinct, Live, Held
<1> QED
  BY <1>3, <1>6, <1>7

(* A lead that is to succeed was concluded when no subtask was open.       *)
LEMMA SuccessStaysClosed ==
    ASSUME TypeOK, SweepLocks, TurnsAreBehind, TurnsAreDistinct, CancelFits, BusyHolds, ToolsOnly,
           NobodyCancelled, NobodyOpensLate, SuccessIsClosed, RowMoves, Next,
           TurnMoves \/ \E t \in Turns, n \in Nodes : Claim(t, n)
    PROVE  SuccessIsClosed'
<1>1. TurnsTyped /\ sweep.node \in Nodes /\ \A t \in Turns : turn[t].node \in Nodes
  BY DEF TypeOK, TurnsTyped, TurnRecords
<1> SUFFICES ASSUME NEW t \in Turns, turn'[t].pc = "settling", turn'[t].node = Root,
                    turn'[t].decision.next = "succeed", Held(t)'
             PROVE  OpenTeam' = {}
  BY DEF SuccessIsClosed
<1>2. PcMove(t) /\ DecisionMove(t)
  BY <1>1, PcMoves, Remembers
<1>3. \A m \in Nodes : ~Claim(t, m)
  BY <1>1, ClaimNode
<1>4. Live(t) /\ turn'[t].node = turn[t].node /\ turn'[t].version = turn[t].version
  <2>1. ASSUME NEW u \in Turns \ {t}, NEW n \in Nodes, Claim(u, n) PROVE turn'[t] = turn[t]
    BY <1>1, <2>1, ClaimNode
  <2> QED
    BY <1>3, <2>1 DEF TurnMoves, Live
<1>5. Held(t) /\ turn[t].node = Root
  BY <1>4, HeldBefore
<1>6. CASE turn[t].pc = "settling"
  <2>1. turn'[t].decision = turn[t].decision
    BY <1>2, <1>6 DEF DecisionMove, NoDecision, Decide, Conclude
  <2>2. OpenTeam = {}
    BY <1>5, <1>6, <2>1 DEF SuccessIsClosed
  <2> QED
    BY <1>5, <1>6, <2>2, NobodyOpens
<1>7. CASE turn[t].pc # "settling"
  <2>1. PICK stuck \in BOOLEAN, stopping \in BOOLEAN : Conclude(t, stuck, stopping)
    BY <1>2, <1>3, <1>7 DEF PcMove, AtWork
  <2>2. PICK read \in TurnResults : /\ read.openChildren <=> turn[t].node = Root /\ OpenSubtasks # {}
                                    /\ turn'[t].decision = DecideTurn(read)
    BY <2>1, ConcludesBy
  <2>3. read.openChildren => DecideTurn(read).next # "succeed"
    BY DEF DecideTurn, RouteTurn, Decide, WaitsForChildren, IsInterrupted
  <2>4. OpenSubtasks = {} /\ row' = row
    BY <1>5, <2>1, <2>2, <2>3 DEF Conclude
  <2> QED
    BY <2>4, OpenTeamIs DEF OpenTeam
<1> QED
  BY <1>6, <1>7

(* A task succeeds only through its lead's settle.                         *)
LEMMA SucceededStaysClosed ==
    ASSUME TypeOK, SweepLocks, TurnsAreDistinct, CancelFits, BusyHolds, ToolsOnly,
           NobodyCancelled, NobodyOpensLate, SuccessIsClosed, SucceededTaskIsClosed, Next
    PROVE  SucceededTaskIsClosed'
<1>1. /\ RowsTyped /\ TurnsTyped /\ sweep.node \in Nodes /\ owner.node \in Nodes
      /\ sweep.active => row[sweep.node].status = "running"
      /\ Root \in Nodes /\ Children \subseteq Nodes /\ Root \notin Children
  BY TreeAssumption DEF TypeOK, RowsTyped, TurnsTyped, SweepLocks, Nodes
<1> SUFFICES ASSUME row'[Root].status = "succeeded" PROVE OpenTeam' = {}
  BY DEF SucceededTaskIsClosed, OpenTeam, IsOpen
<1>2. CASE row[Root].status = "succeeded"
  <2>1. OpenTeam = {}
    BY <1>2 DEF SucceededTaskIsClosed, OpenTeam, IsOpen
  <2> QED
    BY <1>2, <2>1, NobodyOpens
<1>3. CASE row[Root].status # "succeeded"
  <2>1. ~SameStatuses /\ ~WakesSome /\ \A new : ~AddsOnly(new)
    BY <1>1, <1>3 DEF SameStatuses, WakesSome, AddsOnly
  <2>2. \A nodes : ~CancelsOnly(nodes)
    BY <1>1, <1>3 DEF CancelsOnly
  <2>3. \A m \in Nodes : \A from, to : MovesOnly(m, from, to) => m = Root /\ to = "succeeded"
    BY <1>1, <1>3 DEF MovesOnly
  <2>4. ASSUME NEW t \in Turns, TurnStep(t) PROVE OpenTeam' = {}
    <3>1. turn[t].node \in Nodes /\ turn[t].decision \in Decisions
      BY <1>1 DEF TurnsTyped, TurnRecords
    <3>2. Settle(t) /\ Writes(t) /\ turn[t].node = Root /\ SettleTo(turn[t].decision) = "succeeded"
      BY <1>1, <2>1, <2>3, <2>4, <3>1, TurnStatuses
    <3>3. turn[t].decision.next = "succeed"
      BY <3>1, <3>2 DEF SettleTo, Decisions
    <3>4. turn[t].pc = "settling" /\ Held(t)
      BY <3>2 DEF Settle, Writes
    <3>5. OpenTeam = {}
      BY <3>2, <3>3, <3>4 DEF SuccessIsClosed
    <3> QED
      BY <3>2, <3>4, <3>5, NobodyOpens
  <2>5. ~SweepStep
    BY <1>1, <2>1, <2>3, SweepStatuses
  <2>6. ~OwnerStep
    <3>1. row'[Root].status \notin {"queued", "skipped", "waiting_children"} /\ row'[Root] # row[Root]
      BY <1>3
    <3>2. \A from : ~MovesOnly(Root, from, "queued")
      BY <1>1, <2>3
    <3>3. \A m \in Nodes : ~MovesOnly(m, "waiting_user", "queued") /\ ~MovesOnly(m, "waiting_user", "skipped")
      BY <2>3
    <3> QED
      BY <1>1, <2>1, <2>2, <3>1, <3>2, <3>3, OwnerStatuses
  <2>7. ~TimeStep
    BY <2>1 DEF TimeStep, LeaseLapses, ConversationStale, Crash, Shutdown, SameStatuses
  <2> QED
    BY <2>4, <2>5, <2>6, <2>7 DEF Next
<1> QED
  BY <1>2, <1>3

(* Success and the subtasks, inductively.                                  *)
THEOREM ClosedInvariance == Spec => []ClosedInv
<1>1. Init => ClosedInv
  <2> SUFFICES ASSUME Init PROVE ClosedInv
    OBVIOUS
  <2>1. ToolsOnly /\ OwnerFits
    BY DEF Init, ToolsOnly, OwnerFits, NoCancel
  <2>2. \A n \in Nodes : row[n].status \notin {"cancelled", "succeeded"}
    BY DEF Init, NewRow
  <2>3. NobodyCancelled /\ SucceededTaskIsClosed /\ SuccessIsClosed
    BY <2>2, RootIsNode DEF Init, NobodyCancelled, SucceededTaskIsClosed, SuccessIsClosed
  <2> QED
    BY <2>1, <2>3, InitLease DEF ClosedInv
<1>2. ClosedInv /\ [Next]_vars => ClosedInv'
  <2> SUFFICES ASSUME ClosedInv, [Next]_vars PROVE ClosedInv'
    OBVIOUS
  <2>1. LeaseInv'
    BY NextLease DEF ClosedInv
  <2>2. CASE UNCHANGED vars
    <3>1. ToolsOnly' /\ OwnerFits' /\ NobodyCancelled'
      BY <2>2 DEF vars, ClosedInv, ToolsOnly, OwnerFits, NobodyCancelled
    <3>2. spent'.stalls = 0 /\ NobodyOpensLate => SucceededTaskIsClosed' /\ SuccessIsClosed'
      BY <2>2 DEF vars, ClosedInv, SucceededTaskIsClosed, SuccessIsClosed, Held, OpenTeam
    <3> QED
      BY <2>1, <3>1, <3>2 DEF ClosedInv, NobodyOpensLate
  <2>3. CASE Next
    <3>1. /\ TypeOK /\ SweepLocks /\ TurnsAreBehind /\ TurnsAreDistinct /\ CancelFits /\ ToolsOnly
          /\ OwnerFits /\ NobodyCancelled
      BY DEF ClosedInv, LeaseInv, TreeInv
    <3>2. ToolsOnly' /\ OwnerFits' /\ NobodyCancelled'
      BY <2>3, <3>1, Remembers, OwnerFitsStays, NobodyCancels DEF ToolsOnly, ToolMove
    <3>3. RowMoves /\ (TurnMoves \/ \E t \in Turns, n \in Nodes : Claim(t, n))
      BY <2>3, NextKeeps DEF ClosedInv, LeaseInv, TreeInv, Keeps
    <3>4. ASSUME spent'.stalls = 0, NobodyOpensLate PROVE SucceededTaskIsClosed' /\ SuccessIsClosed'
      <4>1. spent.stalls = 0
        BY <2>3, <3>1, <3>4, NoStallBefore
      <4>2. BusyHolds /\ SucceededTaskIsClosed /\ SuccessIsClosed
        BY <3>4, <4>1 DEF ClosedInv, LeaseInv, LeasesAgree
      <4> QED
        BY <2>3, <3>1, <3>3, <3>4, <4>2, SuccessStaysClosed, SucceededStaysClosed
    <3> QED
      BY <2>1, <3>2, <3>4 DEF ClosedInv, NobodyOpensLate
  <2> QED
    BY <2>2, <2>3
<1> QED
  BY <1>1, <1>2, PTL DEF Spec

(* As long as no worker stalled past its lease, and nobody adds or runs    *)
(* again a subtask from outside (the owner by a request, or a teammate     *)
(* whose node the owner has cancelled under it), a task that succeeded     *)
(* has no open subtask: concluding the lead's turn and settling it are     *)
(* two statements, and no turn comes between.                              *)
THEOREM SucceededTasksAreClosed ==
    Spec => [](spent.stalls = 0 /\ NobodyOpensLate => SucceededTaskIsClosed)
<1>1. ClosedInv => (spent.stalls = 0 /\ NobodyOpensLate => SucceededTaskIsClosed)
  BY DEF ClosedInv
<1> QED
  BY <1>1, ClosedInvariance, PTL
-----------------------------------------------------------------------------
(* Wakes. Whom planWakes names, said of the rows; and Asleep, that it      *)
(* names nobody, deadlines aside.                                          *)
Stirs(n, lateNow) ==
    \/ \E m \in row[n].waitFor.targets \intersect Tree : row[m].status = "failed"
    \/ \A m \in row[n].waitFor.targets \intersect Tree : ~IsOpen(row[m].status)
    \/ row[n].waitFor.until = "progress" /\ row[n].waitFor.targets \intersect row[n].waitFor.heard # {}
    \/ n \in lateNow
Due(lateNow) ==
    {n \in OpenTeam : row[n].status = "waiting_team" /\ row[n].waitFor # NoWait /\ Stirs(n, lateNow)}
ToWake(lateNow) ==
    IF OpenTeam = {} THEN {n \in {Root} : row[n].status = "waiting_children"}
    ELSE IF Due(lateNow) # {} THEN Due(lateNow)
    ELSE {n \in OpenTeam : \A m \in OpenTeam : row[m].status = "waiting_team"}

Asleep ==
    /\ OpenTeam = {} => row[Root].status # "waiting_children"
    /\ Due({}) = {}
    /\ OpenTeam # {} => \E n \in OpenTeam : row[n].status # "waiting_team"

(* What wakeTree does, said without its fold.                              *)
LEMMA WhoIsWoken ==
    ASSUME RowsTyped, NEW lateNow \in SUBSET Nodes, NEW n \in Nodes
    PROVE  AfterWake(lateNow)[n] =
               IF n \in ToWake(lateNow)
               THEN [row[n] EXCEPT !.status = "queued", !.version = row[n].version + 1,
                                   !.waitFor = NoWait, !.deadline = FALSE]
               ELSE row[n]
<1> DEFINE waits == [m \in Tree |-> row[m].waitFor]
           wakes == PlanWakes(Root, StatusOf, waits, lateNow)
           status == Woken(StatusOf, wakes)
<1>1. AfterWake(lateNow)[n] =
            IF n \in Tree /\ status[n] # row[n].status
            THEN [row[n] EXCEPT !.status = status[n], !.version = row[n].version + 1,
                                !.waitFor = NoWait, !.deadline = FALSE]
            ELSE row[n]
  BY DEF AfterWake
<1>2. /\ \A m \in Tree : StatusOf[m] = row[m].status /\ waits[m] = row[m].waitFor
      /\ DOMAIN StatusOf = Tree /\ DOMAIN waits = Tree /\ Tree \subseteq Nodes
  BY DEF StatusOf, Tree
<1>3. OpenTeam \subseteq Tree /\ OpenChildren(Root, StatusOf) = OpenTeam
  <2>1. OpenChildren(Root, StatusOf) = OpenTeam
    BY OpenTeamIs DEF OpenSubtasks
  <2> QED
    BY <1>2, <2>1 DEF OpenChildren
<1>4. \A m \in Tree : WakeReason(m, StatusOf, waits, lateNow) # "none" <=> Stirs(m, lateNow)
  <2> SUFFICES ASSUME NEW m \in Tree
               PROVE  WakeReason(m, StatusOf, waits, lateNow) # "none" <=> Stirs(m, lateNow)
    OBVIOUS
  <2> DEFINE known == KnownTargets(m, StatusOf, waits)
  <2>1. known = row[m].waitFor.targets \intersect Tree
    BY <1>2 DEF KnownTargets
  <2>2. \A k \in known : StatusOf[k] = row[k].status
    BY <1>2, <2>1
  <2>3. waits[m] = row[m].waitFor
    BY <1>2
  <2> HIDE DEF waits
  <2>4. WakeReason(m, StatusOf, waits, lateNow) # "none" <=>
            \/ \E k \in known : StatusOf[k] = "failed"
            \/ \A k \in known : ~IsOpen(StatusOf[k])
            \/ waits[m].until = "progress" /\ waits[m].targets \intersect waits[m].heard # {}
            \/ m \in lateNow
    BY DEF WakeReason
  <2> HIDE DEF known
  <2> QED
    BY <2>1, <2>2, <2>3, <2>4 DEF Stirs
<1> DEFINE due == {m \in Waiters(Root, StatusOf, waits) : WakeReason(m, StatusOf, waits, lateNow) # "none"}
<1>5. due = Due(lateNow)
  <2>1. Waiters(Root, StatusOf, waits) =
            {m \in OpenTeam : row[m].status = "waiting_team" /\ row[m].waitFor # NoWait}
    BY <1>2, <1>3 DEF Waiters
  <2> QED
    BY <1>3, <1>4, <2>1 DEF Due
<1>6. Stalemate(Root, StatusOf) <=> \A m \in OpenTeam : row[m].status = "waiting_team"
  BY <1>2, <1>3 DEF Stalemate
<1>7. DOMAIN wakes = IF OpenTeam = {} THEN {m \in {Root} : StatusOf[m] = "waiting_children"}
                     ELSE IF Due(lateNow) # {} THEN Due(lateNow)
                     ELSE {m \in OpenTeam : Stalemate(Root, StatusOf)}
  BY <1>3, <1>5 DEF PlanWakes
<1>8. ASSUME n \in Tree PROVE n \in DOMAIN wakes <=> n \in ToWake(lateNow)
  BY <1>2, <1>6, <1>7, <1>8 DEF ToWake
<1>9. n \in ToWake(lateNow) => n \in Tree /\ row[n].status \in {"waiting_team", "waiting_children"}
  <2>1. n \in ToWake(lateNow) => row[n].status \in {"waiting_team", "waiting_children"}
    BY DEF ToWake, Due
  <2> QED
    BY <2>1 DEF Tree
<1>10. n \in Tree => status[n] = IF n \in DOMAIN wakes /\ row[n].status \in {"waiting_team", "waiting_children"}
                                THEN "queued" ELSE row[n].status
  BY <1>2 DEF Woken
<1> HIDE DEF wakes, status
<1>11. CASE n \in ToWake(lateNow)
  <2>1. n \in Tree /\ status[n] = "queued" /\ status[n] # row[n].status
    BY <1>8, <1>9, <1>10, <1>11
  <2> QED
    BY <1>1, <1>11, <2>1
<1>12. CASE n \notin ToWake(lateNow)
  <2>1. n \in Tree => status[n] = row[n].status
    BY <1>8, <1>10, <1>12
  <2> QED
    BY <1>1, <1>12, <2>1
<1> QED
  BY <1>11, <1>12

(* Where nobody is to be woken, wakeTree wakes nobody.                     *)
LEMMA AsleepIsStill ==
    ASSUME RowsTyped, Asleep
    PROVE  AfterWake({}) = row
<1>1. ToWake({}) = {}
  BY DEF ToWake, Asleep
<1>2. \A n \in Nodes : AfterWake({})[n] = row[n]
  BY <1>1, WhoIsWoken
<1>3. AfterWake({}) = [n \in Nodes |-> AfterWake({})[n]] /\ row = [n \in Nodes |-> row[n]]
  BY DEF AfterWake, RowsTyped
<1> QED
  BY <1>2, <1>3

(* One wake is enough: whoever it leaves waiting has nothing to wake for.  *)
LEMMA WakingIsEnough ==
    ASSUME RowsTyped, WakeTree
    PROVE  Asleep'
<1>1. PICK lateNow \in SUBSET Deadlined : row' = AfterWake(lateNow)
  BY DEF WakeTree
<1>2. lateNow \in SUBSET Nodes /\ Children \subseteq Nodes /\ Root \in Nodes
  BY DEF Deadlined, Tree, Nodes
<1>3. \A n \in Nodes : row'[n] = IF n \in ToWake(lateNow)
               THEN [row[n] EXCEPT !.status = "queued", !.version = row[n].version + 1,
                                   !.waitFor = NoWait, !.deadline = FALSE]
               ELSE row[n]
  BY <1>1, <1>2, WhoIsWoken
<1>4. \A n \in Nodes : n \in ToWake(lateNow) => row'[n].status = "queued"
  BY <1>3 DEF RowsTyped, Rows
<1>5. \A n \in ToWake(lateNow) : row[n].status \in {"waiting_team", "waiting_children"}
  BY DEF ToWake, Due
<1>6. \A n \in Nodes : /\ IsOpen(row'[n].status) <=> IsOpen(row[n].status)
                       /\ row'[n].status = "failed" <=> row[n].status = "failed"
                       /\ row'[n].status = "absent" <=> row[n].status = "absent"
  BY <1>3, <1>4, <1>5 DEF IsOpen, OpenStatuses
<1>7. OpenTeam' = OpenTeam /\ Tree' = Tree
  BY <1>2, <1>6 DEF OpenTeam, Tree
<1>8. CASE OpenTeam = {}
  <2>1. row'[Root].status # "waiting_children"
    BY <1>2, <1>3, <1>4, <1>8 DEF ToWake
  <2>2. Due({})' = {}
    BY <1>7, <1>8 DEF Due
  <2> QED
    BY <1>7, <1>8, <2>1, <2>2 DEF Asleep
<1>9. CASE OpenTeam # {}
  <2>1. ASSUME NEW n \in Due({})' PROVE FALSE
    <3>1. n \in Nodes /\ row'[n].status = "waiting_team" /\ n \in OpenTeam /\ row'[n].waitFor # NoWait
      BY <1>2, <1>7, <2>1 DEF Due, OpenTeam
    <3>2. row'[n] = row[n] /\ n \notin ToWake(lateNow)
      BY <1>3, <1>4, <3>1
    <3>3. row[n].waitFor.targets \in SUBSET Nodes
      BY <3>1 DEF RowsTyped, Rows, Waits
    <3>4. Stirs(n, {})' => Stirs(n, {})
      BY <1>6, <1>7, <3>2, <3>3 DEF Stirs
    <3>5. Stirs(n, {}) => Stirs(n, lateNow)
      BY DEF Stirs
    <3>6. n \in Due(lateNow)
      BY <2>1, <3>1, <3>2, <3>4, <3>5 DEF Due
    <3> QED
      BY <1>9, <3>2, <3>6 DEF ToWake
  <2>2. \E n \in OpenTeam : row'[n].status # "waiting_team"
    <3>1. CASE ToWake(lateNow) # {}
      <4>1. PICK n \in ToWake(lateNow) : TRUE
        BY <3>1
      <4>2. n \in OpenTeam
        BY <1>9, <4>1 DEF ToWake, Due
      <4> QED
        BY <1>2, <1>4, <4>1, <4>2 DEF OpenTeam
    <3>2. CASE ToWake(lateNow) = {}
      <4>1. \E n \in OpenTeam : row[n].status # "waiting_team"
        BY <1>9, <3>2 DEF ToWake
      <4> QED
        BY <1>2, <1>3, <3>2, <4>1 DEF OpenTeam
    <3> QED
      BY <3>1, <3>2
  <2> QED
    BY <1>7, <1>9, <2>1, <2>2 DEF Asleep
<1> QED
  BY <1>8, <1>9

(* What leaves a sleeping task asleep.                                     *)
Calm ==
    /\ \A n \in Nodes :
        /\ IsOpen(row[n].status) => IsOpen(row'[n].status)
        /\ row[n].status = "absent" => row'[n].status = "absent" \/ IsOpen(row'[n].status)
        /\ row'[n].status = "failed" => row[n].status = "failed"
        /\ row'[n].status = "waiting_team" => row[n].status = "waiting_team" /\ row'[n].waitFor = row[n].waitFor
    /\ row'[Root].status = "waiting_children" =>
          row[Root].status = "waiting_children" \/ \E c \in Children : IsOpen(row'[c].status)

(* Calm steps make nobody due.                                             *)
LEMMA CalmStaysAsleep ==
    ASSUME RowsTyped, Asleep, Calm
    PROVE  Asleep'
<1>1. Children \subseteq Nodes /\ Root \in Nodes
  BY DEF Nodes
<1>2. OpenTeam \subseteq OpenTeam'
  BY <1>1 DEF OpenTeam, Calm
<1>3. OpenTeam' = {} => row'[Root].status # "waiting_children"
  BY <1>2 DEF Asleep, Calm, OpenTeam
<1>4. ASSUME NEW n \in Due({})' PROVE FALSE
  <2>1. n \in Children /\ n \in Nodes /\ row'[n].status = "waiting_team" /\ row'[n].waitFor # NoWait /\ Stirs(n, {})'
    BY <1>1, <1>4 DEF Due, OpenTeam
  <2>2. row[n].status = "waiting_team" /\ row'[n].waitFor = row[n].waitFor
    BY <2>1 DEF Calm
  <2>3. ~Stirs(n, {})
    BY <2>1, <2>2 DEF Asleep, Due, OpenTeam, IsOpen, OpenStatuses
  <2>4. row[n].waitFor.targets \in SUBSET Nodes
    BY <2>1 DEF RowsTyped, Rows, Waits
  <2>5. \A m \in Nodes : /\ row'[m].status = "failed" => row[m].status = "failed" /\ m \in Tree
                         /\ m \in Tree /\ IsOpen(row[m].status) => m \in Tree' /\ IsOpen(row'[m].status)
    BY DEF Calm, Tree, IsOpen, OpenStatuses
  <2> QED
    BY <2>1, <2>2, <2>3, <2>4, <2>5 DEF Stirs
<1>5. OpenTeam' # {} => \E n \in OpenTeam' : row'[n].status # "waiting_team"
  <2>1. CASE OpenTeam = {}
    BY <1>1, <2>1 DEF Calm, OpenTeam, IsOpen, OpenStatuses
  <2>2. CASE OpenTeam # {}
    BY <1>1, <1>2, <2>2 DEF Asleep, Calm, OpenTeam
  <2> QED
    BY <2>1, <2>2
<1> QED
  BY <1>3, <1>4, <1>5 DEF Asleep

(* No wake is under way, and none went with a worker.                      *)
NoWakeDue ==
    spent.crashes = 0 /\ wakesDue = 0 /\ \A t \in Turns : turn[t].pc \notin {"posted", "waking"}
NonePosted == \A t \in Turns : turn[t].pc # "posted"

(* Who posts to the board lives to make the wakes of the post, if nothing  *)
(* ends the turn in between: no stall, and no request that cancels.        *)
PostersGoOn == "post" \notin Tools \/ (spent.stalls = 0 /\ OwnerOps \intersect Cancelling = {})

WakeInv ==
    /\ LeaseInv /\ ToolsOnly /\ OwnerFits /\ NobodyCancelled
    /\ "post" \notin Tools => NonePosted
    /\ PostersGoOn /\ NoWakeDue => Asleep

(* A turn that posted goes on to make the wakes; it can be stopped before  *)
(* only if it lost the node or the conversation, or its worker stops.      *)
LEMMA PostedGoesOn ==
    ASSUME TurnsTyped, sweep.node \in Nodes, Next, NEW t \in Turns,
           turn[t].pc = "posted", turn'[t].pc # "posted"
    PROVE  PostWakes(t) \/ AbortLost(t) \/ Shutdown(t) \/ Crash(t)
<1>1. ASSUME NEW u \in Turns \ {t}, TurnStep(u) \/ Crash(u) \/ Shutdown(u) PROVE FALSE
  BY <1>1, TurnPcs DEF OthersStay
<1>2. CASE TurnStep(t)
  <2>1. CASE ToolStep(t)
    BY <2>1 DEF ToolStep, CallTool, ToolReturns, ToolOutOfQuota, WriteUnknown, AskUser, Post,
         FinishTask, WaitForTeam, CreateSubtasks, RetryByTeam, Calling
  <2>2. CASE StopStep(t)
    BY <2>2 DEF StopStep, EndTurn, StopWhenPaused, LoseLease
  <2>3. CASE AfterTurn(t)
    BY <2>3 DEF AfterTurn, EndRun, Conclude, Settle, TurnWakes
  <2>4. ASSUME NEW n \in Nodes, Claim(t, n) PROVE FALSE
    BY <2>4 DEF Claim
  <2>5. CASE Renew(t) \/ TakeConversation(t) \/ ConversationBusy(t)
    BY <2>5 DEF Renew, TakeConversation, ConversationBusy
  <2> QED
    BY <1>2, <2>1, <2>2, <2>3, <2>4, <2>5 DEF TurnStep
<1>3. turn' # turn
  OBVIOUS
<1>4. ASSUME NEW u \in Turns, TurnStep(u) \/ Crash(u) \/ Shutdown(u)
      PROVE  PostWakes(t) \/ AbortLost(t) \/ Shutdown(t) \/ Crash(t)
  BY <1>1, <1>2, <1>4
<1>5. ~SweepActs
  BY CloseStepsTyped DEF SweepActs
<1>6. \A u \in Turns : ~Verify(u)
  BY DEF Verify, TurnsTyped, TurnRecords
<1>7. ~SweepStep
  BY <1>3, <1>5 DEF SweepStep, SweepLooks, WakeDue, TimerWakes
<1>8. \A n \in Nodes : ~LeaseLapses(n) /\ ~ConversationStale(n)
  BY <1>3 DEF LeaseLapses, ConversationStale
<1>9. ~OwnerStep
  BY <1>3, <1>6 DEF OwnerStep, CancelLooks, CancelActs, CancelSubtaskLooks, CancelSubtaskActs,
     Answer, RetryTask, RetrySubtask, FollowUp, AddSubtask, Resume
<1> QED
  BY <1>4, <1>7, <1>8, <1>9 DEF Next, TimeStep

(* No step but a wake ends the wakes that were due.                        *)
LEMMA NothingWasDue ==
    ASSUME TypeOK, \A t \in Turns : turn[t].pc = "posted" => ~AbortLost(t),
           Next, ~WakeTree, NoWakeDue'
    PROVE  NoWakeDue
<1>1. TurnsTyped /\ sweep.node \in Nodes /\ wakesDue \in Nat
      /\ spent \in [owner : Nat, crashes : Nat, stalls : Nat] /\ spent.crashes \in Nat
  BY DEF TypeOK, TurnsTyped
<1>2. /\ \/ spent' = spent \/ spent' = [spent EXCEPT !.owner = @ + 1]
         \/ spent' = [spent EXCEPT !.crashes = @ + 1] \/ spent' = [spent EXCEPT !.stalls = @ + 1]
      /\ wakesDue' \in {wakesDue, wakesDue + 1}
  <2>1. ASSUME NEW t \in Turns, TurnStep(t)
        PROVE  (spent' = spent \/ spent' = [spent EXCEPT !.crashes = @ + 1]) /\ wakesDue' = wakesDue
    BY <2>1 DEF TurnStep, ToolStep, StopStep, AfterTurn, Claim, TakeConversation, ConversationBusy,
       Renew, CallTool, ToolReturns, ToolOutOfQuota, WriteUnknown, AskUser, Post, PostWakes,
       FinishTask, WaitForTeam, CreateSubtasks, RetryByTeam, EndTurn, StopWhenPaused, LoseLease,
       AbortLost, EndRun, Conclude, Settle, TurnWakes
  <2>2. CASE SweepStep \/ TimeStep
    BY <2>2 DEF SweepStep, SweepLooks, SweepActs, WakeDue, TimerWakes, TimeStep, LeaseLapses,
       ConversationStale, Crash, Shutdown, Stall, WakeLater
  <2>3. CASE OwnerStep
    BY <2>3 DEF OwnerStep, CancelLooks, CancelActs, CancelSubtaskLooks, OwnerActs, WakeLater,
       CancelSubtaskActs, Answer, RetryTask, RetrySubtask, FollowUp, AddSubtask, Resume, Verify
  <2> QED
    BY <2>1, <2>2, <2>3 DEF Next
<1>3. spent.crashes = 0 /\ spent' # [spent EXCEPT !.crashes = @ + 1]
  <2>1. spent'.crashes = 0
    BY DEF NoWakeDue
  <2> QED
    BY <1>1, <1>2, <2>1
<1>4. wakesDue = 0
  BY <1>1, <1>2 DEF NoWakeDue
<1>5. ASSUME NEW t \in Turns, turn[t].pc = "waking" PROVE FALSE
  <2>1. PcMove(t) /\ turn'[t].pc # "waking"
    BY <1>1, PcMoves DEF NoWakeDue
  <2>2. ~TurnWakes(t) /\ ~Crash(t)
    BY <1>3 DEF TurnWakes, Crash
  <2> QED
    BY <1>5, <2>1, <2>2 DEF PcMove, Claim, TakeConversation, EndRun, Settle, AtWork
<1>6. ASSUME NEW t \in Turns, turn[t].pc = "posted" PROVE FALSE
  <2>1. PostWakes(t) \/ AbortLost(t) \/ Shutdown(t) \/ Crash(t)
    BY <1>1, <1>6, PostedGoesOn DEF NoWakeDue
  <2> QED
    BY <1>3, <1>6, <2>1 DEF PostWakes, Shutdown, Crash
<1> QED
  BY <1>3, <1>4, <1>5, <1>6 DEF NoWakeDue

(* Steps that start or queue a node, or add one, are calm.                 *)
LEMMA CalmMoves ==
    ASSUME \/ \A n \in Nodes : row'[n].status = row[n].status
                               /\ (row[n].status = "waiting_team" => row'[n].waitFor = row[n].waitFor)
           \/ \E n \in Nodes : \E from \in {"queued", "running", "failed", "succeeded"} :
                  \E to \in {"queued", "running"} : MovesOnly(n, from, to)
           \/ \E new \in SUBSET Children : AddsOnly(new)
    PROVE  Calm
<1>1. Root \in Nodes /\ Children \subseteq Nodes /\ Root \notin Children
  BY TreeAssumption DEF Nodes
<1>2. CASE \A n \in Nodes : row'[n].status = row[n].status
                            /\ (row[n].status = "waiting_team" => row'[n].waitFor = row[n].waitFor)
  BY <1>1, <1>2 DEF Calm
<1>3. CASE \E n \in Nodes : \E from \in {"queued", "running", "failed", "succeeded"} :
                  \E to \in {"queued", "running"} : MovesOnly(n, from, to)
  BY <1>1, <1>3 DEF Calm, MovesOnly, IsOpen, OpenStatuses
<1>4. CASE \E new \in SUBSET Children : AddsOnly(new)
  BY <1>1, <1>4 DEF Calm, AddsOnly, IsOpen, OpenStatuses
<1> QED
  BY <1>2, <1>3, <1>4

(* Whoever may have stirred somebody still has a wake to make.             *)
LEMMA StirredIsDue ==
    ASSUME TypeOK, SweepLocks, CancelFits, Next, ~WakeTree, NoWakeDue'
    PROVE  Calm \/ CancelActs
<1>1. /\ RowsTyped /\ TurnsTyped /\ sweep.node \in Nodes /\ owner.node \in Nodes /\ wakesDue \in Nat
      /\ Root \in Nodes /\ Children \subseteq Nodes /\ Root \notin Children
      /\ wakesDue' = 0
  BY TreeAssumption DEF TypeOK, RowsTyped, TurnsTyped, Nodes, NoWakeDue
<1>2. ASSUME UNCHANGED row PROVE Calm
  BY <1>2, CalmMoves
<1>3. ASSUME NEW t \in Turns, TurnStep(t) PROVE Calm
  <2> DEFINE n == turn[t].node
  <2>1. turn[t] \in TurnRecords /\ n \in Nodes /\ row[n] \in Rows
    BY <1>1 DEF TurnsTyped, TurnRecords, RowsTyped
  <2>2. ASSUME NEW m \in Nodes, Claim(t, m) PROVE Calm
    BY <1>1, <2>2, ClaimStatuses, CalmMoves
  <2>3. CASE ConversationBusy(t)
    <3>1. CASE Held(t)
      <4>1. row' = Update(n, Requeue(n)) /\ row[n].status = "running"
        BY <2>3, <3>1 DEF ConversationBusy, Held
      <4>2. Requeue(n) \in Rows /\ Requeue(n).status = "queued"
        BY <2>1 DEF Requeue, Rows, Statuses, AssignmentStatus
      <4>3. MovesOnly(n, "running", "queued")
        BY <1>1, <2>1, <4>1, <4>2, UpdateIsLocal DEF MovesOnly
      <4> QED
        BY <2>1, <4>3, CalmMoves
    <3> QED
      BY <1>2, <2>3, <3>1 DEF ConversationBusy
  <2>4. CASE Settle(t)
    <3>1. turn'[t].pc = "waking"
      BY <1>1, <2>4 DEF Settle, TurnsTyped, TurnRecords
    <3> QED
      BY <3>1 DEF NoWakeDue
  <2>5. ~PostWakes(t) /\ ~TurnWakes(t) /\ ~Post(t)
    <3>1. Post(t) => turn'[t].pc = "posted"
      BY <1>1 DEF Post, TurnsTyped
    <3> QED
      BY <3>1 DEF PostWakes, TurnWakes, NoWakeDue
  <2>6. ASSUME NEW outcome \in {"done", "blocked"}, FinishTask(t, outcome) PROVE Calm
    <3>1. row' = [row EXCEPT ![n] = [row[n] EXCEPT !.endIntent = outcome]]
      BY <2>6 DEF FinishTask
    <3>2. \A m \in Nodes : row'[m].status = row[m].status /\ row'[m].waitFor = row[m].waitFor
      BY <1>1, <2>1, <3>1 DEF RowsTyped, Rows
    <3> QED
      BY <3>2, CalmMoves
  <2>7. ASSUME NEW until \in Untils, NEW targets \in SUBSET Children, NEW deadline \in Deadlines,
               WaitForTeam(t, until, targets, deadline)
        PROVE  Calm
    <3> DEFINE wait == [until |-> until, targets |-> targets, heard |-> {}]
               new == [row[n] EXCEPT !.endIntent = "wait", !.deadline = deadline, !.waitFor = wait]
    <3>1. row' = row \/ (row' = [row EXCEPT ![n] = new] /\ row[n].status = "running")
      BY <1>1, <2>1, <2>7 DEF WaitForTeam, RowsTyped, HeldByStatus
    <3>2. new.status = row[n].status
      BY <2>1 DEF Rows
    <3> HIDE DEF new
    <3>3. \A m \in Nodes : row'[m].status = row[m].status
                           /\ (row[m].status = "waiting_team" => row'[m].waitFor = row[m].waitFor)
      BY <1>1, <2>1, <3>1, <3>2 DEF RowsTyped
    <3> QED
      BY <3>3, CalmMoves
  <2>8. ASSUME NEW new \in SUBSET Children, CreateSubtasks(t, new) PROVE Calm
    <3>1. row' = Added(new) /\ IsOpen(row[Root].status) /\ new \subseteq Children \ Tree
      BY <2>8 DEF CreateSubtasks
    <3>2. AddsOnly(new)
      BY <3>1 DEF Added, AddsOnly, Tree, NewRow, Nodes
    <3> QED
      BY <3>2, CalmMoves
  <2>9. ASSUME NEW c \in Children, RetryByTeam(t, c) PROVE Calm
    <3>1. row[c].status = "failed" /\ row'[c].status # "failed"
      <4> DEFINE new == [Requeue(c) EXCEPT !.retries = @ + 1, !.reason = "none", !.endIntent = "none"]
      <4>1. row' = Update(c, new) /\ row[c].status = "failed" /\ row[c] \in Rows
        BY <1>1, <2>9 DEF RetryByTeam, RowsTyped
      <4>2. row'[c] = [new EXCEPT !.version = row[c].version + 1]
        BY <1>1, <4>1 DEF Update, RowsTyped
      <4>3. Requeue(c) \in Rows /\ Requeue(c).status = "queued"
        BY <4>1 DEF Requeue, Rows, Statuses, AssignmentStatus
      <4>4. new.status = "queued" /\ DOMAIN new = DOMAIN Requeue(c)
        BY <4>3 DEF Rows
      <4>5. row'[c].status = "queued"
        BY <4>2, <4>3, <4>4 DEF Rows
      <4> QED
        BY <4>1, <4>5
    <3>2. \/ SameStatuses
          \/ \E m \in Nodes : Claim(t, m) /\ MovesOnly(m, "queued", "running")
          \/ MovesOnly(n, "running", "queued")
          \/ MovesOnly(n, "running", SettleTo(turn[t].decision))
          \/ WakesSome
          \/ \E new \in SUBSET Children : AddsOnly(new)
          \/ \E k \in Children : MovesOnly(k, "failed", "queued")
      BY <1>1, <1>3, TurnStatuses
    <3>3. \E k \in Children : MovesOnly(k, "failed", "queued")
      BY <1>1, <3>1, <3>2 DEF SameStatuses, MovesOnly, WakesSome, AddsOnly
    <3> QED
      BY <1>1, <3>3, CalmMoves
  <2>10. \/ UNCHANGED row
         \/ \E m \in Nodes : Claim(t, m)
         \/ ConversationBusy(t) \/ Settle(t) \/ PostWakes(t) \/ TurnWakes(t) \/ Post(t)
         \/ \E outcome \in {"done", "blocked"} : FinishTask(t, outcome)
         \/ \E until \in Untils, targets \in SUBSET Children, deadline \in Deadlines :
              WaitForTeam(t, until, targets, deadline)
         \/ \E new \in SUBSET Children : CreateSubtasks(t, new)
         \/ \E c \in Children : RetryByTeam(t, c)
    BY <1>3 DEF TurnStep, ToolStep, StopStep, AfterTurn, TakeConversation, Renew, CallTool, ToolReturns,
         ToolOutOfQuota, WriteUnknown, AskUser, EndTurn, StopWhenPaused, LoseLease, AbortLost,
         EndRun, Conclude
  <2> QED
    BY <1>2, <2>2, <2>3, <2>4, <2>5, <2>6, <2>7, <2>8, <2>9, <2>10
<1>4. CASE SweepStep
  <2>1. ~SweepActs /\ ~WakeDue /\ ~TimerWakes
    BY <1>1 DEF SweepActs, WakeDue, TimerWakes, WakeLater
  <2> QED
    BY <1>2, <1>4, <2>1 DEF SweepStep, SweepLooks
<1>5. CASE TimeStep
  BY <1>2, <1>5 DEF TimeStep, LeaseLapses, ConversationStale, Crash, Shutdown
<1>6. CASE OwnerStep /\ ~CancelActs
  <2>1. \A n \in Nodes, choice \in {"continue", "skip", "end"} : ~Answer(n, choice)
    BY <1>1 DEF Answer, WakeLater
  <2>2. CancelSubtaskActs => UNCHANGED row
    BY <1>1 DEF CancelSubtaskActs, WakeLater
  <2>3. CASE (RetryTask \/ FollowUp) /\ MovesOnly(Root, row[Root].status, "queued")
             /\ row[Root].status \in {"succeeded", "failed"}
    BY <1>1, <2>3, CalmMoves
  <2>4. ASSUME NEW c \in Children, row[c].status = "failed", row'[c].status = "queued",
               \A m \in Children \ {c} : row'[m] = row[m],
               \/ row'[Root] = row[Root]
               \/ row[Root].status \in {"succeeded", "failed"} /\ row'[Root].status = "waiting_children"
        PROVE  Calm
    <3>1. IsOpen(row'[c].status) /\ c \in Nodes
      BY <1>1, <2>4 DEF IsOpen, OpenStatuses
    <3>2. \A n \in Nodes : n = c \/ row'[n] = row[n]
             \/ (n = Root /\ row[n].status \in {"succeeded", "failed"}
                 /\ row'[n].status = "waiting_children")
      BY <2>4 DEF Nodes
    <3> QED
      BY <1>1, <2>4, <3>1, <3>2 DEF Calm, IsOpen, OpenStatuses
  <2>5. ASSUME NEW c \in Children, AddsOnly({c}) PROVE Calm
    BY <2>5, CalmMoves
  <2>6. CASE CancelLooks \/ (\E c \in Children : CancelSubtaskLooks(c)) \/ Resume \/ \E t \in Turns : Verify(t)
    BY <1>2, <2>6 DEF CancelLooks, CancelSubtaskLooks, Resume, Verify
  <2> QED
    BY <1>1, <1>2, <1>6, <2>1, <2>2, <2>3, <2>4, <2>5, <2>6, OwnerStatuses
<1> QED
  BY <1>3, <1>4, <1>5, <1>6 DEF Next

(* After the whole task is cancelled nobody waits.                         *)
LEMMA CancelledIsAsleep ==
    ASSUME TypeOK, CancelFits, CancelActs
    PROVE  Asleep'
<1>1. RowsTyped /\ owner.node \in Nodes /\ Root \in Nodes /\ Children \subseteq Nodes
  BY DEF TypeOK, RowsTyped, Nodes
<1>2. CancelsOnly(Nodes)
  <2>1. \A n \in Nodes : n \notin Tree => ~IsOpen(row[n].status)
    BY DEF Tree, IsOpen, OpenStatuses
  <2>2. \A n \in Nodes : row'[n] = IF n \in Tree /\ IsOpen(row[n].status)
          THEN [row[n] EXCEPT !.status = "cancelled", !.version = row[n].version + 1] ELSE row[n]
    BY DEF CancelActs, Cancelled
  <2> QED
    BY <1>1, <2>1, <2>2 DEF CancelsOnly, RowsTyped, Rows
<1>3. OpenTeam' = {} /\ row'[Root].status # "waiting_children"
  BY <1>1, <1>2 DEF CancelsOnly, OpenTeam, IsOpen, OpenStatuses
<1> QED
  BY <1>3 DEF Asleep, Due

(* While posters go on, none of them is stopped before it has waked.       *)
LEMMA PostersAreNotStopped ==
    ASSUME WakeInv, PostersGoOn
    PROVE  \A t \in Turns : turn[t].pc = "posted" => ~AbortLost(t)
<1> SUFFICES ASSUME NEW t \in Turns, turn[t].pc = "posted" PROVE Held(t) /\ HoldsLease(t)
  BY DEF AbortLost
<1>1. spent.stalls = 0 /\ OwnerOps \intersect Cancelling = {}
  BY DEF WakeInv, PostersGoOn, NonePosted
<1>2. BusyHolds /\ HeldTurnHoldsLease /\ turn[t].node \in Nodes
  BY <1>1 DEF WakeInv, LeaseInv, LeasesAgree, TreeInv, TypeOK, TurnRecords
<1>3. Held(t)
  BY <1>1, <1>2 DEF BusyHolds, Busy, Live, WakeInv, NobodyCancelled
<1> QED
  BY <1>2, <1>3 DEF HeldTurnHoldsLease

(* Where posters go on and no worker died, nobody sleeps through a wake.   *)
THEOREM WakeInvariance == Spec => []WakeInv
<1>1. Init => WakeInv
  <2> SUFFICES ASSUME Init PROVE WakeInv
    OBVIOUS
  <2>1. ToolsOnly /\ NonePosted /\ OwnerFits /\ NobodyCancelled
    BY DEF Init, ToolsOnly, NonePosted, OwnerFits, NoCancel, NobodyCancelled, NewRow
  <2>2. \A n \in Nodes : row[n].status = IF n = Root /\ Started # {} THEN "waiting_children"
                       ELSE IF n \in Started \union {Root} THEN "queued" ELSE "absent"
    BY DEF Init, NewRow
  <2>3. OpenTeam = Started
    BY <2>2, TreeAssumption DEF OpenTeam, Nodes, IsOpen, OpenStatuses
  <2>4. Asleep
    <3>1. Started # {} => \E n \in OpenTeam : row[n].status # "waiting_team"
      BY <2>2, <2>3, TreeAssumption DEF Nodes
    <3>2. Due({}) = {}
      BY <2>2, <2>3, TreeAssumption DEF Due, Nodes
    <3>3. OpenTeam = {} => row[Root].status # "waiting_children"
      BY <2>2, <2>3, RootIsNode
    <3> QED
      BY <2>3, <3>1, <3>2, <3>3 DEF Asleep
  <2> QED
    BY <2>1, <2>4, InitLease DEF WakeInv
<1>2. WakeInv /\ [Next]_vars => WakeInv'
  <2> SUFFICES ASSUME WakeInv, [Next]_vars PROVE WakeInv'
    OBVIOUS
  <2>1. /\ LeaseInv' /\ RowsTyped /\ TurnsTyped /\ sweep.node \in Nodes
        /\ TypeOK /\ SweepLocks /\ CancelFits /\ ToolsOnly /\ OwnerFits /\ NobodyCancelled
    BY NextLease DEF WakeInv, LeaseInv, TreeInv, TypeOK, RowsTyped, TurnsTyped
  <2>2. CASE UNCHANGED vars
    <3>1. ToolsOnly' /\ OwnerFits' /\ NobodyCancelled' /\ (NonePosted => NonePosted')
      BY <2>1, <2>2 DEF vars, ToolsOnly, OwnerFits, NobodyCancelled, NonePosted
    <3>2. (NoWakeDue' => NoWakeDue) /\ (PostersGoOn' => PostersGoOn)
      BY <2>2 DEF vars, NoWakeDue, PostersGoOn
    <3>3. Asleep => Asleep'
      BY <2>2 DEF vars, Asleep, OpenTeam, Due, Stirs, Tree
    <3> QED
      BY <2>1, <3>1, <3>2, <3>3 DEF WakeInv
  <2>3. CASE Next
    <3>1. ToolsOnly' /\ OwnerFits' /\ NobodyCancelled'
      BY <2>1, <2>3, Remembers, OwnerFitsStays, NobodyCancels DEF ToolsOnly, ToolMove
    <3>2. ASSUME "post" \notin Tools PROVE NonePosted'
      <4>1. \A t \in Turns : PcMove(t) /\ ~Post(t)
        BY <2>1, <2>3, <3>2, PcMoves DEF ToolsOnly, Post, Calling
      <4>2. \A t \in Turns : \A n \in Nodes : Claim(t, n) => turn'[t].pc = "claimed"
        BY <2>1, ClaimNode
      <4> QED
        BY <3>2, <4>1, <4>2 DEF WakeInv, NonePosted, PcMove, AtWork
    <3>3. ASSUME PostersGoOn', NoWakeDue', ~WakeTree PROVE Asleep'
      <4>1. PostersGoOn
        BY <2>1, <2>3, <3>3, NoStallBefore DEF PostersGoOn
      <4>2. NoWakeDue
        BY <2>1, <2>3, <3>3, <4>1, PostersAreNotStopped, NothingWasDue
      <4>3. Asleep
        BY <4>1, <4>2 DEF WakeInv
      <4>4. Calm \/ CancelActs
        BY <2>1, <2>3, <3>3, StirredIsDue
      <4> QED
        BY <2>1, <4>3, <4>4, CalmStaysAsleep, CancelledIsAsleep
    <3>4. WakeTree => Asleep'
      BY <2>1, WakingIsEnough
    <3> QED
      BY <2>1, <3>1, <3>2, <3>3, <3>4 DEF WakeInv
  <2> QED
    BY <2>2, <2>3
<1> QED
  BY <1>1, <1>2, PTL DEF Spec

(* A node that waits for its team or its subtasks and has what it waited   *)
(* for is woken in the same step, or somebody is on the way to wake it, or *)
(* a worker crashed on the way: wakeTree, run after every settle, request, *)
(* sweep and post to the board, forgets nobody. A post's wakes come in a   *)
(* statement of their own: there the theorem asks that no worker stalled   *)
(* and no request cancels the poster in between.                           *)
THEOREM NobodyIsLeftToWake == Spec => [](PostersGoOn => NobodyToWakeWhenQuiet)
<1>1. WakeInv => (PostersGoOn => NobodyToWakeWhenQuiet)
  BY AsleepIsStill DEF WakeInv, LeaseInv, TreeInv, TypeOK, RowsTyped, NobodyToWakeWhenQuiet, NoWakeDue
<1> QED
  BY <1>1, WakeInvariance, PTL
=============================================================================
