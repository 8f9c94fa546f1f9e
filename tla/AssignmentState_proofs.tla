------------------------ MODULE AssignmentState_proofs ------------------------
(***************************************************************************)
(* The decisions, for every turn result and for trees of any number of     *)
(* subtasks: where decideTurn sends a node is a status it can go to, and   *)
(* wakeTree is idempotent - what it wakes, it does not wake again - from   *)
(* which it follows that it leaves nobody standing still.                  *)
(***************************************************************************)
EXTENDS MCAssignmentState, TLAPS

LEMMA NoTurnIsNoResult == NoTurn \notin TurnResults
<1>1. ASSUME NoTurn \in TurnResults PROVE FALSE
  <2>1. NoTurn.status \in TurnStatus /\ NoTurn.status = "no turn"
    BY <1>1 DEF TurnResults, NoTurn
  <2> QED
    BY <2>1 DEF TurnStatus, RunStatus
<1> QED
  BY <1>1

-----------------------------------------------------------------------------
(* Turns.                                                                  *)

(* Every turn is decided, and only a responsive one in favour of its       *)
(* owner.                                                                  *)
LEMMA TurnIsDecided ==
    ASSUME NEW t \in TurnResults
    PROVE  /\ DecideTurn(t) \in Decisions
           /\ DecideTurn(t).next = "fail" => t.mode = "autonomous"
           /\ DecideTurn(t).next \in {"ask", "ask_failure"} => t.mode = "responsive"
<1>1. t.mode \in {"autonomous", "responsive"} /\ t.status \in TurnStatus /\ t.endIntent \in EndIntents
  BY DEF TurnResults, AssignmentMode
<1>2. /\ RouteTurn(t) \in Decisions /\ RouteTurn(t).next # "ask_failure"
      /\ RouteTurn(t).next = "ask" => t.mode = "responsive"
  <2>1. /\ RouteAwaiting(t) \in Decisions /\ RouteAwaiting(t).next # "ask_failure"
        /\ RouteAwaiting(t).next = "ask" => t.mode = "responsive"
    BY <1>1 DEF RouteAwaiting, Decide, Decisions, EndIntents
  <2>2. RouteBudget(t) \in Decisions /\ RouteBudget(t).next \notin {"ask", "ask_failure"}
    BY DEF RouteBudget, Decide, Decisions
  <2> QED
    BY <2>1, <2>2 DEF RouteTurn, Decide, Decisions
<1>3. CASE RouteTurn(t).next = "fail" /\ t.mode = "responsive"
  <2>1. RouteTurn(t).reason \in {"blocked", "model_failed", "empty_response", "stalled",
                                 "timed_out", "unknown_outcome"}
    BY <1>2, <1>3 DEF Decisions
  <2>2. DecideTurn(t) = [RouteTurn(t) EXCEPT !.next = "ask_failure"]
    BY <1>3 DEF DecideTurn
  <2>3. DecideTurn(t) \in Decisions /\ DecideTurn(t).next = "ask_failure"
    BY <1>2, <2>1, <2>2 DEF Decisions
  <2> QED
    BY <1>3, <2>3
<1>4. CASE ~(RouteTurn(t).next = "fail" /\ t.mode = "responsive")
  <2>1. DecideTurn(t) = RouteTurn(t)
    BY <1>4 DEF DecideTurn
  <2> QED
    BY <1>1, <1>2, <1>4, <2>1
<1> QED
  BY <1>3, <1>4

(* Open children and a shutdown come before what the turn wanted.          *)
LEMMA TurnInOrder ==
    ASSUME NEW t \in TurnResults
    PROVE  /\ t.openChildren /\ SettleTo(DecideTurn(t)) # "none" =>
                \/ SettleTo(DecideTurn(t)) = "waiting_children"
                \/ DecideTurn(t).reason = "unknown_outcome"
           /\ t.shuttingDown /\ t.status \in {"cancelled", "threw"} => SettleTo(DecideTurn(t)) = "none"
<1> DEFINE interrupted == t.shuttingDown /\ t.status \in {"cancelled", "threw"}
<1>1. CASE t.status = "unknown_outcome"
  <2>1. RouteTurn(t) = Decide("fail", "unknown_outcome")
    BY <1>1 DEF RouteTurn
  <2>2. DecideTurn(t).reason = "unknown_outcome"
    BY <2>1 DEF DecideTurn, Decide
  <2> QED
    BY <1>1, <2>2
<1>2. CASE t.status # "unknown_outcome" /\ (interrupted \/ t.status = "cancelled")
  <2>1. RouteTurn(t) \in {Decide("interrupted", "none"), Decide("cancel", "none")}
    BY <1>2 DEF RouteTurn, IsInterrupted
  <2>2. DecideTurn(t).next \in {"interrupted", "cancel"}
    BY <2>1 DEF DecideTurn, Decide
  <2>3. SettleTo(DecideTurn(t)) = "none"
    BY <2>2 DEF SettleTo
  <2> QED
    BY <2>3
<1>3. CASE t.status # "unknown_outcome" /\ ~interrupted /\ t.status # "cancelled" /\ t.openChildren
  <2>1. RouteTurn(t) = Decide("wait_children", "none")
    BY <1>3 DEF RouteTurn, IsInterrupted, WaitsForChildren
  <2>2. DecideTurn(t).next = "wait_children"
    BY <2>1 DEF DecideTurn, Decide
  <2>3. SettleTo(DecideTurn(t)) = "waiting_children"
    BY <2>2 DEF SettleTo
  <2> QED
    BY <1>3, <2>3
<1>4. CASE ~interrupted /\ ~t.openChildren
  BY <1>4
<1> QED
  BY <1>1, <1>2, <1>3, <1>4

(* What is settled.                                                        *)
LEMMA SettledFromRunning ==
    ASSUME NEW d \in Decisions
    PROVE  /\ SettleTo(d) = "none" \/ CanGo("running", SettleTo(d))
           /\ SettleTo(d) = "waiting_user" <=> d.next \in {"ask", "ask_failure"}
           /\ SettleTo(d) = "failed" <=> d.next = "fail"
<1>1. d.next \in {"fail", "ask_failure", "succeed", "ask", "pause", "segment", "wait_team",
                  "wait_children", "interrupted", "cancel"}
  BY DEF Decisions
<1>2. Transitions("running") = {"queued", "succeeded", "failed", "waiting_user",
                                "waiting_team", "waiting_children", "cancelled"}
  BY DEF Transitions
<1> QED
  BY <1>1, <1>2 DEF SettleTo, CanGo

-----------------------------------------------------------------------------
(* Trees. A waiter sleeps when nothing it waits for has happened.          *)
Sleeps(n, stat, waits, overdue) ==
    /\ \A t \in KnownTargets(n, stat, waits) : stat[t] # "failed"
    /\ \E t \in KnownTargets(n, stat, waits) : IsOpen(stat[t])
    /\ ~(waits[n].until = "progress" /\ waits[n].targets \intersect waits[n].heard # {})
    /\ n \notin overdue

LEMMA SleepingHasNoReason ==
    ASSUME NEW n, NEW stat, NEW waits, NEW overdue
    PROVE  WakeReason(n, stat, waits, overdue) = "none" <=> Sleeps(n, stat, waits, overdue)
  BY DEF WakeReason, Sleeps

(* Nobody to wake: then the tree does not stand still.                     *)
LEMMA NobodyToWake ==
    ASSUME NEW root, NEW stat, NEW waits, NEW overdue, root \in DOMAIN stat
    PROVE  DOMAIN PlanWakes(root, stat, waits, overdue) = {} <=>
             /\ OpenChildren(root, stat) = {} => stat[root] # "waiting_children"
             /\ \A n \in Waiters(root, stat, waits) : Sleeps(n, stat, waits, overdue)
             /\ OpenChildren(root, stat) # {} => ~Stalemate(root, stat)
<1> DEFINE open == OpenChildren(root, stat)
           due == {n \in Waiters(root, stat, waits) : WakeReason(n, stat, waits, overdue) # "none"}
<1>1. due = {} <=> \A n \in Waiters(root, stat, waits) : Sleeps(n, stat, waits, overdue)
  BY SleepingHasNoReason
<1>2. CASE open = {}
  <2>1. DOMAIN PlanWakes(root, stat, waits, overdue) = {m \in {root} : stat[m] = "waiting_children"}
    BY <1>2 DEF PlanWakes
  <2>2. Waiters(root, stat, waits) = {}
    BY <1>2 DEF Waiters
  <2> QED
    BY <1>2, <2>1, <2>2
<1>3. CASE open # {} /\ due # {}
  <2>1. DOMAIN PlanWakes(root, stat, waits, overdue) = due
    BY <1>3 DEF PlanWakes
  <2> QED
    BY <1>1, <1>3, <2>1
<1>4. CASE open # {} /\ due = {}
  <2>1. DOMAIN PlanWakes(root, stat, waits, overdue) = {m \in open : Stalemate(root, stat)}
    BY <1>4 DEF PlanWakes
  <2> QED
    BY <1>1, <1>4, <2>1
<1> QED
  BY <1>2, <1>3, <1>4

(* Who is woken: the lead, when its subtasks have ended; waiters that have *)
(* a reason; or, when all wait, all.                                       *)
LEMMA WhoIsWoken ==
    ASSUME NEW root, NEW stat, NEW waits, NEW overdue, root \in DOMAIN stat
    PROVE  LET open == OpenChildren(root, stat)
               awake == DOMAIN PlanWakes(root, stat, waits, overdue)
           IN  /\ open = {} => awake = {m \in {root} : stat[m] = "waiting_children"}
               /\ open # {} => awake \subseteq {n \in open : stat[n] = "waiting_team"}
<1> DEFINE open == OpenChildren(root, stat)
           due == {n \in Waiters(root, stat, waits) : WakeReason(n, stat, waits, overdue) # "none"}
           awake == DOMAIN PlanWakes(root, stat, waits, overdue)
<1>1. open = {} => awake = {m \in {root} : stat[m] = "waiting_children"}
  BY DEF PlanWakes
<1>2. ASSUME open # {}, due # {} PROVE awake \subseteq {n \in open : stat[n] = "waiting_team"}
  <2>1. awake = due
    BY <1>2 DEF PlanWakes
  <2> QED
    BY <2>1 DEF Waiters
<1>3. ASSUME open # {}, due = {} PROVE awake \subseteq {n \in open : stat[n] = "waiting_team"}
  <2>1. awake = {m \in open : Stalemate(root, stat)}
    BY <1>3 DEF PlanWakes
  <2> QED
    BY <2>1 DEF Stalemate
<1> QED
  BY <1>1, <1>2, <1>3

(* wakeTree is idempotent: after one call there is nobody to wake, however *)
(* the tree was.                                                           *)
THEOREM WakingOnceIsEnough ==
    ASSUME NEW N, NEW root \in N, NEW stat \in [N -> AssignmentStatus], NEW waits, NEW overdue
    PROVE  LET after == Woken(stat, PlanWakes(root, stat, waits, overdue)) IN
           /\ after \in [N -> AssignmentStatus]
           /\ DOMAIN PlanWakes(root, after, waits, overdue) = {}
<1> DEFINE plan == PlanWakes(root, stat, waits, overdue)
           awake == DOMAIN plan
           after == Woken(stat, plan)
           open == OpenChildren(root, stat)
           due == {n \in Waiters(root, stat, waits) : WakeReason(n, stat, waits, overdue) # "none"}
<1>1. /\ open = {} => awake = {m \in {root} : stat[m] = "waiting_children"}
      /\ open # {} => awake \subseteq {n \in open : stat[n] = "waiting_team"}
      /\ awake \subseteq N
  <2>1. root \in DOMAIN stat /\ open \subseteq N
    BY DEF OpenChildren
  <2>2. /\ open = {} => awake = {m \in {root} : stat[m] = "waiting_children"}
        /\ open # {} => awake \subseteq {n \in open : stat[n] = "waiting_team"}
    BY <2>1, WhoIsWoken
  <2> QED
    BY <2>1, <2>2
<1>2. /\ after \in [N -> AssignmentStatus]
      /\ \A n \in N : after[n] = IF n \in awake THEN "queued" ELSE stat[n]
  <2> HIDE DEF plan
  <2>1. after = [n \in N |-> IF n \in awake /\ stat[n] \in {"waiting_team", "waiting_children"}
                             THEN "queued" ELSE stat[n]]
    BY DEF Woken
  <2>2. \A n \in awake : stat[n] \in {"waiting_team", "waiting_children"}
    BY <1>1
  <2> QED
    BY <2>1, <2>2 DEF AssignmentStatus
<1> SUFFICES DOMAIN PlanWakes(root, after, waits, overdue) = {}
  BY <1>2
<1> HIDE DEF after, awake, plan
<1>3. \A n \in N : /\ IsOpen(after[n]) <=> IsOpen(stat[n])
                   /\ after[n] = "failed" <=> stat[n] = "failed"
  BY <1>1, <1>2 DEF IsOpen, OpenStatuses
<1>4. OpenChildren(root, after) = open
  BY <1>2, <1>3 DEF OpenChildren
<1>5. \A n \in Waiters(root, after, waits) : n \in Waiters(root, stat, waits) /\ n \notin awake
  BY <1>2, <1>4 DEF Waiters, OpenChildren
<1>6. \A n : Sleeps(n, stat, waits, overdue) => Sleeps(n, after, waits, overdue)
  BY <1>2, <1>3 DEF Sleeps, KnownTargets
<1>a. DOMAIN PlanWakes(root, after, waits, overdue) = {} <=>
        /\ open = {} => after[root] # "waiting_children"
        /\ \A n \in Waiters(root, after, waits) : Sleeps(n, after, waits, overdue)
        /\ open # {} => ~Stalemate(root, after)
  <2>1. root \in DOMAIN after
    BY <1>2
  <2> QED
    BY <1>4, <2>1, NobodyToWake
<1> HIDE DEF open, due
<1>7. CASE open = {}
  <2>1. after[root] # "waiting_children"
    BY <1>1, <1>2, <1>7
  <2>2. Waiters(root, after, waits) = {}
    BY <1>4, <1>7 DEF Waiters, open
  <2> QED
    BY <1>a, <1>7, <2>1, <2>2
<1>8. CASE open # {} /\ due # {}
  <2>1. awake = due
    BY <1>8 DEF PlanWakes, awake, plan, open, due
  <2>2. \A n \in Waiters(root, after, waits) : Sleeps(n, after, waits, overdue)
    BY <1>5, <1>6, <2>1, SleepingHasNoReason DEF due
  <2>3. ~Stalemate(root, after)
    <3>1. PICK n \in due : n \in open /\ n \in N
      BY <1>8 DEF Waiters, OpenChildren, due, open
    <3>2. after[n] = "queued"
      BY <1>2, <2>1, <3>1
    <3> QED
      BY <1>4, <3>1, <3>2 DEF Stalemate
  <2> QED
    BY <1>a, <1>8, <2>2, <2>3
<1>9. CASE open # {} /\ due = {}
  <2>1. awake = {m \in open : Stalemate(root, stat)}
    BY <1>9 DEF PlanWakes, awake, plan, open, due
  <2>2. CASE Stalemate(root, stat)
    <3>1. awake = open /\ \A n \in open : n \in N /\ after[n] = "queued"
      BY <1>2, <2>1, <2>2 DEF OpenChildren, open
    <3>2. Waiters(root, after, waits) = {}
      BY <1>4, <3>1 DEF Waiters
    <3>3. ~Stalemate(root, after)
      BY <1>4, <1>9, <3>1 DEF Stalemate
    <3> QED
      BY <1>a, <1>9, <3>2, <3>3
  <2>3. CASE ~Stalemate(root, stat)
    <3>1. awake = {}
      BY <2>1, <2>3
    <3>2. after = stat
      BY <1>2, <3>1
    <3>3. DOMAIN PlanWakes(root, stat, waits, overdue) = {}
      BY <3>1 DEF awake, plan
    <3> QED
      BY <3>2, <3>3
  <2> QED
    BY <2>2, <2>3
<1> QED
  BY <1>7, <1>8, <1>9
-----------------------------------------------------------------------------
(* The invariant of MCAssignmentState: a decision is that of its turn, and *)
(* once wakeTree ran there is nobody to wake.                              *)
StateInv ==
    /\ turn \in TurnResults \union {NoTurn}
    /\ decision # Undecided => turn \in TurnResults /\ decision = DecideTurn(turn)
    /\ turn = NoTurn =>
         /\ status \in [Nodes -> AssignmentStatus] /\ calls \in 0 .. 2
         /\ calls > 0 => DOMAIN PlanWakes(Root, status, waitFor, late) = {}
         /\ calls = 2 => DOMAIN wakes = {}

THEOREM StateInvariance == Spec => []StateInv
<1>1. Init => StateInv
  <2>1. ASSUME InitTurn PROVE StateInv
    BY <2>1, NoTurnIsNoResult DEF InitTurn, StateInv
  <2>2. ASSUME InitTree PROVE StateInv
    <3>1. PICK child \in [Children -> Situations], lead \in {"queued", "waiting_children", "failed"} :
              status = [n \in Nodes |-> IF n = Root THEN lead ELSE child[n].status]
      BY <2>2 DEF InitTree
    <3>2. \A n \in Children : child[n].status \in AssignmentStatus
      BY <3>1 DEF Situations, AssignmentStatus
    <3>3. status \in [Nodes -> AssignmentStatus]
      BY <3>1, <3>2 DEF Nodes, AssignmentStatus
    <3> QED
      BY <2>2, <3>3 DEF InitTree, StateInv
  <2> QED
    BY <2>1, <2>2 DEF Init
<1>2. StateInv /\ [Next]_<<turnVars, treeVars>> => StateInv'
  <2> SUFFICES ASSUME StateInv, [Next]_<<turnVars, treeVars>> PROVE StateInv'
    OBVIOUS
  <2>1. CASE Conclude
    BY <2>1, NoTurnIsNoResult DEF Conclude, StateInv, treeVars
  <2>2. CASE WakeTree
    <3>1. /\ turn = NoTurn /\ calls < 2 /\ wakes' = PlanWakes(Root, status, waitFor, late)
          /\ status' = Woken(status, PlanWakes(Root, status, waitFor, late)) /\ calls' = calls + 1
          /\ turn' = turn /\ decision' = decision /\ waitFor' = waitFor /\ late' = late
      BY <2>2 DEF WakeTree, turnVars
    <3>2. status \in [Nodes -> AssignmentStatus] /\ calls \in 0 .. 2 /\ Root \in Nodes
      BY <3>1 DEF StateInv, Nodes
    <3>3. /\ status' \in [Nodes -> AssignmentStatus]
          /\ DOMAIN PlanWakes(Root, status', waitFor, late) = {}
      BY <3>1, <3>2, WakingOnceIsEnough
    <3>4. calls' \in 0 .. 2 /\ (calls' = 2 => DOMAIN wakes' = {})
      BY <3>1, <3>2 DEF StateInv
    <3> QED
      BY <3>1, <3>3, <3>4 DEF StateInv
  <2>3. CASE UNCHANGED <<turnVars, treeVars>>
    BY <2>3 DEF StateInv, turnVars, treeVars
  <2> QED
    BY <2>1, <2>2, <2>3 DEF Next
<1> QED
  BY <1>1, <1>2, PTL DEF Spec

(* conclude() settles a node with a status it can go to from running; only *)
(* a responsive task is put in front of its owner, and only an autonomous  *)
(* one fails at once.                                                      *)
THEOREM SettlesAreLegal == Spec => []LegalSettle
<1>1. ASSUME StateInv PROVE LegalSettle
  <2> SUFFICES ASSUME Settles
               PROVE  /\ CanGo("running", SettleTo(decision))
                      /\ SettleTo(decision) = "waiting_user" => turn.mode = "responsive"
                      /\ SettleTo(decision) = "failed" => turn.mode = "autonomous"
    BY DEF LegalSettle
  <2>1. turn \in TurnResults /\ decision = DecideTurn(turn) /\ SettleTo(decision) # "none"
    BY <1>1 DEF StateInv, Settles
  <2> QED
    BY <2>1, TurnIsDecided, SettledFromRunning
<1> QED
  BY <1>1, StateInvariance, PTL

(* A lead with open subtasks never ends its task with the turn, but for an *)
(* unconfirmed write; and what a shutdown aborted is left to the sweep.    *)
THEOREM OpenChildrenComeFirst == Spec => []OpenChildrenKeepTheTaskOpen
<1>1. ASSUME StateInv PROVE OpenChildrenKeepTheTaskOpen
  <2> SUFFICES ASSUME Settles
               PROVE  /\ turn.openChildren => \/ SettleTo(decision) = "waiting_children"
                                              \/ decision.reason = "unknown_outcome"
                      /\ ~(turn.shuttingDown /\ turn.status \in {"cancelled", "threw"})
    BY DEF OpenChildrenKeepTheTaskOpen
  <2>1. turn \in TurnResults /\ decision = DecideTurn(turn) /\ SettleTo(decision) # "none"
    BY <1>1 DEF StateInv, Settles
  <2> QED
    BY <2>1, TurnInOrder
<1> QED
  BY <1>1, StateInvariance, PTL

(* After wakeTree a tree of any size stands still only for its owner: the  *)
(* open subtasks do not all wait for one another, and the lead does not    *)
(* wait for subtasks that have ended.                                      *)
THEOREM NobodyIsLeftStandingStill == Spec => []NobodyStandsStill
<1>1. ASSUME StateInv PROVE NobodyStandsStill
  <2> SUFFICES ASSUME turn = NoTurn, calls > 0
               PROVE  LET open == OpenChildren(Root, status)
                      IN  /\ open = {} => status[Root] # "waiting_children"
                          /\ open # {} => \E n \in open : status[n] # "waiting_team"
                          /\ calls = 2 => DOMAIN wakes = {}
    BY DEF NobodyStandsStill
  <2>1. /\ DOMAIN PlanWakes(Root, status, waitFor, late) = {} /\ Root \in DOMAIN status
        /\ calls = 2 => DOMAIN wakes = {}
    BY <1>1 DEF StateInv, Nodes
  <2>2. /\ OpenChildren(Root, status) = {} => status[Root] # "waiting_children"
        /\ OpenChildren(Root, status) # {} => ~Stalemate(Root, status)
    BY <2>1, NobodyToWake
  <2> QED
    BY <2>1, <2>2 DEF Stalemate
<1> QED
  BY <1>1, StateInvariance, PTL
=============================================================================
