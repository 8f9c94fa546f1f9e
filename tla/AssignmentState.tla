--------------------------- MODULE AssignmentState ---------------------------
(***************************************************************************)
(* The decisions of a background task ("assignment") of the digital        *)
(* employee that are pure functions of what was read: the status machine   *)
(* of a node, where a node goes after a turn (decideTurn), and which       *)
(* waiting nodes of a tree wake (planWakes).                               *)
(*                                                                         *)
(* Source: packages/server/src/digital-employee/assignment-state.ts.       *)
(* Message texts are left out: nothing here depends on the wording.        *)
(***************************************************************************)
EXTENDS Naturals, FiniteSets

AssignmentStatus ==
    {"queued", "running", "succeeded", "failed", "waiting_user",
     "waiting_team", "waiting_children", "cancelled", "skipped"}

AssignmentMode == {"autonomous", "responsive"}

OpenStatuses ==
    {"queued", "running", "waiting_user", "waiting_team", "waiting_children"}

Transitions(from) ==
    CASE from = "queued"       -> {"running", "cancelled"}
      [] from = "running"      -> {"queued", "succeeded", "failed", "waiting_user",
                                   "waiting_team", "waiting_children", "cancelled"}
      [] from = "failed"       -> {"queued", "skipped", "waiting_children"}
      [] from = "waiting_user" -> {"queued", "skipped", "cancelled"}
      [] from \in {"waiting_team", "waiting_children"} -> {"queued", "cancelled"}
      [] from = "succeeded"    -> {"queued", "waiting_children"}
      [] from \in {"cancelled", "skipped"} -> {}

(* transitionAssignment throws InvalidTransitionError when this is FALSE.  *)
CanGo(from, to) == to \in Transitions(from)

IsOpen(status) == status \in OpenStatuses

-----------------------------------------------------------------------------
(* The end of a turn. A TurnResult is what the runner knows about it.      *)

RunStatus ==
    {"completed", "awaiting_input", "budget_exhausted", "timed_out", "stalled",
     "empty_response", "cancelled", "failed", "unknown_outcome"}

(* "threw" stands for undefined: the run threw before it had a status.     *)
TurnStatus == RunStatus \union {"threw"}

(* What a tool recorded on the row; "none" is NULL.                        *)
EndIntents == {"none", "done", "blocked", "wait"}

(* previous is made_progress of the run before this one: "none" is NULL.   *)
Previous == {"progress", "no_progress", "none"}

TurnResults ==
    [mode : AssignmentMode, status : TurnStatus, endIntent : EndIntents,
     openChildren : BOOLEAN, question : BOOLEAN, quota : BOOLEAN,
     paused : BOOLEAN, shuttingDown : BOOLEAN, madeProgress : BOOLEAN,
     previous : Previous]

Decide(next, reason) == [next |-> next, reason |-> reason]

Decisions ==
    [next : {"fail", "ask_failure"},
     reason : {"blocked", "model_failed", "empty_response", "stalled",
               "timed_out", "unknown_outcome"}]
    \union
    [next : {"succeed", "ask", "pause", "segment", "wait_team",
             "wait_children", "interrupted", "cancel"},
     reason : {"none"}]

(* A turn whose last tool ended it: the intent on the row says which one.  *)
RouteAwaiting(turn) ==
    IF turn.endIntent = "wait" THEN Decide("wait_team", "none")
    ELSE IF turn.endIntent = "none"
         THEN IF turn.question /\ turn.mode = "responsive"
              THEN Decide("ask", "none")
              ELSE Decide("fail", "model_failed")
    ELSE IF turn.endIntent = "done"
         THEN Decide("succeed", "none")
         ELSE Decide("fail", "blocked")

RouteBudget(turn) ==
    IF turn.paused THEN Decide("pause", "none")
    ELSE IF ~turn.madeProgress /\ turn.previous = "no_progress"
         THEN Decide("fail", "stalled")
         ELSE Decide("segment", "none")

(* What comes before the status is looked at for itself, in the order of   *)
(* the code: an unconfirmed write beats everything, a shutdown beats an    *)
(* abort, and open children beat whatever the turn wanted to end with.     *)
\* mutant: a turn that threw while the worker shuts down is judged
InterruptedWhenCancelled(turn) == turn.shuttingDown /\ turn.status = "cancelled"
IsInterrupted(turn) == turn.shuttingDown /\ turn.status \in {"cancelled", "threw"}

\* mutants: open children are forgotten, or only seen after a clean end
ForgetsChildren(turn) == FALSE
ChildrenAfterCompletion(turn) == turn.openChildren /\ turn.status = "completed"
WaitsForChildren(turn) == turn.openChildren

RouteTurn(turn) ==
    IF turn.status = "unknown_outcome" THEN Decide("fail", "unknown_outcome")
    ELSE IF IsInterrupted(turn) THEN Decide("interrupted", "none")
    ELSE IF turn.status = "cancelled" THEN Decide("cancel", "none")
    ELSE IF WaitsForChildren(turn) THEN Decide("wait_children", "none")
    ELSE IF turn.status = "awaiting_input" THEN RouteAwaiting(turn)
    ELSE IF turn.status = "budget_exhausted" THEN RouteBudget(turn)
    ELSE IF turn.quota THEN Decide("pause", "none")
    ELSE IF turn.status = "completed" THEN Decide("succeed", "none")
    ELSE IF turn.status \in {"empty_response", "stalled", "timed_out"}
         THEN Decide("fail", turn.status)
    ELSE Decide("fail", "model_failed")

\* mutant: a responsive task fails without asking
FailsWithoutAsking(turn) == RouteTurn(turn)
DecideTurn(turn) ==
    LET decision == RouteTurn(turn)
    IN  IF decision.next = "fail" /\ turn.mode = "responsive"
        THEN [decision EXCEPT !.next = "ask_failure"]
        ELSE decision

(* The status the runner's conclude() settles a decision with. "none": the *)
(* node is left as it is.                                                  *)
SettleTo(decision) ==
    CASE decision.next = "succeed"  -> "succeeded"
      [] decision.next = "fail"     -> "failed"
      [] decision.next \in {"ask", "ask_failure"} -> "waiting_user"
      [] decision.next = "wait_team"     -> "waiting_team"
      [] decision.next = "wait_children" -> "waiting_children"
      [] decision.next \in {"pause", "segment"}       -> "queued"
      [] decision.next \in {"cancel", "interrupted"}  -> "none"

-----------------------------------------------------------------------------
(* Waking. A wait names its targets; heard is the set of nodes that have   *)
(* published a finding or an output since it began (posts > since).        *)

Untils == {"progress", "finished"}
NoWait == [until |-> "none", targets |-> {}, heard |-> {}]

(* status and waitFor are functions on the nodes of one tree; late is the  *)
(* set of nodes whose waitUntil has passed.                                *)
OpenChildren(root, status) == {n \in DOMAIN status \ {root} : IsOpen(status[n])}

KnownTargets(n, status, waitFor) == waitFor[n].targets \intersect DOMAIN status

WakeReason(n, status, waitFor, late) ==
    LET known == KnownTargets(n, status, waitFor)
    IN  IF \E t \in known : status[t] = "failed" THEN "failed"
        ELSE IF \A t \in known : ~IsOpen(status[t]) THEN "finished"
        ELSE IF /\ waitFor[n].until = "progress"
                /\ waitFor[n].targets \intersect waitFor[n].heard # {}
             THEN "progress"
        ELSE IF n \in late THEN "timeout"
        ELSE "none"

Waiters(root, status, waitFor) ==
    {n \in OpenChildren(root, status) :
        status[n] = "waiting_team" /\ waitFor[n] # NoWait}

\* mutant: nobody looks for a stalemate
NeverStalemate(root, status) == FALSE
Stalemate(root, status) ==
    \A n \in OpenChildren(root, status) : status[n] = "waiting_team"

(* The nodes to wake, each with its reason.                                *)
PlanWakes(root, status, waitFor, late) ==
    LET open   == OpenChildren(root, status)
        due    == {n \in Waiters(root, status, waitFor) :
                     WakeReason(n, status, waitFor, late) # "none"}
    IN  IF open = {}
        THEN [n \in {m \in {root} : status[m] = "waiting_children"} |-> "closing"]
        ELSE IF due # {}
        THEN [n \in due |-> WakeReason(n, status, waitFor, late)]
        ELSE [n \in {m \in open : Stalemate(root, status)} |-> "deadlock"]

(* wakeTree's update, for the nodes planWakes named.                       *)
\* mutant: the lead, which waits in the other status, is not updated
WokenTeam(status, wakes) ==
    [n \in DOMAIN status |->
        IF n \in DOMAIN wakes /\ status[n] = "waiting_team" THEN "queued" ELSE status[n]]
Woken(status, wakes) ==
    [n \in DOMAIN status |->
        IF n \in DOMAIN wakes /\ status[n] \in {"waiting_team", "waiting_children"}
        THEN "queued" ELSE status[n]]
=============================================================================
