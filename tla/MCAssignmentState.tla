-------------------------- MODULE MCAssignmentState --------------------------
(* The decisions of AssignmentState over all their inputs: every turn      *)
(* result there is, put through decideTurn once, and wakeTree, called      *)
(* twice, on every small tree of a root and the Children, in any status    *)
(* they can have and with any wait they can have recorded.                 *)
EXTENDS AssignmentState, TLC

CONSTANTS Root, Children

ASSUME RootIsNoChild == Root \notin Children

VARIABLES
    turn, decision,          \* a turn result, and what was decided of it
    status, waitFor, late,   \* a tree
    wakes, calls             \* what the last wakeTree woke, and how many ran

turnVars == <<turn, decision>>
treeVars == <<status, waitFor, late, wakes, calls>>

Nodes == Children \union {Root}

NoTurn == [status |-> "no turn"]
Undecided == [next |-> "undecided", reason |-> "none"]

(* What a child can be in: recordWait only names other children, at least  *)
(* one of them, and what was heard only matters to a wait for progress.    *)
Waits ==
    {w \in [until : Untils, targets : SUBSET Children \ {{}}, heard : SUBSET Children] :
        w.heard \subseteq (IF w.until = "progress" THEN w.targets ELSE {})}

Situations ==
    [status : {"queued", "waiting_user", "succeeded", "failed"}, wait : {NoWait}, late : {FALSE}]
    \union [status : {"waiting_team"}, wait : Waits, late : BOOLEAN]

InitTurn ==
    /\ turn \in TurnResults /\ decision = Undecided
    /\ status = <<>> /\ waitFor = <<>> /\ late = {} /\ wakes = <<>> /\ calls = 2

InitTree ==
    /\ turn = NoTurn /\ decision = Undecided
    /\ \E child \in [Children -> Situations] :
         \E lead \in {"queued", "waiting_children", "failed"} :
           /\ \A n \in Children : n \notin child[n].wait.targets
           /\ status = [n \in Nodes |-> IF n = Root THEN lead ELSE child[n].status]
           /\ waitFor = [n \in Nodes |-> IF n = Root THEN NoWait ELSE child[n].wait]
           /\ late = {n \in Children : child[n].late}
    /\ wakes = <<>> /\ calls = 0

Init == InitTurn \/ InitTree

Conclude ==
    /\ turn # NoTurn /\ decision = Undecided
    /\ decision' = DecideTurn(turn)
    /\ UNCHANGED <<turn, treeVars>>

(* Two calls, one after the other: they queue on the root's row.           *)
WakeTree ==
    /\ turn = NoTurn /\ calls < 2
    /\ wakes' = PlanWakes(Root, status, waitFor, late)
    /\ status' = Woken(status, wakes')
    /\ calls' = calls + 1
    /\ UNCHANGED <<turnVars, waitFor, late>>

Next == Conclude \/ WakeTree

Spec == Init /\ [][Next]_<<turnVars, treeVars>>

Symmetry == Permutations(Children)

Settles == decision # Undecided /\ SettleTo(decision) # "none"

(* Whatever ended the turn, the status conclude() settles it with is one   *)
(* TRANSITIONS allows from running: transitionAssignment would otherwise   *)
(* throw after the turn and leave the node running with nobody on it. And  *)
(* only a responsive task is ever put in front of the owner, because an    *)
(* autonomous one has nobody to answer.                                    *)
LegalSettle ==
    Settles => /\ CanGo("running", SettleTo(decision))
               /\ SettleTo(decision) = "waiting_user" => turn.mode = "responsive"
               /\ SettleTo(decision) = "failed" => turn.mode = "autonomous"

(* A lead whose subtasks are open ends its turn without ending the task,   *)
(* however the turn ended, unless a write was left unconfirmed; and a turn *)
(* a shutdown aborted decides nothing, so the sweep can judge it.          *)
OpenChildrenKeepTheTaskOpen ==
    Settles => /\ turn.openChildren
                    => \/ SettleTo(decision) = "waiting_children"
                       \/ decision.reason = "unknown_outcome"
               /\ ~(turn.shuttingDown /\ turn.status \in {"cancelled", "threw"})

(* After wakeTree somebody in the tree can always move: it is not the case *)
(* that all open subtasks wait for one another, nor that the lead waits    *)
(* for subtasks that have all ended. The only thing that keeps a whole     *)
(* tree standing still is the owner. And one call is enough: a second one  *)
(* right after it finds nobody to wake.                                    *)
NobodyStandsStill ==
    turn = NoTurn /\ calls > 0 =>
        LET open == OpenChildren(Root, status)
        IN  /\ open = {} => status[Root] # "waiting_children"
            /\ open # {} => \E n \in open : status[n] # "waiting_team"
            /\ calls = 2 => DOMAIN wakes = {}
=============================================================================
