------------------------------ MODULE FollowUps ------------------------------
(***************************************************************************)
(* What the owner does about a customer: suggested opportunities, follow-up *)
(* actions and their results, and the proposals the assistant prepares in a *)
(* conversation. A proposal (draft) waits on the chat card and on the today *)
(* page at once. Whoever confirms it claims it for five minutes, applies it *)
(* and marks it as applied, in statements of their own.                    *)
(*                                                                         *)
(* Source: packages/server/src/digital-employee/opportunity-service.ts and *)
(* conversation-drafts.ts.                                                 *)
(*                                                                         *)
(* One customer, who is not archived. Left out: the cadence of the profile, *)
(* snoozing, which may be repeated without harm, what a draft says, and    *)
(* its expiry after seven days, which is not to be confirmed again.        *)
(***************************************************************************)
EXTENDS Naturals, FiniteSets

CONSTANTS
    Drafts,
    Opportunities,
    Confirmers,         \* requests that confirm a draft at the same time
    NoTarget,
    MaxActions,         \* bound: follow-up actions
    MaxVersion,         \* bound: nobody asks to move a later version to another day
    MaxConfirmFaults    \* bound: deaths, errors after the effect, claims that age under their holder

ASSUME FollowAssumption ==
    /\ IsFiniteSet(Confirmers) /\ {MaxActions, MaxVersion, MaxConfirmFaults} \subseteq Nat
    /\ NoTarget \notin Opportunities \union (1 .. MaxActions)

VARIABLES
    opportunity,    \* de_follow_up_suggestions.status
    action,         \* de_follow_up_tasks
    draft,          \* de_conversation_action_drafts
    confirmer,
    written,        \* history: how often each draft took effect
    confirmFaults   \* how much of the bound was used

followVars == <<opportunity, action, draft, confirmer, written, confirmFaults>>

Actions == 1 .. MaxActions
DecisionKinds == {"accept", "dismiss"}
UpdateKinds == {"reschedule", "execute", "cancel"}
Kinds == {"create", "result"} \union DecisionKinds \union UpdateKinds
Orders == [kind : Kinds, target : Opportunities \union Actions \union {NoTarget}, version : Nat]

IdleConfirmer == [at |-> "idle", draft |-> NoTarget]
NoOrder == [kind |-> "create", target |-> NoTarget, version |-> 0]

FollowInit ==
    /\ opportunity = [o \in Opportunities |-> "suggested"]
    /\ action = [a \in Actions |-> [status |-> "none", version |-> 1]]
    /\ draft = [d \in Drafts |-> [status |-> "none", order |-> NoOrder, claim |-> "free"]]
    /\ confirmer = [c \in Confirmers |-> IdleConfirmer]
    /\ written = [d \in Drafts |-> 0]
    /\ confirmFaults = 0

ActionRecords ==
    [status : {"none", "pending", "awaiting_result", "completed", "cancelled"}, version : Nat]
DraftRecords == [status : {"none", "open", "applied", "dismissed"}, order : Orders,
                 claim : {"free", "held", "overdue"}]
ConfirmerRecords == [at : {"idle", "claim", "apply", "mark", "release"},
                     draft : Drafts \union {NoTarget}]

FollowTypeOK ==
    /\ opportunity \in [Opportunities -> {"suggested", "accepted", "dismissed"}]
    /\ action \in [Actions -> ActionRecords]
    /\ draft \in [Drafts -> DraftRecords]
    /\ confirmer \in [Confirmers -> ConfirmerRecords]
    /\ written \in [Drafts -> Nat]
    /\ confirmFaults \in 0 .. MaxConfirmFaults
-----------------------------------------------------------------------------
(* The operations, as the interface calls them and as drafts apply them.   *)

ConfirmFault == confirmFaults < MaxConfirmFaults /\ confirmFaults' = confirmFaults + 1

Fresh(a) == action[a].status = "none" /\ \A b \in Actions : b < a => action[b].status # "none"
Added(actions, a) == [actions EXCEPT ![a].status = "pending"]

CreateAction ==
    \E a \in Actions : Fresh(a) /\ action' = Added(action, a) /\ UNCHANGED opportunity

(* decide, on the locked row.                                              *)
Decide(o, decision) ==
    /\ opportunity[o] = "suggested"
    /\ IF decision = "accept"
       THEN /\ opportunity' = [opportunity EXCEPT ![o] = "accepted"]
            /\ \E a \in Actions : Fresh(a) /\ action' = Added(action, a)
       ELSE opportunity' = [opportunity EXCEPT ![o] = "dismissed"] /\ UNCHANGED action

Becomes == [reschedule |-> "pending", execute |-> "awaiting_result", cancel |-> "cancelled"]

\* mutant: the version is not compared
AnyVersion(a, version) == TRUE
SameVersion(a, version) == action[a].version = version

UpdateAction(a, kind, version) ==
    /\ SameVersion(a, version)
    /\ \/ action[a].status = "pending"
       \/ kind = "cancel" /\ action[a].status = "awaiting_result"
    /\ action' = [action EXCEPT ![a] = [status |-> Becomes[kind], version |-> @.version + 1]]
    /\ UNCHANGED opportunity

(* addResult, on the locked row; the result may name a next action.        *)
AddResult(a) ==
    /\ action[a].status = "awaiting_result"
    /\ LET done == [action EXCEPT ![a] = [status |-> "completed", version |-> @.version + 1]] IN
         \/ action' = done
         \/ \E b \in Actions : Fresh(b) /\ action' = Added(done, b)
    /\ UNCHANGED opportunity

Carry(order) ==
    \/ order.kind = "create" /\ CreateAction
    \/ order.kind = "result" /\ AddResult(order.target)
    \/ order.kind \in DecisionKinds /\ Decide(order.target, order.kind)
    \/ order.kind \in UpdateKinds /\ UpdateAction(order.target, order.kind, order.version)

(* What can be asked for now, with the version it was read at.             *)
Askable ==
    {NoOrder}
    \union {[kind |-> k, target |-> o, version |-> 0] : k \in DecisionKinds,
             o \in {p \in Opportunities : opportunity[p] = "suggested"}}
    \union {[kind |-> k, target |-> a, version |-> action[a].version] :
             k \in UpdateKinds \ {"reschedule"}, a \in {b \in Actions : action[b].status # "none"}}
    \union {[kind |-> "reschedule", target |-> a, version |-> action[a].version] :
             a \in {b \in Actions : action[b].status # "none" /\ action[b].version < MaxVersion}}
    \union {[kind |-> "result", target |-> a, version |-> 0] :
             a \in {b \in Actions : action[b].status = "awaiting_result"}}

(* The owner on the page; closeStaleActions is a "cancel" of its own.      *)
OwnerActs ==
    /\ \E order \in Askable : Carry(order)
    /\ UNCHANGED <<draft, confirmer, written, confirmFaults>>
-----------------------------------------------------------------------------
(* Drafts.                                                                 *)

AtConfirm(c, place) == confirmer[c].at = place
DraftOf(c) == confirmer[c].draft
Moves(c, place) == confirmer' = [confirmer EXCEPT ![c].at = place]
Leaves(c) == confirmer' = [confirmer EXCEPT ![c] = IdleConfirmer]
Unfinished(d) == draft[d].status = "open"

Prepare(d) ==
    /\ draft[d].status = "none"
    /\ \E order \in Askable :
         draft' = [draft EXCEPT ![d].status = "open", ![d].order = order]
    /\ UNCHANGED <<opportunity, action, confirmer, written, confirmFaults>>

(* get: the draft as it is before the claim.                               *)
Confirm(c, d) ==
    /\ AtConfirm(c, "idle") /\ Unfinished(d)
    /\ confirmer' = [confirmer EXCEPT ![c] = [at |-> "claim", draft |-> d]]
    /\ UNCHANGED <<opportunity, action, draft, written, confirmFaults>>

\* mutant: only the status is asked, as get does
Claimable(d) == Unfinished(d)
(* claimed_at IS NULL OR claimed_at < now() - CLAIM_LEASE                  *)
Unclaimed(d) == Unfinished(d) /\ draft[d].claim # "held"

(* The loser reports what became of the draft.                             *)
Claim(c) == LET d == DraftOf(c) IN
    /\ AtConfirm(c, "claim")
    /\ IF Unclaimed(d)
       THEN draft' = [draft EXCEPT ![d].claim = "held"] /\ Moves(c, "apply")
       ELSE Leaves(c) /\ UNCHANGED draft
    /\ UNCHANGED <<opportunity, action, written, confirmFaults>>

Apply(c) == LET d == DraftOf(c) IN
    /\ AtConfirm(c, "apply")
    /\ Carry(draft[d].order)
    /\ written' = [written EXCEPT ![d] = @ + 1]
    /\ Moves(c, "mark")
    /\ UNCHANGED <<draft, confirmFaults>>

(* Nothing was written: the target is gone, done or changed, or an error.  *)
ApplyFails(c) ==
    /\ AtConfirm(c, "apply") /\ Moves(c, "release")
    /\ UNCHANGED <<opportunity, action, draft, written, confirmFaults>>

(* An error after the effect was committed: in syncProfileCadence and      *)
(* getAction, which follow it outside a transaction, or in markApplied.    *)
FailsAfterwards(c) ==
    /\ AtConfirm(c, "mark") /\ ConfirmFault /\ Moves(c, "release")
    /\ UNCHANGED <<opportunity, action, draft, written>>

(* markApplied and the release ask for an open draft, not for the claim.   *)
MarkApplied(c) == LET d == DraftOf(c) IN
    /\ AtConfirm(c, "mark")
    /\ draft' = IF Unfinished(d) THEN [draft EXCEPT ![d].status = "applied"] ELSE draft
    /\ Leaves(c)
    /\ UNCHANGED <<opportunity, action, written, confirmFaults>>

ReleaseDraft(c) == LET d == DraftOf(c) IN
    /\ AtConfirm(c, "release")
    /\ draft' = IF Unfinished(d) THEN [draft EXCEPT ![d].claim = "free"] ELSE draft
    /\ Leaves(c)
    /\ UNCHANGED <<opportunity, action, written, confirmFaults>>

ConfirmerDies(c) ==
    /\ ~AtConfirm(c, "idle") /\ ConfirmFault /\ Leaves(c)
    /\ UNCHANGED <<opportunity, action, draft, written>>

(* Five minutes pass; whoever claimed the draft may still be at it.        *)
ClaimAges(d) ==
    /\ Unfinished(d) /\ draft[d].claim = "held"
    /\ draft' = [draft EXCEPT ![d].claim = "overdue"]
    /\ IF \E c \in Confirmers : DraftOf(c) = d /\ ~AtConfirm(c, "claim")
       THEN ConfirmFault ELSE UNCHANGED confirmFaults
    /\ UNCHANGED <<opportunity, action, confirmer, written>>

DismissDraft(d) ==
    /\ Unclaimed(d)
    /\ draft' = [draft EXCEPT ![d].status = "dismissed"]
    /\ UNCHANGED <<opportunity, action, confirmer, written, confirmFaults>>

FollowNext ==
    \/ OwnerActs
    \/ \E d \in Drafts : Prepare(d) \/ ClaimAges(d) \/ DismissDraft(d)
    \/ \E c \in Confirmers, d \in Drafts : Confirm(c, d)
    \/ \E c \in Confirmers :
         \/ Claim(c) \/ Apply(c) \/ ApplyFails(c) \/ FailsAfterwards(c)
         \/ MarkApplied(c) \/ ReleaseDraft(c) \/ ConfirmerDies(c)

FollowSpec == FollowInit /\ [][FollowNext]_followVars
-----------------------------------------------------------------------------
(* "Applies a draft at most once": from however many places it is confirmed *)
(* or turned down at once, a draft takes effect once, and not after it was *)
(* dismissed, each death, late error and outlived claim aside. Those never *)
(* repeat what has a row to ask, a decision, a result, a change of an      *)
(* action; a new action has none, and may be created again.                *)
ConfirmedOnce ==
    \A d \in Drafts :
        /\ written[d] <= 1 + confirmFaults
        /\ draft[d].order.kind # "create" => written[d] <= 1
        /\ draft[d].status = "dismissed" => written[d] <= confirmFaults
=============================================================================
