----------------------------- MODULE Ledgers_proofs -----------------------------
(***************************************************************************)
(* What is done once and on record.                                        *)
(*                                                                         *)
(* Drafts: a proposal takes effect once, for any drafts, opportunities,    *)
(* actions, requests that confirm at the same time, and faults. Scan: a    *)
(* scan that is no longer due is never forgotten, for any opportunities,   *)
(* processes, workers, jobs, attempts and faults. The writes of an agent   *)
(* are RunLedger_proofs; the last part puts the three together.            *)
(***************************************************************************)
EXTENDS MCRunLedger, RunLedger_proofs, FiniteSetTheorems

(* The drafts.                                                             *)

(* What an order is about exists.                                          *)
Fits(order) ==
    /\ order \in Orders
    /\ order.kind \in DecisionKinds => order.target \in Opportunities
    /\ order.kind = "result" \/ order.kind \in UpdateKinds => order.target \in Actions

(* An order that was carried out left a row behind, unless it is "create". *)
Done(order) ==
    /\ order.kind \in DecisionKinds => opportunity[order.target] # "suggested"
    /\ order.kind = "result" => action[order.target].status = "completed"
    /\ order.kind \in UpdateKinds => action[order.target].version > order.version

(* The requests whose claim of the draft is not used up and not settled.   *)
Claims(d) == {c \in Confirmers : confirmer[c].at \in {"apply", "release"} /\ DraftOf(c) = d}
Handled(d) == \E c \in Confirmers :
                 confirmer[c].at \in {"apply", "mark", "release"} /\ DraftOf(c) = d

ConfirmersHaveDrafts ==
    \A c \in Confirmers :
        ~AtConfirm(c, "idle") => DraftOf(c) \in Drafts /\ draft[DraftOf(c)].status # "none"

DraftsFit ==
    \A d \in Drafts :
        /\ draft[d].status = "none" => written[d] = 0
        /\ draft[d].status # "none" => Fits(draft[d].order)

(* Each claim is one effect at most, and a draft is claimed again only     *)
(* when the claim before it was settled, or a fault paid for it.           *)
Effects(d) == written[d] + Cardinality(Claims(d))
PaidFor(d) ==
    /\ Effects(d) <= 1 + confirmFaults
    /\ Unfinished(d) /\ (draft[d].claim # "held" \/ ~Handled(d)) => Effects(d) <= confirmFaults
    /\ draft[d].status = "dismissed" => Effects(d) <= confirmFaults
EffectsArePaidFor == \A d \in Drafts : PaidFor(d)

OnceFor(d) ==
    draft[d].order.kind # "create" =>
        /\ written[d] <= 1
        /\ written[d] # 0 => Done(draft[d].order)
DoneOnce == \A d \in Drafts : OnceFor(d)

FollowInv == FollowTypeOK /\ ConfirmersHaveDrafts /\ DraftsFit /\ EffectsArePaidFor /\ DoneOnce

LEMMA FollowConstants ==
    IsFiniteSet(Confirmers) /\ MaxConfirmFaults \in Nat /\ MaxVersion \in Nat /\ MaxActions \in Nat
  BY FollowAssumption

(* What the actions write where, and its type.                             *)
LEMMA ActionWrites ==
    ASSUME NEW f \in [Actions -> ActionRecords], NEW a \in Actions
    PROVE  /\ Added(f, a) \in [Actions -> ActionRecords]
           /\ Added(f, a)[a].version = f[a].version
           /\ \A b \in Actions : b # a => Added(f, a)[b] = f[b]
<1>1. f[a] \in ActionRecords
  OBVIOUS
<1>2. /\ [f[a] EXCEPT !.status = "pending"] \in ActionRecords
      /\ [f[a] EXCEPT !.status = "pending"].version = f[a].version
  BY <1>1 DEF ActionRecords
<1> QED
  BY <1>2 DEF Added

LEMMA BecomesStatus ==
    ASSUME NEW k \in UpdateKinds
    PROVE  Becomes[k] \in {"pending", "awaiting_result", "cancelled"}
<1>1. CASE k = "reschedule"
  BY <1>1 DEF Becomes
<1>2. CASE k = "execute"
  BY <1>2 DEF Becomes
<1>3. CASE k = "cancel"
  BY <1>3 DEF Becomes
<1> QED
  BY <1>1, <1>2, <1>3 DEF UpdateKinds

(* No operation undoes what another left on record.                        *)
Grows ==
    /\ opportunity' \in [Opportunities -> {"suggested", "accepted", "dismissed"}]
    /\ action' \in [Actions -> ActionRecords]
    /\ \A o \in Opportunities : opportunity[o] # "suggested" => opportunity'[o] # "suggested"
    /\ \A a \in Actions : /\ action[a].status = "completed" => action'[a].status = "completed"
                          /\ action'[a].version >= action[a].version

LEMMA AddedGrows ==
    ASSUME FollowTypeOK, NEW a \in Actions, Fresh(a), action' = Added(action, a)
    PROVE  /\ action' \in [Actions -> ActionRecords]
           /\ \A b \in Actions : /\ action[b].status = "completed" => action'[b].status = "completed"
                                 /\ action'[b].version >= action[b].version
<1>1. action \in [Actions -> ActionRecords] /\ action[a].status = "none"
  BY DEF FollowTypeOK, Fresh
<1>2. \A b \in Actions : action[b].version \in Nat /\ action'[b].version >= action[b].version
  <2> TAKE b \in Actions
  <2>1. action[b] \in ActionRecords
    BY <1>1
  <2>2. action[b].version \in Nat
    BY <2>1 DEF ActionRecords
  <2>3. action'[b].version = action[b].version
    BY <1>1, ActionWrites
  <2> QED
    BY <2>2, <2>3
<1> QED
  BY <1>1, <1>2, ActionWrites

LEMMA CarryEffects ==
    ASSUME FollowTypeOK, NEW order, Fits(order), Carry(order)
    PROVE  Grows /\ (order.kind # "create" => ~Done(order) /\ Done(order)')
<1>t. /\ opportunity \in [Opportunities -> {"suggested", "accepted", "dismissed"}]
      /\ action \in [Actions -> ActionRecords]
      /\ \A a \in Actions : action[a].version \in Nat
  BY DEF FollowTypeOK, ActionRecords
<1>k. order.version \in Nat /\ order.kind \in Kinds
  BY DEF Fits, Orders
<1>1. CASE order.kind = "create"
  <2>1. CreateAction
    BY <1>1 DEF Carry, DecisionKinds, UpdateKinds
  <2>2. PICK a \in Actions : Fresh(a) /\ action' = Added(action, a) /\ opportunity' = opportunity
    BY <2>1 DEF CreateAction
  <2> QED
    BY <1>1, <1>t, <2>2, AddedGrows DEF Grows
<1>2. CASE order.kind \in DecisionKinds
  <2> DEFINE o == order.target
  <2>1. Decide(o, order.kind) /\ o \in Opportunities
    BY <1>2 DEF Carry, DecisionKinds, UpdateKinds, Fits
  <2>2. /\ opportunity[o] = "suggested"
        /\ opportunity' \in {[opportunity EXCEPT ![o] = "accepted"],
                             [opportunity EXCEPT ![o] = "dismissed"]}
    BY <2>1 DEF Decide
  <2>3. action' = action \/ \E a \in Actions : Fresh(a) /\ action' = Added(action, a)
    BY <2>1 DEF Decide
  <2>4. /\ opportunity' \in [Opportunities -> {"suggested", "accepted", "dismissed"}]
        /\ opportunity'[o] # "suggested"
        /\ \A p \in Opportunities : opportunity[p] # "suggested" => opportunity'[p] # "suggested"
    BY <1>t, <2>1, <2>2
  <2>5. Grows
    BY <1>t, <2>3, <2>4, AddedGrows DEF Grows
  <2> QED
    BY <1>2, <2>2, <2>4, <2>5 DEF Done, DecisionKinds, UpdateKinds
<1>3. CASE order.kind = "result"
  <2> DEFINE a == order.target
             done == [action EXCEPT ![a] = [status |-> "completed", version |-> @.version + 1]]
  <2>1. AddResult(a) /\ a \in Actions
    BY <1>3 DEF Carry, DecisionKinds, UpdateKinds, Fits
  <2>2. /\ action[a].status = "awaiting_result" /\ opportunity' = opportunity
        /\ action' = done \/ \E b \in Actions : Fresh(b) /\ action' = Added(done, b)
    BY <2>1 DEF AddResult
  <2>3. [status |-> "completed", version |-> action[a].version + 1] \in ActionRecords
    BY <1>t, <2>1 DEF ActionRecords
  <2>4. /\ done \in [Actions -> ActionRecords]
        /\ done[a] = [status |-> "completed", version |-> action[a].version + 1]
        /\ \A b \in Actions : b # a => done[b] = action[b]
    BY <1>t, <2>1, <2>3
  <2>5. /\ action' \in [Actions -> ActionRecords] /\ action'[a] = done[a]
        /\ \A b \in Actions : /\ action'[b].version = done[b].version
                              /\ done[b].status = "completed" => action'[b].status = "completed"
    <3>1. CASE action' = done
      BY <2>4, <3>1
    <3>2. ASSUME NEW b \in Actions, Fresh(b), action' = Added(done, b)
          PROVE  /\ action' \in [Actions -> ActionRecords] /\ action'[a] = done[a]
                 /\ \A e \in Actions :
                      /\ action'[e].version = done[e].version
                      /\ done[e].status = "completed" => action'[e].status = "completed"
      <4>1. b # a /\ done[b].status = "none"
        BY <2>2, <2>4, <3>2 DEF Fresh
      <4> HIDE DEF done
      <4>2. /\ Added(done, b) \in [Actions -> ActionRecords]
            /\ Added(done, b)[b].version = done[b].version
            /\ \A e \in Actions : e # b => Added(done, b)[e] = done[e]
        BY <2>4, ActionWrites
      <4> QED
        BY <2>1, <3>2, <4>1, <4>2
    <3> QED
      BY <2>2, <3>1, <3>2
  <2>6. \A b \in Actions : /\ action[b].status = "completed" => action'[b].status = "completed"
                           /\ action'[b].version >= action[b].version
    <3> HIDE DEF done
    <3> TAKE b \in Actions
    <3>1. CASE b = a
      BY <1>t, <2>2, <2>4, <2>5, <3>1
    <3>2. CASE b # a
      BY <1>t, <2>4, <2>5, <3>2
    <3> QED
      BY <3>1, <3>2
  <2>7. Grows
    BY <1>t, <2>2, <2>5, <2>6 DEF Grows
  <2> QED
    BY <1>3, <2>2, <2>4, <2>5, <2>7 DEF Done, DecisionKinds, UpdateKinds
<1>4. CASE order.kind \in UpdateKinds
  <2> DEFINE a == order.target
             new == [status |-> Becomes[order.kind], version |-> action[a].version + 1]
  <2>1. UpdateAction(a, order.kind, order.version) /\ a \in Actions
    BY <1>4 DEF Carry, DecisionKinds, UpdateKinds, Fits
  <2>2. /\ action[a].version = order.version /\ opportunity' = opportunity
        /\ action[a].status \in {"pending", "awaiting_result"}
        /\ action' = [action EXCEPT ![a] = new]
    BY <2>1 DEF UpdateAction, SameVersion
  <2>3. new \in ActionRecords /\ new.version = action[a].version + 1
    BY <1>t, <1>4, <2>1, BecomesStatus DEF ActionRecords
  <2> HIDE DEF new
  <2>4. /\ action' \in [Actions -> ActionRecords] /\ action'[a] = new
        /\ \A b \in Actions : b # a => action'[b] = action[b]
    BY <1>t, <2>1, <2>2, <2>3
  <2>5. \A b \in Actions : /\ action[b].status = "completed" => action'[b].status = "completed"
                           /\ action'[b].version >= action[b].version
    BY <1>t, <2>2, <2>3, <2>4
  <2>6. Grows
    BY <1>t, <2>2, <2>4, <2>5 DEF Grows
  <2>7. ~(action[a].version > order.version) /\ action'[a].version > order.version
    BY <1>t, <1>k, <2>1, <2>2, <2>3, <2>4
  <2> QED
    BY <1>4, <2>6, <2>7 DEF Done, DecisionKinds, UpdateKinds
<1> QED
  BY <1>k, <1>1, <1>2, <1>3, <1>4 DEF Kinds

LEMMA DoneStays ==
    ASSUME FollowTypeOK, Grows, NEW order, Fits(order), Done(order)
    PROVE  Done(order)'
<1>1. order.version \in Nat
  BY DEF Fits, Orders
<1>2. \A a \in Actions : action[a].version \in Nat /\ action'[a].version \in Nat
  BY DEF FollowTypeOK, Grows, ActionRecords
<1> QED
  BY <1>1, <1>2 DEF Grows, Done, Fits

LEMMA AskableFits == ASSUME FollowTypeOK, NEW order \in Askable PROVE Fits(order)
<1>0. \A a \in Actions : action[a].version \in Nat
  BY DEF FollowTypeOK, ActionRecords
<1>1. CASE order = NoOrder
  BY <1>1 DEF NoOrder, Fits, Orders, Kinds, DecisionKinds, UpdateKinds
<1>2. ASSUME NEW k \in DecisionKinds, NEW o \in Opportunities,
             order = [kind |-> k, target |-> o, version |-> 0]
      PROVE  Fits(order)
  BY <1>2 DEF Fits, Orders, Kinds, DecisionKinds, UpdateKinds
<1>3. ASSUME NEW k \in UpdateKinds, NEW a \in Actions,
             order = [kind |-> k, target |-> a, version |-> action[a].version]
      PROVE  Fits(order)
  BY <1>0, <1>3 DEF Fits, Orders, Kinds, DecisionKinds, UpdateKinds
<1>4. ASSUME NEW a \in Actions, order = [kind |-> "result", target |-> a, version |-> 0]
      PROVE  Fits(order)
  BY <1>4 DEF Fits, Orders, Kinds, DecisionKinds, UpdateKinds
<1>5. "reschedule" \in UpdateKinds
  BY DEF UpdateKinds
<1> QED
  BY <1>1, <1>2, <1>3, <1>4, <1>5 DEF Askable

LEMMA ConfirmerWrites ==
    ASSUME NEW f \in [Confirmers -> ConfirmerRecords], NEW c \in Confirmers,
           NEW r \in ConfirmerRecords, NEW g, g = [f EXCEPT ![c] = r]
    PROVE  /\ g \in [Confirmers -> ConfirmerRecords] /\ g[c] = r
           /\ \A q \in Confirmers : q # c => g[q] = f[q]
  OBVIOUS

LEMMA MoveWrites ==
    ASSUME NEW f \in [Confirmers -> ConfirmerRecords], NEW c \in Confirmers,
           NEW p \in {"apply", "mark", "release"}, NEW g, g = [f EXCEPT ![c].at = p]
    PROVE  /\ g \in [Confirmers -> ConfirmerRecords]
           /\ g[c].at = p /\ g[c].draft = f[c].draft
           /\ \A q \in Confirmers : q # c => g[q] = f[q]
<1>1. f[c] \in ConfirmerRecords
  OBVIOUS
<1> DEFINE r == [f[c] EXCEPT !.at = p]
<1>2. r \in ConfirmerRecords /\ r.at = p /\ r.draft = f[c].draft
  BY <1>1 DEF ConfirmerRecords
<1>3. g = [f EXCEPT ![c] = r]
  OBVIOUS
<1> HIDE DEF r
<1> QED
  BY <1>2, <1>3

LEMMA StatusWrites ==
    ASSUME NEW f \in [Drafts -> DraftRecords], NEW d \in Drafts, NEW s \in {"applied", "dismissed"},
           NEW g, g = [f EXCEPT ![d].status = s]
    PROVE  /\ g \in [Drafts -> DraftRecords]
           /\ g[d].status = s /\ g[d].order = f[d].order /\ g[d].claim = f[d].claim
           /\ \A e \in Drafts : e # d => g[e] = f[e]
<1>1. f[d] \in DraftRecords
  OBVIOUS
<1> DEFINE r == [f[d] EXCEPT !.status = s]
<1>2. r \in DraftRecords /\ r.status = s /\ r.order = f[d].order /\ r.claim = f[d].claim
  BY <1>1 DEF DraftRecords
<1>3. g = [f EXCEPT ![d] = r]
  OBVIOUS
<1> HIDE DEF r
<1> QED
  BY <1>2, <1>3

LEMMA ClaimWrites ==
    ASSUME NEW f \in [Drafts -> DraftRecords], NEW d \in Drafts, NEW s \in {"free", "held", "overdue"},
           NEW g, g = [f EXCEPT ![d].claim = s]
    PROVE  /\ g \in [Drafts -> DraftRecords]
           /\ g[d].status = f[d].status /\ g[d].order = f[d].order /\ g[d].claim = s
           /\ \A e \in Drafts : e # d => g[e] = f[e]
<1>1. f[d] \in DraftRecords
  OBVIOUS
<1> DEFINE r == [f[d] EXCEPT !.claim = s]
<1>2. r \in DraftRecords /\ r.status = f[d].status /\ r.order = f[d].order /\ r.claim = s
  BY <1>1 DEF DraftRecords
<1>3. g = [f EXCEPT ![d] = r]
  OBVIOUS
<1> HIDE DEF r
<1> QED
  BY <1>2, <1>3

(* What a step of one request does to the number of claims.                *)
LEMMA ClaimsChange ==
    ASSUME FollowTypeOK, NEW c \in Confirmers, NEW d \in Drafts,
           \A q \in Confirmers : q # c => confirmer'[q] = confirmer[q]
    PROVE  LET n == Cardinality(Claims(d)) m == Cardinality(Claims(d)')
           IN  /\ n \in Nat /\ m \in Nat
               /\ (c \in Claims(d) <=> c \in Claims(d)') => m = n
               /\ c \notin Claims(d) /\ c \in Claims(d)' => m = n + 1
               /\ c \in Claims(d) /\ c \notin Claims(d)' => m = n - 1
<1> DEFINE A == Claims(d) B == Claims(d)'
<1>1. IsFiniteSet(A) /\ IsFiniteSet(B)
  BY FollowConstants, FS_Subset DEF Claims
<1>2. \A q \in Confirmers : q # c => (q \in A <=> q \in B)
  BY DEF Claims, DraftOf
<1>3. A \subseteq Confirmers /\ B \subseteq Confirmers
  BY DEF Claims
<1> HIDE DEF A, B
<1>4. Cardinality(A) \in Nat /\ Cardinality(B) \in Nat
  BY <1>1, FS_CardinalityType
<1>5. (c \in A <=> c \in B) => A = B
  BY <1>2, <1>3
<1>6. ASSUME c \notin A, c \in B PROVE Cardinality(B) = Cardinality(A) + 1
  <2>1. B = A \union {c}
    BY <1>2, <1>3, <1>6
  <2> QED
    BY <1>1, <1>6, <2>1, FS_AddElement
<1>7. ASSUME c \in A, c \notin B PROVE Cardinality(B) = Cardinality(A) - 1
  <2>1. B = A \ {c}
    BY <1>2, <1>3, <1>7
  <2> QED
    BY <1>1, <1>7, <2>1, FS_RemoveElement
<1>8. /\ Cardinality(A) \in Nat /\ Cardinality(B) \in Nat
      /\ (c \in A <=> c \in B) => Cardinality(B) = Cardinality(A)
      /\ c \notin A /\ c \in B => Cardinality(B) = Cardinality(A) + 1
      /\ c \in A /\ c \notin B => Cardinality(B) = Cardinality(A) - 1
  BY <1>4, <1>5, <1>6, <1>7
<1> QED
  BY <1>8 DEF A, B

LEMMA ClaimsNumber == \A d : Cardinality(Claims(d)) \in Nat
<1>1. \A d : Claims(d) \subseteq Confirmers
  BY DEF Claims
<1> QED
  BY <1>1, FollowConstants, FS_Subset, FS_CardinalityType

LEMMA FollowInitInv == FollowInit => FollowInv
<1> SUFFICES ASSUME FollowInit PROVE FollowInv
  OBVIOUS
<1>1. FollowTypeOK
  <2>1. [status |-> "none", version |-> 1] \in ActionRecords /\ IdleConfirmer \in ConfirmerRecords
    BY DEF ActionRecords, ConfirmerRecords, IdleConfirmer
  <2>2. [status |-> "none", order |-> NoOrder, claim |-> "free"] \in DraftRecords
    BY DEF DraftRecords, NoOrder, Orders, Kinds
  <2>3. /\ opportunity \in [Opportunities -> {"suggested", "accepted", "dismissed"}]
        /\ action \in [Actions -> ActionRecords]
    BY <2>1 DEF FollowInit
  <2>4. draft \in [Drafts -> DraftRecords] /\ confirmer \in [Confirmers -> ConfirmerRecords]
    BY <2>1, <2>2 DEF FollowInit
  <2>5. written \in [Drafts -> Nat] /\ confirmFaults \in 0 .. MaxConfirmFaults
    BY FollowConstants DEF FollowInit
  <2> QED
    BY <2>3, <2>4, <2>5 DEF FollowTypeOK
<1>2. ConfirmersHaveDrafts /\ DraftsFit /\ DoneOnce
  BY DEF FollowInit, ConfirmersHaveDrafts, DraftsFit, DoneOnce, OnceFor, IdleConfirmer, NoOrder,
         AtConfirm
<1>3. ASSUME NEW d \in Drafts PROVE PaidFor(d)
  <2>1. Claims(d) = {}
    BY DEF FollowInit, IdleConfirmer, Claims
  <2>2. Effects(d) = 0 /\ draft[d].status = "none" /\ confirmFaults = 0
    BY <2>1, FS_EmptySet DEF FollowInit, Effects
  <2> QED
    BY <2>2 DEF PaidFor, Unfinished
<1> QED
  BY <1>1, <1>2, <1>3 DEF FollowInv, EffectsArePaidFor

LEMMA FaultCounts ==
    ASSUME FollowTypeOK, ConfirmFault
    PROVE  confirmFaults' \in 0 .. MaxConfirmFaults /\ confirmFaults' = confirmFaults + 1
<1>1. confirmFaults \in Nat /\ confirmFaults < MaxConfirmFaults
  BY FollowConstants DEF FollowTypeOK, ConfirmFault
<1>2. confirmFaults' = confirmFaults + 1
  BY DEF ConfirmFault
<1> QED
  BY <1>1, <1>2, FollowConstants

LEMMA NothingDoneGrows ==
    ASSUME FollowTypeOK, opportunity' = opportunity, action' = action PROVE Grows
  BY DEF FollowTypeOK, Grows, ActionRecords

(* What one request for one draft cannot touch.                            *)
RequestTouches(c, e) ==
    /\ \A q \in Confirmers : q # c => confirmer'[q] = confirmer[q]
    /\ \A d \in Drafts : d # e => draft'[d] = draft[d] /\ written'[d] = written[d]
    /\ draft'[e].order = draft[e].order
    /\ draft[e].status # "none" /\ draft'[e].status # "none"
    /\ AtConfirm(c, "idle") \/ DraftOf(c) = e
    /\ AtConfirm(c, "idle")' \/ DraftOf(c)' = e
    /\ confirmFaults' >= confirmFaults

LEMMA RequestStep ==
    ASSUME FollowInv, FollowTypeOK', Grows, NEW c \in Confirmers, NEW e \in Drafts,
           RequestTouches(c, e), PaidFor(e)', OnceFor(e)'
    PROVE  FollowInv'
<1> USE DEF FollowInv
<1>1. ConfirmersHaveDrafts'
  BY DEF ConfirmersHaveDrafts, RequestTouches, AtConfirm, DraftOf
<1>2. DraftsFit'
  BY DEF DraftsFit, RequestTouches, Fits
<1>3. ASSUME NEW d \in Drafts, d # e PROVE PaidFor(d)'
  <2>1. draft'[d] = draft[d] /\ written'[d] = written[d]
    BY <1>3 DEF RequestTouches
  <2>2. /\ \A q \in Confirmers : q # c => confirmer'[q] = confirmer[q]
        /\ AtConfirm(c, "idle") \/ DraftOf(c) = e
        /\ AtConfirm(c, "idle")' \/ DraftOf(c)' = e
    BY DEF RequestTouches
  <2>3. c \notin Claims(d) /\ c \notin Claims(d)'
    BY <1>3, <2>2 DEF Claims, AtConfirm, DraftOf
  <2>4. Cardinality(Claims(d)') = Cardinality(Claims(d)) /\ Cardinality(Claims(d)) \in Nat
    BY <2>2, <2>3, ClaimsChange
  <2>5. Effects(d)' = Effects(d) /\ Effects(d) \in Nat
    BY <2>1, <2>4 DEF Effects, FollowTypeOK
  <2>6. Handled(d)' <=> Handled(d)
    BY <1>3, <2>2 DEF Handled, AtConfirm, DraftOf
  <2>7. PaidFor(d)
    BY DEF EffectsArePaidFor
  <2>8. confirmFaults \in Nat /\ confirmFaults' \in Nat /\ confirmFaults' >= confirmFaults
    BY FollowConstants DEF FollowTypeOK, RequestTouches
  <2> QED
    BY <2>1, <2>5, <2>6, <2>7, <2>8 DEF PaidFor, Unfinished
<1>4. ASSUME NEW d \in Drafts, d # e PROVE OnceFor(d)'
  <2>1. draft'[d] = draft[d] /\ written'[d] = written[d]
    BY <1>4 DEF RequestTouches
  <2>2. OnceFor(d)
    BY DEF DoneOnce
  <2>3. written[d] # 0 => Fits(draft[d].order)
    BY DEF DraftsFit
  <2>4. draft[d].order.kind # "create" /\ written[d] # 0 => Done(draft[d].order)'
    BY <2>1, <2>2, <2>3, DoneStays DEF OnceFor
  <2> QED
    BY <2>1, <2>2, <2>4 DEF OnceFor
<1> QED
  BY <1>1, <1>2, <1>3, <1>4 DEF EffectsArePaidFor, DoneOnce

(* A draft that is not applied in this step.                               *)
LEMMA OnceStays ==
    ASSUME FollowInv, Grows, NEW d \in Drafts, draft'[d].order = draft[d].order,
           written'[d] = written[d]
    PROVE  OnceFor(d)'
<1>1. OnceFor(d) /\ (written[d] # 0 => Fits(draft[d].order))
  BY DEF FollowInv, DoneOnce, DraftsFit
<1>2. draft[d].order.kind # "create" /\ written[d] # 0 => Done(draft[d].order)'
  BY <1>1, DoneStays DEF OnceFor, FollowInv
<1> QED
  BY <1>1, <1>2 DEF OnceFor

(* A step on one draft that moves no request.                              *)
LEMMA DraftStep ==
    ASSUME FollowInv, FollowTypeOK', NEW e \in Drafts,
           UNCHANGED <<opportunity, action, confirmer, written>>,
           \A d \in Drafts : d # e => draft'[d] = draft[d],
           draft'[e].status # "none", Fits(draft'[e].order),
           confirmFaults' >= confirmFaults,
           PaidFor(e)', OnceFor(e)'
    PROVE  FollowInv'
<1> USE DEF FollowInv
<1>0. Grows
  BY NothingDoneGrows
<1>1. ConfirmersHaveDrafts'
  BY DEF ConfirmersHaveDrafts, AtConfirm, DraftOf
<1>2. DraftsFit'
  BY DEF DraftsFit, Fits
<1>3. ASSUME NEW d \in Drafts, d # e PROVE PaidFor(d)' /\ OnceFor(d)'
  <2>1. draft'[d] = draft[d]
    BY <1>3
  <2>2. Effects(d)' = Effects(d) /\ (Handled(d)' <=> Handled(d))
    BY DEF Effects, Claims, Handled, DraftOf
  <2>3. Effects(d) \in Nat
    BY ClaimsNumber DEF Effects, FollowTypeOK
  <2>4. confirmFaults \in Nat /\ confirmFaults' \in Nat
    BY FollowConstants DEF FollowTypeOK
  <2>5. PaidFor(d)
    BY DEF EffectsArePaidFor
  <2>6. OnceFor(d)'
    BY <1>0, <2>1, OnceStays
  <2> QED
    BY <2>1, <2>2, <2>3, <2>4, <2>5, <2>6 DEF PaidFor, Unfinished
<1> QED
  BY <1>1, <1>2, <1>3 DEF EffectsArePaidFor, DoneOnce

LEMMA OwnerStep == ASSUME FollowInv, OwnerActs PROVE FollowInv'
<1> USE DEF FollowInv
<1>1. UNCHANGED <<draft, confirmer, written, confirmFaults>>
  BY DEF OwnerActs
<1>2. Grows
  <2>1. PICK order \in Askable : Carry(order)
    BY DEF OwnerActs
  <2> QED
    BY <2>1, AskableFits, CarryEffects
<1>3. FollowTypeOK'
  BY <1>1, <1>2 DEF FollowTypeOK, Grows
<1>4. ConfirmersHaveDrafts' /\ DraftsFit'
  BY <1>1 DEF ConfirmersHaveDrafts, DraftsFit, AtConfirm, DraftOf, Fits
<1>5. \A d \in Drafts : OnceFor(d)'
  BY <1>1, <1>2, OnceStays
<1>6. EffectsArePaidFor'
  BY <1>1 DEF EffectsArePaidFor, PaidFor, Effects, Claims, Handled, Unfinished, DraftOf
<1> QED
  BY <1>3, <1>4, <1>5, <1>6 DEF DoneOnce

LEMMA PrepareStep == ASSUME FollowInv, NEW d \in Drafts, Prepare(d) PROVE FollowInv'
<1> USE DEF FollowInv
<1>1. PICK order \in Askable :
         /\ draft[d].status = "none"
         /\ draft' = [draft EXCEPT ![d].status = "open", ![d].order = order]
         /\ UNCHANGED <<opportunity, action, confirmer, written, confirmFaults>>
  BY DEF Prepare
<1>2. Fits(order) /\ order \in Orders
  BY AskableFits DEF Fits
<1>3. /\ draft' \in [Drafts -> DraftRecords]
      /\ draft'[d].status = "open" /\ draft'[d].order = order
      /\ \A e \in Drafts : e # d => draft'[e] = draft[e]
  <2>1. draft \in [Drafts -> DraftRecords] /\ draft[d] \in DraftRecords
    BY DEF FollowTypeOK
  <2> DEFINE r == [[draft[d] EXCEPT !.status = "open"] EXCEPT !.order = order]
  <2>2. r \in DraftRecords /\ r.status = "open" /\ r.order = order
    BY <1>2, <2>1 DEF DraftRecords
  <2>3. draft' = [draft EXCEPT ![d] = r]
    BY <1>1, <2>1
  <2> HIDE DEF r
  <2> QED
    BY <2>1, <2>2, <2>3
<1>4. FollowTypeOK'
  BY <1>1, <1>3 DEF FollowTypeOK
<1>5. written'[d] = 0 /\ Claims(d)' = {}
  BY <1>1 DEF DraftsFit, ConfirmersHaveDrafts, Claims, AtConfirm, DraftOf
<1>6. Effects(d)' = 0
  BY <1>5, FS_EmptySet DEF Effects
<1>7. confirmFaults' \in Nat /\ confirmFaults' = confirmFaults
  BY <1>1, FollowConstants DEF FollowTypeOK
<1>8. PaidFor(d)' /\ OnceFor(d)'
  BY <1>3, <1>5, <1>6, <1>7 DEF PaidFor, OnceFor
<1> QED
  BY <1>1, <1>2, <1>3, <1>4, <1>7, <1>8, DraftStep

LEMMA AgesStep ==
    ASSUME FollowInv, NEW d \in Drafts, ClaimAges(d) \/ DismissDraft(d) PROVE FollowInv'
<1> USE DEF FollowInv
<1>1. /\ draft[d].status = "open"
      /\ UNCHANGED <<opportunity, action, confirmer, written>>
      /\ draft' \in {[draft EXCEPT ![d].claim = "overdue"],
                     [draft EXCEPT ![d].status = "dismissed"]}
  BY DEF ClaimAges, DismissDraft, Unfinished, Unclaimed
<1>2. /\ draft' \in [Drafts -> DraftRecords]
      /\ draft'[d].status # "none" /\ draft'[d].order = draft[d].order
      /\ \A e \in Drafts : e # d => draft'[e] = draft[e]
  <2>1. draft \in [Drafts -> DraftRecords]
    BY DEF FollowTypeOK
  <2>2. CASE draft' = [draft EXCEPT ![d].claim = "overdue"]
    BY <1>1, <2>1, <2>2, ClaimWrites
  <2>3. CASE draft' = [draft EXCEPT ![d].status = "dismissed"]
    BY <2>1, <2>3, StatusWrites
  <2> QED
    BY <1>1, <2>2, <2>3
<1>3. /\ confirmFaults \in Nat /\ Effects(d) \in Nat
      /\ confirmFaults' \in 0 .. MaxConfirmFaults
      /\ confirmFaults' = confirmFaults \/ confirmFaults' = confirmFaults + 1
  <2>1. confirmFaults' = confirmFaults \/ ConfirmFault
    BY DEF ClaimAges, DismissDraft
  <2>2. Effects(d) \in Nat
    BY ClaimsNumber DEF Effects, FollowTypeOK
  <2> QED
    BY <2>1, <2>2, FaultCounts, FollowConstants DEF FollowTypeOK
<1>4. FollowTypeOK'
  BY <1>1, <1>2, <1>3 DEF FollowTypeOK
<1>5. PaidFor(d)
  BY DEF EffectsArePaidFor
<1>6. Effects(d)' = Effects(d)
  BY <1>1 DEF Effects, Claims, DraftOf
<1>7. Effects(d) <= confirmFaults'
  <2>1. CASE DismissDraft(d)
    BY <1>3, <1>5, <2>1 DEF DismissDraft, Unclaimed, PaidFor
  <2>2. CASE ClaimAges(d)
    <3>1. CASE \E c \in Confirmers : DraftOf(c) = d /\ ~AtConfirm(c, "claim")
      <4>1. confirmFaults' = confirmFaults + 1
        BY <2>2, <3>1, FaultCounts DEF ClaimAges
      <4> QED
        BY <1>3, <1>5, <4>1 DEF PaidFor
    <3>2. CASE ~ \E c \in Confirmers : DraftOf(c) = d /\ ~AtConfirm(c, "claim")
      <4>1. ~Handled(d) /\ Unfinished(d)
        BY <2>2, <3>2 DEF Handled, AtConfirm, ClaimAges
      <4> QED
        BY <1>3, <1>5, <4>1 DEF PaidFor
    <3> QED
      BY <3>1, <3>2
  <2> QED
    BY <2>1, <2>2
<1>8. PaidFor(d)'
  BY <1>3, <1>6, <1>7 DEF PaidFor
<1>9. OnceFor(d)' /\ Fits(draft'[d].order)
  <2>1. Fits(draft[d].order)
    BY <1>1 DEF DraftsFit
  <2> QED
    BY <1>1, <1>2, <2>1, NothingDoneGrows, OnceStays
<1> QED
  BY <1>1, <1>2, <1>3, <1>4, <1>8, <1>9, DraftStep

(* The steps of one request that confirms a draft.                         *)

LEMMA RequestFacts ==
    ASSUME FollowInv, NEW c \in Confirmers
    PROVE  /\ confirmer \in [Confirmers -> ConfirmerRecords]
           /\ draft \in [Drafts -> DraftRecords]
           /\ ~AtConfirm(c, "idle") => /\ DraftOf(c) \in Drafts
                                       /\ draft[DraftOf(c)].status # "none"
                                       /\ Fits(draft[DraftOf(c)].order)
           /\ \A d \in Drafts : Effects(d) \in Nat /\ PaidFor(d) /\ written[d] \in Nat
           /\ confirmFaults \in Nat
  BY ClaimsNumber, FollowConstants
  DEF FollowInv, FollowTypeOK, ConfirmersHaveDrafts, DraftsFit, EffectsArePaidFor, Effects

(* A request moves on to apply, mark or release.                           *)
LEMMA RequestMoves ==
    ASSUME FollowInv, NEW c \in Confirmers, NEW p \in {"apply", "mark", "release"}, Moves(c, p)
    PROVE  /\ confirmer' \in [Confirmers -> ConfirmerRecords]
           /\ confirmer'[c].at = p /\ confirmer'[c].draft = confirmer[c].draft
           /\ \A q \in Confirmers : q # c => confirmer'[q] = confirmer[q]
<1>1. confirmer \in [Confirmers -> ConfirmerRecords]
  BY RequestFacts
<1>2. confirmer' = [confirmer EXCEPT ![c].at = p]
  BY DEF Moves
<1> QED
  BY <1>1, <1>2, MoveWrites

LEMMA RequestLeaves ==
    ASSUME FollowInv, NEW c \in Confirmers, Leaves(c)
    PROVE  /\ confirmer' \in [Confirmers -> ConfirmerRecords] /\ confirmer'[c].at = "idle"
           /\ \A q \in Confirmers : q # c => confirmer'[q] = confirmer[q]
<1>1. confirmer \in [Confirmers -> ConfirmerRecords]
  BY RequestFacts
<1>2. IdleConfirmer \in ConfirmerRecords /\ IdleConfirmer.at = "idle"
  BY DEF IdleConfirmer, ConfirmerRecords
<1>3. confirmer' = [confirmer EXCEPT ![c] = IdleConfirmer]
  BY DEF Leaves
<1> HIDE DEF IdleConfirmer
<1> QED
  BY <1>1, <1>2, <1>3, ConfirmerWrites

LEMMA ConfirmStep ==
    ASSUME FollowInv, NEW c \in Confirmers, NEW d \in Drafts, Confirm(c, d) PROVE FollowInv'
<1>1. /\ confirmer \in [Confirmers -> ConfirmerRecords] /\ confirmer[c].at = "idle"
      /\ draft[d].status = "open"
      /\ confirmer' = [confirmer EXCEPT ![c] = [at |-> "claim", draft |-> d]]
      /\ UNCHANGED <<opportunity, action, draft, written, confirmFaults>>
  BY RequestFacts DEF Confirm, AtConfirm, Unfinished
<1>2. /\ confirmer' \in [Confirmers -> ConfirmerRecords]
      /\ confirmer'[c].at = "claim" /\ confirmer'[c].draft = d
      /\ \A q \in Confirmers : q # c => confirmer'[q] = confirmer[q]
  <2> DEFINE r == [at |-> "claim", draft |-> d]
  <2>1. r \in ConfirmerRecords /\ r.at = "claim" /\ r.draft = d
    BY DEF ConfirmerRecords
  <2>2. confirmer' = [confirmer EXCEPT ![c] = r]
    BY <1>1
  <2> HIDE DEF r
  <2> QED
    BY <1>1, <2>1, <2>2, ConfirmerWrites
<1>3. FollowTypeOK' /\ Grows
  BY <1>1, <1>2, NothingDoneGrows DEF FollowInv, FollowTypeOK
<1>4. confirmFaults \in Nat
  BY RequestFacts
<1>5. RequestTouches(c, d)
  BY <1>1, <1>2, <1>4 DEF RequestTouches, AtConfirm, DraftOf
<1>6. Claims(d)' = Claims(d) /\ (Handled(d)' <=> Handled(d))
  BY <1>1, <1>2 DEF Claims, Handled, DraftOf
<1>7. PaidFor(d)'
  BY <1>1, <1>6, RequestFacts DEF PaidFor, Effects, Unfinished
<1>8. OnceFor(d)'
  BY <1>1, <1>3, OnceStays
<1> QED
  BY <1>3, <1>5, <1>7, <1>8, RequestStep

LEMMA ClaimStep == ASSUME FollowInv, NEW c \in Confirmers, Claim(c) PROVE FollowInv'
<1>0. DraftOf(c) \in Drafts
  BY RequestFacts DEF Claim, AtConfirm
<1>d. PICK d \in Drafts : d = DraftOf(c)
  BY <1>0
<1>1. /\ draft \in [Drafts -> DraftRecords]
      /\ confirmer[c].at = "claim" /\ confirmer[c].draft = d /\ draft[d].status # "none"
      /\ UNCHANGED <<opportunity, action, written, confirmFaults>>
  BY <1>d, RequestFacts DEF Claim, AtConfirm, DraftOf
<1>2. confirmFaults \in Nat /\ Effects(d) \in Nat /\ PaidFor(d) /\ written[d] \in Nat
  BY RequestFacts
<1>3. CASE Unclaimed(d)
  <2>1. draft' = [draft EXCEPT ![d].claim = "held"] /\ Moves(c, "apply")
    BY <1>d, <1>3 DEF Claim
  <2>2. /\ draft' \in [Drafts -> DraftRecords]
        /\ draft'[d].status = draft[d].status /\ draft'[d].order = draft[d].order
        /\ draft'[d].claim = "held"
        /\ \A e \in Drafts : e # d => draft'[e] = draft[e]
    BY <1>1, <2>1, ClaimWrites
  <2>3. /\ confirmer' \in [Confirmers -> ConfirmerRecords]
        /\ confirmer'[c].at = "apply" /\ confirmer'[c].draft = d
        /\ \A q \in Confirmers : q # c => confirmer'[q] = confirmer[q]
    BY <1>1, <2>1, RequestMoves
  <2>4. FollowTypeOK' /\ Grows
    BY <1>1, <2>2, <2>3, NothingDoneGrows DEF FollowInv, FollowTypeOK
  <2>5. RequestTouches(c, d)
    BY <1>1, <1>2, <2>2, <2>3 DEF RequestTouches, AtConfirm, DraftOf
  <2>6. c \notin Claims(d) /\ c \in Claims(d)' /\ Handled(d)'
    BY <1>1, <2>3 DEF Claims, Handled, DraftOf
  <2>7. Effects(d)' = Effects(d) + 1
    <3>1. Cardinality(Claims(d)') = Cardinality(Claims(d)) + 1 /\ Cardinality(Claims(d)) \in Nat
      BY <2>3, <2>6, ClaimsChange DEF FollowInv
    <3> QED
      BY <1>1, <1>2, <3>1 DEF Effects
  <2>8. draft[d].status = "open" /\ Effects(d) <= confirmFaults
    BY <1>2, <1>3 DEF Unclaimed, Unfinished, PaidFor
  <2>9. PaidFor(d)'
    BY <1>1, <1>2, <2>2, <2>6, <2>7, <2>8 DEF PaidFor
  <2>10. OnceFor(d)'
    BY <1>1, <2>2, <2>4, OnceStays
  <2> QED
    BY <2>4, <2>5, <2>9, <2>10, RequestStep
<1>4. CASE ~Unclaimed(d)
  <2>1. draft' = draft /\ Leaves(c)
    BY <1>d, <1>4 DEF Claim
  <2>2. /\ confirmer' \in [Confirmers -> ConfirmerRecords] /\ confirmer'[c].at = "idle"
        /\ \A q \in Confirmers : q # c => confirmer'[q] = confirmer[q]
    BY <2>1, RequestLeaves
  <2>3. FollowTypeOK' /\ Grows
    BY <1>1, <2>1, <2>2, NothingDoneGrows DEF FollowInv, FollowTypeOK
  <2>4. RequestTouches(c, d)
    BY <1>1, <1>2, <2>1, <2>2 DEF RequestTouches, AtConfirm, DraftOf
  <2>5. Claims(d)' = Claims(d) /\ (Handled(d)' <=> Handled(d))
    BY <1>1, <2>2 DEF Claims, Handled, DraftOf
  <2>6. PaidFor(d)'
    BY <1>1, <1>2, <2>1, <2>5 DEF PaidFor, Effects, Unfinished
  <2>7. OnceFor(d)'
    BY <1>1, <2>1, <2>3, OnceStays
  <2> QED
    BY <2>3, <2>4, <2>6, <2>7, RequestStep
<1> QED
  BY <1>3, <1>4

LEMMA ApplyStep == ASSUME FollowInv, NEW c \in Confirmers, Apply(c) PROVE FollowInv'
<1>0. DraftOf(c) \in Drafts
  BY RequestFacts DEF Apply, AtConfirm
<1>d. PICK d \in Drafts : d = DraftOf(c)
  BY <1>0
<1>1. /\ draft \in [Drafts -> DraftRecords] /\ Fits(draft[d].order)
      /\ confirmer[c].at = "apply" /\ confirmer[c].draft = d /\ draft[d].status # "none"
      /\ Carry(draft[d].order) /\ Moves(c, "mark")
      /\ written' = [written EXCEPT ![d] = @ + 1] /\ UNCHANGED <<draft, confirmFaults>>
  BY <1>d, RequestFacts DEF Apply, AtConfirm, DraftOf
<1>2. confirmFaults \in Nat /\ Effects(d) \in Nat /\ PaidFor(d) /\ written[d] \in Nat
  BY RequestFacts
<1>3. /\ confirmer' \in [Confirmers -> ConfirmerRecords]
      /\ confirmer'[c].at = "mark" /\ confirmer'[c].draft = d
      /\ \A q \in Confirmers : q # c => confirmer'[q] = confirmer[q]
  BY <1>1, RequestMoves
<1>4. /\ written' \in [Drafts -> Nat] /\ written'[d] = written[d] + 1
      /\ \A e \in Drafts : e # d => written'[e] = written[e]
  BY <1>1, <1>2 DEF FollowInv, FollowTypeOK
<1>5. PICK order : order = draft[d].order
  OBVIOUS
<1>6. Grows /\ (order.kind # "create" => ~Done(order) /\ Done(order)')
  BY <1>1, <1>5, CarryEffects DEF FollowInv
<1>7. FollowTypeOK'
  BY <1>1, <1>3, <1>4, <1>6 DEF FollowInv, FollowTypeOK, Grows
<1>8. RequestTouches(c, d)
  BY <1>1, <1>2, <1>3, <1>4 DEF RequestTouches, AtConfirm, DraftOf
<1>9. /\ c \in Claims(d) /\ c \notin Claims(d)'
      /\ Handled(d) /\ Handled(d)'
  BY <1>1, <1>3 DEF Claims, Handled, DraftOf
<1>10. Effects(d)' = Effects(d)
  <2>1. /\ Cardinality(Claims(d)') = Cardinality(Claims(d)) - 1
        /\ Cardinality(Claims(d)) \in Nat
    BY <1>3, <1>9, ClaimsChange DEF FollowInv
  <2> QED
    BY <1>2, <1>4, <2>1 DEF Effects
<1>11. PaidFor(d)'
  BY <1>1, <1>2, <1>9, <1>10 DEF PaidFor, Unfinished
<1>12. OnceFor(d)'
  <2>1. OnceFor(d)
    BY DEF FollowInv, DoneOnce
  <2>2. order.kind # "create" => written[d] = 0
    BY <1>2, <1>5, <1>6, <2>1 DEF OnceFor
  <2> QED
    BY <1>1, <1>4, <1>5, <1>6, <2>2 DEF OnceFor
<1> QED
  BY <1>6, <1>7, <1>8, <1>11, <1>12, RequestStep

LEMMA ReturnsStep == ASSUME FollowInv, NEW c \in Confirmers, ApplyFails(c) \/ FailsAfterwards(c) PROVE FollowInv'
<1>0. DraftOf(c) \in Drafts
  BY RequestFacts DEF ApplyFails, FailsAfterwards, AtConfirm
<1>d. PICK d \in Drafts : d = DraftOf(c)
  BY <1>0
<1>1. /\ confirmer[c].at \in {"apply", "mark"} /\ confirmer[c].draft = d
      /\ draft[d].status # "none" /\ Moves(c, "release")
      /\ UNCHANGED <<opportunity, action, draft, written>>
  BY <1>d, RequestFacts DEF ApplyFails, FailsAfterwards, AtConfirm, DraftOf
<1>2. confirmFaults \in Nat /\ Effects(d) \in Nat /\ PaidFor(d) /\ written[d] \in Nat
  BY RequestFacts
<1>3. /\ confirmer' \in [Confirmers -> ConfirmerRecords]
      /\ confirmer'[c].at = "release" /\ confirmer'[c].draft = d
      /\ \A q \in Confirmers : q # c => confirmer'[q] = confirmer[q]
  BY <1>1, RequestMoves
<1>4. \/ confirmer[c].at = "apply" /\ confirmFaults' = confirmFaults
      \/ confirmer[c].at = "mark" /\ confirmFaults' = confirmFaults + 1
  BY FaultCounts DEF FollowInv, ApplyFails, FailsAfterwards, AtConfirm
<1>5. confirmFaults' \in 0 .. MaxConfirmFaults
  <2>1. confirmFaults' = confirmFaults \/ ConfirmFault
    BY DEF ApplyFails, FailsAfterwards
  <2> QED
    BY <2>1, FaultCounts DEF FollowInv, FollowTypeOK
<1>6. FollowTypeOK' /\ Grows
  BY <1>1, <1>3, <1>5, NothingDoneGrows DEF FollowInv, FollowTypeOK
<1>7. RequestTouches(c, d)
  BY <1>1, <1>2, <1>3, <1>4 DEF RequestTouches, AtConfirm, DraftOf
<1>8. /\ c \in Claims(d) <=> confirmer[c].at = "apply"
      /\ c \in Claims(d)' /\ Handled(d) /\ Handled(d)'
  BY <1>1, <1>3 DEF Claims, Handled, DraftOf
<1>9. Effects(d)' - Effects(d) = confirmFaults' - confirmFaults /\ Effects(d)' \in Nat
  <2>1. /\ Cardinality(Claims(d)) \in Nat
        /\ confirmer[c].at = "apply" => Cardinality(Claims(d)') = Cardinality(Claims(d))
        /\ confirmer[c].at # "apply" => Cardinality(Claims(d)') = Cardinality(Claims(d)) + 1
    BY <1>3, <1>8, ClaimsChange DEF FollowInv
  <2> QED
    BY <1>1, <1>2, <1>4, <2>1 DEF Effects
<1>10. PaidFor(d)'
  BY <1>1, <1>2, <1>4, <1>8, <1>9 DEF PaidFor, Unfinished
<1>11. OnceFor(d)'
  BY <1>1, <1>6, OnceStays
<1> QED
  BY <1>6, <1>7, <1>10, <1>11, RequestStep

LEMMA MarkStep == ASSUME FollowInv, NEW c \in Confirmers, MarkApplied(c) PROVE FollowInv'
<1>0. DraftOf(c) \in Drafts
  BY RequestFacts DEF MarkApplied, AtConfirm
<1>d. PICK d \in Drafts : d = DraftOf(c)
  BY <1>0
<1>1. /\ draft \in [Drafts -> DraftRecords]
      /\ confirmer[c].at = "mark" /\ confirmer[c].draft = d /\ draft[d].status # "none"
      /\ draft' = IF Unfinished(d) THEN [draft EXCEPT ![d].status = "applied"] ELSE draft
      /\ Leaves(c) /\ UNCHANGED <<opportunity, action, written, confirmFaults>>
  BY <1>d, RequestFacts DEF MarkApplied, AtConfirm, DraftOf
<1>2. confirmFaults \in Nat /\ Effects(d) \in Nat /\ PaidFor(d) /\ written[d] \in Nat
  BY RequestFacts
<1>3. /\ confirmer' \in [Confirmers -> ConfirmerRecords] /\ confirmer'[c].at = "idle"
      /\ \A q \in Confirmers : q # c => confirmer'[q] = confirmer[q]
  BY <1>1, RequestLeaves
<1>4. /\ draft' \in [Drafts -> DraftRecords] /\ draft'[d].order = draft[d].order
      /\ draft'[d].status \notin {"none", "open"}
      /\ draft'[d].status = "dismissed" => draft[d].status = "dismissed"
      /\ \A e \in Drafts : e # d => draft'[e] = draft[e]
  <2>1. CASE Unfinished(d)
    <3>1. draft' = [draft EXCEPT ![d].status = "applied"]
      BY <1>1, <2>1
    <3> QED
      BY <1>1, <3>1, StatusWrites
  <2>2. CASE ~Unfinished(d)
    BY <1>1, <2>2 DEF Unfinished
  <2> QED
    BY <2>1, <2>2
<1>5. FollowTypeOK' /\ Grows
  BY <1>1, <1>3, <1>4, NothingDoneGrows DEF FollowInv, FollowTypeOK
<1>6. RequestTouches(c, d)
  BY <1>1, <1>2, <1>3, <1>4 DEF RequestTouches, AtConfirm, DraftOf
<1>7. Effects(d)' = Effects(d)
  <2>1. Claims(d)' = Claims(d)
    BY <1>1, <1>3 DEF Claims, DraftOf
  <2> QED
    BY <1>1, <2>1 DEF Effects
<1>8. PaidFor(d)'
  BY <1>1, <1>2, <1>4, <1>7 DEF PaidFor, Unfinished
<1>9. OnceFor(d)'
  BY <1>1, <1>4, <1>5, OnceStays
<1> QED
  BY <1>5, <1>6, <1>8, <1>9, RequestStep

LEMMA ReleaseStep == ASSUME FollowInv, NEW c \in Confirmers, ReleaseDraft(c) PROVE FollowInv'
<1>0. DraftOf(c) \in Drafts
  BY RequestFacts DEF ReleaseDraft, AtConfirm
<1>d. PICK d \in Drafts : d = DraftOf(c)
  BY <1>0
<1>1. /\ draft \in [Drafts -> DraftRecords]
      /\ confirmer[c].at = "release" /\ confirmer[c].draft = d /\ draft[d].status # "none"
      /\ draft' = IF Unfinished(d) THEN [draft EXCEPT ![d].claim = "free"] ELSE draft
      /\ Leaves(c) /\ UNCHANGED <<opportunity, action, written, confirmFaults>>
  BY <1>d, RequestFacts DEF ReleaseDraft, AtConfirm, DraftOf
<1>2. confirmFaults \in Nat /\ Effects(d) \in Nat /\ PaidFor(d) /\ written[d] \in Nat
  BY RequestFacts
<1>3. /\ confirmer' \in [Confirmers -> ConfirmerRecords] /\ confirmer'[c].at = "idle"
      /\ \A q \in Confirmers : q # c => confirmer'[q] = confirmer[q]
  BY <1>1, RequestLeaves
<1>4. /\ draft' \in [Drafts -> DraftRecords] /\ draft'[d].order = draft[d].order
      /\ draft'[d].status = draft[d].status
      /\ \A e \in Drafts : e # d => draft'[e] = draft[e]
  <2>1. CASE Unfinished(d)
    <3>1. draft' = [draft EXCEPT ![d].claim = "free"]
      BY <1>1, <2>1
    <3> QED
      BY <1>1, <3>1, ClaimWrites
  <2>2. CASE ~Unfinished(d)
    BY <1>1, <2>2
  <2> QED
    BY <2>1, <2>2
<1>5. FollowTypeOK' /\ Grows
  BY <1>1, <1>3, <1>4, NothingDoneGrows DEF FollowInv, FollowTypeOK
<1>6. RequestTouches(c, d)
  BY <1>1, <1>2, <1>3, <1>4 DEF RequestTouches, AtConfirm, DraftOf
<1>7. Effects(d)' = Effects(d) - 1
  <2>1. c \in Claims(d) /\ c \notin Claims(d)'
    BY <1>1, <1>3 DEF Claims, DraftOf
  <2>2. /\ Cardinality(Claims(d)') = Cardinality(Claims(d)) - 1
        /\ Cardinality(Claims(d)) \in Nat
    BY <1>3, <2>1, ClaimsChange DEF FollowInv
  <2> QED
    BY <1>1, <1>2, <2>2 DEF Effects
<1>8. PaidFor(d)'
  BY <1>1, <1>2, <1>7 DEF PaidFor
<1>9. OnceFor(d)'
  BY <1>1, <1>4, <1>5, OnceStays
<1> QED
  BY <1>5, <1>6, <1>8, <1>9, RequestStep

LEMMA DiesStep == ASSUME FollowInv, NEW c \in Confirmers, ConfirmerDies(c) PROVE FollowInv'
<1>0. DraftOf(c) \in Drafts
  BY RequestFacts DEF ConfirmerDies, AtConfirm
<1>d. PICK d \in Drafts : d = DraftOf(c)
  BY <1>0
<1>1. /\ confirmer[c].draft = d /\ draft[d].status # "none"
      /\ Leaves(c) /\ ConfirmFault /\ UNCHANGED <<opportunity, action, draft, written>>
  BY <1>d, RequestFacts DEF ConfirmerDies, AtConfirm, DraftOf
<1>2. confirmFaults \in Nat /\ Effects(d) \in Nat /\ PaidFor(d) /\ written[d] \in Nat
  BY RequestFacts
<1>3. /\ confirmer' \in [Confirmers -> ConfirmerRecords] /\ confirmer'[c].at = "idle"
      /\ \A q \in Confirmers : q # c => confirmer'[q] = confirmer[q]
  BY <1>1, RequestLeaves
<1>4. confirmFaults' \in 0 .. MaxConfirmFaults /\ confirmFaults' = confirmFaults + 1
  BY <1>1, FaultCounts DEF FollowInv
<1>5. FollowTypeOK' /\ Grows
  BY <1>1, <1>3, <1>4, NothingDoneGrows DEF FollowInv, FollowTypeOK
<1>6. RequestTouches(c, d)
  BY <1>1, <1>2, <1>3, <1>4 DEF RequestTouches, AtConfirm, DraftOf
<1>7. Effects(d)' <= Effects(d) /\ Effects(d)' \in Int
  <2>1. c \notin Claims(d)'
    BY <1>3 DEF Claims
  <2>2. /\ Cardinality(Claims(d)') <= Cardinality(Claims(d))
        /\ Cardinality(Claims(d)) \in Nat /\ Cardinality(Claims(d)') \in Nat
    BY <1>3, <2>1, ClaimsChange DEF FollowInv
  <2> QED
    BY <1>1, <1>2, <2>2 DEF Effects
<1>8. PaidFor(d)'
  BY <1>2, <1>4, <1>7 DEF PaidFor
<1>9. OnceFor(d)'
  BY <1>1, <1>5, OnceStays
<1> QED
  BY <1>5, <1>6, <1>8, <1>9, RequestStep

LEMMA FollowInvStep == FollowInv /\ [FollowNext]_followVars => FollowInv'
<1> SUFFICES ASSUME FollowInv, [FollowNext]_followVars PROVE FollowInv'
  OBVIOUS
<1>1. CASE FollowNext
  BY <1>1, OwnerStep, PrepareStep, AgesStep, ConfirmStep, ClaimStep, ApplyStep, ReturnsStep,
     MarkStep, ReleaseStep, DiesStep
  DEF FollowNext
<1>2. CASE UNCHANGED followVars
  BY <1>2 DEF followVars, FollowInv, FollowTypeOK, ConfirmersHaveDrafts, DraftsFit,
              EffectsArePaidFor, PaidFor, Effects, Claims, Handled, DoneOnce, OnceFor, Done, Fits,
              Unfinished, AtConfirm, DraftOf
<1> QED
  BY <1>1, <1>2

(* The inductive invariant of the proposals holds in every reachable state. *)
THEOREM FollowInvariance == FollowSpec => []FollowInv
<1>1. FollowInit => FollowInv
  BY FollowInitInv
<1>2. FollowInv /\ [FollowNext]_followVars => FollowInv'
  BY FollowInvStep
<1> QED
  BY <1>1, <1>2, PTL DEF FollowSpec

(* A proposal of conversation-drafts.ts takes effect once, and not after   *)
(* it was dismissed, except for one effect more per death, late error or   *)
(* outlived claim; a decision, a result or a change of an action takes     *)
(* effect once whatever happens.                                           *)
THEOREM DraftsTakeEffectOnce == FollowSpec => []ConfirmedOnce
<1>1. ASSUME FollowInv PROVE ConfirmedOnce
  <2> SUFFICES ASSUME NEW d \in Drafts
               PROVE  /\ written[d] <= 1 + confirmFaults
                      /\ draft[d].order.kind # "create" => written[d] <= 1
                      /\ draft[d].status = "dismissed" => written[d] <= confirmFaults
    BY DEF ConfirmedOnce
  <2>1. PaidFor(d) /\ OnceFor(d)
    BY <1>1 DEF FollowInv, EffectsArePaidFor, DoneOnce
  <2>2. written[d] \in Nat /\ confirmFaults \in Nat /\ Cardinality(Claims(d)) \in Nat
    BY <1>1, ClaimsNumber, FollowConstants DEF FollowInv, FollowTypeOK
  <2>3. written[d] <= Effects(d) /\ Effects(d) \in Nat
    BY <2>2 DEF Effects
  <2> QED
    BY <2>1, <2>2, <2>3 DEF PaidFor, OnceFor
<1> QED
  BY <1>1, FollowInvariance, PTL
-----------------------------------------------------------------------------
(* The scan.                                                               *)

(* Somebody will do the scan, has done it, or it was lost on record.       *)
TakenCareOf ==
    \/ lost \/ stored = Found \/ BeingScanned
    \/ Takable /\ \E j \in ScanJobs : scanJob[j].state \in {"waiting", "active"}

(* A run on record as running is being scanned, one on record as succeeded *)
(* was scanned, and a worker has stored what is no longer left to it.      *)
RecordsAreTrue ==
    /\ scan.status = "running" => lost \/ BeingScanned
    /\ scan.status = "succeeded" => stored = Found
    /\ \A k \in Scanners :
         /\ ~AtScan(k, "idle") => JobOf(k) \in ScanJobs
         /\ AtScan(k, "store") => Found \ scanner[k].left \subseteq stored

(* Before the run is recorded there is no job.                             *)
NoRunNoJob ==
    scan.status = "none" =>
        /\ \A t \in Tickers : ticker[t] \in {"idle", "insert"}
        /\ \A j \in ScanJobs : scanJob[j].state = "none"
        /\ \A k \in Scanners : AtScan(k, "idle")

(* Once a task's id is on the run, or a ticker has added a job or is about *)
(* to move the schedule on, the scan is taken care of.                     *)
LinkedIsTakenCareOf ==
    /\ scan.linked \/ ~due => TakenCareOf
    /\ \A t \in Tickers : ticker[t] \in {"link", "advance"} => TakenCareOf

ScanInv == ScanTypeOK /\ RecordsAreTrue /\ NoRunNoJob /\ LinkedIsTakenCareOf

LEMMA ScanConstants ==
    /\ MaxScanFaults \in Nat /\ ScanAttempts \in Nat /\ ScanAttempts > 0
    /\ NoJob \notin ScanJobs
  BY ScanAssumption DEF ScanJobs

(* What the actions write where, and its type.                             *)
LEMMA TickerWrites ==
    ASSUME NEW f \in [Tickers -> TickerPlaces], NEW t \in Tickers, NEW p \in TickerPlaces
    PROVE  [f EXCEPT ![t] = p] \in [Tickers -> TickerPlaces]
  OBVIOUS

LEMMA JobWrites ==
    ASSUME NEW f \in [ScanJobs -> ScanJobRecords], NEW j \in ScanJobs,
           NEW s \in {"none", "waiting", "active", "ended"}
    PROVE  /\ [f EXCEPT ![j].state = s] \in [ScanJobs -> ScanJobRecords]
           /\ [f EXCEPT ![j] = [state |-> s, attempts |-> @.attempts + 1]]
                \in [ScanJobs -> ScanJobRecords]
<1>1. f[j] \in ScanJobRecords
  OBVIOUS
<1>2. /\ [f[j] EXCEPT !.state = s] \in ScanJobRecords
      /\ [state |-> s, attempts |-> f[j].attempts + 1] \in ScanJobRecords
  BY <1>1 DEF ScanJobRecords
<1> QED
  BY <1>2

LEMMA ScannerWrites ==
    ASSUME NEW f \in [Scanners -> ScannerRecords], NEW k \in Scanners
    PROVE  /\ [f EXCEPT ![k] = IdleScanner] \in [Scanners -> ScannerRecords]
           /\ \A j \in ScanJobs : [f EXCEPT ![k] = [IdleScanner EXCEPT !.at = "claim", !.job = j]]
                \in [Scanners -> ScannerRecords]
           /\ [f EXCEPT ![k].at = "store", ![k].left = Found] \in [Scanners -> ScannerRecords]
           /\ [f EXCEPT ![k].at = "fail"] \in [Scanners -> ScannerRecords]
           /\ \A x : [f EXCEPT ![k].left = @ \ {x}] \in [Scanners -> ScannerRecords]
<1>1. f[k] \in ScannerRecords
  OBVIOUS
<1>2. IdleScanner \in ScannerRecords
  BY DEF IdleScanner, ScannerRecords
<1>3. \A j \in ScanJobs : [IdleScanner EXCEPT !.at = "claim", !.job = j] \in ScannerRecords
  BY DEF IdleScanner, ScannerRecords
<1>4. [[f[k] EXCEPT !.at = "store"] EXCEPT !.left = Found] \in ScannerRecords
  BY <1>1 DEF ScannerRecords
<1>5. [f[k] EXCEPT !.at = "fail"] \in ScannerRecords
  BY <1>1 DEF ScannerRecords
<1>6. \A x : [f[k] EXCEPT !.left = @ \ {x}] \in ScannerRecords
  BY <1>1 DEF ScannerRecords
<1> QED
  BY <1>2, <1>3, <1>4, <1>5, <1>6

LEMMA ScanInitInv == ScanInit => ScanInv
<1> SUFFICES ASSUME ScanInit PROVE ScanInv
  OBVIOUS
<1>1. ScanTypeOK
  <2>1. [state |-> "none", attempts |-> 0] \in ScanJobRecords
    BY DEF ScanJobRecords
  <2>2. IdleScanner \in ScannerRecords
    BY DEF IdleScanner, ScannerRecords
  <2>3. scan \in ScanRows
    BY DEF ScanInit, ScanRows
  <2>4. "idle" \in TickerPlaces
    BY DEF TickerPlaces
  <2>5. scanFaults \in 0 .. MaxScanFaults
    BY ScanConstants DEF ScanInit
  <2>6. scanJob \in [ScanJobs -> ScanJobRecords]
    BY <2>1 DEF ScanInit
  <2>7. ticker \in [Tickers -> TickerPlaces] /\ scanner \in [Scanners -> ScannerRecords]
    BY <2>2, <2>4 DEF ScanInit
  <2>8. due \in BOOLEAN /\ stored \subseteq Found /\ lost \in BOOLEAN
    BY DEF ScanInit
  <2> QED
    BY <2>3, <2>5, <2>6, <2>7, <2>8 DEF ScanTypeOK
<1>2. RecordsAreTrue /\ NoRunNoJob /\ LinkedIsTakenCareOf
  BY DEF ScanInit, RecordsAreTrue, NoRunNoJob, LinkedIsTakenCareOf, IdleScanner, AtScan, JobOf
<1> QED
  BY <1>1, <1>2 DEF ScanInv

(* The type invariant, action by action.                                   *)
LEMMA ScanTypeStep ==
    ASSUME ScanTypeOK, RecordsAreTrue, ScanNext PROVE ScanTypeOK'
<1> USE ScanConstants DEF ScanTypeOK
<1>f. ScanFault => scanFaults' \in 0 .. MaxScanFaults
  <2> HAVE ScanFault
  <2>1. scanFaults < MaxScanFaults /\ scanFaults' = scanFaults + 1
    BY DEF ScanFault
  <2> QED
    BY <2>1
<1>s. /\ \A s \in {"none", "pending", "running", "succeeded", "failed"} :
            [scan EXCEPT !.status = s] \in ScanRows
      /\ [status |-> "pending", linked |-> TRUE] \in ScanRows
  BY DEF ScanRows
<1>1. ASSUME NEW t \in Tickers,
             \/ TickerSees(t) \/ InsertScan(t) \/ ReadScan(t) \/ EnqueueScan(t)
             \/ LinkScan(t) \/ GiveScanUp(t) \/ AdvanceScan(t) \/ TickerStops(t)
      PROVE  ScanTypeOK'
  <2>1. ticker' \in [Tickers -> TickerPlaces]
    <3>1. \A p \in TickerPlaces : TickerGoes(t, p) => ticker' \in [Tickers -> TickerPlaces]
      BY TickerWrites DEF TickerGoes
    <3>2. \E p \in TickerPlaces : TickerGoes(t, p)
      BY <1>1 DEF TickerSees, InsertScan, ReadScan, EnqueueScan, LinkScan, GiveScanUp,
                  AdvanceScan, TickerStops, TickerPlaces
    <3> QED
      BY <3>1, <3>2
  <2>2. scan' \in ScanRows
    BY <1>1, <1>s DEF TickerSees, InsertScan, ReadScan, EnqueueScan, LinkScan, GiveScanUp,
                      AdvanceScan, TickerStops
  <2>3. scanJob' \in [ScanJobs -> ScanJobRecords]
    <3>1. CASE EnqueueScan(t)
      <4>1. PICK j \in ScanJobs : scanJob' \in {scanJob, [scanJob EXCEPT ![j].state = "waiting"]}
        BY <3>1 DEF EnqueueScan
      <4>2. [scanJob EXCEPT ![j].state = "waiting"] \in [ScanJobs -> ScanJobRecords]
        BY JobWrites
      <4> QED
        BY <4>1, <4>2
    <3> QED
      BY <1>1, <3>1 DEF TickerSees, InsertScan, ReadScan, LinkScan, GiveScanUp,
                        AdvanceScan, TickerStops
  <2>4. scanFaults' \in 0 .. MaxScanFaults
    BY <1>1, <1>f DEF TickerSees, InsertScan, ReadScan, EnqueueScan, LinkScan, GiveScanUp,
                      AdvanceScan, TickerStops
  <2>5. scanner' = scanner /\ stored' = stored /\ lost' = lost /\ due' \in BOOLEAN
    BY <1>1 DEF TickerSees, InsertScan, ReadScan, EnqueueScan, LinkScan, GiveScanUp,
                AdvanceScan, TickerStops
  <2> QED
    BY <2>1, <2>2, <2>3, <2>4, <2>5
<1>2. ASSUME NEW k \in Scanners, NEW j \in ScanJobs, PickScan(k, j) PROVE ScanTypeOK'
  <2>1. scanner' \in [Scanners -> ScannerRecords] /\ scanJob' \in [ScanJobs -> ScanJobRecords]
    BY <1>2, ScannerWrites, JobWrites DEF PickScan
  <2> QED
    BY <1>2, <2>1 DEF PickScan
<1>3. ASSUME NEW k \in Scanners, NEW f \in Found, StoreOne(k, f) PROVE ScanTypeOK'
  <2>1. scanner' \in [Scanners -> ScannerRecords]
    BY <1>3, ScannerWrites DEF StoreOne
  <2> QED
    BY <1>3, <2>1 DEF StoreOne
<1>4. ASSUME NEW k \in Scanners,
             ClaimScan(k) \/ FinishScan(k) \/ ScanThrows(k) \/ FailScan(k) \/ ScannerDies(k)
      PROVE  ScanTypeOK'
  <2>1. scanner' \in [Scanners -> ScannerRecords]
    <3>1. /\ [scanner EXCEPT ![k] = IdleScanner] \in [Scanners -> ScannerRecords]
          /\ [scanner EXCEPT ![k].at = "store", ![k].left = Found] \in [Scanners -> ScannerRecords]
          /\ [scanner EXCEPT ![k].at = "fail"] \in [Scanners -> ScannerRecords]
      BY ScannerWrites
    <3> QED
      BY <1>4, <3>1
      DEF ClaimScan, FinishScan, ScanThrows, FailScan, ScannerDies, ScannerRests
  <2>2. scanJob' \in [ScanJobs -> ScanJobRecords]
    <3>1. JobOf(k) \in ScanJobs
      BY <1>4 DEF RecordsAreTrue, ClaimScan, FinishScan, ScanThrows, FailScan, ScannerDies, AtScan
    <3>2. \A s \in {"waiting", "ended"} :
             [scanJob EXCEPT ![JobOf(k)].state = s] \in [ScanJobs -> ScanJobRecords]
      BY <3>1, JobWrites
    <3> QED
      BY <1>4, <3>2 DEF ClaimScan, FinishScan, ScanThrows, FailScan, ScannerDies, JobEnds
  <2>3. scan' \in ScanRows
    BY <1>4, <1>s DEF ClaimScan, FinishScan, ScanThrows, FailScan, ScannerDies
  <2>4. scanFaults' \in 0 .. MaxScanFaults
    BY <1>4, <1>f DEF ClaimScan, FinishScan, ScanThrows, FailScan, ScannerDies
  <2>5. ticker' = ticker /\ due' = due /\ stored' = stored /\ lost' \in BOOLEAN
    BY <1>4 DEF ClaimScan, FinishScan, ScanThrows, FailScan, ScannerDies
  <2> QED
    BY <2>1, <2>2, <2>3, <2>4, <2>5
<1> QED
  BY <1>1, <1>2, <1>3, <1>4 DEF ScanNext

(* What an action of a worker does to the workers and to the jobs.         *)
LEMMA ScannersApart ==
    ASSUME ScanTypeOK, NEW k \in Scanners
    PROVE  /\ ScannerRests(k) => /\ scanner'[k] = IdleScanner
                                 /\ \A q \in Scanners \ {k} : scanner'[q] = scanner[q]
           /\ ClaimScan(k) \/ FinishScan(k) \/ ScanThrows(k) \/ FailScan(k) \/ ScannerDies(k)
                => \A q \in Scanners \ {k} : scanner'[q] = scanner[q]
  BY DEF ScanTypeOK, ClaimScan, FinishScan, ScanThrows, FailScan, ScannerDies, ScannerRests

LEMMA JobsApart ==
    ASSUME ScanTypeOK, NEW j \in ScanJobs, NEW s,
           scanJob' = [scanJob EXCEPT ![j].state = s]
    PROVE  /\ scanJob'[j].state = s
           /\ \A i \in ScanJobs \ {j} : scanJob'[i] = scanJob[i]
<1>1. scanJob \in [ScanJobs -> ScanJobRecords] /\ scanJob[j] \in ScanJobRecords
  BY DEF ScanTypeOK
<1> QED
  BY <1>1 DEF ScanJobRecords

(* A scan that is taken care of stays so, whatever the step.               *)
LEMMA TakenCareOfStep ==
    ASSUME ScanTypeOK, RecordsAreTrue, NoRunNoJob, TakenCareOf, ScanNext
    PROVE  TakenCareOf'
<1>1. ASSUME NEW t \in Tickers,
             \/ TickerSees(t) \/ InsertScan(t) \/ ReadScan(t)
             \/ LinkScan(t) \/ GiveScanUp(t) \/ AdvanceScan(t) \/ TickerStops(t)
      PROVE  TakenCareOf'
  <2>1. scanJob' = scanJob /\ scanner' = scanner /\ stored' = stored /\ lost' = lost
    BY <1>1 DEF TickerSees, InsertScan, ReadScan, LinkScan, GiveScanUp, AdvanceScan, TickerStops
  <2>2. Takable => Takable'
    <3>1. scan \in ScanRows
      BY DEF ScanTypeOK
    <3>2. scan' = scan \/ scan'.status = "pending" \/ scan'.status = "failed"
      BY <1>1, <3>1 DEF TickerSees, InsertScan, ReadScan, LinkScan, GiveScanUp, AdvanceScan,
                        TickerStops, ScanRows
    <3> QED
      BY <3>2 DEF Takable
  <2> QED
    BY <2>1, <2>2 DEF TakenCareOf, BeingScanned
<1>2. ASSUME NEW t \in Tickers, EnqueueScan(t) PROVE TakenCareOf'
  <2>1. scan' = scan /\ scanner' = scanner /\ stored' = stored /\ lost' = lost
    BY <1>2 DEF EnqueueScan
  <2>2. PICK j \in ScanJobs : /\ scanJob[j].state = "none"
                              /\ scanJob' \in {scanJob, [scanJob EXCEPT ![j].state = "waiting"]}
    BY <1>2 DEF EnqueueScan
  <2>3. \A i \in ScanJobs : i # j => scanJob'[i] = scanJob[i]
    BY <2>2, JobsApart
  <2>4. Takable => Takable'
    BY <2>1 DEF Takable
  <2> QED
    BY <2>1, <2>2, <2>3, <2>4 DEF TakenCareOf, BeingScanned
<1>3. ASSUME NEW k \in Scanners, NEW j \in ScanJobs, PickScan(k, j) PROVE TakenCareOf'
  <2>1. scan' = scan /\ stored' = stored /\ lost' = lost
    BY <1>3 DEF PickScan
  <2>2. /\ scanJob'[j].state = "active"
        /\ \A i \in ScanJobs : i # j => scanJob'[i] = scanJob[i]
    BY <1>3 DEF PickScan, ScanTypeOK
  <2>3. BeingScanned => BeingScanned'
    <3>1. \A q \in Scanners : q # k => scanner'[q] = scanner[q]
      BY <1>3 DEF PickScan, ScanTypeOK
    <3>2. scanner[k].at = "idle"
      BY <1>3 DEF PickScan, AtScan
    <3> QED
      BY <3>1, <3>2 DEF BeingScanned
  <2>4. Takable => Takable'
    BY <2>1 DEF Takable
  <2> QED
    BY <2>1, <2>2, <2>3, <2>4 DEF TakenCareOf
<1>4. ASSUME NEW k \in Scanners, NEW f \in Found, StoreOne(k, f) PROVE TakenCareOf'
  <2>1. scanner'[k].at = "store"
    <3>1. scanner[k] \in ScannerRecords /\ scanner[k].at = "store"
      BY <1>4 DEF StoreOne, ScanTypeOK, AtScan
    <3>2. scanner'[k] = [scanner[k] EXCEPT !.left = @ \ {f}]
      BY <1>4 DEF StoreOne, ScanTypeOK
    <3> QED
      BY <3>1, <3>2 DEF ScannerRecords
  <2> QED
    BY <2>1 DEF TakenCareOf, BeingScanned
<1>5. ASSUME NEW k \in Scanners, ClaimScan(k) PROVE TakenCareOf'
  <2>1. stored' = stored /\ lost' = lost /\ scanner[k].at = "claim"
    BY <1>5 DEF ClaimScan, AtScan
  <2>2. CASE Takable
    <3>1. scanner' = [scanner EXCEPT ![k].at = "store", ![k].left = Found]
      BY <1>5, <2>2 DEF ClaimScan
    <3>2. scanner[k] \in ScannerRecords
      BY DEF ScanTypeOK
    <3>3. scanner'[k].at = "store"
      BY <3>1, <3>2 DEF ScanTypeOK, ScannerRecords
    <3> QED
      BY <3>3 DEF TakenCareOf, BeingScanned
  <2>3. CASE ~Takable
    <3>1. BeingScanned => BeingScanned'
      BY <1>5, <2>1, ScannersApart DEF BeingScanned
    <3> QED
      BY <2>1, <2>3, <3>1 DEF TakenCareOf
  <2> QED
    BY <2>2, <2>3
<1>6. ASSUME NEW k \in Scanners, FinishScan(k) PROVE TakenCareOf'
  <2>1. Found \subseteq stored /\ stored' = stored
    BY <1>6 DEF FinishScan, RecordsAreTrue
  <2> QED
    BY <2>1 DEF TakenCareOf, ScanTypeOK
<1>7. ASSUME NEW k \in Scanners, ScanThrows(k) PROVE TakenCareOf'
  <2>1. scanner[k] \in ScannerRecords /\ scanner' = [scanner EXCEPT ![k].at = "fail"]
    BY <1>7 DEF ScanTypeOK, ScanThrows
  <2>2. scanner'[k].at = "fail"
    BY <2>1 DEF ScanTypeOK, ScannerRecords
  <2> QED
    BY <2>2 DEF TakenCareOf, BeingScanned
<1>8. ASSUME NEW k \in Scanners, FailScan(k) PROVE TakenCareOf'
  <2>1. JobOf(k) \in ScanJobs
    BY <1>8 DEF FailScan, RecordsAreTrue, AtScan
  <2>2. scan \in ScanRows /\ scan' = [scan EXCEPT !.status = "failed"]
    BY <1>8 DEF FailScan, ScanTypeOK
  <2>3. Takable'
    BY <2>2 DEF Takable, ScanRows
  <2>4. lost' \/ scanJob' = [scanJob EXCEPT ![JobOf(k)].state = "waiting"]
    BY <1>8 DEF FailScan
  <2> QED
    BY <2>1, <2>3, <2>4, JobsApart DEF TakenCareOf
<1>9. ASSUME NEW k \in Scanners, ScannerDies(k) PROVE TakenCareOf'
  <2>1. JobOf(k) \in ScanJobs /\ scan' = scan /\ stored' = stored
    BY <1>9 DEF ScannerDies, RecordsAreTrue
  <2>2. \/ lost'
        \/ /\ AtScan(k, "claim") /\ lost' = lost
           /\ scanJob' = [scanJob EXCEPT ![JobOf(k)].state = "waiting"]
    BY <1>9 DEF ScannerDies, ScanTypeOK
  <2>3. CASE lost'
    BY <2>3 DEF TakenCareOf
  <2>4. CASE /\ AtScan(k, "claim") /\ lost' = lost
             /\ scanJob' = [scanJob EXCEPT ![JobOf(k)].state = "waiting"]
    <3>1. BeingScanned => BeingScanned'
      BY <1>9, <2>4, ScannersApart DEF BeingScanned, AtScan
    <3>2. scanJob'[JobOf(k)].state = "waiting"
      BY <2>1, <2>4, JobsApart
    <3>3. Takable => Takable'
      BY <2>1 DEF Takable
    <3> QED
      BY <2>1, <2>4, <3>1, <3>2, <3>3 DEF TakenCareOf
  <2> QED
    BY <2>2, <2>3, <2>4
<1> QED
  BY <1>1, <1>2, <1>3, <1>4, <1>5, <1>6, <1>7, <1>8, <1>9 DEF ScanNext

(* The run's status tells the truth, and workers store what they found.    *)
LEMMA RecordsAreTrueStep ==
    ASSUME ScanTypeOK, RecordsAreTrue, ScanNext PROVE RecordsAreTrue'
<1>t. scan \in ScanRows
  BY DEF ScanTypeOK
<1>1. ASSUME NEW t \in Tickers,
             \/ TickerSees(t) \/ InsertScan(t) \/ ReadScan(t) \/ EnqueueScan(t)
             \/ LinkScan(t) \/ GiveScanUp(t) \/ AdvanceScan(t) \/ TickerStops(t)
      PROVE  RecordsAreTrue'
  <2>1. scanner' = scanner /\ stored' = stored /\ lost' = lost
    BY <1>1 DEF TickerSees, InsertScan, ReadScan, EnqueueScan, LinkScan, GiveScanUp,
                AdvanceScan, TickerStops
  <2>2. scan' = scan \/ scan'.status = "pending" \/ scan'.status = "failed"
    BY <1>1, <1>t DEF TickerSees, InsertScan, ReadScan, EnqueueScan, LinkScan, GiveScanUp,
                      AdvanceScan, TickerStops, ScanRows
  <2> QED
    BY <2>1, <2>2 DEF RecordsAreTrue, BeingScanned, AtScan, JobOf
<1>2. ASSUME NEW k \in Scanners, NEW j \in ScanJobs, PickScan(k, j) PROVE RecordsAreTrue'
  <2>1. /\ scanner'[k].at = "claim" /\ scanner'[k].job = j
        /\ \A q \in Scanners : q # k => scanner'[q] = scanner[q]
        /\ scanner[k].at = "idle"
    BY <1>2 DEF PickScan, ScanTypeOK, IdleScanner, AtScan
  <2> QED
    BY <1>2, <2>1 DEF PickScan, RecordsAreTrue, BeingScanned, AtScan, JobOf
<1>3. ASSUME NEW k \in Scanners, NEW f \in Found, StoreOne(k, f) PROVE RecordsAreTrue'
  <2>1. /\ scanner[k] \in ScannerRecords
        /\ scanner'[k] = [scanner[k] EXCEPT !.left = @ \ {f}]
        /\ \A q \in Scanners : q # k => scanner'[q] = scanner[q]
    BY <1>3 DEF StoreOne, ScanTypeOK
  <2>2. /\ scanner'[k].at = scanner[k].at /\ scanner'[k].job = scanner[k].job
        /\ scanner'[k].left = scanner[k].left \ {f}
    BY <2>1 DEF ScannerRecords
  <2>3. scan' = scan /\ lost' = lost /\ stored' = stored \union {f}
    BY <1>3 DEF StoreOne
  <2>4. BeingScanned => BeingScanned'
    BY <2>1, <2>2 DEF BeingScanned
  <2>5. scan'.status = "succeeded" => stored' = Found
    BY <2>3 DEF RecordsAreTrue
  <2>6. ASSUME NEW q \in Scanners
        PROVE  /\ ~AtScan(q, "idle")' => JobOf(q)' \in ScanJobs
               /\ AtScan(q, "store")' => Found \ scanner'[q].left \subseteq stored'
    BY <2>1, <2>2, <2>3 DEF RecordsAreTrue, AtScan, JobOf
  <2> QED
    BY <2>3, <2>4, <2>5, <2>6 DEF RecordsAreTrue
<1>4. ASSUME NEW k \in Scanners, ClaimScan(k) PROVE RecordsAreTrue'
  <2>1. scanner[k] \in ScannerRecords /\ \A q \in Scanners : q # k => scanner'[q] = scanner[q]
    BY <1>4, ScannersApart DEF ScanTypeOK
  <2>2. CASE Takable
    <3>1. scanner' = [scanner EXCEPT ![k].at = "store", ![k].left = Found]
      BY <1>4, <2>2 DEF ClaimScan
    <3>2. /\ scanner'[k].at = "store" /\ scanner'[k].left = Found
          /\ scanner'[k].job = scanner[k].job
      BY <2>1, <3>1 DEF ScanTypeOK, ScannerRecords
    <3>3. scan'.status = "running" /\ stored' = stored /\ scanner[k].at = "claim"
      BY <1>4, <1>t, <2>2 DEF ClaimScan, ScanRows, AtScan
    <3> QED
      BY <2>1, <3>2, <3>3 DEF RecordsAreTrue, BeingScanned, AtScan, JobOf
  <2>3. CASE ~Takable
    <3>1. /\ scan' = scan /\ stored' = stored /\ lost' = lost
          /\ scanner'[k].at = "idle" /\ scanner[k].at = "claim"
      BY <1>4, <2>3, ScannersApart DEF ClaimScan, IdleScanner, AtScan
    <3> QED
      BY <2>1, <3>1 DEF RecordsAreTrue, BeingScanned, AtScan, JobOf
  <2> QED
    BY <2>2, <2>3
<1>5. ASSUME NEW k \in Scanners, FinishScan(k) \/ FailScan(k) PROVE RecordsAreTrue'
  <2>1. /\ scanner'[k].at = "idle" /\ stored' = stored
        /\ \A q \in Scanners : q # k => scanner'[q] = scanner[q]
    <3>1. ScannerRests(k) /\ stored' = stored
      BY <1>5 DEF FinishScan, FailScan
    <3> QED
      BY <3>1, ScannersApart DEF IdleScanner
  <2>2. \/ scan'.status = "failed"
        \/ scan'.status = "succeeded" /\ AtScan(k, "store") /\ scanner[k].left = {}
    BY <1>5, <1>t DEF FinishScan, FailScan, ScanRows
  <2>3. scan'.status # "running" /\ (scan'.status = "succeeded" => stored' = Found)
    BY <2>1, <2>2 DEF RecordsAreTrue, ScanTypeOK
  <2> QED
    BY <2>1, <2>3 DEF RecordsAreTrue, AtScan, JobOf
<1>6. ASSUME NEW k \in Scanners, ScanThrows(k) PROVE RecordsAreTrue'
  <2>1. /\ scanner[k] \in ScannerRecords /\ scanner' = [scanner EXCEPT ![k].at = "fail"]
        /\ stored' = stored /\ scanner[k].at = "store"
    BY <1>6 DEF ScanTypeOK, ScanThrows, AtScan
  <2>2. /\ scanner'[k].at = "fail" /\ scanner'[k].job = scanner[k].job
        /\ \A q \in Scanners : q # k => scanner'[q] = scanner[q]
    BY <2>1 DEF ScanTypeOK, ScannerRecords
  <2>3. scan' = scan \/ (scan'.status = "succeeded" /\ scanner[k].left = {})
    BY <1>6, <1>t DEF ScanThrows, ScanRows
  <2>4. scan'.status = "succeeded" => stored' = Found
    BY <2>1, <2>3 DEF RecordsAreTrue, ScanTypeOK, AtScan
  <2> QED
    BY <2>1, <2>2, <2>4 DEF RecordsAreTrue, BeingScanned, AtScan, JobOf
<1>7. ASSUME NEW k \in Scanners, ScannerDies(k) PROVE RecordsAreTrue'
  <2>1. /\ scanner'[k].at = "idle" /\ scan' = scan /\ stored' = stored
        /\ \A q \in Scanners : q # k => scanner'[q] = scanner[q]
    <3>1. ScannerRests(k) /\ scan' = scan /\ stored' = stored
      BY <1>7 DEF ScannerDies
    <3> QED
      BY <3>1, ScannersApart DEF IdleScanner
  <2>2. lost' \/ (AtScan(k, "claim") /\ lost' = lost)
    BY <1>7 DEF ScannerDies, ScanTypeOK
  <2>3. lost \/ BeingScanned => lost' \/ BeingScanned'
    <3>1. lost => lost'
      BY <2>2
    <3>2. BeingScanned => lost' \/ BeingScanned'
      BY <2>1, <2>2 DEF BeingScanned, AtScan
    <3> QED
      BY <3>1, <3>2
  <2>4. \A q \in Scanners :
           /\ ~AtScan(q, "idle")' => JobOf(q)' \in ScanJobs
           /\ AtScan(q, "store")' => Found \ scanner'[q].left \subseteq stored'
    BY <2>1 DEF RecordsAreTrue, AtScan, JobOf
  <2> QED
    BY <2>1, <2>3, <2>4 DEF RecordsAreTrue
<1> QED
  BY <1>1, <1>2, <1>3, <1>4, <1>5, <1>6, <1>7 DEF ScanNext

(* A ticker records the run before it adds a job.                          *)
LEMMA NoRunNoJobStep ==
    ASSUME ScanTypeOK, NoRunNoJob, ScanNext PROVE NoRunNoJob'
<1> SUFFICES ASSUME scan'.status = "none" PROVE NoRunNoJob'
  BY DEF NoRunNoJob
<1>t. scan \in ScanRows
  BY DEF ScanTypeOK
<1>1. ASSUME NEW t \in Tickers, TickerSees(t) \/ TickerStops(t) PROVE NoRunNoJob'
  <2>1. scan' = scan /\ scanJob' = scanJob /\ scanner' = scanner
    BY <1>1 DEF TickerSees, TickerStops
  <2>2. \A u \in Tickers : ticker'[u] \in {ticker[u], "insert", "idle"}
    BY <1>1 DEF TickerSees, TickerStops, TickerGoes, ScanTypeOK
  <2> QED
    BY <2>1, <2>2 DEF NoRunNoJob, AtScan
<1>2. ASSUME NEW t \in Tickers, InsertScan(t) PROVE FALSE
  <2>1. CASE scan.status = "none"
    BY <1>2, <1>t, <2>1 DEF InsertScan, ScanRows
  <2>2. CASE scan.status # "none"
    BY <1>2, <2>2 DEF InsertScan
  <2> QED
    BY <2>1, <2>2
<1>3. ASSUME NEW t \in Tickers, \/ ReadScan(t) \/ EnqueueScan(t) \/ AdvanceScan(t)
      PROVE  FALSE
  BY <1>3 DEF ReadScan, EnqueueScan, AdvanceScan, NoRunNoJob
<1>4. ASSUME NEW t \in Tickers, LinkScan(t) \/ GiveScanUp(t) PROVE FALSE
  BY <1>4, <1>t DEF LinkScan, GiveScanUp, NoRunNoJob, ScanRows
<1>5. ASSUME NEW k \in Scanners, NEW j \in ScanJobs, PickScan(k, j) PROVE FALSE
  BY <1>5 DEF PickScan, NoRunNoJob
<1>6. ASSUME NEW k \in Scanners, NEW f \in Found, StoreOne(k, f) PROVE FALSE
  BY <1>6 DEF StoreOne, NoRunNoJob, AtScan
<1>7. ASSUME NEW k \in Scanners,
             ClaimScan(k) \/ FinishScan(k) \/ ScanThrows(k) \/ FailScan(k) \/ ScannerDies(k)
      PROVE  FALSE
  <2>1. ~AtScan(k, "idle")
    BY <1>7 DEF ClaimScan, FinishScan, ScanThrows, FailScan, ScannerDies, AtScan
  <2>2. scan.status = "none"
    BY <1>7, <1>t DEF ClaimScan, FinishScan, ScanThrows, FailScan, ScannerDies, ScanRows
  <2> QED
    BY <2>1, <2>2 DEF NoRunNoJob
<1> QED
  BY <1>1, <1>2, <1>3, <1>4, <1>5, <1>6, <1>7 DEF ScanNext

(* The schedule moves on only from a run that is taken care of.            *)
LEMMA LinkedIsTakenCareOfStep ==
    ASSUME ScanInv, ScanNext PROVE LinkedIsTakenCareOf'
<1> USE DEF ScanInv
<1>k. TakenCareOf => TakenCareOf'
  BY TakenCareOfStep
<1>o. ASSUME scan'.linked => scan.linked, due' = due,
             \A u \in Tickers : ticker'[u] \in {"link", "advance"} => ticker'[u] = ticker[u]
      PROVE  LinkedIsTakenCareOf'
  BY <1>k, <1>o DEF LinkedIsTakenCareOf
<1>1. ASSUME NEW t \in Tickers, TickerSees(t) \/ InsertScan(t) \/ GiveScanUp(t) \/ TickerStops(t)
      PROVE  LinkedIsTakenCareOf'
  <2>1. due' = due /\ scan'.linked = scan.linked
    BY <1>1 DEF TickerSees, InsertScan, GiveScanUp, TickerStops, ScanTypeOK, ScanRows
  <2>2. \A u \in Tickers : ticker'[u] \in {"link", "advance"} => ticker'[u] = ticker[u]
    BY <1>1 DEF TickerSees, InsertScan, GiveScanUp, TickerStops, TickerGoes, ScanTypeOK
  <2> QED
    BY <1>o, <2>1, <2>2
<1>2. ASSUME NEW t \in Tickers, ReadScan(t) PROVE LinkedIsTakenCareOf'
  <2>1. /\ scan' = scan /\ due' = due
        /\ \A u \in Tickers : u # t => ticker'[u] = ticker[u]
        /\ ticker'[t] \in {"link", "advance"} => scan.linked
    BY <1>2 DEF ReadScan, TickerGoes, Reused, ScanTypeOK
  <2> QED
    BY <1>k, <2>1 DEF LinkedIsTakenCareOf
<1>3. ASSUME NEW t \in Tickers, EnqueueScan(t) PROVE LinkedIsTakenCareOf'
  <2>1. /\ scan' = scan /\ due' = due /\ scanner' = scanner /\ stored' = stored /\ lost' = lost
        /\ \A u \in Tickers : u # t => ticker'[u] = ticker[u]
        /\ ticker[t] = "enqueue"
    BY <1>3 DEF EnqueueScan, TickerGoes, ScanTypeOK
  <2>2. PICK j \in ScanJobs :
           \/ scanJob' = [scanJob EXCEPT ![j].state = "waiting"]
           \/ ticker'[t] = "giveup"
    BY <1>3 DEF EnqueueScan, TickerGoes, ScanTypeOK
  <2>3. CASE scanJob' = [scanJob EXCEPT ![j].state = "waiting"]
    <3>1. scanJob'[j].state = "waiting"
      BY <2>3, JobsApart
    <3>2. scan.status \in {"pending", "running", "succeeded", "failed"}
      BY <2>1 DEF NoRunNoJob, ScanTypeOK, ScanRows
    <3>3. CASE scan.status \in {"pending", "failed"}
      BY <2>1, <3>1, <3>3 DEF TakenCareOf, Takable, LinkedIsTakenCareOf
    <3>4. CASE scan.status = "running" \/ scan.status = "succeeded"
      BY <1>k, <3>4 DEF TakenCareOf, RecordsAreTrue, LinkedIsTakenCareOf
    <3> QED
      BY <3>2, <3>3, <3>4
  <2>4. CASE ticker'[t] = "giveup"
    BY <1>k, <2>1, <2>4 DEF LinkedIsTakenCareOf
  <2> QED
    BY <2>2, <2>3, <2>4
<1>4. ASSUME NEW t \in Tickers, LinkScan(t) \/ AdvanceScan(t) PROVE LinkedIsTakenCareOf'
  <2>1. TakenCareOf
    BY <1>4 DEF LinkScan, AdvanceScan, LinkedIsTakenCareOf
  <2> QED
    BY <1>k, <2>1 DEF LinkedIsTakenCareOf
<1>5. ASSUME NEW k \in Scanners,
             \/ \E j \in ScanJobs : PickScan(k, j)
             \/ \E f \in Found : StoreOne(k, f)
             \/ ClaimScan(k) \/ FinishScan(k) \/ ScanThrows(k) \/ FailScan(k) \/ ScannerDies(k)
      PROVE  LinkedIsTakenCareOf'
  <2>1. due' = due /\ ticker' = ticker
    BY <1>5 DEF PickScan, StoreOne, ClaimScan, FinishScan, ScanThrows, FailScan, ScannerDies
  <2>2. scan'.linked = scan.linked
    BY <1>5 DEF PickScan, StoreOne, ClaimScan, FinishScan, ScanThrows, FailScan, ScannerDies,
                ScanTypeOK, ScanRows
  <2> QED
    BY <1>o, <2>1, <2>2
<1> QED
  BY <1>1, <1>2, <1>3, <1>4, <1>5 DEF ScanNext

LEMMA ScanInvStep == ScanInv /\ [ScanNext]_scanVars => ScanInv'
<1> SUFFICES ASSUME ScanInv, [ScanNext]_scanVars PROVE ScanInv'
  OBVIOUS
<1>1. CASE ScanNext
  BY <1>1, ScanTypeStep, RecordsAreTrueStep, NoRunNoJobStep, LinkedIsTakenCareOfStep DEF ScanInv
<1>2. CASE UNCHANGED scanVars
  BY <1>2 DEF scanVars, ScanInv, ScanTypeOK, RecordsAreTrue, NoRunNoJob, LinkedIsTakenCareOf,
              TakenCareOf, BeingScanned, Takable, AtScan, JobOf
<1> QED
  BY <1>1, <1>2

(* The inductive invariant of the daily scan holds in every reachable      *)
(* state.                                                                  *)
THEOREM ScanInvariance == ScanSpec => []ScanInv
<1>1. ScanInit => ScanInv
  BY ScanInitInv
<1>2. ScanInv /\ [ScanNext]_scanVars => ScanInv'
  BY ScanInvStep
<1> QED
  BY <1>1, <1>2, PTL DEF ScanSpec

(* A day's scan that opportunity-service.ts no longer holds due was done,  *)
(* is being done, or has a job whose delivery finds the run open, unless a *)
(* delivery died with it or the last one failed.                           *)
THEOREM ScanIsNeverForgotten == ScanSpec => []ScanIsNotForgotten
<1>1. ScanInv => ScanIsNotForgotten
  BY DEF ScanInv, LinkedIsTakenCareOf, TakenCareOf, ScanIsNotForgotten
<1> QED
  BY <1>1, ScanInvariance, PTL
-----------------------------------------------------------------------------
(* The three ledgers.                                                      *)

LEMMA LedgersRun == LedgerSpec => Spec /\ FollowSpec /\ ScanSpec
<1>1. LedgerInit => Init /\ FollowInit /\ ScanInit
  BY DEF LedgerInit
<1>2. [LedgerNext]_<<ledger, vars, followVars, scanVars>> =>
          [Next]_vars /\ [FollowNext]_followVars /\ [ScanNext]_scanVars
  BY DEF LedgerNext
<1> QED
  BY <1>1, <1>2, PTL DEF LedgerSpec, Spec, FollowSpec, ScanSpec

(* Every record of the three ledgers has its type.                         *)
THEOREM LedgersTypeCorrect == LedgerSpec => []LedgerTypeOK
<1>1. FollowInv => FollowTypeOK
  BY DEF FollowInv
<1>2. ScanInv => ScanTypeOK
  BY DEF ScanInv
<1> QED
  BY <1>1, <1>2, LedgersRun, TypeCorrect, FollowInvariance, ScanInvariance, PTL DEF LedgerTypeOK
=============================================================================
