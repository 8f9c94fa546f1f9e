--------------------------- MODULE RunLedger_proofs ---------------------------
(***************************************************************************)
(* The execution records of RunLedger, for any number of runs, steps,      *)
(* writes, stalls and sweeps.                                              *)
(*                                                                         *)
(* AmbiguousWriteUnique is not inductive: nothing in it says that a step   *)
(* still unused is not ambiguous, nor that the sweep, which commits what   *)
(* it looked up earlier, does not make a settled step ambiguous again.     *)
(* LedgerInv adds the order in which steps were started (Ordered), the     *)
(* numbering (Numbered), what the sweep holds (SweepHolds) and where a     *)
(* worker is (CallsOwnStep).                                               *)
(* RunningStepsCanBeClosed rests on facts of its own (NoStallInv, below):  *)
(* unless a live worker has stalled, one at work is on record and has the  *)
(* lease, and the sweep meets none.                                        *)
(***************************************************************************)
EXTENDS RunLedger, TLAPS

(* Steps are numbered in the order in which they were started.             *)
Numbered ==
    /\ \A s \in Steps : step[s].status = "unused" <=> s > started
    /\ \A s \in inflight \union applied : s <= started

(* When a step was started, all earlier steps of its write were settled.   *)
Ordered ==
    \A s, u \in Steps :
        s < u /\ u <= started /\ step[s].write = step[u].write => ~Ambiguous(s)

(* The steps the sweep is about to close are held until it does.           *)
SweepHolds ==
    /\ \A s \in sweep.closing : step[s].status = "running"
    /\ ~sweep.busy => sweep.closing = {}

CallsOwnStep == \A r \in Runs : pc[r] = "calling" => call[r] \in Steps /\ call[r] <= started

(* A step on record as failed has not taken effect and never will, unless  *)
(* it is the owner who said so.                                            *)
FailedIsKnown ==
    \A s \in Steps :
        step[s].status = "failed" => s \in denied \/ s \notin inflight \union applied

LedgerInv == TypeOK /\ Numbered /\ Ordered /\ SweepHolds /\ CallsOwnStep /\ FailedIsKnown

-----------------------------------------------------------------------------
(* The bounds are numbers.                                                 *)
LEMMA Bounds == MaxRuns \in Nat /\ MaxSteps \in Nat
  BY LedgerAssumption

LEMMA InitInv == Init => LedgerInv
<1> SUFFICES ASSUME Init PROVE LedgerInv
  OBVIOUS
<1> USE Bounds DEF Init
<1>1. step \in [Steps -> StepRecords]
  BY DEF Unused, StepRecords, StepStatus
<1>2. pc \in [Runs -> Pcs] /\ call \in [Runs -> Steps \union {NoStep}]
  BY DEF Pcs
<1>3. sweep \in [busy : BOOLEAN, closing : SUBSET Steps]
  BY DEF NoSweep
<1>4. spent \in [stalls : Nat, sweeps : Nat] /\ started \in 0 .. MaxSteps
  OBVIOUS
<1>5. TypeOK
  BY <1>1, <1>2, <1>3, <1>4 DEF TypeOK
<1>6. Numbered
  BY DEF Numbered, Unused, Steps
<1>7. Ordered /\ FailedIsKnown
  BY DEF Ordered, FailedIsKnown, Ambiguous, Unused, Steps
<1>8. SweepHolds /\ CallsOwnStep
  BY DEF SweepHolds, CallsOwnStep, NoSweep
<1> QED
  BY <1>5, <1>6, <1>7, <1>8 DEF LedgerInv

(* What a step's record may become, whoever writes it: the record of a     *)
(* step that was ambiguous, with another outcome.                          *)
Resettled(s) ==
    /\ step'[s].run = step[s].run /\ step'[s].write = step[s].write
    /\ step'[s].status # step[s].status =>
          Ambiguous(s) /\ step'[s].status \in Outcomes

LEMMA ClosingResettles ==
    ASSUME TypeOK, NEW steps \in SUBSET Steps,
           \A s \in steps : Ambiguous(s), step' = Closed(steps)
    PROVE  /\ step' \in [Steps -> StepRecords]
           /\ \A s \in Steps : Resettled(s)
           /\ \A s \in Steps : step'[s].status = "failed" => step[s].status = "failed"
           /\ \A s \in Steps \ steps : step'[s] = step[s]
<1>1. \A s \in Steps : step[s] \in StepRecords
  BY DEF TypeOK
<1>2. \A s \in steps : /\ step'[s] = [step[s] EXCEPT !.status = "unknown_outcome"]
                        /\ step'[s] \in StepRecords
                        /\ step'[s].status = "unknown_outcome"
                        /\ step'[s].run = step[s].run /\ step'[s].write = step[s].write
  BY <1>1 DEF Closed, StepRecords, StepStatus
<1>3. \A s \in Steps \ steps : step'[s] = step[s]
  BY DEF Closed
<1>4. step' \in [Steps -> StepRecords]
  BY <1>1, <1>2, <1>3 DEF Closed
<1> QED
  BY <1>2, <1>3, <1>4 DEF Resettled, Outcomes

LEMMA SettlingResettles ==
    ASSUME TypeOK, NEW s \in Steps, Ambiguous(s), NEW outcome \in Outcomes,
           step' = [step EXCEPT ![s].status = outcome]
    PROVE  /\ step' \in [Steps -> StepRecords]
           /\ \A u \in Steps : Resettled(u)
           /\ step'[s].status = outcome
           /\ \A u \in Steps \ {s} : step'[u] = step[u]
<1>1. \A u \in Steps : step[u] \in StepRecords
  BY DEF TypeOK
<1>2. /\ step'[s] \in StepRecords /\ step'[s].status = outcome
      /\ step'[s].run = step[s].run /\ step'[s].write = step[s].write
  BY <1>1 DEF TypeOK, StepRecords, StepStatus, Outcomes
<1>3. \A u \in Steps \ {s} : step'[u] = step[u]
  BY DEF TypeOK
<1>4. step' \in [Steps -> StepRecords]
  BY <1>1, <1>2, <1>3 DEF TypeOK
<1> QED
  BY <1>2, <1>3, <1>4 DEF Resettled

(* Resettling disturbs neither the numbering nor the order.                *)
LEMMA ResettlingKeepsOrder ==
    ASSUME TypeOK, Numbered, Ordered, started' = started,
           \A s \in Steps : Resettled(s),
           inflight' \union applied' \subseteq inflight \union applied
    PROVE  Numbered' /\ Ordered'
<1>1. \A s \in Steps : Ambiguous(s)' => Ambiguous(s)
  BY DEF Resettled, Ambiguous, TypeOK
<1>2. Ordered'
  BY <1>1 DEF Ordered, Resettled
<1>3. \A s \in Steps : step'[s].status = "unused" <=> step[s].status = "unused"
  BY DEF Resettled, Ambiguous, Outcomes
<1> QED
  BY <1>2, <1>3 DEF Numbered

LEMMA NextInv == LedgerInv /\ [Next]_vars => LedgerInv'
<1> SUFFICES ASSUME LedgerInv, [Next]_vars PROVE LedgerInv'
  OBVIOUS
<1> USE DEF worker, world
<1>0. TypeOK /\ Numbered /\ Ordered /\ SweepHolds /\ CallsOwnStep /\ FailedIsKnown
  BY DEF LedgerInv
<1>a. ASSUME UNCHANGED <<step, started, inflight, applied, denied>>
      PROVE  Numbered' /\ Ordered' /\ FailedIsKnown'
  BY <1>0, <1>a DEF Numbered, Ordered, FailedIsKnown, Ambiguous
<1>b. ASSUME UNCHANGED <<step, sweep>> PROVE SweepHolds'
  BY <1>0, <1>b DEF SweepHolds
<1>c. ASSUME UNCHANGED <<pc, call, started>> PROVE CallsOwnStep'
  BY <1>0, <1>c DEF CallsOwnStep
<1>d. ASSUME NEW r \in Runs, NEW to \in Pcs \ {"calling"},
             pc' = [pc EXCEPT ![r] = to], UNCHANGED <<call, started>>
      PROVE  CallsOwnStep' /\ pc' \in [Runs -> Pcs]
  BY <1>0, <1>d DEF CallsOwnStep, TypeOK
<1>1. CASE UNCHANGED vars
  <2>1. TypeOK'
    BY <1>0, <1>1 DEF vars, TypeOK
  <2> QED
    BY <2>1, <1>1, <1>a, <1>b, <1>c DEF vars, LedgerInv
<1>2. ASSUME NEW r \in Runs, ClaimRun(r) PROVE LedgerInv'
  <2>1. CallsOwnStep' /\ pc' \in [Runs -> Pcs]
    BY <1>2, <1>d DEF ClaimRun, Pcs
  <2>2. TypeOK'
    BY <1>0, <1>2, <2>1 DEF ClaimRun, TypeOK
  <2> QED
    BY <2>1, <2>2, <1>2, <1>a, <1>b DEF ClaimRun, LedgerInv
<1>3. ASSUME NEW r \in Runs, Renew(r) PROVE LedgerInv'
  <2>1. TypeOK'
    BY <1>0, <1>3 DEF Renew, TypeOK
  <2> QED
    BY <2>1, <1>3, <1>a, <1>b, <1>c DEF Renew, LedgerInv
<1>4. ASSUME NEW r \in Runs, Release(r) PROVE LedgerInv'
  <2>1. CallsOwnStep' /\ pc' \in [Runs -> Pcs]
    BY <1>4, <1>d DEF Release, Pcs
  <2>2. TypeOK'
    BY <1>0, <1>4, <2>1 DEF Release, Released, TypeOK
  <2> QED
    BY <2>1, <2>2, <1>4, <1>a, <1>b DEF Release, LedgerInv
<1>5. ASSUME NEW r \in Runs, Crash(r) \/ StopRun(r) \/ StartRefused(r) PROVE LedgerInv'
  <2>1. CallsOwnStep' /\ pc' \in [Runs -> Pcs]
    BY <1>5, <1>d DEF Crash, StopRun, StartRefused, Pcs
  <2>2. TypeOK'
    BY <1>0, <1>5, <2>1 DEF Crash, StopRun, StartRefused, TypeOK
  <2> QED
    BY <2>1, <2>2, <1>5, <1>a, <1>b DEF Crash, StopRun, StartRefused, LedgerInv
<1>6. ASSUME NEW r \in Runs, Begin(r) PROVE LedgerInv'
  <2>1. CallsOwnStep' /\ pc' \in [Runs -> Pcs]
    BY <1>6, <1>d DEF Begin, Pcs
  <2>2. SweepHolds'
    BY <1>0, <1>6 DEF Begin, SweepHolds
  <2>3. CASE active = r
    <3> DEFINE left == RunningSteps(RunningRuns)
    <3>1. left \in SUBSET Steps /\ \A s \in left : Ambiguous(s)
      BY DEF RunningSteps, Ambiguous
    <3>2. step' = Closed(left)
      BY <1>6, <2>3 DEF Begin
    <3> HIDE DEF left
    <3>3. /\ step' \in [Steps -> StepRecords] /\ \A s \in Steps : Resettled(s)
          /\ \A s \in Steps : step'[s].status = "failed" => step[s].status = "failed"
      BY <1>0, <3>1, <3>2, ClosingResettles
    <3>4. UNCHANGED <<active, stale, started, call, inflight, applied, denied, sweep, spent>>
      BY <1>6 DEF Begin
    <3>5. run' \in [Runs -> {"none", "running", "ended"}]
      BY <1>0, <1>6, <2>3 DEF Begin, StartedAlone, TypeOK
    <3>6. TypeOK'
      BY <1>0, <2>1, <3>3, <3>4, <3>5 DEF TypeOK
    <3>7. Numbered' /\ Ordered'
      BY <1>0, <3>3, <3>4, ResettlingKeepsOrder
    <3>8. FailedIsKnown'
      BY <1>0, <3>3, <3>4 DEF FailedIsKnown
    <3> QED
      BY <2>1, <2>2, <3>6, <3>7, <3>8 DEF LedgerInv
  <2>4. CASE active # r
    <3>1. TypeOK'
      BY <1>0, <1>6, <2>1, <2>4 DEF Begin, TypeOK
    <3> QED
      BY <2>1, <2>2, <3>1, <1>6, <2>4, <1>a DEF Begin, LedgerInv
  <2> QED
    BY <2>3, <2>4
<1>7. ASSUME NEW r \in Runs, FinishRun(r) PROVE LedgerInv'
  <2> DEFINE left == RunningSteps({r})
  <2>1. CallsOwnStep' /\ pc' \in [Runs -> Pcs]
    BY <1>7, <1>d DEF FinishRun, Pcs
  <2>2. SweepHolds'
    BY <1>0, <1>7 DEF FinishRun, SweepHolds
  <2>3. left \in SUBSET Steps /\ \A s \in left : Ambiguous(s)
    BY DEF RunningSteps, Ambiguous
  <2>4. step' = Closed(left)
    BY <1>7 DEF FinishRun
  <2> HIDE DEF left
  <2>5. /\ step' \in [Steps -> StepRecords] /\ \A s \in Steps : Resettled(s)
        /\ \A s \in Steps : step'[s].status = "failed" => step[s].status = "failed"
    BY <1>0, <2>3, <2>4, ClosingResettles
  <2>6. UNCHANGED <<active, stale, started, call, inflight, applied, denied, sweep, spent>>
    BY <1>7 DEF FinishRun
  <2>7. run' \in [Runs -> {"none", "running", "ended"}]
    BY <1>0, <1>7 DEF FinishRun, TypeOK
  <2>8. TypeOK'
    BY <1>0, <2>1, <2>5, <2>6, <2>7 DEF TypeOK
  <2>9. Numbered' /\ Ordered'
    BY <1>0, <2>5, <2>6, ResettlingKeepsOrder
  <2>10. FailedIsKnown'
    BY <1>0, <2>5, <2>6 DEF FailedIsKnown
  <2> QED
    BY <2>1, <2>2, <2>8, <2>9, <2>10 DEF LedgerInv
<1>8. ASSUME NEW r \in Runs, NEW w \in Writes, StartWrite(r, w) PROVE LedgerInv'
  <2>1. CASE Prior(r, w) # {}
    <3>1. CallsOwnStep' /\ pc' \in [Runs -> Pcs]
      BY <1>8, <2>1, <1>d DEF StartWrite, Pcs
    <3>2. TypeOK'
      BY <1>0, <1>8, <2>1, <3>1 DEF StartWrite, TypeOK
    <3> QED
      BY <3>1, <3>2, <1>8, <2>1, <1>a, <1>b DEF StartWrite, LedgerInv
  <2>2. CASE Prior(r, w) = {}
    <3> DEFINE new == started + 1
               record == [status |-> "running", run |-> r, write |-> w]
    <3>1. /\ new \in Steps /\ started < new /\ started' = new
          /\ step' = [step EXCEPT ![new] = record]
          /\ inflight' = inflight \union {new} /\ call' = [call EXCEPT ![r] = new]
          /\ pc' = [pc EXCEPT ![r] = "calling"]
          /\ UNCHANGED <<active, stale, run, applied, denied, sweep, spent>>
      BY <1>0, <1>8, <2>2, Bounds DEF StartWrite, TypeOK, Steps
    <3> HIDE DEF new
    <3>2. record \in StepRecords
      BY DEF StepRecords, StepStatus
    <3>3. /\ step'[new] = record
          /\ \A s \in Steps \ {new} : step'[s] = step[s]
          /\ step' \in [Steps -> StepRecords]
      BY <1>0, <3>1, <3>2 DEF TypeOK
    <3>4. TypeOK'
      BY <1>0, <3>1, <3>3, Bounds DEF TypeOK, Steps, Pcs
    <3>5. \A s \in Steps : s # new => (s <= started' <=> s <= started)
      BY <1>0, <3>1, <1>8, <2>2, Bounds DEF Steps, TypeOK, StartWrite
    <3>6. Numbered'
      <4>1. \A s \in Steps : step'[s].status = "unused" <=> s > started'
        BY <1>0, <3>1, <3>3, <3>5, Bounds DEF Numbered, Steps, TypeOK
      <4>2. \A s \in inflight' \union applied' : s <= started'
        BY <1>0, <3>1, <3>5, Bounds DEF Numbered, Steps, TypeOK
      <4> QED
        BY <4>1, <4>2 DEF Numbered
    <3>7. Ordered'
      <4> SUFFICES ASSUME NEW s \in Steps, NEW u \in Steps, s < u, u <= started',
                          step'[s].write = step'[u].write
                   PROVE  ~Ambiguous(s)'
        BY DEF Ordered
      <4>1. s # new
        BY <3>1, Bounds DEF Steps
      <4>2. Ambiguous(s)' <=> Ambiguous(s)
        BY <3>3, <4>1 DEF Ambiguous
      <4>3. CASE u = new
        BY <2>2, <3>3, <4>1, <4>2, <4>3 DEF Prior
      <4>4. CASE u # new
        BY <1>0, <3>3, <3>5, <4>1, <4>2, <4>4 DEF Ordered
      <4> QED
        BY <4>3, <4>4
    <3>8. SweepHolds'
      <4>1. new \notin sweep.closing
        BY <1>0, <3>1, Bounds DEF SweepHolds, Numbered, Steps, TypeOK
      <4>2. sweep.closing \subseteq Steps
        BY <1>0 DEF TypeOK
      <4> QED
        BY <1>0, <3>1, <3>3, <4>1, <4>2 DEF SweepHolds
    <3>9. CallsOwnStep'
      <4>1. \A q \in Runs : q # r => pc'[q] = pc[q] /\ call'[q] = call[q]
        BY <1>0, <3>1 DEF TypeOK
      <4>2. call'[r] = new /\ new <= started'
        BY <1>0, <3>1, Bounds DEF TypeOK, Steps
      <4>3. \A s \in Steps : s <= started => s <= started'
        BY <3>1, <3>5, <4>2
      <4> QED
        BY <1>0, <3>1, <4>1, <4>2, <4>3 DEF CallsOwnStep
    <3>10. FailedIsKnown'
      BY <1>0, <3>1, <3>3 DEF FailedIsKnown
    <3> QED
      BY <3>4, <3>6, <3>7, <3>8, <3>9, <3>10 DEF LedgerInv
  <2> QED
    BY <2>1, <2>2
<1>9. ASSUME NEW r \in Runs, NEW outcome \in Outcomes, ToolReturns(r, outcome) PROVE LedgerInv'
  <2> DEFINE s == call[r]
  <2>1. s \in Steps /\ s \notin sweep.closing
    BY <1>0, <1>9 DEF ToolReturns, CallsOwnStep
  <2>2. CallsOwnStep' /\ pc' \in [Runs -> Pcs]
    <3>1. (IF outcome = "unknown_outcome" THEN "closing" ELSE "working") \in Pcs \ {"calling"}
      BY DEF Pcs
    <3> QED
      BY <1>9, <3>1, <1>d DEF ToolReturns
  <2>3. /\ inflight' = IF outcome = "failed" THEN inflight \ {s} ELSE inflight
        /\ outcome = "failed" => s \notin applied
        /\ step' = Recorded(r, s, outcome)
        /\ UNCHANGED <<active, stale, run, started, call, applied, denied, sweep, spent>>
    BY <1>9 DEF ToolReturns
  <2> HIDE DEF s
  <2>4. /\ step' \in [Steps -> StepRecords] /\ \A u \in Steps : Resettled(u)
        /\ \A u \in Steps \ {s} : step'[u] = step[u]
        /\ step'[s].status \in {outcome, step[s].status}
    <3>1. CASE Ambiguous(s) /\ step[s].run = r
      BY <1>0, <2>1, <2>3, <3>1, SettlingResettles DEF Recorded
    <3>2. CASE ~(Ambiguous(s) /\ step[s].run = r)
      BY <1>0, <2>3, <3>2 DEF Recorded, Resettled, TypeOK
    <3> QED
      BY <3>1, <3>2
  <2>5. TypeOK'
    BY <1>0, <2>2, <2>3, <2>4 DEF TypeOK
  <2>6. Numbered' /\ Ordered'
    BY <1>0, <2>3, <2>4, ResettlingKeepsOrder
  <2>7. SweepHolds'
    <3>1. sweep.closing \subseteq Steps
      BY <1>0 DEF TypeOK
    <3> QED
      BY <1>0, <2>1, <2>3, <2>4, <3>1 DEF SweepHolds
  <2>8. FailedIsKnown'
    BY <1>0, <2>3, <2>4 DEF FailedIsKnown
  <2> QED
    BY <2>2, <2>5, <2>6, <2>7, <2>8 DEF LedgerInv
<1>10. ASSUME NEW s \in Steps, EffectLands(s) PROVE LedgerInv'
  <2>1. TypeOK'
    BY <1>0, <1>10 DEF EffectLands, TypeOK
  <2>2. Numbered' /\ FailedIsKnown'
    BY <1>0, <1>10 DEF EffectLands, Numbered, FailedIsKnown
  <2>3. Ordered'
    BY <1>0, <1>10 DEF EffectLands, Ordered, Ambiguous
  <2> QED
    BY <2>1, <2>2, <2>3, <1>10, <1>b, <1>c DEF EffectLands, LedgerInv
<1>11. ASSUME NEW s \in Steps, NEW outcome \in {"succeeded", "failed"}, Resolve(s, outcome)
       PROVE  LedgerInv'
  <2>1. /\ step' = [step EXCEPT ![s].status = outcome] /\ outcome \in Outcomes
        /\ Ambiguous(s) /\ s \notin sweep.closing
        /\ denied' = IF outcome = "failed" THEN denied \union {s} ELSE denied
        /\ UNCHANGED <<active, stale, run, started, pc, call, inflight, applied, sweep, spent>>
    BY <1>11 DEF Resolve, Outcomes, Ambiguous
  <2>2. /\ step' \in [Steps -> StepRecords] /\ \A u \in Steps : Resettled(u)
        /\ step'[s].status = outcome
        /\ \A u \in Steps \ {s} : step'[u] = step[u]
    BY <1>0, <2>1, SettlingResettles
  <2>3. TypeOK'
    BY <1>0, <2>1, <2>2 DEF TypeOK
  <2>4. Numbered' /\ Ordered'
    BY <1>0, <2>1, <2>2, ResettlingKeepsOrder
  <2>5. SweepHolds'
    <3>1. sweep.closing \subseteq Steps
      BY <1>0 DEF TypeOK
    <3> QED
      BY <1>0, <2>1, <2>2, <3>1 DEF SweepHolds
  <2>6. FailedIsKnown'
    BY <1>0, <2>1, <2>2 DEF FailedIsKnown
  <2> QED
    BY <2>1, <2>3, <2>4, <2>5, <2>6, <1>c DEF LedgerInv
<1>12. CASE GoesStale
  <2>1. spent' \in [stalls : Nat, sweeps : Nat]
    BY <1>0, <1>12 DEF GoesStale, Stall, TypeOK
  <2>2. TypeOK'
    BY <1>0, <1>12, <2>1 DEF GoesStale, TypeOK
  <2> QED
    BY <2>2, <1>12, <1>a, <1>b, <1>c DEF GoesStale, LedgerInv
<1>13. CASE SweepLooks
  <2>1. spent' \in [stalls : Nat, sweeps : Nat]
    <3>1. spent \in [stalls : Nat, sweeps : Nat]
      BY <1>0 DEF TypeOK
    <3>2. CASE \E r \in Runs : Live(r)
      <4>1. spent' = [spent EXCEPT !.sweeps = @ + 1, !.stalls = @ + 1]
        BY <1>13, <3>2 DEF SweepLooks
      <4>2. spent' = [stalls |-> spent.stalls + 1, sweeps |-> spent.sweeps + 1]
        BY <3>1, <4>1
      <4> QED
        BY <3>1, <4>2
    <3>3. CASE ~\E r \in Runs : Live(r)
      <4>1. spent' = [spent EXCEPT !.sweeps = @ + 1]
        BY <1>13, <3>3 DEF SweepLooks
      <4> QED
        BY <3>1, <4>1
    <3> QED
      BY <3>2, <3>3
  <2>2. sweep' \in [busy : BOOLEAN, closing : SUBSET Steps] /\ SweepHolds'
    BY <1>13 DEF SweepLooks, SweepHolds, RunningSteps
  <2>3. TypeOK'
    BY <1>0, <1>13, <2>1, <2>2 DEF SweepLooks, TypeOK
  <2> QED
    BY <2>2, <2>3, <1>13, <1>a, <1>c DEF SweepLooks, LedgerInv
<1>14. CASE SweepActs
  <2>1. sweep.closing \in SUBSET Steps /\ \A s \in sweep.closing : Ambiguous(s)
    BY <1>0 DEF TypeOK, SweepHolds, Ambiguous
  <2>2. /\ step' = Closed(sweep.closing) /\ sweep' = NoSweep
        /\ active' = NoRun /\ stale' = FALSE
        /\ UNCHANGED <<started, pc, call, inflight, applied, denied, spent>>
    BY <1>14 DEF SweepActs
  <2>3. /\ step' \in [Steps -> StepRecords] /\ \A s \in Steps : Resettled(s)
        /\ \A s \in Steps : step'[s].status = "failed" => step[s].status = "failed"
    BY <1>0, <2>1, <2>2, ClosingResettles
  <2>4. run' \in [Runs -> {"none", "running", "ended"}]
    BY <1>0, <1>14 DEF SweepActs, TypeOK
  <2>5. sweep' \in [busy : BOOLEAN, closing : SUBSET Steps] /\ SweepHolds'
    BY <2>2 DEF NoSweep, SweepHolds
  <2>6. TypeOK'
    BY <1>0, <2>2, <2>3, <2>4, <2>5 DEF TypeOK
  <2>7. Numbered' /\ Ordered'
    BY <1>0, <2>2, <2>3, ResettlingKeepsOrder
  <2>8. FailedIsKnown'
    BY <1>0, <2>2, <2>3 DEF FailedIsKnown
  <2> QED
    BY <2>2, <2>5, <2>6, <2>7, <2>8, <1>c DEF LedgerInv
<1> QED
  BY <1>1, <1>2, <1>3, <1>4, <1>5, <1>6, <1>7, <1>8, <1>9, <1>10, <1>11, <1>12, <1>13, <1>14
  DEF Next, RunStep, StepStep

THEOREM Invariance == Spec => []LedgerInv
  BY InitInv, NextInv, PTL DEF Spec
-----------------------------------------------------------------------------
(* Every variable keeps its type, in particular a process that is in a     *)
(* call is in a step that exists.                                          *)
THEOREM TypeCorrect == Spec => []TypeOK
  BY Invariance, PTL DEF LedgerInv

(* journal.start: two attempts at one write never both have an unknown     *)
(* outcome, whatever runs, takeovers and sweeps there are.                 *)
THEOREM AmbiguousWritesAreUnique == Spec => []AmbiguousWriteUnique
<1>1. LedgerInv => AmbiguousWriteUnique
  <2> SUFFICES ASSUME LedgerInv, NEW s \in Steps, NEW u \in Steps, Ambiguous(s), Ambiguous(u),
                      step[s].write = step[u].write
               PROVE  s = u
    BY DEF AmbiguousWriteUnique
  <2>1. s <= started /\ u <= started
    BY Bounds DEF LedgerInv, Numbered, Ambiguous, TypeOK, Steps
  <2>2. ~(s < u) /\ ~(u < s)
    BY <2>1 DEF LedgerInv, Ordered
  <2> QED
    BY <2>2, Bounds DEF Steps
<1> QED
  BY Invariance, <1>1, PTL

(* A write takes effect a second time only after the first was on record   *)
(* as done, or after the owner said it had not executed.                   *)
THEOREM NoWriteRepeatsBlindly == Spec => []NoBlindRepeat
<1>1. LedgerInv => NoBlindRepeat
  <2> SUFFICES ASSUME LedgerInv, NEW s \in Steps, NEW u \in Steps, s < u,
                      step[s].write = step[u].write, s \in applied, u \in applied
               PROVE  step[s].status = "succeeded" \/ s \in denied
    BY DEF NoBlindRepeat
  <2>1. u <= started /\ s <= started
    BY DEF LedgerInv, Numbered
  <2>2. ~Ambiguous(s)
    BY <2>1 DEF LedgerInv, Ordered
  <2>3. step[s].status # "unused"
    BY <2>1, Bounds DEF LedgerInv, Numbered, TypeOK, Steps
  <2>4. step[s].status \in {"succeeded", "failed"}
    <3>1. step[s].status \in StepStatus
      BY DEF LedgerInv, TypeOK, StepRecords
    <3> QED
      BY <2>2, <2>3, <3>1 DEF Ambiguous, StepStatus
  <2> QED
    BY <2>4 DEF LedgerInv, FailedIsKnown
<1> QED
  BY Invariance, <1>1, PTL

(* begin: at most one run of a conversation is on record as running.       *)
THEOREM OneRunIsRunning == Spec => []OneRunningRun
<1>1. Init => OneRunningRun
  BY DEF Init, OneRunningRun, RunningRuns
<1>2. TypeOK /\ OneRunningRun /\ [Next]_vars => OneRunningRun'
  <2> SUFFICES ASSUME TypeOK, OneRunningRun, [Next]_vars PROVE OneRunningRun'
    OBVIOUS
  <2>1. \/ RunningRuns' \subseteq RunningRuns
        \/ \E r \in Runs : RunningRuns' \subseteq {r}
    <3>1. CASE UNCHANGED run
      BY <3>1 DEF RunningRuns
    <3>2. ASSUME NEW r \in Runs, Begin(r), ~UNCHANGED run
          PROVE  RunningRuns' \subseteq {r}
      BY <3>2 DEF Begin, StartedAlone, RunningRuns, TypeOK
    <3>3. ASSUME NEW r \in Runs, FinishRun(r) PROVE RunningRuns' \subseteq RunningRuns
      BY <3>3 DEF FinishRun, RunningRuns, TypeOK
    <3>4. CASE SweepActs
      BY <3>4 DEF SweepActs, RunningRuns, TypeOK
    <3> QED
      BY <3>1, <3>2, <3>3, <3>4
      DEF vars, Next, RunStep, StepStep, ClaimRun, Renew, Release, Crash, StopRun, StartWrite,
          StartRefused, ToolReturns, EffectLands, Resolve, GoesStale, SweepLooks
  <2> QED
    BY <2>1 DEF OneRunningRun
<1> QED
  BY <1>1, <1>2, TypeCorrect, PTL DEF Spec

(* journal.finish and resolve: what is on record of a settled step is      *)
(* final.                                                                  *)
THEOREM VerdictsAreFinal == Spec => SettledStaysSettled
<1> DEFINE Kept == \A s \in Steps :
               step[s].status \in {"succeeded", "failed"} => step'[s] = step[s]
<1>1. LedgerInv /\ [Next]_vars => [Kept]_vars
  <2> SUFFICES ASSUME LedgerInv, Next, NEW s \in Steps,
                      step[s].status \in {"succeeded", "failed"}
               PROVE  step'[s] = step[s]
    OBVIOUS
  <2> USE DEF LedgerInv
  <2>1. CASE UNCHANGED step
    BY <2>1
  <2>2. ASSUME NEW r \in Runs, Begin(r) PROVE step'[s] = step[s]
    BY <2>2 DEF Begin, Closed, RunningSteps
  <2>3. ASSUME NEW r \in Runs, FinishRun(r) PROVE step'[s] = step[s]
    BY <2>3 DEF FinishRun, Closed, RunningSteps
  <2>4. ASSUME NEW r \in Runs, NEW w \in Writes, StartWrite(r, w) PROVE step'[s] = step[s]
    <3>1. s # started + 1
      BY Bounds DEF Numbered, TypeOK, Steps
    <3> QED
      BY <2>4, <3>1 DEF StartWrite, TypeOK
  <2>5. ASSUME NEW r \in Runs, NEW outcome \in Outcomes, ToolReturns(r, outcome)
        PROVE  step'[s] = step[s]
    BY <2>5 DEF ToolReturns, Recorded, Ambiguous, TypeOK
  <2>6. ASSUME NEW u \in Steps, NEW outcome \in {"succeeded", "failed"}, Resolve(u, outcome)
        PROVE  step'[s] = step[s]
    BY <2>6 DEF Resolve, TypeOK
  <2>7. CASE SweepActs
    BY <2>7 DEF SweepActs, Closed, SweepHolds
  <2> QED
    BY <2>1, <2>2, <2>3, <2>4, <2>5, <2>6, <2>7
    DEF Next, RunStep, StepStep, ClaimRun, Renew, Release, Crash, StopRun, StartRefused,
        EffectLands, GoesStale, SweepLooks
<1> QED
  BY <1>1, Invariance, PTL DEF Spec, SettledStaysSettled

(* releaseConversationRun: a run that was replaced and ends late does not  *)
(* take the lease from its successor.                                      *)
THEOREM ReleaseIsFenced == Spec => LeaseIsFenced
<1> DEFINE Kept == active # NoRun /\ active' # active
                     => stale \/ pc[active] = "releasing" \/ sweep.busy
<1>1. [Next]_vars => [Kept]_vars
  <2> SUFFICES ASSUME Next, active # NoRun, active' # active
               PROVE  stale \/ pc[active] = "releasing" \/ sweep.busy
    OBVIOUS
  <2> QED
    BY DEF Next, RunStep, StepStep, ClaimRun, Renew, Release, Released, Crash, Begin, StopRun,
        FinishRun, StartWrite, StartRefused, ToolReturns, EffectLands, Resolve, GoesStale,
        SweepLooks, SweepActs
<1> QED
  BY <1>1, PTL DEF Spec, LeaseIsFenced
-----------------------------------------------------------------------------
(* RunningStepCanBeClosed. As long as no lease lapses under a worker that  *)
(* is alive, the worker of a begun run has the lease and the sweep never   *)
(* meets one: what it looked up is still all there is when it commits.     *)

AtWork(r) == pc[r] \in {"working", "calling", "closing"}

WorkerIsOnRecord == \A r \in Runs : AtWork(r) => active = r /\ r \in RunningRuns
StaleIsDead == stale => \A r \in Runs : active = r => ~Live(r)
SweepIsAlone ==
    sweep.busy => /\ \A r \in Runs : ~AtWork(r)
                  /\ RunningSteps(RunningRuns) \subseteq sweep.closing
StepsOfRunningRuns ==
    \A s \in Steps : step[s].status = "running" => step[s].run \in RunningRuns

NoStallFacts == WorkerIsOnRecord /\ StaleIsDead /\ SweepIsAlone /\ StepsOfRunningRuns

NoStallInv ==
    spent.stalls = 0 => NoStallFacts

(* A stall is never forgotten, and a step that is none takes no lease from *)
(* a live worker.                                                          *)
LEMMA StallsAreCounted ==
    ASSUME TypeOK, [Next]_vars, spent'.stalls = 0
    PROVE  /\ spent.stalls = 0
           /\ GoesStale => \A r \in Runs : active = r => ~Live(r)
           /\ SweepLooks => \A r \in Runs : ~Live(r)
<1>1. spent \in [stalls : Nat, sweeps : Nat] /\ spent.stalls \in Nat
  BY DEF TypeOK
<1>2. CASE UNCHANGED spent /\ ~GoesStale /\ ~SweepLooks
  BY <1>2
<1>3. CASE GoesStale
  <2>1. ~Stall
    <3>1. Stall => spent'.stalls = spent.stalls + 1
      BY <1>1 DEF Stall
    <3> QED
      BY <1>1, <3>1
  <2>2. \A r \in Runs : active = r => ~Live(r)
    BY <1>3, <2>1 DEF GoesStale
  <2>3. UNCHANGED spent /\ UNCHANGED sweep
    BY <1>3, <2>1 DEF GoesStale
  <2>4. ~SweepLooks
    BY <2>3 DEF SweepLooks
  <2> QED
    BY <2>2, <2>3, <2>4
<1>4. CASE SweepLooks
  <2>1. ~\E r \in Runs : Live(r)
    <3>1. (\E r \in Runs : Live(r)) => spent'.stalls = spent.stalls + 1
      BY <1>1, <1>4 DEF SweepLooks
    <3> QED
      BY <1>1, <3>1
  <2>2. spent' = [spent EXCEPT !.sweeps = @ + 1]
    BY <1>4, <2>1 DEF SweepLooks
  <2>3. spent'.stalls = spent.stalls
    BY <1>1, <2>2
  <2> QED
    BY <2>1, <2>3 DEF Live
<1> QED
  BY <1>2, <1>3, <1>4
  DEF vars, Next, RunStep, StepStep, ClaimRun, Renew, Release, Crash, Begin, StopRun, FinishRun,
      StartWrite, StartRefused, ToolReturns, EffectLands, Resolve, SweepActs

LEMMA NextNoStall == LedgerInv /\ LedgerInv' /\ NoStallInv /\ [Next]_vars => NoStallInv'
<1> SUFFICES ASSUME LedgerInv, LedgerInv', NoStallInv, [Next]_vars, spent'.stalls = 0
             PROVE  NoStallFacts'
  BY DEF NoStallInv
<1> USE DEF worker, world, NoStallFacts
<1>1. TypeOK /\ Numbered /\ SweepHolds /\ CallsOwnStep
  BY DEF LedgerInv
<1>2. /\ spent.stalls = 0
      /\ GoesStale => \A r \in Runs : active = r => ~Live(r)
      /\ SweepLooks => \A r \in Runs : ~Live(r)
  BY <1>1, StallsAreCounted
<1>3. NoStallFacts
  BY <1>2 DEF NoStallInv
<1>4. \A r \in Runs : AtWork(r) => Live(r)
  BY DEF AtWork, Live
<1>5. NoRun \notin Runs
  BY DEF NoRun, Runs
<1> DEFINE Kept == UNCHANGED <<step, run, sweep>>
\* A process moves, to work only from work; leases and records stay.
<1>6. ASSUME UNCHANGED <<active, stale>>, Kept, NEW r \in Runs, NEW to \in Pcs,
             pc' = [pc EXCEPT ![r] = to], Live(r), to \in {"working", "calling", "closing"} => AtWork(r)
      PROVE  NoStallFacts'
  BY <1>1, <1>3, <1>6 DEF WorkerIsOnRecord, StaleIsDead, SweepIsAlone, StepsOfRunningRuns,
                          RunningSteps, RunningRuns, AtWork, Live, TypeOK
<1>7. CASE UNCHANGED vars
  BY <1>3, <1>7 DEF vars, WorkerIsOnRecord, StaleIsDead, SweepIsAlone, StepsOfRunningRuns,
                    RunningSteps, RunningRuns, AtWork, Live
<1>8. ASSUME NEW r \in Runs, ClaimRun(r) PROVE NoStallFacts'
  <2>1. \A q \in Runs : ~AtWork(q)
    BY <1>3, <1>4, <1>5, <1>8 DEF ClaimRun, WorkerIsOnRecord, StaleIsDead
  <2>2. \A q \in Runs : ~AtWork(q)'
    BY <1>1, <1>8, <2>1 DEF ClaimRun, AtWork, TypeOK
  <2> QED
    BY <1>3, <1>8, <2>2 DEF ClaimRun, WorkerIsOnRecord, StaleIsDead, SweepIsAlone,
                            StepsOfRunningRuns, RunningSteps, RunningRuns
<1>9. ASSUME NEW r \in Runs, Renew(r) PROVE NoStallFacts'
  BY <1>3, <1>9 DEF Renew, WorkerIsOnRecord, StaleIsDead, SweepIsAlone, StepsOfRunningRuns,
                    RunningSteps, RunningRuns, AtWork
<1>10. ASSUME NEW r \in Runs, Release(r) PROVE NoStallFacts'
  <2>1. \A q \in Runs : AtWork(q)' => AtWork(q) /\ q # r
    BY <1>1, <1>10 DEF Release, AtWork, TypeOK
  <2>2. \A q \in Runs : Live(q)' => Live(q)
    BY <1>1, <1>10 DEF Release, Live, TypeOK
  <2>3. active' = active \/ (active = r /\ active' = NoRun)
    BY <1>10 DEF Release, Released
  <2>4. Kept /\ (stale' => stale /\ active # r)
    BY <1>10 DEF Release
  <2>5. WorkerIsOnRecord'
    BY <1>3, <2>1, <2>3, <2>4 DEF WorkerIsOnRecord, RunningRuns
  <2>6. StaleIsDead'
    BY <1>3, <1>5, <2>2, <2>3, <2>4 DEF StaleIsDead
  <2>7. SweepIsAlone' /\ StepsOfRunningRuns'
    BY <1>3, <2>1, <2>4 DEF SweepIsAlone, StepsOfRunningRuns, RunningSteps, RunningRuns
  <2> QED
    BY <2>5, <2>6, <2>7
<1>11. ASSUME NEW r \in Runs, Crash(r) PROVE NoStallFacts'
  BY <1>6, <1>11 DEF Crash, Pcs
<1>12. ASSUME NEW r \in Runs, StopRun(r) \/ StartRefused(r) PROVE NoStallFacts'
  BY <1>6, <1>12 DEF StopRun, StartRefused, Pcs, AtWork, Live
<1>13. ASSUME NEW r \in Runs, Begin(r) PROVE NoStallFacts'
  <2>1. CASE active # r
    BY <1>6, <1>13, <2>1 DEF Begin, Pcs, Live
  <2>2. CASE active = r
    <3> DEFINE left == RunningSteps(RunningRuns)
    <3>1. /\ step' = Closed(left) /\ run' = StartedAlone(r)
          /\ pc' = [pc EXCEPT ![r] = "working"] /\ ~sweep.busy
          /\ UNCHANGED <<active, stale, sweep>>
      BY <1>13, <2>2 DEF Begin
    <3>2. \A q \in Runs : AtWork(q)' => q = r
      BY <1>1, <1>3, <2>2, <3>1 DEF WorkerIsOnRecord, AtWork, TypeOK
    <3>3. r \in RunningRuns'
      BY <3>1 DEF StartedAlone, RunningRuns
    <3>4. \A s \in Steps : step'[s].status # "running"
      <4>1. \A s \in Steps : s \in left <=> step[s].status = "running"
        BY <1>3 DEF StepsOfRunningRuns, RunningSteps
      <4>2. \A s \in Steps : step[s] \in StepRecords
        BY <1>1 DEF TypeOK
      <4>3. \A s \in left : step'[s].status = "unknown_outcome"
        BY <3>1, <4>2 DEF Closed, RunningSteps, StepRecords
      <4>4. \A s \in Steps \ left : step'[s] = step[s]
        BY <3>1 DEF Closed
      <4> HIDE DEF left
      <4> QED
        BY <4>1, <4>3, <4>4
    <3>5. StaleIsDead'
      BY <1>1, <1>3, <1>13, <2>2, <3>1 DEF Begin, StaleIsDead, Live
    <3> QED
      BY <2>2, <3>1, <3>2, <3>3, <3>4, <3>5 DEF WorkerIsOnRecord, SweepIsAlone, StepsOfRunningRuns
  <2> QED
    BY <2>1, <2>2
<1>14. ASSUME NEW r \in Runs, FinishRun(r) PROVE NoStallFacts'
  <2>1. /\ step' = Closed(RunningSteps({r})) /\ ~sweep.busy
        /\ \A q \in Runs : q # r => run'[q] = run[q] /\ pc'[q] = pc[q]
        /\ pc'[r] = "releasing" /\ pc[r] = "closing"
        /\ UNCHANGED <<active, stale, sweep>>
    BY <1>1, <1>14 DEF FinishRun, TypeOK
  <2>2. \A s \in Steps : step'[s].status = "running" => step'[s] = step[s] /\ step[s].run # r
    <3>1. \A s \in Steps : step[s] \in StepRecords
      BY <1>1 DEF TypeOK
    <3>2. \A s \in RunningSteps({r}) : step'[s].status = "unknown_outcome"
      BY <2>1, <3>1 DEF Closed, RunningSteps, StepRecords
    <3>3. \A s \in Steps \ RunningSteps({r}) : step'[s] = step[s]
      BY <2>1 DEF Closed
    <3> QED
      BY <3>2, <3>3 DEF RunningSteps
  <2>3. \A q \in Runs : q # r => (q \in RunningRuns' <=> q \in RunningRuns)
    BY <2>1 DEF RunningRuns
  <2>4. WorkerIsOnRecord'
    BY <1>3, <2>1, <2>3 DEF WorkerIsOnRecord, AtWork
  <2>5. StaleIsDead'
    BY <1>3, <2>1 DEF StaleIsDead, Live
  <2>6. StepsOfRunningRuns'
    BY <1>3, <2>2, <2>3 DEF StepsOfRunningRuns, RunningRuns
  <2> QED
    BY <2>1, <2>4, <2>5, <2>6 DEF SweepIsAlone
<1>15. ASSUME NEW r \in Runs, NEW w \in Writes, StartWrite(r, w) PROVE NoStallFacts'
  <2>1. pc[r] = "working" /\ r \in RunningRuns
    BY <1>3, <1>15 DEF StartWrite, WorkerIsOnRecord, AtWork
  <2>2. CASE Prior(r, w) # {}
    BY <1>6, <1>15, <2>1, <2>2 DEF StartWrite, Pcs, AtWork, Live
  <2>3. CASE Prior(r, w) = {}
    <3>1. /\ step' = [step EXCEPT ![started + 1] = [status |-> "running", run |-> r, write |-> w]]
          /\ pc' = [pc EXCEPT ![r] = "calling"]
          /\ UNCHANGED <<active, stale, run, sweep>>
      BY <1>15, <2>3 DEF StartWrite
    <3>2. \A s \in Steps : s # started + 1 => step'[s] = step[s]
      BY <1>1, <3>1 DEF TypeOK
    <3>3. \A s \in Steps : s = started + 1 => step'[s].run = r
      BY <1>1, <3>1 DEF TypeOK
    <3>4. StepsOfRunningRuns'
      BY <1>3, <2>1, <3>1, <3>2, <3>3 DEF StepsOfRunningRuns, RunningRuns
    <3>5. ~sweep.busy
      BY <1>3, <2>1 DEF SweepIsAlone, AtWork
    <3>6. WorkerIsOnRecord' /\ StaleIsDead'
      BY <1>1, <1>3, <2>1, <3>1 DEF WorkerIsOnRecord, StaleIsDead, AtWork, Live, RunningRuns, TypeOK
    <3> QED
      BY <3>1, <3>4, <3>5, <3>6 DEF SweepIsAlone
  <2> QED
    BY <2>2, <2>3
<1>16. ASSUME NEW r \in Runs, NEW outcome \in Outcomes, ToolReturns(r, outcome) PROVE NoStallFacts'
  <2> DEFINE to == IF outcome = "unknown_outcome" THEN "closing" ELSE "working"
  <2>1. /\ pc[r] = "calling" /\ pc' = [pc EXCEPT ![r] = to] /\ to \in {"working", "closing"}
        /\ step' = Recorded(r, call[r], outcome)
        /\ UNCHANGED <<active, stale, run, sweep>>
    BY <1>16 DEF ToolReturns
  <2> HIDE DEF to
  <2>2. call[r] \in Steps
    BY <1>1, <2>1 DEF CallsOwnStep
  <2>3. \A s \in Steps : step'[s].status = "running" => step'[s] = step[s]
    <3>1. \A s \in Steps : s # call[r] => step'[s] = step[s]
      BY <1>1, <2>1 DEF Recorded, TypeOK
    <3>2. step'[call[r]] = step[call[r]] \/ step'[call[r]].status = outcome
      BY <1>1, <2>1, <2>2 DEF Recorded, TypeOK, StepRecords
    <3> QED
      BY <3>1, <3>2 DEF Outcomes
  <2>4. StepsOfRunningRuns'
    BY <1>3, <2>1, <2>3 DEF StepsOfRunningRuns, RunningRuns
  <2>5. ~sweep.busy
    BY <1>3, <2>1 DEF SweepIsAlone, AtWork
  <2>6. WorkerIsOnRecord' /\ StaleIsDead'
    BY <1>1, <1>3, <2>1 DEF WorkerIsOnRecord, StaleIsDead, AtWork, Live, RunningRuns, TypeOK
  <2> QED
    BY <2>1, <2>4, <2>5, <2>6 DEF SweepIsAlone
<1>17. ASSUME NEW s \in Steps, EffectLands(s) PROVE NoStallFacts'
  BY <1>3, <1>17 DEF EffectLands, WorkerIsOnRecord, StaleIsDead, SweepIsAlone, StepsOfRunningRuns,
                     RunningSteps, RunningRuns, AtWork, Live
<1>18. ASSUME NEW s \in Steps, NEW outcome \in {"succeeded", "failed"}, Resolve(s, outcome)
       PROVE  NoStallFacts'
  <2>1. /\ step' = [step EXCEPT ![s].status = outcome]
        /\ UNCHANGED <<active, stale, run, pc, sweep>>
    BY <1>18 DEF Resolve
  <2>2. \A u \in Steps : step'[u].status = "running" => step'[u] = step[u]
    <3>1. \A u \in Steps : u # s => step'[u] = step[u]
      BY <1>1, <2>1 DEF TypeOK
    <3>2. step'[s].status = outcome
      BY <1>1, <2>1 DEF TypeOK, StepRecords
    <3> QED
      BY <3>1, <3>2
  <2> QED
    BY <1>3, <2>1, <2>2 DEF WorkerIsOnRecord, StaleIsDead, SweepIsAlone, StepsOfRunningRuns,
                            RunningSteps, RunningRuns, AtWork, Live
<1>19. CASE GoesStale
  BY <1>2, <1>3, <1>19 DEF GoesStale, WorkerIsOnRecord, StaleIsDead, SweepIsAlone,
                           StepsOfRunningRuns, RunningSteps, RunningRuns, AtWork, Live
<1>20. CASE SweepLooks
  <2>1. /\ sweep' = [busy |-> TRUE, closing |-> RunningSteps(RunningRuns)]
        /\ UNCHANGED <<active, stale, run, step, pc>>
    BY <1>20 DEF SweepLooks
  <2>2. \A r \in Runs : ~AtWork(r)
    BY <1>2, <1>4, <1>20
  <2>3. RunningSteps(RunningRuns)' = RunningSteps(RunningRuns)
    BY <2>1 DEF RunningSteps, RunningRuns
  <2>4. SweepIsAlone'
    BY <2>1, <2>2, <2>3 DEF SweepIsAlone, AtWork
  <2> QED
    BY <1>3, <2>1, <2>4 DEF WorkerIsOnRecord, StaleIsDead, StepsOfRunningRuns, RunningRuns,
                            AtWork, Live
<1>21. CASE SweepActs
  <2>1. /\ sweep.busy /\ step' = Closed(sweep.closing) /\ sweep' = NoSweep
        /\ stale' = FALSE /\ UNCHANGED pc
    BY <1>21 DEF SweepActs
  <2>2. \A r \in Runs : ~AtWork(r)'
    BY <1>3, <2>1 DEF SweepIsAlone, AtWork
  <2>3. \A s \in Steps : step'[s].status # "running"
    <3>1. \A s \in Steps : step[s].status = "running" => s \in sweep.closing
      BY <1>3, <2>1 DEF SweepIsAlone, StepsOfRunningRuns, RunningSteps
    <3>2. \A s \in Steps : step[s] \in StepRecords
      BY <1>1 DEF TypeOK
    <3>3. \A s \in Steps : s \in sweep.closing => step'[s].status = "unknown_outcome"
      BY <2>1, <3>2 DEF Closed, StepRecords
    <3>4. \A s \in Steps : s \notin sweep.closing => step'[s] = step[s]
      BY <2>1 DEF Closed
    <3> QED
      BY <3>1, <3>3, <3>4
  <2> QED
    BY <2>1, <2>2, <2>3 DEF WorkerIsOnRecord, StaleIsDead, SweepIsAlone, StepsOfRunningRuns, NoSweep
<1> QED
  BY <1>7, <1>8, <1>9, <1>10, <1>11, <1>12, <1>13, <1>14, <1>15, <1>16, <1>17, <1>18, <1>19,
     <1>20, <1>21
  DEF Next, RunStep, StepStep

(* As long as no lease lapses under a live worker, no crash, takeover or   *)
(* sweep leaves a running step behind that nothing would ever close.       *)
THEOREM RunningStepsCanBeClosed == Spec => []RunningStepCanBeClosed
<1>1. Init => NoStallInv
  BY DEF Init, NoStallInv, NoStallFacts, WorkerIsOnRecord, StaleIsDead, SweepIsAlone, StepsOfRunningRuns,
         NoSweep, Unused, AtWork
<1>2. Spec => []NoStallInv
  BY <1>1, NextNoStall, Invariance, PTL DEF Spec
<1>3. NoStallInv => RunningStepCanBeClosed
  BY DEF NoStallInv, NoStallFacts, StepsOfRunningRuns, RunningStepCanBeClosed
<1> QED
  BY <1>2, <1>3, PTL

=============================================================================
