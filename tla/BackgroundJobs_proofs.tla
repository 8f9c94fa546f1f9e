------------------------- MODULE BackgroundJobs_proofs -------------------------
(***************************************************************************)
(* The queue with its handlers, for any tasks, workers, clips and bounds;  *)
(* and the schedules, for any timetable, dispatchers and workers.          *)
(*                                                                         *)
(* The composition implements TaskQueue: every step of a handler, of the   *)
(* routes and of the owner is a step of the queue or none (JobsStepQueue), *)
(* so what TaskQueue_proofs shows of the queue holds here. On top of it    *)
(* four properties are proved. PaidOnce rests on there being one worker    *)
(* per task as long as no lock lapses; ClipsPaidAndBilled on the session   *)
(* lock and on what a clip's place says about its row; ChargedOnce on an   *)
(* account of who may still meter (BillInv); CardIsSettled on what a card  *)
(* that says "generating" waits for (CardInv).                             *)
(*                                                                         *)
(* The schedules share nothing with the tasks but the server. Their limit  *)
(* a day rests on ReportInv: a run is taken up by one worker at most, and  *)
(* what was paid for is a run that counts.                                 *)
(***************************************************************************)
EXTENDS MCBackground, TaskQueue_proofs

LEMMA MediaConstants ==
    /\ Generation \in Tasks /\ Redownload \in Tasks /\ Generation # Redownload
    /\ Generation \notin Renders /\ Redownload \notin Renders
    /\ MediaTasks \subseteq Tasks
  BY MediaAssumption DEF MediaTasks

LEMMA VideoConstants == Video \in Tasks /\ Video \in Renders /\ Video \notin MediaTasks
  BY VideoAssumption, QueueAssumption, MediaAssumption DEF MediaTasks
-----------------------------------------------------------------------------
(* The composition is the queue.                                           *)

LEMMA HandlerStep ==
    ASSUME NEW k \in Workers, NEW out \in {"returned", "threw"}, HandlerEnds(k, out)
    PROVE  QueueNext
  BY DEF QueueNext, HandlerOutcomes, Outcomes

LEMMA MediaHandlerStep ==
    ASSUME NEW k \in Workers, MediaHandler(k)
    PROVE  \/ \E out \in {"returned", "threw"} : HandlerEnds(k, out)
           \/ UNCHANGED queueVars
<1>1. CASE GenStart(k) \/ GenFails(k) \/ Untold(k) \/ GenCreate(k)
  BY <1>1 DEF GenStart, GenFails, Untold, GenCreate, Stops, Gives, Ends, GoesTo
<1>2. CASE GenStores(k) \/ GenPolls(k) \/ RedoStart(k)
  BY <1>2 DEF GenStores, GenPolls, RedoStart, Stops, Ends, GoesTo
<1>3. CASE Downloads(k) \/ Meters(k) \/ Caches(k) \/ Completes(k)
  BY <1>3 DEF Downloads, Meters, Caches, Completes, Ends, GoesTo
<1>4. CASE FinishFails(k)
  BY <1>4 DEF FinishFails, Stops, Ends
<1> QED
  BY <1>1, <1>2, <1>3, <1>4 DEF MediaHandler

LEMMA VideoHandlerStep ==
    ASSUME NEW k \in Workers, VideoHandler(k)
    PROVE  \/ \E out \in {"returned", "threw"} : HandlerEnds(k, out)
           \/ UNCHANGED queueVars
<1>1. CASE VideoStart(k) \/ ClipsFail(k) \/ Compose(k) \/ VideoReturns(k)
  BY <1>1 DEF VideoStart, ClipsFail, Compose, VideoReturns, VideoEnds
<1>2. ASSUME NEW c \in Clips, ClipStep(k, c) PROVE UNCHANGED queueVars
  BY <1>2 DEF ClipStep, ClipBegins, ClipStops, ClipClaims, ClipSends, ClipStores, ClipPolls,
              ClipDownloads, ClipMeters, ClipChecks, ClipGoes, ClipFails
<1> QED
  BY <1>1, <1>2 DEF VideoHandler

LEMMA JobsStepQueue ==
    ASSUME QueueTypeOK, [JobsNext]_jobsVars
    PROVE  [QueueNext]_queueVars
<1>1. CASE PlainStep
  BY <1>1 DEF PlainStep, QueueNext
<1>2. CASE MediaStep
  <2>1. CASE Submit \/ AskRedownload \/ \E t \in MediaTasks : NoteCancelled(t)
    BY <2>1 DEF Submit, AskRedownload, NoteCancelled
  <2>2. CASE CreateMedia
    <3>1. PICK t \in Tasks : CreateTask(t)
      BY <2>2, MediaConstants DEF CreateMedia
    <3> QED
      BY <3>1 DEF QueueNext
  <2>3. CASE SubmitterDies \/ \E t \in MediaTasks : NoterDies(t)
    <3>1. CardLost
      BY <2>3 DEF SubmitterDies, NoterDies
    <3>2. used.deaths + 1 \in 0 .. MaxDeaths
      BY <3>1, Constants DEF CardLost, QueueTypeOK
    <3>3. SpentElsewhere
      BY <3>1, <3>2 DEF CardLost, SpentElsewhere, QueueTypeOK
    <3> QED
      BY <3>3 DEF QueueNext
  <2>4. CASE \E k \in Workers : MediaHandler(k)
    BY <2>4, MediaHandlerStep, HandlerStep
  <2> QED
    BY <1>2, <2>1, <2>2, <2>3, <2>4 DEF MediaStep
<1>3. CASE VideoStep
  <2>1. CASE VideoResumeLooks \/ VideoResumeReserves
    BY <2>1, VideoConstants DEF VideoResumeLooks, VideoResumeReserves, QueueNext
  <2>2. CASE ReleaseUnknown
    <3>1. used.requests + 1 \in 0 .. MaxRequests
      BY <2>2, Constants DEF ReleaseUnknown, Asks, QueueTypeOK
    <3>2. SpentElsewhere
      BY <2>2, <3>1 DEF ReleaseUnknown, Asks, SpentElsewhere, QueueTypeOK
    <3> QED
      BY <3>2 DEF QueueNext
  <2>3. CASE \E k \in Workers : VideoHandler(k)
    BY <2>3, VideoHandlerStep, HandlerStep
  <2> QED
    BY <1>3, <2>1, <2>2, <2>3 DEF VideoStep
<1>4. CASE \E t \in Tasks : CancelTask(t) \/ ApiCrash(t)
  BY <1>4 DEF CancelTask, ApiCrash, QueueNext
<1>5. CASE \E k \in Workers : WorkerCrash(k) \/ RowFails(k)
  BY <1>5 DEF WorkerCrash, RowFails, QueueNext
<1>6. CASE UNCHANGED jobsVars
  BY <1>6 DEF jobsVars
<1> QED
  BY <1>1, <1>2, <1>3, <1>4, <1>5, <1>6 DEF JobsNext

(* With its handlers, the routes and the owner at work the queue is still  *)
(* the queue: the composition of workers/index.ts implements TaskQueue.    *)
THEOREM JobsImplementTheQueue == JobsSpec => QueueSpec
<1>1. JobsInit => QueueInit
  BY DEF JobsInit
<1>2. QueueInit => QueueInv
  BY QueueInitInv
<1>3. QueueInv => QueueTypeOK
  BY DEF QueueInv
<1>4. QueueInv /\ [JobsNext]_jobsVars => [QueueNext]_queueVars
  BY <1>3, JobsStepQueue
<1>5. QueueInv /\ [JobsNext]_jobsVars => QueueInv'
  BY <1>4, QueueInvStep
<1> QED
  BY <1>1, <1>2, <1>4, <1>5, PTL DEF JobsSpec, QueueSpec

(* With the handlers at work, an open task is still on its way, but for    *)
(* what the API or a failed statement (bullmq-queue.ts, outside the try of *)
(* a handler or in its catch) has stranded.                                *)
THEOREM JobsAreDelivered == JobsSpec => []OpenTaskIsDelivered
  BY JobsImplementTheQueue, OpenTasksAreDelivered, PTL

(* With the handlers at work, a task still has one worker at a time.       *)
THEOREM JobsHaveOneWorker == JobsSpec => []OneWorkerPerTask
  BY JobsImplementTheQueue, TasksHaveOneWorker, PTL

(* With the handlers at work, a task still lives one life.                 *)
THEOREM JobsLiveTheirLife == JobsSpec => LifeOfTasks
  BY JobsImplementTheQueue, RowsLiveTheirLife, PTL
-----------------------------------------------------------------------------
(* Videos.                                                                 *)

AtVideo(k) == slot[k].at = "handling" /\ slot[k].task = Video

(* Whoever is at the clips has the session lock.                           *)
LockHeld == \A k \in Workers : stage[k] # "start" => AtVideo(k) /\ lock = k

ClipOK(r) ==
    /\ r.paid <= 1 + r.forgiven
    /\ r.vendor = "none" \/ r.output = "retrySafe" => r.paid <= r.forgiven
    /\ r.output = "asset" => r.vendor = "known"

(* What the place of a clip in a handler says about its row.               *)
PlaceOK(p, r) ==
    /\ p = "todo" => r.vendor # Unknown
    /\ p = "submit" => r.vendor = "none" /\ r.output = "none"
    /\ p = "claimed" => r.vendor = Unknown /\ r.output = "none" /\ r.paid <= r.forgiven
    /\ p = "sent" => r.vendor = Unknown /\ r.output = "none"
    /\ p \in {"poll", "download"} => r.vendor = "known" /\ r.output = "none"
    /\ p \in {"meter", "check", "done"} => r.output = "asset"
    /\ p \in {"check", "done"} => r.metered

VideoInv ==
    /\ VideoTypeOK /\ LockHeld
    /\ \A c \in Clips : ClipOK(clip[c])
    /\ \A k \in Workers : stage[k] = "clips" =>
           ~final /\ \A c \in Clips : PlaceOK(place[k][c], clip[c])
    /\ \A k \in Workers : stage[k] = "start" => \A c \in Clips : place[k][c] = "todo"
    /\ final => \A c \in Clips : clip[c].output = "asset" /\ clip[c].metered

LEMMA VideoInitInv == VideoInit => VideoInv
<1> SUFFICES ASSUME VideoInit PROVE VideoInv
  OBVIOUS
<1>1. NewClip \in ClipRecords /\ ClipOK(NewClip)
  BY DEF NewClip, ClipRecords, ClipOK
<1>2. VideoTypeOK
  BY <1>1 DEF VideoInit, VideoTypeOK, ClipPlaces, Stages
<1> QED
  BY <1>1, <1>2 DEF VideoInit, VideoInv, LockHeld

(* One clip moves, in the handler that has the lock.                       *)
LEMMA OneClip ==
    ASSUME VideoInv, NEW k \in Workers, NEW c \in Clips, stage[k] = "clips",
           NEW r \in ClipRecords, NEW p \in ClipPlaces,
           clip' = [clip EXCEPT ![c] = r], place' = [place EXCEPT ![k][c] = p],
           failure' \in [Workers -> BOOLEAN],
           slot' = slot, lock' = lock, final' = final, stage' = stage,
           ClipOK(r), PlaceOK(p, r)
    PROVE  VideoInv'
<1>1. place \in [Workers -> [Clips -> ClipPlaces]] /\ clip \in [Clips -> ClipRecords]
  BY DEF VideoInv, VideoTypeOK
<1>2. place' \in [Workers -> [Clips -> ClipPlaces]] /\ clip' \in [Clips -> ClipRecords]
  BY <1>1
<1>3. VideoTypeOK' /\ LockHeld'
  BY <1>2 DEF VideoInv, VideoTypeOK, LockHeld, AtVideo
<1>4. \A d \in Clips : clip'[d] = IF d = c THEN r ELSE clip[d]
  BY <1>1
<1>5. \A d \in Clips : place'[k][d] = IF d = c THEN p ELSE place[k][d]
  BY <1>1
<1>6. \A j \in Workers : stage'[j] = "clips" => j = k
  BY DEF VideoInv, LockHeld
<1>7. ~final
  BY DEF VideoInv
<1>8. \A d \in Clips : ClipOK(clip'[d])
  BY <1>4 DEF VideoInv
<1>9. \A d \in Clips : PlaceOK(place'[k][d], clip'[d])
  BY <1>4, <1>5 DEF VideoInv
<1>10. \A j \in Workers \ {k} : place'[j] = place[j]
  BY <1>1
<1> QED
  BY <1>3, <1>6, <1>7, <1>8, <1>9, <1>10 DEF VideoInv

LEMMA ClipStepInv ==
    ASSUME VideoInv, NEW k \in Workers, NEW c \in Clips, ClipStep(k, c)
    PROVE  VideoInv'
<1> DEFINE r == clip[c]
<1>1. /\ VideoAt(k, "clips") /\ stage[k] = "clips" /\ slot' = slot /\ lock' = lock
      /\ final' = final /\ stage' = stage
  BY DEF ClipStep, ClipBegins, ClipStops, ClipClaims, ClipSends, ClipStores, ClipPolls,
         ClipDownloads, ClipMeters, ClipChecks, ClipGoes, ClipFails, ClipAt, VideoAt, queueVars
<1>2. r \in ClipRecords /\ ClipOK(r) /\ PlaceOK(place[k][c], r)
  BY <1>1 DEF VideoInv, VideoTypeOK
<1>3. /\ r.paid \in Nat /\ r.forgiven \in Nat /\ r.metered \in BOOLEAN
      /\ r.vendor \in {"none", Unknown, "known"} /\ r.output \in {"none", "retrySafe", "asset"}
  BY <1>2 DEF ClipRecords
<1>4. clip = [clip EXCEPT ![c] = r] /\ failure \in [Workers -> BOOLEAN]
  BY DEF VideoInv, VideoTypeOK
<1>5. ASSUME NEW n \in ClipRecords, NEW p \in ClipPlaces, ClipBecomes(c, n),
             ClipGoes(k, c, p) \/ (ClipFails(k, c) /\ p = "failed"), ClipOK(n), PlaceOK(p, n)
      PROVE  VideoInv'
  <2>1. failure' \in [Workers -> BOOLEAN]
    BY <1>4, <1>5 DEF ClipGoes, ClipFails
  <2> QED
    BY <1>1, <1>5, <2>1, OneClip DEF ClipBecomes, ClipGoes, ClipFails
<1>6. ASSUME clip' = clip, NEW p \in ClipPlaces, PlaceOK(p, r),
             ClipGoes(k, c, p) \/ (ClipFails(k, c) /\ p = "failed")
      PROVE  VideoInv'
  <2>1. ClipBecomes(c, r)
    BY <1>4, <1>6 DEF ClipBecomes
  <2> QED
    BY <1>2, <1>5, <1>6, <2>1
<1>7. /\ {"todo", "submit", "claimed", "sent", "poll", "download", "meter", "check",
           "done", "failed"} \subseteq ClipPlaces
      /\ \A n \in ClipRecords : PlaceOK("failed", n)
  BY DEF ClipPlaces, PlaceOK
<1>u. Unknown # "none" /\ Unknown # "known"
  BY DEF Unknown
<1>10. CASE ClipBegins(k, c)
  <2>1. place[k][c] = "todo" /\ r.vendor # Unknown
    BY <1>2, <1>10 DEF ClipBegins, ClipAt, PlaceOK
  <2>2. Fresh(c) \in ClipRecords /\ ClipOK(Fresh(c))
    BY <1>2, <1>3 DEF Fresh, ClipRecords, ClipOK
  <2>3. CASE r.output = "asset"
    <3>1. Fresh(c) = r
      BY <2>3 DEF Fresh
    <3> QED
      BY <1>5, <1>7, <1>10, <2>2, <2>3, <3>1 DEF ClipBegins, PlaceOK
  <2>4. CASE r.output # "asset" /\ Fresh(c).vendor = "none"
    <3>1. Fresh(c).output = "none"
      BY <1>2, <1>3, <2>4 DEF Fresh, ClipRecords
    <3> QED
      BY <1>5, <1>7, <1>10, <2>2, <2>4, <3>1 DEF ClipBegins, PlaceOK
  <2>5. CASE r.output # "asset" /\ Fresh(c).vendor # "none"
    <3>1. Fresh(c) = r /\ r.output = "none" /\ r.vendor = "known"
      BY <1>2, <1>3, <2>1, <2>5 DEF Fresh, ClipRecords
    <3> QED
      BY <1>5, <1>7, <1>10, <2>2, <2>5, <3>1 DEF ClipBegins, PlaceOK
  <2> QED
    BY <2>3, <2>4, <2>5
<1>11. CASE ClipStops(k, c)
  BY <1>2, <1>6, <1>7, <1>11 DEF ClipStops
<1>12. CASE ClipClaims(k, c)
  <2> DEFINE n == [r EXCEPT !.vendor = Unknown]
  <2>1. n \in ClipRecords /\ ClipOK(n) /\ PlaceOK("claimed", n)
    BY <1>2, <1>3, <1>12 DEF ClipClaims, ClipAt, ClipRecords, ClipOK, PlaceOK, Unknown
  <2> QED
    BY <1>5, <1>7, <1>12, <2>1 DEF ClipClaims
<1>13. CASE ClipSends(k, c)
  <2> DEFINE n == [r EXCEPT !.paid = r.paid + 1]
             m == [r EXCEPT !.vendor = "none"]
  <2>1. r.vendor = Unknown /\ r.output = "none" /\ r.paid <= r.forgiven
    BY <1>2, <1>13 DEF ClipSends, ClipAt, PlaceOK
  <2>2. r.paid + 1 \in Nat /\ r.paid + 1 <= 1 + r.forgiven
    BY <1>3, <2>1
  <2>3. n \in ClipRecords
    BY <1>2, <2>2 DEF ClipRecords
  <2>4. n.paid = r.paid + 1 /\ n.forgiven = r.forgiven /\ n.vendor = r.vendor /\ n.output = r.output
    BY <1>2 DEF ClipRecords
  <2>5. ClipOK(n) /\ PlaceOK("sent", n)
    BY <2>1, <2>2, <2>4, <1>u DEF ClipOK, PlaceOK
  <2>6. m \in ClipRecords /\ ClipOK(m)
    BY <1>2, <1>3, <2>1 DEF ClipRecords, ClipOK
  <2> QED
    BY <1>5, <1>7, <1>13, <2>3, <2>5, <2>6 DEF ClipSends
<1>14. CASE ClipStores(k, c)
  <2> DEFINE n == [r EXCEPT !.vendor = "known"]
  <2>1. n \in ClipRecords /\ ClipOK(n) /\ PlaceOK("poll", n)
    BY <1>2, <1>3, <1>14 DEF ClipStores, ClipAt, ClipRecords, ClipOK, PlaceOK
  <2> QED
    BY <1>5, <1>7, <1>14, <2>1 DEF ClipStores
<1>m. MadeAgain(c) \in ClipRecords /\ ClipOK(MadeAgain(c))
  <2>1. r.forgiven + 1 \in Nat
    BY <1>3
  <2>2. MadeAgain(c) \in ClipRecords
    BY <1>2, <2>1 DEF MadeAgain, ClipRecords
  <2>3. /\ MadeAgain(c).paid = r.paid /\ MadeAgain(c).forgiven = r.forgiven + 1
        /\ MadeAgain(c).output = "retrySafe"
    BY <1>2 DEF MadeAgain, ClipRecords
  <2>4. r.paid <= r.forgiven + 1 /\ r.paid <= 1 + (r.forgiven + 1)
    BY <1>2, <1>3 DEF ClipOK
  <2> QED
    BY <2>2, <2>3, <2>4 DEF ClipOK
<1>15. CASE ClipPolls(k, c)
  <2>1. r.vendor = "known" /\ r.output = "none"
    BY <1>2, <1>15 DEF ClipPolls, ClipAt, PlaceOK
  <2>2. PlaceOK("download", r)
    BY <2>1 DEF PlaceOK
  <2> QED
    BY <1>5, <1>6, <1>7, <1>15, <1>m, <2>1, <2>2 DEF ClipPolls
<1>16. CASE ClipDownloads(k, c)
  <2> DEFINE n == [r EXCEPT !.output = "asset"]
  <2>1. n \in ClipRecords /\ ClipOK(n) /\ PlaceOK("meter", n)
    BY <1>2, <1>3, <1>16 DEF ClipDownloads, ClipAt, ClipRecords, ClipOK, PlaceOK
  <2> QED
    BY <1>5, <1>7, <1>16, <2>1 DEF ClipDownloads
<1>17. CASE ClipMeters(k, c)
  <2> DEFINE n == [r EXCEPT !.metered = TRUE]
  <2>1. n \in ClipRecords /\ ClipOK(n) /\ PlaceOK("check", n)
    BY <1>2, <1>3, <1>17 DEF ClipMeters, ClipAt, ClipRecords, ClipOK, PlaceOK
  <2> QED
    BY <1>5, <1>7, <1>17, <2>1 DEF ClipMeters
<1>18. CASE ClipChecks(k, c)
  <2>1. r.output = "asset" /\ r.metered
    BY <1>2, <1>18 DEF ClipChecks, ClipAt, PlaceOK
  <2>2. PlaceOK("done", r)
    BY <2>1 DEF PlaceOK
  <2> QED
    BY <1>5, <1>6, <1>7, <1>18, <1>m, <2>1, <2>2 DEF ClipChecks
<1> QED
  BY <1>10, <1>11, <1>12, <1>13, <1>14, <1>15, <1>16, <1>17, <1>18 DEF ClipStep

(* A handler that ends, or dies, lets go of its lock and its clips.        *)
LEMMA HandlerGone ==
    ASSUME VideoInv, NEW k \in Workers, ClearSlot(k), clip' = clip, final' = final,
           \A j \in Workers \ {k} : slot'[j] = slot[j]
    PROVE  VideoInv'
<1>1. /\ stage \in [Workers -> Stages] /\ place \in [Workers -> [Clips -> ClipPlaces]]
      /\ failure \in [Workers -> BOOLEAN] /\ lock \in Workers \union {NoWorker}
  BY DEF VideoInv, VideoTypeOK
<1>2. [c \in Clips |-> "todo"] \in [Clips -> ClipPlaces] /\ "start" \in Stages
  BY DEF ClipPlaces, Stages
<1>3. VideoTypeOK'
  BY <1>1, <1>2 DEF ClearSlot, VideoInv, VideoTypeOK
<1>4. stage'[k] = "start"
  BY <1>1 DEF ClearSlot
<1>5. \A j \in Workers \ {k} : stage'[j] = stage[j] /\ place'[j] = place[j]
  BY <1>1 DEF ClearSlot
<1>6. \A j \in Workers \ {k} : lock = j => lock' = j
  BY DEF ClearSlot
<1>7. LockHeld'
  BY <1>4, <1>5, <1>6 DEF VideoInv, LockHeld, AtVideo
<1>8. place'[k] = [c \in Clips |-> "todo"]
  BY <1>1 DEF ClearSlot
<1> QED
  BY <1>3, <1>4, <1>5, <1>7, <1>8 DEF VideoInv

LEMMA VideoStepInv ==
    ASSUME VideoInv, QueueTypeOK, VideoStep
    PROVE  VideoInv'
<1>t. clip \in [Clips -> ClipRecords] /\ slot \in [Workers -> Slots]
      /\ stage \in [Workers -> Stages] /\ place \in [Workers -> [Clips -> ClipPlaces]]
  BY DEF VideoInv, VideoTypeOK, QueueTypeOK
<1>e. ASSUME NEW k \in Workers, NEW out, VideoEnds(k, out), clip' = clip, final' = final
      PROVE  VideoInv'
  <2>1. \A j \in Workers \ {k} : slot'[j] = slot[j]
    BY <1>e, <1>t DEF VideoEnds, HandlerEnds
  <2> QED
    BY <1>e, <2>1, HandlerGone DEF VideoEnds
<1>1. ASSUME NEW k \in Workers, VideoStart(k) PROVE VideoInv'
  <2>1. CASE \E out \in {"returned", "threw"} : VideoEnds(k, out)
    BY <1>1, <1>e, <2>1 DEF VideoStart
  <2>2. CASE ~\E out \in {"returned", "threw"} : VideoEnds(k, out)
    <3>1. /\ lock = NoWorker /\ ~final /\ ~AnyUnknown /\ AtVideo(k)
          /\ lock' = k /\ stage' = [stage EXCEPT ![k] = "clips"] /\ stage[k] = "start"
          /\ slot' = slot /\ place' = place /\ failure' = failure
          /\ clip' = clip /\ final' = final
      BY <1>1, <2>2 DEF VideoStart, VideoAt, AtVideo, queueVars
    <3>2. \A j \in Workers : stage[j] = "start"
      BY <3>1, Constants DEF VideoInv, LockHeld
    <3>3. stage' \in [Workers -> Stages] /\ \A j \in Workers \ {k} : stage'[j] = "start"
      BY <1>t, <3>1, <3>2 DEF Stages
    <3>4. VideoTypeOK' /\ LockHeld'
      BY <3>1, <3>3 DEF VideoInv, VideoTypeOK, LockHeld, AtVideo
    <3>5. \A c \in Clips : clip[c].vendor # Unknown
      BY <3>1 DEF AnyUnknown, RecoveryAction
    <3>6. stage'[k] = "clips"
      BY <1>t, <3>1
    <3>7. \A c \in Clips : PlaceOK(place'[k][c], clip'[c])
      BY <3>1, <3>5 DEF VideoInv, PlaceOK
    <3> QED
      BY <3>1, <3>2, <3>3, <3>4, <3>6, <3>7 DEF VideoInv
  <2> QED
    BY <2>1, <2>2
<1>2. ASSUME NEW k \in Workers, ClipsFail(k) \/ VideoReturns(k) PROVE VideoInv'
  BY <1>2, <1>e DEF ClipsFail, VideoReturns
<1>3. ASSUME NEW k \in Workers, Compose(k) PROVE VideoInv'
  <2>1. CASE VideoEnds(k, "threw") /\ UNCHANGED final
    BY <1>3, <1>e, <2>1 DEF Compose
  <2>2. CASE ~(VideoEnds(k, "threw") /\ UNCHANGED final)
    <3>1. /\ stage[k] = "clips" /\ \A c \in Clips : place[k][c] = "done"
          /\ final' = TRUE /\ stage' = [stage EXCEPT ![k] = "stored"]
          /\ slot' = slot /\ lock' = lock /\ place' = place /\ failure' = failure /\ clip' = clip
      BY <1>3, <2>2 DEF Compose, VideoAt, queueVars
    <3>2. \A c \in Clips : clip[c].output = "asset" /\ clip[c].metered
      BY <3>1 DEF VideoInv, PlaceOK
    <3>3. \A j \in Workers \ {k} : stage[j] = "start"
      BY <3>1 DEF VideoInv, LockHeld
    <3>4. stage' \in [Workers -> Stages] /\ \A j \in Workers : stage'[j] # "clips"
      BY <1>t, <3>1, <3>3 DEF Stages
    <3>5. VideoTypeOK' /\ LockHeld'
      BY <1>t, <3>1, <3>4 DEF VideoInv, VideoTypeOK, LockHeld, AtVideo
    <3> QED
      BY <3>1, <3>2, <3>4, <3>5 DEF VideoInv
  <2> QED
    BY <2>1, <2>2
<1>4. CASE VideoResumeLooks \/ VideoResumeReserves
  <2>1. slot' = slot /\ UNCHANGED videoVars
    BY <1>4 DEF VideoResumeLooks, VideoResumeReserves, ResumeLooks, ResumeReserves, ResumeRefused
  <2>2. VideoTypeOK' /\ LockHeld'
    BY <2>1 DEF videoVars, VideoInv, VideoTypeOK, LockHeld, AtVideo
  <2> QED
    BY <2>1, <2>2 DEF videoVars, VideoInv
<1>5. CASE ReleaseUnknown
  <2>1. /\ lock = NoWorker /\ slot' = slot /\ lock' = lock /\ final' = final
        /\ stage' = stage /\ place' = place /\ failure' = failure
        /\ clip' = [c \in Clips |->
               IF RecoveryAction(c) = Unknown THEN [MadeAgain(c) EXCEPT !.vendor = "none"] ELSE clip[c]]
    BY <1>5 DEF ReleaseUnknown
  <2>2. \A j \in Workers : stage[j] = "start"
    BY <2>1, Constants DEF VideoInv, LockHeld
  <2>3. ASSUME NEW c \in Clips
        PROVE  /\ clip'[c] \in ClipRecords /\ ClipOK(clip'[c])
               /\ clip[c].output = "asset" => clip'[c] = clip[c]
    <3>1. clip[c] \in ClipRecords /\ ClipOK(clip[c])
      BY <1>t DEF VideoInv
    <3>2. CASE RecoveryAction(c) # Unknown
      BY <2>1, <3>1, <3>2
    <3>3. CASE RecoveryAction(c) = Unknown
      <4>1. clip[c].vendor = Unknown
        BY <3>3 DEF RecoveryAction, Unknown
      <4>2. clip[c].output # "asset"
        BY <3>1, <4>1 DEF ClipOK, Unknown
      <4>3. clip[c].paid \in Nat /\ clip[c].forgiven \in Nat /\ clip[c].forgiven + 1 \in Nat
        BY <3>1 DEF ClipRecords
      <4>4. clip'[c] = [MadeAgain(c) EXCEPT !.vendor = "none"]
        BY <2>1, <3>3
      <4>5. clip'[c] \in ClipRecords
        BY <3>1, <4>3, <4>4 DEF MadeAgain, ClipRecords
      <4>6. /\ clip'[c].paid = clip[c].paid /\ clip'[c].forgiven = clip[c].forgiven + 1
            /\ clip'[c].output = "retrySafe"
        BY <3>1, <4>4 DEF MadeAgain, ClipRecords
      <4>7. clip[c].paid <= clip[c].forgiven + 1 /\ clip[c].paid <= 1 + (clip[c].forgiven + 1)
        BY <3>1, <4>3 DEF ClipOK
      <4> QED
        BY <4>2, <4>5, <4>6, <4>7 DEF ClipOK
    <3> QED
      BY <3>2, <3>3
  <2>4. clip' \in [Clips -> ClipRecords]
    BY <2>1, <2>3
  <2>5. VideoTypeOK' /\ LockHeld'
    BY <2>1, <2>4 DEF VideoInv, VideoTypeOK, LockHeld, AtVideo
  <2> QED
    BY <2>1, <2>2, <2>3, <2>5 DEF VideoInv
<1> QED
  BY <1>1, <1>2, <1>3, <1>4, <1>5, ClipStepInv DEF VideoStep, VideoHandler

(* Nothing but its own handler, or its death, takes a slot from a task.    *)
LEMMA KeepsHandling ==
    ASSUME QueueTypeOK, NEW j \in Workers, slot[j].at = "handling", QueueStep
    PROVE  slot'[j].at = "handling" /\ slot'[j].task = slot[j].task
<1> DEFINE Kept == slot'[j].at = "handling" /\ slot'[j].task = slot[j].task
<1>t. slot \in [Workers -> Slots]
  BY DEF QueueTypeOK
<1>s. ASSUME slot' = slot PROVE Kept
  BY <1>s
<1>o. ASSUME NEW k \in Workers, k # j, \A i \in Workers \ {k} : slot'[i] = slot[i]
      PROVE  Kept
  BY <1>o
<1>1. ASSUME NEW t \in Tasks,
             \/ Publish(t) \/ Deliver(t) \/ Diagnose(t) \/ StalledCheck(t) \/ Withdraw(t)
             \/ DeliverAgain(t)
      PROVE  Kept
  BY <1>1, <1>s DEF Publish, Deliver, Diagnose, StalledCheck, Withdraw, DeliverAgain
<1>2. ASSUME NEW k \in Workers, NEW t \in Tasks, Pick(k, t) PROVE Kept
  <2>1. k # j /\ \A i \in Workers \ {k} : slot'[i] = slot[i]
    BY <1>2, <1>t DEF Pick
  <2> QED
    BY <1>o, <2>1
<1>3. ASSUME NEW k \in Workers, LookActive(k) \/ Postpone(k) PROVE Kept
  <2>1. k # j
    BY <1>3, <1>t DEF LookActive, Postpone
  <2>2. \A i \in Workers \ {k} : slot'[i] = slot[i]
    <3>1. CASE LookActive(k)
      BY <1>t, <3>1 DEF LookActive
    <3>2. CASE Postpone(k)
      BY <1>t, <3>2 DEF Postpone, Free
    <3> QED
      BY <1>3, <3>1, <3>2
  <2> QED
    BY <1>o, <2>1, <2>2
<1>4. ASSUME NEW k \in Workers, Claim(k) PROVE Kept
  <2>1. k # j
    BY <1>4, <1>t DEF Claim
  <2>2. \A i \in Workers \ {k} : slot'[i] = slot[i]
    BY <1>4, Moving DEF Claim, Outcomes
  <2> QED
    BY <1>o, <2>1, <2>2
<1>5. ASSUME NEW k \in Workers, Observe(k) PROVE Kept
  <2>1. k # j
    BY <1>5, <1>t DEF Observe
  <2>2. \A i \in Workers \ {k} : slot'[i] = slot[i]
    BY <1>5, Moving DEF Observe, Outcomes
  <2> QED
    BY <1>o, <2>1, <2>2
<1>6. ASSUME NEW k \in Workers, Notice(k) PROVE Kept
  BY <1>6, <1>t DEF Notice, Slots
<1>7. ASSUME NEW k \in Workers, Record(k) PROVE Kept
  <2>1. k # j
    BY <1>7, <1>t DEF Record
  <2>2. slot[k].out \in Outcomes /\ "retry" \in Outcomes
    BY <1>t DEF Slots, Outcomes
  <2>3. \A i \in Workers \ {k} : slot'[i] = slot[i]
    BY <1>7, <2>2, Moving DEF Record
  <2> QED
    BY <1>o, <2>1, <2>3
<1>8. ASSUME NEW k \in Workers, Ack(k) PROVE Kept
  <2>1. k # j /\ \A i \in Workers \ {k} : slot'[i] = slot[i]
    BY <1>8, <1>t DEF Ack, Free
  <2> QED
    BY <1>o, <2>1
<1>9. ASSUME NEW k \in Workers, LockLapses(k) PROVE Kept
  BY <1>9, <1>s DEF LockLapses
<1>10. ASSUME NEW k \in Workers, Breaks(k) PROVE Kept
  <2>1. k # j /\ \A i \in Workers \ {k} : slot'[i] = slot[i]
    BY <1>10, FailingStep DEF Failing
  <2> QED
    BY <1>o, <2>1
<1> QED
  BY <1>1, <1>2, <1>3, <1>4, <1>5, <1>6, <1>7, <1>8, <1>9, <1>10 DEF QueueStep

LEMMA StaysHandling ==
    ASSUME QueueTypeOK, NEW j \in Workers, slot[j].at = "handling", slot[j].task \in Modelled,
           PlainStep \/ \E t \in Tasks : CancelTask(t) \/ ApiCrash(t)
    PROVE  slot'[j].at = "handling" /\ slot'[j].task = slot[j].task
<1>1. CASE QueueStep
  BY <1>1, KeepsHandling
<1>2. CASE \E t \in Tasks : \/ CreateTask(t) \/ ResumeLooks(t) \/ ResumeReserves(t)
                            \/ ResumeRefused(t)
  BY <1>2 DEF CreateTask, ResumeLooks, ResumeReserves, ResumeRefused
<1>3. ASSUME NEW k \in Workers, NEW out \in HandlerOutcomes,
             slot[k].task \notin Modelled, HandlerEnds(k, out)
      PROVE  slot'[j].at = "handling" /\ slot'[j].task = slot[j].task
  BY <1>3 DEF HandlerEnds, QueueTypeOK
<1>4. CASE \E t \in Tasks : CancelTask(t) \/ ApiCrash(t)
  BY <1>4 DEF CancelTask, ApiCrash, Cancel, ApiDies
<1> QED
  BY <1>1, <1>2, <1>3, <1>4 DEF PlainStep

LEMMA MediaAtItsTask ==
    ASSUME NEW k \in Workers, MediaHandler(k)
    PROVE  slot[k].at = "handling" /\ slot[k].task \in MediaTasks
  BY DEF MediaHandler, GenStart, GenFails, Untold, GenCreate, GenStores, GenPolls, RedoStart,
         Downloads, Meters, Caches, Completes, FinishFails, Downloading, At, MediaTasks

LEMMA StaysAtVideo ==
    ASSUME QueueTypeOK, NEW j \in Workers, AtVideo(j),
           PlainStep \/ MediaStep \/ \E t \in Tasks : CancelTask(t) \/ ApiCrash(t)
    PROVE  AtVideo(j)'
<1>1. CASE PlainStep \/ \E t \in Tasks : CancelTask(t) \/ ApiCrash(t)
  BY <1>1, StaysHandling DEF AtVideo, Modelled
<1>2. CASE \/ Submit \/ AskRedownload \/ CreateMedia \/ SubmitterDies
           \/ \E t \in MediaTasks : NoteCancelled(t) \/ NoterDies(t)
  BY <1>2 DEF Submit, AskRedownload, CreateMedia, CreateTask, SubmitterDies, NoteCancelled,
              NoterDies, CardLost, queueVars, AtVideo
<1>3. ASSUME NEW k \in Workers, MediaHandler(k) PROVE AtVideo(j)'
  <2>1. slot[k].task # Video
    BY <1>3, MediaAtItsTask, VideoConstants
  <2>2. CASE UNCHANGED queueVars
    BY <2>2 DEF queueVars, AtVideo
  <2>3. ASSUME NEW out, HandlerEnds(k, out) PROVE AtVideo(j)'
    BY <2>1, <2>3 DEF HandlerEnds, AtVideo, QueueTypeOK
  <2> QED
    BY <1>3, <2>2, <2>3, MediaHandlerStep
<1> QED
  BY <1>1, <1>2, <1>3 DEF MediaStep

(* A look that fails sends a worker to the outcome, and an outcome that is *)
(* not written becomes another one or none: the videos know nothing of it. *)
LEMMA RowFailsStep ==
    ASSUME QueueTypeOK, NEW k \in Workers, RowFails(k)
    PROVE  /\ row' = row /\ used'.lapses = used.lapses
           /\ UNCHANGED <<card, submitting, noting, vendor, billed, step>> /\ UNCHANGED videoVars
           /\ \A j \in Workers \ {k} : slot'[j] = slot[j]
           /\ slot[k].at \in {"claimed", "ended"} /\ slot'[k].at \in {"ended", "acking"}
           /\ slot'[k].task = slot[k].task /\ slot'[k].out # "returned"
<1>1. Failing(k) /\ MediaUnwritten(k) /\ UNCHANGED videoVars
  BY DEF RowFails, Failing
<1>2. used'.lapses = used.lapses /\ slot[k].at \in {"claimed", "ended"}
  <2>1. used' = [used EXCEPT !.deaths = @ + 1]
    BY <1>1, FailingStep
  <2>2. slot[k].at \in {"claimed", "ended"}
    BY DEF RowFails, LookFails, ResultFails, RecordFails
  <2> QED
    BY <2>1, <2>2 DEF QueueTypeOK
<1>3. UNCHANGED <<card, submitting, noting, vendor, billed, step>>
  BY <1>1 DEF MediaUnwritten
<1> QED
  BY <1>1, <1>2, <1>3, FailingStep

(* Of the media it touches what is lost only.                              *)
LEMMA RowFailsLoses ==
    ASSUME MediaTypeOK, NEW k \in Workers, RowFails(k)
    PROVE  /\ MediaTypeOK' /\ lost'.ids = lost.ids /\ (lost.card => lost'.card)
           /\ lost'.charges = IF slot[k].task \in MediaTasks /\ Unrecorded(k) THEN lost.charges + 1
                              ELSE lost.charges
           /\ slot[k].at = "claimed" /\ slot[k].task \in MediaTasks /\ card = "generating" => lost'.card
<1>1. MediaUnwritten(k)
  BY DEF RowFails
<1>2. lost \in [ids : Nat, charges : Nat, card : BOOLEAN] /\ lost.charges + 1 \in Nat
  BY DEF MediaTypeOK
<1>3. lost' \in [ids : Nat, charges : Nat, card : BOOLEAN]
  BY <1>1, <1>2 DEF MediaUnwritten
<1>4. MediaTypeOK'
  BY <1>1, <1>3 DEF MediaUnwritten, MediaTypeOK
<1> QED
  BY <1>1, <1>2, <1>4 DEF MediaUnwritten

LEMMA VideoInvStep ==
    ASSUME VideoInv, QueueTypeOK, [JobsNext]_jobsVars
    PROVE  VideoInv'
<1>f. ASSUME UNCHANGED videoVars, \A j \in Workers : AtVideo(j) => AtVideo(j)'
      PROVE  VideoInv'
  <2>1. VideoTypeOK'
    BY <1>f DEF videoVars, VideoInv, VideoTypeOK
  <2>2. LockHeld'
    BY <1>f DEF videoVars, VideoInv, LockHeld
  <2> QED
    BY <1>f, <2>1, <2>2 DEF videoVars, VideoInv
<1>1. CASE PlainStep
  BY <1>1, <1>f, StaysAtVideo DEF PlainStep
<1>2. CASE MediaStep /\ UNCHANGED videoVars
  BY <1>2, <1>f, StaysAtVideo
<1>3. CASE VideoStep
  BY <1>3, VideoStepInv
<1>4. CASE \E t \in Tasks : CancelTask(t) \/ ApiCrash(t)
  BY <1>4, <1>f, StaysAtVideo DEF CancelTask, ApiCrash
<1>5. ASSUME NEW k \in Workers, WorkerCrash(k) PROVE VideoInv'
  <2>1. \A j \in Workers \ {k} : slot'[j] = slot[j]
    BY <1>5 DEF WorkerCrash, WorkerDies, Free, QueueTypeOK
  <2> QED
    BY <1>5, <2>1, HandlerGone DEF WorkerCrash, VideoDies
<1>6. CASE UNCHANGED jobsVars
  BY <1>6, <1>f DEF jobsVars, queueVars, AtVideo
<1>7. ASSUME NEW k \in Workers, RowFails(k) PROVE VideoInv'
  <2>1. \A j \in Workers : AtVideo(j) => AtVideo(j)'
    BY <1>7, RowFailsStep DEF AtVideo
  <2> QED
    BY <1>7, <1>f, <2>1, RowFailsStep
<1> QED
  BY <1>1, <1>2, <1>3, <1>4, <1>5, <1>6, <1>7 DEF JobsNext

(* However often a video is crashed, cancelled, continued and delivered,   *)
(* with however many clips and workers, and with locks that lapse: a clip  *)
(* is paid for once, and once more for each time the owner or the vendor's *)
(* failure allowed it, and a video that is there was billed (run.ts).      *)
THEOREM ClipsArePaidAndBilled == JobsSpec => []ClipsPaidAndBilled
<1>1. JobsInit => VideoInv
  BY VideoInitInv DEF JobsInit
<1>2. QueueTypeOK /\ VideoInv /\ [JobsNext]_jobsVars => VideoInv'
  BY VideoInvStep
<1>3. VideoInv => ClipsPaidAndBilled
  BY DEF VideoInv, ClipsPaidAndBilled, ClipOK
<1>4. JobsSpec => []QueueTypeOK
  BY JobsImplementTheQueue, QueueTypeCorrect, PTL
<1> QED
  BY <1>1, <1>2, <1>3, <1>4, PTL DEF JobsSpec
-----------------------------------------------------------------------------
(* Generated media.                                                        *)

AtMedia(k) == slot[k].at = "handling" /\ slot[k].task \in MediaTasks

(* On its way to the vendor, or back from it with an id not yet stored.    *)
Creating(k) == step[k] \in {"ready", "created"}

(* A step is that of a handler at work.                                    *)
StepsFit == \A k \in Workers :
    /\ step[k] # "start" => AtMedia(k)
    /\ Creating(k) => slot[k].task = Generation

(* The vendor made one task for each id that was lost, and one more when   *)
(* its id is with the row or in the hands of the one who asked.            *)
IdsAccountedFor == used.lapses = 0 =>
    /\ vendor.made <= 1 + lost.ids
    /\ vendor.known => \A k \in Workers : ~Creating(k)
    /\ ~vendor.known /\ (\A k \in Workers : step[k] # "created") => vendor.made <= lost.ids

MediaInv == MediaTypeOK /\ StepsFit /\ IdsAccountedFor

LEMMA MediaInitInv == MediaInit => MediaInv
  BY DEF MediaInit, MediaInv, MediaTypeOK, StepsFit, IdsAccountedFor, Creating, CardStatus, Steps

(* The next card is one of the cards there are.                            *)
LEMMA CardTypes ==
    ASSUME card \in CardStatus, NEW s \in CardStatus, CardBecomes(s)
    PROVE  card' \in CardStatus
  BY DEF CardBecomes

(* A handler of the card ends, or moves to another step of it.             *)
LEMMA MediaMoves ==
    ASSUME NEW k \in Workers, MediaHandler(k)
    PROVE  /\ \/ /\ UNCHANGED queueVars
                 /\ \E s \in Steps : step' = [step EXCEPT ![k] = s]
              \/ /\ \E out \in {"returned", "threw"} : HandlerEnds(k, out)
                 /\ step' = [step EXCEPT ![k] = "start"]
           /\ UNCHANGED <<submitting, noting>>
<1>s. {"start", "ready", "created", "polling", "downloading", "stored", "metered", "cached"} = Steps
  BY DEF Steps
<1>1. CASE GenStart(k) \/ GenFails(k) \/ Untold(k) \/ GenCreate(k)
  BY <1>1, <1>s DEF GenStart, GenFails, Untold, GenCreate, Stops, Gives, Ends, GoesTo
<1>2. CASE GenStores(k) \/ GenPolls(k) \/ RedoStart(k)
  BY <1>2, <1>s DEF GenStores, GenPolls, RedoStart, Stops, Ends, GoesTo
<1>3. CASE Downloads(k) \/ Meters(k) \/ Caches(k) \/ Completes(k)
  BY <1>3, <1>s DEF Downloads, Meters, Caches, Completes, Ends, GoesTo
<1>4. CASE FinishFails(k)
  BY <1>4, <1>s DEF FinishFails, Stops, Ends
<1> QED
  BY <1>1, <1>2, <1>3, <1>4 DEF MediaHandler

LEMMA MediaHandlerTypes ==
    ASSUME MediaTypeOK, NEW k \in Workers, MediaHandler(k)
    PROVE  MediaTypeOK'
<1>c. /\ {"none", "generating", "completed", "failed", "cancelled", "download_failed"} = CardStatus
      /\ card \in CardStatus
  BY DEF CardStatus, MediaTypeOK
<1>1. step' \in [Workers -> Steps] /\ submitting' = submitting /\ noting' = noting
  BY MediaMoves DEF MediaTypeOK, Steps
<1>2. card' \in CardStatus
  BY <1>c DEF MediaHandler, GenStart, GenFails, Untold, GenCreate, GenStores, GenPolls, RedoStart, Downloads,
              Meters, Caches, Completes, FinishFails, Stops, Gives, CardBecomes
<1>n. /\ vendor.made + 1 \in Nat /\ billed.charges + 1 \in Nat
      /\ lost.ids + 1 \in Nat /\ lost.charges + 1 \in Nat
  BY DEF MediaTypeOK
<1>3. vendor' \in [known : BOOLEAN, made : Nat]
  BY <1>n DEF MediaTypeOK, MediaHandler, GenStart, GenFails, Untold, GenCreate, GenStores, GenPolls, RedoStart,
              Downloads, Meters, Caches, Completes, FinishFails
<1>4. billed' \in [cached : BOOLEAN, charges : Nat]
  BY <1>n DEF MediaTypeOK, MediaHandler, GenStart, GenFails, Untold, GenCreate, GenStores, GenPolls, RedoStart,
              Downloads, Meters, Caches, Completes, FinishFails
<1>5. lost' \in [ids : Nat, charges : Nat, card : BOOLEAN]
  <2>f. Forgotten(k) \in [ids : Nat, charges : Nat, card : BOOLEAN]
    BY <1>n DEF MediaTypeOK, Forgotten
  <2>1. CASE GenFails(k) \/ Untold(k) \/ FinishFails(k)
    BY <2>f, <2>1 DEF MediaTypeOK, GenFails, Untold, FinishFails
  <2>2. CASE ~(GenFails(k) \/ Untold(k) \/ FinishFails(k))
    BY <1>n, <2>2 DEF MediaTypeOK, MediaHandler, GenStart, GenCreate, GenStores, GenPolls,
              RedoStart, Downloads, Meters, Caches, Completes, GoesTo
  <2> QED
    BY <2>1, <2>2
<1> QED
  BY <1>1, <1>2, <1>3, <1>4, <1>5 DEF MediaTypeOK

(* As long as no lock lapses, one slot works on the generation.            *)
LEMMA OneCreator ==
    ASSUME QueueInv, used.lapses = 0, NEW j \in Workers, NEW k \in Workers,
           slot[j].at = "handling", slot[k].at = "handling", slot[j].task = slot[k].task
    PROVE  j = k
  BY SlotsApart DEF QueueInv

LEMMA MediaHandlerInv ==
    ASSUME QueueInv, MediaInv, NEW k \in Workers, MediaHandler(k)
    PROVE  MediaInv'
<1>t. /\ step \in [Workers -> Steps] /\ slot \in [Workers -> Slots]
      /\ vendor \in [known : BOOLEAN, made : Nat]
      /\ lost \in [ids : Nat, charges : Nat, card : BOOLEAN]
  BY DEF MediaInv, MediaTypeOK, QueueInv, QueueTypeOK
<1>n. /\ vendor.made \in Nat /\ lost.ids \in Nat /\ vendor.known \in BOOLEAN
      /\ vendor.made + 1 \in Nat /\ lost.ids + 1 \in Nat
  BY <1>t
<1>a. AtMedia(k)
  BY MediaAtItsTask DEF AtMedia
<1>1. MediaTypeOK'
  BY MediaHandlerTypes DEF MediaInv
<1>o. \A j \in Workers \ {k} : step'[j] = step[j] /\ slot'[j] = slot[j]
  BY <1>t, MediaMoves DEF queueVars, HandlerEnds
<1>g. used' = used /\ (step'[k] # "start" => slot'[k] = slot[k])
  BY <1>t, MediaMoves DEF queueVars, HandlerEnds
<1>2. Creating(k)' => slot[k].task = Generation
  <2>1. CASE GenStart(k) \/ GenFails(k) \/ GenCreate(k) \/ GenStores(k) \/ GenPolls(k)
    BY <2>1 DEF GenStart, GenFails, GenCreate, GenStores, GenPolls, At
  <2>2. CASE RedoStart(k) \/ Downloads(k) \/ Meters(k) \/ Caches(k) \/ Completes(k)
    BY <1>t, <2>2 DEF RedoStart, Downloads, Meters, Caches, Completes, GoesTo, Stops, Ends, Creating
  <2>3. CASE FinishFails(k) \/ Untold(k)
    BY <1>t, <2>3 DEF FinishFails, Untold, Stops, Ends, Creating
  <2> QED
    BY <2>1, <2>2, <2>3 DEF MediaHandler
<1>3. StepsFit'
  BY <1>a, <1>o, <1>g, <1>2 DEF StepsFit, MediaInv, AtMedia, Creating
<1>4. ASSUME used.lapses = 0, slot[k].task = Generation, NEW j \in Workers, Creating(j)
      PROVE  j = k
  BY <1>4, <1>a, OneCreator DEF AtMedia, StepsFit, MediaInv, Creating
<1>5. ASSUME used.lapses = 0, NEW j \in Workers \ {k}, slot[k].task = Generation
      PROVE  ~Creating(j)'
  BY <1>4, <1>5, <1>o DEF Creating
<1>6. IdsAccountedFor'
  <2> SUFFICES ASSUME used.lapses = 0
               PROVE  /\ vendor'.made <= 1 + lost'.ids
                      /\ vendor'.known => \A j \in Workers : ~Creating(j)'
                      /\ ~vendor'.known /\ (\A j \in Workers : step'[j] # "created") =>
                             vendor'.made <= lost'.ids
    BY <1>g DEF IdsAccountedFor
  <2>1. /\ vendor.made <= 1 + lost.ids
        /\ vendor.known => \A j \in Workers : ~Creating(j)
        /\ ~vendor.known /\ (\A j \in Workers : step[j] # "created") => vendor.made <= lost.ids
    BY DEF IdsAccountedFor, MediaInv
  (* Steps that leave the vendor, the ids and who is creating alone.       *)
  <2>2. ASSUME vendor' = vendor, lost'.ids = lost.ids, ~Creating(k)', step[k] # "created"
        PROVE  /\ vendor'.made <= 1 + lost'.ids
               /\ vendor'.known => \A j \in Workers : ~Creating(j)'
               /\ ~vendor'.known /\ (\A j \in Workers : step'[j] # "created") =>
                      vendor'.made <= lost'.ids
    BY <2>1, <2>2, <1>o DEF Creating
  <2>3. CASE GenStart(k)
    <3>1. vendor' = vendor /\ lost' = lost /\ step[k] = "start" /\ slot[k].task = Generation
      BY <2>3 DEF GenStart, At, GoesTo
    <3>2. CASE ~Creating(k)'
      BY <2>2, <3>1, <3>2
    <3>3. CASE Creating(k)'
      <4>1. ~vendor.known /\ step'[k] = "ready"
        BY <2>3, <3>3, <1>t DEF GenStart, Created, GoesTo, Stops, Ends, Creating
      <4> QED
        BY <2>1, <3>1, <4>1, <1>o
    <3> QED
      BY <3>2, <3>3
  <2>4. CASE GenFails(k) \/ Untold(k)
    <3>1. /\ vendor' = vendor /\ step'[k] = "start"
          /\ lost'.ids = IF step[k] = "created" THEN lost.ids + 1 ELSE lost.ids
      BY <2>4, <1>t DEF GenFails, Untold, Forgotten, Gives, Ends
    <3>2. ~Creating(k)'
      BY <3>1 DEF Creating
    <3>3. CASE step[k] = "created"
      <4>1. lost'.ids = lost.ids + 1 /\ ~vendor.known
        BY <2>1, <3>1, <3>3 DEF Creating
      <4> QED
        BY <2>1, <3>1, <4>1, <1>n
    <3> QED
      BY <2>2, <3>1, <3>2, <3>3
  <2>5. CASE GenCreate(k)
    <3>1. step[k] = "ready" /\ slot[k].task = Generation
      BY <2>5 DEF GenCreate, At
    <3>2. ~vendor.known
      BY <2>1, <3>1 DEF Creating
    <3>3. \A j \in Workers : step[j] # "created"
      BY <1>4, <3>1 DEF Creating
    <3>4. vendor.made <= lost.ids
      BY <2>1, <3>2, <3>3
    <3>5. CASE vendor' = vendor /\ lost' = lost /\ step' = [step EXCEPT ![k] = "start"]
      BY <2>2, <3>1, <3>5, <1>t DEF Creating
    <3>6. CASE vendor' = [vendor EXCEPT !.made = @ + 1]
      <4>1. vendor'.made = vendor.made + 1 /\ vendor'.known = vendor.known
        BY <3>6, <1>t
      <4>2. CASE GoesTo(k, "created")
        <5>1. lost' = lost /\ step'[k] = "created"
          BY <4>2, <1>t DEF GoesTo
        <5> QED
          BY <3>2, <3>4, <4>1, <5>1, <1>n
      <4>3. CASE lost' = [lost EXCEPT !.ids = @ + 1]
        <5>1. lost'.ids = lost.ids + 1
          BY <4>3, <1>t
        <5> QED
          BY <3>2, <3>4, <4>1, <5>1, <1>n
      <4> QED
        BY <2>5, <3>6, <4>2, <4>3, <3>5 DEF GenCreate, Stops, Ends
    <3> QED
      BY <2>5, <3>5, <3>6 DEF GenCreate, Stops, Ends
  <2>6. CASE GenStores(k)
    <3>1. /\ slot[k].task = Generation /\ lost' = lost /\ step'[k] = "polling"
          /\ vendor'.known = TRUE /\ vendor'.made = vendor.made
      BY <2>6, <1>t DEF GenStores, GoesTo, At
    <3>2. \A j \in Workers : ~Creating(j)'
      BY <3>1, <1>5 DEF Creating
    <3> QED
      BY <2>1, <3>1, <3>2
  <2>7. CASE GenPolls(k) \/ RedoStart(k)
    <3>1. /\ vendor' = vendor /\ lost' = lost /\ step[k] # "created"
          /\ step'[k] \in {"start", "downloading"}
      BY <2>7, <1>t DEF GenPolls, RedoStart, At, GoesTo, Stops, Ends
    <3> QED
      BY <2>2, <3>1 DEF Creating
  <2>8. CASE Downloads(k) \/ Meters(k) \/ Caches(k) \/ Completes(k)
    <3>1. /\ vendor' = vendor /\ lost' = lost /\ step[k] # "created"
          /\ step'[k] \in {"start", "stored", "metered", "cached"}
      BY <2>8, <1>t DEF Downloads, Meters, Caches, Completes, Downloading, At, GoesTo, Ends
    <3> QED
      BY <2>2, <3>1 DEF Creating
  <2>9. CASE FinishFails(k)
    <3>1. vendor' = vendor /\ lost'.ids = lost.ids /\ step[k] # "created" /\ step'[k] = "start"
      BY <2>9, <1>t DEF FinishFails, Forgotten, Downloading, At, Stops, Ends
    <3> QED
      BY <2>2, <3>1 DEF Creating
  <2> QED
    BY <2>3, <2>4, <2>5, <2>6, <2>7, <2>8, <2>9 DEF MediaHandler
<1> QED
  BY <1>1, <1>3, <1>6 DEF MediaInv

(* A handler of the card is left where it is by everything but itself and  *)
(* the death of its worker.                                                *)
LEMMA StaysAtMedia ==
    ASSUME QueueTypeOK, NEW j \in Workers, AtMedia(j),
           \/ PlainStep \/ VideoStep \/ \E t \in Tasks : CancelTask(t) \/ ApiCrash(t)
           \/ Submit \/ AskRedownload \/ CreateMedia \/ SubmitterDies
           \/ \E t \in MediaTasks : NoteCancelled(t) \/ NoterDies(t)
    PROVE  AtMedia(j)' /\ slot'[j].task = slot[j].task
<1>1. CASE PlainStep \/ \E t \in Tasks : CancelTask(t) \/ ApiCrash(t)
  BY <1>1, StaysHandling DEF AtMedia, Modelled
<1>2. CASE \/ Submit \/ AskRedownload \/ CreateMedia \/ SubmitterDies
           \/ \E t \in MediaTasks : NoteCancelled(t) \/ NoterDies(t)
  BY <1>2 DEF Submit, AskRedownload, CreateMedia, CreateTask, SubmitterDies, NoteCancelled,
              NoterDies, CardLost, queueVars, AtMedia
<1>3. CASE VideoResumeLooks \/ VideoResumeReserves \/ ReleaseUnknown
  BY <1>3 DEF VideoResumeLooks, VideoResumeReserves, ResumeLooks, ResumeReserves, ResumeRefused,
              ReleaseUnknown, AtMedia
<1>4. ASSUME NEW k \in Workers, VideoHandler(k)
      PROVE  AtMedia(j)' /\ slot'[j].task = slot[j].task
  <2>1. CASE UNCHANGED queueVars
    BY <2>1 DEF queueVars, AtMedia
  <2>2. ASSUME NEW out, HandlerEnds(k, out), slot[k].task = Video
        PROVE  AtMedia(j)' /\ slot'[j].task = slot[j].task
    BY <2>2, VideoConstants DEF HandlerEnds, AtMedia, QueueTypeOK
  <2>3. slot[k].task = Video
    BY <1>4 DEF VideoHandler, VideoStart, ClipsFail, Compose, VideoReturns, VideoAt, ClipStep,
                ClipBegins, ClipStops, ClipClaims, ClipSends, ClipStores, ClipPolls, ClipDownloads,
                ClipMeters, ClipChecks, ClipAt
  <2> QED
    BY <1>4, <2>1, <2>2, <2>3, VideoHandlerStep
<1> QED
  BY <1>1, <1>2, <1>3, <1>4 DEF VideoStep

LEMMA MediaInvStep ==
    ASSUME MediaInv, QueueInv, [JobsNext]_jobsVars
    PROVE  MediaInv'
<1>q. QueueTypeOK
  BY DEF QueueInv
<1>l. used'.lapses = 0 => used.lapses = 0
  BY <1>q, JobsStepQueue, LapsesGrow DEF queueVars
<1>t. /\ step \in [Workers -> Steps] /\ lost \in [ids : Nat, charges : Nat, card : BOOLEAN]
      /\ vendor \in [known : BOOLEAN, made : Nat]
  BY DEF MediaInv, MediaTypeOK
<1>f. ASSUME UNCHANGED <<vendor, step>>, lost'.ids = lost.ids, MediaTypeOK',
             \A j \in Workers : AtMedia(j) => AtMedia(j)' /\ slot'[j].task = slot[j].task
      PROVE  MediaInv'
  <2>1. StepsFit'
    BY <1>f DEF StepsFit, MediaInv, Creating
  <2>2. IdsAccountedFor'
    BY <1>f, <1>l DEF IdsAccountedFor, MediaInv, Creating
  <2> QED
    BY <1>f, <2>1, <2>2 DEF MediaInv
<1>1. CASE PlainStep \/ (VideoStep /\ UNCHANGED mediaVars)
  <2>1. UNCHANGED mediaVars
    BY <1>1 DEF PlainStep
  <2>2. MediaTypeOK'
    BY <2>1 DEF mediaVars, MediaInv, MediaTypeOK
  <2> QED
    BY <1>1, <1>f, <1>q, <2>1, <2>2, StaysAtMedia DEF mediaVars
<1>2. CASE Submit \/ AskRedownload \/ CreateMedia
  <2>1. UNCHANGED <<vendor, step, lost, noting, billed>>
    BY <1>2 DEF Submit, AskRedownload, CreateMedia
  <2>2. card' \in CardStatus /\ submitting' \in MediaTasks \union {NoTask}
    BY <1>2 DEF Submit, AskRedownload, CreateMedia, CardStatus, MediaInv, MediaTypeOK, MediaTasks
  <2>3. MediaTypeOK'
    BY <2>1, <2>2 DEF MediaInv, MediaTypeOK
  <2> QED
    BY <1>2, <1>f, <1>q, <2>1, <2>3, StaysAtMedia
<1>3. CASE SubmitterDies \/ \E t \in MediaTasks : NoteCancelled(t) \/ NoterDies(t)
  <2>1. UNCHANGED <<vendor, step, billed>> /\ lost'.ids = lost.ids
    BY <1>3, <1>t DEF SubmitterDies, NoteCancelled, NoterDies, CardLost
  <2>2. /\ card' \in CardStatus /\ submitting' \in MediaTasks \union {NoTask}
        /\ noting' \subseteq MediaTasks /\ lost' \in [ids : Nat, charges : Nat, card : BOOLEAN]
    BY <1>3, <1>t DEF SubmitterDies, NoteCancelled, NoterDies, CardLost, CardBecomes, CardStatus,
                      MediaInv, MediaTypeOK
  <2>3. MediaTypeOK'
    BY <2>1, <2>2 DEF MediaInv, MediaTypeOK
  <2> QED
    BY <1>3, <1>f, <1>q, <2>1, <2>3, StaysAtMedia
<1>4. CASE \E k \in Workers : MediaHandler(k)
  BY <1>4, MediaHandlerInv
<1>5. ASSUME NEW t \in Tasks, CancelTask(t) \/ ApiCrash(t) PROVE MediaInv'
  <2>1. UNCHANGED <<card, submitting, vendor, step, billed>> /\ lost'.ids = lost.ids
    BY <1>5, <1>t DEF CancelTask, CancelsMedia, ApiCrash, ForgetsMedia
  <2>2. noting' \subseteq MediaTasks /\ lost' \in [ids : Nat, charges : Nat, card : BOOLEAN]
    BY <1>5, <1>t DEF CancelTask, CancelsMedia, ApiCrash, ForgetsMedia, MediaInv, MediaTypeOK
  <2>3. MediaTypeOK'
    BY <2>1, <2>2 DEF MediaInv, MediaTypeOK
  <2> QED
    BY <1>5, <1>f, <1>q, <2>1, <2>3, StaysAtMedia
<1>6. ASSUME NEW k \in Workers, WorkerCrash(k) PROVE MediaInv'
  <2>1. /\ UNCHANGED <<card, submitting, noting, vendor, billed>>
        /\ step' = [step EXCEPT ![k] = "start"]
        /\ lost'.ids = IF step[k] = "created" THEN lost.ids + 1 ELSE lost.ids
    BY <1>6, <1>t DEF WorkerCrash, MediaDies
  <2>2. lost' \in [ids : Nat, charges : Nat, card : BOOLEAN]
    <3>1. lost.ids + 1 \in Nat /\ lost.charges + 1 \in Nat
      BY <1>t
    <3> QED
      BY <1>6, <1>t, <3>1 DEF WorkerCrash, MediaDies
  <2>3. MediaTypeOK'
    BY <2>1, <2>2 DEF MediaInv, MediaTypeOK, Steps
  <2>4. \A j \in Workers \ {k} : slot'[j] = slot[j] /\ step'[j] = step[j]
    BY <1>6, <1>q, <2>1 DEF WorkerCrash, WorkerDies, Free, QueueTypeOK
  <2>5. step'[k] = "start"
    BY <1>t, <2>1
  <2>6. StepsFit'
    BY <2>4, <2>5 DEF StepsFit, MediaInv, AtMedia, Creating
  <2>7. ASSUME used.lapses = 0
        PROVE  /\ vendor'.made <= 1 + lost'.ids
               /\ vendor'.known => \A j \in Workers : ~Creating(j)'
               /\ ~vendor'.known /\ (\A j \in Workers : step'[j] # "created") =>
                      vendor'.made <= lost'.ids
    <3>1. /\ vendor.made <= 1 + lost.ids
          /\ vendor.known => \A j \in Workers : ~Creating(j)
          /\ ~vendor.known /\ (\A j \in Workers : step[j] # "created") => vendor.made <= lost.ids
      BY <2>7 DEF IdsAccountedFor, MediaInv
    <3>2. vendor.made \in Nat /\ lost.ids \in Nat
      BY <1>t
    <3>3. CASE step[k] = "created"
      <4>1. lost'.ids = lost.ids + 1 /\ vendor' = vendor
        BY <2>1, <3>3
      <4>2. vendor.made <= lost.ids + 1 /\ vendor.made <= 1 + (lost.ids + 1)
        BY <3>1, <3>2
      <4> QED
        BY <2>4, <2>5, <3>1, <4>1, <4>2 DEF Creating
    <3>4. CASE step[k] # "created"
      BY <2>1, <2>4, <2>5, <3>1, <3>4 DEF Creating
    <3> QED
      BY <3>3, <3>4
  <2>8. IdsAccountedFor'
    BY <1>l, <2>7 DEF IdsAccountedFor
  <2> QED
    BY <2>3, <2>6, <2>8 DEF MediaInv
<1>7. CASE UNCHANGED jobsVars
  <2>1. MediaTypeOK'
    BY <1>7 DEF jobsVars, mediaVars, MediaInv, MediaTypeOK
  <2> QED
    BY <1>7, <1>f, <2>1 DEF jobsVars, mediaVars, queueVars, AtMedia
<1>8. ASSUME NEW k \in Workers, RowFails(k) PROVE MediaInv'
  <2>1. MediaTypeOK /\ \A j \in Workers : AtMedia(j) => j # k
    BY <1>8, <1>q, RowFailsStep DEF MediaInv, AtMedia
  <2>2. \A j \in Workers : AtMedia(j) => AtMedia(j)' /\ slot'[j].task = slot[j].task
    BY <1>8, <1>q, <2>1, RowFailsStep DEF AtMedia
  <2> QED
    BY <1>8, <1>f, <1>q, <2>1, <2>2, RowFailsStep, RowFailsLoses
<1> QED
  BY <1>1, <1>2, <1>3, <1>4, <1>5, <1>6, <1>7, <1>8 DEF JobsNext, MediaStep

(* However often a generation is delivered, crashed, retried and cancelled *)
(* the vendor makes it once, and once more for each id that was lost on    *)
(* its way from the vendor to the row (run-job.ts:356-358).                *)
THEOREM GenerationsArePaidOnce == JobsSpec => []PaidOnce
<1>1. JobsInit => MediaInv
  BY MediaInitInv DEF JobsInit
<1>2. QueueInv /\ MediaInv /\ [JobsNext]_jobsVars => MediaInv'
  BY MediaInvStep
<1>3. MediaInv => PaidOnce
  BY DEF MediaInv, IdsAccountedFor, PaidOnce
<1>4. JobsSpec => []QueueInv
  BY JobsImplementTheQueue, QueueInvariance, PTL
<1> QED
  BY <1>1, <1>2, <1>3, <1>4, PTL DEF JobsSpec

(* The state of the composition has its type.                              *)
THEOREM JobsTypeCorrect == JobsSpec => []JobsTypeOK
<1>1. JobsInit => MediaInv /\ VideoInv
  BY MediaInitInv, VideoInitInv DEF JobsInit
<1>2. QueueInv /\ MediaInv /\ [JobsNext]_jobsVars => MediaInv'
  BY MediaInvStep
<1>3. QueueTypeOK /\ VideoInv /\ [JobsNext]_jobsVars => VideoInv'
  BY VideoInvStep
<1>4. QueueInv => QueueTypeOK
  BY DEF QueueInv
<1>5. QueueTypeOK /\ MediaInv /\ VideoInv => JobsTypeOK
  BY DEF MediaInv, VideoInv, JobsTypeOK
<1>6. JobsSpec => []QueueInv
  BY JobsImplementTheQueue, QueueInvariance, PTL
<1> QED
  BY <1>1, <1>2, <1>3, <1>4, <1>5, <1>6, PTL DEF JobsSpec
-----------------------------------------------------------------------------
(* What a step of the queue does to a slot, and to the row of a plain task.*)
SlotMove(j) ==
    \/ /\ slot'[j].at = slot[j].at /\ slot'[j].task = slot[j].task /\ slot'[j].out = slot[j].out
    \/ slot[j].at \notin {"handling", "ended"} /\ slot'[j].at \notin {"handling", "ended"}
    \/ /\ slot'[j].at = "handling" /\ slot'[j].task = slot[j].task
       /\ slot[j].at = "claimed" /\ row[slot[j].task].status = "running" /\ row' = row
    \/ /\ slot[j].at = "handling" /\ slot'[j].at = "ended" /\ slot'[j].task = slot[j].task
       /\ \E out \in HandlerOutcomes : HandlerEnds(j, out) /\ slot'[j].out = out
    \/ /\ Record(j) /\ slot[j].at = "ended" /\ slot'[j].at = "acking"
       /\ slot'[j].task = slot[j].task /\ slot'[j].out \in {slot[j].out, "retry"}
    \/ /\ slot[j].at \in {"claimed", "ended"} /\ slot'[j].at \in {"ended", "acking"}
       /\ slot'[j].task = slot[j].task /\ slot'[j].out \in {"threw", "broken"}
    \/ WorkerDies(j) /\ slot'[j] = IdleSlot

PlainMove(t) ==
    \/ row'[t].status = row[t].status
    \/ CreateTask(t) /\ row'[t].status = "pending"
    \/ IsOpen(t) /\ (IsOpen(t)' \/ Cancel(t) \/ \E k \in Workers : Record(k) /\ slot[k].task = t)

(* The whole step of the queue: where each slot may go.                    *)
LEMMA SlotMoves ==
    ASSUME QueueTypeOK, [QueueNext]_queueVars, NEW j \in Workers
    PROVE  SlotMove(j)
<1>t. slot \in [Workers -> Slots] /\ slot[j] \in Slots
  BY DEF QueueTypeOK
<1>s. ASSUME slot'[j] = slot[j] PROVE SlotMove(j)
  BY <1>s DEF SlotMove
<1>1. ASSUME NEW t \in Tasks,
             \/ CreateTask(t) \/ Publish(t) \/ Deliver(t) \/ Diagnose(t) \/ ApiDies(t) \/ StalledCheck(t)
             \/ Withdraw(t) \/ DeliverAgain(t) \/ Cancel(t) \/ ResumeLooks(t) \/ ResumeReserves(t)
             \/ ResumeRefused(t)
      PROVE  SlotMove(j)
  BY <1>1, <1>s DEF CreateTask, Publish, Deliver, Diagnose, ApiDies, StalledCheck, Withdraw,
                    DeliverAgain, Cancel, ResumeLooks, ResumeReserves, ResumeRefused
<1>2. ASSUME NEW k \in Workers, NEW t \in Tasks, Pick(k, t) PROVE SlotMove(j)
  <2>1. k # j => slot'[j] = slot[j]
    BY <1>2, <1>t DEF Pick
  <2>2. k = j => slot[j].at = "idle" /\ slot'[j].at = "picked"
    BY <1>2, <1>t DEF Pick, IdleSlot
  <2> QED
    BY <1>s, <2>1, <2>2 DEF SlotMove
<1>3. ASSUME NEW k \in Workers, LookActive(k) \/ Postpone(k) PROVE SlotMove(j)
  <2>1. k # j => slot'[j] = slot[j]
    BY <1>3, <1>t DEF LookActive, Postpone, Free
  <2>2. k = j => slot[j].at \in {"picked", "looked"} /\ slot'[j].at \in {"looked", "idle"}
    BY <1>3, <1>t DEF LookActive, Postpone, Free, IdleSlot, Slots
  <2> QED
    BY <1>s, <2>1, <2>2 DEF SlotMove
<1>4. ASSUME NEW k \in Workers, Claim(k) PROVE SlotMove(j)
  <2>1. k # j => slot'[j] = slot[j]
    BY <1>4, Moving DEF Claim, Outcomes
  <2>2. k = j => slot[j].at \in {"picked", "looked"} /\ slot'[j].at \in {"claimed", "acking"}
    BY <1>4, Moving DEF Claim, Outcomes
  <2> QED
    BY <1>s, <2>1, <2>2 DEF SlotMove
<1>5. ASSUME NEW k \in Workers, Observe(k) PROVE SlotMove(j)
  <2>1. k # j => slot'[j] = slot[j]
    BY <1>5, Moving DEF Observe, Outcomes
  <2>2. k = j => /\ slot[j].at = "claimed" /\ slot'[j].task = slot[j].task /\ row' = row
                 /\ \/ slot'[j].at = "acking"
                    \/ slot'[j].at = "handling" /\ row[slot[j].task].status = "running"
    BY <1>5, Moving DEF Observe, Outcomes
  <2> QED
    BY <1>s, <2>1, <2>2 DEF SlotMove
<1>6. ASSUME NEW k \in Workers, Notice(k) PROVE SlotMove(j)
  BY <1>6, <1>t DEF Notice, Slots, SlotMove
<1>7. ASSUME NEW k \in Workers, Record(k) PROVE SlotMove(j)
  <2>1. slot[k].out \in Outcomes /\ "retry" \in Outcomes
    BY <1>t DEF Slots, Outcomes
  <2>2. k # j => slot'[j] = slot[j]
    BY <1>7, <2>1, Moving DEF Record
  <2>3. k = j => /\ slot[j].at = "ended" /\ slot'[j].at = "acking" /\ slot'[j].task = slot[j].task
                 /\ slot'[j].out \in {slot[j].out, "retry"}
    BY <1>7, <2>1, Moving DEF Record
  <2> QED
    BY <1>7, <1>s, <2>2, <2>3 DEF SlotMove
<1>8. ASSUME NEW k \in Workers, Ack(k) PROVE SlotMove(j)
  <2>1. k # j => slot'[j] = slot[j]
    BY <1>8, <1>t DEF Ack, Free
  <2>2. k = j => slot[j].at = "acking" /\ slot'[j].at = "idle"
    BY <1>8, <1>t DEF Ack, Free, IdleSlot
  <2> QED
    BY <1>s, <2>1, <2>2 DEF SlotMove
<1>9. ASSUME NEW k \in Workers, NEW out \in HandlerOutcomes, HandlerEnds(k, out) PROVE SlotMove(j)
  <2>1. k # j => slot'[j] = slot[j]
    BY <1>9, <1>t DEF HandlerEnds
  <2>2. k = j => /\ slot[j].at = "handling" /\ slot'[j].at = "ended" /\ slot'[j].task = slot[j].task
                 /\ slot'[j].out = out
    BY <1>9, <1>t DEF HandlerEnds, Slots
  <2> QED
    BY <1>9, <1>s, <2>1, <2>2 DEF SlotMove
<1>10. ASSUME NEW k \in Workers, WorkerDies(k) PROVE SlotMove(j)
  BY <1>10, <1>s, <1>t DEF WorkerDies, Free, SlotMove
<1>11. CASE SpentElsewhere \/ \E k \in Workers : LockLapses(k)
  BY <1>11, <1>s DEF SpentElsewhere, LockLapses
<1>12. CASE UNCHANGED queueVars
  BY <1>12, <1>s DEF queueVars
<1>13. ASSUME NEW k \in Workers, Failing(k) PROVE SlotMove(j)
  <2>1. CASE k # j
    BY <1>13, <1>s, <2>1, FailingStep
  <2>2. CASE k = j /\ slot[j].at \in {"picked", "looked"}
    BY <1>13, <2>2, FailingStep DEF SlotMove
  <2>3. CASE k = j /\ slot[j].at \in {"claimed", "ended"}
    BY <1>13, <2>3, FailingStep DEF SlotMove
  <2> QED
    BY <1>13, <2>1, <2>2, <2>3, FailingStep
<1> QED
  BY <1>1, <1>2, <1>3, <1>4, <1>5, <1>6, <1>7, <1>8, <1>9, <1>10, <1>11, <1>12, <1>13
  DEF QueueNext, QueueStep, Failing

(* And who writes the row of a task that is never continued.               *)
LEMMA PlainMoves ==
    ASSUME QueueInv, [QueueNext]_queueVars, NEW t \in Tasks \ Renders
    PROVE  PlainMove(t)
<1>t. row \in [Tasks -> [status : RowStatus, attempts : Nat]] /\ SlotHasTask /\ RequestsFit
  BY DEF QueueInv, QueueTypeOK
<1>1. ASSUME NEW u \in Tasks, CreateTask(u) PROVE PlainMove(t)
  BY <1>1, <1>t DEF CreateTask, PlainMove
<1>2. ASSUME NEW k \in Workers, Claim(k) PROVE PlainMove(t)
  BY <1>2, <1>t DEF Claim, Claims, IsOpen, OpenRow, PlainMove, SlotHasTask
<1>3. ASSUME NEW k \in Workers, Record(k) PROVE PlainMove(t)
  <2>1. slot[k].task # t => row'[t].status = row[t].status
    BY <1>3, <1>t DEF Record
  <2>2. slot[k].task = t => row'[t].status = Recorded(k)
    BY <1>3, <1>t DEF Record
  <2>3. slot[k].task = t /\ ~IsOpen(t) => Recorded(k) = row[t].status
    BY <1>t DEF Recorded, IsOpen, OpenRow
  <2> QED
    BY <1>3, <2>1, <2>2, <2>3 DEF PlainMove
<1>4. ASSUME NEW u \in Tasks, Cancel(u) PROVE PlainMove(t)
  BY <1>4, <1>t DEF Cancel, PlainMove
<1>5. ASSUME NEW u \in Tasks, ResumeReserves(u) PROVE PlainMove(t)
  <2>1. u \in Renders
    BY <1>5, <1>t DEF ResumeReserves, RequestsFit
  <2> QED
    BY <1>5, <1>t, <2>1 DEF ResumeReserves, PlainMove
<1>6. ASSUME row' = row PROVE PlainMove(t)
  BY <1>6 DEF PlainMove
<1>7. ASSUME NEW u \in Tasks,
             \/ Publish(u) \/ Deliver(u) \/ Diagnose(u) \/ ApiDies(u) \/ StalledCheck(u)
             \/ Withdraw(u) \/ ResumeLooks(u) \/ ResumeRefused(u) \/ DeliverAgain(u)
             \/ \E k \in Workers : Pick(k, u)
      PROVE  PlainMove(t)
  BY <1>7, <1>6 DEF Publish, Deliver, Diagnose, ApiDies, StalledCheck, Withdraw, ResumeLooks,
                    ResumeRefused, DeliverAgain, Pick
<1>8. ASSUME NEW k \in Workers,
             \/ LookActive(k) \/ Postpone(k) \/ Observe(k) \/ Notice(k) \/ Ack(k)
             \/ LockLapses(k) \/ WorkerDies(k) \/ \E out \in HandlerOutcomes : HandlerEnds(k, out)
      PROVE  PlainMove(t)
  BY <1>8, <1>6 DEF LookActive, Postpone, Observe, Notice, Ack, LockLapses, WorkerDies, HandlerEnds
<1>9. CASE SpentElsewhere
  BY <1>9, <1>6 DEF SpentElsewhere
<1>10. CASE UNCHANGED queueVars
  BY <1>6, <1>10 DEF queueVars
<1>11. ASSUME NEW k \in Workers, Failing(k) PROVE PlainMove(t)
  BY <1>6, <1>11, FailingStep DEF QueueInv
<1> QED
  BY <1>1, <1>2, <1>3, <1>4, <1>5, <1>7, <1>8, <1>9, <1>10, <1>11 DEF QueueNext, QueueStep, Failing
-----------------------------------------------------------------------------
(* The bill. One charge is free; a lost one allows another. Against these  *)
(* count the charges there are, and one for each of the two tasks that may *)
(* still meter: a task may as long as its row is open, or its handler      *)
(* runs, and nobody has its result in hand (metered, or on the way back    *)
(* from the handler); the generation only until its result is cached.      *)
InHand(t) == \E k \in Workers :
    /\ slot[k].task = t
    /\ \/ slot[k].at = "handling" /\ step[k] \in {"metered", "cached"}
       \/ slot[k].at = "ended" /\ slot[k].out = "returned"
Unended(t) == IsOpen(t) \/ Handling(t) # {}
MayMeter(t) == Unended(t) /\ ~InHand(t)

GenMayMeter == ~billed.cached /\ (row[Generation].status = "none" \/ MayMeter(Generation))
RedoMayMeter ==
    IF row[Redownload].status = "none" THEN card = "download_failed" \/ submitting = Redownload
    ELSE MayMeter(Redownload)
One(holds) == IF holds THEN 1 ELSE 0

CacheFits == \A k \in Workers : slot[k].at = "handling" /\ slot[k].task = Generation =>
    /\ step[k] = "cached" => billed.cached
    /\ used.lapses = 0 /\ billed.cached => step[k] \in {"start", "cached"}
ChargesAccountedFor ==
    used.lapses = 0 => billed.charges + One(GenMayMeter) + One(RedoMayMeter) <= 1 + lost.charges

(* What is no handler of a task, nor its death, does not let it meter.     *)
LEMMA MayMeterStays ==
    ASSUME QueueInv, MediaInv, [QueueNext]_queueVars, used.lapses = 0, NEW t \in MediaTasks,
           row[t].status # "none",
           \A k \in Workers : slot[k].task = t =>
               /\ step'[k] = step[k]
               /\ slot[k].at = "handling" => slot'[k].at = "handling" /\ slot'[k].task = t
               /\ slot[k].at = "ended" => slot'[k] = slot[k] \/ Record(k),
           MayMeter(t)'
    PROVE  MayMeter(t)
<1>1. t \in Tasks \ Renders
  BY MediaConstants DEF MediaTasks
<1>2. QueueTypeOK /\ SlotHasTask /\ HoldersWork
  BY DEF QueueInv
<1>3. PlainMove(t) /\ \A k \in Workers : SlotMove(k)
  BY <1>1, <1>2, PlainMoves, SlotMoves
<1>4. IsOpen(t)' => IsOpen(t)
  BY <1>3 DEF PlainMove, CreateTask, IsOpen
<1>5. Handling(t)' # {} => Unended(t)
  <2> SUFFICES ASSUME NEW k \in Workers, slot'[k].task = t, slot'[k].at = "handling" PROVE Unended(t)
    BY DEF Handling
  <2>1. slot[k].task = t /\ (slot[k].at = "handling" \/ row[t].status = "running")
    BY <1>3 DEF SlotMove, IdleSlot
  <2> QED
    BY <2>1 DEF Unended, Handling, IsOpen, OpenRow
<1>6. ~InHand(t)
  <2> SUFFICES ASSUME NEW k \in Workers, slot[k].task = t,
                      \/ slot[k].at = "handling" /\ step[k] \in {"metered", "cached"}
                      \/ slot[k].at = "ended" /\ slot[k].out = "returned"
               PROVE  FALSE
    BY DEF InHand
  <2>1. /\ step'[k] = step[k]
        /\ slot[k].at = "handling" => slot'[k].at = "handling" /\ slot'[k].task = t
        /\ slot[k].at = "ended" => slot'[k] = slot[k] \/ Record(k)
    OBVIOUS
  <2>2. CASE slot[k].at = "handling" \/ ~Record(k)
    BY <2>1, <2>2 DEF MayMeter, InHand
  <2>3. CASE slot[k].at # "handling" /\ Record(k)
    <3>1. slot[k].at = "ended" /\ slot[k].out = "returned" /\ row'[t].status = Recorded(k)
      BY <1>1, <1>2, <2>3 DEF Record, QueueTypeOK
    <3>2. ~IsOpen(t)'
      BY <3>1 DEF Recorded, IsOpen, OpenRow
    <3>3. PICK j \in Workers : slot'[j].task = t /\ slot'[j].at = "handling"
      BY <3>2 DEF MayMeter, Unended, Handling
    <3>4. slot[j].task = t /\ slot[j].at # "idle"
      <4>1. SlotMove(j)
        BY <1>3
      <4> QED
        BY <3>3, <4>1 DEF SlotMove, IdleSlot
    <3>5. slot'[k].at # "handling"
      <4>1. SlotMove(k)
        BY <1>3
      <4> QED
        BY <3>1, <4>1 DEF SlotMove, IdleSlot
    <3> QED
      BY <1>2, <3>1, <3>3, <3>4, <3>5, SlotsApart
  <2> QED
    BY <2>2, <2>3
<1> QED
  BY <1>4, <1>5, <1>6 DEF MayMeter, Unended


(* A handler of the card, as long as no lock lapses: it is the only one of *)
(* its task.                                                               *)
LEMMA AtHand ==
    ASSUME QueueInv, used.lapses = 0, NEW k \in Workers, slot[k].at = "handling",
           slot[k].task \in MediaTasks
    PROVE  /\ row[slot[k].task].status # "none"
           /\ \A j \in Workers : slot[j].task = slot[k].task => j = k
           /\ MayMeter(slot[k].task) <=> step[k] \notin {"metered", "cached"}
<1>1. \A j \in Workers : slot[j].task = slot[k].task => j = k
  <2> SUFFICES ASSUME NEW j \in Workers, j # k, slot[j].task = slot[k].task PROVE FALSE
    OBVIOUS
  <2>1. slot[j].at # "idle"
    BY Constants, MediaConstants DEF QueueInv, SlotHasTask
  <2> QED
    BY <2>1, SlotsApart DEF QueueInv
<1>2. row[slot[k].task].status # "none"
  BY DEF QueueInv, SlotHasTask
<1> QED
  BY <1>1, <1>2 DEF MayMeter, Unended, Handling, InHand

LEMMA HandlerCounts ==
    ASSUME QueueInv, MediaInv, used.lapses = 0, NEW k \in Workers, MediaHandler(k),
           NEW t \in MediaTasks, t = slot[k].task
    PROVE  /\ UNCHANGED <<row, used, submitting>>
           /\ \A u \in MediaTasks \ {t} : MayMeter(u)' <=> MayMeter(u)
           /\ MayMeter(t)' =>
                \/ slot' = slot /\ step'[k] \notin {"metered", "cached"}
                \/ HandlerEnds(k, "threw")
<1>1. slot[k].at = "handling" /\ t \in MediaTasks
  BY MediaAtItsTask
<1>2. slot \in [Workers -> Slots] /\ step \in [Workers -> Steps]
  BY DEF QueueInv, QueueTypeOK, MediaInv, MediaTypeOK
<1>3. \A j \in Workers : slot[j].task = t => j = k
  BY <1>1, AtHand
<1>4. CASE UNCHANGED queueVars /\ \E s \in Steps : step' = [step EXCEPT ![k] = s]
  <2>1. slot' = slot /\ row' = row /\ used' = used /\ \A j \in Workers \ {k} : step'[j] = step[j]
    BY <1>2, <1>4 DEF queueVars
  <2>2. \A u \in MediaTasks \ {t} : MayMeter(u)' <=> MayMeter(u)
    BY <2>1 DEF MayMeter, Unended, IsOpen, Handling, InHand
  <2>3. MayMeter(t)' => step'[k] \notin {"metered", "cached"}
    BY <1>1, <2>1 DEF MayMeter, InHand
  <2> QED
    BY <2>1, <2>2, <2>3, MediaMoves
<1>5. ASSUME NEW out \in {"returned", "threw"}, HandlerEnds(k, out)
      PROVE  /\ UNCHANGED <<row, used>>
             /\ \A u \in MediaTasks \ {t} : MayMeter(u)' <=> MayMeter(u)
             /\ MayMeter(t)' => out = "threw"
  <2>1. /\ row' = row /\ used' = used /\ \A j \in Workers \ {k} : slot'[j] = slot[j]
        /\ slot'[k].at = "ended" /\ slot'[k].out = out /\ slot'[k].task = t
    BY <1>2, <1>5 DEF HandlerEnds, Slots
  <2>2. \A j \in Workers \ {k} : step'[j] = step[j]
    BY <1>2, MediaMoves
  <2>3. \A u \in MediaTasks \ {t} : Unended(u)' <=> Unended(u)
    BY <2>1 DEF Unended, IsOpen, Handling
  <2>4. \A u \in MediaTasks \ {t} : InHand(u)' <=> InHand(u)
    BY <2>1, <2>2 DEF InHand
  <2> QED
    BY <2>1, <2>3, <2>4 DEF MayMeter, InHand
<1> QED
  BY <1>4, <1>5, MediaMoves

(* What no step of a handler but the meter does: charge; and only a failed *)
(* download, or the owner's, offers another.                               *)
LEMMA HandlerCharges ==
    ASSUME QueueInv, MediaInv, CacheFits, ChargesAccountedFor, NEW k \in Workers, MediaHandler(k)
    PROVE  ChargesAccountedFor'
<1>l. used' = used
  BY MediaMoves DEF queueVars, HandlerEnds
<1> SUFFICES ASSUME used.lapses = 0
             PROVE  billed'.charges + One(GenMayMeter') + One(RedoMayMeter') <= 1 + lost'.charges
  BY <1>l DEF ChargesAccountedFor
<1>p. PICK t \in MediaTasks : t = slot[k].task
  BY MediaAtItsTask
<1>1. /\ slot[k].at = "handling" /\ slot[k].task = t
      /\ t \in {Generation, Redownload} /\ Generation # Redownload
  BY <1>p, MediaAtItsTask, MediaConstants DEF MediaTasks
<1>2. /\ row' = row /\ submitting' = submitting
      /\ \A u \in MediaTasks \ {t} : MayMeter(u)' <=> MayMeter(u)
      /\ MayMeter(t)' => \/ slot' = slot /\ step'[k] \notin {"metered", "cached"}
                         \/ HandlerEnds(k, "threw")
      /\ row[t].status # "none" /\ (MayMeter(t) <=> step[k] \notin {"metered", "cached"})
  BY <1>1, HandlerCounts, AtHand DEF MediaTasks
<1>t. /\ step \in [Workers -> Steps] /\ slot \in [Workers -> Slots]
      /\ billed \in [cached : BOOLEAN, charges : Nat]
      /\ lost \in [ids : Nat, charges : Nat, card : BOOLEAN]
  BY DEF MediaInv, MediaTypeOK, QueueInv, QueueTypeOK
<1>c. billed.charges \in Nat /\ lost.charges \in Nat
  BY <1>t
<1>3. billed.charges + One(GenMayMeter) + One(RedoMayMeter) <= 1 + lost.charges
  BY DEF ChargesAccountedFor
<1>g. /\ t = Generation => (RedoMayMeter' => RedoMayMeter \/ (row[Redownload].status = "none" /\ card' = "download_failed" /\ card # "download_failed"))
      /\ t = Redownload => ((billed.cached => billed'.cached) => (GenMayMeter' => GenMayMeter))
  BY <1>1, <1>2 DEF RedoMayMeter, GenMayMeter, MediaTasks
<1>e. \A out : HandlerEnds(k, out) => slot'[k].at = "ended" /\ slot'[k].out = out
  BY <1>1, <1>t DEF HandlerEnds, Slots
<1>d. ASSUME ~MayMeter(t)', billed.cached => billed'.cached,
             card' = "download_failed" => card = "download_failed"
      PROVE  (GenMayMeter' => GenMayMeter) /\ (RedoMayMeter' => RedoMayMeter)
  <2>1. CASE t = Generation
    BY <1>2, <1>g, <1>d, <2>1 DEF GenMayMeter
  <2>2. CASE t = Redownload
    BY <1>1, <1>2, <1>g, <1>d, <2>2 DEF RedoMayMeter
  <2> QED
    BY <1>1, <2>1, <2>2
(* Nothing is charged or lost, and the result was not in hand.             *)
<1>4. ASSUME billed' = billed, lost'.charges = lost.charges, step[k] \notin {"metered", "cached"},
             card' = "download_failed" => card = "download_failed"
      PROVE  billed'.charges + One(GenMayMeter') + One(RedoMayMeter') <= 1 + lost'.charges
  <2>1. GenMayMeter' => GenMayMeter
    BY <1>1, <1>2, <1>g, <1>4 DEF GenMayMeter
  <2>2. RedoMayMeter' => RedoMayMeter
    BY <1>1, <1>2, <1>g, <1>4 DEF RedoMayMeter
  <2> QED
    BY <1>3, <1>4, <1>c, <2>1, <2>2 DEF One
<1>5. CASE GenStart(k) \/ GenCreate(k) \/ GenStores(k) \/ GenPolls(k) \/ RedoStart(k)
  <2>1. billed' = billed /\ lost'.charges = lost.charges
    BY <1>5, <1>t DEF GenStart, GenCreate, GenStores, GenPolls, RedoStart, GoesTo
  <2>2. step[k] \notin {"metered", "cached"}
    BY <1>5 DEF GenStart, GenCreate, GenStores, GenPolls, RedoStart, At
  <2>3. card' = "download_failed" => card = "download_failed"
    BY <1>5 DEF GenStart, GenCreate, GenStores, GenPolls, RedoStart, Stops, Gives, CardBecomes
  <2> QED
    BY <1>4, <2>1, <2>2, <2>3
<1>6. CASE Downloads(k)
  BY <1>4, <1>6 DEF Downloads, Downloading, At, GoesTo
<1>7. CASE Meters(k)
  <2>1. /\ step[k] = "stored" /\ step'[k] = "metered" /\ slot' = slot /\ lost' = lost /\ card' = card
        /\ billed'.charges = billed.charges + 1 /\ billed'.cached = billed.cached
    BY <1>7, <1>t DEF Meters, Downloading, At, GoesTo, queueVars
  <2>2. ~MayMeter(t)' /\ MayMeter(t)
    BY <1>1, <1>2, <1>e, <2>1
  <2>3. CASE t = Generation
    <3>1. ~billed.cached
      BY <1>1, <2>1, <2>3 DEF CacheFits
    <3>2. GenMayMeter /\ ~GenMayMeter' /\ (RedoMayMeter' => RedoMayMeter)
      BY <1>2, <1>g, <2>1, <2>2, <2>3, <3>1 DEF GenMayMeter
    <3> QED
      BY <1>3, <1>c, <2>1, <3>2 DEF One
  <2>4. CASE t = Redownload
    <3>1. RedoMayMeter /\ ~RedoMayMeter' /\ (GenMayMeter' => GenMayMeter)
      BY <1>2, <1>g, <2>1, <2>2, <2>4 DEF RedoMayMeter
    <3> QED
      BY <1>3, <1>c, <2>1, <3>1 DEF One
  <2> QED
    BY <1>1, <2>3, <2>4
<1>8. CASE Caches(k)
  <2>1. /\ step[k] = "metered" /\ step'[k] = "cached" /\ slot' = slot /\ lost' = lost /\ card' = card
        /\ billed'.charges = billed.charges /\ (billed.cached => billed'.cached)
    BY <1>8, <1>t DEF Caches, Downloading, At, GoesTo, queueVars
  <2>2. ~MayMeter(t)'
    BY <1>1, <1>2, <1>e, <2>1
  <2>3. (GenMayMeter' => GenMayMeter) /\ (RedoMayMeter' => RedoMayMeter)
    BY <1>d, <2>1, <2>2
  <2> QED
    BY <1>3, <1>c, <2>1, <2>3 DEF One
<1>9. CASE Completes(k)
  <2>1. /\ step[k] = "cached" /\ lost' = lost /\ billed' = billed /\ HandlerEnds(k, "returned")
        /\ card' = "download_failed" => card = "download_failed"
    BY <1>9 DEF Completes, Downloading, At, Ends, CardBecomes
  <2>2. slot'[k].out = "returned" /\ slot' # slot
    BY <1>1, <1>e, <2>1
  <2>3. ~MayMeter(t)'
    BY <1>2, <1>e, <2>2
  <2>4. (GenMayMeter' => GenMayMeter) /\ (RedoMayMeter' => RedoMayMeter)
    BY <1>d, <2>1, <2>3
  <2> QED
    BY <1>3, <1>c, <2>1, <2>4 DEF One
<1>10. CASE FinishFails(k)
  <2>1. /\ billed' = billed /\ step[k] \in {"downloading", "stored", "metered", "cached"}
        /\ lost'.charges = IF step[k] \in {"metered", "cached"} THEN lost.charges + 1 ELSE lost.charges
    BY <1>10, <1>t DEF FinishFails, Forgotten, Downloading, At
  <2>2. \/ ~Aborted(k) /\ CardBecomes("download_failed") /\ HandlerEnds(k, "returned")
        \/ (card' = "download_failed" => card = "download_failed") /\ HandlerEnds(k, "threw")
    BY <1>10 DEF FinishFails, Ends, Stops, CardBecomes
  <2>3. CASE t = Generation
    <3>1. RedoMayMeter' => RedoMayMeter \/ HandlerEnds(k, "returned")
      BY <1>g, <2>2, <2>3
    <3>2. HandlerEnds(k, "returned") => ~GenMayMeter'
      <4>1. HandlerEnds(k, "returned") => slot'[k].out = "returned" /\ slot' # slot
        BY <1>1, <1>e
      <4>2. HandlerEnds(k, "returned") => ~MayMeter(t)'
        BY <1>2, <1>e, <4>1
      <4> QED
        BY <1>2, <2>3, <4>2 DEF GenMayMeter
    <3>3. CASE step[k] \in {"downloading", "stored"}
      <4>1. ~billed.cached
        BY <1>1, <2>3, <3>3 DEF CacheFits
      <4>2. GenMayMeter /\ lost'.charges = lost.charges
        BY <1>2, <2>1, <2>3, <3>3, <4>1 DEF GenMayMeter
      <4> QED
        BY <1>3, <1>c, <2>1, <3>1, <3>2, <4>2 DEF One
    <3>4. CASE step[k] \in {"metered", "cached"}
      <4>1. lost'.charges = lost.charges + 1 /\ ~GenMayMeter
        BY <1>2, <2>1, <2>3, <3>4 DEF GenMayMeter
      <4> QED
        BY <1>3, <1>c, <2>1, <3>1, <3>2, <4>1 DEF One
    <3> QED
      BY <2>1, <3>3, <3>4
  <2>4. CASE t = Redownload
    <3>1. GenMayMeter' => GenMayMeter
      BY <1>g, <2>1, <2>4
    <3>2. RedoMayMeter <=> step[k] \notin {"metered", "cached"}
      BY <1>2, <2>4 DEF RedoMayMeter
    <3> QED
      BY <1>3, <1>c, <2>1, <3>1, <3>2 DEF One
  <2> QED
    BY <1>1, <2>3, <2>4
<1>11. CASE GenFails(k) \/ Untold(k)
  <2>1. /\ billed' = billed /\ (card' = "download_failed" => card = "download_failed")
        /\ lost'.charges = IF step[k] \in {"metered", "cached"} THEN lost.charges + 1 ELSE lost.charges
    BY <1>11, <1>t DEF GenFails, Untold, Forgotten, Gives, CardBecomes
  <2>2. CASE step[k] \notin {"metered", "cached"}
    BY <1>4, <2>1, <2>2
  <2>3. CASE step[k] \in {"metered", "cached"}
    <3>1. t = Generation => ~GenMayMeter /\ (RedoMayMeter' => RedoMayMeter)
      BY <1>2, <1>g, <2>1, <2>3 DEF GenMayMeter
    <3>2. t = Redownload => ~RedoMayMeter /\ (GenMayMeter' => GenMayMeter)
      BY <1>2, <1>g, <2>1, <2>3 DEF RedoMayMeter
    <3> QED
      BY <1>1, <1>3, <1>c, <2>1, <2>3, <3>1, <3>2 DEF One
  <2> QED
    BY <2>2, <2>3
<1> QED
  BY <1>5, <1>6, <1>7, <1>8, <1>9, <1>10, <1>11 DEF MediaHandler


(* Steps that are not a media handler's, nor a worker's death, nor a row's *)
(* that cannot be written.                                                 *)
OtherStep ==
    \/ PlainStep
    \/ VideoStep /\ UNCHANGED mediaVars
    \/ \E t \in Tasks : CancelTask(t) \/ ApiCrash(t)
    \/ Submit \/ AskRedownload \/ CreateMedia \/ SubmitterDies
    \/ \E t \in MediaTasks : NoteCancelled(t) \/ NoterDies(t)

LEMMA OtherSteps ==
    ASSUME JobsNext
    PROVE  OtherStep \/ \E k \in Workers : MediaHandler(k) \/ WorkerCrash(k) \/ RowFails(k)
  BY DEF JobsNext, OtherStep, MediaStep

(* Who has ended stays as it is until it is recorded; and only a handler   *)
(* ends.                                                                   *)
LEMMA EndsAreHandlers ==
    ASSUME QueueTypeOK, NEW j \in Workers, OtherStep
    PROVE  /\ slot[j].at = "ended" => slot'[j] = slot[j] \/ Record(j)
           /\ slot'[j].at = "ended" => slot[j].at \in {"handling", "ended"}
<1> DEFINE Fits == /\ slot[j].at = "ended" => slot'[j] = slot[j] \/ Record(j)
                   /\ slot'[j].at = "ended" => slot[j].at \in {"handling", "ended"}
<1>t. slot \in [Workers -> Slots] /\ slot[j] \in Slots
  BY DEF QueueTypeOK
<1>s. ASSUME slot'[j] = slot[j] PROVE Fits
  BY <1>s
<1>o. ASSUME NEW k \in Workers, \A i \in Workers \ {k} : slot'[i] = slot[i],
             k = j => slot[j].at # "ended" /\ slot'[j].at # "ended"
      PROVE  Fits
  BY <1>o
<1>1. CASE QueueStep
  <2>1. ASSUME NEW k \in Workers, NEW t \in Tasks, Pick(k, t) PROVE Fits
    BY <2>1, <1>t DEF Pick, IdleSlot
  <2>2. ASSUME NEW k \in Workers, LookActive(k) \/ Postpone(k) \/ Ack(k) PROVE Fits
    BY <2>2, <1>t DEF LookActive, Postpone, Ack, Free, IdleSlot, Slots
  <2>3. ASSUME NEW k \in Workers, Claim(k) PROVE Fits
    <3>1. slot[k].at \in {"picked", "looked"} /\ slot'[k].at \in {"claimed", "acking"}
          /\ \A i \in Workers \ {k} : slot'[i] = slot[i]
      BY <2>3, Moving DEF Claim, Outcomes
    <3> QED
      BY <1>o, <3>1
  <2>4. ASSUME NEW k \in Workers, Observe(k) PROVE Fits
    <3>1. slot[k].at = "claimed" /\ slot'[k].at \in {"handling", "acking"}
          /\ \A i \in Workers \ {k} : slot'[i] = slot[i]
      BY <2>4, Moving DEF Observe, Outcomes
    <3> QED
      BY <1>o, <3>1
  <2>5. ASSUME NEW k \in Workers, Notice(k) PROVE Fits
    BY <2>5, <1>t DEF Notice, Slots
  <2>6. ASSUME NEW k \in Workers, Record(k) PROVE Fits
    <3>1. slot[k].out \in Outcomes /\ "retry" \in Outcomes
      BY DEF QueueTypeOK, Slots, Outcomes
    <3>2. slot[k].at = "ended" /\ \A i \in Workers \ {k} : slot'[i] = slot[i]
      BY <2>6, <3>1, Moving DEF Record
    <3> QED
      BY <2>6, <3>2
  <2>7. ASSUME NEW k \in Workers, Breaks(k) PROVE Fits
    <3>1. slot[k].at \in {"picked", "looked", "claimed"} /\ slot'[k].at = "acking"
          /\ \A i \in Workers \ {k} : slot'[i] = slot[i]
      BY <2>7, Moving DEF Breaks, Outcomes
    <3> QED
      BY <1>o, <3>1
  <2> QED
    BY <1>1, <1>s, <2>1, <2>2, <2>3, <2>4, <2>5, <2>6, <2>7
    DEF QueueStep, Publish, Deliver, Diagnose, StalledCheck, Withdraw, DeliverAgain, LockLapses
<1>2. ASSUME NEW k \in Workers, NEW out, HandlerEnds(k, out) PROVE Fits
  <2>1. slot[k].at = "handling" /\ \A i \in Workers \ {k} : slot'[i] = slot[i]
    BY <1>2, <1>t DEF HandlerEnds
  <2> QED
    BY <2>1
<1>3. CASE UNCHANGED slot
  BY <1>3
<1>4. CASE PlainStep
  BY <1>1, <1>2, <1>3, <1>4 DEF PlainStep, CreateTask, ResumeLooks, ResumeReserves, ResumeRefused
<1>5. CASE VideoStep
  <2>1. CASE \E k \in Workers : VideoHandler(k)
    BY <1>2, <1>3, <2>1, VideoHandlerStep DEF queueVars
  <2> QED
    BY <1>3, <1>5, <2>1 DEF VideoStep, VideoResumeLooks, VideoResumeReserves, ResumeLooks, ResumeReserves,
                      ResumeRefused, ReleaseUnknown
<1>6. CASE \/ \E t \in Tasks : CancelTask(t) \/ ApiCrash(t)
           \/ Submit \/ AskRedownload \/ CreateMedia \/ SubmitterDies
           \/ \E t \in MediaTasks : NoteCancelled(t) \/ NoterDies(t)
  BY <1>3, <1>6 DEF CancelTask, ApiCrash, Cancel, ApiDies, Submit, AskRedownload, CreateMedia, CreateTask,
              SubmitterDies, NoteCancelled, NoterDies, CardLost, queueVars
<1> QED
  BY <1>4, <1>5, <1>6 DEF OtherStep

(* Only the API creates the tasks of the card.                             *)
LEMMA NoneStays ==
    ASSUME QueueInv, JobsNext, NEW t \in MediaTasks, row[t].status = "none"
    PROVE  row'[t].status = "none" \/ (CreateMedia /\ submitting = t)
<1>t. /\ row \in [Tasks -> [status : RowStatus, attempts : Nat]] /\ SlotHasTask /\ RequestsFit
      /\ t \in Tasks /\ t \notin Renders
  BY MediaConstants DEF QueueInv, QueueTypeOK, MediaTasks
<1>o. ASSUME row' = row PROVE row'[t].status = "none"
  BY <1>o
<1>1. ASSUME QueueStep PROVE row'[t].status = "none"
  <2>1. ASSUME NEW k \in Workers, Claim(k) \/ Record(k) PROVE row'[t].status = "none"
    BY <2>1, <1>t DEF Claim, Record, SlotHasTask
  <2> QED
    BY <1>1, <2>1 DEF QueueStep, Publish, Deliver, Diagnose, StalledCheck, Withdraw, DeliverAgain, Pick,
       LookActive, Breaks, Postpone, Observe, Notice, Ack, LockLapses
<1>2. ASSUME NEW u \in Tasks, CreateTask(u), u # t PROVE row'[t].status = "none"
  BY <1>2, <1>t DEF CreateTask
<1>3. ASSUME NEW u \in Tasks, ResumeReserves(u) PROVE row'[t].status = "none"
  BY <1>3, <1>t DEF ResumeReserves
<1>4. ASSUME PlainStep PROVE row'[t].status = "none"
  BY <1>1, <1>2, <1>3, <1>4 DEF PlainStep, HandlerEnds, ResumeLooks, ResumeRefused
<1>5. ASSUME VideoStep PROVE row'[t].status = "none"
  <2>1. CASE \E k \in Workers : VideoHandler(k)
    BY <1>o, <2>1, VideoHandlerStep DEF queueVars, HandlerEnds
  <2> QED
    BY <1>3, <1>5, <2>1, VideoConstants DEF VideoStep, VideoResumeLooks, VideoResumeReserves, ResumeLooks,
                      ResumeRefused, ReleaseUnknown
<1>6. ASSUME NEW u \in Tasks, CancelTask(u) \/ ApiCrash(u) PROVE row'[t].status = "none"
  BY <1>6, <1>t DEF CancelTask, ApiCrash, Cancel, ApiDies
<1>7. CASE CreateMedia
  <2>1. PICK u \in MediaTasks : u = submitting /\ CreateTask(u)
    BY <1>7 DEF CreateMedia
  <2> QED
    BY <1>2, <1>7, <2>1, MediaConstants
<1>8. ASSUME \/ Submit \/ AskRedownload \/ SubmitterDies
             \/ \E u \in MediaTasks : NoteCancelled(u) \/ NoterDies(u)
      PROVE  row'[t].status = "none"
  BY <1>8 DEF Submit, AskRedownload, SubmitterDies, NoteCancelled, NoterDies, CardLost, queueVars
<1>9. ASSUME NEW k \in Workers, MediaHandler(k) PROVE row'[t].status = "none"
  BY <1>9, MediaMoves DEF queueVars, HandlerEnds
<1>10. ASSUME NEW k \in Workers, WorkerCrash(k) \/ RowFails(k) PROVE row'[t].status = "none"
  BY <1>10, RowFailsStep DEF WorkerCrash, WorkerDies, QueueInv
<1> QED
  BY <1>4, <1>5, <1>6, <1>7, <1>8, <1>9, <1>10 DEF JobsNext, MediaStep

(* What the other steps do to the card and to the bill.                    *)
LEMMA OtherCard ==
    ASSUME MediaInv, OtherStep
    PROVE  /\ UNCHANGED <<billed, step>> /\ lost'.charges = lost.charges
           /\ card' = "download_failed" => card = "download_failed"
           /\ submitting' = Redownload => submitting = Redownload \/ AskRedownload
<1>t. lost \in [ids : Nat, charges : Nat, card : BOOLEAN] /\ Redownload # NoTask /\ Generation # Redownload
  BY MediaConstants, Constants DEF MediaInv, MediaTypeOK
<1>1. CASE PlainStep \/ (VideoStep /\ UNCHANGED mediaVars)
  BY <1>1 DEF PlainStep, mediaVars
<1>2. CASE Submit \/ AskRedownload \/ CreateMedia
  BY <1>2, <1>t DEF Submit, AskRedownload, CreateMedia
<1>3. CASE SubmitterDies \/ \E t \in MediaTasks : NoteCancelled(t) \/ NoterDies(t)
  BY <1>3, <1>t DEF SubmitterDies, NoteCancelled, NoterDies, CardLost, CardBecomes
<1>4. CASE \E t \in Tasks : CancelTask(t) \/ ApiCrash(t)
  BY <1>4, <1>t DEF CancelTask, CancelsMedia, ApiCrash, ForgetsMedia
<1> QED
  BY <1>1, <1>2, <1>3, <1>4 DEF OtherStep


(* What is true of the bill in every state.                                *)
BillInv == MediaInv /\ CacheFits /\ ChargesAccountedFor

LEMMA OtherCharges ==
    ASSUME QueueInv, [QueueNext]_queueVars, MediaInv, ChargesAccountedFor, JobsNext, OtherStep
    PROVE  ChargesAccountedFor'
<1>q. QueueTypeOK
  BY DEF QueueInv
<1>l. used'.lapses = 0 => used.lapses = 0
  BY <1>q, LapsesGrow DEF queueVars
<1> SUFFICES ASSUME used.lapses = 0
             PROVE  billed'.charges + One(GenMayMeter') + One(RedoMayMeter') <= 1 + lost'.charges
  BY <1>l DEF ChargesAccountedFor
<1>1. /\ billed' = billed /\ step' = step /\ lost'.charges = lost.charges
      /\ card' = "download_failed" => card = "download_failed"
      /\ submitting' = Redownload => submitting = Redownload \/ AskRedownload
  BY OtherCard
<1>2. \A k \in Workers : slot[k].task \in MediaTasks =>
          /\ slot[k].at = "handling" => slot'[k].at = "handling" /\ slot'[k].task = slot[k].task
          /\ slot[k].at = "ended" => slot'[k] = slot[k] \/ Record(k)
  <2> SUFFICES ASSUME NEW k \in Workers, slot[k].task \in MediaTasks
               PROVE  /\ slot[k].at = "handling" => slot'[k].at = "handling" /\ slot'[k].task = slot[k].task
                      /\ slot[k].at = "ended" => slot'[k] = slot[k] \/ Record(k)
    OBVIOUS
  <2>1. slot[k].at = "handling" => AtMedia(k)' /\ slot'[k].task = slot[k].task
    BY <1>q, StaysAtMedia DEF OtherStep, AtMedia
  <2> QED
    BY <1>q, <2>1, EndsAreHandlers DEF AtMedia
<1>3. ASSUME NEW t \in MediaTasks, row[t].status # "none", MayMeter(t)' PROVE MayMeter(t)
  BY <1>1, <1>2, <1>3, MayMeterStays
<1>4. /\ Generation \in MediaTasks /\ Redownload \in MediaTasks /\ Generation # Redownload
      /\ \A t \in MediaTasks : row[t].status # "none" => row'[t].status # "none"
  BY <1>q, RowsRemain, MediaConstants DEF MediaTasks, QueueInv, queueVars
<1>5. GenMayMeter' => GenMayMeter
  BY <1>1, <1>3, <1>4 DEF GenMayMeter
<1>6. RedoMayMeter' => RedoMayMeter
  <2>1. CASE row[Redownload].status # "none"
    BY <1>3, <1>4, <2>1 DEF RedoMayMeter
  <2>2. CASE row[Redownload].status = "none" /\ row'[Redownload].status # "none"
    BY <1>4, <2>2, NoneStays DEF RedoMayMeter
  <2>3. CASE row[Redownload].status = "none" /\ row'[Redownload].status = "none"
    BY <1>1, <2>3 DEF RedoMayMeter, AskRedownload
  <2> QED
    BY <2>1, <2>2, <2>3
<1>7. billed.charges \in Nat /\ lost.charges \in Nat
  BY DEF MediaInv, MediaTypeOK
<1> QED
  BY <1>1, <1>5, <1>6, <1>7 DEF ChargesAccountedFor, One

(* A worker that dies with a result in hand is the charge that is lost.    *)
LEMMA CrashCharges ==
    ASSUME QueueInv, [QueueNext]_queueVars, MediaInv, CacheFits, ChargesAccountedFor, JobsNext,
           NEW k \in Workers, WorkerCrash(k)
    PROVE  ChargesAccountedFor'
<1>q. QueueTypeOK /\ slot \in [Workers -> Slots] /\ SlotHasTask
  BY DEF QueueInv, QueueTypeOK
<1>l. used'.lapses = 0 => used.lapses = 0
  BY <1>q, LapsesGrow DEF queueVars
<1> SUFFICES ASSUME used.lapses = 0
             PROVE  billed'.charges + One(GenMayMeter') + One(RedoMayMeter') <= 1 + lost'.charges
  BY <1>l DEF ChargesAccountedFor
<1>c. billed.charges \in Nat /\ lost.charges \in Nat /\ step \in [Workers -> Steps]
  BY DEF MediaInv, MediaTypeOK
<1>1. /\ row' = row /\ billed' = billed /\ card' = card /\ submitting' = submitting
      /\ \A j \in Workers \ {k} : step'[j] = step[j] /\ slot'[j] = slot[j]
      /\ slot'[k] = IdleSlot /\ slot[k].at # "idle"
  BY <1>q, <1>c DEF WorkerCrash, WorkerDies, MediaDies, Free
<1>2. lost'.charges = IF slot[k].task \in MediaTasks /\ Unrecorded(k) THEN lost.charges + 1
                      ELSE lost.charges
  BY DEF WorkerCrash, MediaDies, MediaInv, MediaTypeOK
<1>3. /\ Generation \in MediaTasks /\ Redownload \in MediaTasks /\ Generation # Redownload
      /\ \A t \in MediaTasks : t # NoTask
  BY MediaConstants, Constants DEF MediaTasks
<1>4. ASSUME NEW t \in MediaTasks, slot[k].task # t, MayMeter(t)' PROVE MayMeter(t)
  <2>1. \A j \in Workers : slot[j].task = t => j # k /\ slot'[j] = slot[j] /\ step'[j] = step[j]
    BY <1>1, <1>4
  <2>2. \A j \in Workers : slot'[j].task = t => slot'[j] = slot[j]
    BY <1>1, <1>3 DEF IdleSlot
  <2>3. Unended(t)' => Unended(t)
    BY <1>1, <2>2 DEF Unended, IsOpen, Handling
  <2>4. InHand(t) => InHand(t)'
    BY <2>1 DEF InHand
  <2> QED
    BY <1>4, <2>3, <2>4 DEF MayMeter
<1>5. ASSUME NEW t \in MediaTasks, slot[k].task = t, MayMeter(t)', ~MayMeter(t)
      PROVE  \/ slot[k].at = "handling" /\ step[k] \in {"metered", "cached"}
             \/ slot[k].at = "ended" /\ slot[k].out = "returned"
  <2>1. \A j \in Workers \ {k} : slot[j].task # t
    <3> SUFFICES ASSUME NEW j \in Workers \ {k}, slot[j].task = t PROVE FALSE
      OBVIOUS
    <3>1. slot[j].at # "idle"
      BY <1>q, <1>3 DEF SlotHasTask
    <3> QED
      BY <1>1, <1>5, <3>1, SlotsApart DEF QueueInv
  <2>2. \A j \in Workers : slot'[j].task # t
    BY <1>1, <1>3, <2>1 DEF IdleSlot
  <2>3. IsOpen(t)
    BY <1>1, <1>5, <2>2 DEF MayMeter, Unended, Handling, IsOpen
  <2> QED
    BY <1>5, <2>1, <2>3 DEF MayMeter, Unended, InHand
<1>6. \A t \in MediaTasks : slot[k].task # t => (MayMeter(t)' => MayMeter(t))
  BY <1>4
<1>7. CASE slot[k].task \notin MediaTasks
  <2>1. (GenMayMeter' => GenMayMeter) /\ (RedoMayMeter' => RedoMayMeter)
    BY <1>1, <1>3, <1>6, <1>7 DEF GenMayMeter, RedoMayMeter
  <2> QED
    BY <1>1, <1>2, <1>7, <1>c, <2>1 DEF ChargesAccountedFor, One
<1>8. CASE slot[k].task = Generation
  <2>1. RedoMayMeter' => RedoMayMeter
    BY <1>1, <1>3, <1>6, <1>8 DEF RedoMayMeter
  <2>2. GenMayMeter' /\ ~GenMayMeter => Unrecorded(k)
    <3> SUFFICES ASSUME GenMayMeter', ~GenMayMeter PROVE Unrecorded(k)
      OBVIOUS
    <3>1. ~billed.cached /\ MayMeter(Generation)' /\ ~MayMeter(Generation)
      BY <1>1, <1>3, <1>6 DEF GenMayMeter
    <3>2. \/ slot[k].at = "handling" /\ step[k] \in {"metered", "cached"}
          \/ slot[k].at = "ended" /\ slot[k].out = "returned"
      BY <1>3, <1>5, <1>8, <3>1
    <3> QED
      BY <1>8, <3>1, <3>2 DEF Unrecorded, CacheFits
  <2> QED
    BY <1>1, <1>2, <1>3, <1>8, <1>c, <2>1, <2>2 DEF ChargesAccountedFor, One
<1>9. CASE slot[k].task = Redownload
  <2>1. GenMayMeter' => GenMayMeter
    BY <1>1, <1>3, <1>6, <1>9 DEF GenMayMeter
  <2>2. RedoMayMeter' /\ ~RedoMayMeter => Unrecorded(k)
    <3> SUFFICES ASSUME RedoMayMeter', ~RedoMayMeter PROVE Unrecorded(k)
      OBVIOUS
    <3>1. MayMeter(Redownload)' /\ ~MayMeter(Redownload)
      BY <1>1, <1>3, <1>6 DEF RedoMayMeter
    <3>2. \/ slot[k].at = "handling" /\ step[k] \in {"metered", "cached"}
          \/ slot[k].at = "ended" /\ slot[k].out = "returned"
      BY <1>3, <1>5, <1>9, <3>1
    <3> QED
      BY <1>9, <3>2 DEF Unrecorded
  <2> QED
    BY <1>1, <1>2, <1>3, <1>9, <1>c, <2>1, <2>2 DEF ChargesAccountedFor, One
<1> QED
  BY <1>7, <1>8, <1>9 DEF MediaTasks

(* A result that cannot be stored is the charge that is lost: the handler  *)
(* had returned with it, and its task may be worked for again.             *)
LEMMA RowFailsCharges ==
    ASSUME QueueInv, MediaInv, ChargesAccountedFor, NEW k \in Workers, RowFails(k)
    PROVE  ChargesAccountedFor'
<1>q. QueueTypeOK /\ MediaTypeOK
  BY DEF QueueInv, MediaInv
<1>1. /\ row' = row /\ billed' = billed /\ card' = card /\ submitting' = submitting /\ step' = step
      /\ used'.lapses = used.lapses /\ \A j \in Workers \ {k} : slot'[j] = slot[j]
      /\ slot[k].at \in {"claimed", "ended"} /\ slot'[k].at \in {"ended", "acking"}
      /\ slot'[k].task = slot[k].task
  BY <1>q, RowFailsStep
<1>2. lost'.charges = IF slot[k].task \in MediaTasks /\ Unrecorded(k) THEN lost.charges + 1
                      ELSE lost.charges
  BY <1>q, RowFailsLoses
<1> SUFFICES ASSUME used.lapses = 0
             PROVE  billed'.charges + One(GenMayMeter') + One(RedoMayMeter') <= 1 + lost'.charges
  BY <1>1 DEF ChargesAccountedFor
<1>c. billed.charges \in Nat /\ lost.charges \in Nat
  BY <1>q DEF MediaTypeOK
<1>3. ASSUME NEW t \in MediaTasks, MayMeter(t)', ~MayMeter(t)
      PROVE  slot[k].task = t /\ slot[k].at = "ended" /\ slot[k].out = "returned"
  <2>1. Unended(t)
    BY <1>1, <1>3 DEF MayMeter, Unended, IsOpen, Handling
  <2>2. PICK j \in Workers : /\ slot[j].task = t
                             /\ \/ slot[j].at = "handling" /\ step[j] \in {"metered", "cached"}
                                \/ slot[j].at = "ended" /\ slot[j].out = "returned"
    BY <1>3, <2>1 DEF MayMeter, InHand
  <2>3. j = k
    BY <1>1, <1>3, <2>2 DEF MayMeter, InHand
  <2> QED
    BY <1>1, <2>2, <2>3
<1>4. Generation \in MediaTasks /\ Redownload \in MediaTasks /\ Generation # Redownload
  BY MediaConstants DEF MediaTasks
<1>5. GenMayMeter' /\ ~GenMayMeter => slot[k].task = Generation /\ Unrecorded(k)
  <2> SUFFICES ASSUME GenMayMeter', ~GenMayMeter PROVE slot[k].task = Generation /\ Unrecorded(k)
    OBVIOUS
  <2>1. ~billed.cached /\ MayMeter(Generation)' /\ ~MayMeter(Generation)
    BY <1>1 DEF GenMayMeter
  <2> QED
    BY <1>3, <1>4, <2>1 DEF Unrecorded
<1>6. RedoMayMeter' /\ ~RedoMayMeter => slot[k].task = Redownload /\ Unrecorded(k)
  <2> SUFFICES ASSUME RedoMayMeter', ~RedoMayMeter PROVE slot[k].task = Redownload /\ Unrecorded(k)
    OBVIOUS
  <2>1. MayMeter(Redownload)' /\ ~MayMeter(Redownload)
    BY <1>1 DEF RedoMayMeter
  <2> QED
    BY <1>3, <1>4, <2>1 DEF Unrecorded
<1>7. CASE GenMayMeter' /\ ~GenMayMeter
  <2>1. lost'.charges = lost.charges + 1 /\ (RedoMayMeter' => RedoMayMeter)
    BY <1>2, <1>4, <1>5, <1>6, <1>7
  <2> QED
    BY <1>1, <1>c, <2>1 DEF ChargesAccountedFor, One
<1>8. CASE GenMayMeter' => GenMayMeter
  <2>1. CASE RedoMayMeter' /\ ~RedoMayMeter
    <3>1. lost'.charges = lost.charges + 1
      BY <1>2, <1>4, <1>6, <2>1
    <3> QED
      BY <1>1, <1>8, <1>c, <3>1 DEF ChargesAccountedFor, One
  <2>2. CASE RedoMayMeter' => RedoMayMeter
    <3>1. lost'.charges >= lost.charges /\ lost'.charges \in Nat
      BY <1>2, <1>c
    <3> QED
      BY <1>1, <1>8, <1>c, <2>2, <3>1 DEF ChargesAccountedFor, One
  <2> QED
    BY <2>1, <2>2
<1> QED
  BY <1>7, <1>8

(* The cache is written by the one handler of the generation.              *)
LEMMA CacheFitsStays ==
    ASSUME QueueInv, [QueueNext]_queueVars, MediaInv, CacheFits, JobsNext
    PROVE  CacheFits'
<1>q. QueueTypeOK /\ slot \in [Workers -> Slots] /\ step \in [Workers -> Steps]
  BY DEF QueueInv, QueueTypeOK, MediaInv, MediaTypeOK
<1>l. used'.lapses = 0 => used.lapses = 0
  BY <1>q, LapsesGrow DEF queueVars
<1>m. Generation \in MediaTasks /\ Generation # NoTask
  BY MediaConstants, Constants DEF MediaTasks
<1>1. CASE OtherStep
  <2>1. billed' = billed /\ step' = step
    BY <1>1, OtherCard
  <2> SUFFICES ASSUME NEW j \in Workers, slot'[j].at = "handling", slot'[j].task = Generation
               PROVE  /\ step[j] = "cached" => billed.cached
                      /\ used.lapses = 0 /\ billed.cached => step[j] \in {"start", "cached"}
    BY <1>l, <2>1 DEF CacheFits
  <2>2. SlotMove(j)
    BY <1>q, SlotMoves
  <2>3. CASE slot[j].at = "handling"
    <3>1. slot[j].task = Generation
      BY <1>m, <2>2, <2>3 DEF SlotMove, IdleSlot
    <3> QED
      BY <2>3, <3>1 DEF CacheFits
  <2>4. CASE slot[j].at # "handling"
    BY <2>4 DEF StepsFit, MediaInv, AtMedia
  <2> QED
    BY <2>3, <2>4
<1>2. ASSUME NEW k \in Workers, MediaHandler(k) PROVE CacheFits'
  <2>e. ASSUME NEW out, HandlerEnds(k, out)
        PROVE  /\ used' = used /\ \A j \in Workers \ {k} : slot'[j] = slot[j]
               /\ slot'[k].at = "ended"
    BY <1>q, <2>e DEF HandlerEnds, Slots
  <2>1. /\ used' = used /\ \A j \in Workers \ {k} : step'[j] = step[j] /\ slot'[j] = slot[j]
        /\ slot'[k].at = "handling" => slot' = slot
    <3>1. CASE UNCHANGED queueVars /\ \E s \in Steps : step' = [step EXCEPT ![k] = s]
      BY <1>q, <3>1 DEF queueVars
    <3>2. \A j \in Workers \ {k} : step'[j] = step[j]
      BY <1>q, <1>2, MediaMoves
    <3> QED
      BY <1>2, <2>e, <3>1, <3>2, MediaMoves
  <2>2. slot[k].at = "handling" /\ slot[k].task \in MediaTasks
    BY <1>2, MediaAtItsTask
  <2>3. CASE Caches(k)
    <3>1. /\ step'[k] = "cached" /\ slot' = slot /\ billed'.cached = (billed.cached \/ slot[k].task = Generation)
      BY <1>q, <2>3 DEF Caches, GoesTo, queueVars, MediaInv, MediaTypeOK
    <3>2. ASSUME slot[k].task = Generation PROVE CacheFits'
      <4>1. used.lapses = 0 => \A j \in Workers : slot[j].task = Generation => j = k
        BY <2>2, <3>2, AtHand
      <4> QED
        BY <2>1, <3>1, <3>2, <4>1 DEF CacheFits
    <3>3. ASSUME slot[k].task # Generation PROVE CacheFits'
      BY <2>1, <3>1, <3>3 DEF CacheFits
    <3> QED
      BY <3>2, <3>3
  <2>4. CASE ~Caches(k)
    <3>1. billed'.cached = billed.cached
      BY <1>2, <2>4 DEF MediaHandler, GenStart, GenFails, Untold, GenCreate, GenStores, GenPolls,
              RedoStart, Downloads, Meters, Completes, FinishFails, MediaInv, MediaTypeOK
    <3>2. slot'[k].at = "handling" /\ slot[k].task = Generation =>
              /\ step'[k] # "cached"
              /\ used.lapses = 0 /\ billed.cached => step'[k] = "start"
      <4> SUFFICES ASSUME slot'[k].at = "handling", slot[k].task = Generation
                   PROVE  /\ step'[k] # "cached"
                          /\ used.lapses = 0 /\ billed.cached => step'[k] = "start"
        OBVIOUS
      <4>1. \A out : ~HandlerEnds(k, out)
        BY <1>q DEF HandlerEnds, Slots
      <4>2. used.lapses = 0 /\ billed.cached => step[k] \in {"start", "cached"}
        BY <2>2 DEF CacheFits
      <4>3. CASE GenStart(k) \/ GenFails(k) \/ GenCreate(k) \/ GenStores(k) \/ GenPolls(k)
        BY <1>q, <4>1, <4>2, <4>3 DEF GenStart, GenFails, GenCreate, GenStores, GenPolls, Stops, Gives,
                               Ends, GoesTo, At
      <4>4. ~RedoStart(k)
        BY MediaConstants DEF RedoStart, At
      <4>5. CASE Downloads(k) \/ Meters(k)
        BY <1>q, <4>2, <4>5 DEF Downloads, Meters, Downloading, At, GoesTo
      <4>6. CASE Completes(k) \/ FinishFails(k) \/ Untold(k)
        BY <4>1, <4>6 DEF Completes, FinishFails, Untold, Stops, Ends
      <4> QED
        BY <1>2, <2>4, <4>3, <4>4, <4>5, <4>6 DEF MediaHandler
    <3> QED
      BY <2>1, <3>1, <3>2 DEF CacheFits
  <2> QED
    BY <2>3, <2>4
<1>3. ASSUME NEW k \in Workers, WorkerCrash(k) PROVE CacheFits'
  <2>1. /\ billed' = billed /\ \A j \in Workers \ {k} : step'[j] = step[j] /\ slot'[j] = slot[j]
        /\ slot'[k] = IdleSlot
    BY <1>q, <1>3 DEF WorkerCrash, WorkerDies, MediaDies, Free
  <2> QED
    BY <1>l, <2>1 DEF CacheFits, IdleSlot
<1>4. ASSUME NEW k \in Workers, RowFails(k) PROVE CacheFits'
  <2>1. \A j \in Workers : slot'[j].at = "handling" => slot'[j] = slot[j]
    BY <1>4, <1>q, RowFailsStep
  <2> QED
    BY <1>4, <1>q, <2>1, RowFailsStep DEF CacheFits
<1> QED
  BY <1>1, <1>2, <1>3, <1>4, OtherSteps

(* However often a card is delivered, crashed, retried, cancelled and      *)
(* downloaded again, its owner is billed once, and once more only for each *)
(* charge whose record was lost with a worker or a failed step between the *)
(* meter and what remembers it (run-job.ts, downloadAndFinalize).          *)
THEOREM CardsAreChargedOnce == JobsSpec => []ChargedOnce
<1>1. JobsInit => BillInv
  <2> SUFFICES ASSUME JobsInit PROVE BillInv
    OBVIOUS
  <2>1. MediaInv
    BY MediaInitInv DEF JobsInit
  <2>2. CacheFits
    BY DEF JobsInit, QueueInit, IdleSlot, CacheFits
  <2>3. /\ billed.charges = 0 /\ lost.charges = 0 /\ card = "none" /\ submitting = NoTask
        /\ row[Redownload].status = "none" /\ Redownload # NoTask
    BY MediaConstants, Constants DEF JobsInit, QueueInit, MediaInit
  <2>4. ~RedoMayMeter
    BY <2>3 DEF RedoMayMeter
  <2> QED
    BY <2>1, <2>2, <2>3, <2>4 DEF BillInv, ChargesAccountedFor, One
<1>2. QueueInv /\ BillInv /\ [JobsNext]_jobsVars => BillInv'
  <2> SUFFICES ASSUME QueueInv, BillInv, [JobsNext]_jobsVars PROVE BillInv'
    OBVIOUS
  <2>1. MediaInv /\ CacheFits /\ ChargesAccountedFor /\ MediaInv'
    BY MediaInvStep DEF BillInv
  <2>2. CASE UNCHANGED queueVars /\ UNCHANGED mediaVars
    <3>1. CacheFits'
      BY <2>1, <2>2 DEF CacheFits, queueVars, mediaVars
    <3>2. (MayMeter(Generation)' <=> MayMeter(Generation)) /\ (MayMeter(Redownload)' <=> MayMeter(Redownload))
      BY <2>2 DEF MayMeter, Unended, IsOpen, Handling, InHand, queueVars, mediaVars
    <3>3. (GenMayMeter' <=> GenMayMeter) /\ (RedoMayMeter' <=> RedoMayMeter)
      BY <2>2, <3>2 DEF GenMayMeter, RedoMayMeter, queueVars, mediaVars
    <3>4. billed' = billed /\ lost' = lost /\ used' = used
      BY <2>2 DEF queueVars, mediaVars
    <3>5. ChargesAccountedFor'
      BY <2>1, <3>3, <3>4 DEF ChargesAccountedFor, One
    <3> QED
      BY <2>1, <3>1, <3>5 DEF BillInv
  <2>3. CASE JobsNext
    <3>q. [QueueNext]_queueVars
      BY JobsStepQueue DEF QueueInv
    <3>1. CacheFits'
      BY <2>1, <2>3, <3>q, CacheFitsStays
    <3>2. ChargesAccountedFor'
      BY <2>1, <2>3, <3>q, OtherSteps, OtherCharges, HandlerCharges, CrashCharges, RowFailsCharges
    <3> QED
      BY <2>1, <3>1, <3>2 DEF BillInv
  <2> QED
    BY <2>2, <2>3 DEF jobsVars
<1>3. BillInv => ChargedOnce
  <2> SUFFICES ASSUME BillInv PROVE ChargedOnce
    OBVIOUS
  <2>1. billed.charges \in Nat /\ lost.charges \in Nat
    BY DEF BillInv, MediaInv, MediaTypeOK
  <2> QED
    BY <2>1 DEF BillInv, ChargesAccountedFor, ChargedOnce, One
<1>4. JobsSpec => []QueueInv
  BY JobsImplementTheQueue, QueueInvariance, PTL
<1> QED
  BY <1>1, <1>2, <1>3, <1>4, PTL DEF JobsSpec
-----------------------------------------------------------------------------
(* The card. What it waits for is the task of its last submission: the     *)
(* download of the owner once there is one, the generation until then. As  *)
(* long as it says "generating", and no submission or cancellation is      *)
(* under way, that task is open and no handler of it has ended.            *)
Current == IF row[Redownload].status = "none" THEN Generation ELSE Redownload
CardNotAsked ==
    /\ card = "none" => submitting = NoTask
    /\ card = "none" \/ submitting = Generation =>
          row[Generation].status = "none" /\ row[Redownload].status = "none"
Awaits == card = "generating" /\ ~lost.card /\ submitting = NoTask /\ noting = {}
Unfinished(t) == IsOpen(t) /\ \A k \in Workers : slot[k].task = t => slot[k].at # "ended"
CardFits == CardNotAsked /\ (Awaits => Unfinished(Current))

(* What is true of the card in every state.                                *)
CardInv == MediaInv /\ CardFits

(* The row of a task whose handler has not ended is closed by its owner    *)
(* alone, and he tells the card.                                           *)
LEMMA OnlyItsOwnerCloses ==
    ASSUME QueueInv, JobsNext, OtherStep, NEW t \in MediaTasks, Unfinished(t)
    PROVE  IsOpen(t)' \/ CancelTask(t)
<1>t. /\ row \in [Tasks -> [status : RowStatus, attempts : Nat]] /\ SlotHasTask /\ RequestsFit
      /\ t \in Tasks /\ t \notin Renders
  BY MediaConstants DEF QueueInv, QueueTypeOK, MediaTasks
<1>o. ASSUME row' = row PROVE IsOpen(t)'
  BY <1>o DEF Unfinished, IsOpen
<1>1. ASSUME QueueStep PROVE IsOpen(t)'
  <2>1. ASSUME NEW k \in Workers, Claim(k) PROVE IsOpen(t)'
    BY <2>1, <1>t DEF Claim, SlotHasTask, Unfinished, IsOpen, OpenRow
  <2>2. ASSUME NEW k \in Workers, Record(k) PROVE IsOpen(t)'
    <3>1. slot[k].task # t
      BY <2>2 DEF Record, Unfinished
    <3>2. row'[t] = row[t]
      BY <2>2, <3>1, <1>t DEF Record
    <3> QED
      BY <3>2 DEF Unfinished, IsOpen
  <2> QED
    BY <1>1, <1>o, <2>1, <2>2 DEF QueueStep, Publish, Deliver, Diagnose, StalledCheck, Withdraw, DeliverAgain,
       Pick, LookActive, Breaks, Postpone, Observe, Notice, Ack, LockLapses
<1>2. ASSUME NEW u \in Tasks, CreateTask(u) PROVE IsOpen(t)'
  BY <1>2, <1>t DEF CreateTask, Unfinished, IsOpen, OpenRow
<1>3. ASSUME NEW u \in Tasks, ResumeReserves(u) PROVE IsOpen(t)'
  BY <1>3, <1>t DEF ResumeReserves, Unfinished, IsOpen, OpenRow
<1>4. ASSUME PlainStep PROVE IsOpen(t)'
  BY <1>o, <1>1, <1>2, <1>3, <1>4 DEF PlainStep, HandlerEnds, ResumeLooks, ResumeRefused
<1>5. ASSUME VideoStep PROVE IsOpen(t)'
  <2>1. CASE \E k \in Workers : VideoHandler(k)
    BY <1>o, <2>1, VideoHandlerStep DEF queueVars, HandlerEnds
  <2> QED
    BY <1>o, <1>3, <1>5, <2>1, VideoConstants DEF VideoStep, VideoResumeLooks, VideoResumeReserves, ResumeLooks,
                      ResumeRefused, ReleaseUnknown
<1>6. ASSUME NEW u \in Tasks, ApiCrash(u) PROVE IsOpen(t)'
  BY <1>o, <1>6 DEF ApiCrash, ApiDies
<1>7. ASSUME NEW u \in Tasks, CancelTask(u), u # t PROVE IsOpen(t)'
  BY <1>7, <1>t DEF CancelTask, Cancel, Unfinished, IsOpen
<1>8. ASSUME CreateMedia PROVE IsOpen(t)'
  BY <1>2, <1>8, MediaConstants DEF CreateMedia
<1>9. ASSUME \/ Submit \/ AskRedownload \/ SubmitterDies
             \/ \E u \in MediaTasks : NoteCancelled(u) \/ NoterDies(u)
      PROVE  IsOpen(t)'
  BY <1>o, <1>9 DEF Submit, AskRedownload, SubmitterDies, NoteCancelled, NoterDies, CardLost, queueVars
<1> QED
  BY <1>4, <1>5, <1>6, <1>7, <1>8, <1>9 DEF OtherStep

(* And no other step ends a handler of it.                                 *)
LEMMA NoHandlerEnds ==
    ASSUME QueueInv, JobsNext, OtherStep, NEW t \in MediaTasks, Unfinished(t), NEW k \in Workers,
           slot'[k].task = t
    PROVE  slot'[k].at # "ended"
<1>q. QueueTypeOK /\ [QueueNext]_queueVars /\ t # NoTask
  BY JobsStepQueue, MediaConstants, Constants DEF QueueInv
<1>1. SlotMove(k)
  BY <1>q, SlotMoves
<1>2. CASE slot[k].at = "handling" /\ slot[k].task = t
  <2>1. AtMedia(k)'
    BY <1>2, <1>q, StaysAtMedia DEF OtherStep, AtMedia
  <2> QED
    BY <2>1 DEF AtMedia
<1>3. CASE ~(slot[k].at = "handling" /\ slot[k].task = t)
  <2> SUFFICES ASSUME slot'[k].at = "ended" PROVE FALSE
    OBVIOUS
  <2>1. slot[k].at \in {"handling", "ended"}
    BY <1>q, EndsAreHandlers
  <2> QED
    BY <1>1, <1>3, <1>q, <2>1 DEF SlotMove, IdleSlot, Unfinished
<1> QED
  BY <1>2, <1>3

(* A handler that ends says so on the card, but for the error it could not *)
(* tell, and for the download that is given up: the owner's own            *)
(* cancellation marks the card, or nothing does.                           *)
LEMMA HandlerTellsTheCard ==
    ASSUME MediaInv, NEW k \in Workers, MediaHandler(k)
    PROVE  /\ UNCHANGED <<submitting, noting>> /\ (lost.card => lost'.card)
           /\ card' = "generating" => card = "generating"
           /\ card' = "none" => card = "none"
           /\ Awaits' => UNCHANGED queueVars
<1>t. lost \in [ids : Nat, charges : Nat, card : BOOLEAN]
  BY DEF MediaInv, MediaTypeOK
<1>1. UNCHANGED <<submitting, noting>>
  BY MediaMoves
<1>f. Forgotten(k) \in [ids : Nat, charges : Nat, card : BOOLEAN] /\ Forgotten(k).card = lost.card
  <2>1. lost.ids + 1 \in Nat /\ lost.charges + 1 \in Nat
    BY <1>t
  <2> QED
    BY <1>t, <2>1 DEF Forgotten
<1>2. CASE GenStart(k) \/ GenCreate(k)
  BY <1>1, <1>2, <1>t DEF GenStart, GenCreate, Stops, Gives, GoesTo, CardBecomes, Awaits
<1>6. CASE GenFails(k)
  BY <1>1, <1>6, <1>f DEF GenFails, Gives, CardBecomes, Awaits
<1>7. CASE Untold(k)
  <2>1. card' = card /\ lost'.card = (lost.card \/ card = "generating")
    BY <1>7, <1>f DEF Untold
  <2> QED
    BY <1>1, <2>1 DEF Awaits
<1>3. CASE GenStores(k) \/ GenPolls(k) \/ RedoStart(k)
  BY <1>1, <1>3, <1>t DEF GenStores, GenPolls, RedoStart, Stops, GoesTo, CardBecomes, Awaits
<1>4. CASE Downloads(k) \/ Meters(k) \/ Caches(k) \/ Completes(k)
  BY <1>1, <1>4, <1>t DEF Downloads, Meters, Caches, Completes, GoesTo, CardBecomes, Awaits
<1>5. CASE FinishFails(k)
  <2>1. lost'.card = (lost.card \/ (Aborted(k) /\ slot[k].task = Redownload /\ Redownload \notin noting))
    BY <1>5, <1>f DEF FinishFails
  <2>2. slot[k].task # Generation => slot[k].task = Redownload
    BY <1>5, MediaAtItsTask DEF MediaTasks
  <2>3. \/ CardBecomes("download_failed") \/ CardBecomes("cancelled")
        \/ Aborted(k) /\ slot[k].task = Redownload /\ card' = card
    BY <1>5, <2>2 DEF FinishFails, Stops
  <2> QED
    BY <1>1, <2>1, <2>3 DEF CardBecomes, Awaits
<1> QED
  BY <1>2, <1>3, <1>4, <1>5, <1>6, <1>7 DEF MediaHandler

(* What the other steps do to what the card waits for.                     *)
LEMMA OthersAndTheCard ==
    ASSUME MediaInv, OtherStep
    PROVE  /\ lost.card => lost'.card
           /\ card' = "none" => card = "none"
           /\ Awaits' => Awaits \/ CreateMedia
           /\ \A t \in MediaTasks : CancelTask(t) /\ IsOpen(t) => ~Awaits'
           /\ submitting' = submitting \/ submitting' = NoTask \/ Submit \/ AskRedownload
<1>t. /\ lost \in [ids : Nat, charges : Nat, card : BOOLEAN] /\ Redownload # NoTask /\ Generation # NoTask
  BY MediaConstants, Constants DEF MediaInv, MediaTypeOK
<1>c. \A t \in MediaTasks : CancelTask(t) /\ IsOpen(t) => ~Awaits'
  BY DEF CancelTask, CancelsMedia, Awaits
<1>1. CASE PlainStep \/ (VideoStep /\ UNCHANGED mediaVars)
  BY <1>1, <1>c DEF PlainStep, mediaVars, Awaits
<1>2. CASE Submit \/ AskRedownload \/ CreateMedia
  BY <1>2, <1>c, <1>t DEF Submit, AskRedownload, CreateMedia, Awaits
<1>3. CASE SubmitterDies \/ \E t \in MediaTasks : NoteCancelled(t) \/ NoterDies(t)
  BY <1>3, <1>c, <1>t DEF SubmitterDies, NoteCancelled, NoterDies, CardLost, CardBecomes, Awaits
<1>4. ASSUME NEW t \in Tasks, CancelTask(t) \/ ApiCrash(t)
      PROVE  /\ lost.card => lost'.card
             /\ card' = card /\ submitting' = submitting
             /\ Awaits' => Awaits
  BY <1>4, <1>t DEF CancelTask, CancelsMedia, ApiCrash, ForgetsMedia, Awaits
<1> QED
  BY <1>1, <1>2, <1>3, <1>4, <1>c DEF OtherStep

LEMMA CardNotAskedStays ==
    ASSUME QueueInv, MediaInv, CardNotAsked, JobsNext
    PROVE  CardNotAsked'
<1>t. /\ Generation \in MediaTasks /\ Redownload \in MediaTasks /\ Generation # Redownload
      /\ Generation # NoTask /\ Redownload # NoTask
  BY MediaConstants, Constants DEF MediaTasks
<1>n. ASSUME card = "none" \/ submitting = Generation, ~CreateMedia
      PROVE  row'[Generation].status = "none" /\ row'[Redownload].status = "none"
  BY <1>n, <1>t, NoneStays DEF CardNotAsked
<1>1. CASE OtherStep
  <2>1. CASE Submit \/ AskRedownload
    <3>1. card' # "none" /\ (submitting' = Generation => Submit)
      BY <1>t, <2>1 DEF Submit, AskRedownload
    <3>2. Submit => card = "none" /\ row' = row
      BY DEF Submit, queueVars
    <3> QED
      BY <3>1, <3>2 DEF CardNotAsked
  <2>2. CASE CreateMedia
    <3>1. submitting # NoTask /\ submitting' = NoTask /\ card' = card
      BY <1>t, <2>2 DEF CreateMedia, MediaTasks
    <3> QED
      BY <1>t, <3>1 DEF CardNotAsked
  <2>3. CASE ~Submit /\ ~AskRedownload /\ ~CreateMedia
    BY <1>1, <1>n, <1>t, <2>3, OthersAndTheCard DEF CardNotAsked
  <2> QED
    BY <2>1, <2>2, <2>3
<1>2. ASSUME NEW k \in Workers, MediaHandler(k) PROVE CardNotAsked'
  <2>1. row' = row
    BY <1>2, MediaMoves DEF queueVars, HandlerEnds
  <2> QED
    BY <1>2, <2>1, HandlerTellsTheCard DEF CardNotAsked
<1>3. ASSUME NEW k \in Workers, WorkerCrash(k) PROVE CardNotAsked'
  BY <1>3 DEF WorkerCrash, WorkerDies, MediaDies, CardNotAsked
<1>4. ASSUME NEW k \in Workers, RowFails(k) PROVE CardNotAsked'
  BY <1>4, RowFailsStep DEF QueueInv, CardNotAsked
<1> QED
  BY <1>1, <1>2, <1>3, <1>4, OtherSteps

LEMMA CardFitsStays ==
    ASSUME QueueInv, MediaInv, CardFits, JobsNext
    PROVE  CardFits'
<1>q. QueueTypeOK /\ SlotHasTask /\ row \in [Tasks -> [status : RowStatus, attempts : Nat]]
  BY DEF QueueInv, QueueTypeOK
<1>t. /\ Generation \in MediaTasks /\ Redownload \in MediaTasks /\ Generation # Redownload
      /\ Generation # NoTask /\ Redownload # NoTask /\ MediaTasks \subseteq Tasks
  BY MediaConstants, Constants DEF MediaTasks
<1>n. CardNotAsked'
  BY CardNotAskedStays DEF CardFits
<1> SUFFICES ASSUME Awaits' PROVE Unfinished(Current)'
  BY <1>n DEF CardFits
<1>u. ASSUME NEW t \in MediaTasks, Unfinished(t)', Current' = t PROVE Unfinished(Current)'
  BY <1>u DEF Unfinished, IsOpen
<1>1. CASE CreateMedia
  <2>1. PICK t \in MediaTasks : t = submitting /\ CreateTask(t)
    BY <1>1 DEF CreateMedia
  <2>2. row[t].status = "none" /\ row'[t].status = "pending" /\ slot' = slot
        /\ \A u \in Tasks \ {t} : row'[u] = row[u]
    BY <1>q, <1>t, <2>1 DEF CreateTask
  <2>3. Current' = t
    <3>1. CASE t = Redownload
      BY <2>2, <3>1 DEF Current
    <3>2. CASE t = Generation
      <4>1. row'[Redownload].status = "none"
        BY <1>t, <2>1, <2>2, <3>2 DEF CardFits, CardNotAsked
      <4> QED
        BY <3>2, <4>1 DEF Current
    <3> QED
      BY <3>1, <3>2 DEF MediaTasks
  <2>4. \A k \in Workers : slot[k].task # t
    BY <1>t, <2>2, <1>q, Constants DEF SlotHasTask
  <2>5. Unfinished(t)'
    BY <2>2, <2>4 DEF Unfinished, IsOpen, OpenRow
  <2> QED
    BY <1>u, <2>3, <2>5
<1>2. CASE ~CreateMedia /\ OtherStep
  <2>1. Awaits
    BY <1>2, OthersAndTheCard
  <2>2. PICK t \in MediaTasks : t = Current /\ Unfinished(t)
    BY <1>t, <2>1 DEF CardFits, Current
  <2>3. IsOpen(t)'
    BY <1>2, <2>2, OnlyItsOwnerCloses, OthersAndTheCard DEF Unfinished
  <2>4. Current' = t
    <3>1. CASE row[Redownload].status = "none"
      <4>1. row'[Redownload].status = "none"
        BY <1>2, <1>t, <3>1, NoneStays
      <4> QED
        BY <2>2, <3>1, <4>1 DEF Current
    <3>2. CASE row[Redownload].status # "none"
      BY <2>2, <2>3, <3>2 DEF Current, IsOpen, OpenRow
    <3> QED
      BY <3>1, <3>2
  <2>5. Unfinished(t)'
    BY <1>2, <2>2, <2>3, NoHandlerEnds DEF Unfinished
  <2> QED
    BY <1>u, <2>4, <2>5
<1>3. ASSUME NEW k \in Workers, MediaHandler(k) PROVE Unfinished(Current)'
  <2>1. Awaits /\ row' = row /\ slot' = slot
    BY <1>3, HandlerTellsTheCard DEF queueVars, Awaits
  <2> QED
    BY <2>1 DEF CardFits, Unfinished, Current, IsOpen
<1>4. ASSUME NEW k \in Workers, WorkerCrash(k) PROVE Unfinished(Current)'
  <2>1. Awaits /\ row' = row
    BY <1>4 DEF WorkerCrash, WorkerDies, MediaDies, MediaInv, MediaTypeOK, Awaits
  <2>2. \A j \in Workers : slot'[j] = slot[j] \/ slot'[j] = IdleSlot
    BY <1>4, <1>q DEF WorkerCrash, WorkerDies, Free, QueueTypeOK
  <2> QED
    BY <2>1, <2>2 DEF CardFits, Unfinished, Current, IsOpen, IdleSlot
<1>5. ASSUME NEW k \in Workers, RowFails(k) PROVE Unfinished(Current)'
  <2>1. /\ row' = row /\ card' = card /\ submitting' = submitting /\ noting' = noting
        /\ slot[k].at \in {"claimed", "ended"} /\ slot'[k].task = slot[k].task
        /\ \A j \in Workers \ {k} : slot'[j] = slot[j]
    BY <1>5, <1>q, RowFailsStep
  <2>2. /\ lost.card => lost'.card
        /\ slot[k].at = "claimed" /\ slot[k].task \in MediaTasks /\ card = "generating" => lost'.card
    BY <1>5, RowFailsLoses DEF MediaInv
  <2>3. Awaits /\ ~(slot[k].at = "claimed" /\ slot[k].task \in MediaTasks)
    BY <2>1, <2>2 DEF Awaits
  <2>4. Unfinished(Current) /\ Current \in MediaTasks /\ Current' = Current
    BY <1>t, <2>1, <2>3 DEF CardFits, Current
  <2>5. slot[k].task # Current
    BY <2>1, <2>3, <2>4 DEF Unfinished
  <2> QED
    BY <2>1, <2>4, <2>5 DEF Unfinished, IsOpen
<1> QED
  BY <1>1, <1>2, <1>3, <1>4, <1>5, OtherSteps

(* A card that says "generating" is being submitted or cancelled, or has a *)
(* task that is open or in a handler's hands; the exception is a card left *)
(* behind between the row and the message, which lost.card counts: by a    *)
(* process that died, a download given up, an error before the handler's   *)
(* try (workers/index.ts: genDeps, bullmq-queue.ts: the first look at the  *)
(* row), or a write to the card that failed.                               *)
THEOREM CardsAreSettled == JobsSpec => []CardIsSettled
<1>1. JobsInit => CardInv
  <2> SUFFICES ASSUME JobsInit PROVE CardInv
    OBVIOUS
  <2>1. MediaInv
    BY MediaInitInv DEF JobsInit
  <2>2. card = "none" /\ submitting = NoTask /\ \A t \in MediaTasks : row[t].status = "none"
    BY MediaConstants DEF JobsInit, QueueInit, MediaInit
  <2> QED
    BY <2>1, <2>2, MediaConstants DEF CardInv, CardFits, CardNotAsked, Awaits, MediaTasks
<1>2. QueueInv /\ CardInv /\ [JobsNext]_jobsVars => CardInv'
  <2> SUFFICES ASSUME QueueInv, CardInv, [JobsNext]_jobsVars PROVE CardInv'
    OBVIOUS
  <2>1. MediaInv /\ CardFits /\ MediaInv'
    BY MediaInvStep DEF CardInv
  <2>2. CASE UNCHANGED queueVars /\ UNCHANGED mediaVars
    BY <2>1, <2>2 DEF CardInv, CardFits, CardNotAsked, Awaits, Unfinished, Current, IsOpen, queueVars, mediaVars
  <2>3. CASE JobsNext
    BY <2>1, <2>3, CardFitsStays DEF CardInv
  <2> QED
    BY <2>2, <2>3 DEF jobsVars
<1>3. CardInv => CardIsSettled
  <2> SUFFICES ASSUME CardInv, Awaits PROVE \E t \in MediaTasks : IsOpen(t)
    BY DEF CardIsSettled, Awaits
  <2>1. IsOpen(Current) /\ Current \in MediaTasks
    BY DEF CardInv, CardFits, Unfinished, Current, MediaTasks
  <2> QED
    BY <2>1
<1>4. JobsSpec => []QueueInv
  BY JobsImplementTheQueue, QueueInvariance, PTL
<1> QED
  BY <1>1, <1>2, <1>3, <1>4, PTL DEF JobsSpec
-----------------------------------------------------------------------------
(* The schedules.                                                          *)

(* The timetable. A run that is still to come, or that its dispatcher has  *)
(* just taken up, is not on record; nobody else has taken up its schedule. *)
Upcoming(o) ==
    \/ schedule[o[1]].state = "none"
    \/ schedule[o[1]].next # Never /\ o[2] >= schedule[o[1]].next
Timetabled ==
    /\ \A s \in Schedules :
         /\ schedule[s].next # Never => schedule[s].next \in 1 .. Timetable[s]
         /\ schedule[s].state = "none" => schedule[s].next = Never
    /\ \A o \in Occurrences : Upcoming(o) => report[o].status = "none"
DispatchersFit ==
    /\ \A d \in Dispatchers : LET o == dispatcher[d].run IN
         /\ ~AtDispatch(d, "idle") => o \in Occurrences
         /\ AtDispatch(d, "locked") => schedule[o[1]].next # Never /\ o[2] = schedule[o[1]].next
         /\ AtDispatch(d, "enqueue") \/ AtDispatch(d, "giveup") => report[o].status # "none"
    /\ \A d, e \in Dispatchers :
         d # e /\ AtDispatch(d, "locked") /\ AtDispatch(e, "locked") =>
             dispatcher[d].run[1] # dispatcher[e].run[1]
JobsFit == \A o \in Occurrences : runJob[o].state # "none" => report[o].status # "none"

(* A run is in the hands of one worker from when it was taken up.          *)
TakenUp(k) == executor[k].at \in {"collect", "model", "finish"}
ExecutorsFit ==
    /\ \A k \in Executors : LET o == executor[k].run IN
         /\ ~AtExec(k, "idle") => o \in Occurrences /\ report[o].status # "none"
         /\ TakenUp(k) => report[o].status \in {"running", "failed"}
         /\ AtExec(k, "finish") => executor[k].out \in {"succeeded", "failed", "cancelled", "skipped"}
    /\ \A j, k \in Executors :
         j # k /\ TakenUp(j) /\ TakenUp(k) => executor[j].run # executor[k].run

(* What was paid for is a run that was taken up, once, and is no skipped   *)
(* one; and the runs that count are within the limit.                      *)
PaidFits ==
    /\ \A o \in Occurrences :
         /\ paid[o] <= 1
         /\ paid[o] # 0 => report[o].status \in Counted \ {"queued"}
    /\ \A k \in Executors : LET o == executor[k].run IN
         AtExec(k, "collect") \/ AtExec(k, "model") \/ (AtExec(k, "finish") /\ executor[k].out = "skipped") =>
             paid[o] = 0
CountedRuns == {o \in Occurrences : report[o].status \in Counted}
LimitKept == IsFiniteSet(CountedRuns) /\ Cardinality(CountedRuns) <= DailyLimit

ReportInv ==
    /\ ReportTypeOK /\ Timetabled /\ DispatchersFit /\ JobsFit /\ ExecutorsFit /\ PaidFits
    /\ LimitKept

Reports == [status : RunStatus, linked : BOOLEAN]
RunJobs == [state : {"none", "waiting", "active", "ended"}, holder : Executors \union {NoExecutor}]
DispatcherRecords == [at : {"idle", "locked", "enqueue", "giveup"}, run : Occurrences \union {NobodysRun}]
ExecutorRecords == [at : {"idle", "picked", "collect", "model", "finish"},
                    run : Occurrences \union {NobodysRun},
                    out : {"none", "succeeded", "failed", "cancelled", "skipped"}]

LEMMA ReportConstants ==
    /\ \A s \in Schedules : Timetable[s] \in Nat /\ Timetable[s] >= 1
    /\ DailyLimit \in Nat /\ DailyLimit >= 1 /\ MaxRunFaults \in Nat /\ NoExecutor \notin Executors
  BY ScheduleAssumption

LEMMA OccurrencePairs ==
    /\ \A o \in Occurrences : o[1] \in Schedules /\ o[2] \in 1 .. Timetable[o[1]] /\ o[2] \in Nat
    /\ \A o, p \in Occurrences : o[1] = p[1] /\ o[2] = p[2] => o = p
    /\ \A s \in Schedules : \A n \in 1 .. Timetable[s] : <<s, n>> \in Occurrences
    /\ NobodysRun \notin Occurrences
<1>1. \A o \in Occurrences : \E s \in Schedules : \E n \in 1 .. Timetable[s] : o = <<s, n>>
  BY DEF Occurrences
<1>2. \A s \in Schedules : \A n \in 1 .. Timetable[s] : <<s, n>> \in Occurrences
  BY DEF Occurrences
<1>3. NobodysRun \notin Occurrences
  BY <1>1, ScheduleAssumption DEF NobodysRun
<1> QED
  BY <1>1, <1>2, <1>3, ReportConstants

LEMMA ReportTypes ==
    ReportTypeOK <=>
      /\ schedule \in [Schedules -> [state : {"none", "kept", "removed"}, next : Nat]]
      /\ report \in [Occurrences -> Reports] /\ runJob \in [Occurrences -> RunJobs]
      /\ dispatcher \in [Dispatchers -> DispatcherRecords]
      /\ executor \in [Executors -> ExecutorRecords]
      /\ paid \in [Occurrences -> Nat] /\ runFaults \in 0 .. MaxRunFaults
  BY DEF ReportTypeOK, Reports, RunJobs, DispatcherRecords, ExecutorRecords

LEMMA ReportInitInv == ReportInit => ReportInv
<1> SUFFICES ASSUME ReportInit PROVE ReportInv
  OBVIOUS
<1>1. ReportTypeOK
  <2>1. schedule \in [Schedules -> [state : {"none", "kept", "removed"}, next : Nat]]
    BY DEF ReportInit, Never
  <2>2. report \in [Occurrences -> Reports] /\ runJob \in [Occurrences -> RunJobs]
    BY DEF ReportInit, Reports, RunJobs, RunStatus
  <2>3. dispatcher \in [Dispatchers -> DispatcherRecords] /\ executor \in [Executors -> ExecutorRecords]
    BY DEF ReportInit, DispatcherRecords, ExecutorRecords, IdleDispatcher, IdleExecutor
  <2>4. paid \in [Occurrences -> Nat] /\ runFaults \in 0 .. MaxRunFaults
    BY ReportConstants DEF ReportInit
  <2> QED
    BY <2>1, <2>2, <2>3, <2>4, ReportTypes
<1>2. Timetabled
  BY OccurrencePairs DEF ReportInit, Timetabled, Upcoming, Never
<1>3. DispatchersFit /\ JobsFit /\ ExecutorsFit
  BY DEF ReportInit, DispatchersFit, JobsFit, ExecutorsFit, TakenUp, IdleDispatcher, IdleExecutor,
         AtDispatch, AtExec
<1>4. PaidFits
  BY DEF ReportInit, PaidFits, IdleExecutor, AtExec
<1>5. CountedRuns = {}
  BY DEF ReportInit, CountedRuns, Counted, RunOpen
<1>6. LimitKept
  BY <1>5, FS_EmptySet, ReportConstants DEF LimitKept
<1> QED
  BY <1>1, <1>2, <1>3, <1>4, <1>6 DEF ReportInv

LEMMA RunFaultCounts == ASSUME ReportTypeOK, RunFault PROVE runFaults' \in 0 .. MaxRunFaults
<1>1. runFaults \in Nat /\ runFaults < MaxRunFaults /\ runFaults' = runFaults + 1
  BY ReportConstants DEF ReportTypeOK, RunFault
<1> QED
  BY <1>1, ReportConstants

(* Fewer runs that count are within the limit, too.                        *)
LEMMA LimitStays ==
    ASSUME LimitKept, CountedRuns' \subseteq CountedRuns
    PROVE  LimitKept'
<1>1. IsFiniteSet(CountedRuns') /\ Cardinality(CountedRuns') <= Cardinality(CountedRuns)
  BY FS_Subset DEF LimitKept
<1>2. Cardinality(CountedRuns) \in Nat /\ Cardinality(CountedRuns') \in Nat
  BY <1>1, FS_CardinalityType DEF LimitKept
<1> QED
  BY <1>1, <1>2, ReportConstants DEF LimitKept

LEMMA ReportFacts ==
    ASSUME ReportInv
    PROVE  /\ schedule \in [Schedules -> [state : {"none", "kept", "removed"}, next : Nat]]
           /\ report \in [Occurrences -> Reports] /\ runJob \in [Occurrences -> RunJobs]
           /\ dispatcher \in [Dispatchers -> DispatcherRecords]
           /\ executor \in [Executors -> ExecutorRecords]
           /\ paid \in [Occurrences -> Nat] /\ runFaults \in 0 .. MaxRunFaults
           /\ ReportTypeOK /\ Timetabled /\ DispatchersFit /\ JobsFit /\ ExecutorsFit /\ PaidFits /\ LimitKept
  BY ReportTypes DEF ReportInv

(* A run that is closed was open.                                          *)
LEMMA RunClosing ==
    ASSUME ReportInv, NEW o \in Occurrences, NEW s \in {"succeeded", "failed", "cancelled", "skipped"},
           RunCloses(o, s)
    PROVE  /\ report' \in [Occurrences -> Reports]
           /\ \A p \in Occurrences \ {o} : report'[p] = report[p]
           /\ \A p \in Occurrences : report'[p].status = "none" <=> report[p].status = "none"
           /\ report'[o].status = report[o].status \/ (report[o].status \in RunOpen /\ report'[o].status = s)
           /\ CountedRuns' \subseteq CountedRuns
<1>1. report \in [Occurrences -> Reports]
  BY ReportFacts
<1>2. /\ report' \in [Occurrences -> Reports] /\ \A p \in Occurrences \ {o} : report'[p] = report[p]
      /\ report'[o].status = report[o].status \/ (report[o].status \in RunOpen /\ report'[o].status = s)
  BY <1>1 DEF RunCloses, Reports, RunStatus, Counted, RunOpen
<1>3. \A p \in Occurrences : report'[p].status = "none" <=> report[p].status = "none"
  BY <1>2 DEF RunOpen
<1>4. CountedRuns' \subseteq CountedRuns
  BY <1>2 DEF CountedRuns, Counted
<1> QED
  BY <1>2, <1>3, <1>4

(* What depends on the timetable and the records alone.                    *)
LEMMA OwnerStep ==
    ASSUME ReportInv, NEW s \in Schedules, KeepSchedule(s) \/ UpdateSchedule(s) \/ RemoveSchedule(s)
    PROVE  ReportInv'
<1>f. /\ schedule \in [Schedules -> [state : {"none", "kept", "removed"}, next : Nat]]
      /\ report \in [Occurrences -> Reports] /\ ReportTypeOK /\ Timetabled /\ DispatchersFit
      /\ JobsFit /\ ExecutorsFit /\ PaidFits /\ LimitKept
  BY ReportFacts
<1>p. /\ \A o \in Occurrences : o[1] \in Schedules /\ o[2] \in Nat /\ o[2] >= 1
      /\ \A t \in Schedules : Timetable[t] \in Nat /\ Timetable[t] >= 1
  BY OccurrencePairs, ReportConstants
<1>u. UNCHANGED <<runJob, dispatcher, executor, paid, runFaults>>
  BY DEF KeepSchedule, UpdateSchedule, RemoveSchedule
<1>n. /\ \A t \in Schedules \ {s} : schedule'[t] = schedule[t]
      /\ schedule' \in [Schedules -> [state : {"none", "kept", "removed"}, next : Nat]]
      /\ schedule'[s].state \in {"kept", "removed"}
      /\ schedule'[s].next = Never \/
           (/\ schedule'[s].next \in 1 .. Timetable[s] /\ schedule'[s].state = "kept"
            /\ \/ schedule[s].state = "none"
               \/ schedule[s].next # Never /\ schedule'[s].next > schedule[s].next)
  <2>1. CASE KeepSchedule(s)
    BY <1>f, <1>p, <2>1 DEF KeepSchedule, Never
  <2>2. CASE UpdateSchedule(s)
    <3>1. PICK n \in {Never} \union ((schedule[s].next + 1) .. Timetable[s]) :
              schedule[s].next # Never /\ schedule' = [schedule EXCEPT ![s].next = n]
      BY <2>2 DEF UpdateSchedule
    <3>2. n \in Nat /\ (n = Never \/ (n \in 1 .. Timetable[s] /\ n > schedule[s].next))
      BY <1>f, <1>p DEF Never
    <3>3. schedule[s].state = "kept"
      BY <2>2 DEF UpdateSchedule
    <3> QED
      BY <1>f, <3>1, <3>2, <3>3
  <2>3. CASE RemoveSchedule(s)
    BY <1>f, <1>p, <2>3 DEF RemoveSchedule, Never
  <2> QED
    BY <2>1, <2>2, <2>3
<1>l. ~Locked(s)
  <2>1. schedule[s].state = "none" => ~Locked(s)
    BY <1>f DEF Timetabled, Locked, DispatchersFit
  <2> QED
    BY <2>1 DEF KeepSchedule, UpdateSchedule, RemoveSchedule
<1>r. /\ report' \in [Occurrences -> Reports]
      /\ \A o \in Occurrences : report'[o].status = report[o].status
  <2>1. CASE RemoveSchedule(s)
    <3>1. report' = [o \in Occurrences |->
                       IF o[1] = s THEN [report[o] EXCEPT !.linked = FALSE] ELSE report[o]]
      BY <2>1 DEF RemoveSchedule
    <3> QED
      BY <1>f, <3>1 DEF Reports
  <2>2. CASE ~RemoveSchedule(s)
    BY <1>f, <2>2 DEF KeepSchedule, UpdateSchedule
  <2> QED
    BY <2>1, <2>2
<1>1. ReportTypeOK'
  BY <1>f, <1>u, <1>n, <1>r DEF ReportTypeOK, Reports
<1>2. Timetabled'
  <2>1. ASSUME NEW o \in Occurrences, Upcoming(o)' PROVE Upcoming(o)
    <3>1. CASE o[1] # s
      BY <1>n, <1>p, <2>1, <3>1 DEF Upcoming
    <3>2. CASE o[1] = s
      BY <1>f, <1>n, <1>p, <2>1, <3>2 DEF Upcoming
    <3> QED
      BY <3>1, <3>2
  <2>2. ASSUME NEW t \in Schedules
        PROVE  /\ schedule'[t].next # Never => schedule'[t].next \in 1 .. Timetable[t]
               /\ schedule'[t].state = "none" => schedule'[t].next = Never
    BY <1>f, <1>n DEF Timetabled
  <2> QED
    BY <1>f, <1>r, <2>1, <2>2 DEF Timetabled
<1>3. DispatchersFit'
  <2>1. \A d \in Dispatchers : AtDispatch(d, "locked") => dispatcher[d].run[1] \in Schedules \ {s}
    BY <1>f, <1>l, <1>p DEF DispatchersFit, Locked, AtDispatch
  <2> QED
    BY <1>f, <1>u, <1>n, <1>r, <2>1 DEF DispatchersFit, AtDispatch
<1>4. JobsFit' /\ ExecutorsFit' /\ PaidFits'
  BY <1>f, <1>u, <1>r DEF JobsFit, ExecutorsFit, PaidFits, TakenUp, AtExec
<1>5. CountedRuns' \subseteq CountedRuns
  BY <1>r DEF CountedRuns
<1> QED
  BY <1>f, <1>1, <1>2, <1>3, <1>4, <1>5, LimitStays DEF ReportInv

(* A run is closed by one who is not its worker.                           *)
LEMMA ClosingStep ==
    ASSUME ReportInv, NEW o \in Occurrences, RunCloses(o, "failed"), UNCHANGED <<schedule, executor, paid>>,
           runFaults' \in 0 .. MaxRunFaults,
           runJob' = runJob,
           dispatcher' = dispatcher \/ \E d \in Dispatchers : dispatcher' = [dispatcher EXCEPT ![d] = IdleDispatcher]
    PROVE  ReportInv'
<1>f. /\ report \in [Occurrences -> Reports] /\ dispatcher \in [Dispatchers -> DispatcherRecords]
      /\ ReportTypeOK /\ Timetabled /\ DispatchersFit /\ JobsFit /\ ExecutorsFit /\ PaidFits /\ LimitKept
  BY ReportFacts
<1>r. /\ report' \in [Occurrences -> Reports]
      /\ \A p \in Occurrences \ {o} : report'[p] = report[p]
      /\ \A p \in Occurrences : report'[p].status = "none" <=> report[p].status = "none"
      /\ report'[o].status = report[o].status \/ (report[o].status \in RunOpen /\ report'[o].status = "failed")
      /\ CountedRuns' \subseteq CountedRuns
  BY RunClosing
<1>d. /\ dispatcher' \in [Dispatchers -> DispatcherRecords]
      /\ \A d \in Dispatchers : dispatcher'[d] = dispatcher[d] \/ dispatcher'[d].at = "idle"
  BY <1>f DEF DispatcherRecords, IdleDispatcher
<1>1. ReportTypeOK'
  BY <1>f, <1>r, <1>d DEF ReportTypeOK, Reports, DispatcherRecords
<1>2. Timetabled' /\ JobsFit'
  BY <1>f, <1>r DEF Timetabled, Upcoming, JobsFit
<1>3. DispatchersFit'
  BY <1>f, <1>r, <1>d DEF DispatchersFit, AtDispatch
<1>4. ExecutorsFit'
  BY <1>f, <1>r DEF ExecutorsFit, TakenUp, AtExec, RunOpen
<1>5. PaidFits'
  BY <1>f, <1>r DEF PaidFits, AtExec, Counted, RunOpen
<1> QED
  BY <1>f, <1>r, <1>1, <1>2, <1>3, <1>4, <1>5, LimitStays DEF ReportInv

LEMMA DispatcherStep ==
    ASSUME ReportInv, NEW d \in Dispatchers,
           \/ EnqueueRun(d) \/ GiveRunUp(d) \/ DispatcherDies(d)
           \/ \E s \in Schedules : TakeDue(d, s)
    PROVE  ReportInv'
<1>f. /\ report \in [Occurrences -> Reports] /\ dispatcher \in [Dispatchers -> DispatcherRecords]
      /\ runJob \in [Occurrences -> RunJobs] /\ runFaults \in 0 .. MaxRunFaults
      /\ ReportTypeOK /\ Timetabled /\ DispatchersFit /\ JobsFit /\ ExecutorsFit /\ PaidFits /\ LimitKept
      /\ schedule \in [Schedules -> [state : {"none", "kept", "removed"}, next : Nat]]
  BY ReportFacts
<1>k. ASSUME UNCHANGED <<schedule, report, executor, paid>>, runFaults' \in 0 .. MaxRunFaults,
             dispatcher' \in [Dispatchers -> DispatcherRecords], DispatchersFit',
             runJob' \in [Occurrences -> RunJobs], JobsFit'
      PROVE  ReportInv'
  <2>1. ReportTypeOK'
    BY <1>f, <1>k DEF ReportTypeOK, DispatcherRecords, RunJobs
  <2>2. Timetabled' /\ ExecutorsFit' /\ PaidFits'
    BY <1>f, <1>k DEF Timetabled, Upcoming, ExecutorsFit, PaidFits, TakenUp, AtExec
  <2>3. LimitKept'
    BY <1>f, <1>k, LimitStays DEF CountedRuns
  <2> QED
    BY <1>k, <2>1, <2>2, <2>3 DEF ReportInv
<1>i. IdleDispatcher \in DispatcherRecords /\ IdleDispatcher.at = "idle"
  BY DEF IdleDispatcher, DispatcherRecords
<1>1. ASSUME NEW s \in Schedules, TakeDue(d, s) PROVE ReportInv'
  <2> DEFINE o == <<s, schedule[s].next>>  r == [at |-> "locked", run |-> o]
  <2>1. o \in Occurrences /\ o[1] = s /\ o[2] = schedule[s].next /\ schedule[s].next # Never
    BY <1>1, <1>f, OccurrencePairs DEF TakeDue, Timetabled
  <2>2. /\ dispatcher' = [dispatcher EXCEPT ![d] = r]
        /\ UNCHANGED <<schedule, report, runJob, executor, paid, runFaults>>
        /\ \A e \in Dispatchers : AtDispatch(e, "locked") => dispatcher[e].run[1] # s
    BY <1>1 DEF TakeDue, Locked
  <2>3. r \in DispatcherRecords /\ r.at = "locked" /\ r.run = o
    BY <2>1 DEF DispatcherRecords
  <2> HIDE DEF o, r
  <2>4. /\ dispatcher' \in [Dispatchers -> DispatcherRecords] /\ dispatcher'[d] = r
        /\ \A e \in Dispatchers \ {d} : dispatcher'[e] = dispatcher[e]
    BY <1>f, <2>2, <2>3
  <2>5. DispatchersFit'
    BY <1>f, <2>1, <2>2, <2>3, <2>4 DEF DispatchersFit, AtDispatch
  <2> QED
    BY <1>f, <1>k, <2>2, <2>4, <2>5 DEF JobsFit
<1>2. CASE DispatcherDies(d)
  <2>1. /\ UNCHANGED <<schedule, report, runJob, executor, paid>> /\ runFaults' \in 0 .. MaxRunFaults
        /\ dispatcher' = [dispatcher EXCEPT ![d] = IdleDispatcher]
    BY <1>2, <1>f, RunFaultCounts DEF DispatcherDies
  <2>2. /\ dispatcher' \in [Dispatchers -> DispatcherRecords]
        /\ \A e \in Dispatchers : dispatcher'[e] = dispatcher[e] \/ dispatcher'[e].at = "idle"
    BY <1>f, <1>i, <2>1
  <2>3. DispatchersFit'
    BY <1>f, <2>1, <2>2 DEF DispatchersFit, AtDispatch
  <2> QED
    BY <1>f, <1>k, <2>1, <2>2, <2>3 DEF JobsFit
<1>3. CASE GiveRunUp(d)
  <2>1. PICK o \in Occurrences : o = dispatcher[d].run
    BY <1>3, <1>f DEF GiveRunUp, DispatchersFit, AtDispatch
  <2> QED
    BY <1>3, <1>f, <2>1, ClosingStep DEF GiveRunUp
<1>4. CASE EnqueueRun(d)
  <2>1. PICK o \in Occurrences : o = dispatcher[d].run /\ report[o].status # "none"
    BY <1>4, <1>f DEF EnqueueRun, DispatchersFit, AtDispatch
  <2>2. /\ runJob' = runJob \/ runJob' = [runJob EXCEPT ![o].state = "waiting"]
        /\ \/ dispatcher' = [dispatcher EXCEPT ![d] = IdleDispatcher]
           \/ dispatcher' = [dispatcher EXCEPT ![d].at = "giveup"]
        /\ UNCHANGED <<schedule, report, executor, paid>> /\ dispatcher[d].at = "enqueue"
        /\ runFaults' \in 0 .. MaxRunFaults
    BY <1>4, <1>f, <2>1, RunFaultCounts DEF EnqueueRun, AtDispatch
  <2>3. runJob' \in [Occurrences -> RunJobs] /\ JobsFit'
    BY <1>f, <2>1, <2>2 DEF JobsFit, RunJobs
  <2>4. /\ dispatcher' \in [Dispatchers -> DispatcherRecords]
        /\ \A e \in Dispatchers : \/ dispatcher'[e] = dispatcher[e] \/ dispatcher'[e].at = "idle"
                                  \/ e = d /\ dispatcher'[e].at = "giveup" /\ dispatcher'[e].run = o
    BY <1>f, <1>i, <2>1, <2>2 DEF DispatcherRecords
  <2>5. DispatchersFit'
    BY <1>f, <2>1, <2>2, <2>4 DEF DispatchersFit, AtDispatch
  <2> QED
    BY <1>k, <2>2, <2>3, <2>4, <2>5
<1> QED
  BY <1>1, <1>2, <1>3, <1>4

LEMMA AbandonedStep ==
    ASSUME ReportInv, NEW o \in Occurrences, CloseAbandoned(o)
    PROVE  ReportInv'
<1>1. runFaults' \in 0 .. MaxRunFaults
  BY ReportFacts, RunFaultCounts DEF CloseAbandoned
<1> QED
  BY <1>1, ClosingStep DEF CloseAbandoned

(* One run more, which is queued while the limit is not reached.           *)
LEMMA LimitGrows ==
    ASSUME LimitKept, NEW o,
           \/ CountedRuns' \subseteq CountedRuns
           \/ CountedRuns' \subseteq CountedRuns \union {o} /\ ~(UsedToday >= DailyLimit)
    PROVE  LimitKept'
<1>1. CASE CountedRuns' \subseteq CountedRuns
  BY <1>1, LimitStays
<1>2. CASE CountedRuns' \subseteq CountedRuns \union {o} /\ ~(UsedToday >= DailyLimit)
  <2>1. /\ IsFiniteSet(CountedRuns \union {o})
        /\ Cardinality(CountedRuns \union {o}) = Cardinality(CountedRuns)
             \/ Cardinality(CountedRuns \union {o}) = Cardinality(CountedRuns) + 1
    BY FS_AddElement DEF LimitKept
  <2>2. IsFiniteSet(CountedRuns') /\ Cardinality(CountedRuns') <= Cardinality(CountedRuns \union {o})
    BY <1>2, <2>1, FS_Subset
  <2>3. /\ Cardinality(CountedRuns) \in Nat /\ Cardinality(CountedRuns') \in Nat
        /\ Cardinality(CountedRuns \union {o}) \in Nat
    BY <2>1, <2>2, FS_CardinalityType DEF LimitKept
  <2>4. UsedToday = Cardinality(CountedRuns)
    BY DEF UsedToday, CountedRuns
  <2>5. Cardinality(CountedRuns) < DailyLimit
    BY <1>2, <2>3, <2>4, ReportConstants
  <2>6. Cardinality(CountedRuns') <= DailyLimit
    BY <2>1, <2>2, <2>3, <2>5, ReportConstants
  <2> QED
    BY <2>2, <2>6 DEF LimitKept
<1> QED
  BY <1>1, <1>2

LEMMA DispatchStep ==
    ASSUME ReportInv, NEW d \in Dispatchers, DispatchOne(d)
    PROVE  ReportInv'
<1>f. /\ schedule \in [Schedules -> [state : {"none", "kept", "removed"}, next : Nat]]
      /\ report \in [Occurrences -> Reports] /\ dispatcher \in [Dispatchers -> DispatcherRecords]
      /\ ReportTypeOK /\ Timetabled /\ DispatchersFit /\ JobsFit /\ ExecutorsFit /\ PaidFits /\ LimitKept
  BY ReportFacts
<1>u. UNCHANGED <<runJob, executor, paid, runFaults>> /\ dispatcher[d].at = "locked"
  BY DEF DispatchOne, AtDispatch
<1>o. PICK o \in Occurrences :
          o = dispatcher[d].run /\ schedule[o[1]].next # Never /\ o[2] = schedule[o[1]].next
  BY <1>f, <1>u DEF DispatchersFit, AtDispatch
<1>s. PICK s \in Schedules : s = o[1]
  BY OccurrencePairs
<1>p. /\ \A p \in Occurrences : p[1] \in Schedules /\ p[2] \in Nat /\ p[2] >= 1
      /\ \A t \in Schedules : Timetable[t] \in Nat /\ Timetable[t] >= 1
      /\ \A p \in Occurrences : p[1] = s /\ p[2] = o[2] => p = o
  BY <1>s, OccurrencePairs, ReportConstants
<1>n. /\ report[o].status = "none"
      /\ paid[o] = 0 /\ runJob[o].state = "none" /\ schedule[s].state # "none"
      /\ \A k \in Executors : executor[k].run # o \/ AtExec(k, "idle")
      /\ \A e \in Dispatchers : AtDispatch(e, "enqueue") \/ AtDispatch(e, "giveup") => dispatcher[e].run # o
  <2>1. Upcoming(o) /\ schedule[s].state # "none"
    BY <1>f, <1>o, <1>s, <1>p DEF Upcoming, Timetabled
  <2>2. report[o].status = "none"
    BY <1>f, <2>1 DEF Timetabled
  <2> QED
    BY <1>f, <2>1, <2>2 DEF DispatchersFit, JobsFit, ExecutorsFit, PaidFits, Counted, RunOpen
<1>e. PICK n \in {Never} \union ((o[2] + 1) .. Timetable[s]) :
          schedule' = [schedule EXCEPT ![s].next = n]
  BY <1>o, <1>s DEF DispatchOne
<1>r. PICK x \in {"missed", "skipped", "queued"} :
          /\ report' = [report EXCEPT ![o] = [status |-> x, linked |-> TRUE]]
          /\ dispatcher' = [dispatcher EXCEPT ![d] =
               IF x = "queued" THEN [@ EXCEPT !.at = "enqueue"] ELSE IdleDispatcher]
          /\ x = "queued" => ~(UsedToday >= DailyLimit)
  <2>1. PICK late \in BOOLEAN :
            LET x == IF late THEN "missed"
                     ELSE IF StillAtIt(s) \/ UsedToday >= DailyLimit THEN "skipped" ELSE "queued" IN
            /\ report' = [report EXCEPT ![o] = [status |-> x, linked |-> TRUE]]
            /\ dispatcher' = [dispatcher EXCEPT ![d] =
                 IF x = "queued" THEN [@ EXCEPT !.at = "enqueue"] ELSE IdleDispatcher]
    BY <1>o, <1>s DEF DispatchOne
  <2>2. CASE late
    BY <2>1, <2>2
  <2>3. CASE ~late /\ (StillAtIt(s) \/ UsedToday >= DailyLimit)
    BY <2>1, <2>3
  <2>4. CASE ~late /\ ~(StillAtIt(s) \/ UsedToday >= DailyLimit)
    BY <2>1, <2>4
  <2> QED
    BY <2>2, <2>3, <2>4
<1>a. /\ n \in Nat /\ (n = Never \/ (n \in 1 .. Timetable[s] /\ n > o[2]))
      /\ schedule' \in [Schedules -> [state : {"none", "kept", "removed"}, next : Nat]]
      /\ schedule'[s].state = schedule[s].state /\ schedule'[s].next = n
      /\ \A t \in Schedules \ {s} : schedule'[t] = schedule[t]
  <2>1. n \in Nat /\ (n = Never \/ (n \in 1 .. Timetable[s] /\ n > o[2]))
    BY <1>p, <1>o DEF Never
  <2> QED
    BY <1>f, <1>e, <2>1
<1>b. /\ report' \in [Occurrences -> Reports] /\ report'[o].status = x
      /\ \A p \in Occurrences \ {o} : report'[p] = report[p]
  BY <1>f, <1>r DEF Reports, RunStatus, Counted, RunOpen
<1>c. /\ dispatcher' \in [Dispatchers -> DispatcherRecords]
      /\ \A e \in Dispatchers \ {d} : dispatcher'[e] = dispatcher[e]
      /\ dispatcher'[d].at = "idle" \/ (dispatcher'[d].at = "enqueue" /\ dispatcher'[d].run = o)
  <2>1. IdleDispatcher \in DispatcherRecords /\ IdleDispatcher.at = "idle"
    BY DEF IdleDispatcher, DispatcherRecords
  <2>2. /\ [dispatcher[d] EXCEPT !.at = "enqueue"] \in DispatcherRecords
        /\ [dispatcher[d] EXCEPT !.at = "enqueue"].at = "enqueue"
        /\ [dispatcher[d] EXCEPT !.at = "enqueue"].run = o
    BY <1>f, <1>o DEF DispatcherRecords
  <2> QED
    BY <1>f, <1>r, <2>1, <2>2
<1>d. \A e \in Dispatchers \ {d} : AtDispatch(e, "locked") => dispatcher[e].run[1] # s
  BY <1>f, <1>u, <1>o, <1>s DEF DispatchersFit, AtDispatch
<1>1. ReportTypeOK'
  BY <1>f, <1>u, <1>a, <1>b, <1>c DEF ReportTypeOK, Reports, DispatcherRecords
<1>2. Timetabled'
  <2>1. ASSUME NEW p \in Occurrences, Upcoming(p)' PROVE Upcoming(p) /\ p # o
    <3>1. CASE p[1] # s
      BY <1>a, <1>p, <1>s, <2>1, <3>1 DEF Upcoming
    <3>2. CASE p[1] = s
      <4>1. n # Never /\ p[2] >= n /\ n > o[2]
        BY <1>a, <1>n, <2>1, <3>2 DEF Upcoming
      <4>2. p[2] >= o[2] /\ p[2] # o[2]
        BY <1>a, <1>p, <4>1
      <4> QED
        BY <1>o, <1>s, <3>2, <4>2 DEF Upcoming
    <3> QED
      BY <3>1, <3>2
  <2>2. ASSUME NEW t \in Schedules
        PROVE  /\ schedule'[t].next # Never => schedule'[t].next \in 1 .. Timetable[t]
               /\ schedule'[t].state = "none" => schedule'[t].next = Never
    BY <1>f, <1>a, <1>n DEF Timetabled
  <2> QED
    BY <1>f, <1>b, <2>1, <2>2 DEF Timetabled
<1>3. DispatchersFit'
  <2>1. ASSUME NEW e \in Dispatchers
        PROVE  LET q == dispatcher'[e].run IN
               /\ dispatcher'[e].at # "idle" => q \in Occurrences
               /\ dispatcher'[e].at = "locked" => schedule'[q[1]].next # Never /\ q[2] = schedule'[q[1]].next
               /\ dispatcher'[e].at \in {"enqueue", "giveup"} => report'[q].status # "none"
    <3>1. CASE e = d
      BY <1>b, <1>c, <3>1
    <3>2. CASE e # d
      <4>1. dispatcher'[e] = dispatcher[e]
        BY <1>c, <3>2
      <4>2. dispatcher[e].at # "idle" => dispatcher[e].run \in Occurrences /\ dispatcher[e].run[1] \in Schedules
        BY <1>f, <1>p DEF DispatchersFit, AtDispatch
      <4>3. dispatcher[e].at = "locked" => dispatcher[e].run[1] \in Schedules \ {s}
        BY <1>d, <4>2, <3>2 DEF AtDispatch
      <4>4. dispatcher[e].at \in {"enqueue", "giveup"} =>
                report[dispatcher[e].run].status # "none" /\ dispatcher[e].run \in Occurrences \ {o}
        BY <1>f, <1>n, <4>2 DEF DispatchersFit, AtDispatch
      <4> QED
        BY <1>f, <1>a, <1>b, <4>1, <4>2, <4>3, <4>4 DEF DispatchersFit, AtDispatch
    <3> QED
      BY <3>1, <3>2
  <2>2. \A e, g \in Dispatchers :
            e # g /\ dispatcher'[e].at = "locked" /\ dispatcher'[g].at = "locked" =>
                dispatcher'[e].run[1] # dispatcher'[g].run[1]
    BY <1>f, <1>c DEF DispatchersFit, AtDispatch
  <2> QED
    BY <2>1, <2>2 DEF DispatchersFit, AtDispatch
<1>4. JobsFit'
  BY <1>f, <1>u, <1>b, <1>n DEF JobsFit
<1>5. ExecutorsFit'
  BY <1>f, <1>u, <1>b, <1>n DEF ExecutorsFit, TakenUp, AtExec
<1>6. PaidFits'
  BY <1>f, <1>u, <1>b, <1>n DEF PaidFits, AtExec
<1>7. LimitKept'
  <2>1. CountedRuns' \subseteq CountedRuns \union {o} /\ (x # "queued" => CountedRuns' \subseteq CountedRuns)
    BY <1>b DEF CountedRuns, Counted, RunOpen
  <2> QED
    BY <1>f, <1>r, <2>1, LimitGrows
<1> QED
  BY <1>1, <1>2, <1>3, <1>4, <1>5, <1>6, <1>7 DEF ReportInv

(* What a worker's step has to show of itself: the records it leaves alone *)
(* keep what depends on them.                                              *)
LEMMA WorkerStep ==
    ASSUME ReportInv, UNCHANGED <<schedule, dispatcher>>,
           runFaults' \in 0 .. MaxRunFaults, paid' \in [Occurrences -> Nat],
           report' \in [Occurrences -> Reports], runJob' \in [Occurrences -> RunJobs],
           executor' \in [Executors -> ExecutorRecords],
           \A o \in Occurrences : report'[o].status = "none" <=> report[o].status = "none",
           CountedRuns' \subseteq CountedRuns, JobsFit', ExecutorsFit', PaidFits'
    PROVE  ReportInv'
<1>f. /\ dispatcher \in [Dispatchers -> DispatcherRecords]
      /\ ReportTypeOK /\ Timetabled /\ DispatchersFit /\ JobsFit /\ LimitKept
  BY ReportFacts
<1>1. ReportTypeOK'
  BY <1>f DEF ReportTypeOK, Reports, RunJobs, ExecutorRecords
<1>2. Timetabled'
  BY <1>f DEF Timetabled, Upcoming
<1>3. DispatchersFit'
  BY <1>f DEF DispatchersFit, AtDispatch
<1> QED
  BY <1>f, <1>1, <1>2, <1>3, LimitStays DEF ReportInv

LEMMA PickStep ==
    ASSUME ReportInv, NEW k \in Executors, NEW o \in Occurrences, PickReport(k, o)
    PROVE  ReportInv'
<1>f. /\ report \in [Occurrences -> Reports] /\ runJob \in [Occurrences -> RunJobs]
      /\ executor \in [Executors -> ExecutorRecords] /\ paid \in [Occurrences -> Nat]
      /\ runFaults \in 0 .. MaxRunFaults /\ JobsFit /\ ExecutorsFit /\ PaidFits
  BY ReportFacts
<1> DEFINE j == [state |-> "active", holder |-> k]  r == [IdleExecutor EXCEPT !.at = "picked", !.run = o]
<1>1. /\ runJob' = [runJob EXCEPT ![o] = j] /\ executor' = [executor EXCEPT ![k] = r]
      /\ UNCHANGED <<schedule, report, dispatcher, paid, runFaults>> /\ runJob[o].state = "waiting"
  BY DEF PickReport
<1>2. j \in RunJobs /\ j.state = "active" /\ r \in ExecutorRecords /\ r.at = "picked" /\ r.run = o
  BY DEF RunJobs, ExecutorRecords, IdleExecutor
<1> HIDE DEF j, r
<1>3. /\ runJob' \in [Occurrences -> RunJobs] /\ executor' \in [Executors -> ExecutorRecords]
      /\ executor'[k] = r /\ \A i \in Executors \ {k} : executor'[i] = executor[i]
      /\ \A p \in Occurrences \ {o} : runJob'[p] = runJob[p]
  BY <1>f, <1>1, <1>2
<1>4. report[o].status # "none"
  BY <1>f, <1>1 DEF JobsFit
<1>8. JobsFit'
  BY <1>f, <1>1, <1>3, <1>4 DEF JobsFit
<1>5. ExecutorsFit'
  BY <1>f, <1>1, <1>2, <1>3, <1>4 DEF ExecutorsFit, TakenUp, AtExec
<1>6. PaidFits'
  BY <1>f, <1>1, <1>2, <1>3 DEF PaidFits, AtExec
<1>7. CountedRuns' \subseteq CountedRuns
  BY <1>1 DEF CountedRuns
<1> QED
  BY <1>f, <1>1, <1>3, <1>5, <1>6, <1>7, <1>8, WorkerStep

(* A worker that returns lets its run go.                                  *)
LEMMA ReturningWorker ==
    ASSUME ReportInv, NEW k \in Executors, ~AtExec(k, "idle"), Returns(k)
    PROVE  /\ executor' \in [Executors -> ExecutorRecords] /\ executor'[k].at = "idle"
           /\ \A i \in Executors \ {k} : executor'[i] = executor[i]
           /\ runJob' \in [Occurrences -> RunJobs]
           /\ \A p \in Occurrences : runJob'[p].state = "none" \/ report[p].status # "none"
<1>f. /\ runJob \in [Occurrences -> RunJobs] /\ executor \in [Executors -> ExecutorRecords]
      /\ JobsFit /\ ExecutorsFit
  BY ReportFacts
<1>1. PICK o \in Occurrences : o = executor[k].run /\ report[o].status # "none"
  BY <1>f DEF ExecutorsFit
<1>2. IdleExecutor \in ExecutorRecords /\ IdleExecutor.at = "idle"
  BY DEF IdleExecutor, ExecutorRecords
<1>3. executor' = [executor EXCEPT ![k] = IdleExecutor]
  BY DEF Returns
<1>4. runJob' = runJob \/ (runJob[o].holder = k /\ runJob' = [runJob EXCEPT ![o].state = "ended"])
  BY <1>1 DEF Returns
<1>6. /\ executor' \in [Executors -> ExecutorRecords] /\ executor'[k].at = "idle"
      /\ \A i \in Executors \ {k} : executor'[i] = executor[i]
  BY <1>f, <1>2, <1>3
<1>7. runJob' \in [Occurrences -> RunJobs]
  BY <1>f, <1>4 DEF RunJobs
<1>8. \A p \in Occurrences : runJob'[p].state = "none" \/ report[p].status # "none"
  BY <1>f, <1>1, <1>4 DEF JobsFit
<1> QED
  BY <1>6, <1>7, <1>8

LEMMA TakeUpStep ==
    ASSUME ReportInv, NEW k \in Executors, TakeUp(k)
    PROVE  ReportInv'
<1>f. /\ report \in [Occurrences -> Reports] /\ runJob \in [Occurrences -> RunJobs]
      /\ executor \in [Executors -> ExecutorRecords] /\ paid \in [Occurrences -> Nat]
      /\ runFaults \in 0 .. MaxRunFaults /\ JobsFit /\ ExecutorsFit /\ PaidFits
  BY ReportFacts
<1>u. UNCHANGED <<schedule, dispatcher, paid, runFaults>> /\ executor[k].at = "picked"
  BY DEF TakeUp, AtExec
<1>o. PICK o \in Occurrences : o = executor[k].run
  BY <1>f, <1>u DEF ExecutorsFit, AtExec
<1>1. CASE Takes(report[o].status)
  <2>1. /\ report' = [report EXCEPT ![o].status = "running"] /\ runJob' = runJob
        /\ report[o].status = "queued"
        /\ \/ executor' = [executor EXCEPT ![k].at = "collect"]
           \/ executor' = [executor EXCEPT ![k].at = "finish", ![k].out = "skipped"]
    BY <1>1, <1>o DEF TakeUp, Takes, EndsAs
  <2>2. /\ report' \in [Occurrences -> Reports] /\ report'[o].status = "running"
        /\ \A p \in Occurrences \ {o} : report'[p] = report[p]
    BY <1>f, <2>1 DEF Reports, RunStatus, Counted, RunOpen
  <2>3. /\ executor' \in [Executors -> ExecutorRecords] /\ executor'[k].run = o
        /\ executor'[k].at = "collect" \/ (executor'[k].at = "finish" /\ executor'[k].out = "skipped")
        /\ \A i \in Executors \ {k} : executor'[i] = executor[i]
    <3>1. CASE executor' = [executor EXCEPT ![k].at = "collect"]
      BY <1>f, <1>o, <3>1 DEF ExecutorRecords
    <3>2. CASE executor' = [executor EXCEPT ![k].at = "finish", ![k].out = "skipped"]
      BY <1>f, <1>o, <3>2 DEF ExecutorRecords
    <3> QED
      BY <2>1, <3>1, <3>2
  <2>4. \A i \in Executors \ {k} : TakenUp(i) => executor[i].run # o
    BY <1>f, <2>1 DEF ExecutorsFit
  <2>5. paid[o] = 0
    BY <1>f, <2>1 DEF PaidFits
  <2>6. ExecutorsFit'
    BY <1>f, <2>2, <2>3, <2>4 DEF ExecutorsFit, TakenUp, AtExec
  <2>7. PaidFits'
    BY <1>f, <1>u, <2>2, <2>3, <2>5 DEF PaidFits, AtExec
  <2>8. JobsFit' /\ \A p \in Occurrences : report'[p].status = "none" <=> report[p].status = "none"
    BY <1>f, <2>1, <2>2 DEF JobsFit
  <2>9. CountedRuns' \subseteq CountedRuns
    BY <2>1, <2>2 DEF CountedRuns, Counted, RunOpen
  <2> QED
    BY <1>f, <1>u, <2>1, <2>2, <2>3, <2>6, <2>7, <2>8, <2>9, WorkerStep
<1>2. CASE ~Takes(report[o].status)
  <2>1. Returns(k) /\ report' = report
    BY <1>2, <1>o DEF TakeUp
  <2>2. /\ executor' \in [Executors -> ExecutorRecords] /\ executor'[k].at = "idle"
        /\ \A i \in Executors \ {k} : executor'[i] = executor[i]
        /\ runJob' \in [Occurrences -> RunJobs]
        /\ \A p \in Occurrences : runJob'[p].state = "none" \/ report[p].status # "none"
    BY <1>u, <2>1, ReturningWorker DEF AtExec
  <2>3. ExecutorsFit'
    BY <1>f, <2>1, <2>2 DEF ExecutorsFit, TakenUp, AtExec
  <2>4. PaidFits'
    BY <1>f, <1>u, <2>1, <2>2 DEF PaidFits, AtExec
  <2>5. JobsFit' /\ CountedRuns' \subseteq CountedRuns
    BY <2>1, <2>2 DEF JobsFit, CountedRuns
  <2> QED
    BY <1>f, <1>u, <2>1, <2>2, <2>3, <2>4, <2>5, WorkerStep
<1> QED
  BY <1>1, <1>2

LEMMA CollectStep ==
    ASSUME ReportInv, NEW k \in Executors, Collect(k) \/ Generate(k)
    PROVE  ReportInv'
<1>f. /\ report \in [Occurrences -> Reports] /\ runJob \in [Occurrences -> RunJobs]
      /\ executor \in [Executors -> ExecutorRecords] /\ paid \in [Occurrences -> Nat]
      /\ runFaults \in 0 .. MaxRunFaults /\ JobsFit /\ ExecutorsFit /\ PaidFits
  BY ReportFacts
<1>u. /\ UNCHANGED <<schedule, report, runJob, dispatcher, runFaults>>
      /\ executor[k].at \in {"collect", "model"}
  BY DEF Collect, Generate, AtExec
<1>o. PICK o \in Occurrences :
          o = executor[k].run /\ report[o].status \in {"running", "failed"} /\ paid[o] = 0
  BY <1>f, <1>u DEF ExecutorsFit, PaidFits, TakenUp, AtExec
<1>e. \E a \in {"model", "finish"}, x \in {"none", "succeeded", "failed", "cancelled", "skipped"} :
          /\ executor' = [executor EXCEPT ![k].at = a, ![k].out = x]
          /\ a = "finish" => x # "none"
          /\ paid' = paid \/ (paid' = [paid EXCEPT ![o] = @ + 1] /\ a = "finish" /\ x # "skipped")
  <2>1. CASE Collect(k) /\ executor' = [executor EXCEPT ![k].at = "model"]
    <3>1. executor' = [executor EXCEPT ![k].at = "model", ![k].out = executor[k].out]
      BY <1>f, <2>1 DEF ExecutorRecords
    <3>2. executor[k].out \in {"none", "succeeded", "failed", "cancelled", "skipped"}
      BY <1>f DEF ExecutorRecords
    <3>3. paid' = paid
      BY <2>1 DEF Collect
    <3> QED
      BY <3>1, <3>2, <3>3
  <2>2. CASE Collect(k) /\ \E x \in {"skipped", "failed", "cancelled"} : EndsAs(k, x)
    BY <2>2 DEF Collect, EndsAs
  <2>3. CASE Generate(k)
    BY <1>o, <2>3 DEF Generate, EndsAs
  <2> QED
    BY <2>1, <2>2, <2>3 DEF Collect
<1>x. PICK a \in {"model", "finish"}, x \in {"none", "succeeded", "failed", "cancelled", "skipped"} :
          /\ executor' = [executor EXCEPT ![k].at = a, ![k].out = x]
          /\ a = "finish" => x # "none"
          /\ paid' = paid \/ (paid' = [paid EXCEPT ![o] = @ + 1] /\ a = "finish" /\ x # "skipped")
  BY <1>e
<1>1. /\ executor' \in [Executors -> ExecutorRecords]
      /\ executor'[k].run = o /\ executor'[k].at = a /\ executor'[k].out = x
      /\ \A i \in Executors \ {k} : executor'[i] = executor[i]
  <2> DEFINE r == [executor[k] EXCEPT !.at = a, !.out = x]
  <2>1. executor' = [executor EXCEPT ![k] = r]
    BY <1>f, <1>x
  <2>2. executor[k] \in ExecutorRecords
    BY <1>f
  <2>3. r \in ExecutorRecords /\ r.run = o /\ r.at = a /\ r.out = x
    BY <1>o, <2>2 DEF ExecutorRecords
  <2> HIDE DEF r
  <2> QED
    BY <1>f, <2>1, <2>3
<1>2. /\ paid' \in [Occurrences -> Nat] /\ \A p \in Occurrences \ {o} : paid'[p] = paid[p]
      /\ paid'[o] = 0 \/ (paid'[o] = 1 /\ a = "finish" /\ x # "skipped")
  BY <1>f, <1>o, <1>x
<1>3. \A i \in Executors \ {k} : TakenUp(i) => executor[i].run # o
  BY <1>f, <1>u, <1>o DEF ExecutorsFit, TakenUp
<1>4. ExecutorsFit'
  BY <1>f, <1>u, <1>o, <1>x, <1>1, <1>3 DEF ExecutorsFit, TakenUp, AtExec
<1>5. PaidFits'
  <2>1. ASSUME NEW p \in Occurrences
        PROVE  paid'[p] <= 1 /\ (paid'[p] # 0 => report'[p].status \in Counted \ {"queued"})
    BY <1>f, <1>u, <1>o, <1>2 DEF PaidFits, Counted, RunOpen
  <2>2. ASSUME NEW i \in Executors,
               executor'[i].at \in {"collect", "model"} \/ (executor'[i].at = "finish" /\ executor'[i].out = "skipped")
        PROVE  paid'[executor'[i].run] = 0
    <3>1. CASE i = k
      BY <1>1, <1>2, <2>2, <3>1
    <3>2. CASE i # k
      <4>1. executor'[i] = executor[i] /\ TakenUp(i)
        BY <1>1, <2>2, <3>2 DEF TakenUp
      <4>2. executor[i].run \in Occurrences \ {o}
        BY <1>f, <1>3, <3>2, <4>1 DEF ExecutorsFit, TakenUp, AtExec
      <4> QED
        BY <1>f, <1>2, <2>2, <4>1, <4>2 DEF PaidFits, AtExec
    <3> QED
      BY <3>1, <3>2
  <2> QED
    BY <2>1, <2>2 DEF PaidFits, AtExec
<1>6. JobsFit' /\ CountedRuns' \subseteq CountedRuns
  BY <1>f, <1>u DEF JobsFit, CountedRuns
<1> QED
  BY <1>f, <1>u, <1>1, <1>2, <1>4, <1>5, <1>6, WorkerStep

LEMMA FinishStep ==
    ASSUME ReportInv, NEW k \in Executors, FinishReport(k)
    PROVE  ReportInv'
<1>f. /\ report \in [Occurrences -> Reports] /\ runJob \in [Occurrences -> RunJobs]
      /\ executor \in [Executors -> ExecutorRecords] /\ paid \in [Occurrences -> Nat]
      /\ runFaults \in 0 .. MaxRunFaults /\ JobsFit /\ ExecutorsFit /\ PaidFits
  BY ReportFacts
<1>u. UNCHANGED <<schedule, dispatcher, paid, runFaults>> /\ executor[k].at = "finish" /\ Returns(k)
  BY DEF FinishReport, AtExec
<1>o. PICK o \in Occurrences : o = executor[k].run /\ report[o].status \in {"running", "failed"}
  BY <1>f, <1>u DEF ExecutorsFit, TakenUp, AtExec
<1>s. PICK s \in {"succeeded", "failed", "cancelled", "skipped"} :
          s = executor[k].out /\ RunCloses(o, s) /\ (s = "skipped" => paid[o] = 0)
  BY <1>f, <1>u, <1>o DEF ExecutorsFit, PaidFits, AtExec, FinishReport
<1>r. /\ report' \in [Occurrences -> Reports]
      /\ \A p \in Occurrences \ {o} : report'[p] = report[p]
      /\ \A p \in Occurrences : report'[p].status = "none" <=> report[p].status = "none"
      /\ report'[o].status = report[o].status \/ (report[o].status \in RunOpen /\ report'[o].status = s)
      /\ CountedRuns' \subseteq CountedRuns
  BY <1>s, RunClosing
<1>e. /\ executor' \in [Executors -> ExecutorRecords] /\ executor'[k].at = "idle"
      /\ \A i \in Executors \ {k} : executor'[i] = executor[i]
      /\ runJob' \in [Occurrences -> RunJobs]
      /\ \A p \in Occurrences : runJob'[p].state = "none" \/ report[p].status # "none"
  BY <1>u, ReturningWorker DEF AtExec
<1>t. \A i \in Executors \ {k} : TakenUp(i) => executor[i].run # o
  BY <1>f, <1>u, <1>o DEF ExecutorsFit, TakenUp
<1>1. ExecutorsFit'
  <2>1. ASSUME NEW i \in Executors
        PROVE  /\ executor'[i].at # "idle" =>
                     executor'[i].run \in Occurrences /\ report'[executor'[i].run].status # "none"
               /\ executor'[i].at \in {"collect", "model", "finish"} =>
                     report'[executor'[i].run].status \in {"running", "failed"}
               /\ executor'[i].at = "finish" => executor'[i].out \in {"succeeded", "failed", "cancelled", "skipped"}
    <3>1. CASE i = k
      BY <1>e, <3>1
    <3>2. CASE i # k
      <4>1. executor'[i] = executor[i]
        BY <1>e, <3>2
      <4> QED
        BY <1>f, <1>r, <1>t, <3>2, <4>1 DEF ExecutorsFit, TakenUp, AtExec
    <3> QED
      BY <3>1, <3>2
  <2>2. \A i, j \in Executors :
            i # j /\ executor'[i].at \in {"collect", "model", "finish"}
                  /\ executor'[j].at \in {"collect", "model", "finish"} => executor'[i].run # executor'[j].run
    BY <1>f, <1>e DEF ExecutorsFit, TakenUp
  <2> QED
    BY <2>1, <2>2 DEF ExecutorsFit, TakenUp, AtExec
<1>2. PaidFits'
  BY <1>f, <1>u, <1>o, <1>s, <1>r, <1>e DEF PaidFits, AtExec, Counted, RunOpen
<1>3. JobsFit'
  BY <1>r, <1>e DEF JobsFit
<1> QED
  BY <1>f, <1>u, <1>r, <1>e, <1>1, <1>2, <1>3, WorkerStep

LEMMA DyingStep ==
    ASSUME ReportInv, NEW k \in Executors, ExecutorDies(k)
    PROVE  ReportInv'
<1>f. /\ report \in [Occurrences -> Reports] /\ runJob \in [Occurrences -> RunJobs]
      /\ executor \in [Executors -> ExecutorRecords] /\ paid \in [Occurrences -> Nat]
      /\ JobsFit /\ ExecutorsFit /\ PaidFits /\ ReportTypeOK
  BY ReportFacts
<1>u. UNCHANGED <<schedule, report, dispatcher, paid>> /\ runFaults' \in 0 .. MaxRunFaults
  BY <1>f, RunFaultCounts DEF ExecutorDies
<1>o. PICK o \in Occurrences : o = executor[k].run /\ report[o].status # "none"
  BY <1>f DEF ExecutorsFit, ExecutorDies
<1>e. /\ executor' \in [Executors -> ExecutorRecords]
      /\ \A i \in Executors : executor'[i] = executor[i] \/ executor'[i].at = "idle"
  <2>1. IdleExecutor \in ExecutorRecords /\ IdleExecutor.at = "idle"
    BY DEF IdleExecutor, ExecutorRecords
  <2>2. executor' = executor \/ executor' = [executor EXCEPT ![k] = IdleExecutor]
    BY DEF ExecutorDies
  <2> QED
    BY <1>f, <2>1, <2>2
<1>j. /\ runJob' \in [Occurrences -> RunJobs]
      /\ \A p \in Occurrences \ {o} : runJob'[p] = runJob[p]
  <2>1. PICK s \in {"waiting", "ended"} :
            runJob' = runJob \/ runJob' = [runJob EXCEPT ![o] = [state |-> s, holder |-> NoExecutor]]
    BY <1>o DEF ExecutorDies
  <2>2. [state |-> s, holder |-> NoExecutor] \in RunJobs
    BY DEF RunJobs
  <2> QED
    BY <1>f, <2>1, <2>2
<1>1. JobsFit'
  BY <1>f, <1>u, <1>o, <1>j DEF JobsFit
<1>2. ExecutorsFit'
  BY <1>f, <1>u, <1>e DEF ExecutorsFit, TakenUp, AtExec
<1>3. PaidFits'
  BY <1>f, <1>u, <1>e DEF PaidFits, AtExec
<1>4. CountedRuns' \subseteq CountedRuns
  BY <1>u DEF CountedRuns
<1> QED
  BY <1>f, <1>u, <1>e, <1>j, <1>1, <1>2, <1>3, <1>4, WorkerStep

LEMMA ReportStutter == ASSUME ReportInv, UNCHANGED reportVars PROVE ReportInv'
<1> USE DEF reportVars
<1>1. /\ ReportTypeOK' /\ Timetabled' /\ DispatchersFit' /\ JobsFit' /\ ExecutorsFit' /\ PaidFits'
  BY DEF ReportInv, ReportTypeOK, Timetabled, Upcoming, DispatchersFit, JobsFit, ExecutorsFit, PaidFits,
         TakenUp, AtExec, AtDispatch
<1>2. LimitKept'
  BY DEF ReportInv, LimitKept, CountedRuns
<1> QED
  BY <1>1, <1>2 DEF ReportInv

LEMMA ReportInvStep == ASSUME ReportInv, [ReportNext]_reportVars PROVE ReportInv'
<1>1. ASSUME NEW s \in Schedules, KeepSchedule(s) \/ UpdateSchedule(s) \/ RemoveSchedule(s) PROVE ReportInv'
  BY <1>1, OwnerStep
<1>2. ASSUME NEW d \in Dispatchers, NEW s \in Schedules, TakeDue(d, s) PROVE ReportInv'
  BY <1>2, DispatcherStep
<1>3. ASSUME NEW d \in Dispatchers, DispatchOne(d) \/ EnqueueRun(d) \/ GiveRunUp(d) \/ DispatcherDies(d)
      PROVE  ReportInv'
  BY <1>3, DispatchStep, DispatcherStep
<1>4. ASSUME NEW o \in Occurrences, CloseAbandoned(o) PROVE ReportInv'
  BY <1>4, AbandonedStep
<1>5. ASSUME NEW k \in Executors, NEW o \in Occurrences, PickReport(k, o) PROVE ReportInv'
  BY <1>5, PickStep
<1>6. ASSUME NEW k \in Executors, ExecutorStep(k) \/ ExecutorDies(k) PROVE ReportInv'
  BY <1>6, TakeUpStep, CollectStep, FinishStep, DyingStep DEF ExecutorStep
<1>7. CASE UNCHANGED reportVars
  BY <1>7, ReportStutter
<1> QED
  BY <1>1, <1>2, <1>3, <1>4, <1>5, <1>6, <1>7 DEF ReportNext

(* The inductive invariant of the schedules.                               *)
THEOREM ReportInvariance == ReportSpec => []ReportInv
<1>1. ReportInv /\ [ReportNext]_reportVars => ReportInv'
  BY ReportInvStep
<1> QED
  BY <1>1, ReportInitInv, PTL DEF ReportSpec

(* With any number of schedules, dispatchers and workers no report is paid *)
(* for twice, and at most DAILY_RUN_LIMIT of them are paid for in a day.   *)
THEOREM ReportsStayWithinTheLimit == ReportSpec => []WithinDailyLimit
<1>1. ASSUME ReportInv PROVE WithinDailyLimit
  <2> DEFINE PaidRuns == {o \in Occurrences : paid[o] > 0}
  <2>1. \A o \in Occurrences : paid[o] <= 1
    BY <1>1, ReportFacts DEF PaidFits
  <2>2. PaidRuns \subseteq CountedRuns
    BY <1>1, ReportFacts DEF PaidFits, CountedRuns
  <2>3. IsFiniteSet(PaidRuns) /\ Cardinality(PaidRuns) <= Cardinality(CountedRuns)
    BY <1>1, <2>2, ReportFacts, FS_Subset DEF LimitKept
  <2>4. Cardinality(PaidRuns) \in Nat /\ Cardinality(CountedRuns) \in Nat
    BY <1>1, <2>3, ReportFacts, FS_CardinalityType DEF LimitKept
  <2>5. Cardinality(PaidRuns) <= DailyLimit
    BY <1>1, <2>3, <2>4, ReportFacts, ReportConstants DEF LimitKept
  <2> QED
    BY <2>1, <2>5 DEF WithinDailyLimit
<1> QED
  BY <1>1, ReportInvariance, PTL
-----------------------------------------------------------------------------
(* All of it: the scenarios of MCBackground only leave steps out.          *)

LEMMA BackgroundRuns == BackgroundSpec => JobsSpec /\ ReportSpec
<1>1. BackgroundInit => JobsInit /\ ReportInit
  BY DEF BackgroundInit
<1>2. [BackgroundNext]_<<scenario, jobsVars, reportVars>> => [JobsNext]_jobsVars /\ [ReportNext]_reportVars
  BY DEF BackgroundNext
<1> QED
  BY <1>1, <1>2, PTL DEF BackgroundSpec, JobsSpec, ReportSpec

(* Every record of the background work has its type.                       *)
THEOREM BackgroundTypeCorrect == BackgroundSpec => []BackgroundTypeOK
<1>1. ReportInv => ReportTypeOK
  BY DEF ReportInv
<1> QED
  BY <1>1, BackgroundRuns, JobsTypeCorrect, ReportInvariance, PTL DEF BackgroundTypeOK
=============================================================================
