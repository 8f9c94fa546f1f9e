--------------------------- MODULE BackgroundJobs ---------------------------
(***************************************************************************)
(* The queue with its handlers: generated media, marketing videos, and     *)
(* tasks of which only the outcome matters. A handler runs while the queue *)
(* delivers, stalls, crashes and cancels around it.                        *)
(*                                                                         *)
(* Source: packages/server/src/workers/index.ts registers the handlers on  *)
(* the queue; the steps are those of the three modules.                    *)
(***************************************************************************)
EXTENDS MediaJob, MarketingVideo

(* Tasks with a handler of their own.                                      *)
Modelled == MediaTasks \union {Video}

JobsInit == QueueInit /\ MediaInit /\ VideoInit

jobsVars == <<queueVars, mediaVars, videoVars>>

JobsTypeOK == QueueTypeOK /\ MediaTypeOK /\ VideoTypeOK

(* The queue's own steps, and handlers and owners of the other tasks.      *)
PlainStep ==
    /\ \/ QueueStep
       \/ \E t \in Tasks \ MediaTasks : CreateTask(t)
       \/ \E k \in Workers, out \in HandlerOutcomes :
            slot[k].task \notin Modelled /\ HandlerEnds(k, out)
       \/ \E t \in Tasks \ Modelled : ResumeLooks(t) \/ ResumeReserves(t) \/ ResumeRefused(t)
    /\ UNCHANGED <<mediaVars, videoVars>>

CancelTask(t) == Cancel(t) /\ CancelsMedia(t) /\ UNCHANGED videoVars

ApiCrash(t) == ApiDies(t) /\ ForgetsMedia(t) /\ UNCHANGED videoVars

(* A handler is kept from its work, or what it came to from its row.       *)
RowFails(k) ==
    /\ LookFails(k) \/ ResultFails(k) \/ RecordFails(k)
    /\ MediaUnwritten(k) /\ UNCHANGED videoVars

WorkerCrash(k) == WorkerDies(k) /\ MediaDies(k) /\ VideoDies(k)

JobsNext ==
    \/ PlainStep
    \/ MediaStep /\ UNCHANGED videoVars
    \/ VideoStep /\ UNCHANGED mediaVars
    \/ \E t \in Tasks : CancelTask(t) \/ ApiCrash(t)
    \/ \E k \in Workers : WorkerCrash(k) \/ RowFails(k)

JobsSpec == JobsInit /\ [][JobsNext]_jobsVars
=============================================================================
