--------------------------- MODULE MarketingVideo ---------------------------
(***************************************************************************)
(* The handler of a marketing video: clips made by a vendor that is paid   *)
(* for each of them, several at a time, then composed into one video.      *)
(* Whatever stops it, the owner may continue it: clips that are there are  *)
(* kept, a clip whose vendor task is known is polled, and one whose        *)
(* submission has an unknown result blocks everything until the owner      *)
(* accepts that it may be paid for twice.                                  *)
(*                                                                         *)
(* Source: packages/server/src/marketing-video/run.ts, recovery.ts,        *)
(* repository.ts (reserve, releaseUnknownSegments), production.ts.         *)
(*                                                                         *)
(* One video. The vendor is external; a rejection and a 5xx of the gateway *)
(* made no task, as run.ts takes them to. Prompts, voices, narration,      *)
(* captions, materials and quotas are checked before anything is paid and  *)
(* are left out, with the rows of the clips' own statuses, redone shots    *)
(* and previews. A handler runs on a slot of TaskQueue.                    *)
(***************************************************************************)
EXTENDS TaskQueue

CONSTANTS
    Video,      \* the task of the video
    Clips       \* its clips; the code runs segmentConcurrency of them at once

ASSUME VideoAssumption == Video \in Renders /\ Clips # {}

VARIABLES
    lock,      \* the slot that holds the session lock marketing:<task>
    clip,      \* the rows of the clips, what the vendor was paid for, and the meter
    final,     \* the composed video is stored with the task's output
    stage,     \* where the handler on each slot is
    place,     \* where each clip is in that handler
    failure    \* the handler on the slot has seen a clip fail

videoVars == <<lock, clip, final, stage, place, failure>>

Unknown == "unknown"     \* vendor_task_id = UNKNOWN_SUBMISSION
ClipRecords == [vendor : {"none", Unknown, "known"}, output : {"none", "retrySafe", "asset"},
                paid : Nat, forgiven : Nat, metered : BOOLEAN]
ClipPlaces == {"todo", "submit", "claimed", "sent", "poll", "download", "meter", "check",
               "done", "failed"}
Stages == {"start", "clips", "stored"}

NewClip == [vendor |-> "none", output |-> "none", paid |-> 0, forgiven |-> 0, metered |-> FALSE]

VideoInit ==
    /\ lock = NoWorker
    /\ clip = [c \in Clips |-> NewClip]
    /\ final = FALSE
    /\ stage = [k \in Workers |-> "start"]
    /\ place = [k \in Workers |-> [c \in Clips |-> "todo"]]
    /\ failure = [k \in Workers |-> FALSE]

VideoTypeOK ==
    /\ lock \in Workers \union {NoWorker}
    /\ clip \in [Clips -> ClipRecords]
    /\ final \in BOOLEAN
    /\ stage \in [Workers -> Stages]
    /\ place \in [Workers -> [Clips -> ClipPlaces]]
    /\ failure \in [Workers -> BOOLEAN]
-----------------------------------------------------------------------------
(* segmentRecoveryAction *)
RecoveryAction(c) ==
    IF clip[c].vendor = Unknown THEN Unknown
    ELSE IF clip[c].output = "retrySafe" THEN "submit"
    ELSE IF clip[c].output = "asset" THEN "reuse"
    ELSE IF clip[c].vendor = "known" THEN "poll" ELSE "submit"
AnyUnknown == \E c \in Clips : RecoveryAction(c) = Unknown

VideoAt(k, s) == slot[k].at = "handling" /\ slot[k].task = Video /\ stage[k] = s
ClipAt(k, c, p) == VideoAt(k, "clips") /\ place[k][c] = p
(* assertActive *)
Inactive(k) == slot[k].aborted \/ row[Video].status = "cancelled"

(* The handler lets go of its lock and its clips when it ends.             *)
ClearSlot(k) ==
    /\ lock' = IF lock = k THEN NoWorker ELSE lock
    /\ stage' = [stage EXCEPT ![k] = "start"]
    /\ place' = [place EXCEPT ![k] = [c \in Clips |-> "todo"]]
    /\ failure' = [failure EXCEPT ![k] = FALSE]

VideoEnds(k, out) == HandlerEnds(k, out) /\ ClearSlot(k)

ClipGoes(k, c, p) ==
    /\ place' = [place EXCEPT ![k][c] = p]
    /\ UNCHANGED <<queueVars, lock, final, stage, failure>>
ClipFails(k, c) ==
    /\ place' = [place EXCEPT ![k][c] = "failed"]
    /\ failure' = [failure EXCEPT ![k] = TRUE]
    /\ UNCHANGED <<queueVars, lock, final, stage>>
ClipBecomes(c, r) == clip' = [clip EXCEPT ![c] = r]
-----------------------------------------------------------------------------
(* The lock, the cancellation, a video that is there already, and a look   *)
(* at all clips before any of them is paid for; or what else is missing.   *)
VideoStart(k) ==
    /\ VideoAt(k, "start")
    /\ \/ final /\ lock = NoWorker /\ ~Inactive(k) /\ VideoEnds(k, "returned")
       \/ VideoEnds(k, "threw")
       \/ /\ lock = NoWorker /\ ~Inactive(k) /\ ~final /\ ~AnyUnknown
          /\ lock' = k /\ stage' = [stage EXCEPT ![k] = "clips"]
          /\ UNCHANGED <<queueVars, place, failure>>
    /\ UNCHANGED <<clip, final>>

(* What a clip that must be made again starts from.                        *)
Fresh(c) ==
    IF clip[c].output = "retrySafe"
    THEN [clip[c] EXCEPT !.vendor = "none", !.output = "none", !.metered = FALSE] ELSE clip[c]

(* A clip is taken up as long as none has failed.                          *)
ClipBegins(k, c) ==
    /\ ClipAt(k, c, "todo") /\ ~failure[k] /\ ~Inactive(k)
    /\ ClipBecomes(c, Fresh(c))
    /\ ClipGoes(k, c, IF clip[c].output = "asset" THEN "meter"
                      ELSE IF Fresh(c).vendor = "none" THEN "submit" ELSE "poll")

(* At every one of these points a cancellation stops the clip, and any     *)
(* call to the database, the vendor or the storage may fail.               *)
ClipStops(k, c) ==
    /\ VideoAt(k, "clips") /\ place[k][c] \notin {"done", "failed"}
    /\ place[k][c] = "todo" => ~failure[k]
    /\ ClipFails(k, c) /\ UNCHANGED clip

(* UPDATE tasks SET vendor_task_id=UNKNOWN WHERE vendor_task_id IS NULL.   *)
ClipClaims(k, c) ==
    /\ ClipAt(k, c, "submit") /\ ~Inactive(k) /\ clip[c].vendor = "none"
    /\ ClipBecomes(c, [clip[c] EXCEPT !.vendor = Unknown])
    /\ ClipGoes(k, c, "claimed")

\* mutant: an answer that does not come is taken for a rejection
SendsAgain(k, c) ==
    /\ ClipAt(k, c, "claimed") /\ ~Inactive(k)
    /\ \/ ClipBecomes(c, [clip[c] EXCEPT !.paid = @ + 1]) /\ ClipGoes(k, c, "sent")
       \/ ClipBecomes(c, [clip[c] EXCEPT !.paid = @ + 1, !.vendor = "none"]) /\ ClipFails(k, c)
(* The vendor takes it, rejects it, or takes it and its answer is lost.    *)
ClipSends(k, c) ==
    /\ ClipAt(k, c, "claimed") /\ ~Inactive(k)
    /\ \/ ClipBecomes(c, [clip[c] EXCEPT !.paid = @ + 1]) /\ ClipGoes(k, c, "sent")
       \/ ClipBecomes(c, [clip[c] EXCEPT !.paid = @ + 1]) /\ ClipFails(k, c)
       \/ ClipBecomes(c, [clip[c] EXCEPT !.vendor = "none"]) /\ ClipFails(k, c)

(* setTaskVendorId *)
ClipStores(k, c) ==
    /\ ClipAt(k, c, "sent")
    /\ ClipBecomes(c, [clip[c] EXCEPT !.vendor = "known"])
    /\ ClipGoes(k, c, "poll")

(* A clip the vendor failed, or one that turns out short or silent, may be *)
(* made again: that is the payment the owner is not asked about.           *)
MadeAgain(c) == [clip[c] EXCEPT !.output = "retrySafe", !.forgiven = @ + 1]

ClipPolls(k, c) ==
    /\ ClipAt(k, c, "poll")
    /\ \/ ClipGoes(k, c, "download") /\ UNCHANGED clip
       \/ ClipBecomes(c, MadeAgain(c)) /\ ClipFails(k, c)

(* The asset and the clip's output commit together, before billing.        *)
ClipDownloads(k, c) ==
    /\ ClipAt(k, c, "download")
    /\ ClipBecomes(c, [clip[c] EXCEPT !.output = "asset"])
    /\ ClipGoes(k, c, "meter")

(* Idempotent: the key is the clip and its vendor task.                    *)
ClipMeters(k, c) ==
    /\ ClipAt(k, c, "meter")
    /\ ClipBecomes(c, [clip[c] EXCEPT !.metered = TRUE])
    /\ ClipGoes(k, c, "check")

ClipChecks(k, c) ==
    /\ ClipAt(k, c, "check")
    /\ \/ ~Inactive(k) /\ ClipGoes(k, c, "done") /\ UNCHANGED clip
       \/ ClipBecomes(c, MadeAgain(c)) /\ ClipFails(k, c)

ClipStep(k, c) ==
    \/ ClipBegins(k, c) \/ ClipStops(k, c) \/ ClipClaims(k, c) \/ ClipSends(k, c)
    \/ ClipStores(k, c) \/ ClipPolls(k, c) \/ ClipDownloads(k, c) \/ ClipMeters(k, c)
    \/ ClipChecks(k, c)

(* Every clip that was taken up has come to an end, and one has failed.    *)
ClipsFail(k) ==
    /\ VideoAt(k, "clips") /\ failure[k]
    /\ \A c \in Clips : place[k][c] \in {"todo", "done", "failed"}
    /\ VideoEnds(k, "threw") /\ UNCHANGED <<clip, final>>

(* Composing fails, or the video commits with the task's output.           *)
Compose(k) ==
    /\ VideoAt(k, "clips") /\ \A c \in Clips : place[k][c] = "done"
    /\ \/ VideoEnds(k, "threw") /\ UNCHANGED final
       \/ /\ ~Inactive(k)
          /\ final' = TRUE /\ stage' = [stage EXCEPT ![k] = "stored"]
          /\ UNCHANGED <<queueVars, lock, place, failure>>
    /\ UNCHANGED clip

VideoReturns(k) == VideoAt(k, "stored") /\ VideoEnds(k, "returned") /\ UNCHANGED <<clip, final>>

VideoHandler(k) ==
    \/ VideoStart(k) \/ ClipsFail(k) \/ Compose(k) \/ VideoReturns(k)
    \/ \E c \in Clips : ClipStep(k, c)

(* The session lock goes with the worker's connection.                     *)
VideoDies(k) == ClearSlot(k) /\ UNCHANGED <<clip, final>>
-----------------------------------------------------------------------------
(* The owner.                                                              *)

(* stoppedJob refuses to continue with a clip nobody knows about.          *)
VideoResumeLooks == ~AnyUnknown /\ ResumeLooks(Video) /\ UNCHANGED videoVars

(* reserve takes the same lock in its transaction.                         *)
VideoResumeReserves ==
    /\ IF lock = NoWorker THEN ResumeReserves(Video) ELSE ResumeRefused(Video)
    /\ UNCHANGED videoVars

(* The owner accepts a possible second charge for what is unknown.         *)
ReleaseUnknown ==
    /\ row[Video].status \in {"failed", "cancelled"} /\ lock = NoWorker /\ AnyUnknown
    /\ Asks
    /\ clip' = [c \in Clips |->
         IF RecoveryAction(c) = Unknown THEN [MadeAgain(c) EXCEPT !.vendor = "none"] ELSE clip[c]]
    /\ UNCHANGED <<row, job, slot, request, stranded, lock, final, stage, place, failure>>

VideoStep ==
    \/ VideoResumeLooks \/ VideoResumeReserves \/ ReleaseUnknown
    \/ \E k \in Workers : VideoHandler(k)
-----------------------------------------------------------------------------
(* However often the video is crashed, cancelled, continued and delivered, *)
(* the vendor is paid for a clip once, and once more for every time it     *)
(* failed the clip or the owner accepted another payment; and once the     *)
(* video is there, the owner was billed for each clip, also for those an   *)
(* earlier attempt had left. Two workers at one video cannot break it      *)
(* either: no lapse is left out.                                           *)
ClipsPaidAndBilled ==
    /\ \A c \in Clips : clip[c].paid <= 1 + clip[c].forgiven
    /\ final => \A c \in Clips : clip[c].output = "asset" /\ clip[c].metered
=============================================================================
