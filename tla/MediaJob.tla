------------------------------ MODULE MediaJob ------------------------------
(***************************************************************************)
(* The handlers of a generated image or video, and of a second attempt to  *)
(* download one: what they pay the vendor for, what they bill the owner,   *)
(* and what the card in the conversation says meanwhile.                   *)
(*                                                                         *)
(* Source: packages/server/src/generation/run-job.ts, the statements on    *)
(* generation messages in db/database.ts, routes/conversations.ts (submit, *)
(* redownload), routes/tasks.ts (cancel).                                  *)
(*                                                                         *)
(* One card. The vendor, the storage and the meter are external: a call    *)
(* succeeds, fails, or succeeds without its answer arriving. Prompts,      *)
(* references, voices, prices and progress are left out; a handler runs on *)
(* a slot of TaskQueue and ends with HandlerEnds.                          *)
(***************************************************************************)
EXTENDS TaskQueue

CONSTANTS Generation, Redownload    \* the two tasks of the card

ASSUME MediaAssumption ==
    /\ {Generation, Redownload} \subseteq Tasks \ Renders
    /\ Generation # Redownload

VARIABLES
    card,        \* status of the message
    submitting,  \* the task the API is about to create for it
    noting,      \* cancelled tasks whose card the API has yet to mark
    vendor,      \* known: the row holds a vendor id; made: tasks the vendor made
    billed,      \* cached: the result is in the cache; charges: entries of the meter
    step,        \* how far the handler on each slot is
    lost         \* history: what crashes, failures and cancellations left behind

mediaVars == <<card, submitting, noting, vendor, billed, step, lost>>

MediaTasks == {Generation, Redownload}
CardStatus == {"none", "generating", "completed", "failed", "cancelled", "download_failed"}
Steps == {"start", "ready", "created", "polling", "downloading", "stored", "metered", "cached"}

MediaInit ==
    /\ card = "none" /\ submitting = NoTask /\ noting = {}
    /\ vendor = [known |-> FALSE, made |-> 0]
    /\ billed = [cached |-> FALSE, charges |-> 0]
    /\ step = [k \in Workers |-> "start"]
    /\ lost = [ids |-> 0, charges |-> 0, card |-> FALSE]

MediaTypeOK ==
    /\ card \in CardStatus
    /\ submitting \in MediaTasks \union {NoTask}
    /\ noting \subseteq MediaTasks
    /\ vendor \in [known : BOOLEAN, made : Nat]
    /\ billed \in [cached : BOOLEAN, charges : Nat]
    /\ step \in [Workers -> Steps]
    /\ lost \in [ids : Nat, charges : Nat, card : BOOLEAN]
-----------------------------------------------------------------------------
(* The card: a worker or the API may move it out of "generating" only.     *)

\* mutant: nobody tells the card why the handler gave up
Forgets(s) == card' = IF s = "failed" \/ card # "generating" THEN card ELSE s
(* updateMessageGeneration and markMessageGenerationCancelled.             *)
CardBecomes(s) == card' = IF card = "generating" THEN s ELSE card

At(k, task, s) == slot[k].at = "handling" /\ slot[k].task = task /\ step[k] = s
Aborted(k) == slot[k].aborted
(* assertNotCancelled *)
MustStop(k) == Aborted(k) \/ row[slot[k].task].status = "cancelled"

GoesTo(k, s) == step' = [step EXCEPT ![k] = s] /\ UNCHANGED <<queueVars, submitting, noting, lost>>
Ends(k, out) == HandlerEnds(k, out) /\ step' = [step EXCEPT ![k] = "start"]
                                    /\ UNCHANGED <<submitting, noting>>

(* The catch of runGenerationJob: the card first, then the error.          *)
Stops(k) == CardBecomes("cancelled") /\ Ends(k, "threw")
Gives(k) == CardBecomes(IF Aborted(k) THEN "cancelled" ELSE "failed") /\ Ends(k, "threw")
-----------------------------------------------------------------------------
(* The API.                                                                *)

(* POST generations: the card is born generating, then its task.           *)
Submit ==
    /\ card = "none"
    /\ card' = "generating" /\ submitting' = Generation
    /\ UNCHANGED <<queueVars, noting, vendor, billed, step, lost>>

(* POST redownload. Bound: the owner asks for it once.                     *)
AskRedownload ==
    /\ card = "download_failed" /\ row[Redownload].status = "none"
    /\ card' = "generating" /\ submitting' = Redownload
    /\ UNCHANGED <<queueVars, noting, vendor, billed, step, lost>>

CreateMedia ==
    /\ submitting \in MediaTasks /\ CreateTask(submitting)
    /\ submitting' = NoTask
    /\ UNCHANGED <<card, noting, vendor, billed, step, lost>>

(* The API dies with a card that says generating and no task behind it, or *)
(* with a cancelled task whose card it has not marked.                     *)
CardLost ==
    /\ used.deaths < MaxDeaths /\ used' = [used EXCEPT !.deaths = @ + 1]
    /\ lost' = [lost EXCEPT !.card = TRUE]
    /\ UNCHANGED <<row, job, slot, request, stranded, card, vendor, billed, step>>
SubmitterDies == submitting # NoTask /\ submitting' = NoTask /\ CardLost /\ UNCHANGED noting
NoterDies(t) == t \in noting /\ noting' = noting \ {t} /\ CardLost /\ UNCHANGED submitting

(* What the route of a cancellation adds: once the row changed and the job *)
(* was withdrawn, the card is marked.                                      *)
CancelsMedia(t) ==
    /\ noting' = IF t \in MediaTasks /\ IsOpen(t) THEN noting \union {t} ELSE noting
    /\ UNCHANGED <<card, submitting, vendor, billed, step, lost>>

NoteCancelled(t) ==
    /\ t \in noting /\ ~request[t].withdraw
    /\ CardBecomes("cancelled") /\ noting' = noting \ {t}
    /\ UNCHANGED <<queueVars, submitting, vendor, billed, step, lost>>

(* What the API's death takes with it.                                     *)
ForgetsMedia(t) ==
    /\ noting' = noting \ {t}
    /\ lost' = [lost EXCEPT !.card = @ \/ t \in noting]
    /\ UNCHANGED <<card, submitting, vendor, billed, step>>
-----------------------------------------------------------------------------
(* runGenerationJob.                                                       *)

\* mutant: what an earlier attempt created is not asked for
NeverCreated == FALSE
(* getTask: the vendor's id an earlier attempt stored.                     *)
Created == vendor.known

GenStart(k) ==
    /\ At(k, Generation, "start")
    /\ \/ MustStop(k) /\ Stops(k) /\ UNCHANGED lost
       \/ /\ ~MustStop(k) /\ billed.cached
          /\ CardBecomes("completed") /\ Ends(k, "returned") /\ UNCHANGED lost
       \/ /\ ~MustStop(k) /\ ~billed.cached
          /\ GoesTo(k, IF Created THEN "polling" ELSE "ready") /\ UNCHANGED card
    /\ UNCHANGED <<vendor, billed>>

(* What no row and no cache remembers if the handler ends where it is.     *)
Forgotten(k) == [lost EXCEPT
    !.ids = IF step[k] = "created" THEN @ + 1 ELSE @,
    !.charges = IF step[k] \in {"metered", "cached"} THEN @ + 1 ELSE @]

(* What fails inside its try, wherever it is: from the download on, if not *)
(* even "download_failed" could be written.                                *)
GenFails(k) ==
    /\ slot[k].at = "handling" /\ slot[k].task = Generation
    /\ Gives(k) /\ lost' = Forgotten(k)
    /\ UNCHANGED <<vendor, billed>>

(* Either handler throws and the card is not told: genDeps, which is       *)
(* awaited before the try and asks for the owner's key, or the write to    *)
(* the card itself.                                                        *)
Untold(k) ==
    /\ slot[k].at = "handling" /\ slot[k].task \in MediaTasks
    /\ Ends(k, "threw")
    /\ lost' = [Forgotten(k) EXCEPT !.card = @ \/ card = "generating"]
    /\ UNCHANGED <<card, vendor, billed>>

GenCreate(k) ==
    /\ At(k, Generation, "ready")
    /\ \/ MustStop(k) /\ Stops(k) /\ UNCHANGED <<vendor, lost>>
       \/ /\ ~MustStop(k)
          /\ vendor' = [vendor EXCEPT !.made = @ + 1]
          /\ \/ GoesTo(k, "created") /\ UNCHANGED card
             \/ Gives(k) /\ lost' = [lost EXCEPT !.ids = @ + 1]   \* no answer
    /\ UNCHANGED billed

(* setTaskVendorId *)
GenStores(k) ==
    /\ At(k, Generation, "created")
    /\ vendor' = [vendor EXCEPT !.known = TRUE]
    /\ GoesTo(k, "polling") /\ UNCHANGED <<card, billed>>

(* The vendor is asked before anybody looks at the cancellation.           *)
GenPolls(k) ==
    /\ At(k, Generation, "polling")
    /\ \/ GoesTo(k, "downloading") /\ UNCHANGED card
       \/ MustStop(k) /\ Stops(k) /\ UNCHANGED lost
    /\ UNCHANGED <<vendor, billed>>

(* redownloadGenerationJob: nothing but the abort signal is looked at.     *)
RedoStart(k) ==
    /\ At(k, Redownload, "start")
    /\ \/ Aborted(k) /\ Stops(k) /\ UNCHANGED lost
       \/ ~Aborted(k) /\ GoesTo(k, "downloading") /\ UNCHANGED card
    /\ UNCHANGED <<vendor, billed>>
-----------------------------------------------------------------------------
(* downloadAndFinalize, for both.                                          *)

Downloading(k, s) == slot[k].task \in MediaTasks /\ At(k, slot[k].task, s)

Downloads(k) ==
    /\ Downloading(k, "downloading") /\ GoesTo(k, "stored")
    /\ UNCHANGED <<card, vendor, billed>>

(* No idempotency key: every record is another entry.                      *)
Meters(k) ==
    /\ Downloading(k, "stored") /\ GoesTo(k, "metered")
    /\ billed' = [billed EXCEPT !.charges = @ + 1]
    /\ UNCHANGED <<card, vendor>>

\* mutant: the result is not cached
CachesNothing(k) ==
    /\ Downloading(k, "metered") /\ GoesTo(k, "cached") /\ UNCHANGED <<card, vendor, billed>>
Caches(k) ==
    /\ Downloading(k, "metered") /\ GoesTo(k, "cached")
    /\ billed' = [billed EXCEPT !.cached = @ \/ slot[k].task = Generation]
    /\ UNCHANGED <<card, vendor>>

Completes(k) ==
    /\ Downloading(k, "cached")
    /\ CardBecomes("completed") /\ Ends(k, "returned")
    /\ UNCHANGED <<vendor, billed, lost>>

(* Any of these fails. An abort throws JobCancelledError, which only the   *)
(* generation's catch turns into a mark on the card; otherwise the card    *)
(* offers another download, and the task has succeeded.                    *)
FinishFails(k) ==
    /\ \E s \in {"downloading", "stored", "metered", "cached"} : Downloading(k, s)
    /\ IF ~Aborted(k) THEN CardBecomes("download_failed") /\ Ends(k, "returned")
       ELSE IF slot[k].task = Generation THEN Stops(k)
       ELSE Ends(k, "threw") /\ UNCHANGED card
    /\ lost' = [Forgotten(k) EXCEPT
         !.card = @ \/ (Aborted(k) /\ slot[k].task = Redownload /\ Redownload \notin noting)]
    /\ UNCHANGED <<vendor, billed>>

(* What the next delivery does not know: that the meter has it, or that    *)
(* the card already offers, or came from, another download.                *)
Unrecorded(k) ==
    LET redo == slot[k].task = Redownload IN
    \/ step[k] = "metered" \/ (step[k] = "cached" /\ redo)
    \/ slot[k].at = "ended" /\ slot[k].out = "returned" /\ (redo \/ ~billed.cached)

(* What a worker's death takes with it.                                    *)
MediaDies(k) ==
    /\ step' = [step EXCEPT ![k] = "start"]
    /\ lost' = [lost EXCEPT
         !.ids = IF step[k] = "created" THEN @ + 1 ELSE @,
         !.charges = IF slot[k].task \in MediaTasks /\ Unrecorded(k) THEN @ + 1 ELSE @]
    /\ UNCHANGED <<card, submitting, noting, vendor, billed>>

(* What an outcome takes with it that the queue cannot write: a first look *)
(* that fails keeps the handler from the card, a result that is not stored *)
(* may be worked for again.                                                *)
MediaUnwritten(k) ==
    /\ lost' = [lost EXCEPT
         !.charges = IF slot[k].task \in MediaTasks /\ Unrecorded(k) THEN @ + 1 ELSE @,
         !.card = @ \/ (slot[k].at = "claimed" /\ slot[k].task \in MediaTasks /\ card = "generating")]
    /\ UNCHANGED <<card, submitting, noting, vendor, billed, step>>

MediaHandler(k) ==
    \/ GenStart(k) \/ GenFails(k) \/ Untold(k) \/ GenCreate(k) \/ GenStores(k) \/ GenPolls(k)
    \/ RedoStart(k) \/ Downloads(k) \/ Meters(k) \/ Caches(k) \/ Completes(k) \/ FinishFails(k)

MediaStep ==
    \/ Submit \/ AskRedownload \/ CreateMedia \/ SubmitterDies
    \/ \E t \in MediaTasks : NoteCancelled(t) \/ NoterDies(t)
    \/ \E k \in Workers : MediaHandler(k)
-----------------------------------------------------------------------------
(* The vendor makes a generation once, however often its job is delivered. *)
(* Each further task needs an id that was lost between the vendor and the  *)
(* row (run-job.ts:356-358): an answer that never came, a worker that died *)
(* with it, a row that could not be written. Or two workers at once.       *)
PaidOnce == used.lapses = 0 => vendor.made <= 1 + lost.ids

(* The owner is billed once for a card, except for a worker that died, or  *)
(* a step that failed, between the meter and what remembers it: the cache, *)
(* the card or the task's result.                                          *)
ChargedOnce == used.lapses = 0 => billed.charges <= 1 + lost.charges

(* A card that says generating has somebody at work behind it. Left out is *)
(* what the code does lose: an API that died between its two writes, a     *)
(* second download aborted by anything but the cancellation of its task, an *)
(* error before the handler's try (the owner's key, the queue's first look *)
(* at the row), and a write to the card that failed.                       *)
CardIsSettled == card = "generating" /\ ~lost.card =>
    \/ submitting # NoTask \/ noting # {}
    \/ \E t \in MediaTasks : IsOpen(t) \/ Handling(t) # {}
=============================================================================
