------------------------- MODULE KnowledgeIngestion -------------------------
(***************************************************************************)
(* Indexing what an owner keeps in the knowledge base. An item has the     *)
(* revision that is searched and the one that waits to replace it; each    *)
(* attempt to index the latter is a run. Run, task and outbox entry are    *)
(* written in one transaction with the item, the outbox brings the run to  *)
(* a queue as often as it takes, and a worker leases it. An edit, a        *)
(* deletion or a cancellation raises the item's generation, and whoever    *)
(* still works on an older one can no longer change anything.              *)
(*                                                                         *)
(* Source: packages/server/src/knowledge/ingestion/jobs.ts, outbox.ts,     *)
(* consumer.ts, prepare.ts and knowledge/repository.ts (items).            *)
(*                                                                         *)
(* One item. The row of the task always says what the run's says. BullMQ   *)
(* and what a worker reads, parses and embeds are external. Checkpoints,   *)
(* collections, tags, duplicates and facts of the profile are left out.    *)
(***************************************************************************)
EXTENDS Naturals

CONSTANTS
    Indexers, NoIndexer,   \* the slots of the consumers
    MaxRevisions,          \* bound: revisions of the item
    MaxRuns,               \* bound: runs
    IngestAttempts,        \* how often a run is taken up; 3 in consumer.ts
    MaxCancels,            \* bound: cancellations of a run
    MaxIndexFaults         \* bound: deaths, and workers held up for the length of a lease

ASSUME IndexAssumption ==
    /\ NoIndexer \notin Indexers
    /\ {MaxRevisions, MaxRuns, IngestAttempts} \subseteq Nat \ {0}
    /\ {MaxCancels, MaxIndexFaults} \subseteq Nat

VARIABLES
    item,       \* rag_items
    index,      \* rag_item_revisions: index_status of each
    run,        \* rag_ingestion_runs
    sent,       \* rag_outbox: runs that were delivered at least once
    delivery,   \* the queue's job of each run
    indexer,    \* what each worker is doing
    indexUsed   \* what was used of the bounds

indexVars == <<item, index, run, sent, delivery, indexer, indexUsed>>

Revisions == 1 .. MaxRevisions
Runs == 1 .. MaxRuns
None == 0
RunLive == {"pending", "running"}
IndexStatus == {"none", "pending", "processing", "ready", "stored_only", "failed", "cancelled"}

NoRun == [status |-> "none", revision |-> None, generation |-> 0, token |-> 0,
          leased |-> FALSE, attempts |-> 0]
NoDelivery == [state |-> "none", holder |-> NoIndexer]
IdleIndexer == [at |-> "idle", run |-> None, token |-> 0, retry |-> FALSE]

IndexInit ==
    /\ item = [state |-> "none", active |-> None, pending |-> None, generation |-> 0, newest |-> 0]
    /\ index = [v \in Revisions |-> "none"]
    /\ run = [r \in Runs |-> NoRun]
    /\ sent = {}
    /\ delivery = [r \in Runs |-> NoDelivery]
    /\ indexer = [k \in Indexers |-> IdleIndexer]
    /\ indexUsed = [cancels |-> 0, faults |-> 0]

IndexTypeOK ==
    /\ item \in [state : {"none", "kept", "deleted"}, active : 0 .. MaxRevisions,
                 pending : 0 .. MaxRevisions, generation : Nat, newest : 0 .. MaxRevisions]
    /\ index \in [Revisions -> IndexStatus]
    /\ run \in [Runs -> [status : RunLive \union {"none", "succeeded", "failed", "cancelled"},
                         revision : 0 .. MaxRevisions, generation : Nat, token : Nat,
                         leased : BOOLEAN, attempts : Nat]]
    /\ sent \subseteq Runs
    /\ delivery \in [Runs -> [state : {"none", "waiting", "active", "ended"},
                              holder : Indexers \union {NoIndexer}]]
    /\ indexer \in [Indexers -> [at : {"idle", "picked", "working", "acking"}, run : 0 .. MaxRuns,
                                 token : Nat, retry : BOOLEAN]]
    /\ indexUsed \in [cancels : 0 .. MaxCancels, faults : 0 .. MaxIndexFaults]
-----------------------------------------------------------------------------
Live(r) == run[r].status \in RunLive
(* A run that may still change the item.                                   *)
Current(r) ==
    /\ item.state = "kept" /\ item.pending = run[r].revision
    /\ item.generation = run[r].generation /\ Live(r)

\* mutant: a worker is asked for its token only, as it was when it claimed
OnceClaimed(k) == run[indexer[k].run].attempts = indexer[k].token
(* The token is new with each claim, and so is the count of attempts.      *)
Owns(k) == LET r == indexer[k].run IN
    Current(r) /\ run[r].leased /\ run[r].token = indexer[k].token

AtIndex(k, place) == indexer[k].at = place
IndexerGoes(k, s) == indexer' = [indexer EXCEPT ![k] = s]
AckNext(k, retry) == IndexerGoes(k, [indexer[k] EXCEPT !.at = "acking", !.retry = retry])
IndexFault ==
    indexUsed.faults < MaxIndexFaults /\ indexUsed' = [indexUsed EXCEPT !.faults = @ + 1]

Closed(status, r) == [r EXCEPT !.status = status, !.token = 0, !.leased = FALSE]
CloseRun(r, status) == run' = [run EXCEPT ![r] = Closed(status, @)]

(* supersedeIngestion: the live runs of the item are cancelled.            *)
Superseding == [r \in Runs |-> IF Live(r) THEN Closed("cancelled", run[r]) ELSE run[r]]

(* prepareIngestion: the next run.                                         *)
HasNewRun == run[MaxRuns].status = "none"
NewRun == CHOOSE r \in Runs : \A q \in Runs : run[q].status = "none" <=> q >= r
Prepared(runs, v, g) ==
    [runs EXCEPT ![NewRun] = [NoRun EXCEPT !.status = "pending", !.revision = v, !.generation = g]]
-----------------------------------------------------------------------------
(* The owner. What is only stored is searched at once.                     *)

CreateItem(stored) ==
    /\ item.state = "none"
    /\ item' = [state |-> "kept", active |-> IF stored THEN 1 ELSE None,
                pending |-> IF stored THEN None ELSE 1, generation |-> 1, newest |-> 1]
    /\ index' = [index EXCEPT ![1] = IF stored THEN "stored_only" ELSE "pending"]
    /\ run' = IF stored THEN run ELSE Prepared(run, 1, 1)
    /\ UNCHANGED <<sent, delivery, indexer, indexUsed>>

(* updateItem, and replaceFile alike: the pending revision gives way, the  *)
(* one that is searched stays until its successor is complete.             *)
NewRevision(stored) == LET v == item.newest + 1  g == item.generation + 1 IN
    /\ item.state = "kept" /\ v \in Revisions /\ HasNewRun
    /\ item' = [item EXCEPT !.newest = v, !.generation = g,
                            !.active = IF stored THEN v ELSE @,
                            !.pending = IF stored THEN None ELSE v]
    /\ index' = [w \in Revisions |->
         IF w = v THEN IF stored THEN "stored_only" ELSE "pending"
         ELSE IF w = item.pending THEN "cancelled" ELSE index[w]]
    /\ run' = IF stored THEN Superseding ELSE Prepared(Superseding, v, g)
    /\ UNCHANGED <<sent, delivery, indexer, indexUsed>>

DeleteItem ==
    /\ item.state = "kept"
    /\ item' = [item EXCEPT !.state = "deleted", !.active = None, !.pending = None,
                            !.generation = @ + 1]
    /\ index' = [v \in Revisions |-> IF v <= item.newest THEN "cancelled" ELSE index[v]]
    /\ run' = Superseding
    /\ UNCHANGED <<sent, delivery, indexer, indexUsed>>

CancelRun(r) ==
    /\ Current(r)
    /\ indexUsed.cancels < MaxCancels
    /\ indexUsed' = [indexUsed EXCEPT !.cancels = @ + 1]
    /\ item' = [item EXCEPT !.generation = @ + 1]
    /\ index' = [index EXCEPT ![run[r].revision] = "cancelled"]
    /\ CloseRun(r, "cancelled")
    /\ UNCHANGED <<sent, delivery, indexer>>

RetryItem == LET v == item.pending  g == item.generation + 1 IN
    /\ item.state = "kept" /\ v # None /\ HasNewRun
    /\ index[v] \in {"failed", "cancelled", "pending"}
    /\ \A r \in Runs : run[r].revision = v => ~Live(r)
    /\ item' = [item EXCEPT !.generation = g]
    /\ index' = [index EXCEPT ![v] = "pending"]
    /\ run' = Prepared(run, v, g)
    /\ UNCHANGED <<sent, delivery, indexer, indexUsed>>
-----------------------------------------------------------------------------
(* The outbox and the queue.                                               *)

\* mutant: a run that was delivered is not delivered again
DueOnce(r) == Current(r) /\ ~run[r].leased /\ r \notin sent
(* An entry stays due, a minute apart, as long as nobody leases its run.   *)
OutboxDue(r) == Current(r) /\ ~run[r].leased

(* deliverKnowledgeTask: an ended job is replaced.                         *)
Dispatch(r) ==
    /\ OutboxDue(r)
    /\ delivery[r].state \in {"none", "ended"} \/ r \notin sent
    /\ delivery' = IF delivery[r].state \in {"none", "ended"}
                   THEN [delivery EXCEPT ![r].state = "waiting"] ELSE delivery
    /\ sent' = sent \union {r}
    /\ UNCHANGED <<item, index, run, indexer, indexUsed>>

(* The send was committed to Redis, its note in the outbox was not.        *)
DispatchDies(r) ==
    /\ OutboxDue(r) /\ delivery[r].state \in {"none", "ended"} /\ IndexFault
    /\ delivery' = [delivery EXCEPT ![r].state = "waiting"]
    /\ UNCHANGED <<item, index, run, sent, indexer>>

PickRun(k, r) ==
    /\ AtIndex(k, "idle") /\ delivery[r].state = "waiting"
    /\ delivery' = [delivery EXCEPT ![r] = [state |-> "active", holder |-> k]]
    /\ IndexerGoes(k, [IdleIndexer EXCEPT !.at = "picked", !.run = r])
    /\ UNCHANGED <<item, index, run, sent, indexUsed>>

(* A job whose worker is gone waits again, or has failed.                  *)
StalledRun(r) ==
    /\ delivery[r] = [state |-> "active", holder |-> NoIndexer]
    /\ \E s \in {"waiting", "ended"} : delivery' = [delivery EXCEPT ![r].state = s]
    /\ UNCHANGED <<item, index, run, sent, indexer, indexUsed>>
-----------------------------------------------------------------------------
(* A worker.                                                               *)

ClaimRun(k) == LET r == indexer[k].run  n == run[r].attempts + 1 IN
    /\ AtIndex(k, "picked")
    /\ IF Current(r) /\ ~run[r].leased
       THEN /\ run' = [run EXCEPT ![r].status = "running", ![r].attempts = n, ![r].token = n,
                                  ![r].leased = TRUE]
            /\ index' = [index EXCEPT ![run[r].revision] = "processing"]
            /\ IndexerGoes(k, [indexer[k] EXCEPT !.at = "working", !.token = n])
       ELSE AckNext(k, FALSE) /\ UNCHANGED <<run, index>>
    /\ UNCHANGED <<item, sent, delivery, indexUsed>>

(* The index, the revision, the item and the run commit together.          *)
PublishRun(k) == LET r == indexer[k].run IN
    /\ AtIndex(k, "working") /\ indexer[k].token <= IngestAttempts
    /\ IF Owns(k)
       THEN /\ index' = [index EXCEPT ![run[r].revision] = "ready"]
            /\ item' = [item EXCEPT !.active = run[r].revision, !.pending = None]
            /\ CloseRun(r, "succeeded")
       ELSE UNCHANGED <<index, item, run>>
    /\ AckNext(k, FALSE)
    /\ UNCHANGED <<sent, delivery, indexUsed>>

(* An error that can be retried, another one, or one attempt too many.     *)
FailRun(k, retry) == LET r == indexer[k].run IN
    /\ AtIndex(k, "working") /\ (retry => indexer[k].token < IngestAttempts)
    /\ IF Owns(k)
       THEN /\ index' = [index EXCEPT ![run[r].revision] = IF retry THEN "pending" ELSE "failed"]
            /\ CloseRun(r, IF retry THEN "pending" ELSE "failed")
       ELSE UNCHANGED <<index, run>>
    /\ AckNext(k, retry /\ Owns(k))
    /\ UNCHANGED <<item, sent, delivery, indexUsed>>

(* What threw may be tried again by BullMQ, which has attempts of its own. *)
AckRun(k) == LET r == indexer[k].run IN
    /\ AtIndex(k, "acking")
    /\ \E s \in {"ended"} \union (IF indexer[k].retry THEN {"waiting"} ELSE {}) :
         delivery' = IF delivery[r].holder # k THEN delivery
                     ELSE [delivery EXCEPT ![r] = [state |-> s, holder |-> NoIndexer]]
    /\ IndexerGoes(k, IdleIndexer)
    /\ UNCHANGED <<item, index, run, sent, indexUsed>>

Orphan(r) == run[r].leased /\ ~\E k \in Indexers :
    AtIndex(k, "working") /\ indexer[k].run = r /\ indexer[k].token = run[r].token

(* The heartbeat keeps the lease as long as its worker can send it. The    *)
(* job's lock is longer than the lease: it may go as well, or not.         *)
RunLeaseLapses(r) ==
    /\ run[r].leased
    /\ run' = [run EXCEPT ![r].leased = FALSE]
    /\ IF Orphan(r) THEN UNCHANGED <<indexUsed, delivery>>
       ELSE IndexFault /\ \E h \in {delivery[r].holder, NoIndexer} :
              delivery' = [delivery EXCEPT ![r].holder = h]
    /\ UNCHANGED <<item, index, sent, indexer>>

IndexerDies(k) == LET r == indexer[k].run IN
    /\ ~AtIndex(k, "idle") /\ IndexFault
    /\ delivery' = IF delivery[r].holder = k THEN [delivery EXCEPT ![r].holder = NoIndexer]
                   ELSE delivery
    /\ IndexerGoes(k, IdleIndexer)
    /\ UNCHANGED <<item, index, run, sent>>

IndexerStep(k) ==
    ClaimRun(k) \/ PublishRun(k) \/ (\E retry \in BOOLEAN : FailRun(k, retry)) \/ AckRun(k)

IndexNext ==
    \/ \E stored \in BOOLEAN : CreateItem(stored) \/ NewRevision(stored)
    \/ DeleteItem \/ RetryItem
    \/ \E r \in Runs : \/ CancelRun(r) \/ Dispatch(r) \/ DispatchDies(r)
                       \/ StalledRun(r) \/ RunLeaseLapses(r)
    \/ \E k \in Indexers, r \in Runs : PickRun(k, r)
    \/ \E k \in Indexers : IndexerStep(k) \/ IndexerDies(k)

(* The outbox is looked at every few seconds, the queue hands out what     *)
(* waits, and a worker ends within its time-out.                           *)
IndexFairness ==
    /\ WF_indexVars(\E r \in Runs : Dispatch(r))
    /\ WF_indexVars(\E r \in Runs : StalledRun(r) \/ (Orphan(r) /\ RunLeaseLapses(r)))
    /\ WF_indexVars(\E k \in Indexers, r \in Runs : PickRun(k, r))
    /\ \A k \in Indexers : WF_indexVars(IndexerStep(k))

IndexSpec == IndexInit /\ [][IndexNext]_indexVars /\ IndexFairness
-----------------------------------------------------------------------------
(* What is searched never falls back behind an edit: the active revision   *)
(* only moves to a newer one, which is complete, and only a deletion takes *)
(* it away, whichever worker comes late with an older one.                 *)
SearchMovesForward ==
    [][\/ item'.active = item.active
       \/ item'.state = "deleted" /\ item'.active = None
       \/ item'.active > item.active /\ index'[item'.active] \in {"ready", "stored_only"}]_indexVars

(* A run comes to an end, whatever died between the transaction that made  *)
(* it, the queue and the worker.                                           *)
RunsEnd == \A r \in Runs : Live(r) ~> ~Live(r)
=============================================================================
