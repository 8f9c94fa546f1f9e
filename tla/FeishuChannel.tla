--------------------------- MODULE FeishuChannel ---------------------------
(***************************************************************************)
(* Messages an owner sends to the assistant through Feishu. Feishu may     *)
(* deliver a message more than once, to any API process; its row in the    *)
(* inbox is written once, taken up once, one message at a time, and a      *)
(* message whose worker was lost is never taken up again. What the         *)
(* assistant sends to others on the way is recorded before it is sent, and *)
(* never sent again unless Feishu refused it.                              *)
(*                                                                         *)
(* Source: packages/server/src/feishu/repository.ts (inbox, send records), *)
(* channel.ts (receive, consume), service.ts (send), tools.ts.             *)
(*                                                                         *)
(* One owner. Feishu is external. An execution sends one text to one       *)
(* recipient, under either identity, as often as the model calls the tool. *)
(* The conversation's lease (RunLedger), transcripts, contacts, tokens and *)
(* replies of the bot are left out.                                        *)
(***************************************************************************)
EXTENDS Naturals

CONSTANTS
    Messages, Cancelling,   \* messages, those that say /cancel,
    Sending,                \* and those that have the assistant send a text
    Consumers,              \* the tasks of all processes that work on a message
    NoMessage,
    MaxFeishuFaults         \* bound: deaths, calls without an answer, rows that
                            \* expire under a live worker

ASSUME FeishuAssumption ==
    /\ Cancelling \union Sending \subseteq Messages /\ NoMessage \notin Messages
    /\ MaxFeishuFaults \in Nat

VARIABLES
    inbox,         \* feishu_inbox
    arrived,       \* how many rows there are: they are taken up in that order
    connected,     \* the connection has the revision the messages came with
    routing,       \* messages a port has taken, not yet recorded as such
    consumer,      \* what each task is doing
    record,        \* feishu_sends, under both ids of the message's text
    executed,      \* history: how often the message reached the assistant
    delivered,     \* history: how often Feishu took the text it led to
    feishuFaults   \* how much of the bound was used

feishuVars == <<inbox, arrived, connected, routing, consumer, record, executed, delivered,
                feishuFaults>>

Identities == {"user", "bot"}
Other(i) == IF i = "user" THEN "bot" ELSE "user"
(* "done" is every outcome but cancelled: completed, failed, awaiting_input. *)
InboxStatus == {"none", "pending", "running", "done", "cancelled", "unknown", "routed",
                "rate_limited"}
SendStatus == {"none", "sending", "sent", "failed", "unknown"}

NoRow == [status |-> "none", place |-> 0, cancelAsked |-> FALSE]
IdleConsumer == [at |-> "idle", message |-> NoMessage, aborted |-> FALSE, as |-> "user",
                 result |-> "none"]

FeishuInit ==
    /\ inbox = [m \in Messages |-> NoRow]
    /\ arrived = 0 /\ connected = TRUE /\ routing = {}
    /\ consumer = [k \in Consumers |-> IdleConsumer]
    /\ record = [m \in Messages |-> [i \in Identities |-> "none"]]
    /\ executed = [m \in Messages |-> 0]
    /\ delivered = [m \in Messages |-> 0]
    /\ feishuFaults = 0

FeishuTypeOK ==
    /\ inbox \in [Messages -> [status : InboxStatus, place : Nat, cancelAsked : BOOLEAN]]
    /\ arrived \in Nat /\ connected \in BOOLEAN /\ routing \subseteq Messages
    /\ consumer \in [Consumers -> [at : {"idle", "claimed", "executing", "staged", "written", "after"},
                                   message : Messages \union {NoMessage}, aborted : BOOLEAN,
                                   as : Identities, result : SendStatus]]
    /\ record \in [Messages -> [Identities -> SendStatus]]
    /\ {executed, delivered} \subseteq [Messages -> Nat]
    /\ feishuFaults \in 0 .. MaxFeishuFaults
-----------------------------------------------------------------------------
FeishuFault == feishuFaults < MaxFeishuFaults /\ feishuFaults' = feishuFaults + 1
AtConsume(k, place) == consumer[k].at = place
Consumes(k, s) == consumer' = [consumer EXCEPT ![k] = s]
NobodyAt(m) == \A k \in Consumers : consumer[k].message # m

(* cancelJobs: what waits is cancelled, what runs is asked to stop and     *)
(* keeps its place until its worker has stopped.                           *)
JobsCancelled == [m \in Messages |->
    IF inbox[m].status = "pending" THEN [inbox[m] EXCEPT !.status = "cancelled"]
    ELSE IF inbox[m].status = "running" THEN [inbox[m] EXCEPT !.cancelAsked = TRUE]
    ELSE inbox[m]]
-----------------------------------------------------------------------------
(* What comes in.                                                          *)

(* A port, such as the answer to a decision, takes the message.            *)
Route(m) ==
    /\ connected /\ inbox[m].status = "none"
    /\ routing' = routing \union {m}
    /\ UNCHANGED <<inbox, arrived, connected, consumer, record, executed, delivered, feishuFaults>>

RecordRouted(m) ==
    /\ m \in routing
    /\ routing' = routing \ {m}
    /\ inbox' = IF inbox[m].status = "none" THEN [inbox EXCEPT ![m].status = "routed"] ELSE inbox
    /\ UNCHANGED <<arrived, connected, consumer, record, executed, delivered, feishuFaults>>

(* enqueue: a message that is known already changes nothing.               *)
Enqueue(m) ==
    /\ connected /\ inbox[m].status = "none"
    /\ \E limited \in IF m \in Cancelling THEN {FALSE} ELSE BOOLEAN :
         inbox' = [IF m \in Cancelling THEN JobsCancelled ELSE inbox EXCEPT
                     ![m] = [NoRow EXCEPT !.status = IF limited THEN "rate_limited" ELSE "pending",
                                          !.place = arrived + 1]]
    /\ arrived' = arrived + 1
    /\ UNCHANGED <<connected, routing, consumer, record, executed, delivered, feishuFaults>>

Disconnect ==
    /\ connected /\ connected' = FALSE
    /\ inbox' = JobsCancelled
    /\ UNCHANGED <<arrived, routing, consumer, record, executed, delivered, feishuFaults>>
-----------------------------------------------------------------------------
(* claim.                                                                  *)

\* mutant: a message whose worker was lost is taken up again
WaitsAgain == "pending"
(* "A crashed worker is never replayed."                                   *)
AfterCrash == "unknown"

(* Running for 35 minutes: nobody is at it, or a worker that was held up.  *)
Expire(m) ==
    /\ inbox[m].status = "running"
    /\ IF NobodyAt(m) THEN UNCHANGED feishuFaults ELSE FeishuFault
    /\ inbox' = [inbox EXCEPT ![m].status = AfterCrash]
    /\ UNCHANGED <<arrived, connected, routing, consumer, record, executed, delivered>>

\* mutant: a message that was not finished keeps the others waiting
NobodyAtWork == \A m \in Messages : inbox[m].status \notin {"running", "unknown"}
(* The oldest one, when no other is running.                               *)
NothingRuns == \A m \in Messages : inbox[m].status # "running"
Oldest(m) ==
    /\ inbox[m].status = "pending"
    /\ \A n \in Messages : inbox[n].status = "pending" => inbox[m].place <= inbox[n].place

ClaimMessage(k, m) ==
    /\ AtConsume(k, "idle") /\ NothingRuns /\ Oldest(m)
    /\ inbox' = [inbox EXCEPT ![m].status = "running"]
    /\ Consumes(k, [IdleConsumer EXCEPT !.at = "claimed", !.message = m])
    /\ UNCHANGED <<arrived, connected, routing, record, executed, delivered, feishuFaults>>
-----------------------------------------------------------------------------
(* consume.                                                                *)

Active(m) == inbox[m].status = "running" /\ ~inbox[m].cancelAsked /\ connected

BeginExecution(k) == LET m == consumer[k].message IN
    /\ AtConsume(k, "claimed")
    /\ IF Active(m) /\ ~consumer[k].aborted
       THEN /\ Consumes(k, [consumer[k] EXCEPT !.at = "executing"])
            /\ executed' = [executed EXCEPT ![m] = @ + 1]
       ELSE Consumes(k, [consumer[k] EXCEPT !.at = "after"]) /\ UNCHANGED executed
    /\ UNCHANGED <<inbox, arrived, connected, routing, record, delivered, feishuFaults>>

(* The monitor, every two seconds, or a /cancel this process received. A   *)
(* look at the row that fails stops the assistant just the same.           *)
Monitor(k) ==
    /\ consumer[k].message # NoMessage /\ ~consumer[k].aborted
    /\ \/ ~Active(consumer[k].message) /\ UNCHANGED feishuFaults
       \/ FeishuFault
    /\ Consumes(k, [consumer[k] EXCEPT !.aborted = TRUE])
    /\ UNCHANGED <<inbox, arrived, connected, routing, record, executed, delivered>>

(* send: a text that has a record under this id is not sent; nor one that  *)
(* has, under the other identity, unless Feishu refused that one.          *)
MaySend(m, i) == record[m][i] = "none" /\ record[m][Other(i)] \in {"none", "failed"}

StageSend(k, i) == LET m == consumer[k].message IN
    /\ AtConsume(k, "executing") /\ ~consumer[k].aborted /\ connected
    /\ m \in Sending /\ MaySend(m, i)
    /\ record' = [record EXCEPT ![m][i] = "sending"]
    /\ Consumes(k, [consumer[k] EXCEPT !.at = "staged", !.as = i])
    /\ UNCHANGED <<inbox, arrived, connected, routing, executed, delivered, feishuFaults>>

(* Not dispatched, refused, taken, or taken without an answer.             *)
WriteSend(k) == LET m == consumer[k].message IN
    /\ AtConsume(k, "staged")
    /\ \E result \in {"sent", "failed", "unknown"} :
         /\ Consumes(k, [consumer[k] EXCEPT !.at = "written", !.result = result])
         /\ delivered' = IF result = "failed" THEN delivered ELSE [delivered EXCEPT ![m] = @ + 1]
    /\ UNCHANGED <<inbox, arrived, connected, routing, record, executed, feishuFaults>>

(* A record that cannot be written says unknown, or keeps saying sending.  *)
RecordSend(k) == LET m == consumer[k].message  i == consumer[k].as IN
    /\ AtConsume(k, "written")
    /\ \/ record' = [record EXCEPT ![m][i] = consumer[k].result] /\ UNCHANGED feishuFaults
       \/ FeishuFault /\ record' \in {record, [record EXCEPT ![m][i] = "unknown"]}
    /\ Consumes(k, [consumer[k] EXCEPT !.at = "executing"])
    /\ UNCHANGED <<inbox, arrived, connected, routing, executed, delivered>>

(* The assistant is done, fails, or was stopped; 30 minutes are the most.  *)
EndExecution(k) ==
    /\ AtConsume(k, "executing")
    /\ Consumes(k, [consumer[k] EXCEPT !.at = "after"])
    /\ UNCHANGED <<inbox, arrived, connected, routing, record, executed, delivered, feishuFaults>>

(* recordResult and finish, whatever the reply of the bot came to.         *)
FinishMessage(k) == LET m == consumer[k].message IN
    /\ AtConsume(k, "after")
    /\ inbox' = IF inbox[m].status # "running" THEN inbox
                ELSE [inbox EXCEPT ![m].status = IF Active(m) THEN "done" ELSE "cancelled"]
    /\ Consumes(k, IdleConsumer)
    /\ UNCHANGED <<arrived, connected, routing, record, executed, delivered, feishuFaults>>

(* The process dies, or a call of consume to the database fails.           *)
ConsumerDies(k) ==
    /\ ~AtConsume(k, "idle") /\ FeishuFault
    /\ Consumes(k, IdleConsumer)
    /\ UNCHANGED <<inbox, arrived, connected, routing, record, executed, delivered>>

ConsumerEnds(k) ==
    \/ BeginExecution(k) \/ WriteSend(k) \/ RecordSend(k) \/ EndExecution(k) \/ FinishMessage(k)

FeishuNext ==
    \/ \E m \in Messages : Route(m) \/ RecordRouted(m) \/ Enqueue(m) \/ Expire(m)
    \/ Disconnect
    \/ \E k \in Consumers, m \in Messages : ClaimMessage(k, m)
    \/ \E k \in Consumers : \/ ConsumerEnds(k) \/ Monitor(k) \/ ConsumerDies(k)
                            \/ \E i \in Identities : StageSend(k, i)

(* claim runs every second and expires what is old; an execution has 30    *)
(* minutes.                                                                *)
FeishuFairness ==
    /\ WF_feishuVars(\E k \in Consumers, m \in Messages : ClaimMessage(k, m))
    /\ WF_feishuVars(\E m \in Messages : NobodyAt(m) /\ Expire(m))
    /\ \A k \in Consumers : WF_feishuVars(ConsumerEnds(k))

FeishuSpec == FeishuInit /\ [][FeishuNext]_feishuVars /\ FeishuFairness
-----------------------------------------------------------------------------
(* However often Feishu delivers a message, workers die with it and the    *)
(* model calls the tool, the assistant sees it once, and what it sends to  *)
(* somebody reaches them once, under one identity.                         *)
SentOnce == \A m \in Messages : executed[m] <= 1 /\ delivered[m] <= 1

(* Nobody's message waits for good behind one that was lost.               *)
NobodyWaitsForever == \A m \in Messages : inbox[m].status = "pending" ~> inbox[m].status # "pending"
=============================================================================
