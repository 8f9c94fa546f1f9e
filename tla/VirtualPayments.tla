-------------------------- MODULE VirtualPayments --------------------------
(***************************************************************************)
(* An order paid inside the mini program. Nobody notifies the server: the  *)
(* order stays due, and whoever looks at it (the timer of any API process, *)
(* or the payer asking for its status) leases it, asks the payment         *)
(* provider, reports what it learns to the accounting service, confirms    *)
(* the delivery, and writes all of it back in one statement.               *)
(*                                                                         *)
(* Source: packages/server/src/payments/service.ts and repository.ts.      *)
(*                                                                         *)
(* One order. The provider and the accounting service are external. The    *)
(* latter keeps one entry per order, with the largest refund it was told   *)
(* of. Quotes, signatures, and answers of another identity or amount,      *)
(* which all throw, are one failing call. Amounts are counted in shares.   *)
(***************************************************************************)
EXTENDS Naturals

CONSTANTS
    Reconcilers,      \* who reconciles at once
    NoReconciler,
    Amount,           \* what the order costs
    MaxPayFaults      \* bound: calls that fail, deaths, leases that lapse under a live holder

ASSUME PayAssumption ==
    /\ NoReconciler \notin Reconcilers
    /\ Amount \in Nat \ {0} /\ MaxPayFaults \in Nat

VARIABLES
    order,        \* the row
    remote,       \* the order at the provider
    account,      \* its entry at the accounting service
    reconciler,   \* what each reconciler is doing, with its copy of the order
    payFaults     \* how much of the bound was used

payVars == <<order, remote, account, reconciler, payFaults>>

OrderStatus == {"none", "pending", "credited", "sandbox_paid", "payment_failed", "refunded"}
Copies == [status : OrderStatus, refunded : 0 .. Amount, delivered : BOOLEAN]
(* "paid" stands for 2 and 3, "settled" for 4 and 7, "refunding" for the rest. *)
RemoteStatus == {"unpaid", "failed", "paid", "settled", "refunding"}

NewCopy == [status |-> "none", refunded |-> 0, delivered |-> FALSE]
IdleReconciler == [at |-> "idle", copy |-> NewCopy, saw |-> "unpaid", refund |-> 0]

PayInit ==
    /\ order = [row |-> NewCopy, live |-> TRUE, lease |-> NoReconciler, leased |-> FALSE]
    /\ remote = [status |-> "unpaid", refunded |-> 0]
    /\ account = [received |-> FALSE, refunded |-> 0]
    /\ reconciler = [k \in Reconcilers |-> IdleReconciler]
    /\ payFaults = 0

OrderRecords ==
    [row : Copies, live : BOOLEAN, lease : Reconcilers \union {NoReconciler}, leased : BOOLEAN]
RemoteRecords == [status : RemoteStatus, refunded : 0 .. Amount]
AccountRecords == [received : BOOLEAN, refunded : 0 .. Amount]
ReconcilerRecords == [at : {"idle", "query", "report", "deliver", "finish"}, copy : Copies,
                      saw : RemoteStatus, refund : 0 .. Amount]

PayTypeOK ==
    /\ order \in OrderRecords /\ remote \in RemoteRecords /\ account \in AccountRecords
    /\ reconciler \in [Reconcilers -> ReconcilerRecords]
    /\ payFaults \in 0 .. MaxPayFaults
-----------------------------------------------------------------------------
Larger(a, b) == IF a < b THEN b ELSE a
PayFault == payFaults < MaxPayFaults /\ payFaults' = payFaults + 1

AtPay(k, place) == reconciler[k].at = place
GoesOn(k, r) == reconciler' = [reconciler EXCEPT ![k] = r]
(* The catch of reconcile: what the copy says by now is written back.      *)
Defers(k) == GoesOn(k, [reconciler[k] EXCEPT !.at = "finish"])

(* create; env decides whether the accounting service ever hears of it.    *)
CreateOrder ==
    /\ order.row.status = "none"
    /\ \E live \in BOOLEAN :
         order' = [order EXCEPT !.row.status = "pending", !.live = live]
    /\ UNCHANGED <<remote, account, reconciler, payFaults>>

\* mutant: a credited order is not looked at again
PendingOnly == order.row.status = "pending" /\ ~order.leased
(* due and claim: the row is not ended and nobody's lease is running. The  *)
(* time of the next check is left out: it always comes.                    *)
Due == order.row.status \in {"pending", "credited", "sandbox_paid"} /\ ~order.leased

ClaimOrder(k) ==
    /\ AtPay(k, "idle") /\ Due
    /\ order' = [order EXCEPT !.lease = k, !.leased = TRUE]
    /\ GoesOn(k, [IdleReconciler EXCEPT !.at = "query", !.copy = order.row])
    /\ UNCHANGED <<remote, account, payFaults>>

(* What the answer says of refunds: it may leave them out.                 *)
Answered(k, r) ==
    LET copy == reconciler[k].copy
        refund == Larger(copy.refunded, r) IN
    IF remote.status = "unpaid" \/ (remote.status = "refunding" /\ r = 0) THEN Defers(k)
    ELSE IF remote.status = "failed"
    THEN GoesOn(k, [reconciler[k] EXCEPT !.at = "finish",
           !.copy.status = IF @ = "pending" THEN "payment_failed" ELSE @])
    ELSE IF order.live
    THEN GoesOn(k, [reconciler[k] EXCEPT !.at = "report", !.saw = remote.status, !.refund = refund])
    ELSE GoesOn(k, [reconciler[k] EXCEPT !.saw = remote.status, !.copy.refunded = refund,
           !.at = IF refund = Amount THEN "finish" ELSE "deliver",
           !.copy.status = IF refund = Amount THEN "refunded" ELSE "sandbox_paid"])

Query(k) ==
    /\ AtPay(k, "query")
    /\ \/ Answered(k, remote.refunded) /\ UNCHANGED payFaults
       \/ Answered(k, 0) /\ PayFault
       \/ Defers(k) /\ PayFault
    /\ UNCHANGED <<order, remote, account>>

\* mutant: what is refunded in all is added to what was refunded before
AddsRefunds(k) == [received |-> TRUE, refunded |-> account.refunded + reconciler[k].refund]
(* The accounting service keeps the largest refund it was told of.         *)
Receipt(k) ==
    LET refund == Larger(account.refunded, reconciler[k].refund) IN
    [received |-> TRUE, refunded |-> refund]

Acknowledged(k) ==
    /\ account' = Receipt(k) /\ UNCHANGED payFaults
    /\ GoesOn(k, [reconciler[k] EXCEPT !.copy.refunded = account'.refunded,
         !.at = IF account'.refunded = Amount THEN "finish" ELSE "deliver",
         !.copy.status = IF account'.refunded = Amount THEN "refunded" ELSE "credited"])

\* mutant: the order is credited before the accounting service has it
CreditsFirst(k) ==
    /\ AtPay(k, "report")
    /\ \/ Acknowledged(k)
       \/ /\ PayFault /\ UNCHANGED account
          /\ GoesOn(k, [reconciler[k] EXCEPT !.at = "finish", !.copy.status = "credited"])
    /\ UNCHANGED <<order, remote>>
(* The report is answered, is lost, or its answer is.                      *)
Report(k) ==
    /\ AtPay(k, "report")
    /\ \/ Acknowledged(k)
       \/ PayFault /\ account' \in {account, Receipt(k)} /\ Defers(k)
    /\ UNCHANGED <<order, remote>>

(* The provider is told once it shows the order as paid; telling it again  *)
(* does nothing.                                                           *)
ConfirmDelivery(k) ==
    /\ AtPay(k, "deliver")
    /\ \/ /\ remote' = IF reconciler[k].saw = "paid" /\ remote.status = "paid"
                       THEN [remote EXCEPT !.status = "settled"] ELSE remote
          /\ GoesOn(k, [reconciler[k] EXCEPT !.at = "finish", !.copy.delivered = TRUE])
          /\ UNCHANGED payFaults
       \/ reconciler[k].saw = "paid" /\ PayFault /\ Defers(k) /\ UNCHANGED remote
    /\ UNCHANGED <<order, account>>

\* mutant: whoever comes late still writes
FinishesLate(k) ==
    /\ AtPay(k, "finish")
    /\ order' = [order EXCEPT !.row = reconciler[k].copy, !.lease = NoReconciler, !.leased = FALSE]
    /\ GoesOn(k, IdleReconciler)
    /\ UNCHANGED <<remote, account, payFaults>>
(* finish: only the current lease writes.                                  *)
FinishOrder(k) ==
    /\ AtPay(k, "finish")
    /\ order' = IF order.lease # k THEN order
                ELSE [order EXCEPT !.row = reconciler[k].copy, !.lease = NoReconciler,
                                   !.leased = FALSE]
    /\ GoesOn(k, IdleReconciler)
    /\ UNCHANGED <<remote, account, payFaults>>
-----------------------------------------------------------------------------
(* The provider, and what goes wrong.                                      *)

RemoteMoves ==
    /\ order.row.status # "none"
    /\ \/ /\ remote.status = "unpaid"
          /\ \E s \in {"failed", "paid"} : remote' = [remote EXCEPT !.status = s]
       \/ /\ remote.status \in {"paid", "settled", "refunding"} /\ remote.refunded < Amount
          /\ remote' = [status |-> "refunding", refunded |-> remote.refunded + 1]
    /\ UNCHANGED <<order, account, reconciler, payFaults>>

(* 120 seconds are over: the holder died, or it was held up that long.     *)
Abandoned == order.leased /\ reconciler[order.lease].at = "idle"
LeaseRunsOut ==
    /\ order.leased
    /\ IF Abandoned THEN UNCHANGED payFaults ELSE PayFault
    /\ order' = [order EXCEPT !.leased = FALSE]
    /\ UNCHANGED <<remote, account, reconciler>>

ReconcilerDies(k) ==
    /\ ~AtPay(k, "idle") /\ PayFault
    /\ GoesOn(k, IdleReconciler)
    /\ UNCHANGED <<order, remote, account>>

PayNext ==
    \/ CreateOrder \/ RemoteMoves \/ LeaseRunsOut
    \/ \E k \in Reconcilers :
         \/ ClaimOrder(k) \/ Query(k) \/ Report(k) \/ ConfirmDelivery(k)
         \/ FinishOrder(k) \/ ReconcilerDies(k)

(* The timer of start() looks at every due order again; a call is over     *)
(* within the 55 seconds of its signal.                                    *)
PayFairness ==
    /\ WF_payVars(\E k \in Reconcilers : ClaimOrder(k))
    /\ WF_payVars(Abandoned /\ LeaseRunsOut)
    /\ \A k \in Reconcilers :
         WF_payVars(Query(k) \/ Report(k) \/ ConfirmDelivery(k) \/ FinishOrder(k))

PaySpec == PayInit /\ [][PayNext]_payVars /\ PayFairness
-----------------------------------------------------------------------------
(* What the payer is shown agrees with the accounting service, whichever   *)
(* step failed or was answered too late: an order is called credited only  *)
(* once its points are there, no refund is shown that was not passed on,   *)
(* and a sandbox order never reaches the service.                          *)
CreditedIsReported ==
    /\ order.live /\ order.row.status \in {"credited", "refunded"} => account.received
    /\ order.live => order.row.refunded <= account.refunded
    /\ ~order.live => ~account.received

(* A refund that was written down stays, whatever an answer leaves out and *)
(* however late the reconciler that did not know of it.                    *)
RefundIsKept ==
    [][order'.row.refunded >= order.row.refunded /\ account'.refunded >= account.refunded]_payVars

(* What happens at the provider reaches the order: one that was paid ends  *)
(* up delivered or refunded, and no refund is missed for good.             *)
Arrived == order.row.status = "refunded" \/ order.row.delivered
PaidArrives ==
    /\ remote.status \in {"paid", "settled", "refunding"} ~> Arrived
    /\ \A r \in 1 .. Amount : remote.refunded >= r ~> order.row.refunded >= r
=============================================================================
