---------------------------- MODULE Services_proofs ----------------------------
(***************************************************************************)
(* The three services, for any workers, bounds and inputs.                 *)
(*                                                                         *)
(* VirtualPayments: what the payer is shown agrees with the accounting     *)
(* service, and refunds stay (PayInv). KnowledgeIngestion: what is         *)
(* searched never falls back, because what is pending is always newer      *)
(* (IndexInv). FeishuChannel: a message is executed once, what it sends is *)
(* delivered once, because nobody ever takes a message up again and what   *)
(* was delivered is on record, not as refused (FeishuInv). Last, the       *)
(* behaviours that TLC is given are behaviours of the three.               *)
(***************************************************************************)
EXTENDS MCServices, TLAPS

(* VirtualPayments.                                                        *)
(* A copy says nothing the accounting service does not know, and only an   *)
(* order of the live environment is reported.                              *)
CopyFits(r) ==
    /\ order.live /\ r.copy.status \in {"credited", "refunded"} => account.received
    /\ order.live => r.copy.refunded <= account.refunded
    /\ r.at = "report" => order.live
    /\ r.at # "idle" => r.copy.status # "none"
    /\ r.at = "idle" => r = IdleReconciler

CopiesFit == \A k \in Reconcilers : CopyFits(reconciler[k])

(* Whoever has the lease knows of every refund that was written down.      *)
HolderIsUpToDate ==
    \A k \in Reconcilers :
        order.lease = k /\ ~AtPay(k, "idle") =>
            order.row.refunded <= reconciler[k].copy.refunded

NoOrderNoWork ==
    order.row.status = "none" =>
        /\ order.row.refunded = 0 /\ ~account.received
        /\ \A k \in Reconcilers : AtPay(k, "idle")

PayInv ==
    PayTypeOK /\ CopiesFit /\ HolderIsUpToDate /\ NoOrderNoWork /\ CreditedIsReported

LEMMA PayConstants ==
    Amount \in Nat /\ Amount > 0 /\ MaxPayFaults \in Nat /\ NoReconciler \notin Reconcilers
  BY PayAssumption

LEMMA LargerIsLarger ==
    ASSUME NEW a \in 0 .. Amount, NEW b \in 0 .. Amount
    PROVE  Larger(a, b) \in 0 .. Amount /\ Larger(a, b) >= a /\ Larger(a, b) >= b
  BY PayConstants DEF Larger

LEMMA IdleIsTyped == IdleReconciler \in ReconcilerRecords /\ NewCopy \in Copies
  BY PayConstants
  DEF IdleReconciler, ReconcilerRecords, NewCopy, Copies, OrderStatus, RemoteStatus

LEMMA PayInitInv == PayInit => PayInv
<1> SUFFICES ASSUME PayInit PROVE PayInv
  OBVIOUS
<1>1. /\ order \in OrderRecords /\ remote \in RemoteRecords /\ account \in AccountRecords
      /\ payFaults \in 0 .. MaxPayFaults
  BY PayConstants, IdleIsTyped
  DEF PayInit, OrderRecords, RemoteRecords, AccountRecords, RemoteStatus
<1>2. reconciler \in [Reconcilers -> ReconcilerRecords]
  BY IdleIsTyped DEF PayInit
<1>3. CopiesFit /\ HolderIsUpToDate /\ NoOrderNoWork /\ CreditedIsReported
  BY DEF PayInit, CopiesFit, CopyFits, HolderIsUpToDate, NoOrderNoWork, CreditedIsReported,
         IdleReconciler, NewCopy, AtPay
<1> QED
  BY <1>1, <1>2, <1>3 DEF PayInv, PayTypeOK

LEMMA PayFaultCounts == ASSUME PayTypeOK, PayFault PROVE payFaults' \in 0 .. MaxPayFaults
<1>1. payFaults \in Nat /\ payFaults < MaxPayFaults /\ payFaults' = payFaults + 1
  BY PayConstants DEF PayTypeOK, PayFault
<1> QED
  BY <1>1, PayConstants

LEMMA PayFacts ==
    ASSUME PayInv
    PROVE  /\ order.live \in BOOLEAN /\ account.received \in BOOLEAN
           /\ order.row.refunded \in 0 .. Amount /\ account.refunded \in 0 .. Amount
           /\ remote.refunded \in 0 .. Amount
           /\ \A k \in Reconcilers : /\ reconciler[k] \in ReconcilerRecords
                                     /\ reconciler[k].copy \in Copies
                                     /\ reconciler[k].copy.refunded \in 0 .. Amount
                                     /\ reconciler[k].refund \in 0 .. Amount
  BY DEF PayInv, PayTypeOK, OrderRecords, RemoteRecords, AccountRecords, ReconcilerRecords, Copies

(* A step of one reconciler that leaves the row alone.                     *)
LEMMA ReconcilerStep ==
    ASSUME PayInv, NEW k \in Reconcilers, NEW r \in ReconcilerRecords, GoesOn(k, r),
           order' = order, remote' \in RemoteRecords, account' \in AccountRecords,
           payFaults' \in 0 .. MaxPayFaults,
           account'.refunded >= account.refunded, account.received => account'.received,
           account'.received => account.received \/ order.live,
           ~AtPay(k, "idle"),
           r.at # "idle" => r.copy.refunded >= reconciler[k].copy.refunded,
           CopyFits(r)'
    PROVE  PayInv'
<1> USE DEF PayInv
<1>0. /\ account.refunded \in Nat /\ account'.refunded \in Nat /\ order.row.refunded \in Nat
      /\ \A q \in Reconcilers : reconciler[q].copy.refunded \in Nat
  BY PayFacts, PayConstants DEF AccountRecords
<1>1. /\ reconciler' \in [Reconcilers -> ReconcilerRecords] /\ reconciler'[k] = r
      /\ \A q \in Reconcilers : q # k => reconciler'[q] = reconciler[q]
  BY DEF GoesOn, PayTypeOK
<1>2. PayTypeOK'
  BY <1>1 DEF PayTypeOK
<1>3. ASSUME NEW q \in Reconcilers PROVE CopyFits(reconciler[q])'
  <2>1. CASE q = k
    BY <1>1, <2>1 DEF CopyFits
  <2>2. CASE q # k
    <3>1. CopyFits(reconciler[q]) /\ reconciler'[q] = reconciler[q]
      BY <1>1, <2>2 DEF CopiesFit
    <3> QED
      BY <1>0, <3>1 DEF CopyFits
  <2> QED
    BY <2>1, <2>2
<1>4. HolderIsUpToDate'
  <2> SUFFICES ASSUME NEW q \in Reconcilers, order.lease = q, ~AtPay(q, "idle")'
               PROVE  order.row.refunded <= reconciler'[q].copy.refunded
    BY DEF HolderIsUpToDate
  <2>1. CASE q = k
    <3>1. order.row.refunded <= reconciler[k].copy.refunded
      BY <2>1 DEF HolderIsUpToDate
    <3>2. r.copy.refunded \in Nat
      BY PayConstants DEF ReconcilerRecords, Copies
    <3> QED
      BY <1>0, <1>1, <2>1, <3>1, <3>2 DEF AtPay
  <2>2. CASE q # k
    BY <1>1, <2>2 DEF HolderIsUpToDate, AtPay
  <2> QED
    BY <2>1, <2>2
<1>5. NoOrderNoWork'
  BY DEF NoOrderNoWork
<1>6. CreditedIsReported'
  BY <1>0 DEF CreditedIsReported
<1> QED
  BY <1>2, <1>3, <1>4, <1>5, <1>6 DEF CopiesFit

(* A reconciler that goes on with a copy that says what it said.           *)
LEMMA DefersFits ==
    ASSUME PayInv, NEW k \in Reconcilers, ~AtPay(k, "idle"), Defers(k)
    PROVE  \E r \in ReconcilerRecords :
              /\ GoesOn(k, r) /\ r.at = "finish" /\ r.copy = reconciler[k].copy
<1> DEFINE r == [reconciler[k] EXCEPT !.at = "finish"]
<1>1. reconciler[k] \in ReconcilerRecords
  BY PayFacts
<1>2. r \in ReconcilerRecords /\ r.at = "finish" /\ r.copy = reconciler[k].copy
  BY <1>1 DEF ReconcilerRecords
<1>3. GoesOn(k, r)
  BY DEF Defers
<1> HIDE DEF r
<1> QED
  BY <1>2, <1>3

(* What a reconciler may go on with.                                       *)
GoesOnFitting(k, r) ==
    /\ GoesOn(k, r) /\ CopyFits(r)'
    /\ r.at # "idle" => r.copy.refunded >= reconciler[k].copy.refunded

LEMMA DefersFitting ==
    ASSUME PayInv, NEW k \in Reconcilers, ~AtPay(k, "idle"), Defers(k), order' = order,
           account.received => account'.received, account'.refunded \in 0 .. Amount,
           account'.refunded >= account.refunded
    PROVE  \E r \in ReconcilerRecords : GoesOnFitting(k, r)
<1>1. PICK r \in ReconcilerRecords :
         GoesOn(k, r) /\ r.at = "finish" /\ r.copy = reconciler[k].copy
  BY DefersFits
<1>2. CopyFits(reconciler[k])
  BY DEF PayInv, CopiesFit
<1>3. /\ account.refunded \in Nat /\ account'.refunded \in Nat
      /\ reconciler[k].copy.refunded \in Nat
  BY PayFacts, PayConstants
<1>4. CopyFits(r)'
  BY <1>1, <1>2, <1>3 DEF CopyFits, AtPay
<1> QED
  BY <1>1, <1>3, <1>4 DEF GoesOnFitting

LEMMA AnsweredFitting ==
    ASSUME PayInv, NEW k \in Reconcilers, AtPay(k, "query"), NEW a \in 0 .. Amount,
           Answered(k, a), order' = order, account' = account
    PROVE  \E r \in ReconcilerRecords : GoesOnFitting(k, r)
<1> DEFINE copy == reconciler[k].copy
           refund == Larger(copy.refunded, a)
<1>0. /\ reconciler[k] \in ReconcilerRecords /\ copy \in Copies
      /\ copy.refunded \in 0 .. Amount /\ CopyFits(reconciler[k])
      /\ remote.status \in RemoteStatus /\ account.refunded \in 0 .. Amount
  BY PayFacts DEF PayInv, CopiesFit, PayTypeOK, RemoteRecords
<1>1. refund \in 0 .. Amount /\ refund >= copy.refunded
  BY <1>0, LargerIsLarger
<1>2. CASE Defers(k)
  BY <1>0, <1>2, DefersFitting, PayConstants DEF AtPay
<1>3. CASE /\ remote.status = "failed"
           /\ GoesOn(k, [reconciler[k] EXCEPT !.at = "finish",
                 !.copy.status = IF @ = "pending" THEN "payment_failed" ELSE @])
  <2> DEFINE s == IF copy.status = "pending" THEN "payment_failed" ELSE copy.status
             c == [copy EXCEPT !.status = s]
             r == [reconciler[k] EXCEPT !.at = "finish", !.copy = c]
  <2>1. s \in OrderStatus
    BY <1>0 DEF Copies, OrderStatus
  <2>2. /\ c \in Copies /\ c.refunded = copy.refunded /\ c.status = s
    BY <1>0, <2>1 DEF Copies
  <2>3. GoesOn(k, r)
    BY <1>0, <1>3 DEF ReconcilerRecords, Copies
  <2> HIDE DEF c
  <2>4. r \in ReconcilerRecords /\ r.at = "finish" /\ r.copy = c
    BY <1>0, <2>2 DEF ReconcilerRecords
  <2> HIDE DEF r
  <2>5. PICK q \in ReconcilerRecords : q = r
    BY <2>4
  <2>6. CopyFits(q)'
    BY <1>0, <2>2, <2>4, <2>5 DEF CopyFits, AtPay
  <2> QED
    BY <1>0, <2>2, <2>3, <2>4, <2>5, <2>6 DEF GoesOnFitting
<1>4. CASE /\ order.live
           /\ GoesOn(k, [reconciler[k] EXCEPT !.at = "report", !.saw = remote.status,
                                             !.refund = refund])
  <2> HIDE DEF refund
  <2> DEFINE r == [reconciler[k] EXCEPT !.at = "report", !.saw = remote.status,
                                       !.refund = refund]
  <2>1. r \in ReconcilerRecords /\ r.at = "report" /\ r.copy = copy
    BY <1>0, <1>1 DEF ReconcilerRecords
  <2>2. GoesOn(k, r)
    BY <1>4
  <2> HIDE DEF r
  <2>3. PICK q \in ReconcilerRecords : q = r
    BY <2>1
  <2>4. CopyFits(q)'
    BY <1>0, <1>4, <2>1, <2>3 DEF CopyFits, AtPay
  <2> QED
    BY <1>0, <2>1, <2>2, <2>3, <2>4 DEF GoesOnFitting
<1>5. CASE /\ ~order.live
           /\ GoesOn(k, [reconciler[k] EXCEPT !.saw = remote.status, !.copy.refunded = refund,
                 !.at = IF refund = Amount THEN "finish" ELSE "deliver",
                 !.copy.status = IF refund = Amount THEN "refunded" ELSE "sandbox_paid"])
  <2> HIDE DEF refund
  <2> DEFINE s == IF refund = Amount THEN "refunded" ELSE "sandbox_paid"
             at == IF refund = Amount THEN "finish" ELSE "deliver"
             c == [copy EXCEPT !.refunded = refund, !.status = s]
             r == [reconciler[k] EXCEPT !.saw = remote.status, !.at = at, !.copy = c]
  <2>1. s \in OrderStatus /\ s # "none" /\ at \in {"finish", "deliver"}
    BY DEF OrderStatus
  <2>2. /\ c \in Copies /\ c.refunded = refund /\ c.status = s
    BY <1>0, <1>1, <2>1 DEF Copies
  <2>3. GoesOn(k, r)
    BY <1>0, <1>5 DEF ReconcilerRecords, Copies
  <2> HIDE DEF c, s, at
  <2>4. r \in ReconcilerRecords /\ r.at = at /\ r.copy = c
    BY <1>0, <2>1, <2>2 DEF ReconcilerRecords
  <2> HIDE DEF r
  <2>5. PICK q \in ReconcilerRecords : q = r
    BY <2>4
  <2>6. CopyFits(q)'
    BY <1>5, <2>1, <2>2, <2>4, <2>5 DEF CopyFits
  <2> QED
    BY <1>1, <2>2, <2>3, <2>4, <2>5, <2>6 DEF GoesOnFitting
<1> QED
  BY <1>2, <1>3, <1>4, <1>5 DEF Answered

LEMMA ReportFitting ==
    ASSUME PayInv, NEW k \in Reconcilers, AtPay(k, "report"), order' = order, Acknowledged(k)
    PROVE  /\ \E r \in ReconcilerRecords : GoesOnFitting(k, r)
           /\ account' \in AccountRecords /\ account'.received
           /\ account'.refunded >= account.refunded
<1> DEFINE copy == reconciler[k].copy
           n == Larger(account.refunded, reconciler[k].refund)
           s == IF n = Amount THEN "refunded" ELSE "credited"
           at == IF n = Amount THEN "finish" ELSE "deliver"
           c == [copy EXCEPT !.refunded = n, !.status = s]
           r == [reconciler[k] EXCEPT !.at = at, !.copy = c]
<1>0. /\ reconciler[k] \in ReconcilerRecords /\ copy \in Copies
      /\ copy.refunded \in 0 .. Amount /\ CopyFits(reconciler[k])
      /\ account.refunded \in 0 .. Amount /\ reconciler[k].refund \in 0 .. Amount
  BY PayFacts DEF PayInv, CopiesFit
<1>1. n \in 0 .. Amount /\ n >= account.refunded
  BY <1>0, LargerIsLarger
<1> HIDE DEF n
<1>2. account' = [received |-> TRUE, refunded |-> n]
  BY DEF Acknowledged, Receipt, n
<1>3. /\ account' \in AccountRecords /\ account'.received /\ account'.refunded = n
  BY <1>1, <1>2 DEF AccountRecords
<1>4. order.live
  BY <1>0 DEF CopyFits, AtPay
<1>5. copy.refunded <= n
  BY <1>0, <1>1, <1>4, PayConstants DEF CopyFits
<1>6. s \in OrderStatus /\ s # "none" /\ at \in {"finish", "deliver"}
  BY DEF OrderStatus
<1>7. c \in Copies /\ c.refunded = n /\ c.status = s
  BY <1>0, <1>1, <1>6 DEF Copies
<1>8. GoesOn(k, r)
  BY <1>0, <1>3 DEF Acknowledged, ReconcilerRecords, Copies
<1> HIDE DEF c, s, at
<1>9. r \in ReconcilerRecords /\ r.at = at /\ r.copy = c
  BY <1>0, <1>6, <1>7 DEF ReconcilerRecords
<1> HIDE DEF r
<1>10. PICK q \in ReconcilerRecords : q = r
  BY <1>9
<1>11. CopyFits(q)'
  BY <1>1, <1>3, <1>4, <1>6, <1>7, <1>9, <1>10, PayConstants DEF CopyFits
<1> QED
  BY <1>0, <1>1, <1>3, <1>5, <1>7, <1>8, <1>9, <1>10, <1>11, PayConstants DEF GoesOnFitting

LEMMA FittingStep ==
    ASSUME PayInv, NEW k \in Reconcilers, ~AtPay(k, "idle"), order' = order,
           remote' \in RemoteRecords, account' \in AccountRecords,
           payFaults' \in 0 .. MaxPayFaults,
           account'.refunded >= account.refunded, account.received => account'.received,
           account'.received => account.received \/ order.live,
           \E r \in ReconcilerRecords : GoesOnFitting(k, r)
    PROVE  PayInv'
  BY ReconcilerStep DEF GoesOnFitting

LEMMA QueryStep == ASSUME PayInv, NEW k \in Reconcilers, Query(k) PROVE PayInv'
<1>1. /\ AtPay(k, "query") /\ ~AtPay(k, "idle")
      /\ order' = order /\ remote' = remote /\ account' = account
  BY DEF Query, AtPay
<1>2. /\ remote \in RemoteRecords /\ account \in AccountRecords
      /\ account.refunded \in 0 .. Amount /\ payFaults \in 0 .. MaxPayFaults
      /\ remote.refunded \in 0 .. Amount /\ 0 \in 0 .. Amount
  BY PayFacts, PayConstants DEF PayInv, PayTypeOK
<1>3. payFaults' \in 0 .. MaxPayFaults
  BY <1>2, PayFaultCounts DEF Query, PayInv
<1>4. account'.refunded >= account.refunded
  BY <1>1, <1>2, PayConstants
<1>5. \E r \in ReconcilerRecords : GoesOnFitting(k, r)
  <2>1. CASE Answered(k, remote.refunded)
    BY <1>1, <1>2, <2>1, AnsweredFitting
  <2>2. CASE Answered(k, 0)
    BY <1>1, <1>2, <2>2, AnsweredFitting
  <2>3. CASE Defers(k)
    BY <1>1, <1>2, <1>4, <2>3, DefersFitting
  <2> QED
    BY <2>1, <2>2, <2>3 DEF Query
<1> QED
  BY <1>1, <1>2, <1>3, <1>4, <1>5, FittingStep

LEMMA ReportStep == ASSUME PayInv, NEW k \in Reconcilers, Report(k) PROVE PayInv'
<1>1. AtPay(k, "report") /\ ~AtPay(k, "idle") /\ order' = order /\ remote' = remote
  BY DEF Report, AtPay
<1>2. /\ remote \in RemoteRecords /\ account \in AccountRecords
      /\ account.refunded \in 0 .. Amount /\ payFaults \in 0 .. MaxPayFaults
      /\ reconciler[k].refund \in 0 .. Amount
  BY PayFacts DEF PayInv, PayTypeOK
<1>3. order.live
  BY <1>1 DEF PayInv, CopiesFit, CopyFits, AtPay
<1>4. CASE Acknowledged(k)
  <2>1. payFaults' \in 0 .. MaxPayFaults
    BY <1>2, <1>4 DEF Acknowledged
  <2> QED
    BY <1>1, <1>2, <1>3, <1>4, <2>1, ReportFitting, FittingStep
<1>5. CASE PayFault /\ account' \in {account, Receipt(k)} /\ Defers(k)
  <2>1. payFaults' \in 0 .. MaxPayFaults
    BY <1>5, PayFaultCounts DEF PayInv
  <2>2. /\ account' \in AccountRecords /\ account'.refunded \in 0 .. Amount
        /\ account'.refunded >= account.refunded
        /\ (account.received => account'.received)
    <3>1. CASE account' = account
      BY <1>2, <3>1, PayConstants
    <3>2. CASE account' = Receipt(k)
      <4>1. /\ Larger(account.refunded, reconciler[k].refund) \in 0 .. Amount
            /\ Larger(account.refunded, reconciler[k].refund) >= account.refunded
        BY <1>2, LargerIsLarger
      <4> QED
        BY <3>2, <4>1 DEF Receipt, AccountRecords
    <3> QED
      BY <1>5, <3>1, <3>2
  <2>3. Defers(k)
    BY <1>5
  <2>4. \E r \in ReconcilerRecords : GoesOnFitting(k, r)
    BY <1>1, <2>2, <2>3, DefersFitting
  <2> QED
    BY <1>1, <1>2, <1>3, <2>1, <2>2, <2>4, FittingStep
<1> QED
  BY <1>4, <1>5 DEF Report

LEMMA ConfirmDeliveryStep ==
    ASSUME PayInv, NEW k \in Reconcilers, ConfirmDelivery(k) PROVE PayInv'
<1>1. AtPay(k, "deliver") /\ ~AtPay(k, "idle") /\ order' = order /\ account' = account
  BY DEF ConfirmDelivery, AtPay
<1>2. /\ remote \in RemoteRecords /\ account \in AccountRecords
      /\ account.refunded \in 0 .. Amount /\ payFaults \in 0 .. MaxPayFaults
      /\ reconciler[k] \in ReconcilerRecords /\ reconciler[k].copy \in Copies
      /\ reconciler[k].copy.refunded \in 0 .. Amount /\ CopyFits(reconciler[k])
  BY PayFacts DEF PayInv, PayTypeOK, CopiesFit
<1>3. account'.refunded >= account.refunded
  BY <1>1, <1>2, PayConstants
<1>4. payFaults' \in 0 .. MaxPayFaults
  BY <1>2, PayFaultCounts DEF ConfirmDelivery, PayInv
<1>5. remote' \in RemoteRecords
  BY <1>2 DEF ConfirmDelivery, RemoteRecords, RemoteStatus
<1>6. \E r \in ReconcilerRecords : GoesOnFitting(k, r)
  <2>1. CASE GoesOn(k, [reconciler[k] EXCEPT !.at = "finish", !.copy.delivered = TRUE])
    <3> DEFINE c == [reconciler[k].copy EXCEPT !.delivered = TRUE]
               r == [reconciler[k] EXCEPT !.at = "finish", !.copy = c]
    <3>1. c \in Copies /\ c.refunded = reconciler[k].copy.refunded
          /\ c.status = reconciler[k].copy.status
      BY <1>2 DEF Copies
    <3>2. GoesOn(k, r)
      BY <1>2, <2>1 DEF ReconcilerRecords, Copies
    <3> HIDE DEF c
    <3>3. r \in ReconcilerRecords /\ r.at = "finish" /\ r.copy = c
      BY <1>2, <3>1 DEF ReconcilerRecords
    <3> HIDE DEF r
    <3>4. PICK q \in ReconcilerRecords : q = r
      BY <3>3
    <3>5. CopyFits(q)'
      BY <1>1, <1>2, <3>1, <3>3, <3>4 DEF CopyFits, AtPay
    <3> QED
      BY <1>2, <3>1, <3>2, <3>3, <3>4, <3>5, PayConstants DEF GoesOnFitting
  <2>2. CASE Defers(k)
    BY <1>1, <1>2, <1>3, <2>2, DefersFitting
  <2> QED
    BY <2>1, <2>2 DEF ConfirmDelivery
<1> QED
  BY <1>1, <1>2, <1>3, <1>4, <1>5, <1>6, FittingStep

LEMMA ReconcilerDiesStep ==
    ASSUME PayInv, NEW k \in Reconcilers, ReconcilerDies(k) PROVE PayInv'
<1>1. /\ ~AtPay(k, "idle") /\ order' = order /\ remote' = remote /\ account' = account
      /\ GoesOn(k, IdleReconciler) /\ PayFault
  BY DEF ReconcilerDies
<1>2. /\ remote \in RemoteRecords /\ account \in AccountRecords
      /\ account.refunded \in 0 .. Amount
  BY PayFacts DEF PayInv, PayTypeOK
<1>3. payFaults' \in 0 .. MaxPayFaults
  BY <1>1, PayFaultCounts DEF PayInv
<1>4. PICK q \in ReconcilerRecords : q = IdleReconciler
  BY IdleIsTyped
<1>5. CopyFits(q)'
  BY <1>1, <1>2, <1>4, PayConstants DEF CopyFits, IdleReconciler, NewCopy
<1>6. GoesOnFitting(k, q)
  BY <1>1, <1>4, <1>5 DEF GoesOnFitting, IdleReconciler
<1> QED
  BY <1>1, <1>2, <1>3, <1>6, PayConstants, FittingStep

LEMMA ClaimOrderStep ==
    ASSUME PayInv, NEW k \in Reconcilers, ClaimOrder(k) PROVE PayInv'
<1> DEFINE o == [order EXCEPT !.lease = k, !.leased = TRUE]
           r == [IdleReconciler EXCEPT !.at = "query", !.copy = order.row]
<1> USE DEF PayInv
<1>0. /\ order \in OrderRecords /\ order.row \in Copies /\ order.row.refunded \in 0 .. Amount
      /\ account.refunded \in 0 .. Amount
  BY PayFacts DEF PayTypeOK, OrderRecords
<1>1. /\ order' = o /\ remote' = remote /\ account' = account /\ payFaults' = payFaults
      /\ GoesOn(k, r) /\ order.row.status # "none"
  BY DEF ClaimOrder, Due
<1>2. o \in OrderRecords /\ o.row = order.row /\ o.live = order.live /\ o.lease = k
  BY <1>0 DEF OrderRecords
<1>3. r \in ReconcilerRecords /\ r.at = "query" /\ r.copy = order.row
  BY <1>0, IdleIsTyped DEF IdleReconciler, ReconcilerRecords
<1> HIDE DEF o, r
<1>4. /\ reconciler' \in [Reconcilers -> ReconcilerRecords] /\ reconciler'[k] = r
      /\ \A q \in Reconcilers : q # k => reconciler'[q] = reconciler[q]
  BY <1>1, <1>3 DEF GoesOn, PayTypeOK
<1>5. PayTypeOK'
  BY <1>1, <1>2, <1>4 DEF PayTypeOK
<1>6. ASSUME NEW q \in Reconcilers PROVE CopyFits(reconciler[q])'
  <2>1. CASE q = k
    BY <1>0, <1>1, <1>2, <1>3, <1>4, <2>1 DEF CopyFits, CreditedIsReported
  <2>2. CASE q # k
    <3>1. CopyFits(reconciler[q]) /\ reconciler'[q] = reconciler[q]
      BY <1>4, <2>2 DEF CopiesFit
    <3> QED
      BY <1>1, <1>2, <3>1 DEF CopyFits
  <2> QED
    BY <2>1, <2>2
<1>7. HolderIsUpToDate'
  BY <1>0, <1>1, <1>2, <1>3, <1>4, PayConstants DEF HolderIsUpToDate, AtPay
<1>8. NoOrderNoWork'
  BY <1>1, <1>2 DEF NoOrderNoWork
<1>9. CreditedIsReported'
  BY <1>1, <1>2 DEF CreditedIsReported
<1> QED
  BY <1>5, <1>6, <1>7, <1>8, <1>9 DEF CopiesFit

LEMMA FinishOrderStep ==
    ASSUME PayInv, NEW k \in Reconcilers, FinishOrder(k)
    PROVE  PayInv' /\ order'.row.refunded >= order.row.refunded
<1> DEFINE copy == reconciler[k].copy
           o == [order EXCEPT !.row = copy, !.lease = NoReconciler, !.leased = FALSE]
<1> USE DEF PayInv
<1>0. /\ order \in OrderRecords /\ copy \in Copies /\ CopyFits(reconciler[k])
      /\ order.row.refunded \in 0 .. Amount /\ copy.refunded \in 0 .. Amount
      /\ account.refunded \in 0 .. Amount
  BY PayFacts DEF PayTypeOK, CopiesFit
<1>1. /\ AtPay(k, "finish") /\ ~AtPay(k, "idle") /\ GoesOn(k, IdleReconciler)
      /\ remote' = remote /\ account' = account /\ payFaults' = payFaults
      /\ order' = IF order.lease # k THEN order ELSE o
  BY DEF FinishOrder, AtPay
<1>2. /\ o \in OrderRecords /\ o.row = copy /\ o.live = order.live /\ o.lease = NoReconciler
  BY <1>0 DEF OrderRecords
<1> HIDE DEF o
<1>3. /\ reconciler' \in [Reconcilers -> ReconcilerRecords] /\ reconciler'[k] = IdleReconciler
      /\ \A q \in Reconcilers : q # k => reconciler'[q] = reconciler[q]
  BY <1>1, IdleIsTyped DEF GoesOn, PayTypeOK
<1>4. PayTypeOK'
  BY <1>0, <1>1, <1>2, <1>3 DEF PayTypeOK
<1>5. order'.live = order.live
  BY <1>1, <1>2
<1>6. ASSUME NEW q \in Reconcilers PROVE CopyFits(reconciler[q])'
  <2>1. CASE q = k
    BY <1>0, <1>1, <1>3, <2>1, PayConstants DEF CopyFits, IdleReconciler, NewCopy
  <2>2. CASE q # k
    <3>1. CopyFits(reconciler[q]) /\ reconciler'[q] = reconciler[q]
      BY <1>3, <2>2 DEF CopiesFit
    <3> QED
      BY <1>1, <1>5, <3>1 DEF CopyFits
  <2> QED
    BY <2>1, <2>2
<1>7. CASE order.lease # k
  <2>1. order' = order
    BY <1>1, <1>7
  <2>2. HolderIsUpToDate'
    <3> SUFFICES ASSUME NEW q \in Reconcilers, order.lease = q, ~AtPay(q, "idle")'
                 PROVE  order.row.refunded <= reconciler'[q].copy.refunded
      BY <2>1 DEF HolderIsUpToDate
    <3>1. reconciler'[q] = reconciler[q]
      BY <1>3, <1>7
    <3> QED
      BY <3>1 DEF HolderIsUpToDate, AtPay
  <2>3. NoOrderNoWork'
    BY <1>1, <2>1 DEF NoOrderNoWork
  <2>4. CreditedIsReported'
    BY <1>1, <2>1 DEF CreditedIsReported
  <2> QED
    BY <1>0, <1>4, <1>6, <2>1, <2>2, <2>3, <2>4, PayConstants DEF CopiesFit
<1>8. CASE order.lease = k
  <2>1. order' = o
    BY <1>1, <1>8
  <2>2. HolderIsUpToDate'
    BY <1>2, <2>1, PayConstants DEF HolderIsUpToDate
  <2>3. NoOrderNoWork'
    BY <1>0, <1>1, <1>2, <2>1 DEF NoOrderNoWork, CopyFits, AtPay
  <2>4. CreditedIsReported'
    BY <1>0, <1>1, <1>2, <2>1 DEF CreditedIsReported, CopyFits
  <2>5. order'.row.refunded >= order.row.refunded
    BY <1>0, <1>1, <1>2, <1>8, <2>1, PayConstants DEF HolderIsUpToDate
  <2> QED
    BY <1>4, <1>6, <2>2, <2>3, <2>4, <2>5 DEF CopiesFit
<1> QED
  BY <1>7, <1>8

LEMMA CreateOrderStep ==
    ASSUME PayInv, CreateOrder
    PROVE  PayInv' /\ order'.row.refunded >= order.row.refunded
<1> USE DEF PayInv
<1>0. /\ order \in OrderRecords /\ order.row \in Copies /\ order.row.refunded \in 0 .. Amount
      /\ account.refunded \in 0 .. Amount
  BY PayFacts DEF PayTypeOK, OrderRecords
<1>1. /\ order.row.status = "none" /\ order.row.refunded = 0 /\ ~account.received
      /\ remote' = remote /\ account' = account /\ reconciler' = reconciler
      /\ payFaults' = payFaults /\ \A q \in Reconcilers : AtPay(q, "idle")
  BY DEF CreateOrder, NoOrderNoWork
<1>2. PICK live \in BOOLEAN : order' = [order EXCEPT !.row.status = "pending", !.live = live]
  BY DEF CreateOrder
<1> DEFINE w == [order.row EXCEPT !.status = "pending"]
           o == [order EXCEPT !.row = w, !.live = live]
<1>3. w \in Copies /\ w.status = "pending" /\ w.refunded = order.row.refunded
  BY <1>0 DEF Copies, OrderStatus
<1>4. order' = o
  BY <1>0, <1>2 DEF OrderRecords, Copies
<1> HIDE DEF w
<1>5. o \in OrderRecords /\ o.row = w
  BY <1>0, <1>3 DEF OrderRecords
<1> HIDE DEF o
<1>6. PayTypeOK'
  BY <1>1, <1>4, <1>5 DEF PayTypeOK
<1>7. ASSUME NEW q \in Reconcilers PROVE CopyFits(reconciler[q])'
  <2>1. reconciler'[q] = IdleReconciler
    BY <1>1 DEF CopiesFit, CopyFits, AtPay
  <2> QED
    BY <1>0, <1>1, <2>1, PayConstants DEF CopyFits, IdleReconciler, NewCopy
<1>8. HolderIsUpToDate'
  BY <1>1 DEF HolderIsUpToDate, AtPay
<1>9. NoOrderNoWork'
  BY <1>3, <1>4, <1>5 DEF NoOrderNoWork
<1>10. CreditedIsReported'
  BY <1>0, <1>1, <1>3, <1>4, <1>5, PayConstants DEF CreditedIsReported
<1> QED
  BY <1>0, <1>3, <1>4, <1>5, <1>6, <1>7, <1>8, <1>9, <1>10, PayConstants DEF CopiesFit

LEMMA OutsideStep ==
    ASSUME PayInv, RemoteMoves \/ LeaseRunsOut
    PROVE  PayInv' /\ order'.row = order.row
<1> USE DEF PayInv
<1>0. /\ order \in OrderRecords /\ remote \in RemoteRecords /\ remote.refunded \in 0 .. Amount
      /\ payFaults \in 0 .. MaxPayFaults
  BY PayFacts DEF PayTypeOK
<1>1. account' = account /\ reconciler' = reconciler
  BY DEF RemoteMoves, LeaseRunsOut
<1>2. /\ order' \in OrderRecords /\ order'.row = order.row /\ order'.live = order.live
      /\ order'.lease = order.lease
  <2>1. CASE RemoteMoves
    BY <1>0, <2>1 DEF RemoteMoves
  <2>2. CASE LeaseRunsOut
    <3>1. order' = [order EXCEPT !.leased = FALSE]
      BY <2>2 DEF LeaseRunsOut
    <3> QED
      BY <1>0, <3>1 DEF OrderRecords
  <2> QED
    BY <2>1, <2>2
<1>3. remote' \in RemoteRecords
  <2>1. CASE RemoteMoves
    <3>1. CASE \E s \in {"failed", "paid"} : remote' = [remote EXCEPT !.status = s]
      BY <1>0, <3>1 DEF RemoteRecords, RemoteStatus
    <3>2. CASE /\ remote.refunded < Amount
               /\ remote' = [status |-> "refunding", refunded |-> remote.refunded + 1]
      <4>1. remote.refunded + 1 \in 0 .. Amount
        BY <1>0, <3>2, PayConstants
      <4> QED
        BY <3>2, <4>1 DEF RemoteRecords, RemoteStatus
    <3> QED
      BY <2>1, <3>1, <3>2 DEF RemoteMoves
  <2>2. CASE LeaseRunsOut
    BY <1>0, <2>2 DEF LeaseRunsOut
  <2> QED
    BY <2>1, <2>2
<1>4. payFaults' \in 0 .. MaxPayFaults
  BY <1>0, PayFaultCounts DEF RemoteMoves, LeaseRunsOut
<1>5. PayTypeOK'
  BY <1>1, <1>2, <1>3, <1>4 DEF PayTypeOK
<1>6. CopiesFit' /\ CreditedIsReported'
  BY <1>1, <1>2 DEF CopiesFit, CopyFits, CreditedIsReported
<1>7. HolderIsUpToDate' /\ NoOrderNoWork'
  BY <1>1, <1>2 DEF HolderIsUpToDate, NoOrderNoWork, AtPay
<1> QED
  BY <1>2, <1>5, <1>6, <1>7

LEMMA StutterStep == ASSUME PayInv, UNCHANGED payVars PROVE PayInv'
<1>1. /\ order' = order /\ remote' = remote /\ account' = account
      /\ reconciler' = reconciler /\ payFaults' = payFaults
  BY DEF payVars
<1> QED
  BY <1>1 DEF PayInv, PayTypeOK, CopiesFit, CopyFits, HolderIsUpToDate, NoOrderNoWork, AtPay,
              CreditedIsReported

LEMMA PayInvStep == ASSUME PayInv, [PayNext]_payVars PROVE PayInv'
<1>1. ASSUME NEW k \in Reconcilers,
             \/ ClaimOrder(k) \/ Query(k) \/ Report(k) \/ ConfirmDelivery(k)
             \/ FinishOrder(k) \/ ReconcilerDies(k)
      PROVE  PayInv'
  BY <1>1, ClaimOrderStep, QueryStep, ReportStep, ConfirmDeliveryStep, FinishOrderStep,
     ReconcilerDiesStep
<1> QED
  BY <1>1, CreateOrderStep, OutsideStep, StutterStep DEF PayNext

(* A refund stays in the row and at the accounting service: whoever writes *)
(* the row holds its lease, so it read every refund written before.        *)
LEMMA RefundStep ==
    ASSUME PayInv, [PayNext]_payVars
    PROVE  order'.row.refunded >= order.row.refunded /\ account'.refunded >= account.refunded
<1>0. order.row.refunded \in 0 .. Amount /\ account.refunded \in 0 .. Amount
  BY PayFacts
<1>1. order'.row.refunded >= order.row.refunded
  <2>1. ASSUME NEW k \in Reconcilers,
               \/ ClaimOrder(k) \/ Query(k) \/ Report(k) \/ ConfirmDelivery(k)
               \/ ReconcilerDies(k)
        PROVE  order'.row = order.row
    <3>1. CASE ClaimOrder(k)
      <4>1. order' = [order EXCEPT !.lease = k, !.leased = TRUE]
        BY <3>1 DEF ClaimOrder
      <4>2. order \in OrderRecords
        BY DEF PayInv, PayTypeOK
      <4> QED
        BY <4>1, <4>2 DEF OrderRecords
    <3>2. CASE Query(k) \/ Report(k) \/ ConfirmDelivery(k) \/ ReconcilerDies(k)
      BY <3>2 DEF Query, Report, ConfirmDelivery, ReconcilerDies
    <3> QED
      BY <2>1, <3>1, <3>2
  <2>2. CASE \E k \in Reconcilers : FinishOrder(k)
    BY <2>2, FinishOrderStep
  <2>3. CASE CreateOrder
    BY <2>3, CreateOrderStep
  <2>4. CASE RemoteMoves \/ LeaseRunsOut
    BY <1>0, <2>4, OutsideStep, PayConstants
  <2>5. CASE UNCHANGED payVars
    BY <1>0, <2>5, PayConstants DEF payVars
  <2> QED
    BY <1>0, <2>1, <2>2, <2>3, <2>4, <2>5, PayConstants DEF PayNext
<1>2. account'.refunded >= account.refunded
  <2>1. CASE account' = account
    BY <1>0, <2>1, PayConstants
  <2>2. ASSUME NEW k \in Reconcilers, Report(k) PROVE account'.refunded >= account.refunded
    <3>1. account' = account \/ account' = Receipt(k)
      BY <2>2 DEF Report, Acknowledged
    <3>2. Larger(account.refunded, reconciler[k].refund) >= account.refunded
      BY <1>0, PayFacts, LargerIsLarger
    <3> QED
      BY <2>1, <3>1, <3>2 DEF Receipt
  <2>3. account' = account \/ \E k \in Reconcilers : Report(k)
    BY DEF PayNext, payVars, CreateOrder, RemoteMoves, LeaseRunsOut, ClaimOrder, Query,
           ConfirmDelivery, FinishOrder, ReconcilerDies
  <2> QED
    BY <2>1, <2>2, <2>3
<1> QED
  BY <1>1, <1>2
-----------------------------------------------------------------------------
(* The copies of the order, its lease and the accounting service agree in  *)
(* every state (claim, finish and report of the payment services).         *)
THEOREM PayInvariance == PaySpec => []PayInv
<1>1. PayInit => PayInv
  BY PayInitInv
<1>2. PayInv /\ [PayNext]_payVars => PayInv'
  BY PayInvStep
<1> QED
  BY <1>1, <1>2, PTL DEF PaySpec

(* An order is shown as credited only once the accounting service has it,  *)
(* and no refund is shown that was not passed on: reconcile writes what it *)
(* was told, in one statement, under its lease.                            *)
THEOREM CreditIsNeverAhead == PaySpec => []CreditedIsReported
<1>1. PayInv => CreditedIsReported
  BY DEF PayInv
<1> QED
  BY <1>1, PayInvariance, PTL

(* A refund that was written down stays, whoever comes late: finish writes *)
(* only for the current lease, and its holder read the row under it.       *)
THEOREM RefundsAreNeverLost == PaySpec => RefundIsKept
<1>1. PayInv /\ [PayNext]_payVars
        => [order'.row.refunded >= order.row.refunded
            /\ account'.refunded >= account.refunded]_payVars
  BY RefundStep
<1> QED
  BY <1>1, PayInvariance, PTL DEF PaySpec, RefundIsKept
-----------------------------------------------------------------------------
(* KnowledgeIngestion.                                                     *)

(* An item that waits to be replaced waits for a newer revision, and a run *)
(* that may still change the item indexes one of its revisions.            *)
ItemFits ==
    /\ item.state # "kept" => item.pending = None /\ item.active = None
    /\ item.state = "none" => item.newest = 0
    /\ item.active <= item.newest /\ item.pending <= item.newest
    /\ item.pending # None => item.pending > item.active
RunsFit == \A r \in Runs : Live(r) => run[r].revision \in Revisions
IndexersFit == \A k \in Indexers : ~AtIndex(k, "idle") => indexer[k].run \in Runs

IndexInv == IndexTypeOK /\ ItemFits /\ RunsFit /\ IndexersFit

ItemRecords == [state : {"none", "kept", "deleted"}, active : 0 .. MaxRevisions,
                pending : 0 .. MaxRevisions, generation : Nat, newest : 0 .. MaxRevisions]
RunRecords == [status : RunLive \union {"none", "succeeded", "failed", "cancelled"},
               revision : 0 .. MaxRevisions, generation : Nat, token : Nat,
               leased : BOOLEAN, attempts : Nat]
DeliveryRecords == [state : {"none", "waiting", "active", "ended"}, holder : Indexers \union {NoIndexer}]
IndexerRecords == [at : {"idle", "picked", "working", "acking"}, run : 0 .. MaxRuns,
                   token : Nat, retry : BOOLEAN]
IndexUsedRecords == [cancels : 0 .. MaxCancels, faults : 0 .. MaxIndexFaults]

LEMMA IndexConstants ==
    /\ MaxRevisions \in Nat /\ MaxRevisions >= 1 /\ MaxRuns \in Nat /\ MaxRuns >= 1
    /\ MaxCancels \in Nat /\ MaxIndexFaults \in Nat /\ NoIndexer \notin Indexers
  BY IndexAssumption

LEMMA IndexTypes ==
    IndexTypeOK <=> /\ item \in ItemRecords /\ index \in [Revisions -> IndexStatus]
                    /\ run \in [Runs -> RunRecords] /\ sent \subseteq Runs
                    /\ delivery \in [Runs -> DeliveryRecords]
                    /\ indexer \in [Indexers -> IndexerRecords]
                    /\ indexUsed \in IndexUsedRecords
  BY DEF IndexTypeOK, ItemRecords, RunRecords, DeliveryRecords, IndexerRecords, IndexUsedRecords

(* A run that is closed, or begins, is a run again.                        *)
LEMMA ClosedIsRun ==
    ASSUME NEW r \in RunRecords, NEW s \in {"pending", "succeeded", "failed", "cancelled"}
    PROVE  Closed(s, r) \in RunRecords /\ Closed(s, r).revision = r.revision /\ Closed(s, r).status = s
  BY DEF Closed, RunRecords, RunLive

(* Superseding leaves no live run, and otherwise the runs as they are.     *)
LEMMA SupersedingRuns ==
    ASSUME run \in [Runs -> RunRecords]
    PROVE  /\ Superseding \in [Runs -> RunRecords]
           /\ \A r \in Runs : Superseding[r].status \notin RunLive
<1>1. ASSUME NEW r \in Runs PROVE Superseding[r] \in RunRecords /\ Superseding[r].status \notin RunLive
  <2>1. CASE Live(r)
    BY <2>1, ClosedIsRun DEF Superseding, RunLive
  <2>2. CASE ~Live(r)
    BY <2>2 DEF Superseding, Live
  <2> QED
    BY <2>1, <2>2
<1> QED
  BY <1>1 DEF Superseding

(* A run is prepared: the runs there were, and one for this revision.      *)
LEMMA PreparedRuns ==
    ASSUME NEW runs \in [Runs -> RunRecords], NEW v \in Revisions, NEW g \in Nat
    PROVE  /\ Prepared(runs, v, g) \in [Runs -> RunRecords]
           /\ \A r \in Runs : Prepared(runs, v, g)[r] = runs[r] \/ Prepared(runs, v, g)[r].revision = v
<1> DEFINE n == [NoRun EXCEPT !.status = "pending", !.revision = v, !.generation = g]
<1>1. n \in RunRecords /\ n.revision = v
  <2>1. NoRun \in RunRecords
    BY IndexConstants DEF NoRun, RunRecords, RunLive, None
  <2>2. v \in 0 .. MaxRevisions /\ "pending" \in RunLive
    BY IndexConstants DEF Revisions, RunLive
  <2> QED
    BY <2>1, <2>2 DEF RunRecords
<1>2. Prepared(runs, v, g) = [runs EXCEPT ![NewRun] = n]
  BY DEF Prepared
<1> HIDE DEF n
<1> QED
  BY <1>1, <1>2

LEMMA IndexInitInv == IndexInit => IndexInv
<1> SUFFICES ASSUME IndexInit PROVE IndexInv
  OBVIOUS
<1>1. item \in ItemRecords /\ index \in [Revisions -> IndexStatus] /\ sent \subseteq Runs
  BY IndexConstants DEF IndexInit, ItemRecords, IndexStatus, None
<1>2. run \in [Runs -> RunRecords] /\ delivery \in [Runs -> DeliveryRecords]
  BY IndexConstants DEF IndexInit, NoRun, RunRecords, None, NoDelivery, DeliveryRecords
<1>3. indexer \in [Indexers -> IndexerRecords] /\ indexUsed \in IndexUsedRecords
  BY IndexConstants DEF IndexInit, IdleIndexer, IndexerRecords, IndexUsedRecords, None
<1>4. ItemFits /\ RunsFit /\ IndexersFit
  BY DEF IndexInit, ItemFits, RunsFit, IndexersFit, Live, RunLive, NoRun, AtIndex, IdleIndexer, None
<1> QED
  BY <1>1, <1>2, <1>3, <1>4, IndexTypes DEF IndexInv

(* What its owner does to the item.                                        *)
LEMMA OwnerKeepsItem ==
    ASSUME IndexInv,
           \/ \E stored \in BOOLEAN : CreateItem(stored) \/ NewRevision(stored)
           \/ DeleteItem \/ RetryItem \/ \E r \in Runs : CancelRun(r)
    PROVE  /\ IndexInv'
           /\ \/ item'.active = item.active
              \/ item'.state = "deleted" /\ item'.active = None
              \/ item'.active > item.active /\ index'[item'.active] \in {"ready", "stored_only"}
<1>t. /\ item \in ItemRecords /\ index \in [Revisions -> IndexStatus] /\ run \in [Runs -> RunRecords]
      /\ item.active \in Nat /\ item.pending \in Nat /\ item.newest \in Nat /\ item.generation \in Nat
  BY IndexTypes, IndexConstants DEF IndexInv, ItemRecords
<1>c. 1 \in Revisions /\ Revisions \subseteq 0 .. MaxRevisions /\ 0 \in 0 .. MaxRevisions
  BY IndexConstants DEF Revisions
<1>k. ASSUME item' \in ItemRecords, index' \in [Revisions -> IndexStatus], run' \in [Runs -> RunRecords],
             UNCHANGED <<sent, delivery, indexer>>, indexUsed' \in IndexUsedRecords,
             ItemFits', RunsFit'
      PROVE  IndexInv'
  <2>1. sent' \subseteq Runs /\ delivery' \in [Runs -> DeliveryRecords] /\ indexer' \in [Indexers -> IndexerRecords]
    BY <1>k, IndexTypes DEF IndexInv
  <2>2. IndexTypeOK'
    BY <1>k, <2>1 DEF IndexTypeOK, ItemRecords, RunRecords, DeliveryRecords, IndexerRecords, IndexUsedRecords
  <2>3. IndexersFit'
    BY <1>k DEF IndexInv, IndexersFit, AtIndex
  <2> QED
    BY <1>k, <2>2, <2>3 DEF IndexInv
<1>u. indexUsed \in IndexUsedRecords
  BY IndexTypes DEF IndexInv
<1>s. {"pending", "processing", "ready", "stored_only", "failed", "cancelled"} \subseteq IndexStatus
  BY DEF IndexStatus
<1>1. ASSUME NEW stored \in BOOLEAN, CreateItem(stored)
      PROVE  /\ IndexInv'
             /\ item'.active = item.active \/ (item'.active > item.active /\ index'[item'.active] = "stored_only")
  <2>1. item.active = 0 /\ item.pending = 0
    BY <1>1 DEF CreateItem, IndexInv, ItemFits, None
  <2>2. item' \in ItemRecords /\ ItemFits' /\ (item'.active = 0 \/ (stored /\ item'.active = 1))
    BY <1>1, <1>c, <1>t DEF CreateItem, ItemRecords, ItemFits, None
  <2>3. index' \in [Revisions -> IndexStatus] /\ (stored => index'[1] = "stored_only")
    BY <1>1, <1>c, <1>s, <1>t DEF CreateItem
  <2>4. run' \in [Runs -> RunRecords] /\ RunsFit'
    <3>1. CASE stored
      BY <1>1, <1>t, <3>1 DEF CreateItem, IndexInv, RunsFit, Live
    <3>2. CASE ~stored
      <4>1. run' = Prepared(run, 1, 1)
        BY <1>1, <3>2 DEF CreateItem
      <4>2. \A r \in Runs : run'[r] = run[r] \/ run'[r].revision = 1
        BY <1>c, <1>t, <4>1, PreparedRuns
      <4>3. run' \in [Runs -> RunRecords]
        BY <1>c, <1>t, <4>1, PreparedRuns
      <4> QED
        BY <1>c, <4>2, <4>3 DEF IndexInv, RunsFit, Live
    <3> QED
      BY <3>1, <3>2
  <2> QED
    BY <1>1, <1>k, <1>u, <2>1, <2>2, <2>3, <2>4 DEF CreateItem
<1>2. ASSUME NEW stored \in BOOLEAN, NewRevision(stored)
      PROVE  /\ IndexInv'
             /\ item'.active = item.active \/ (item'.active > item.active /\ index'[item'.active] = "stored_only")
  <2> DEFINE v == item.newest + 1  g == item.generation + 1
  <2>1. v \in Revisions /\ v \in Nat /\ v > item.active /\ v > item.pending /\ g \in Nat /\ item.state = "kept"
    <3>1. item.state = "kept" /\ v \in Revisions
      BY <1>2 DEF NewRevision
    <3>2. item.active <= item.newest /\ item.pending <= item.newest
      BY DEF IndexInv, ItemFits
    <3> QED
      BY <1>t, <3>1, <3>2
  <2>2. item' = [item EXCEPT !.newest = v, !.generation = g, !.active = IF stored THEN v ELSE @,
                             !.pending = IF stored THEN None ELSE v]
    BY <1>2 DEF NewRevision
  <2>3. /\ index' \in [Revisions -> IndexStatus] /\ (stored => index'[v] = "stored_only")
        /\ run' = IF stored THEN Superseding ELSE Prepared(Superseding, v, g)
        /\ UNCHANGED <<sent, delivery, indexer, indexUsed>>
    BY <1>2, <1>s, <1>t, <2>1 DEF NewRevision
  <2>4. run' \in [Runs -> RunRecords] /\ RunsFit'
    <3>1. CASE stored
      BY <1>t, <2>3, <3>1, SupersedingRuns DEF RunsFit, Live
    <3>2. CASE ~stored
      <4>0. v \in Revisions /\ g \in Nat /\ run' = Prepared(Superseding, v, g)
        BY <2>1, <2>3, <3>2
      <4> HIDE DEF v, g
      <4>1. \A r \in Runs : run'[r] = Superseding[r] \/ run'[r].revision = v
        BY <1>t, <4>0, PreparedRuns, SupersedingRuns
      <4>2. run' \in [Runs -> RunRecords]
        BY <1>t, <4>0, PreparedRuns, SupersedingRuns
      <4> QED
        BY <1>t, <4>0, <4>1, <4>2, SupersedingRuns DEF RunsFit, Live
    <3> QED
      BY <3>1, <3>2
  <2> HIDE DEF v, g
  <2>5. item' \in ItemRecords /\ item'.newest = v /\ item'.state = "kept"
        /\ item'.active = (IF stored THEN v ELSE item.active) /\ item'.pending = (IF stored THEN 0 ELSE v)
    BY <1>c, <1>t, <2>1, <2>2 DEF ItemRecords, None
  <2>6. item.active <= v
    BY <1>t, <2>1
  <2>7. ItemFits'
    BY <1>t, <2>1, <2>5, <2>6 DEF ItemFits, None
  <2> QED
    BY <1>k, <1>u, <2>1, <2>3, <2>4, <2>5, <2>7
<1>3. ASSUME DeleteItem PROVE IndexInv' /\ item'.state = "deleted" /\ item'.active = None
  <2>0. item' = [item EXCEPT !.state = "deleted", !.active = 0, !.pending = 0, !.generation = @ + 1]
    BY <1>3 DEF DeleteItem, None
  <2>g. item.generation + 1 \in Nat
    BY <1>t
  <2>1. item' \in ItemRecords /\ item'.state = "deleted" /\ item'.active = None
    BY <2>0, <2>g, <1>c, <1>t DEF ItemRecords, None
  <2>f. ItemFits'
    BY <2>0, <1>t DEF ItemFits, None, ItemRecords
  <2>2. index' \in [Revisions -> IndexStatus]
    BY <1>3, <1>s, <1>t DEF DeleteItem
  <2>3. run' \in [Runs -> RunRecords] /\ RunsFit'
    BY <1>3, <1>t, SupersedingRuns DEF DeleteItem, RunsFit, Live
  <2> QED
    BY <1>3, <1>k, <1>u, <2>1, <2>f, <2>2, <2>3 DEF DeleteItem
<1>4. ASSUME NEW r \in Runs, CancelRun(r) PROVE IndexInv' /\ item'.active = item.active
  <2>1. /\ item' = [item EXCEPT !.generation = @ + 1] /\ UNCHANGED <<sent, delivery, indexer>>
        /\ index' = [index EXCEPT ![run[r].revision] = "cancelled"]
        /\ run' = [run EXCEPT ![r] = Closed("cancelled", run[r])]
        /\ indexUsed' = [indexUsed EXCEPT !.cancels = @ + 1] /\ indexUsed.cancels < MaxCancels
    BY <1>4 DEF CancelRun, CloseRun
  <2>2. item' \in ItemRecords /\ ItemFits' /\ item'.active = item.active
    BY <1>t, <2>1 DEF ItemRecords, IndexInv, ItemFits
  <2>3. index' \in [Revisions -> IndexStatus]
    BY <1>s, <1>t, <2>1
  <2>4. run' \in [Runs -> RunRecords] /\ RunsFit'
    BY <1>t, <2>1, ClosedIsRun DEF IndexInv, RunsFit, Live, RunLive
  <2>5. indexUsed' \in IndexUsedRecords
    BY <1>u, <2>1, IndexConstants DEF IndexUsedRecords
  <2> QED
    BY <1>k, <2>1, <2>2, <2>3, <2>4, <2>5
<1>5. ASSUME RetryItem PROVE IndexInv' /\ item'.active = item.active
  <2> DEFINE v == item.pending  g == item.generation + 1
  <2>1. v \in Revisions /\ g \in Nat
    BY <1>5, <1>t DEF RetryItem, ItemRecords, Revisions, None
  <2>2. /\ item' = [item EXCEPT !.generation = g] /\ UNCHANGED <<sent, delivery, indexer, indexUsed>>
        /\ index' = [index EXCEPT ![v] = "pending"] /\ run' = Prepared(run, v, g)
    BY <1>5 DEF RetryItem
  <2>3. item' \in ItemRecords /\ ItemFits' /\ item'.active = item.active
    BY <1>t, <2>1, <2>2 DEF ItemRecords, IndexInv, ItemFits
  <2> HIDE DEF v, g
  <2>4. index' \in [Revisions -> IndexStatus]
    BY <1>s, <1>t, <2>2
  <2>5. run' \in [Runs -> RunRecords] /\ RunsFit'
    <3>1. \A r \in Runs : run'[r] = run[r] \/ run'[r].revision = v
      BY <1>t, <2>1, <2>2, PreparedRuns
    <3>2. run' \in [Runs -> RunRecords]
      BY <1>t, <2>1, <2>2, PreparedRuns
    <3> QED
      BY <2>1, <3>1, <3>2 DEF IndexInv, RunsFit, Live
  <2> QED
    BY <1>k, <1>u, <2>2, <2>3, <2>4, <2>5
<1> QED
  BY <1>1, <1>2, <1>3, <1>4, <1>5

(* The outbox and the queue change neither item nor runs.                  *)
LEMMA QueueKeepsItem ==
    ASSUME IndexInv,
           \/ \E r \in Runs : Dispatch(r) \/ DispatchDies(r) \/ StalledRun(r)
           \/ \E k \in Indexers : AckRun(k) \/ IndexerDies(k) \/ \E r \in Runs : PickRun(k, r)
    PROVE  IndexInv' /\ UNCHANGED <<item, index>>
<1>t. /\ delivery \in [Runs -> DeliveryRecords] /\ indexer \in [Indexers -> IndexerRecords]
      /\ indexUsed \in IndexUsedRecords /\ sent \subseteq Runs
  BY IndexTypes DEF IndexInv
<1>k. ASSUME UNCHANGED <<item, index, run>>, sent' \subseteq Runs, delivery' \in [Runs -> DeliveryRecords],
             indexer' \in [Indexers -> IndexerRecords], indexUsed' \in IndexUsedRecords, IndexersFit'
      PROVE  IndexInv'
  <2>1. IndexTypeOK'
    BY <1>k DEF IndexInv, IndexTypeOK, DeliveryRecords, IndexerRecords, IndexUsedRecords
  <2> QED
    BY <1>k, <2>1 DEF IndexInv, ItemFits, RunsFit, Live
<1>f. IndexFault => indexUsed' \in IndexUsedRecords
  BY <1>t, IndexConstants DEF IndexFault, IndexUsedRecords
<1>d. \A d \in DeliveryRecords, s \in {"waiting", "active", "ended"}, h \in Indexers \union {NoIndexer} :
          /\ [d EXCEPT !.state = s] \in DeliveryRecords /\ [d EXCEPT !.holder = h] \in DeliveryRecords
          /\ [state |-> s, holder |-> h] \in DeliveryRecords
  BY DEF DeliveryRecords
<1>i. IdleIndexer \in IndexerRecords
  BY IndexConstants DEF IdleIndexer, IndexerRecords, None
<1>1. ASSUME NEW r \in Runs, Dispatch(r) \/ DispatchDies(r) \/ StalledRun(r)
      PROVE  IndexInv' /\ UNCHANGED <<item, index>>
  <2>0. UNCHANGED <<item, index, run, indexer>> /\ sent' \subseteq Runs /\ indexUsed' \in IndexUsedRecords
    BY <1>1, <1>t, <1>f DEF Dispatch, DispatchDies, StalledRun
  <2>s. /\ [delivery EXCEPT ![r].state = "waiting"] \in [Runs -> DeliveryRecords]
        /\ [delivery EXCEPT ![r].state = "ended"] \in [Runs -> DeliveryRecords]
    BY <1>t DEF DeliveryRecords
  <2>1. /\ UNCHANGED <<item, index, run, indexer>> /\ sent' \subseteq Runs
        /\ indexUsed' \in IndexUsedRecords /\ delivery' \in [Runs -> DeliveryRecords]
    BY <1>1, <1>t, <2>0, <2>s DEF Dispatch, DispatchDies, StalledRun
  <2> QED
    BY <1>k, <1>t, <2>1 DEF IndexInv, IndexersFit, AtIndex
<1>2. ASSUME NEW k \in Indexers, NEW r \in Runs, PickRun(k, r)
      PROVE  IndexInv' /\ UNCHANGED <<item, index>>
  <2> DEFINE s == [IdleIndexer EXCEPT !.at = "picked", !.run = r]
  <2>1. s \in IndexerRecords /\ s.run = r
    <3>1. r \in 0 .. MaxRuns
      BY IndexConstants DEF Runs
    <3> QED
      BY <1>i, <3>1 DEF IdleIndexer, IndexerRecords
  <2>2. /\ UNCHANGED <<item, index, run, sent, indexUsed>> /\ indexer' = [indexer EXCEPT ![k] = s]
        /\ delivery' = [delivery EXCEPT ![r] = [state |-> "active", holder |-> k]]
    BY <1>2 DEF PickRun, IndexerGoes
  <2> HIDE DEF s
  <2>3. delivery' \in [Runs -> DeliveryRecords] /\ indexer' \in [Indexers -> IndexerRecords]
    BY <1>d, <1>t, <2>1, <2>2
  <2>4. IndexersFit'
    BY <1>t, <2>1, <2>2 DEF IndexInv, IndexersFit, AtIndex
  <2> QED
    BY <1>k, <1>t, <2>2, <2>3, <2>4
<1>3. ASSUME NEW k \in Indexers, AckRun(k) \/ IndexerDies(k)
      PROVE  IndexInv' /\ UNCHANGED <<item, index>>
  <2>1. /\ UNCHANGED <<item, index, run, sent>> /\ indexer' = [indexer EXCEPT ![k] = IdleIndexer]
        /\ indexUsed' \in IndexUsedRecords
    BY <1>3, <1>f, <1>t DEF AckRun, IndexerDies, IndexerGoes
  <2>2. delivery' \in [Runs -> DeliveryRecords]
    <3>1. AckRun(k) => delivery' = delivery \/ \E r \in Nat, e \in {"ended", "waiting"} :
              delivery' = [delivery EXCEPT ![r] = [state |-> e, holder |-> NoIndexer]]
      <4>1. indexer[k].run \in Nat
        BY <1>t, IndexConstants DEF IndexerRecords
      <4> QED
        BY <4>1 DEF AckRun
    <3>2. IndexerDies(k) => delivery' = delivery \/ \E r \in Nat : delivery' = [delivery EXCEPT ![r].holder = NoIndexer]
      <4>1. indexer[k].run \in Nat
        BY <1>t, IndexConstants DEF IndexerRecords
      <4> QED
        BY <4>1 DEF IndexerDies
    <3>3. \A e \in {"ended", "waiting"} : [state |-> e, holder |-> NoIndexer] \in DeliveryRecords
      BY DEF DeliveryRecords
    <3>4. \A r \in Runs : [delivery[r] EXCEPT !.holder = NoIndexer] \in DeliveryRecords
      BY <1>t DEF DeliveryRecords
    <3> QED
      BY <1>3, <1>t, <3>1, <3>2, <3>3, <3>4
  <2>3. indexer' \in [Indexers -> IndexerRecords] /\ IndexersFit'
    BY <1>i, <1>t, <2>1 DEF IndexInv, IndexersFit, AtIndex, IdleIndexer
  <2> QED
    BY <1>k, <1>t, <2>1, <2>2, <2>3
<1> QED
  BY <1>1, <1>2, <1>3

(* What a worker does to the item: only one that owns a current run        *)
(* replaces the revision that is searched.                                 *)
LEMMA WorkerKeepsItem ==
    ASSUME IndexInv,
           \/ \E r \in Runs : RunLeaseLapses(r)
           \/ \E k \in Indexers : ClaimRun(k) \/ PublishRun(k) \/ \E retry \in BOOLEAN : FailRun(k, retry)
    PROVE  /\ IndexInv'
           /\ \/ item'.active = item.active
              \/ item'.active > item.active /\ index'[item'.active] \in {"ready", "stored_only"}
<1>t. /\ item \in ItemRecords /\ index \in [Revisions -> IndexStatus] /\ run \in [Runs -> RunRecords]
      /\ item.active \in Nat /\ item.pending \in Nat /\ item.newest \in Nat
      /\ delivery \in [Runs -> DeliveryRecords] /\ indexer \in [Indexers -> IndexerRecords]
      /\ indexUsed \in IndexUsedRecords /\ sent \subseteq Runs
  BY IndexTypes, IndexConstants DEF IndexInv, ItemRecords
<1>k. ASSUME item' \in ItemRecords, index' \in [Revisions -> IndexStatus], run' \in [Runs -> RunRecords],
             indexer' \in [Indexers -> IndexerRecords], ItemFits', RunsFit', IndexersFit',
             UNCHANGED <<sent, delivery, indexUsed>>
      PROVE  IndexInv'
  <2>1. IndexTypeOK'
    BY <1>k DEF IndexInv, IndexTypeOK, ItemRecords, RunRecords, IndexerRecords
  <2> QED
    BY <1>k, <2>1 DEF IndexInv
<1>s. {"pending", "processing", "ready", "stored_only", "failed", "cancelled"} \subseteq IndexStatus
  BY DEF IndexStatus
<1>a. ASSUME NEW k \in Indexers, AtIndex(k, "working") \/ AtIndex(k, "picked"), NEW retry \in BOOLEAN, AckNext(k, retry)
      PROVE  indexer' \in [Indexers -> IndexerRecords] /\ IndexersFit'
  <2> DEFINE s == [indexer[k] EXCEPT !.at = "acking", !.retry = retry]
  <2>1. s \in IndexerRecords /\ s.run = indexer[k].run /\ indexer[k].run \in Runs
    BY <1>a, <1>t DEF IndexerRecords, IndexInv, IndexersFit, AtIndex
  <2>2. indexer' = [indexer EXCEPT ![k] = s]
    BY <1>a DEF AckNext, IndexerGoes
  <2> HIDE DEF s
  <2> QED
    BY <1>t, <2>1, <2>2 DEF IndexInv, IndexersFit, AtIndex
<1>1. ASSUME NEW r \in Runs, RunLeaseLapses(r) PROVE IndexInv' /\ item' = item
  <2>1. /\ run' = [run EXCEPT ![r].leased = FALSE] /\ UNCHANGED <<item, index, sent, indexer>>
    BY <1>1 DEF RunLeaseLapses
  <2>2. run' \in [Runs -> RunRecords] /\ RunsFit'
    BY <1>t, <2>1 DEF RunRecords, IndexInv, RunsFit, Live
  <2>3. indexUsed' \in IndexUsedRecords
    BY <1>1, <1>t, IndexConstants DEF RunLeaseLapses, IndexFault, IndexUsedRecords
  <2>4. delivery' \in [Runs -> DeliveryRecords]
    <3>1. CASE Orphan(r)
      BY <1>1, <1>t, <3>1 DEF RunLeaseLapses
    <3>2. CASE ~Orphan(r)
      BY <1>1, <1>t, <3>2 DEF RunLeaseLapses, DeliveryRecords
    <3> QED
      BY <3>1, <3>2
  <2>5. IndexTypeOK'
    BY <2>1, <2>2, <2>3, <2>4 DEF IndexInv, IndexTypeOK, RunRecords, DeliveryRecords, IndexUsedRecords
  <2> QED
    BY <2>1, <2>2, <2>5 DEF IndexInv, ItemFits, IndexersFit, AtIndex
<1>2. ASSUME NEW k \in Indexers, ClaimRun(k) PROVE IndexInv' /\ item' = item
  <2> DEFINE r == indexer[k].run  n == run[r].attempts + 1
  <2>1. r \in Runs /\ n \in Nat
    <3>1. r \in Runs
      BY <1>2 DEF ClaimRun, IndexInv, IndexersFit, AtIndex
    <3>2. run[r].attempts \in Nat
      BY <1>t, <3>1 DEF RunRecords
    <3> QED
      BY <3>1, <3>2
  <2>2. CASE Current(r) /\ ~run[r].leased
    <3> DEFINE s == [indexer[k] EXCEPT !.at = "working", !.token = n]
    <3>1. /\ run' = [run EXCEPT ![r].status = "running", ![r].attempts = n, ![r].token = n,
                                ![r].leased = TRUE]
          /\ index' = [index EXCEPT ![run[r].revision] = "processing"]
          /\ indexer' = [indexer EXCEPT ![k] = s]
          /\ UNCHANGED <<item, sent, delivery, indexUsed>>
      BY <1>2, <2>2 DEF ClaimRun, IndexerGoes
    <3>2. s \in IndexerRecords /\ s.run = r
      BY <1>t, <2>1 DEF IndexerRecords
    <3> HIDE DEF n, s
    <3>3. run' \in [Runs -> RunRecords] /\ \A q \in Runs : run'[q].revision = run[q].revision
      BY <1>t, <2>1, <3>1 DEF RunRecords, RunLive
    <3>q. \A q \in Runs : q # r => run'[q] = run[q]
      BY <1>t, <3>1
    <3>4. RunsFit'
      BY <2>2, <3>3, <3>q DEF IndexInv, RunsFit, Live, Current
    <3>5. index' \in [Revisions -> IndexStatus]
      BY <1>s, <1>t, <3>1
    <3> HIDE DEF r
    <3>6. indexer' \in [Indexers -> IndexerRecords] /\ IndexersFit'
      BY <1>t, <2>1, <3>1, <3>2 DEF IndexInv, IndexersFit, AtIndex
    <3>7. item' \in ItemRecords /\ ItemFits'
      BY <1>t, <3>1 DEF IndexInv, ItemFits
    <3> QED
      BY <1>k, <3>1, <3>3, <3>4, <3>5, <3>6, <3>7
  <2>3. CASE ~(Current(r) /\ ~run[r].leased)
    <3>1. AckNext(k, FALSE) /\ UNCHANGED <<item, index, run, sent, delivery, indexUsed>> /\ AtIndex(k, "picked")
      BY <1>2, <2>3 DEF ClaimRun
    <3>2. indexer' \in [Indexers -> IndexerRecords] /\ IndexersFit'
      BY <1>a, <3>1
    <3> QED
      BY <1>k, <1>t, <3>1, <3>2 DEF IndexInv, ItemFits, RunsFit, Live
  <2> QED
    BY <2>2, <2>3
<1>o. ASSUME NEW k \in Indexers, AtIndex(k, "working"), NEW s \in {"pending", "succeeded", "failed"},
             CloseRun(indexer[k].run, s), Owns(k)
      PROVE  run' \in [Runs -> RunRecords] /\ RunsFit'
  <2> DEFINE r == indexer[k].run
  <2>1. r \in Runs /\ run[r].revision \in Revisions
    BY <1>o DEF IndexInv, IndexersFit, RunsFit, Owns, Current, AtIndex
  <2>2. run' = [run EXCEPT ![r] = Closed(s, run[r])]
    BY <1>o DEF CloseRun
  <2>3. Closed(s, run[r]) \in RunRecords /\ Closed(s, run[r]).revision = run[r].revision
    BY <1>t, <2>1, ClosedIsRun
  <2> HIDE DEF r
  <2> QED
    BY <1>t, <2>1, <2>2, <2>3 DEF IndexInv, RunsFit, Live
<1>3. ASSUME NEW k \in Indexers, PublishRun(k)
      PROVE  /\ IndexInv'
             /\ item' = item \/ (item'.active > item.active /\ index'[item'.active] = "ready")
  <2>0. /\ AtIndex(k, "working") /\ AckNext(k, FALSE) /\ UNCHANGED <<sent, delivery, indexUsed>>
        /\ indexer' \in [Indexers -> IndexerRecords] /\ IndexersFit'
    BY <1>3, <1>a DEF PublishRun
  <2>1. CASE Owns(k)
    <3> DEFINE v == run[indexer[k].run].revision
    <3>1. /\ item' = [item EXCEPT !.active = v, !.pending = None]
          /\ index' = [index EXCEPT ![v] = "ready"] /\ CloseRun(indexer[k].run, "succeeded")
      BY <1>3, <2>1 DEF PublishRun
    <3>2. v \in Revisions /\ item.pending = v /\ item.state = "kept"
      BY <2>0, <2>1 DEF Owns, Current, IndexInv, RunsFit, IndexersFit, AtIndex
    <3> HIDE DEF v
    <3>3. v \in 1 .. MaxRevisions /\ v > item.active /\ v <= item.newest
      BY <3>2, IndexConstants DEF IndexInv, ItemFits, Revisions, None
    <3>4. /\ item' \in ItemRecords /\ item'.active = v /\ item'.pending = 0
          /\ item'.newest = item.newest /\ item'.state = "kept"
      <4>1. v \in 0 .. MaxRevisions /\ 0 \in 0 .. MaxRevisions
        BY <3>3, IndexConstants
      <4> QED
        BY <1>t, <3>1, <3>2, <4>1 DEF ItemRecords, None
    <3>5. ItemFits'
      BY <1>t, <3>3, <3>4 DEF ItemFits, None
    <3>6. index' \in [Revisions -> IndexStatus] /\ index'[v] = "ready"
      BY <1>s, <1>t, <3>1, <3>2
    <3>7. run' \in [Runs -> RunRecords] /\ RunsFit'
      BY <1>o, <2>0, <2>1, <3>1
    <3> QED
      BY <1>k, <2>0, <3>3, <3>4, <3>5, <3>6, <3>7
  <2>2. CASE ~Owns(k)
    <3>1. UNCHANGED <<index, item, run>>
      BY <1>3, <2>2 DEF PublishRun
    <3> QED
      BY <1>k, <1>t, <2>0, <3>1 DEF IndexInv, ItemFits, RunsFit, Live
  <2> QED
    BY <2>1, <2>2
<1>4. ASSUME NEW k \in Indexers, NEW retry \in BOOLEAN, FailRun(k, retry) PROVE IndexInv' /\ item' = item
  <2>0. /\ AtIndex(k, "working") /\ AckNext(k, retry /\ Owns(k)) /\ UNCHANGED <<item, sent, delivery, indexUsed>>
    BY <1>4 DEF FailRun
  <2>a. (retry /\ Owns(k)) \in BOOLEAN
    OBVIOUS
  <2>1. indexer' \in [Indexers -> IndexerRecords] /\ IndexersFit'
    BY <1>a, <2>0, <2>a
  <2>2. CASE Owns(k)
    <3>1. \E s \in {"pending", "failed"} : /\ CloseRun(indexer[k].run, s)
                                           /\ index' = [index EXCEPT ![run[indexer[k].run].revision] = s]
      BY <1>4, <2>2 DEF FailRun
    <3>2. run' \in [Runs -> RunRecords] /\ RunsFit'
      BY <1>o, <2>0, <2>2, <3>1
    <3>3. index' \in [Revisions -> IndexStatus]
      BY <1>s, <1>t, <3>1
    <3> QED
      BY <1>k, <1>t, <2>0, <2>1, <3>2, <3>3 DEF IndexInv, ItemFits
  <2>3. CASE ~Owns(k)
    <3>1. UNCHANGED <<index, run>>
      BY <1>4, <2>3 DEF FailRun
    <3> QED
      BY <1>k, <1>t, <2>0, <2>1, <3>1 DEF IndexInv, ItemFits, RunsFit, Live
  <2> QED
    BY <2>2, <2>3
<1> QED
  BY <1>1, <1>2, <1>3, <1>4

LEMMA IndexInvStep ==
    ASSUME IndexInv, [IndexNext]_indexVars
    PROVE  /\ IndexInv'
           /\ \/ item'.active = item.active
              \/ item'.state = "deleted" /\ item'.active = None
              \/ item'.active > item.active /\ index'[item'.active] \in {"ready", "stored_only"}
<1>1. CASE UNCHANGED indexVars
  BY <1>1 DEF indexVars, IndexInv, IndexTypeOK, ItemFits, RunsFit, IndexersFit, Live, AtIndex
<1>2. CASE IndexNext
  BY <1>2, OwnerKeepsItem, QueueKeepsItem, WorkerKeepsItem DEF IndexNext, IndexerStep
<1> QED
  BY <1>1, <1>2

(* The item, its revisions and its runs fit together in every state.       *)
THEOREM IndexInvariance == IndexSpec => []IndexInv
<1>1. IndexInit => IndexInv
  BY IndexInitInv
<1>2. IndexInv /\ [IndexNext]_indexVars => IndexInv'
  BY IndexInvStep
<1> QED
  BY <1>1, <1>2, PTL DEF IndexSpec

(* What is searched never falls back behind an edit, whichever worker      *)
(* comes late: publish asks for the item's pending revision and its        *)
(* generation, and what is pending is newer than what is searched.         *)
THEOREM SearchNeverFallsBack == IndexSpec => SearchMovesForward
<1>1. IndexInv /\ [IndexNext]_indexVars =>
        [\/ item'.active = item.active
         \/ item'.state = "deleted" /\ item'.active = None
         \/ item'.active > item.active /\ index'[item'.active] \in {"ready", "stored_only"}]_indexVars
  BY IndexInvStep
<1> QED
  BY <1>1, IndexInvariance, PTL DEF IndexSpec, SearchMovesForward

-----------------------------------------------------------------------------
(* FeishuChannel.                                                          *)

(* Whoever is at work is at a message, and alone with it.                  *)
ConsumersFit ==
    /\ \A k \in Consumers : consumer[k].at = "idle" <=> consumer[k].message = NoMessage
    /\ \A j, k \in Consumers :
         j # k /\ consumer[j].message # NoMessage => consumer[j].message # consumer[k].message

(* A message that may still be taken up has not reached the assistant, nor *)
(* has one that was taken up just now.                                     *)
ExecutedOnce == \A m \in Messages :
    /\ executed[m] <= 1
    /\ inbox[m].status \in {"none", "pending"} => executed[m] = 0 /\ NobodyAt(m)
    /\ \A k \in Consumers : consumer[k].message = m /\ AtConsume(k, "claimed") => executed[m] = 0

(* What was delivered is on record, and not as refused.                    *)
OnRecord(m) == \E i \in Identities : record[m][i] \notin {"none", "failed"}
SendFits(k, m) ==
    /\ record[m][consumer[k].as] = "sending"
    /\ record[m][Other(consumer[k].as)] \in {"none", "failed"}
    /\ AtConsume(k, "staged") => delivered[m] = 0
    /\ AtConsume(k, "written") =>
         /\ consumer[k].result \in {"sent", "failed", "unknown"}
         /\ consumer[k].result = "failed" => delivered[m] = 0
DeliveredOnce == \A m \in Messages :
    /\ delivered[m] <= 1
    /\ delivered[m] = 1 => OnRecord(m)
    /\ \A k \in Consumers :
         consumer[k].message = m /\ consumer[k].at \in {"staged", "written"} => SendFits(k, m)

FeishuInv == FeishuTypeOK /\ ConsumersFit /\ ExecutedOnce /\ DeliveredOnce

InboxRecords == [status : InboxStatus, place : Nat, cancelAsked : BOOLEAN]
ConsumerRecords == [at : {"idle", "claimed", "executing", "staged", "written", "after"},
                    message : Messages \union {NoMessage}, aborted : BOOLEAN,
                    as : Identities, result : SendStatus]

LEMMA FeishuConstants ==
    /\ NoMessage \notin Messages /\ MaxFeishuFaults \in Nat
    /\ "user" \in Identities /\ \A i \in Identities : Other(i) \in Identities /\ Other(i) # i
    /\ Identities = {"user", "bot"}
  BY FeishuAssumption DEF Identities, Other

LEMMA FeishuTypes ==
    FeishuTypeOK <=> /\ inbox \in [Messages -> InboxRecords]
                     /\ arrived \in Nat /\ connected \in BOOLEAN /\ routing \subseteq Messages
                     /\ consumer \in [Consumers -> ConsumerRecords]
                     /\ record \in [Messages -> [Identities -> SendStatus]]
                     /\ executed \in [Messages -> Nat] /\ delivered \in [Messages -> Nat]
                     /\ feishuFaults \in 0 .. MaxFeishuFaults
  BY DEF FeishuTypeOK, InboxRecords, ConsumerRecords

LEMMA IdleConsumerIsTyped == IdleConsumer \in ConsumerRecords
  BY FeishuConstants DEF IdleConsumer, ConsumerRecords, SendStatus

LEMMA FeishuInitInv == FeishuInit => FeishuInv
<1> SUFFICES ASSUME FeishuInit PROVE FeishuInv
  OBVIOUS
<1>1. /\ inbox \in [Messages -> InboxRecords] /\ arrived \in Nat /\ connected \in BOOLEAN
      /\ routing \subseteq Messages /\ record \in [Messages -> [Identities -> SendStatus]]
      /\ executed \in [Messages -> Nat] /\ delivered \in [Messages -> Nat]
      /\ feishuFaults \in 0 .. MaxFeishuFaults
  BY FeishuConstants DEF FeishuInit, NoRow, InboxRecords, InboxStatus, SendStatus
<1>2. consumer \in [Consumers -> ConsumerRecords]
  BY IdleConsumerIsTyped DEF FeishuInit
<1>3. ConsumersFit /\ ExecutedOnce /\ DeliveredOnce
  BY FeishuConstants
  DEF FeishuInit, ConsumersFit, ExecutedOnce, DeliveredOnce, NobodyAt, IdleConsumer, AtConsume
<1> QED
  BY <1>1, <1>2, <1>3, FeishuTypes DEF FeishuInv

LEMMA FeishuFaultCounts == ASSUME FeishuTypeOK, FeishuFault PROVE feishuFaults' \in 0 .. MaxFeishuFaults
<1>1. feishuFaults \in Nat /\ feishuFaults < MaxFeishuFaults /\ feishuFaults' = feishuFaults + 1
  BY FeishuConstants DEF FeishuTypeOK, FeishuFault
<1> QED
  BY <1>1, FeishuConstants

(* A step of the inbox: no message waits again, nobody's work is touched.  *)
LEMMA InboxStep ==
    ASSUME FeishuInv, inbox' \in [Messages -> InboxRecords], arrived' \in Nat, connected' \in BOOLEAN,
           routing' \subseteq Messages, feishuFaults' \in 0 .. MaxFeishuFaults,
           UNCHANGED <<consumer, record, executed, delivered>>,
           \A m \in Messages : inbox'[m].status \in {"none", "pending"} =>
                                   inbox[m].status \in {"none", "pending"}
    PROVE  FeishuInv'
<1>1. FeishuTypeOK'
  BY DEF FeishuInv, FeishuTypeOK, InboxRecords
<1>2. ConsumersFit' /\ DeliveredOnce'
  BY DEF FeishuInv, ConsumersFit, DeliveredOnce, OnRecord, SendFits, AtConsume
<1>3. ExecutedOnce'
  BY DEF FeishuInv, ExecutedOnce, NobodyAt, AtConsume
<1> QED
  BY <1>1, <1>2, <1>3 DEF FeishuInv

LEMMA CancelledInbox ==
    ASSUME FeishuInv
    PROVE  /\ JobsCancelled \in [Messages -> InboxRecords]
           /\ \A m \in Messages : JobsCancelled[m].status \in {"none", "pending"} =>
                                      inbox[m].status \in {"none", "pending"}
<1>t. inbox \in [Messages -> InboxRecords]
  BY FeishuTypes DEF FeishuInv
<1>1. ASSUME NEW m \in Messages
      PROVE  /\ JobsCancelled[m] \in InboxRecords
             /\ JobsCancelled[m].status \in {"none", "pending"} => inbox[m].status \in {"none", "pending"}
  <2>1. CASE inbox[m].status = "pending"
    BY <1>t, <2>1 DEF JobsCancelled, InboxRecords, InboxStatus
  <2>2. CASE inbox[m].status = "running"
    BY <1>t, <2>2 DEF JobsCancelled, InboxRecords, InboxStatus
  <2>3. CASE inbox[m].status \notin {"pending", "running"}
    BY <1>t, <2>3 DEF JobsCancelled
  <2> QED
    BY <2>1, <2>2, <2>3
<1> QED
  BY <1>1 DEF JobsCancelled

LEMMA InboxSteps ==
    ASSUME FeishuInv,
           Disconnect \/ \E m \in Messages : Route(m) \/ RecordRouted(m) \/ Enqueue(m) \/ Expire(m)
    PROVE  FeishuInv'
<1>t. /\ inbox \in [Messages -> InboxRecords] /\ arrived \in Nat /\ connected \in BOOLEAN
      /\ routing \subseteq Messages /\ feishuFaults \in 0 .. MaxFeishuFaults
  BY FeishuTypes DEF FeishuInv
<1>s. {"routed", "unknown", "rate_limited", "pending"} \subseteq InboxStatus
  BY DEF InboxStatus
<1>1. CASE Disconnect
  BY <1>1, <1>t, CancelledInbox, InboxStep DEF Disconnect
<1>2. ASSUME NEW m \in Messages, Route(m) PROVE FeishuInv'
  BY <1>2, <1>t, InboxStep DEF Route
<1>w. ASSUME NEW m \in Messages, NEW s \in {"routed", "unknown"}
      PROVE  /\ [inbox EXCEPT ![m].status = s] \in [Messages -> InboxRecords]
             /\ \A n \in Messages : [inbox EXCEPT ![m].status = s][n].status \in {"none", "pending"} =>
                                        inbox[n].status \in {"none", "pending"}
  BY <1>s, <1>t DEF InboxRecords
<1>3. ASSUME NEW m \in Messages, RecordRouted(m) PROVE FeishuInv'
  BY <1>3, <1>t, <1>w, InboxStep DEF RecordRouted
<1>4. ASSUME NEW m \in Messages, Expire(m) PROVE FeishuInv'
  <2>1. feishuFaults' \in 0 .. MaxFeishuFaults
    BY <1>4, <1>t, FeishuFaultCounts DEF Expire, FeishuInv
  <2> QED
    BY <1>4, <1>t, <1>w, <2>1, InboxStep DEF Expire, AfterCrash
<1>5. ASSUME NEW m \in Messages, Enqueue(m) PROVE FeishuInv'
  <2>1. PICK box \in {inbox, JobsCancelled}, r \in InboxRecords :
            inbox' = [box EXCEPT ![m] = r] /\ r.status \in {"rate_limited", "pending"}
    <3>1. PICK limited \in BOOLEAN :
              inbox' = [IF m \in Cancelling THEN JobsCancelled ELSE inbox EXCEPT
                          ![m] = [NoRow EXCEPT !.status = IF limited THEN "rate_limited" ELSE "pending",
                                               !.place = arrived + 1]]
      BY <1>5 DEF Enqueue
    <3>2. \A s \in {"rate_limited", "pending"} :
              /\ [NoRow EXCEPT !.status = s, !.place = arrived + 1] \in InboxRecords
              /\ [NoRow EXCEPT !.status = s, !.place = arrived + 1].status = s
      <4>1. NoRow \in InboxRecords /\ arrived + 1 \in Nat
        BY <1>t DEF NoRow, InboxRecords, InboxStatus
      <4> QED
        BY <4>1, <1>s DEF InboxRecords
    <3> QED
      BY <3>1, <3>2
  <2>2. /\ box \in [Messages -> InboxRecords]
        /\ \A n \in Messages : box[n].status \in {"none", "pending"} => inbox[n].status \in {"none", "pending"}
    BY <1>t, <2>1, CancelledInbox
  <2>3. inbox' \in [Messages -> InboxRecords] /\ inbox[m].status = "none"
    BY <1>5, <2>1, <2>2 DEF Enqueue
  <2>4. \A n \in Messages : inbox'[n].status \in {"none", "pending"} => inbox[n].status \in {"none", "pending"}
    BY <2>1, <2>2, <2>3
  <2> QED
    <3>1. arrived' \in Nat /\ UNCHANGED <<connected, routing, consumer, record, executed, delivered, feishuFaults>>
      <4>1. arrived' = arrived + 1 /\ UNCHANGED <<connected, routing, consumer, record, executed, delivered, feishuFaults>>
        BY <1>5, Zenon DEF Enqueue
      <4> QED
        BY <1>t, <4>1
    <3> QED
      BY <1>t, <2>3, <2>4, <3>1, InboxStep
<1> QED
  BY <1>1, <1>2, <1>3, <1>4, <1>5

(* A step of one consumer at a message, which stays there or leaves it.    *)
LEMMA ConsumerStep ==
    ASSUME FeishuInv, NEW k \in Consumers, NEW m \in Messages, m = consumer[k].message,
           NEW s \in ConsumerRecords, consumer' = [consumer EXCEPT ![k] = s],
           s = IdleConsumer \/ (s.message = m /\ s.at \notin {"idle", "claimed"})
                            \/ (s.message = m /\ s.at = consumer[k].at),
           inbox' \in [Messages -> InboxRecords], UNCHANGED <<arrived, connected, routing>>,
           feishuFaults' \in 0 .. MaxFeishuFaults,
           \A n \in Messages : inbox'[n].status \in {"none", "pending"} =>
                                   inbox[n].status \in {"none", "pending"},
           executed' \in [Messages -> Nat], delivered' \in [Messages -> Nat],
           record' \in [Messages -> [Identities -> SendStatus]],
           \A n \in Messages \ {m} : /\ executed'[n] = executed[n] /\ delivered'[n] = delivered[n]
                                     /\ record'[n] = record[n],
           \/ executed'[m] = executed[m]
           \/ AtConsume(k, "claimed") /\ s.at # "claimed" /\ executed'[m] = executed[m] + 1,
           delivered'[m] <= 1, delivered'[m] = 1 => OnRecord(m)',
           s.at \in {"staged", "written"} => SendFits(k, m)'
    PROVE  FeishuInv'
<1>t. /\ consumer \in [Consumers -> ConsumerRecords] /\ executed \in [Messages -> Nat]
      /\ consumer' \in [Consumers -> ConsumerRecords] /\ consumer'[k] = s
      /\ \A j \in Consumers \ {k} : consumer'[j] = consumer[j]
      /\ IdleConsumer.at = "idle" /\ IdleConsumer.message = NoMessage /\ m # NoMessage
  BY FeishuTypes, FeishuConstants DEF FeishuInv, IdleConsumer
<1>c. consumer[k].at # "idle" /\ \A j \in Consumers \ {k} : consumer[j].message # m
  BY <1>t DEF FeishuInv, ConsumersFit
<1>1. FeishuTypeOK'
  BY <1>t DEF FeishuInv, FeishuTypeOK, InboxRecords, ConsumerRecords
<1>2. ConsumersFit'
  BY <1>t, <1>c DEF FeishuInv, ConsumersFit
<1>3. ExecutedOnce'
  <2>1. ASSUME NEW n \in Messages \ {m}
        PROVE  /\ executed'[n] <= 1
               /\ inbox'[n].status \in {"none", "pending"} => executed'[n] = 0 /\ NobodyAt(n)'
               /\ \A j \in Consumers : consumer'[j].message = n /\ AtConsume(j, "claimed")' => executed'[n] = 0
    <3>1. n # NoMessage /\ consumer'[k].message # n /\ executed'[n] = executed[n]
      BY <1>t, FeishuConstants
    <3>2. \A j \in Consumers : consumer'[j].message = n => consumer'[j] = consumer[j]
      BY <1>t, <3>1
    <3>3. executed[n] <= 1 /\ (inbox'[n].status \in {"none", "pending"} => executed[n] = 0 /\ NobodyAt(n))
      BY DEF FeishuInv, ExecutedOnce
    <3>4. NobodyAt(n) => NobodyAt(n)'
      BY <3>2 DEF NobodyAt
    <3> QED
      BY <3>1, <3>2, <3>3, <3>4 DEF FeishuInv, ExecutedOnce, AtConsume
  <2>2. executed'[m] <= 1 /\ inbox'[m].status \notin {"none", "pending"}
    BY <1>t DEF FeishuInv, ExecutedOnce, NobodyAt, AtConsume
  <2>3. \A j \in Consumers : consumer'[j].message = m /\ AtConsume(j, "claimed")' => executed'[m] = 0
    BY <1>t, <1>c DEF FeishuInv, ExecutedOnce, AtConsume
  <2> QED
    BY <2>1, <2>2, <2>3 DEF ExecutedOnce
<1>4. DeliveredOnce'
  <2>1. ASSUME NEW n \in Messages \ {m}
        PROVE  /\ delivered'[n] <= 1 /\ (delivered'[n] = 1 => OnRecord(n)')
               /\ \A j \in Consumers :
                    consumer'[j].message = n /\ consumer'[j].at \in {"staged", "written"} => SendFits(j, n)'
    BY <1>t DEF FeishuInv, DeliveredOnce, OnRecord, SendFits, AtConsume
  <2>2. \A j \in Consumers :
            consumer'[j].message = m /\ consumer'[j].at \in {"staged", "written"} => SendFits(j, m)'
    BY <1>t, <1>c
  <2> QED
    BY <2>1, <2>2 DEF DeliveredOnce
<1> QED
  BY <1>1, <1>2, <1>3, <1>4 DEF FeishuInv

LEMMA ClaimMessageStep ==
    ASSUME FeishuInv, NEW k \in Consumers, NEW m \in Messages, ClaimMessage(k, m)
    PROVE  FeishuInv'
<1> DEFINE s == [IdleConsumer EXCEPT !.at = "claimed", !.message = m]
<1>s. s \in ConsumerRecords /\ s.at = "claimed" /\ s.message = m /\ m # NoMessage
  BY IdleConsumerIsTyped, FeishuConstants DEF ConsumerRecords, IdleConsumer
<1>1. /\ AtConsume(k, "idle") /\ inbox[m].status = "pending"
      /\ inbox' = [inbox EXCEPT ![m].status = "running"] /\ consumer' = [consumer EXCEPT ![k] = s]
      /\ UNCHANGED <<arrived, connected, routing, record, executed, delivered, feishuFaults>>
  BY DEF ClaimMessage, Oldest, Consumes
<1> HIDE DEF s
<1>t. /\ consumer \in [Consumers -> ConsumerRecords] /\ inbox \in [Messages -> InboxRecords]
      /\ consumer' \in [Consumers -> ConsumerRecords] /\ consumer'[k] = s
      /\ \A j \in Consumers \ {k} : consumer'[j] = consumer[j]
  BY <1>1, <1>s, FeishuTypes DEF FeishuInv
<1>i. /\ inbox' \in [Messages -> InboxRecords] /\ inbox'[m].status = "running"
      /\ \A n \in Messages \ {m} : inbox'[n] = inbox[n]
  BY <1>1, <1>t DEF InboxRecords, InboxStatus
<1>2. executed[m] = 0 /\ NobodyAt(m)
  BY <1>1 DEF FeishuInv, ExecutedOnce
<1>3. FeishuTypeOK'
  BY <1>1, <1>t, <1>i DEF FeishuInv, FeishuTypeOK, InboxRecords, ConsumerRecords
<1>4. ConsumersFit'
  BY <1>s, <1>t, <1>2 DEF FeishuInv, ConsumersFit, NobodyAt
<1>5. ExecutedOnce'
  BY <1>1, <1>i, <1>s, <1>t, <1>2 DEF FeishuInv, ExecutedOnce, NobodyAt, AtConsume
<1>6. DeliveredOnce'
  <2>1. \A n \in Messages : OnRecord(n)' <=> OnRecord(n)
    BY <1>1 DEF OnRecord
  <2> QED
    BY <1>1, <1>s, <1>t, <2>1 DEF FeishuInv, DeliveredOnce, SendFits, AtConsume
<1> QED
  BY <1>3, <1>4, <1>5, <1>6 DEF FeishuInv

LEMMA ConsumerSteps ==
    ASSUME FeishuInv, NEW k \in Consumers,
           ConsumerEnds(k) \/ Monitor(k) \/ ConsumerDies(k) \/ \E i \in Identities : StageSend(k, i)
    PROVE  FeishuInv'
<1>t. /\ consumer \in [Consumers -> ConsumerRecords] /\ consumer[k] \in ConsumerRecords
      /\ inbox \in [Messages -> InboxRecords] /\ record \in [Messages -> [Identities -> SendStatus]]
      /\ executed \in [Messages -> Nat] /\ delivered \in [Messages -> Nat]
      /\ feishuFaults \in 0 .. MaxFeishuFaults
  BY FeishuTypes DEF FeishuInv
<1>p. PICK m \in Messages : m = consumer[k].message
  <2>1. consumer[k].at # "idle"
    BY DEF ConsumerEnds, BeginExecution, WriteSend, RecordSend, EndExecution, FinishMessage, Monitor,
           ConsumerDies, StageSend, AtConsume, FeishuInv, ConsumersFit
  <2> QED
    BY <1>t, <2>1 DEF FeishuInv, ConsumersFit, ConsumerRecords
<1>i. IdleConsumer \in ConsumerRecords /\ IdleConsumer.at = "idle"
  BY IdleConsumerIsTyped DEF IdleConsumer
<1>d. /\ delivered[m] <= 1 /\ delivered[m] \in Nat /\ executed[m] \in Nat /\ (delivered[m] = 1 => OnRecord(m))
      /\ consumer[k].at \in {"staged", "written"} => SendFits(k, m)
  BY <1>p, <1>t DEF FeishuInv, DeliveredOnce
(* What leaves the record and the deliveries alone.                        *)
<1>k. ASSUME NEW s \in ConsumerRecords, consumer' = [consumer EXCEPT ![k] = s],
             \/ s = IdleConsumer
             \/ s.message = m /\ s.at \in {"executing", "after"}
             \/ s.message = m /\ s.at = consumer[k].at /\ s.as = consumer[k].as /\ s.result = consumer[k].result,
             inbox' \in [Messages -> InboxRecords],
             UNCHANGED <<arrived, connected, routing, record, delivered>>,
             feishuFaults' \in 0 .. MaxFeishuFaults,
             \A n \in Messages : inbox'[n].status \in {"none", "pending"} =>
                                     inbox[n].status \in {"none", "pending"},
             \/ executed' = executed
             \/ AtConsume(k, "claimed") /\ s.at # "claimed" /\ executed' = [executed EXCEPT ![m] = @ + 1]
      PROVE  FeishuInv'
  <2>1. consumer'[k] = s
    BY <1>k, <1>t
  <2>2. OnRecord(m) => OnRecord(m)'
    BY <1>k DEF OnRecord
  <2>3. s.at \in {"staged", "written"} => SendFits(k, m)'
    BY <1>k, <1>d, <1>i, <2>1 DEF SendFits, AtConsume
  <2>4. /\ executed' \in [Messages -> Nat] /\ \A n \in Messages \ {m} : executed'[n] = executed[n]
        /\ \/ executed'[m] = executed[m]
           \/ AtConsume(k, "claimed") /\ s.at # "claimed" /\ executed'[m] = executed[m] + 1
    BY <1>k, <1>t
  <2>5. /\ delivered' \in [Messages -> Nat] /\ record' \in [Messages -> [Identities -> SendStatus]]
        /\ \A n \in Messages \ {m} : delivered'[n] = delivered[n] /\ record'[n] = record[n]
        /\ delivered'[m] <= 1 /\ (delivered'[m] = 1 => OnRecord(m)')
    BY <1>k, <1>d, <1>t, <2>2
  <2>6. s = IdleConsumer \/ (s.message = m /\ s.at \notin {"idle", "claimed"})
                         \/ (s.message = m /\ s.at = consumer[k].at)
    BY <1>k
  <2> QED
    BY <1>k, <1>p, <2>3, <2>4, <2>5, <2>6, ConsumerStep
<1>w. ASSUME NEW place \in {"executing", "after"}
      PROVE  LET s == [consumer[k] EXCEPT !.at = place]
             IN  s \in ConsumerRecords /\ s.message = m /\ s.at = place
  BY <1>p, <1>t DEF ConsumerRecords
<1>1. CASE BeginExecution(k)
  <2>1. PICK place \in {"executing", "after"} :
            /\ consumer' = [consumer EXCEPT ![k] = [consumer[k] EXCEPT !.at = place]]
            /\ executed' = executed \/ executed' = [executed EXCEPT ![m] = @ + 1]
            /\ AtConsume(k, "claimed")
            /\ UNCHANGED <<inbox, arrived, connected, routing, record, delivered, feishuFaults>>
    BY <1>1, <1>p DEF BeginExecution, Consumes
  <2> DEFINE s == [consumer[k] EXCEPT !.at = place]
  <2>2. s \in ConsumerRecords /\ s.message = m /\ s.at \in {"executing", "after"}
    BY <1>w
  <2>3. consumer' = [consumer EXCEPT ![k] = s]
    BY <2>1
  <2> HIDE DEF s
  <2> QED
    BY <1>k, <1>t, <2>1, <2>2, <2>3
<1>2. CASE Monitor(k)
  <2> DEFINE s == [consumer[k] EXCEPT !.aborted = TRUE]
  <2>1. /\ s \in ConsumerRecords /\ s.message = m /\ s.at = consumer[k].at /\ s.as = consumer[k].as
        /\ s.result = consumer[k].result
    BY <1>p, <1>t DEF ConsumerRecords
  <2>2. feishuFaults' \in 0 .. MaxFeishuFaults
    BY <1>2, <1>t, FeishuFaultCounts DEF Monitor, FeishuInv
  <2>3. /\ consumer' = [consumer EXCEPT ![k] = s]
        /\ UNCHANGED <<inbox, arrived, connected, routing, record, executed, delivered>>
    BY <1>2 DEF Monitor, Consumes
  <2> HIDE DEF s
  <2> QED
    BY <1>k, <1>t, <2>1, <2>2, <2>3
<1>3. CASE EndExecution(k)
  <2> DEFINE s == [consumer[k] EXCEPT !.at = "after"]
  <2>1. s \in ConsumerRecords /\ s.message = m /\ s.at = "after"
    BY <1>w
  <2>2. /\ consumer' = [consumer EXCEPT ![k] = s]
        /\ UNCHANGED <<inbox, arrived, connected, routing, record, executed, delivered, feishuFaults>>
    BY <1>3 DEF EndExecution, Consumes
  <2> HIDE DEF s
  <2> QED
    BY <1>k, <1>t, <2>1, <2>2
<1>4. CASE FinishMessage(k)
  <2>1. /\ consumer' = [consumer EXCEPT ![k] = IdleConsumer]
        /\ UNCHANGED <<arrived, connected, routing, record, executed, delivered, feishuFaults>>
        /\ inbox' = inbox \/ \E s \in {"done", "cancelled"} : inbox' = [inbox EXCEPT ![m].status = s]
    BY <1>4, <1>p DEF FinishMessage, Consumes
  <2>2. /\ inbox' \in [Messages -> InboxRecords]
        /\ \A n \in Messages : inbox'[n].status \in {"none", "pending"} => inbox[n].status \in {"none", "pending"}
    BY <1>t, <2>1 DEF InboxRecords, InboxStatus
  <2> QED
    BY <1>k, <1>i, <1>t, <2>1, <2>2
<1>5. CASE ConsumerDies(k)
  <2>1. feishuFaults' \in 0 .. MaxFeishuFaults
    BY <1>5, <1>t, FeishuFaultCounts DEF ConsumerDies, FeishuInv
  <2>2. /\ consumer' = [consumer EXCEPT ![k] = IdleConsumer]
        /\ UNCHANGED <<inbox, arrived, connected, routing, record, executed, delivered>>
    BY <1>5 DEF ConsumerDies, Consumes
  <2> QED
    BY <1>k, <1>i, <1>t, <2>1, <2>2
(* What changes them.                                                      *)
<1>s. ASSUME NEW s \in ConsumerRecords, consumer' = [consumer EXCEPT ![k] = s],
             s.message = m, s.at \notin {"idle", "claimed"},
             UNCHANGED <<inbox, arrived, connected, routing, executed>>, feishuFaults' \in 0 .. MaxFeishuFaults,
             delivered' \in [Messages -> Nat], record' \in [Messages -> [Identities -> SendStatus]],
             \A n \in Messages \ {m} : delivered'[n] = delivered[n] /\ record'[n] = record[n],
             delivered'[m] <= 1, delivered'[m] = 1 => OnRecord(m)',
             s.at \in {"staged", "written"} => SendFits(k, m)'
      PROVE  FeishuInv'
  BY <1>s, <1>p, <1>t, ConsumerStep
<1>r. ASSUME NEW i \in Identities, NEW v \in SendStatus, record' = [record EXCEPT ![m][i] = v]
      PROVE  /\ record' \in [Messages -> [Identities -> SendStatus]]
             /\ \A n \in Messages \ {m} : record'[n] = record[n]
             /\ record'[m][i] = v /\ record'[m][Other(i)] = record[m][Other(i)]
  BY <1>r, <1>t, FeishuConstants
<1>6. ASSUME NEW i \in Identities, StageSend(k, i) PROVE FeishuInv'
  <2> DEFINE s == [consumer[k] EXCEPT !.at = "staged", !.as = i]
  <2>1. s \in ConsumerRecords /\ s.message = m /\ s.at = "staged" /\ s.as = i
    BY <1>p, <1>t DEF ConsumerRecords
  <2>2. /\ consumer' = [consumer EXCEPT ![k] = s] /\ record' = [record EXCEPT ![m][i] = "sending"]
        /\ UNCHANGED <<inbox, arrived, connected, routing, executed, delivered, feishuFaults>>
        /\ record[m][i] = "none" /\ record[m][Other(i)] \in {"none", "failed"}
    BY <1>6, <1>p DEF StageSend, MaySend, Consumes
  <2> HIDE DEF s
  <2>3. "sending" \in SendStatus
    BY DEF SendStatus
  <2>4. delivered[m] = 0
    <3>1. \A j \in Identities : j = i \/ j = Other(i)
      BY FeishuConstants DEF Other
    <3>2. ~OnRecord(m)
      BY <2>2, <3>1 DEF OnRecord
    <3> QED
      BY <1>d, <3>2
  <2>5. consumer'[k] = s
    BY <1>t, <2>2
  <2>r. /\ record' \in [Messages -> [Identities -> SendStatus]]
        /\ \A n \in Messages \ {m} : record'[n] = record[n]
        /\ record'[m][i] = "sending" /\ record'[m][Other(i)] = record[m][Other(i)]
    BY <1>r, <2>2, <2>3
  <2>6. SendFits(k, m)'
    BY <2>1, <2>2, <2>4, <2>5, <2>r DEF SendFits, AtConsume
  <2>7. delivered'[m] <= 1 /\ delivered'[m] # 1 /\ delivered' \in [Messages -> Nat]
    BY <1>t, <2>2, <2>4
  <2> QED
    BY <1>s, <1>t, <2>1, <2>2, <2>6, <2>7, <2>r
<1>7. CASE WriteSend(k)
  <2>1. PICK result \in {"sent", "failed", "unknown"} :
            /\ consumer' = [consumer EXCEPT ![k] = [consumer[k] EXCEPT !.at = "written", !.result = result]]
            /\ delivered' = IF result = "failed" THEN delivered ELSE [delivered EXCEPT ![m] = @ + 1]
            /\ consumer[k].at = "staged"
            /\ UNCHANGED <<inbox, arrived, connected, routing, record, executed, feishuFaults>>
    BY <1>7, <1>p DEF WriteSend, Consumes, AtConsume
  <2> DEFINE s == [consumer[k] EXCEPT !.at = "written", !.result = result]
  <2>2. s \in ConsumerRecords /\ s.message = m /\ s.at = "written" /\ s.as = consumer[k].as /\ s.result = result
    BY <1>p, <1>t DEF ConsumerRecords, SendStatus
  <2>3. consumer' = [consumer EXCEPT ![k] = s]
    BY <2>1
  <2> HIDE DEF s
  <2>4. /\ record[m][consumer[k].as] = "sending" /\ delivered[m] = 0 /\ consumer[k].as \in Identities
        /\ record[m][Other(consumer[k].as)] \in {"none", "failed"}
    BY <1>d, <1>t, <2>1 DEF SendFits, AtConsume, ConsumerRecords
  <2>5. /\ delivered' \in [Messages -> Nat] /\ \A n \in Messages \ {m} : delivered'[n] = delivered[n]
        /\ delivered'[m] = IF result = "failed" THEN 0 ELSE 1
    BY <1>t, <2>1, <2>4
  <2>6. OnRecord(m)'
    BY <2>1, <2>4 DEF OnRecord
  <2>7. consumer'[k] = s
    BY <1>t, <2>3
  <2>8. SendFits(k, m)'
    BY <2>1, <2>2, <2>4, <2>5, <2>7 DEF SendFits, AtConsume
  <2>9. delivered'[m] <= 1 /\ record' \in [Messages -> [Identities -> SendStatus]]
        /\ feishuFaults' \in 0 .. MaxFeishuFaults /\ \A n \in Messages \ {m} : record'[n] = record[n]
    BY <1>t, <2>1, <2>5
  <2> QED
    BY <1>s, <2>1, <2>2, <2>3, <2>5, <2>6, <2>8, <2>9
<1>8. CASE RecordSend(k)
  <2> DEFINE i == consumer[k].as  s == [consumer[k] EXCEPT !.at = "executing"]
  <2>1. s \in ConsumerRecords /\ s.message = m /\ s.at = "executing"
    BY <1>w
  <2>2. /\ consumer' = [consumer EXCEPT ![k] = s] /\ consumer[k].at = "written"
        /\ UNCHANGED <<inbox, arrived, connected, routing, executed, delivered>>
        /\ \/ record' = record
           \/ \E v \in {consumer[k].result, "unknown"} : record' = [record EXCEPT ![m][i] = v]
    BY <1>8, <1>p DEF RecordSend, Consumes, AtConsume
  <2>3. feishuFaults' \in 0 .. MaxFeishuFaults
    BY <1>8, <1>t, FeishuFaultCounts DEF RecordSend, FeishuInv
  <2>4. i \in Identities /\ SendFits(k, m) /\ consumer[k].result \in {"sent", "failed", "unknown"}
    BY <1>d, <1>t, <2>2 DEF SendFits, AtConsume, ConsumerRecords
  <2> HIDE DEF i, s
  <2>5. CASE record' = record
    <3>1. delivered'[m] = 1 => OnRecord(m)'
      BY <1>d, <2>2, <2>5 DEF OnRecord
    <3> QED
      BY <1>d, <1>s, <1>t, <2>1, <2>2, <2>3, <2>5, <3>1
  <2>6. ASSUME NEW v \in {consumer[k].result, "unknown"}, record' = [record EXCEPT ![m][i] = v]
        PROVE  FeishuInv'
    <3>1. v \in SendStatus /\ v # "none"
      BY <2>4 DEF SendStatus
    <3>2. record'[m][i] = v
      BY <1>r, <2>4, <2>6, <3>1
    <3>3. v = "failed" => delivered[m] = 0
      BY <2>2, <2>4 DEF SendFits, AtConsume
    <3>4. delivered'[m] = 1 => OnRecord(m)'
      BY <2>2, <2>4, <3>1, <3>2, <3>3 DEF OnRecord
    <3> QED
      BY <1>d, <1>r, <1>s, <1>t, <2>1, <2>2, <2>3, <2>4, <2>6, <3>1, <3>4
  <2> QED
    BY <2>2, <2>5, <2>6
<1> QED
  BY <1>1, <1>2, <1>3, <1>4, <1>5, <1>6, <1>7, <1>8 DEF ConsumerEnds

LEMMA FeishuInvStep == FeishuInv /\ [FeishuNext]_feishuVars => FeishuInv'
<1> SUFFICES ASSUME FeishuInv, [FeishuNext]_feishuVars PROVE FeishuInv'
  OBVIOUS
<1>1. CASE UNCHANGED feishuVars
  <2>1. /\ inbox \in [Messages -> InboxRecords] /\ arrived \in Nat /\ connected \in BOOLEAN
        /\ routing \subseteq Messages /\ feishuFaults \in 0 .. MaxFeishuFaults
    BY FeishuTypes DEF FeishuInv
  <2> QED
    BY <1>1, <2>1, InboxStep DEF feishuVars
<1>2. CASE FeishuNext
  BY <1>2, InboxSteps, ClaimMessageStep, ConsumerSteps DEF FeishuNext
<1> QED
  BY <1>1, <1>2

(* Inbox, consumers and send records agree in every state.                 *)
THEOREM FeishuInvariance == FeishuSpec => []FeishuInv
<1> QED
  BY FeishuInitInv, FeishuInvStep, PTL DEF FeishuSpec

(* The assistant sees each message once, and what it sends to somebody     *)
(* reaches them once: claim never takes a message up again, and send finds *)
(* its record, under either identity, before it calls Feishu.              *)
THEOREM MessagesAreSentOnce == FeishuSpec => []SentOnce
<1>1. FeishuInv => SentOnce
  BY DEF FeishuInv, ExecutedOnce, DeliveredOnce, SentOnce
<1> QED
  BY <1>1, FeishuInvariance, PTL

-----------------------------------------------------------------------------
(* All three at once, as TLC is given them.                                *)

ServicesInv == PayInv /\ IndexInv /\ FeishuInv

LEMMA ServicesStep ==
    ASSUME [ServicesNext]_servicesVars
    PROVE  [PayNext]_payVars /\ [IndexNext]_indexVars /\ [FeishuNext]_feishuVars
  BY DEF ServicesNext, servicesVars

(* The behaviours of the run keep the invariants of the three services.    *)
THEOREM ServicesInvariance == ServicesSpec => []ServicesInv
<1>1. ServicesInit => ServicesInv
  BY PayInitInv, IndexInitInv, FeishuInitInv DEF ServicesInit, ServicesInv
<1>2. ServicesInv /\ [ServicesNext]_servicesVars => ServicesInv'
  BY ServicesStep, PayInvStep, IndexInvStep, FeishuInvStep DEF ServicesInv
<1> QED
  BY <1>1, <1>2, PTL DEF ServicesSpec

(* Every state of the three services is one of their tables' states.       *)
THEOREM ServicesTypeCorrect == ServicesSpec => []ServicesTypeOK
<1>1. ServicesInv => ServicesTypeOK
  BY DEF ServicesInv, PayInv, IndexInv, FeishuInv, ServicesTypeOK
<1> QED
  BY <1>1, ServicesInvariance, PTL
=============================================================================
