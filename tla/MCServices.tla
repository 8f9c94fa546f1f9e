----------------------------- MODULE MCServices -----------------------------
(***************************************************************************)
(* Three services that share nothing but the database, for TLC: a behaviour *)
(* is one of theirs, chosen at the start. The fairness of the others asks  *)
(* nothing of it: in their initial states there is nothing to do until an  *)
(* owner begins.                                                           *)
(***************************************************************************)
EXTENDS VirtualPayments, KnowledgeIngestion, FeishuChannel

VARIABLE part

servicesVars == <<part, payVars, indexVars, feishuVars>>

ServicesInit ==
    /\ part \in {"payments", "knowledge", "feishu"}
    /\ PayInit /\ IndexInit /\ FeishuInit

ServicesNext ==
    /\ UNCHANGED part
    /\ \/ part = "payments" /\ PayNext /\ UNCHANGED <<indexVars, feishuVars>>
       \/ part = "knowledge" /\ IndexNext /\ UNCHANGED <<payVars, feishuVars>>
       \/ part = "feishu" /\ FeishuNext /\ UNCHANGED <<payVars, indexVars>>

ServicesSpec ==
    /\ ServicesInit /\ [][ServicesNext]_servicesVars
    /\ PayFairness /\ IndexFairness /\ FeishuFairness

ServicesTypeOK == PayTypeOK /\ IndexTypeOK /\ FeishuTypeOK
=============================================================================
