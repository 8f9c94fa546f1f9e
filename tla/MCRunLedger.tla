----------------------------- MODULE MCRunLedger -----------------------------
(***************************************************************************)
(* What is done once and on record, for TLC: the writes of an agent, the   *)
(* drafts an owner confirms, the scan of a day. They share nothing but the *)
(* database: a behaviour is that of one of them, chosen at the start.      *)
(***************************************************************************)
EXTENDS RunLedger, FollowUps, DailyScan, TLC

VARIABLE ledger

LedgerInit ==
    /\ ledger \in {"journal", "drafts", "scan"}
    /\ Init /\ FollowInit /\ ScanInit

LedgerNext ==
    /\ UNCHANGED ledger
    /\ \/ ledger = "journal" /\ Next /\ UNCHANGED <<followVars, scanVars>>
       \/ ledger = "drafts" /\ FollowNext /\ UNCHANGED <<vars, scanVars>>
       \/ ledger = "scan" /\ ScanNext /\ UNCHANGED <<vars, followVars>>

LedgerSpec == LedgerInit /\ [][LedgerNext]_<<ledger, vars, followVars, scanVars>>

LedgerTypeOK == TypeOK /\ FollowTypeOK /\ ScanTypeOK

Symmetry == Permutations(Writes)
=============================================================================
