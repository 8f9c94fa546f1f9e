------------------------------ MODULE TaskLife ------------------------------
(***************************************************************************)
(* What the owner of a background task may rely on, whatever the queue,    *)
(* its workers and their crashes do: a task has one life, which ends once. *)
(* Only a video the owner asks to continue gets another one, and a task    *)
(* that succeeded never does.                                              *)
(***************************************************************************)
EXTENDS Naturals

CONSTANTS Tasks, Resumable

VARIABLE status

Open == {"pending", "running"}
Ended == {"succeeded", "failed", "cancelled"}

LifeInit == status = [t \in Tasks |-> "none"]

Submitted(t) == status[t] = "none" /\ status' = [status EXCEPT ![t] = "pending"]

Begun(t) == status[t] = "pending" /\ status' = [status EXCEPT ![t] = "running"]

PutBack(t) == status[t] = "running" /\ status' = [status EXCEPT ![t] = "pending"]

EndedAs(t, e) == status[t] \in Open /\ status' = [status EXCEPT ![t] = e]

Reopened(t) ==
    /\ t \in Resumable
    /\ status[t] \in {"failed", "cancelled"}
    /\ status' = [status EXCEPT ![t] = "pending"]

LifeNext == \E t \in Tasks :
    \/ Submitted(t) \/ Begun(t) \/ PutBack(t) \/ Reopened(t)
    \/ \E e \in Ended : EndedAs(t, e)

LifeSpec == LifeInit /\ [][LifeNext]_status
=============================================================================
