------------------------------ MODULE DailyScan ------------------------------
(***************************************************************************)
(* The daily scan for opportunities. Every API process looks each minute   *)
(* whose scan is due: it records the run under the key of the day, or      *)
(* finds it there, queues it, writes the task's id on it, and moves the    *)
(* owner's next scan to the next day. A worker takes the run up, stores    *)
(* what it finds one by one, and closes it.                                *)
(*                                                                         *)
(* Source: packages/server/src/digital-employee/opportunity-service.ts.    *)
(*                                                                         *)
(* One owner, one day; a manual scan has a run of its own. The queue       *)
(* (TaskQueue) is reduced to jobs of two attempts that are delivered again *)
(* when a worker dies. The model only rewords what was found, or fails and *)
(* is ignored: it is left out, and so is the brief that follows.           *)
(***************************************************************************)
EXTENDS Naturals

CONSTANTS
    Found,           \* the opportunities there are to find
    Tickers, Scanners,
    NoJob,
    MaxJobs,         \* bound: jobs
    ScanAttempts,    \* maxAttempts of the job
    MaxScanFaults    \* bound: failing statements and calls, deaths

ASSUME ScanAssumption ==
    /\ {MaxJobs, MaxScanFaults} \subseteq Nat /\ ScanAttempts \in Nat \ {0}
    /\ NoJob \notin 1 .. MaxJobs

VARIABLES
    scan,         \* the day's row of de_follow_up_suggestion_runs
    due,          \* next_run_at has come
    scanJob,      \* the queue's jobs for it
    ticker, scanner,
    stored,       \* what is in de_follow_up_suggestions
    lost,         \* history: a delivery died with the run, or failed as the last
    scanFaults    \* how much of the bound was used

scanVars == <<scan, due, scanJob, ticker, scanner, stored, lost, scanFaults>>

ScanJobs == 1 .. MaxJobs
IdleScanner == [at |-> "idle", job |-> NoJob, left |-> {}]

ScanInit ==
    /\ scan = [status |-> "none", linked |-> FALSE]
    /\ due = TRUE
    /\ scanJob = [j \in ScanJobs |-> [state |-> "none", attempts |-> 0]]
    /\ ticker = [t \in Tickers |-> "idle"]
    /\ scanner = [k \in Scanners |-> IdleScanner]
    /\ stored = {} /\ lost = FALSE /\ scanFaults = 0

ScanRows == [status : {"none", "pending", "running", "succeeded", "failed"}, linked : BOOLEAN]
ScanJobRecords == [state : {"none", "waiting", "active", "ended"}, attempts : Nat]
TickerPlaces == {"idle", "insert", "read", "enqueue", "link", "giveup", "advance"}
ScannerRecords ==
    [at : {"idle", "claim", "store", "fail"}, job : ScanJobs \union {NoJob}, left : SUBSET Found]

ScanTypeOK ==
    /\ scan \in ScanRows /\ due \in BOOLEAN
    /\ scanJob \in [ScanJobs -> ScanJobRecords]
    /\ ticker \in [Tickers -> TickerPlaces]
    /\ scanner \in [Scanners -> ScannerRecords]
    /\ stored \subseteq Found /\ lost \in BOOLEAN
    /\ scanFaults \in 0 .. MaxScanFaults
-----------------------------------------------------------------------------
ScanFault == scanFaults < MaxScanFaults /\ scanFaults' = scanFaults + 1
TickerGoes(t, place) == ticker' = [ticker EXCEPT ![t] = place]

(* enqueueDueDiscoveries. Whatever throws leaves the scan due.             *)
TickerSees(t) ==
    /\ ticker[t] = "idle" /\ due /\ TickerGoes(t, "insert")
    /\ UNCHANGED <<scan, due, scanJob, scanner, stored, lost, scanFaults>>

(* startOrReuseDiscovery: ON CONFLICT DO NOTHING.                          *)
InsertScan(t) ==
    /\ ticker[t] = "insert"
    /\ IF scan.status = "none"
       THEN scan' = [scan EXCEPT !.status = "pending"] /\ TickerGoes(t, "enqueue")
       ELSE UNCHANGED scan /\ TickerGoes(t, "read")
    /\ UNCHANGED <<due, scanJob, scanner, stored, lost, scanFaults>>

\* mutant: a run that is there needs nothing
ReusedAlways == TRUE
Reused == scan.linked /\ scan.status # "failed"

ReadScan(t) ==
    /\ ticker[t] = "read"
    /\ TickerGoes(t, IF Reused THEN "advance" ELSE "enqueue")
    /\ UNCHANGED <<scan, due, scanJob, scanner, stored, lost, scanFaults>>

(* The job is added; or it is not, or nobody knows.                        *)
EnqueueScan(t) ==
    /\ ticker[t] = "enqueue"
    /\ \E j \in ScanJobs :
         /\ scanJob[j].state = "none" /\ \A i \in ScanJobs : i < j => scanJob[i].state # "none"
         /\ LET added == [scanJob EXCEPT ![j].state = "waiting"] IN
              \/ scanJob' = added /\ TickerGoes(t, "link") /\ UNCHANGED scanFaults
              \/ scanJob' \in {scanJob, added} /\ TickerGoes(t, "giveup") /\ ScanFault
    /\ UNCHANGED <<scan, due, scanner, stored, lost>>

(* The second statement of enqueueDiscovery, whatever the run is by now.   *)
LinkScan(t) ==
    /\ ticker[t] = "link"
    /\ \/ /\ scan' = [status |-> "pending", linked |-> TRUE]
          /\ TickerGoes(t, "advance") /\ UNCHANGED scanFaults
       \/ UNCHANGED scan /\ TickerGoes(t, "giveup") /\ ScanFault
    /\ UNCHANGED <<due, scanJob, scanner, stored, lost>>

(* markDiscoveryEnqueueFailed                                              *)
GiveScanUp(t) ==
    /\ ticker[t] = "giveup"
    /\ scan' = [scan EXCEPT !.status = "failed"] /\ TickerGoes(t, "idle")
    /\ UNCHANGED <<due, scanJob, scanner, stored, lost, scanFaults>>

AdvanceScan(t) ==
    /\ ticker[t] = "advance" /\ due' = FALSE /\ TickerGoes(t, "idle")
    /\ UNCHANGED <<scan, scanJob, scanner, stored, lost, scanFaults>>

(* The process dies, or a statement throws on the way.                     *)
TickerStops(t) ==
    /\ ticker[t] # "idle" /\ ScanFault /\ TickerGoes(t, "idle")
    /\ UNCHANGED <<scan, due, scanJob, scanner, stored, lost>>
-----------------------------------------------------------------------------
(* A worker: runDiscovery.                                                 *)

AtScan(k, place) == scanner[k].at = place
JobOf(k) == scanner[k].job
ScannerRests(k) == scanner' = [scanner EXCEPT ![k] = IdleScanner]
JobEnds(k) == scanJob' = [scanJob EXCEPT ![JobOf(k)].state = "ended"]

PickScan(k, j) ==
    /\ AtScan(k, "idle") /\ scanJob[j].state = "waiting"
    /\ scanJob' = [scanJob EXCEPT ![j] = [state |-> "active", attempts |-> @.attempts + 1]]
    /\ scanner' = [scanner EXCEPT ![k] = [IdleScanner EXCEPT !.at = "claim", !.job = j]]
    /\ UNCHANGED <<scan, due, ticker, stored, lost, scanFaults>>

\* mutant: a run that failed is not taken up again
PendingScan == scan.status = "pending"
(* UPDATE ... WHERE status IN ('pending','failed') *)
Takable == scan.status \in {"pending", "failed"}

ClaimScan(k) ==
    /\ AtScan(k, "claim")
    /\ IF Takable
       THEN /\ scan' = [scan EXCEPT !.status = "running"]
            /\ scanner' = [scanner EXCEPT ![k].at = "store", ![k].left = Found]
            /\ UNCHANGED scanJob
       ELSE ScannerRests(k) /\ JobEnds(k) /\ UNCHANGED scan
    /\ UNCHANGED <<due, ticker, stored, lost, scanFaults>>

(* ON CONFLICT (user_id, dedup_key) DO NOTHING                             *)
StoreOne(k, f) ==
    /\ AtScan(k, "store") /\ f \in scanner[k].left
    /\ stored' = stored \union {f}
    /\ scanner' = [scanner EXCEPT ![k].left = @ \ {f}]
    /\ UNCHANGED <<scan, due, scanJob, ticker, lost, scanFaults>>

FinishScan(k) ==
    /\ AtScan(k, "store") /\ scanner[k].left = {}
    /\ scan' = [scan EXCEPT !.status = "succeeded"]
    /\ ScannerRests(k) /\ JobEnds(k)
    /\ UNCHANGED <<due, ticker, stored, lost, scanFaults>>

(* A statement throws, or the report of progress after the run was closed. *)
ScanThrows(k) ==
    /\ AtScan(k, "store") /\ ScanFault
    /\ scan' \in {scan} \union
         (IF scanner[k].left = {} THEN {[scan EXCEPT !.status = "succeeded"]} ELSE {})
    /\ scanner' = [scanner EXCEPT ![k].at = "fail"]
    /\ UNCHANGED <<due, scanJob, ticker, stored, lost>>

(* The catch; the queue has another attempt, or none.                      *)
FailScan(k) ==
    /\ AtScan(k, "fail")
    /\ scan' = [scan EXCEPT !.status = "failed"]
    /\ IF scanJob[JobOf(k)].attempts < ScanAttempts
       THEN scanJob' = [scanJob EXCEPT ![JobOf(k)].state = "waiting"] /\ UNCHANGED lost
       ELSE JobEnds(k) /\ lost' = TRUE
    /\ ScannerRests(k)
    /\ UNCHANGED <<due, ticker, stored, scanFaults>>

(* The worker dies: the job is delivered again, or has failed. The run it  *)
(* had taken up stays "running", and no delivery takes it up.              *)
ScannerDies(k) ==
    /\ ~AtScan(k, "idle") /\ ScanFault
    /\ \E s \in {"waiting", "ended"} :
         /\ s = "waiting" => scanJob[JobOf(k)].attempts < ScanAttempts
         /\ scanJob' = [scanJob EXCEPT ![JobOf(k)].state = s]
         /\ lost' = (lost \/ s = "ended" \/ ~AtScan(k, "claim"))
    /\ ScannerRests(k)
    /\ UNCHANGED <<scan, due, ticker, stored>>

ScanNext ==
    \/ \E t \in Tickers :
         \/ TickerSees(t) \/ InsertScan(t) \/ ReadScan(t) \/ EnqueueScan(t)
         \/ LinkScan(t) \/ GiveScanUp(t) \/ AdvanceScan(t) \/ TickerStops(t)
    \/ \E k \in Scanners, j \in ScanJobs : PickScan(k, j)
    \/ \E k \in Scanners, f \in Found : StoreOne(k, f)
    \/ \E k \in Scanners : ClaimScan(k) \/ FinishScan(k) \/ ScanThrows(k) \/ FailScan(k)
                           \/ ScannerDies(k)

ScanSpec == ScanInit /\ [][ScanNext]_scanVars
-----------------------------------------------------------------------------
BeingScanned == \E k \in Scanners : scanner[k].at \in {"store", "fail"}

(* A day's scan that is no longer due was done, or somebody will do it: a  *)
(* worker that has taken it up, or a job whose delivery finds the run      *)
(* open. Whatever the tickers of several processes, the late link of a     *)
(* task and the worker that overtook it made of the run; a delivery that   *)
(* died with it, or the last one that failed, aside.                       *)
ScanIsNotForgotten ==
    \/ due \/ lost \/ stored = Found
    \/ BeingScanned
    \/ Takable /\ \E j \in ScanJobs : scanJob[j].state \in {"waiting", "active"}
=============================================================================
