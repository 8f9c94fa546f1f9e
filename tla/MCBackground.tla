---------------------------- MODULE MCBackground ----------------------------
(***************************************************************************)
(* Background work, for TLC. All of it at once is out of reach: a          *)
(* behaviour is that of a few tasks, or of the timetable, with bounds of   *)
(* its own, chosen at the start.                                           *)
(***************************************************************************)
EXTENDS BackgroundJobs, ScheduledReports, TLC

CONSTANTS plain, render, mornings, evenings

VARIABLE scenario

(* One schedule falls due twice that day, the other once.                  *)
MCTimetable == (mornings :> 2) @@ (evenings :> 1)

Scenarios ==
    { [tasks |-> {plain}, deaths |-> 2, lapses |-> 1, requests |-> 1],
      [tasks |-> {render}, deaths |-> 1, lapses |-> 1, requests |-> 2],
      [tasks |-> {render}, deaths |-> 2, lapses |-> 0, requests |-> 2],
      [tasks |-> {Generation}, deaths |-> 2, lapses |-> 0, requests |-> 1],
      [tasks |-> {Generation, Redownload}, deaths |-> 1, lapses |-> 0, requests |-> 1],
      [tasks |-> {Generation, Redownload}, deaths |-> 2, lapses |-> 0, requests |-> 0],
      [tasks |-> {Video}, deaths |-> 1, lapses |-> 0, requests |-> 2],
      [tasks |-> {Video}, deaths |-> 0, lapses |-> 1, requests |-> 0],
      [tasks |-> {Video, render}, deaths |-> 0, lapses |-> 0, requests |-> 0],
      [tasks |-> {}, deaths |-> 0, lapses |-> 0, requests |-> 0] }

WithinScenario ==
    /\ \A t \in Tasks \ scenario.tasks : row'[t].status = "none" /\ submitting' # t
    /\ Generation \notin scenario.tasks => card' = "none"
    /\ used'.deaths <= scenario.deaths /\ used'.lapses <= scenario.lapses
    /\ used'.requests <= scenario.requests

BackgroundInit == scenario \in Scenarios /\ JobsInit /\ ReportInit

BackgroundNext ==
    /\ UNCHANGED scenario
    /\ \/ JobsNext /\ WithinScenario /\ UNCHANGED reportVars
       \/ scenario.tasks = {} /\ ReportNext /\ UNCHANGED jobsVars

BackgroundSpec == BackgroundInit /\ [][BackgroundNext]_<<scenario, jobsVars, reportVars>>

BackgroundTypeOK == JobsTypeOK /\ ReportTypeOK

Symmetry == Permutations(Workers) \union Permutations(Clips)
=============================================================================
