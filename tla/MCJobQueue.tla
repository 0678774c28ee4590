----------------------------- MODULE MCJobQueue -----------------------------
(* The instance of JobQueue for TLC: a behaviour follows one scenario.     *)
EXTENDS JobQueue

CONSTANTS h1, h2

Scenario(ops, js, hs, ms, n) ==
    [ops |-> ops, jobs |-> js, handlers |-> hs, matrices |-> ms, runs |-> n]

BothCells == {{1, 2}}
AllMatrices == {{1}, {1, 2}}

AllScenarios ==
    { \* a performance and a KL cell, two overlapping retries, a crash
      Scenario({"retry", "cancel", "crash"}, {1}, {h1, h2}, BothCells, 3),
      \* two jobs that are edited or deleted, one request at a time
      Scenario({"retry", "edit"}, {1, 2}, {h1}, {{1}}, 2),
      Scenario({"retry", "delete", "cancel"}, {1, 2}, {h1}, {{1}}, 2),
      \* runs deleted under a job, a crash
      Scenario({"deleteRun", "cancel", "crash"}, {1}, {h1}, {{1}}, 2) }

=============================================================================
