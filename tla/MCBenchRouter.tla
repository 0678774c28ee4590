---------------------------- MODULE MCBenchRouter ----------------------------
(* Instances of BenchRouter for TLC: job definitions in the order          *)
(* ExpandCellsWithSweeps gives them (builds, models, sweep values,         *)
(* capability cells last for each model).                                  *)
EXTENDS BenchRouter

Perf(m, b, o) == [model |-> m, build |-> b, cap |-> FALSE, ov |-> o]
Eval(m, b) == [model |-> m, build |-> b, cap |-> TRUE, ov |-> NoOv]

Builds12 == {"b1", "b2"}
Models12 == {"m1", "m2"}

(* Two builds, saved config.                                               *)
Plain == <<Perf("m1", "b1", NoOv), Perf("m1", "b2", NoOv), Perf("m2", "b2", NoOv)>>
(* One sweep over two values, two models, then another build.              *)
Swept == <<Perf("m1", "b1", 1), Perf("m1", "b1", 1), Perf("m1", "b1", 2),
           Perf("m2", "b1", 2)>>
(* The same override on two builds.                                        *)
Override == <<Perf("m1", "b1", 1), Perf("m1", "b2", 1)>>
(* Evaluations, alone and after measurements.                              *)
Evals == <<Eval("m1", "b1"), Eval("m2", "b1")>>
MixedOne == <<Perf("m1", "b2", NoOv), Eval("m1", "b2")>>
MixedSwept == <<Perf("m1", "b2", 1), Eval("m1", "b2"), Perf("m2", "b2", 1)>>
(* Both kinds for two models.                                              *)
MixedTwo == <<Perf("m1", "b1", NoOv), Eval("m1", "b1"),
              Perf("m2", "b1", NoOv), Eval("m2", "b1")>>

AllPlans == {Plain, Swept, Override, Evals, MixedOne, MixedSwept, MixedTwo}

AllScenarios ==
    { \* users who start and stop the router, exits, failures
      [plans |-> AllPlans, ops |-> {"start", "stop", "exit", "fail"}],
      \* configs saved at any time
      [plans |-> {Plain, Override, Evals, MixedOne},
       ops |-> {"stop", "edit", "exit", "fail"}],
      \* everything that can cut a job off
      [plans |-> AllPlans, ops |-> {"start", "stop", "cancel", "exit", "slow", "fail"}],
      \* cancels and slow loading, with a router nobody stops
      [plans |-> AllPlans, ops |-> {"start", "cancel", "slow"}],
      \* slow loading alone, and with routers that exit or are stopped
      [plans |-> AllPlans, ops |-> {"start", "slow"}],
      [plans |-> AllPlans, ops |-> {"stop", "exit", "slow", "fail"}],
      \* starts that were admitted before a job was submitted
      [plans |-> AllPlans, ops |-> {"start", "race"}],
      [plans |-> AllPlans, ops |-> {"start", "race", "stop", "fail"}] }

CancelScenario == {[plans |-> {Override}, ops |-> {"cancel"}]}
=============================================================================
