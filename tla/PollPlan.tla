----------------------------- MODULE PollPlan -----------------------------
(***************************************************************************)
(* The production poll plan (inverter/polling_plan.cpp), the features an   *)
(* installation enables (main.cpp enabled_features) and the size of the    *)
(* block each request really reads (ProductionPoller::read_request).       *)
(***************************************************************************)
EXTENDS Integers, Sequences

Cadence == {"boot_once", "setup_once", "critical", "fast", "normal", "slow", "on_demand"}
Feature == {"three_phase", "extended_pv", "generator", "battery", "bms", "parallel",
            "service", "pv"}

PollRequest == [space : {"holding", "input"}, first : 0 .. 65535, count : 1 .. 125,
                cadence : Cadence, features : SUBSET Feature]

Row(space, first, count, cadence, features) ==
  [space |-> space, first |-> first, count |-> count, cadence |-> cadence,
   features |-> features]

DefaultPollPlan == <<
  Row("holding", 2, 1, "boot_once", {}), Row("holding", 5, 15, "boot_once", {}),
  Row("holding", 28, 37, "boot_once", {}), Row("holding", 3, 2, "setup_once", {}),
  Row("holding", 20, 8, "setup_once", {}), Row("holding", 68, 28, "setup_once", {}),
  Row("holding", 100, 17, "setup_once", {}), Row("holding", 121, 103, "setup_once", {}),
  Row("holding", 231, 5, "setup_once", {}), Row("holding", 250, 31, "setup_once", {}),
  Row("holding", 182, 1, "normal", {}), Row("input", 0, 40, "critical", {}),
  Row("input", 40, 28, "fast", {}), Row("input", 68, 28, "normal", {"extended_pv"}),
  Row("input", 96, 2, "normal", {"generator"}),
  Row("input", 98, 4, "normal", {"generator", "three_phase"}),
  Row("input", 102, 1, "normal", {"generator"}), Row("input", 106, 3, "normal", {}),
  Row("input", 109, 16, "on_demand", {"service"}),
  Row("input", 125, 8, "fast", {"battery"}),
  Row("input", 133, 38, "fast", {"battery", "bms"}),
  Row("input", 171, 5, "slow", {"battery"}),
  Row("input", 186, 10, "on_demand", {"service"}), Row("input", 250, 2, "fast", {"pv"}),
  Row("input", 252, 32, "fast", {"pv"}), Row("input", 284, 12, "fast", {}),
  Row("input", 314, 2, "fast", {}), Row("input", 320, 2, "fast", {}),
  Row("input", 322, 2, "fast", {}), Row("input", 328, 2, "fast", {}),
  Row("input", 330, 6, "fast", {}), Row("input", 344, 3, "fast", {}),
  Row("input", 347, 2, "fast", {}), Row("input", 349, 4, "fast", {"battery"}),
  Row("input", 353, 2, "fast", {"battery"}), Row("input", 355, 2, "fast", {}),
  Row("input", 357, 2, "normal", {"generator"}),
  Row("input", 359, 4, "normal", {"generator", "three_phase"}),
  Row("input", 363, 2, "normal", {"generator"}),
  Row("input", 365, 4, "normal", {"generator", "three_phase"}),
  Row("input", 375, 8, "slow", {}), Row("input", 383, 8, "slow", {}),
  Row("input", 391, 8, "slow", {}), Row("input", 399, 8, "slow", {}),
  Row("input", 407, 8, "slow", {}), Row("input", 415, 8, "slow", {}),
  Row("input", 423, 8, "slow", {}), Row("input", 450, 49, "fast", {"parallel"}) >>

(* What validate_config lets an installer declare about one inverter.      *)
Installation ==
  {i \in [pv : 0 .. 16, battery : BOOLEAN, bms : BOOLEAN, generator : BOOLEAN,
          threePhase : BOOLEAN, parallel : BOOLEAN] : i.bms => i.battery}

(* Faulty variant: the extended block is enabled with two inputs.          *)
PvFeaturesFromTwo(i) == {f \in {"pv", "extended_pv"} : i.pv >= (IF f = "pv" THEN 1 ELSE 2)}

PvFeatures(i) == {f \in {"pv", "extended_pv"} : i.pv > (IF f = "pv" THEN 0 ELSE 2)}

EnabledFeatures(i) ==
  PvFeatures(i) \cup
  {f \in Feature : \/ f = "battery" /\ i.battery
                   \/ f = "bms" /\ i.battery /\ i.bms
                   \/ f = "generator" /\ i.generator
                   \/ f = "three_phase" /\ i.threePhase
                   \/ f = "parallel" /\ i.parallel}

IsEnabled(row, i) == row.features \subseteq EnabledFeatures(i)

(* Three input blocks are cut to the PV inputs that are connected.         *)
RegisterCount(row, i) ==
  IF row.space = "input" /\ row.first = 40 THEN 24 + 2 * (IF i.pv < 2 THEN i.pv ELSE 2)
  ELSE IF row.space = "input" /\ row.first = 68 THEN IF i.pv > 2 THEN 2 * (i.pv - 2) ELSE 0
  ELSE IF row.space = "input" /\ row.first = 252 THEN 2 * i.pv
  ELSE row.count
=============================================================================
