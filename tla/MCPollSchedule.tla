--------------------------- MODULE MCPollSchedule ---------------------------
(***************************************************************************)
(* Instances of PollSchedule for TLC: the firmware's own plan and timing   *)
(* (project_config.hpp) in ticks of 50 ms.                                 *)
(***************************************************************************)
EXTENDS PollSchedule

CadenceInterval == [critical |-> 20, fast |-> 100, normal |-> 600, slow |-> 6000]

(* A heavier load: every fast block is due again after a second.           *)
ShortInterval == [critical |-> 20, fast |-> 20, normal |-> 200, slow |-> 200]

Inverter(pv, battery, generator, phases, parallel) ==
  [pv |-> pv, battery |-> battery, bms |-> battery, generator |-> generator,
   threePhase |-> phases = 3, parallel |-> parallel]

(* A bare inverter, a PV inverter without battery, a usual household, the  *)
(* smallest with the extended PV block, and one with everything.           *)
AllInstallations == {Inverter(0, FALSE, FALSE, 1, FALSE), Inverter(2, FALSE, FALSE, 1, FALSE),
                     Inverter(2, TRUE, FALSE, 1, FALSE), Inverter(3, TRUE, FALSE, 3, FALSE),
                     Inverter(16, TRUE, TRUE, 3, TRUE)}
Household == {Inverter(2, TRUE, FALSE, 1, FALSE)}

(* Row 11 is the source priority, rows 13 and 20 are fast blocks, row 10   *)
(* is the grid-code setup block.                                           *)
Rejections == {{}, {11}, {13, 20}, {10}}
NoneRejected == {{}}

(* A bare inverter that rejects nothing comes under load once its first    *)
(* snapshot is there: commands, and answers that are quick, late or never  *)
(* come.  All others, and its second session, answer every block in 100 ms.*)
Loaded == install = Inverter(0, FALSE, FALSE, 1, FALSE) /\ rejected = {} /\ known /\ sessions = 1

MixedStep == IF Loaded THEN LoopStep ELSE LoopStepWith({2}, {})

MixedSpec ==
  /\ Init /\ [][MixedStep \/ NewSession \/ LearnCoordinator]_vars
  /\ WF_vars(MixedStep) /\ WF_vars(LearnCoordinator)

(* The firmware's times, and the heavier load, are as the theorems need.   *)
ASSUME TimesAreTheFirmwares == TwoReadsLast /\ CommandsShort /\ FreshnessSuffices
=============================================================================
