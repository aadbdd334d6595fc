--------------------------- MODULE MCInverterTask ---------------------------
(***************************************************************************)
(* Instances of InverterTask for TLC.  The catalogs are excerpts of        *)
(* aohai_register_catalog.generated.cpp, the commands are ones the MQTT    *)
(* bridge can build (named, no expected values) plus raw ones with         *)
(* expected values for the comparison path.                                *)
(***************************************************************************)
EXTENDS InverterTask, TLC

Cell(access, guard) == [access |-> access, guard |-> guard, pair |-> "none"]

InputCells == 0 :> Cell("read_only", "read_only")

(* A register command of one cell; o overrides single fields.              *)
Set(a, v) ==
  [id |-> 1, kind |-> "write_registers", space |-> "holding", first |-> a, count |-> 1,
   named |-> TRUE, confirmed |-> TRUE, expectedPresent |-> FALSE, guarded |-> TRUE,
   commissioning |-> TRUE, service |-> TRUE, values |-> <<v>>, expected |-> <<0>>]

Compared(c, before) == [c EXCEPT !.named = FALSE, !.expectedPresent = TRUE,
                                 !.expected = before]
Get(space, a) == [Set(a, 0) EXCEPT !.kind = "read_registers", !.space = space]
Semantic(op, v) == [id |-> 1, kind |-> "semantic", operation |-> op, value |-> v,
                    commissioning |-> TRUE]

StatusBlock == [fn |-> "read_input", first |-> 0, count |-> 40]
SourcePriority == [fn |-> "read_holding", first |-> 182, count |-> 1]

(* Guards and timing: battery type, a block of two standby cells, the      *)
(* write-only factory reset (service), the on/off switch.                  *)
GuardPolls == {StatusBlock}
GuardCells == 125 :> Cell("read_write", "standby_required")
           @@ 126 :> Cell("read_write", "standby_required")
           @@ 65  :> Cell("write_only", "service_only")
GuardCommands == {Semantic("set_battery_type", 1), Set(65, 1),
                  [Set(125, 1) EXCEPT !.count = 2, !.values = <<1, 1>>],
                  [Set(65, 1) EXCEPT !.service = FALSE]}

(* Outcomes of one command after the other, also of frames performed after *)
(* the reply window: a semantic and a raw setter and a read of the feature *)
(* word, the on/off switch, the write-only factory reset.                  *)
OutcomePolls == {StatusBlock}
OutcomeCells == 201 :> Cell("read_write", "hot_edit_guarded")
             @@ 0   :> Cell("read_write", "runtime_command")
             @@ 65  :> Cell("write_only", "service_only")
OutcomeCommands == {Semantic("set_overload_restart_enabled", 1),
                    Compared(Set(201, 1), <<0>>), Get("holding", 201),
                    Semantic("set_inverter_enabled", 0), Set(65, 1)}

(* What the run leaves out: a frame leaves while a late answer is due that *)
(* it would take for its own.  A read of another register of the same size *)
(* is what MCInverterTask_late shows; a write without a pre-read after     *)
(* another write is the condition of TaskImplementsContract.               *)
Mistakable(late) ==
  \/ CurrentRequest.fn = late.fn /\ late.fn \in ReadFunction
       /\ CurrentRequest.count = late.count /\ CurrentRequest.first # late.first
  \/ pc = "write" /\ SkipsPreRead(cmd) /\ late.fn \notin ReadFunction
Unmistakable == ~sent /\ sent' => \A i \in DOMAIN bus : ~Mistakable(bus[i])

(* A late answer of the source-priority poll and the buzzer command.       *)
LatePolls == {StatusBlock, SourcePriority}
LateCells == 182 :> Cell("read_write", "hot_edit_guarded")
          @@ 207 :> Cell("read_write", "hot_edit_confirmed")
LateCommands == {Semantic("set_buzzer_enabled", 1)}
=============================================================================
