--------------------------- MODULE CommandGuards ---------------------------
(***************************************************************************)
(* The checks a command passes before any Modbus frame is sent:            *)
(* RegisterCommandService (raw and named register commands, driven by the  *)
(* register catalog) and CommandService (six semantic operations).  Both   *)
(* are straight-line code with early returns, so each is a sequence of     *)
(* checks of which the first one that applies decides the outcome.         *)
(***************************************************************************)
EXTENDS Integers, Sequences

CONSTANTS HoldingCatalog,   \* documented holding registers: address -> descriptor
          InputCatalog      \* documented input registers:   address -> descriptor

MaxWord == 65535
Word == 0 .. MaxWord        \* std::uint16_t
MaxWords == 24              \* register_command_word_count

Guard == {"read_only", "hot_edit_confirmed", "hot_edit_guarded", "runtime_command",
          "standby_required", "commissioning_only", "service_only",
          "blocked_unvalidated"}
Access == {"unknown", "read_only", "write_only", "read_write"}

(* A descriptor keeps the fields the checks look at; pair says whether the *)
(* cell holds the high or the low word of a 32-bit value.                  *)
Descriptor == [access : Access, guard : Guard, pair : {"none", "high", "low"}]

ASSUME CatalogAssumption ==
  /\ DOMAIN HoldingCatalog \subseteq Word /\ DOMAIN InputCatalog \subseteq Word
  /\ HoldingCatalog \in [DOMAIN HoldingCatalog -> Descriptor]
  /\ InputCatalog \in [DOMAIN InputCatalog -> Descriptor]

OperatingState == {"unknown", "operating", "standby", "stopped", "faulted", "updating"}
Snapshot == [state : OperatingState, fresh : BOOLEAN]

(* Faulty variant: raw 0 decoded to its display name.                      *)
DecodeStateByName(raw) == IF raw = 0 THEN "waiting" ELSE "operating"

(* inverter/production_poller.cpp decode_state: no raw status is decoded   *)
(* as "standby"; 0 ("Waiting") is "stopped".                               *)
DecodeState(raw) ==
  CASE raw = 0                  -> "stopped"
    [] raw \in {1, 2, 5, 6, 7}  -> "operating"
    [] raw = 3                  -> "faulted"
    [] raw = 4                  -> "updating"
    [] OTHER                    -> "unknown"

IsStopped(snap) == snap.fresh /\ snap.state \in {"standby", "stopped"}

-----------------------------------------------------------------------------
GuardOutcome == {"invalid_request", "not_documented", "not_readable", "read_only",
                 "blocked_unvalidated", "confirmation_required",
                 "expected_values_required", "expected_value_mismatch",
                 "state_unavailable", "state_not_allowed",
                 "guarded_interlock_required", "commissioning_interlock_required",
                 "service_interlock_required"}

(* A check is [fails, outcome]; the first one that fails ends the command. *)
Check(fails, outcome) == [fails |-> fails, outcome |-> outcome]

Failing(checks) == {i \in DOMAIN checks : checks[i].fails}

FirstFailure(checks) ==
  IF Failing(checks) = {} THEN "proceed"
  ELSE checks[CHOOSE i \in Failing(checks) :
                 \A j \in Failing(checks) : i <= j].outcome

-----------------------------------------------------------------------------
(*                        RegisterCommandService                           *)

Undocumented == [access |-> "unknown", guard |-> "blocked_unvalidated", pair |-> "none"]

FindRegister(space, a) ==
  LET catalog == IF space = "holding" THEN HoldingCatalog ELSE InputCatalog
  IN  IF a \in DOMAIN catalog THEN catalog[a] ELSE Undocumented

IsDocumented(space, a) ==
  a \in DOMAIN (IF space = "holding" THEN HoldingCatalog ELSE InputCatalog)

Addresses(req) == req.first .. (req.first + req.count - 1)

GuardRank == [hot_edit_confirmed |-> 1, hot_edit_guarded |-> 2, runtime_command |-> 3,
              standby_required |-> 4, commissioning_only |-> 5, service_only |-> 6,
              read_only |-> 0, blocked_unvalidated |-> 0]

GuardsOf(req) == {FindRegister("holding", a).guard : a \in Addresses(req)}

(* The strongest guard stays read_only when every rank is 0.               *)
StrongestGuard(req) ==
  IF \E g \in GuardsOf(req) : GuardRank[g] > 0
  THEN CHOOSE g \in GuardsOf(req) : \A h \in GuardsOf(req) : GuardRank[h] <= GuardRank[g]
  ELSE "read_only"

(* Both words of a 32-bit value must be inside the written block.          *)
PairIsComplete(req, a) ==
  LET pair == FindRegister("holding", a).pair
  IN  /\ pair = "high" => /\ a + 1 \in Addresses(req)
                          /\ FindRegister("holding", a + 1).pair = "low"
      /\ pair = "low"  => /\ a - 1 \in Addresses(req)
                          /\ FindRegister("holding", a - 1).pair = "high"

(* The checks of one cell of the block, in the order of the loop body.     *)
CellRefusal(req, a) ==
  LET d == FindRegister("holding", a)
  IN  FirstFailure(<<
        Check(~IsDocumented("holding", a), "not_documented"),
        Check(d.guard = "blocked_unvalidated", "blocked_unvalidated"),
        Check(d.access \notin {"read_write", "write_only"} \/ d.guard = "read_only",
              "read_only"),
        Check(~PairIsComplete(req, a), "invalid_request"),
        Check(a = 147 /\ req.values[a - req.first + 1] \notin {0, 1, 2, 255},
              "invalid_request") >>)

BlockRefusal(req) ==
  FirstFailure([i \in 1 .. req.count |->
                  LET refusal == CellRefusal(req, req.first + i - 1)
                  IN  Check(refusal # "proceed", refusal)])

IsWriteOnly(req) ==
  \E a \in Addresses(req) : FindRegister("holding", a).access = "write_only"

SwitchesInverterOff(req) == req.first = 0 /\ req.count = 1 /\ req.values[1] = 0

StandbyGuards == {"standby_required", "commissioning_only", "service_only"}

(* execute() before the write/read split.                                  *)
IsWellFormed(req) ==
  req.id # 0 /\ req.count \in 1 .. MaxWords /\ req.first + req.count - 1 <= MaxWord

WriteChecks(req, snap) ==
  LET strongest == StrongestGuard(req)
      runtime   == strongest = "runtime_command"
      off       == SwitchesInverterOff(req)
      cells     == BlockRefusal(req)
  IN <<
       Check(~IsWellFormed(req), "invalid_request"),
       Check(req.space # "holding", "read_only"),
       Check(~req.confirmed, "confirmation_required"),
       Check(cells # "proceed", cells),
       Check(IsWriteOnly(req) /\ req.count # 1, "invalid_request"),
       Check(runtime /\ ~off /\ ~snap.fresh, "state_unavailable"),
       Check(runtime /\ ~off /\ snap.state \in {"faulted", "updating", "unknown"},
             "state_not_allowed"),
       Check(runtime /\ req.first = 0 /\ req.count = 1 /\ req.values[1] > 1,
             "blocked_unvalidated"),
       Check(strongest \in StandbyGuards /\ ~snap.fresh, "state_unavailable"),
       Check(strongest \in StandbyGuards /\ ~IsStopped(snap), "state_not_allowed"),
       Check("hot_edit_guarded" \in GuardsOf(req) /\ ~req.guarded,
             "guarded_interlock_required"),
       Check("commissioning_only" \in GuardsOf(req) /\ ~req.commissioning,
             "commissioning_interlock_required"),
       Check("service_only" \in GuardsOf(req) /\ ~req.service,
             "service_interlock_required"),
       Check(~IsWriteOnly(req) /\ ~req.named /\ ~req.expectedPresent,
             "expected_values_required") >>

WriteRefusal(req, snap) == FirstFailure(WriteChecks(req, snap))

CellUnreadable(req, a) ==
  FirstFailure(<<
    Check(~IsDocumented(req.space, a), "not_documented"),
    Check(FindRegister(req.space, a).access = "write_only", "not_readable") >>)

BlockUnreadable(req) ==
  FirstFailure([i \in 1 .. req.count |->
                  LET refusal == CellUnreadable(req, req.first + i - 1)
                  IN  Check(refusal # "proceed", refusal)])

ReadRefusal(req) ==
  FirstFailure(<< Check(~IsWellFormed(req), "invalid_request"),
                  Check(BlockUnreadable(req) # "proceed", BlockUnreadable(req)) >>)

-----------------------------------------------------------------------------
(*                            CommandService                               *)

Operation == {"set_buzzer_enabled", "set_bluetooth_enabled", "set_inverter_enabled",
              "set_overload_restart_enabled", "set_overload_to_bypass_enabled",
              "set_battery_type"}

OperationRegister ==
  [set_buzzer_enabled |-> 207, set_bluetooth_enabled |-> 231,
   set_inverter_enabled |-> 0, set_overload_restart_enabled |-> 201,
   set_overload_to_bypass_enabled |-> 208, set_battery_type |-> 125]

NotBoolean(req) == Check(req.value \notin {0, 1}, "invalid_request")
NotFresh(snap)   == Check(~snap.fresh, "state_unavailable")
NotStopped(snap) == Check(~IsStopped(snap), "state_not_allowed")

(* The order of the checks differs between the operations: the bypass      *)
(* operation looks at the state before it looks at the value.              *)
SemanticChecks(req, snap) ==
  LET on == req.value = 1
  IN [set_buzzer_enabled    |-> << NotBoolean(req) >>,
      set_bluetooth_enabled |-> << NotBoolean(req) >>,
      set_inverter_enabled  |->
        << NotBoolean(req), Check(on /\ ~snap.fresh, "state_unavailable"),
           Check(on /\ snap.state \in {"faulted", "updating", "unknown"},
                 "state_not_allowed") >>,
      set_overload_restart_enabled   |-> << NotBoolean(req), NotFresh(snap), NotStopped(snap) >>,
      set_overload_to_bypass_enabled |-> << NotFresh(snap), NotStopped(snap), NotBoolean(req) >>,
      set_battery_type |->
        << Check(req.value \notin 0 .. 5, "invalid_request"), NotFresh(snap), NotStopped(snap),
           Check(~req.commissioning, "state_not_allowed") >>]

SemanticRefusal(req, snap) == FirstFailure(SemanticChecks(req, snap)[req.operation])

-----------------------------------------------------------------------------
(* LocalCommandRequest and RegisterCommandRequest.  The values of a        *)
(* register command are the first count words of its array; a semantic     *)
(* command carries an std::int32_t, its snapshot the commissioning flag.   *)
SemanticCommand == [id : Nat, kind : {"semantic"}, operation : Operation,
                    value : Int, commissioning : BOOLEAN]
RegisterCommand == [id : Nat, kind : {"read_registers", "write_registers"},
                    space : {"holding", "input"}, first : Word, count : Word,
                    named : BOOLEAN, confirmed : BOOLEAN, expectedPresent : BOOLEAN,
                    guarded : BOOLEAN, commissioning : BOOLEAN, service : BOOLEAN,
                    values : Seq(Word), expected : Seq(Word)]
RoutedCommand == SemanticCommand \cup {c \in RegisterCommand : Len(c.values) = c.count}

(* The two services behind the inverter task's dispatch on command.kind.   *)
Refusal(cmd, snap) ==
  IF cmd.kind = "semantic" THEN SemanticRefusal(cmd, snap)
  ELSE IF cmd.kind = "write_registers" THEN WriteRefusal(cmd, snap)
  ELSE ReadRefusal(cmd)

(* Is the command one the documentation lets through only while the        *)
(* inverter is verified stopped or in standby?                             *)
NeedsStopped(cmd) ==
  \/ /\ cmd.kind = "semantic"
     /\ cmd.operation \in {"set_overload_restart_enabled", "set_overload_to_bypass_enabled",
                           "set_battery_type"}
  \/ cmd.kind = "write_registers" /\ GuardsOf(cmd) \cap StandbyGuards # {}
=============================================================================
