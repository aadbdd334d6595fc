------------------------ MODULE CommandGuardsProofs ------------------------
(***************************************************************************)
(* What the checks of CommandGuards guarantee about a command they let     *)
(* through, for every catalog and every request.                           *)
(***************************************************************************)
EXTENDS CommandGuards, TLAPS, WellFoundedInduction

(* A nonempty set of naturals has a smallest element.                      *)
LEMMA SmallestElement ==
  ASSUME NEW T, T \subseteq Nat, T # {}
  PROVE  \E m \in T : \A n \in T : m <= n
<1>1. \E m \in T : \A n \in T : ~ (<<n, m>> \in OpToRel(<, Nat))
  BY NatLessThanWellFounded, WFMin
<1>2. PICK m \in T : \A n \in T : ~ (<<n, m>> \in OpToRel(<, Nat))
  BY <1>1
<1>3. ASSUME NEW n \in T
      PROVE  m <= n
  <2>1. <<n, m>> \in Nat \X Nat
    BY <1>3
  <2>2. ~ (n < m)
    BY <1>2, <1>3, <2>1 DEF OpToRel
  <2> QED BY <1>3, <2>2
<1> QED BY <1>3

(* The outcome of a list of checks is the outcome of one that fails.       *)
LEMMA FirstFailureFails ==
  ASSUME NEW checks, DOMAIN checks \subseteq Nat, Failing(checks) # {}
  PROVE  \E i \in DOMAIN checks : checks[i].fails /\ FirstFailure(checks) = checks[i].outcome
<1> DEFINE First(i) == \A j \in Failing(checks) : i <= j
           m == CHOOSE i \in Failing(checks) : First(i)
<1>1. \E i \in Failing(checks) : First(i)
  BY SmallestElement DEF Failing
<1>2. m \in Failing(checks)
  BY <1>1
<1>3. FirstFailure(checks) = checks[m].outcome
  BY DEF FirstFailure
<1> QED BY <1>2, <1>3 DEF Failing

(* A list of checks that lets the command proceed has no failing check.    *)
LEMMA ProceedMeansNoneFails ==
  ASSUME NEW checks, DOMAIN checks \subseteq Nat,
         \A i \in DOMAIN checks : checks[i].fails => checks[i].outcome # "proceed",
         FirstFailure(checks) = "proceed"
  PROVE  \A i \in DOMAIN checks : ~ checks[i].fails
BY FirstFailureFails DEF Failing

(* Whatever is not "proceed" is the outcome of one of the checks.          *)
LEMMA OutcomeOfFirstFailure ==
  ASSUME NEW checks, NEW S, DOMAIN checks \subseteq Nat,
         \A i \in DOMAIN checks : checks[i].fails => checks[i].outcome \in S
  PROVE  FirstFailure(checks) \in S \cup {"proceed"}
<1>1. CASE Failing(checks) = {}
  BY <1>1 DEF FirstFailure
<1>2. CASE Failing(checks) # {}
  BY <1>2, FirstFailureFails
<1> QED BY <1>1, <1>2

-----------------------------------------------------------------------------
(* The fields of a check.                                                  *)
LEMMA CheckFails ==
  ASSUME NEW P \in BOOLEAN, NEW o
  PROVE  Check(P, o).fails = P /\ Check(P, o).outcome = o
BY DEF Check

(* Every register has a descriptor, documented or not.                     *)
LEMMA RegisterHasDescriptor ==
  ASSUME NEW space, NEW a
  PROVE  FindRegister(space, a) \in Descriptor
BY CatalogAssumption DEF FindRegister, Undocumented, Descriptor, Guard, Access

(* If a block holds a cell that needs standby, so does its strongest guard. *)
LEMMA StrongestGuardNeedsStandby ==
  ASSUME NEW req, GuardsOf(req) \cap StandbyGuards # {}
  PROVE  StrongestGuard(req) \in StandbyGuards
<1> DEFINE G == GuardsOf(req)
           Dominates(g) == \A h \in G : GuardRank[h] <= GuardRank[g]
           m == CHOOSE g \in G : Dominates(g)
<1>1. G \subseteq Guard
  BY RegisterHasDescriptor DEF GuardsOf, Descriptor
<1>2. \A g \in Guard : /\ GuardRank[g] \in 0 .. 6
                       /\ g \in StandbyGuards <=> GuardRank[g] >= 4
  BY DEF Guard, GuardRank, StandbyGuards
<1>3. PICK s \in G : GuardRank[s] >= 4
  BY <1>1, <1>2
<1>4. \E g \in G : Dominates(g)
  <2>1. CASE \E g \in G : GuardRank[g] = 6
    BY <2>1, <1>1, <1>2
  <2>2. CASE ~ (\E g \in G : GuardRank[g] = 6) /\ (\E g \in G : GuardRank[g] = 5)
    BY <2>2, <1>1, <1>2
  <2>3. CASE \A g \in G : GuardRank[g] \notin {5, 6}
    BY <2>3, <1>1, <1>2, <1>3
  <2> QED BY <2>1, <2>2, <2>3
<1>5. m \in G /\ Dominates(m)
  BY <1>4
<1>6. StrongestGuard(req) = m
  BY <1>2, <1>3, <1>1 DEF StrongestGuard
<1> QED BY <1>1, <1>2, <1>3, <1>5, <1>6

-----------------------------------------------------------------------------
(* No check is called "proceed".                                           *)
LEMMA CellRefusalIsRefusal ==
  ASSUME NEW req, NEW a
  PROVE  CellRefusal(req, a) \in GuardOutcome \cup {"proceed"}
<1> DEFINE d == FindRegister("holding", a)
           checks == <<
        Check(~IsDocumented("holding", a), "not_documented"),
        Check(d.guard = "blocked_unvalidated", "blocked_unvalidated"),
        Check(d.access \notin {"read_write", "write_only"} \/ d.guard = "read_only",
              "read_only"),
        Check(~PairIsComplete(req, a), "invalid_request"),
        Check(a = 147 /\ req.values[a - req.first + 1] \notin {0, 1, 2, 255},
              "invalid_request") >>
<1>1. DOMAIN checks = 1 .. 5
  OBVIOUS
<1>2. \A i \in 1 .. 5 : checks[i].outcome \in GuardOutcome
  BY DEF Check, GuardOutcome
<1> HIDE DEF checks
<1>3. FirstFailure(checks) \in GuardOutcome \cup {"proceed"}
  BY <1>1, <1>2, OutcomeOfFirstFailure
<1> QED BY <1>3 DEF CellRefusal, checks

(* The cell loop of execute_write ends with a refusal or passes.           *)
LEMMA BlockRefusalIsRefusal ==
  ASSUME NEW req, req.count \in Nat
  PROVE  BlockRefusal(req) \in GuardOutcome \cup {"proceed"}
<1> DEFINE checks == [i \in 1 .. req.count |->
                  LET refusal == CellRefusal(req, req.first + i - 1)
                  IN  Check(refusal # "proceed", refusal)]
<1>1. \A i \in DOMAIN checks : checks[i].fails => checks[i].outcome \in GuardOutcome
  BY CellRefusalIsRefusal DEF Check
<1>2. DOMAIN checks \subseteq Nat
  OBVIOUS
<1> HIDE DEF checks
<1>3. FirstFailure(checks) \in GuardOutcome \cup {"proceed"}
  BY <1>1, <1>2, OutcomeOfFirstFailure
<1> QED BY <1>3 DEF BlockRefusal, checks

(* A word is a natural number.                                             *)
LEMMA WordIsNatural == \A w \in Word : w \in Nat
BY DEF Word

(* The two shapes of a command.                                            *)
LEMMA CommandShapes ==
  ASSUME NEW cmd \in RoutedCommand
  PROVE  /\ cmd.kind \in {"semantic", "read_registers", "write_registers"}
         /\ cmd.kind = "semantic" =>
              cmd.operation \in Operation /\ cmd.value \in Int
         /\ cmd.kind # "semantic" =>
              /\ cmd.first \in Word /\ cmd.count \in Word /\ cmd.count \in Nat
              /\ cmd.values \in Seq(Word) /\ Len(cmd.values) = cmd.count
<1>1. CASE cmd \in SemanticCommand
  BY <1>1 DEF SemanticCommand
<1>2. CASE cmd \in RegisterCommand /\ Len(cmd.values) = cmd.count
  <2>1. cmd.kind \in {"read_registers", "write_registers"} /\ cmd.first \in Word
    BY <1>2 DEF RegisterCommand
  <2>2. cmd.values \in Seq(Word)
    BY <1>2 DEF RegisterCommand
  <2>3. cmd.count \in Word
    BY <1>2 DEF RegisterCommand
  <2>4. cmd.count \in Nat
    BY <2>3, WordIsNatural
  <2> QED BY <1>2, <2>1, <2>2, <2>3, <2>4
<1> QED BY <1>1, <1>2 DEF RoutedCommand

(* The cell loop of execute_read ends with a refusal or passes.            *)
LEMMA BlockUnreadableIsRefusal ==
  ASSUME NEW req, req.count \in Nat
  PROVE  BlockUnreadable(req) \in GuardOutcome \cup {"proceed"}
<1> DEFINE cell(a) == <<
      Check(~IsDocumented(req.space, a), "not_documented"),
      Check(FindRegister(req.space, a).access = "write_only", "not_readable") >>
           checks == [i \in 1 .. req.count |->
                  LET refusal == CellUnreadable(req, req.first + i - 1)
                  IN  Check(refusal # "proceed", refusal)]
<1>1. ASSUME NEW a
      PROVE  CellUnreadable(req, a) \in GuardOutcome \cup {"proceed"}
  <2>1. DOMAIN cell(a) = 1 .. 2
    OBVIOUS
  <2>2. \A i \in 1 .. 2 : cell(a)[i].outcome \in GuardOutcome
    BY DEF Check, GuardOutcome
  <2> HIDE DEF cell
  <2>3. FirstFailure(cell(a)) \in GuardOutcome \cup {"proceed"}
    BY <2>1, <2>2, OutcomeOfFirstFailure
  <2> QED BY <2>3 DEF CellUnreadable, cell
<1>2. \A i \in DOMAIN checks : checks[i].fails => checks[i].outcome \in GuardOutcome
  BY <1>1 DEF Check
<1>3. DOMAIN checks \subseteq Nat
  OBVIOUS
<1> HIDE DEF checks
<1>4. FirstFailure(checks) \in GuardOutcome \cup {"proceed"}
  BY <1>2, <1>3, OutcomeOfFirstFailure
<1> QED BY <1>4 DEF BlockUnreadable, checks

(* Every check of execute_write names an outcome of its own list.          *)
LEMMA WriteChecksRefuse ==
  ASSUME NEW req, NEW snap, req.count \in Nat
  PROVE  /\ DOMAIN WriteChecks(req, snap) = 1 .. 14
         /\ \A i \in 1 .. 14 : WriteChecks(req, snap)[i].fails =>
                                WriteChecks(req, snap)[i].outcome \in GuardOutcome
<1>1. BlockRefusal(req) # "proceed" => BlockRefusal(req) \in GuardOutcome
  BY BlockRefusalIsRefusal
<1>2. DOMAIN WriteChecks(req, snap) = 1 .. 14
  BY DEF WriteChecks
<1>3. \A i \in (1 .. 14) \ {4} : WriteChecks(req, snap)[i].outcome \in GuardOutcome
  BY DEF WriteChecks, Check, GuardOutcome
<1>4. WriteChecks(req, snap)[4] = Check(BlockRefusal(req) # "proceed", BlockRefusal(req))
  BY DEF WriteChecks
<1>5. WriteChecks(req, snap)[4].fails => WriteChecks(req, snap)[4].outcome \in GuardOutcome
  <2>1. CASE BlockRefusal(req) = "proceed"
    BY <1>4, <2>1, CheckFails
  <2>2. CASE BlockRefusal(req) # "proceed"
    BY <1>1, <1>4, <2>2 DEF Check
  <2> QED BY <2>1, <2>2
<1> QED BY <1>2, <1>3, <1>5

(* Every check of execute_read names an outcome of its own list.           *)
LEMMA ReadChecksRefuse ==
  ASSUME NEW req, req.count \in Nat
  PROVE  /\ ReadRefusal(req) \in GuardOutcome \cup {"proceed"}
         /\ ReadRefusal(req) = "proceed" => IsWellFormed(req)
<1> DEFINE checks == << Check(~IsWellFormed(req), "invalid_request"),
                        Check(BlockUnreadable(req) # "proceed", BlockUnreadable(req)) >>
<1>1. DOMAIN checks = 1 .. 2
  OBVIOUS
<1>0. BlockUnreadable(req) \in GuardOutcome \cup {"proceed"}
  BY BlockUnreadableIsRefusal
<1>a. checks[1].outcome \in GuardOutcome
  BY DEF Check, GuardOutcome
<1>b. checks[2].fails => checks[2].outcome \in GuardOutcome
  BY <1>0 DEF Check
<1>2. \A i \in 1 .. 2 : checks[i].fails => checks[i].outcome \in GuardOutcome
  BY <1>a, <1>b
<1>3. checks[1].fails <=> ~IsWellFormed(req)
  BY DEF Check
<1> HIDE DEF checks
<1>4. FirstFailure(checks) \in GuardOutcome \cup {"proceed"}
  BY <1>1, <1>2, OutcomeOfFirstFailure
<1>5. FirstFailure(checks) = "proceed" => IsWellFormed(req)
  <2>1. "proceed" \notin GuardOutcome
    BY DEF GuardOutcome
  <2> QED BY <2>1, <1>1, <1>2, <1>3, ProceedMeansNoneFails
<1> QED BY <1>4, <1>5 DEF ReadRefusal, checks

(* Every check of the six operations names an outcome of its own list.     *)
LEMMA SemanticChecksRefuse ==
  ASSUME NEW req, NEW snap, req.operation \in Operation
  PROVE  /\ DOMAIN SemanticChecks(req, snap)[req.operation] \subseteq Nat
         /\ \A i \in DOMAIN SemanticChecks(req, snap)[req.operation] :
               SemanticChecks(req, snap)[req.operation][i].outcome \in GuardOutcome
<1> USE DEF SemanticChecks, NotBoolean, NotFresh, NotStopped, Check, GuardOutcome
<1>1. CASE req.operation \in {"set_buzzer_enabled", "set_bluetooth_enabled"}
  BY <1>1
<1>2. CASE req.operation = "set_inverter_enabled"
  BY <1>2
<1>3. CASE req.operation = "set_overload_restart_enabled"
  BY <1>3
<1>4. CASE req.operation = "set_overload_to_bypass_enabled"
  BY <1>4
<1>5. CASE req.operation = "set_battery_type"
  BY <1>5
<1> QED BY <1>1, <1>2, <1>3, <1>4, <1>5 DEF Operation

-----------------------------------------------------------------------------
(* Every refusal is one of the documented guard outcomes.                  *)
THEOREM RefusalIsGuardOutcome ==
  ASSUME NEW cmd \in RoutedCommand, NEW snap
  PROVE  Refusal(cmd, snap) \in GuardOutcome \cup {"proceed"}
<1>1. CASE cmd.kind = "semantic"
  <2>1. cmd.operation \in Operation
    BY <1>1, CommandShapes
  <2>2. SemanticRefusal(cmd, snap) \in GuardOutcome \cup {"proceed"}
    BY <2>1, SemanticChecksRefuse, OutcomeOfFirstFailure DEF SemanticRefusal
  <2> QED BY <1>1, <2>2 DEF Refusal
<1>2. CASE cmd.kind # "semantic"
  <2>1. cmd.count \in Nat /\ cmd.kind \in {"read_registers", "write_registers"}
    BY <1>2, CommandShapes
  <2>2. WriteRefusal(cmd, snap) \in GuardOutcome \cup {"proceed"}
    BY <2>1, WriteChecksRefuse, OutcomeOfFirstFailure DEF WriteRefusal
  <2> QED BY <2>1, <2>2, ReadChecksRefuse DEF Refusal
<1> QED BY <1>1, <1>2

(* A command that passes its checks has the shape the transport needs: a   *)
(* block of 1 to 24 registers inside the address space, or a value that    *)
(* fits a register.                                                        *)
THEOREM AcceptedCommandFits ==
  ASSUME NEW cmd \in RoutedCommand, NEW snap, Refusal(cmd, snap) = "proceed"
  PROVE  IF cmd.kind = "semantic" THEN cmd.value \in 0 .. 5 ELSE IsWellFormed(cmd)
<1>0. "proceed" \notin GuardOutcome
  BY DEF GuardOutcome
<1>1. CASE cmd.kind = "semantic"
  <2>1. cmd.operation \in Operation
    BY <1>1, CommandShapes
  <2>2. \A i \in DOMAIN SemanticChecks(cmd, snap)[cmd.operation] :
             ~ SemanticChecks(cmd, snap)[cmd.operation][i].fails
    BY <1>0, <1>1, <2>1, SemanticChecksRefuse, ProceedMeansNoneFails
    DEF Refusal, SemanticRefusal
  <2>3. SUFFICES cmd.value \in 0 .. 5
    BY <1>1
  <2>4. cmd.value \notin {0, 1} <=> NotBoolean(cmd).fails
    BY CheckFails DEF NotBoolean
  <2>5. CASE cmd.operation # "set_battery_type"
    <3>1. \E i \in DOMAIN SemanticChecks(cmd, snap)[cmd.operation] :
             SemanticChecks(cmd, snap)[cmd.operation][i] = NotBoolean(cmd)
      <4>1. CASE cmd.operation # "set_overload_to_bypass_enabled"
        <5>1. /\ 1 \in DOMAIN SemanticChecks(cmd, snap)[cmd.operation]
              /\ SemanticChecks(cmd, snap)[cmd.operation][1] = NotBoolean(cmd)
          BY <2>1, <2>5, <4>1 DEF SemanticChecks, Operation
        <5> QED BY <5>1
      <4>2. CASE cmd.operation = "set_overload_to_bypass_enabled"
        <5>1. /\ 3 \in DOMAIN SemanticChecks(cmd, snap)[cmd.operation]
              /\ SemanticChecks(cmd, snap)[cmd.operation][3] = NotBoolean(cmd)
          BY <4>2 DEF SemanticChecks
        <5> QED BY <5>1
      <4> QED BY <4>1, <4>2
    <3> QED BY <2>2, <2>4, <3>1
  <2>6. CASE cmd.operation = "set_battery_type"
    <3>1. /\ 1 \in DOMAIN SemanticChecks(cmd, snap)[cmd.operation]
          /\ SemanticChecks(cmd, snap)[cmd.operation][1] =
                Check(cmd.value \notin 0 .. 5, "invalid_request")
      BY <2>6 DEF SemanticChecks
    <3> QED BY <2>2, <3>1, CheckFails
  <2> QED BY <2>5, <2>6
<1>2. CASE cmd.kind # "semantic"
  <2>1. cmd.count \in Nat /\ cmd.kind \in {"read_registers", "write_registers"}
    BY <1>2, CommandShapes
  <2>2. ASSUME cmd.kind = "write_registers"
        PROVE  IsWellFormed(cmd)
    <3>1. ~ WriteChecks(cmd, snap)[1].fails
      BY <1>0, <2>1, <2>2, WriteChecksRefuse, ProceedMeansNoneFails
      DEF Refusal, WriteRefusal
    <3> QED BY <3>1 DEF WriteChecks, Check
  <2> QED BY <1>2, <2>1, <2>2, ReadChecksRefuse DEF Refusal
<1> QED BY <1>1, <1>2

(* A command that touches a standby, commissioning or service register, or *)
(* is a semantic operation of that kind, passes its checks only on a fresh *)
(* snapshot that shows the inverter stopped or in standby.  The block may  *)
(* mix guards: the strongest one decides.                                  *)
THEOREM StandbyCommandNeedsStopped ==
  ASSUME NEW cmd \in RoutedCommand, NEW snap, Refusal(cmd, snap) = "proceed",
         NeedsStopped(cmd)
  PROVE  IsStopped(snap)
<1>0. "proceed" \notin GuardOutcome
  BY DEF GuardOutcome
<1>1. CASE cmd.kind = "semantic"
  <2>1. cmd.operation \in {"set_overload_restart_enabled", "set_overload_to_bypass_enabled",
                           "set_battery_type"}
    BY <1>1 DEF NeedsStopped
  <2>2. \A i \in DOMAIN SemanticChecks(cmd, snap)[cmd.operation] :
             ~ SemanticChecks(cmd, snap)[cmd.operation][i].fails
    BY <1>0, <1>1, <2>1, SemanticChecksRefuse, ProceedMeansNoneFails
    DEF Refusal, SemanticRefusal, Operation
  <2>3. IsStopped(snap) <=> ~NotStopped(snap).fails
    BY CheckFails DEF NotStopped, IsStopped
  <2>4. \E i \in DOMAIN SemanticChecks(cmd, snap)[cmd.operation] :
           SemanticChecks(cmd, snap)[cmd.operation][i] = NotStopped(snap)
    <3>1. CASE cmd.operation # "set_overload_to_bypass_enabled"
      <4>1. /\ 3 \in DOMAIN SemanticChecks(cmd, snap)[cmd.operation]
            /\ SemanticChecks(cmd, snap)[cmd.operation][3] = NotStopped(snap)
        BY <2>1, <3>1 DEF SemanticChecks
      <4> QED BY <4>1
    <3>2. CASE cmd.operation = "set_overload_to_bypass_enabled"
      <4>1. /\ 2 \in DOMAIN SemanticChecks(cmd, snap)[cmd.operation]
            /\ SemanticChecks(cmd, snap)[cmd.operation][2] = NotStopped(snap)
        BY <3>2 DEF SemanticChecks
      <4> QED BY <4>1
    <3> QED BY <3>1, <3>2
  <2> QED BY <2>2, <2>3, <2>4
<1>2. CASE cmd.kind # "semantic"
  <2>1. cmd.count \in Nat /\ cmd.kind = "write_registers"
    BY <1>2, CommandShapes DEF NeedsStopped
  <2>2. StrongestGuard(cmd) \in StandbyGuards
    BY <2>1, StrongestGuardNeedsStandby DEF NeedsStopped
  <2>3. ~ WriteChecks(cmd, snap)[10].fails
    BY <1>0, <2>1, WriteChecksRefuse, ProceedMeansNoneFails DEF Refusal, WriteRefusal
  <2> QED BY <2>2, <2>3 DEF WriteChecks, Check
<1> QED BY <1>1, <1>2
=============================================================================
