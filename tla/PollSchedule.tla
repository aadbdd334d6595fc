---------------------------- MODULE PollSchedule ----------------------------
(***************************************************************************)
(* Which block the production poller reads when.  The inverter loop        *)
(* executes at most one command and then calls ProductionPoller::run_due,  *)
(* which reads the first due request of the plan; both go through the      *)
(* command slot of the Modbus client and keep the loop busy meanwhile.     *)
(* Time is counted in ticks and passes by the length of what the loop did. *)
(***************************************************************************)
EXTENDS PollPlan, FiniteSets

CONSTANTS
  Plan,             \* the poll plan, a sequence of rows
  MaximumRequests,  \* ProductionPoller::maximum_requests
  Interval,         \* cadence_interval_ms of the four periodic cadences, in ticks
  Gap,              \* modbus_minimum_command_gap_ms
  LoopDelay,        \* inverter_loop_delay_ms
  Freshness,        \* inverter_state_freshness_ms
  ResponseTimeout,  \* modbus_response_timeout_ms
  ReplyTimes,       \* from transmission to the end of a transaction
  CommandLengths,   \* transactions a command may take
  Installations,    \* installations considered
  RejectedSets,     \* sets of plan rows an inverter variant rejects
  MaxSessions       \* bound on the USB sessions of a behaviour

Periodic == {"critical", "fast", "normal", "slow"}
Once     == {"boot_once", "setup_once"}

ASSUME ScheduleAssumption ==
  /\ MaximumRequests \in Nat /\ Gap \in Nat /\ LoopDelay \in Nat \ {0}
  /\ Freshness \in Nat /\ ResponseTimeout \in Nat
  /\ ReplyTimes \subseteq 1 .. ResponseTimeout
  /\ CommandLengths \subseteq Nat \ {0} /\ MaxSessions \in Nat \ {0}
  /\ Interval \in [Periodic -> Nat]

ASSUME PlanAssumption ==
  /\ Installations \subseteq Installation
  /\ Plan \in Seq(PollRequest)

(* The scan stops at maximum_requests even when the plan is longer.        *)
Requests == SubSeq(Plan, 1, IF Len(Plan) < MaximumRequests THEN Len(Plan) ELSE MaximumRequests)
Scanned == DOMAIN Requests

VARIABLES
  install,    \* the installation, fixed
  rejected,   \* rows the inverter answers with an exception, fixed
  phase,      \* next in the loop: "command" or "poll"
  ready,      \* telemetry_transport_ready
  age,        \* per periodic row: ticks since last_poll_ms_, capped at its interval
  completed,  \* completed_once_
  slot,       \* ticks since last_command_tick_, capped at Gap
  known,      \* state_updated_ms_ # 0
  stateAge,   \* ticks since state_updated_ms_, capped past Freshness
  others,     \* reads of other rows since the status was read or the setup was done
  quiet,      \* since the status was read no command ran and no status read failed
  sessions    \* USB sessions so far

schedule == <<age, completed, slot, known, stateAge>>
vars == <<install, rejected, phase, ready, schedule, others, quiet, sessions>>

IsPeriodic(i) == Requests[i].cadence \in Periodic
IsStatus(i) == Requests[i].space = "input" /\ Requests[i].first = 0
OthersCap == Len(Requests)

Cap(t, limit) == IF t < limit THEN t ELSE limit

SetupDone == \A i \in Scanned : Requests[i].cadence \in Once => completed[i]
-----------------------------------------------------------------------------
IsDue(i) == CASE Requests[i].cadence \in Once -> ~completed[i]
              [] IsPeriodic(i)            -> age[i] = Interval[Requests[i].cadence]
              [] OTHER                    -> FALSE

EnabledRows == [i \in Installations |-> {r \in Scanned : IsEnabled(Requests[r], i)}]

DueRows == {r \in EnabledRows[install] : IsDue(r)}

FirstOf(rows) == CHOOSE i \in rows : \A j \in rows : i <= j

NextRow == FirstOf(DueRows)

(* wait_for_command_slot, then the transaction itself.                     *)
FirstTransaction(reply) == (Gap - slot) + reply
LaterTransaction(reply) == IF reply < Gap THEN Gap ELSE reply

(* t ticks pass.                                                           *)
Aged(t) == [i \in Scanned |-> IF IsPeriodic(i) THEN Cap(age[i] + t, Interval[Requests[i].cadence])
                              ELSE 0]
StateAged(t) == IF known THEN Cap(stateAge + t, Freshness + 1) ELSE 0

(* ProductionPoller::reset of a poller made for a new session.             *)
NeverPolled == [r \in Scanned |-> IF IsPeriodic(r) THEN Interval[Requests[r].cadence] ELSE 0]
NoneCompleted == [r \in Scanned |-> FALSE]

Init ==
  /\ install \in Installations /\ rejected \in RejectedSets
  /\ ready \in BOOLEAN /\ sessions = 1 /\ phase = "command"
  /\ age = NeverPolled /\ completed = NoneCompleted
  /\ slot = Gap /\ known = FALSE /\ stateAge = 0
  /\ others = 0 /\ quiet = TRUE

(* receive_command and execute: a command of n transactions.               *)
ExecuteCommand(n, reply) ==
  LET t == FirstTransaction(reply) + (n - 1) * LaterTransaction(reply)
  IN  /\ phase = "command"
      /\ phase' = "poll"
      /\ age' = Aged(t) /\ stateAge' = StateAged(t)
      /\ slot' = Cap(reply, Gap)
      /\ quiet' = FALSE
      /\ UNCHANGED <<install, rejected, ready, completed, known, others, sessions>>

NoCommandWaiting ==
  /\ phase = "command"
  /\ phase' = "poll"
  /\ UNCHANGED <<install, rejected, ready, schedule, others, quiet, sessions>>

(* Faulty variant: last_poll_ms_ is stamped only by a successful read.     *)
StampedOnSuccess(row, ok, t) ==
  [Aged(t) EXCEPT ![row] = IF IsPeriodic(row) /\ ok THEN 0 ELSE @]

(* last_poll_ms_ is stamped when the read ends, whether it succeeded or not. *)
Stamped(row, ok, t) == [Aged(t) EXCEPT ![row] = IF IsPeriodic(row) THEN 0 ELSE @]

(* Faulty variant: a setup block is never marked as read.                  *)
CompletedIfPeriodic(row, ok) == [completed EXCEPT ![row] = @ \/ (ok /\ IsPeriodic(row))]

(* Faulty variant: only boot and setup blocks are marked as read.          *)
CompletedIfOnce(row, ok) == [completed EXCEPT ![row] = @ \/ (ok /\ ~IsPeriodic(row))]

(* Faulty variant: a block is given up, and counts as read, when it fails. *)
CompletedAnyway(row, ok) == [completed EXCEPT ![row] = TRUE]

CompletedBy(row, ok) == [completed EXCEPT ![row] = @ \/ ok]

(* run_due and read_request: the first due row is read and stamped; a      *)
(* successful status read refreshes the snapshot (update_state).  A read   *)
(* fails when the inverter rejects the row or the reply window runs out.   *)
ReadDue(reply) ==
  /\ phase = "poll" /\ ready /\ DueRows # {}
  /\ RegisterCount(Requests[NextRow], install) \in 1 .. 125
  /\ LET row       == NextRow
         t         == FirstTransaction(reply)
         ok        == row \notin rejected /\ reply < ResponseTimeout
         refreshed == ok /\ IsStatus(row)
     IN  /\ age' = Stamped(row, ok, t)
         /\ completed' = CompletedBy(row, ok)
         /\ slot' = Cap(reply, Gap)
         /\ known' = (known \/ refreshed)
         /\ stateAge' = IF refreshed THEN 0 ELSE StateAged(t)
         /\ others' = IF IsStatus(row) \/ ~SetupDone THEN 0 ELSE Cap(others + 1, OthersCap)
         /\ quiet' = IF IsStatus(row) THEN ok ELSE quiet
  /\ phase' = "sleep"
  /\ UNCHANGED <<install, rejected, ready, sessions>>

(* Nothing is read: nothing is due, or a member has not learned its        *)
(* coordinator, or the first due block has no registers; read_request then *)
(* returns before it stamps the block.                                     *)
NothingRead ==
  /\ phase = "poll"
  /\ ~ready \/ DueRows = {} \/ RegisterCount(Requests[NextRow], install) \notin 1 .. 125
  /\ phase' = "sleep"
  /\ UNCHANGED <<install, rejected, ready, schedule, others, quiet, sessions>>

Sleep ==
  /\ phase = "sleep"
  /\ phase' = "command"
  /\ age' = Aged(LoopDelay) /\ stateAge' = StateAged(LoopDelay)
  /\ slot' = Cap(slot + LoopDelay, Gap)
  /\ UNCHANGED <<install, rejected, ready, completed, known, others, quiet, sessions>>

(* The adapter is unplugged and found again: a new client and poller.      *)
NewSession ==
  /\ phase = "command" /\ sessions < MaxSessions
  /\ sessions' = sessions + 1
  /\ age' = NeverPolled /\ completed' = NoneCompleted
  /\ slot' = Gap /\ known' = FALSE /\ stateAge' = 0
  /\ others' = 0 /\ quiet' = TRUE
  /\ UNCHANGED <<install, rejected, phase, ready>>

(* The ESP-NOW task learns the coordinator of a member.                    *)
LearnCoordinator ==
  /\ ~ready /\ ready' = TRUE
  /\ UNCHANGED <<install, rejected, phase, schedule, others, quiet, sessions>>

LoopStepWith(replies, lengths) ==
  \/ \E reply \in replies : \/ ReadDue(reply)
                          \/ \E n \in lengths : ExecuteCommand(n, reply)
  \/ NoCommandWaiting \/ NothingRead \/ Sleep

LoopStep == LoopStepWith(ReplyTimes, CommandLengths)

Next == LoopStep \/ NewSession \/ LearnCoordinator

Spec == Init /\ [][Next]_vars

(* The loop is run, and a member is announced to until it is learned.      *)
FairSpec == Spec /\ WF_vars(LoopStep) /\ WF_vars(LearnCoordinator)
-----------------------------------------------------------------------------
(*                  What the times of an instance satisfy                  *)

(* Two reads of other blocks take so long that the status is due again.    *)
TwoReadsLast == \A reply \in ReplyTimes : Interval["critical"] <= Gap + 2 * LoopDelay + reply

(* A loop with the longest command does not make the normal block due.     *)
CommandsShort ==
  /\ LoopDelay < Interval["normal"]
  /\ \A n \in CommandLengths : \A reply \in ReplyTimes : \A s \in 0 .. Gap :
       LoopDelay + ((Gap - s) + reply + (n - 1) * LaterTransaction(reply)) < Interval["normal"]

Longer(a, b) == IF a < b THEN b ELSE a

(* The snapshot outlives a status block that is due just too late for one  *)
(* read, waits for the next one as well, and both are not answered.        *)
LateTurn == Interval["critical"] + Gap + Longer(ResponseTimeout + LoopDelay, Gap)
FreshnessSuffices ==
  LoopDelay < Interval["normal"] /\ LateTurn + ResponseTimeout + LoopDelay <= Freshness
-----------------------------------------------------------------------------
(*                              Properties                                 *)

(* Types, caps, and the poller's two records of a successful status read   *)
(* (state_updated_ms_ and completed_once_) agreeing with each other.       *)
TypeOK ==
  /\ install \in Installations /\ rejected \in RejectedSets
  /\ phase \in {"command", "poll", "sleep"}
  /\ ready \in BOOLEAN /\ known \in BOOLEAN /\ quiet \in BOOLEAN
  /\ completed \in [Scanned -> BOOLEAN]
  /\ age \in [Scanned -> Nat]
  /\ \A i \in Scanned : age[i] <= (IF IsPeriodic(i) THEN Interval[Requests[i].cadence] ELSE 0)
  /\ slot \in 0 .. Gap /\ stateAge \in 0 .. Freshness + 1
  /\ known <=> (\E i \in Scanned : IsStatus(i) /\ completed[i])
  /\ others \in 0 .. OthersCap /\ sessions \in 1 .. MaxSessions

(* A due block always has registers to read: read_request leaves an empty  *)
(* block due, so one that became due would stop the poller for ever.  The  *)
(* features of main.cpp and the sizes of read_request have to agree.       *)
NeverStuckOnEmptyBlock ==
  phase = "poll" /\ DueRows # {} => RegisterCount(Requests[NextRow], install) \in 1 .. 125

(* Once the setup blocks are read, the scan order cannot keep the status   *)
(* block out: at most three other reads come between two status reads,     *)
(* however long commands and answers take and whichever periodic blocks    *)
(* the inverter rejects.                                                   *)
StatusSoonRead == others <= 3

(* Polling alone never makes the snapshot stale: when no command ran and   *)
(* no status read failed since the status was read, a command taken now    *)
(* sees a fresh snapshot, however slowly other blocks answer or fail.      *)
SnapshotStaysFresh ==
  SetupDone /\ phase = "command" /\ quiet /\ known => stateAge <= Freshness

(* The inverter answers a boot or setup block with an exception.           *)
RejectsSetup == \E r \in rejected : r \in Scanned /\ Requests[r].cadence \in Once

(* A snapshot is shown only when the whole setup has been read: while the  *)
(* inverter rejects one of the boot or setup blocks, the status block is   *)
(* never reached, and every guarded command is refused.                    *)
RejectionHidesStatus == RejectsSetup => ~known

(* Every session gets to know the state of an inverter that answers its    *)
(* boot and setup blocks, whichever other blocks it rejects, so that a     *)
(* guarded command is not refused with state_unavailable for ever.         *)
StatusBecomesKnown == ready /\ ~RejectsSetup ~> known

PromisedRows == [i \in Installations |->
  {r \in DOMAIN Plan : Plan[r].cadence \in Periodic /\ IsEnabled(Plan[r], i)}]

(* What the polling table promises: every periodic block of the plan that  *)
(* the installation enables is read at its cadence, hence at all.          *)
EveryBlockPolled ==
  <>(\A r \in PromisedRows[install] : r \in Scanned /\ completed[r])
=============================================================================
