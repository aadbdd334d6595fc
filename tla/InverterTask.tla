---------------------------- MODULE InverterTask ----------------------------
(***************************************************************************)
(* The inverter task (main.cpp run_local_inverter): one loop that takes a  *)
(* routed command, executes it through CommandService or                   *)
(* RegisterCommandService, publishes its result, and then lets the         *)
(* production poller make at most one read.  Every access is one Modbus    *)
(* transaction of ModbusRtuClient: wait for the command slot, discard the  *)
(* bytes received so far, transmit, wait for a reply.                      *)
(*                                                                         *)
(* The inverter is a second actor.  It serves frames in order, may refuse, *)
(* adjust, lose or answer them late, starts and stops by itself, and can   *)
(* be reconfigured at its front panel.  The USB adapter may disconnect at  *)
(* any moment.  Time is counted in ticks.                                  *)
(***************************************************************************)
EXTENDS CommandGuards, FiniteSets

CONSTANTS
  Command,       \* the commands the runtime queue may hand over
  PollRead,      \* the poller's reads, the critical status block among them
  StatusPoll,    \* the read of the critical status block, input 0..39
  PanelWord,     \* values a front-panel user may store in a holding register
  InitialWord,   \* values a holding register may hold at power-up
  RawStatus,     \* values of input register 0
  Gap,           \* modbus_minimum_command_gap_ms in ticks
  ReplyWindow,   \* USB transmit time plus modbus_response_timeout_ms in ticks
  Freshness,     \* inverter_state_freshness_ms in ticks
  MaxLate,       \* frames the inverter may still owe when a transaction times out
  MaxCommands    \* bound on the commands of a behaviour

MaxRead == 125       \* registers one frame may ask for

ReadFunction == {"read_holding", "read_input"}
Function == ReadFunction \cup {"write_single", "write_multiple"}

(* A request on the wire; by is the number of the command it belongs to    *)
(* (0 for a poll), which the Modbus frame does not carry.                  *)
Request == [fn : Function, first : Word, count : 1 .. MaxRead, values : Seq(Word), by : Nat]

(* A read reply carries its function, count and data but no address; a     *)
(* write reply echoes the address.  A garbled reply fails its CRC, length  *)
(* or form check.                                                          *)
Reply == [fn : Function, form : {"data", "exception", "garbled"},
          first : Word, count : 0 .. MaxRead, values : Seq(Word)]

ASSUME TimingAssumption ==
  /\ Gap \in Nat /\ ReplyWindow \in Nat /\ Freshness \in Nat
  /\ MaxLate \in Nat /\ MaxCommands \in Nat

ASSUME CommandAssumption == Command \subseteq RoutedCommand

ASSUME PollAssumption ==
  /\ PollRead \subseteq [fn : ReadFunction, first : Word, count : 1 .. MaxRead]
  /\ StatusPoll \in PollRead
  /\ StatusPoll.fn = "read_input" /\ StatusPoll.first = 0
  \* the status block is the only polled input block that starts at 0
  /\ \A p \in PollRead : p.fn = "read_input" /\ p.first = 0 => p = StatusPoll
  /\ PanelWord \subseteq Word /\ InitialWord \subseteq Word /\ RawStatus \subseteq Word

VARIABLES
  pc,         \* what the task is doing, see Step
  sent,       \* the frame of the current transaction has left (else: waiting for the slot)
  cmd,        \* the command being executed, or NoCommand
  poll,       \* the poll read being made
  previous,   \* previous_values of the command
  polled,     \* poller: last decoded state and whether there is one (state_updated_ms_ # 0)
  age,        \* ticks since state_updated_ms_, capped at AgeCap
  slot,       \* ticks since last_command_tick_, capped at SlotCap
  commanded,  \* command_has_been_sent_
  connected,  \* device_disconnected_bit is clear
  bus,        \* requests the inverter has not served yet
  rx,         \* replies on their way to, or in, the receive stream
  holding,    \* the inverter's holding registers
  status,     \* the inverter's input register 0
  log,        \* results published so far, one per command taken
  seen,       \* contents of the command's registers observed since it was taken
  wrote,      \* the current command has put a write frame on the wire
  applied     \* numbers of the commands whose write the inverter performed

control == <<pc, sent, cmd, poll, previous, polled>>
clock   == <<age, slot>>
link    == <<commanded, connected, bus, rx>>
plant   == <<holding, status>>
history == <<log, seen, wrote, applied>>
vars    == <<control, clock, link, plant, history>>

NoCommand == [kind |-> "none"]
NoPoll    == [fn |-> "none"]

CommandStep == {"read", "previous", "write", "readback", "status"}
BusStep     == CommandStep \cup {"poll"}
Step        == BusStep \cup {"loop", "polling", "down"}

Larger(m, n) == IF m >= n THEN m ELSE n
SlotCap == Larger(Gap, ReplyWindow)
EvidenceBound == Freshness + Gap + SlotCap
AgeCap  == EvidenceBound + 1

Outcome == GuardOutcome \cup {"communication_error", "rejected", "confirmed", "adjusted",
                              "sent_unverifiable", "transition_pending", "completed",
                              "unknown"}

(* Number of the command in hand.                                          *)
Serial == Len(log) + 1

-----------------------------------------------------------------------------
(* The registers a command reads and writes, and the words it writes.      *)
Target(c) == IF c.kind = "semantic" THEN [first |-> OperationRegister[c.operation], count |-> 1]
             ELSE [first |-> c.first, count |-> c.count]

Block(registers, first, count) ==
  [i \in 1 .. count |-> IF first + i - 1 \in DOMAIN registers
                        THEN registers[first + i - 1] ELSE 0]

Contents(c, registers) == Block(registers, Target(c).first, Target(c).count)

(* execute_feature_bit: bit 1 of the word, the other bits as they were read. *)
WithFeatureBit(word, value) ==
  LET others == word - 2 * ((word \div 2) % 2)
  IN  IF value = 1 THEN others + 2 ELSE others

IsFeatureBit(c) == c.kind = "semantic" /\ c.operation = "set_overload_restart_enabled"

(* Faulty variant: the whole feature word is overwritten.                  *)
RequestedWholeWord(c, before) ==
  IF c.kind # "semantic" THEN c.values ELSE IF IsFeatureBit(c) THEN <<2 * c.value>> ELSE <<c.value>>

Requested(c, before) ==
  IF c.kind # "semantic" THEN c.values
  ELSE IF IsFeatureBit(c) THEN <<WithFeatureBit(before[1], c.value)>>
  ELSE <<c.value>>

(* RegisterCommandService sends H65 and H66 without a pre-read.            *)
SkipsPreRead(c) == c.kind = "write_registers" /\ IsWriteOnly(c)

ReadOf(c) == [fn |-> IF c.kind = "read_registers" /\ c.space = "input"
                     THEN "read_input" ELSE "read_holding",
              first |-> Target(c).first, count |-> Target(c).count,
              values |-> <<>>, by |-> Serial]

WriteOf(c) == [fn |-> IF Target(c).count = 1 THEN "write_single" ELSE "write_multiple",
               first |-> Target(c).first, count |-> Target(c).count,
               values |-> Requested(c, previous), by |-> Serial]

(* The frame of the transaction the task is in.                            *)
CurrentRequest ==
  CASE pc = "poll"   -> [fn |-> poll.fn, first |-> poll.first, count |-> poll.count,
                         values |-> <<>>, by |-> 0]
    [] pc = "write"  -> WriteOf(cmd)
    [] pc = "status" -> [fn |-> "read_input", first |-> 0, count |-> 1,
                         values |-> <<>>, by |-> Serial]
    [] OTHER         -> ReadOf(cmd)

-----------------------------------------------------------------------------
(* Faulty variant: a state once decoded counts as fresh for ever.          *)
SnapshotWithoutAge == [state |-> IF polled.known THEN polled.state ELSE "unknown",
                       fresh |-> polled.known]

(* ProductionPoller::state().                                              *)
CurrentSnapshot == [state |-> IF polled.known THEN polled.state ELSE "unknown",
                    fresh |-> polled.known /\ age <= Freshness]

(* runtime.on_command_result(routed_result): every command taken ends here. *)
PublishResult(kind, outcome) ==
  /\ log' = Append(log, [kind |-> kind, outcome |-> outcome])
  /\ pc' = "polling"
  /\ cmd' = NoCommand
  /\ previous' = <<>>
  /\ seen' = {}
  /\ wrote' = FALSE
  /\ UNCHANGED <<poll, polled, age>>

Publish(outcome) == PublishResult(cmd.kind, outcome)

(* The next transaction of the command begins: wait for the slot.          *)
Proceed(step) ==
  /\ pc' = step
  /\ UNCHANGED <<cmd, poll, polled, age, log, seen, wrote>>

-----------------------------------------------------------------------------
(* What the services and the poller do with the end of a transaction.      *)
(* a.status is the ModbusWriteStatus; a read has no other failure value.   *)
Answer(st, values) == [status |-> st, values |-> values]
Ok(a) == a.status = "success"

ReadDone(a) ==
  /\ pc = "read"
  /\ Publish(IF Ok(a) THEN "confirmed" ELSE "communication_error")

(* After the pre-read (write_and_verify is only reached when the value     *)
(* differs from the requested one).                                        *)
PreviousDone(a) ==
  /\ pc = "previous"
  /\ LET requested == Requested(cmd, a.values)
         expected  == cmd.kind = "write_registers" /\ cmd.expectedPresent
     IN  \/ /\ ~Ok(a)
            /\ Publish("communication_error")
         \/ /\ Ok(a) /\ expected /\ a.values # cmd.expected
            /\ Publish("expected_value_mismatch")
         \/ /\ Ok(a) /\ (expected => a.values = cmd.expected) /\ a.values = requested
            /\ IF cmd.kind = "semantic" /\ cmd.operation = "set_inverter_enabled"
               THEN Proceed("status") /\ previous' = a.values
               ELSE Publish("confirmed")
         \/ /\ Ok(a) /\ (expected => a.values = cmd.expected) /\ a.values # requested
            /\ previous' = a.values
            /\ Proceed("write")

(* Faulty variant: a write without an answer is reported as refused.       *)
WriteFailureAsRejected(c, st) ==
  IF c.kind = "write_registers" THEN "communication_error" ELSE "rejected"

(* A failed write ends the command.  CommandService tells a refusal from a *)
(* lost answer, RegisterCommandService reports communication_error.        *)
WriteFailure(c, st) ==
  IF c.kind = "write_registers" THEN "communication_error"
  ELSE IF st \in {"exception_response", "echo_mismatch"} THEN "rejected"
  ELSE IF st \in {"transmit_failed", "invalid_argument"} THEN "communication_error"
  ELSE "unknown"

(* Faulty variant: a write-only action needs no answer.                    *)
WriteDoneUnheard(a) ==
  /\ pc = "write"
  /\ \/ SkipsPreRead(cmd) /\ Publish("sent_unverifiable")
     \/ ~Ok(a) /\ ~SkipsPreRead(cmd) /\ Publish(WriteFailure(cmd, a.status))
     \/ Ok(a) /\ ~SkipsPreRead(cmd) /\ Proceed("readback") /\ UNCHANGED previous

WriteDone(a) ==
  /\ pc = "write"
  /\ \/ ~Ok(a) /\ Publish(WriteFailure(cmd, a.status))
     \/ Ok(a) /\ SkipsPreRead(cmd) /\ Publish("sent_unverifiable")
     \/ Ok(a) /\ ~SkipsPreRead(cmd) /\ Proceed("readback") /\ UNCHANGED previous

(* Faulty variant: the read-back is made but not compared.                 *)
ReadbackUncompared(a) ==
  /\ pc = "readback"
  /\ Publish(IF Ok(a) THEN "confirmed" ELSE "unknown")

ReadbackDone(a) ==
  /\ pc = "readback"
  /\ LET requested == Requested(cmd, previous)
         semantic  == cmd.kind = "semantic"
     IN  \/ /\ ~Ok(a)
            /\ Publish(IF semantic THEN "unknown" ELSE "communication_error")
         \/ /\ Ok(a) /\ a.values # requested
            /\ Publish(IF semantic THEN "adjusted" ELSE "communication_error")
         \/ /\ Ok(a) /\ a.values = requested
            /\ IF semantic /\ cmd.operation = "set_inverter_enabled"
               THEN Proceed("status") /\ UNCHANGED previous
               ELSE Publish("confirmed")

(* execute_inverter_enabled reads input 0 once after the switch is confirmed. *)
StatusDone(a) ==
  /\ pc = "status"
  /\ LET stopped == cmd.value = 0 /\ a.values = <<0>>
         active  == cmd.value = 1 /\ DecodeState(a.values[1]) = "operating"
     IN  Publish(IF Ok(a) /\ (stopped \/ active) THEN "completed" ELSE "transition_pending")

(* read_request and update_state: only the status block moves the state.   *)
PollDone(a) ==
  /\ pc = "poll"
  /\ pc' = "loop"
  /\ poll' = NoPoll
  /\ IF Ok(a) /\ poll = StatusPoll
     THEN /\ polled' = [known |-> TRUE, state |-> DecodeState(a.values[1])]
          /\ age' = 0
     ELSE UNCHANGED <<polled, age>>
  /\ UNCHANGED <<cmd, previous, log, seen, wrote>>

Concluded(a) ==
  \/ ReadDone(a) \/ PreviousDone(a) \/ WriteDone(a)
  \/ ReadbackDone(a) \/ StatusDone(a) \/ PollDone(a)

-----------------------------------------------------------------------------
(*                          ModbusRtuClient                                *)

(* wait_for_command_slot: the gap is measured from the previous command.   *)
SlotOpen == ~commanded \/ slot >= Gap

(* The stream buffer is emptied before every transmission.  What arrives   *)
(* later than that is taken for the answer.                                *)
SendFrame ==
  /\ pc \in BusStep /\ ~sent /\ SlotOpen /\ connected
  /\ bus' = Append(bus, CurrentRequest)
  /\ rx' = <<>>
  /\ sent' = TRUE
  /\ slot' = 0
  /\ commanded' = TRUE
  /\ wrote' = (wrote \/ pc = "write")
  /\ UNCHANGED <<pc, cmd, poll, previous, polled, age, connected, plant, log, seen, applied>>

(* usb_rs485.cpp reports a failed transmission; such a frame is taken not  *)
(* to have reached the inverter.                                           *)
SendFails ==
  /\ pc \in BusStep /\ ~sent /\ SlotOpen
  /\ rx' = <<>>
  /\ slot' = 0
  /\ commanded' = TRUE
  /\ Concluded(Answer("transmit_failed", <<>>))
  /\ UNCHANGED <<sent, connected, bus, plant, applied>>

Echoes(req, r) == /\ r.first = req.first
                  /\ IF req.fn = "write_single" THEN r.values = req.values
                     ELSE r.count = req.count

Judge(req, r) ==
  CASE r.form = "exception" -> Answer("exception_response", <<>>)
    [] r.form = "garbled"   -> Answer("crc_error", <<>>)
    [] OTHER ->
         IF req.fn \in ReadFunction
         THEN IF r.count = req.count THEN Answer("success", r.values)
              ELSE Answer("malformed_response", <<>>)
         ELSE IF Echoes(req, r) THEN Answer("success", <<>>) ELSE Answer("echo_mismatch", <<>>)

(* A frame of the expected function is the answer, whichever request it    *)
(* was sent for; other frames are skipped as noise.                        *)
AcceptReply ==
  /\ pc \in BusStep /\ sent /\ connected
  /\ rx # <<>> /\ Head(rx).fn = CurrentRequest.fn
  /\ Concluded(Judge(CurrentRequest, Head(rx)))
  /\ rx' = Tail(rx)
  /\ sent' = FALSE
  /\ UNCHANGED <<slot, commanded, connected, bus, plant, applied>>

SkipReply ==
  /\ pc \in BusStep /\ sent /\ connected
  /\ rx # <<>> /\ Head(rx).fn # CurrentRequest.fn
  /\ rx' = Tail(rx)
  /\ UNCHANGED <<control, clock, commanded, connected, bus, plant, history>>

(* Faulty variant: no deadline while the echo of a write is awaited.       *)
TimeOutOfReads ==
  /\ pc \in BusStep \ {"write"} /\ sent
  /\ slot = ReplyWindow /\ rx = <<>> /\ Len(bus) <= MaxLate
  /\ Concluded(Answer("timeout", <<>>))
  /\ sent' = FALSE
  /\ UNCHANGED <<slot, link, plant, applied>>

(* A task blocked on the stream buffer notices neither a disconnect nor    *)
(* anything else before the deadline.  MaxLate bounds what the inverter    *)
(* may still owe at that moment.                                           *)
TimeOut ==
  /\ pc \in BusStep /\ sent
  /\ slot = ReplyWindow /\ rx = <<>> /\ Len(bus) <= MaxLate
  /\ Concluded(Answer("timeout", <<>>))
  /\ sent' = FALSE
  /\ UNCHANGED <<slot, link, plant, applied>>

NoticeDisconnect ==
  /\ pc \in BusStep /\ sent /\ ~connected
  /\ Concluded(Answer("disconnected", <<>>))
  /\ sent' = FALSE
  /\ UNCHANGED <<slot, link, plant, applied>>

-----------------------------------------------------------------------------
(*                     run_local_inverter: the loop                        *)

FirstStep(c) == IF c.kind = "read_registers" THEN "read"
                ELSE IF SkipsPreRead(c) THEN "write" ELSE "previous"

(* receive_command, poller.state(), execute: refused here or started here. *)
TakeCommand(c) ==
  /\ pc = "loop" /\ connected /\ Len(log) < MaxCommands
  /\ LET refusal == Refusal(c, CurrentSnapshot)
     IN  \/ /\ refusal # "proceed"
            /\ PublishResult(c.kind, refusal)
         \/ /\ refusal = "proceed"
            /\ pc' = FirstStep(c)
            /\ cmd' = c
            /\ seen' = {Contents(c, holding)}
            /\ UNCHANGED <<poll, previous, polled, age, log, wrote>>
  /\ UNCHANGED <<sent, slot, link, plant, applied>>

NoCommandWaiting ==
  /\ pc = "loop" /\ connected
  /\ pc' = "polling"
  /\ UNCHANGED <<sent, cmd, poll, previous, polled, clock, link, plant, history>>

(* run_due: at most one read per iteration; which one is due is left open. *)
StartPoll(p) ==
  /\ pc = "polling"
  /\ pc' = "poll"
  /\ poll' = p
  /\ UNCHANGED <<sent, cmd, previous, polled, clock, link, plant, history>>

NothingDue ==
  /\ pc = "polling"
  /\ pc' = "loop"
  /\ UNCHANGED <<sent, cmd, poll, previous, polled, clock, link, plant, history>>

EndSession ==
  /\ pc = "loop" /\ ~connected
  /\ pc' = "down"
  /\ UNCHANGED <<sent, cmd, poll, previous, polled, clock, link, plant, history>>

(* A new session has a new ModbusRtuClient and a new ProductionPoller.     *)
BeginSession ==
  /\ pc = "down"
  /\ pc' = "loop"
  /\ connected' = TRUE /\ commanded' = FALSE
  /\ bus' = <<>> /\ rx' = <<>>
  /\ polled' = [known |-> FALSE, state |-> "unknown"]
  /\ age' = 0 /\ slot' = 0
  /\ UNCHANGED <<sent, cmd, poll, previous, plant, history>>

-----------------------------------------------------------------------------
(*                    The inverter, the adapter, time                      *)

(* A read is answered with what the registers hold; a write repeats its    *)
(* request, also when the inverter stored another word, as Modbus demands: *)
(* an inverter that echoed the stored word would be reported as having     *)
(* rejected a write that it performed.                                     *)
Answered(req, form) ==
  rx' = Append(rx, [fn |-> req.fn, form |-> form, first |-> req.first, count |-> req.count,
                    values |-> CASE form # "data"              -> <<>>
                                 [] req.fn = "read_holding"    -> Block(holding, req.first, req.count)
                                 [] req.fn = "read_input"      -> IF req.first = 0 THEN <<status>> ELSE <<0>>
                                 [] req.fn = "write_single"    -> req.values
                                 [] req.fn = "write_multiple"  -> <<>>])

ServeRead ==
  /\ bus # <<>> /\ Head(bus).fn \in ReadFunction
  /\ \E form \in {"data", "exception", "garbled"} : Answered(Head(bus), form)
  /\ bus' = Tail(bus)
  /\ UNCHANGED <<control, clock, commanded, connected, plant, history>>

NoteContents == seen' = IF cmd = NoCommand THEN seen ELSE seen \cup {Contents(cmd, holding')}

(* A write is performed as asked or with adjusted words; the answer may be *)
(* garbled or lost on the way back.                                        *)
ServeWrite ==
  /\ bus # <<>> /\ Head(bus).fn \notin ReadFunction
  /\ LET req == Head(bus)
     IN  /\ \E words \in {req.values} \cup [1 .. req.count -> PanelWord] :
              holding' = [a \in DOMAIN holding |->
                            IF a \in req.first .. (req.first + req.count - 1)
                            THEN words[a - req.first + 1] ELSE holding[a]]
         /\ applied' = applied \cup {req.by}
         /\ \/ \E form \in {"data", "garbled"} : Answered(req, form)
            \/ UNCHANGED rx
  /\ bus' = Tail(bus)
  /\ NoteContents
  /\ UNCHANGED <<control, clock, commanded, connected, status, log, wrote>>

RefuseWrite ==
  /\ bus # <<>> /\ Head(bus).fn \notin ReadFunction
  /\ Answered(Head(bus), "exception")
  /\ bus' = Tail(bus)
  /\ UNCHANGED <<control, clock, commanded, connected, plant, history>>

LoseFrame ==
  /\ bus # <<>>
  /\ bus' = Tail(bus)
  /\ UNCHANGED <<control, clock, commanded, connected, rx, plant, history>>

ChangeStatus ==
  /\ status' \in RawStatus
  /\ UNCHANGED <<control, clock, link, holding, history>>

FrontPanel ==
  /\ \E a \in DOMAIN holding, w \in PanelWord : holding' = [holding EXCEPT ![a] = w]
  /\ NoteContents
  /\ UNCHANGED <<control, clock, link, status, log, wrote, applied>>

Disconnect ==
  /\ connected
  /\ connected' = FALSE
  /\ bus' = <<>> /\ rx' = <<>>
  /\ UNCHANGED <<control, clock, commanded, plant, history>>

(* Time passes while the task sleeps: between two iterations, until the    *)
(* slot opens, until the answer or the end of the reply window.            *)
Tick ==
  /\ \/ pc \in {"loop", "down"}
     \/ pc \in BusStep /\ ~sent /\ ~SlotOpen
     \/ pc \in BusStep /\ sent /\ slot < ReplyWindow
  /\ age' = IF polled.known /\ age < AgeCap THEN age + 1 ELSE age
  /\ slot' = IF slot < SlotCap THEN slot + 1 ELSE slot
  /\ UNCHANGED <<control, link, plant, history>>

-----------------------------------------------------------------------------
Init ==
  /\ pc = "loop" /\ sent = FALSE
  /\ cmd = NoCommand /\ poll = NoPoll /\ previous = <<>>
  /\ polled = [known |-> FALSE, state |-> "unknown"]
  /\ age = 0 /\ slot = 0
  /\ commanded = FALSE /\ connected = TRUE /\ bus = <<>> /\ rx = <<>>
  /\ holding \in [DOMAIN HoldingCatalog -> InitialWord]
  /\ status \in RawStatus
  /\ log = <<>> /\ seen = {} /\ wrote = FALSE /\ applied = {}

TaskStep ==
  \/ SendFrame \/ SendFails \/ AcceptReply \/ SkipReply \/ TimeOut \/ NoticeDisconnect
  \/ (\E c \in Command : TakeCommand(c)) \/ NoCommandWaiting
  \/ (\E p \in PollRead : StartPoll(p)) \/ NothingDue
  \/ EndSession \/ BeginSession

InverterStep == ServeRead \/ ServeWrite \/ RefuseWrite \/ LoseFrame

Next == TaskStep \/ InverterStep \/ ChangeStatus \/ FrontPanel \/ Disconnect \/ Tick

Spec == Init /\ [][Next]_vars

(* The scheduler runs the task, time passes, and the inverter does not     *)
(* keep a frame for ever.                                                  *)
FairSpec == Spec /\ WF_vars(TaskStep) /\ WF_vars(InverterStep) /\ WF_vars(Tick)
-----------------------------------------------------------------------------
(*                              Properties                                 *)

Result == [kind : {"semantic", "write_registers", "read_registers"}, outcome : Outcome]

(* Every variable keeps its type; the queues hold frames of the protocol   *)
(* and the command in hand is one the runtime accepts.                     *)
TypeOK ==
  /\ pc \in Step /\ sent \in BOOLEAN
  /\ cmd \in Command \cup {NoCommand} /\ poll \in PollRead \cup {NoPoll}
  /\ previous \in Seq(Word)
  /\ polled \in [known : BOOLEAN, state : OperatingState]
  /\ age \in 0 .. AgeCap /\ slot \in 0 .. SlotCap
  /\ commanded \in BOOLEAN /\ connected \in BOOLEAN
  /\ bus \in Seq(Request) /\ rx \in Seq(Reply)
  /\ holding \in [DOMAIN HoldingCatalog -> Word] /\ status \in Word
  /\ log \in Seq(Result) /\ seen \subseteq Seq(Word)
  /\ wrote \in BOOLEAN /\ applied \subseteq Nat

(* The write frame of the current command is transmitted.                  *)
WriteLeaves == pc = "write" /\ ~sent /\ sent'

(* A write that the documentation allows only on a stopped inverter leaves *)
(* the gateway only if the last status the poller decoded said stopped (or *)
(* standby), and that status is never older than the freshness limit plus  *)
(* the time the pre-read and two command slots can take.                   *)
StandbyWriteEvidence ==
  [][WriteLeaves /\ NeedsStopped(cmd) =>
       /\ polled.known /\ polled.state \in {"standby", "stopped"}
       /\ age <= EvidenceBound]_vars

(* A refusal, a "rejected" or a semantic "communication_error" is final:   *)
(* the inverter never performs the write of such a command, neither before *)
(* the result is published nor, through a frame still under way, after it. *)
RefusedNeverWritten ==
  \A n \in DOMAIN log :
    \/ log[n].outcome \in GuardOutcome \cup {"rejected"}
    \/ log[n].kind = "semantic" /\ log[n].outcome = "communication_error"
    => n \notin applied

Fulfils(c, words) ==
  IF IsFeatureBit(c) THEN words = <<WithFeatureBit(words[1], c.value)>>
  ELSE words = Requested(c, words)

Confirms ==
  /\ cmd # NoCommand /\ cmd.kind # "read_registers"
  /\ Len(log') > Len(log) /\ log'[Len(log')].outcome \in {"confirmed", "completed"}

(* A setter reported as confirmed or completed: the inverter's registers   *)
(* really held the requested value at some moment between the command      *)
(* being taken and its result, whatever the front panel did meanwhile.     *)
ConfirmedWasSeen == [][Confirms => \E words \in seen : Fulfils(cmd, words)]_vars

(* The read-modify-write of the feature word (H201) writes back bits that  *)
(* H201 really held while the command ran, with only bit 1 changed.        *)
FeatureBitIsolated ==
  [][WriteLeaves /\ IsFeatureBit(cmd) =>
       \E words \in seen : WriteOf(cmd).values = <<WithFeatureBit(words[1], cmd.value)>>]_vars

(* The task implements the contract its clients rely on: whatever the      *)
(* inverter, the adapter and the front panel do, the outcome published for *)
(* a command is compatible with whether its write was performed, and a     *)
(* write takes effect after its result only when that result said unknown  *)
(* (communication_error for a register command).                           *)
Contract ==
  INSTANCE CommandContract
    WITH busy <- cmd # NoCommand, log <- log, applied <- applied,
         Kind <- {"semantic", "write_registers", "read_registers"},
         Refused <- GuardOutcome \cup {"rejected"},
         Performed <- {"sent_unverifiable", "adjusted"},
         Open <- {"confirmed", "completed", "transition_pending", "unknown",
                  "communication_error"},
         Unsettled <- {"unknown", "communication_error"}
ContractSpec == Contract!Spec

(* Every command that is started is answered: neither a silent inverter,   *)
(* an unplugged adapter nor a stream of foreign frames can hold it up.     *)
CommandAnswered == (cmd # NoCommand) ~> (cmd = NoCommand)
=============================================================================
