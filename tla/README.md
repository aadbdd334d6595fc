# Formal model of the inverter gateway firmware

TLA+ modules, TLC configurations and TLAPS proofs for the ESP32 firmware under
`src/main/`.  Section 1 is the inventory of the system, section 2 the modules
and their relation to the code, section 3 the model-checking runs, section 4
the proofs, section 5 what disagreed, section 6 what is left out, section 7
the plan.  `PROJECT.json` gives the lines each definition stands for.

Paths are relative to the repository; `inverter/…`, `network/…`, `protocol/…`,
`transport/…` and `app/…` stand for `src/main/src/…`.

## 1. The system

An ESP32 is plugged into an Aohai inverter by USB-RS485, polls it over Modbus
RTU, publishes telemetry to MQTT and executes commands from MQTT.  One image
runs in five roles: *standalone* (MQTT and one inverter), *coordinator* (inverter
0, ESP-NOW to the members, UART to a gateway), *combined* (coordinator and MQTT
in one ESP), *member* (inverter 1.., ESP-NOW) and *internet gateway* (UART and
MQTT).  Unprovisioned ESPs run a configuration portal.

```
 client -MQTT-> MqttBridge -> UniversalRuntime --(UART: CoordinatorLink)--> coordinator
                    ^                |                                        |
                    |                |  command queue (8)                     | ESP-NOW: EspNowMesh
              publish queue          v                                        v
                    |         inverter task: CommandService /              member's runtime,
                    +-- result -- RegisterCommandService,                  command queue,
                                  ProductionPoller -> ModbusRtuClient      inverter task
                                                   -> UsbRs485 -> inverter
```

| Component (code) | State it keeps | Operations | What is hard | What makes it correct |
|---|---|---|---|---|
| Inverter task (`main.cpp:154-212`) | session, loop position | take command, poll, end of session | unplugging at any point | every command answered; evidence for guarded writes |
| CommandService, RegisterCommandService (`inverter/`) | none between calls; pre-read values within one | guards, pre-read, write, read-back | front panel, lost and late answers between the transactions | outcome agrees with what happened to the inverter |
| ModbusRtuClient (`protocol/modbus_rtu.cpp`) | last command tick, receive stream | read, write single, write multiple | replies carry no request id | slot kept, failure values exact |
| UsbRs485 (`transport/usb_rs485.cpp`) | disconnect bit, receive stream | begin session, write, read | events of the USB task | no bytes of an old session |
| ProductionPoller, poll plan (`inverter/`) | per block: last poll, completed; last state | `run_due`, `state`, `reset` | 48 blocks, 850 ms slots, failing blocks | status fresh, every block read |
| UniversalRuntime (`main.cpp:36-125`) | command queue | `on_command`, `on_command_result`, `on_telemetry` | called from MQTT, radio and UART tasks | right ESP, right order |
| MqttBridge (`network/mqtt_bridge.cpp`) | connection, ring of 32 ids, publish queue, telemetry cache, alert values | `handle_command`, `publish_*`, publisher task | disconnects, full queues, redelivery | no early repetition, results once |
| CoordinatorLink (`network/coordinator_link.cpp`) | transmit queue, last receive tick | `enqueue`, `run`, `dispatch`, adopt site id | peer silent or restarting | order, no damage accepted |
| EspNowMesh (`network/espnow_mesh.cpp`) | peer table, sequence numbers, receive queue | hello, announce, send, receive | several sending tasks, lost and repeated frames, restarts | order, at most once, a restarted board announces itself until it is heard |
| Portal and verification (`network/wifi_provisioning.cpp`) | form, results of checks, completion flag | form post, verification task, finalize | four tasks share one configuration without a lock | only a verified configuration with its partners is made final, and keeps them; no saved form is forgotten |
| SystemConfig, ConfigStore (`app/system_config.cpp`) | configuration, NVS | load, save, clear, verification mark | crash between two saves | what is loaded is what was saved |
| Start-up and factory-reset button (`main.cpp:214-456`) | button timers | start of the role, reset | reset racing a save | reset leaves nothing behind |
| Register catalog, diagnostic scanner, monitor output | generated data; none; none | look-up; read and print; print | - | - |

The hazards of the code, each at its line and with the properties that cover
it, are in `PROJECT.json`.

## 2. Modules

| Module | Models |
|---|---|
| `CommandGuards` | every check a command passes before it touches the bus: the refusal of a semantic and of a register command, in the code's order, as a function of the catalog and the status snapshot |
| `InverterTask` | the task, both services, the Modbus client, the transport, and the inverter as a second actor, one action per step of a transaction |
| `CommandContract` | abstract: what a client may conclude from a result; `InverterTask` implements it |
| `CommandGuardsProofs`, `InverterTaskProofs`, `CommandContractProofs` | theorems (section 4) |
| `PollPlan` | the plan's 48 rows, the features an installation enables, the number of registers of a block |
| `PollSchedule` | `run_due` and the loop's time, which block is read when |
| `CommandPath` | ids, routing, all queues, UART and radio as channels, publisher, restarts |
| `MeshFrames` | sequence numbers of a board with two sending tasks, the radio, the filter of its listeners, announcements, restarts |
| `MeshChannel` | abstract: a lossy channel that keeps the order; `MeshFrames` implements it |
| `Provisioning` | forms, verification, completion, pairing, the configuration store, start-up and factory reset |
| `NamedValues` | the words of a named setter, the number published for them, the cutting of a block into messages, their merging into the live cache; pure functions with their theorems |
| `PollScheduleProofs`, `CommandPathProofs`, `MeshFramesProofs`, `ProvisioningProofs` | theorems (section 4) |
| `MC…` | instances for TLC |

**InverterTask and the code.**  `pc` is the place in `run_local_inverter`:
`loop` (before `receive_command`), `polling` (before `run_due`), `down` (no
adapter), `poll` or one of the transactions of a command: `read`
(`execute_read`), `previous` (the pre-read), `write`, `readback`, `status`
(the input-register check after an on/off command).  `sent` says whether the
transaction's frame has left; before that the task waits in
`wait_for_command_slot`.  `SendFrame` discards the receive stream and
transmits; `AcceptReply`, `SkipReply`, `TimeOut` and `NoticeDisconnect` are the
ways the receive loop goes on; each outcome of a transaction runs the code up
to the next transaction or to the published result (`ReadDone`,
`PreviousDone`, `WriteDone`, `ReadbackDone`, `StatusDone`, `PollDone`).  A
frame is whole or garbled: the search for a frame start inside a byte stream
ends with an accepted frame or with the end of the window, which is what
`AcceptReply`, `SkipReply` and `TimeOut` distinguish.

The inverter serves frames in order; it may refuse, adjust, lose and answer
late.  `MaxLate` is the number of frames it may still owe when a transaction
times out.  With `MaxLate = 0`, and at a disconnect, unserved frames are
dropped.  A transmission that fails is assumed not to reach the inverter.  The
answer to a write repeats the request, as Modbus has it, also when the inverter then
stores something else; an inverter that echoed the stored word would be reported
`rejected` although it wrote.
The history variables `log`, `seen`, `wrote` and `applied` appear in no guard.

**PollSchedule and the code.**  One step is one iteration's command or poll,
and time advances by what it took (slot wait, transmission to answer, loop
delay).  `age[i]` is the time since `last_poll_ms_[i]`, capped at the interval;
the plan, the bound 32 of the scan and the intervals are the firmware's.

**CommandPath and the code.**  Messages are the numbers of the accepted
commands.  The host is the ESP with the bridge; `topology` says who serves
inverter 0.  `Accept` is `handle_command` with `remember_command_id` and
`on_command`; `TakeCommand` and `FinishCommand` stand for `InverterTask`;
`TakeMessage` and `PublishNow` are the publisher task.  A restart empties what
the ESP held in RAM, the ring included.  The radio is a lossy
channel that keeps the order and does not duplicate; that EspNowMesh provides
it is what `MeshFrames` shows against `MeshChannel`.

**MeshFrames and the code.**  One board sends, `Listener` are the boards that
hear it; numbers and filters of different senders have nothing in common.
`sequence_` is incremented by the mesh worker (announcements) and by the task
that uses the mesh (messages), so a frame takes three steps: `Begin` reads
`sequence_`, `Number` stores the next one, and `Transmit` gives the frame to the
radio; the tasks may interleave anywhere between.  A unicast frame whose
acknowledgement is lost is repeated by the radio.  `Receive` is `receive` on the
listener's worker with `accept_sequence`: a hello takes the number over,
anything else must be above the last one.  `RestartSender` is a start with
`sequence_ = 0`; `RestartListener` forgets the filter.  History: `sent` and
`taken` number the messages, `fresh` says that a hello which was numbered alone
has been heard since the sender's numbers last went back or were mixed up.
Listeners share `sequence_`, which only leaves gaps in what each of them sees.
`worker_task` announces when no frame at all came for five seconds.  `waited` is that
wait, in `Interval` ticks: `Tick` lets it pass, `Overhear` (a frame of any board, of
any installation, that does not concern the numbers here) starts it over, and
`AnnounceQuiet` is its end.

**Provisioning and the code.**  `config` is `config_` in RAM, `store` the flash:
the configuration and the mark of a pending verification.  `boot` is what
`app_main` found when it started the tasks, and thereby which tasks there are.
`http` is a form between its acceptance and its answer (`PostForm`, `SaveForm`,
`MarkForm`) or a Finalize between its check and its completion (`Finalize`,
`CommitFinalize`), `verifier` is `verification_task` (`Verify`, `Commit`),
`completion` is `complete_provisioning` in whichever task runs it (`SaveFinal`,
`Unmark`).  `mesh` is the mesh worker with a hello in hand: `HearHello` is the test of
`receive`, `Adopt` clears the peers and takes the installation id over, `LearnPeer`
is the choice of an entry with the tests of `learn_peer`, `WritePeer` changes the
entry and `SavePeer` stores what `config_` holds by then.  `link` is the worker of
the cable in the same way (`HearMaster`, `CopyMaster`, `SaveMaster`).  So a check, the
change it allows and the save are steps of their own, between which every other task
may run; each access to the flash may fail, and a crash may come anywhere.  `Ready` is
the check of the connections that `Finalize` and the verification share.

Four histories appear in no guard.  `judged`, in a configuration, is what the last
check before a completion was worth: `verified` (everything the configuration uses
answered and its partners were there, by `Working`, which says so without `Ready`),
`early` (found ready after its form was answered, by an ESP that still runs what the
configuration before it started, for up to 750 ms), `hasty` (not checked: its form was
answered when a task had found the configuration before it ready), or `no`.
`disturbed` says that a worker took something away between the check and the
save, or wrote into a configuration that had become final after the worker's own
test.  `overtaken` says that another task stored its own copy, or ended a
verification, while a form was being saved; `answered` is the last form answered.
The monitor preference a form saves shares the fate of the mark; "pairing" stands for
topology, member id and radio channel; a configuration that cannot be read counts as
missing.

**NamedValues and the code.**  The words of a named setter are
`encode_named_value`, the number read back from them `register_value.cpp`, and
the size of a message the cut in `ProductionPoller::emit`, and `Merged` the cache
that `publish_live` builds up from the messages.  Numbers count steps of
the register's scale: what is no multiple of it is refused by the tolerance
check and does not appear.

## 3. Runs

Deadlock is not checked in `path` and `unanswered`, where the system is rightly idle
once the clients have sent their last command, nor in `setup` and `hurried`, where an
ESP waits for an installer who has sent the last form.  The runs that are expected to
fail check one property each.

| Run | Question | Result |
|---|---|---|
| `guards` | Does every write that needs a stopped inverter leave on recent evidence (`StandbyWriteEvidence`)?  Is every command answered (`CommandAnswered`)? | holds |
| `outcomes` | Is a denied command never performed, not even late (`RefusedNeverWritten`)?  Is a `confirmed` backed by the registers (`ConfirmedWasSeen`)?  Does the feature word written differ only in its bit from one that was there while the command ran (`FeatureBitIsolated`)?  Is the contract implemented (`ContractSpec`)? | holds, for commands whose answers cannot be mistaken |
| `late` | `ConfirmedWasSeen` with late read replies | violated, section 5 |
| `schedule` | Does the poller ever block on an empty block (`NeverStuckOnEmptyBlock`)?  Does the status keep its turn and its freshness under load (`StatusSoonRead`, `SnapshotStaysFresh`)?  Does it become known (`StatusBecomesKnown`), and only when the whole setup was read (`RejectionHidesStatus`)? | holds |
| `starved` | Are all promised blocks read (`EveryBlockPolled`)? | violated, section 5 |
| `path` | Ids not repeated early, commands in order and once and at the right inverter, results once and in order; is a command answered unless it or its result is dropped (`AnsweredUnlessDropped`)? | holds |
| `unanswered` | Is every accepted command answered (`EveryCommandAnswered`)? | violated, section 5 |
| `mesh` | Do messages arrive in order and at most once (`ChannelSpec`)?  Does the filter refuse a message only for a known reason (`RefusedForAReason`)?  Is a restarted board heard again, if the air is ever quiet long enough (`HeardWhenQuiet`)? | holds |
| `unheard` | Does a member announce itself until its coordinator has heard it (`AnnouncedUntilLearned`)? | violated, section 5 |
| `setup` | Does a configuration become final only after a check, but for the race of `hurried` (`FinalIsVerifiedOrHasty`), and with its partners (`FinalHasPartners`)?  Does a final one keep what it was paired with (`FinalKeepsPairing`)?  Does the next start find what a form's answer called saved (`SavedIsResumed`), and does its verification come to an end (`VerificationEnds`)? | holds |
| `hurried` | Is a final configuration always one that was checked (`FinalIsVerified`)? | violated, section 5 |
| `reset` | Does the store stay empty after a factory reset (`ResetErases`)? | violated, section 5 |

**Bounds.**  *InverterTask*: `outcomes` runs two commands one after the other, so that
the frames one leaves behind meet the next: every pair of a semantic and a raw setter
and a read of the same register, the on/off switch, and the write-only factory reset,
with one frame that is performed after its transaction timed out.  Left out
(`Unmistakable`, an action constraint) are the two cases in which the answer of the
first is taken for that of the second: a read of another register of the same size,
which is what `late` shows, and H65 or H66 right behind a write still on the bus,
section 5.  Two words suffice because no check compares more than equality or one bit.
`guards` has one command and keeps real timing relations (a gap shorter than the reply
window, a freshness limit that can expire during a command); the others set the times
to 0, where every order of ticks and steps is already possible.

*PollSchedule*: the full plan and the firmware's times in ticks of 50 ms (850
ms slot = 17, 5 s freshness = 100).  `schedule` shortens the intervals so
that every fast block is always due, the worst load.  Five installations cover each
feature on and off and the PV boundary between 2 and 3 inputs; four inverter variants
reject nothing, periodic blocks, or a setup block; there are two sessions.  Answers
take 100 ms, but a bare inverter comes under load once its first snapshot is there
(`Loaded`): commands of four transactions, and answers after 50 ms or none at all.  When
all answers are quick, the status is in overload read about every 2.55 s and at worst
every 3.4 s.  The theorems
of section 4 lift the times and the place of the load.

*CommandPath*: capacities 1 and 2 instead of 8 and 32 so that queues overflow,
a ring of 2 and three ids so that an id is legally repeated within three
commands, two inverters (one behind the radio), all three arrangements, telemetry that
competes for the queues, one fault of any kind; the theorems of section 4 are for any
number of them.  `unanswered` is one ESP with one inverter, a queue of 2 and no fault.

*MeshFrames*: one listener, as the order of one listener's messages does not
depend on another's; a receive queue of 2 so that it overflows; numbers to 4,
two messages and two faults (a lost or repeated frame, a restart of either
board), in both roles of the sender: enough for two tasks to take the same
number, for numbers to start over, and for a repetition behind a full queue.  The wait
before an announcement is one tick, and two in `unheard`, where frames of other boards
may come at any time in both.

*Provisioning*: a form of each of three roles that between them use every connection
and both ways of pairing, two accepted forms so that a second one meets the
verification of the first, a member whose board is replaced and two coordinators, one
check before a completion, and one fault in `setup`: a failing flash access, a crash, a
lost connection, a reset, or the move of a member from one coordinator to the other.
The workers' steps interleave with all of it (534 thousand states).  `hurried` and
`reset` need no fault of the flash.

**Fairness.**  `InverterTask!FairSpec`: the FreeRTOS task runs, time passes,
and the inverter or the wire disposes of a frame in the end (serving and losing
are one fair disjunction, so no answer is ever guaranteed).  Nothing is assumed
of commands, polls, users and the adapter's return.  `PollSchedule!FairSpec`: the
loop runs; a member is learned in the end (needed only for
`telemetry_transport_ready`).  `CommandPath!FairSpec`: each task runs, frames
leave the wire, the broker and the adapter come back.  Telemetry, new commands,
faults and the learning of members are not fair.  `MeshFrames!FairSpec`: the
tasks of both boards run, and time passes.  Nothing says that five seconds ever pass
without a frame: the code does not ensure it, so it is a hypothesis of
`HeardWhenQuiet`, and `unheard` shows what happens without it.
`Provisioning!FairSpec`: the tasks run; strong fairness of `SaveFinal` says that a
save, which takes milliseconds, is done within the 750 ms before a restart; a worker
that has something in hand finishes it; connections come, partners and the master
announce themselves.  Forms, Finalize, the button and faults are not fair.

`PROJECT.json` names for every property a plausible bug (a dropped age check, a
read-back that is not compared, a slot that does not advance) under which the
same run fails.

## 4. Proofs

All proofs hold for every value of the constants that satisfies the assumptions
in the modules.

*Inverter task* (`CatalogAssumption`, `TimingAssumption`, `CommandAssumption`,
`PollAssumption`): any catalog, any set of commands of the right shape, any poll
set with one status block at input 0, any timing.

| Theorem | Says |
|---|---|
| `RefusalIsGuardOutcome` | checks end in "none" or one of the documented guard outcomes |
| `AcceptedCommandFits` | what passes is a block of 1..24 registers within 0..65535 |
| `StandbyCommandNeedsStopped` | a command that touches a standby, commissioning or service register passes only on a fresh snapshot of a stopped inverter, whatever guards the block mixes |
| `InductiveInvariant` | `Spec => []IInv` |
| `TypeCorrect` | `Spec => []TypeOK` |
| `StandbyWritesHaveEvidence` | `Spec => StandbyWriteEvidence` |
| `TaskImplementsContract` | `Spec /\ UnpreparedWritesAlone => ContractSpec`, for `MaxLate <= 1` |
| `RefusedStaysUnwritten` | `Spec /\ UnpreparedWritesAlone => []RefusedNeverWritten`, for `MaxLate <= 1` |
| `ConfirmedIsSeen` | `Spec /\ PromptHoldingReads => ConfirmedWasSeen` |
| `FeatureBitsAreKept` | `Spec /\ PromptHoldingReads => FeatureBitIsolated` |

`StandbyWritesHaveEvidence` is the main result.  `StandbyWriteEvidence` speaks of the moment
the write leaves, but the evidence is checked when the command is taken, up to
two slots and a reply window earlier.  The inductive invariant `IInv ==
ControlInv /\ LinkInv /\ Evidence` carries it over: `ControlInv` types the
control state and says which command each step belongs to and that requests
fit their frames; `LinkInv` types queues, clock and histories; `Evidence` says
that a standby command in hand rests on a stopped state whose age is at most
the freshness limit while the pre-read waits, at most that plus a command gap
once its frame has left, and so on to `EvidenceBound`.  Without these
intermediate ages the bound at the write is not preserved by `Tick`.  The
poller cannot change the state meanwhile, as it shares the loop with the
command.  The step from the snapshot's checks to `Evidence` is
`StandbyCommandNeedsStopped`, which in turn rests on the ranking of the
strongest guard of a block.

`TaskImplementsContract` and `RefusedStaysUnwritten` are about what a client may
conclude of its write.  A write whose answer did not
come may still be performed after the result, while later commands run, and its
echo carries no number.  The argument needs that at most one frame outlives its window,
and of a write without a pre-read (H65, H66) that it leaves when no other write is on the
bus (`UnpreparedWritesAlone`); the number of commands is arbitrary, H65 and H66 are
among them.  For all others the pre-read does it: frames are served in order, so
a write that was left over is served before the pre-read is answered, and the
answer the task takes for its write is its own (`ReplyInv`).  `WriteInv` says where
an unperformed write can be: awaited, or first on the bus and from a command whose
result left it open.  `AppliedInv` and `ResultInv` turn this into the contract.
Without the condition the contract fails: see section 5.

`ConfirmedIsSeen` and `FeatureBitsAreKept` are about what the task believes to have
read.  A read reply carries no address, so it belongs to the current request only
if no other can be under way: `PromptHoldingReads` says that when a transaction times
out the inverter owes no answer to a holding read.  An inverter that answers within
the window or not at all meets it (`PromptInverter`); writes and status reads may
be late.  The run `late` shows that the condition cannot be dropped: there it fails
for one poll, and so does `ConfirmedWasSeen`.  From it follows that at most one
holding read or its answer is under way, and only while the task waits for it
(`OwedInv`, `ReceivedInv`); hence what the task compares is what the inverter
answered while the command ran, and that is in `seen` (`KnownInv`), also when the
front panel changes the register afterwards.  `FeatureBitTwice` closes the case of
the feature word, whose read-back is compared with a word computed from the
pre-read.  In `outcomes` two commands share one register, so an answer left over from
the first may reach the second, but it is one of that register; the properties hold
there with late frames as well.

*Schedule.*  Any intervals, gaps, reply times and commands
(`ScheduleAssumption`), any plan and any installations (`PlanAssumption`).

| Theorem | Says |
|---|---|
| `ScheduleTypeCorrect` | `Spec => []TypeOK`; in particular the poller knows a state exactly when it has read the status block in this session |
| `NeverStuck` | `Spec => []NeverStuckOnEmptyBlock` for every plan in which an enabled block has registers |
| `FirmwareNeverStuck` | the same for the firmware's plan, whatever installation it serves |
| `FirmwareStatusSoonRead` | `Spec => []StatusSoonRead` for the firmware's plan, under `TwoReadsLast` and `CommandsShort` |
| `FirmwareSnapshotFresh` | `Spec => []SnapshotStaysFresh` for the firmware's plan, under `FreshnessSuffices` |
| `RejectedSetupHidesState` | `Spec => []RejectionHidesStatus` for the firmware's plan: an inverter that rejects one boot or setup block never gets its status read |

`read_request` marks a block of no registers neither as polled nor as completed, so
such a block would stay first for ever.  `FirmwareNeverStuck` rests on the plan
alone: a row's features decide whether it is read and the installation decides
its size, in two places of the code; the proof goes through the rows whose size
depends on the installation (`FirmwareRowsSized`).

The next two are proved for every plan in which the status block comes right after
the setup and one normal block (`StatusLeads`, which the firmware's plan meets), any
installations, answers and rejected blocks.  `SoonInv` says how old the last status
read is after one, two and three other reads: after two it is due, and only the
normal block is still in front of it, which is then not due again for a whole
interval.  `FreshInv` ties the age of the snapshot to that of the status block while
only polls run, and bounds what it can still wait for once the block is due: the
read under way, the normal block, and its own transaction.  Both take the times
from hypotheses that `PollSchedule` states and TLC evaluates for the times of the
runs:

* `CommandsShort`: a loop with the longest command ends before the normal interval
  (30 s) is over.
* `FreshnessSuffices`: the sum of those waits, 1000 + 850 + 1550 + 1550 = 4950 ms
  with the firmware's times, is within the freshness limit of 5000 ms.
* `TwoReadsLast`: two further reads of the loop last as long as the critical interval,
  1000 ms <= 850 ms slot + two delays of 50 ms + an answer; so an answer takes at least
  50 ms, one tick.  Were one faster, right after a slow one, a fourth read could
  come in between; `FirmwareSnapshotFresh` does not need this.

`RejectedSetupHidesState` holds for any times, installation and number of sessions: a
rejected block is never marked as read, and the status is read only when all the blocks
in front of it are.

*Setup.*  The constants are any forms, announcements, numbers of slots and
checks, forms and faults (`SetupAssumption`).

| Theorem | Says |
|---|---|
| `SetupInvariant` | the inductive invariant below holds |
| `SetupTypeCorrect` | `Spec => []TypeOK`; in particular what is stored has a valid role and came from a form |
| `FinalConfigurationsAreVerified` | `Spec => []FinalIsVerifiedOrHasty` |
| `FinalConfigurationsHavePartners` | `Spec => []FinalHasPartners` |
| `SavedFormsAreResumed` | `Spec => []SavedIsResumed` |
| `FinalPairingIsKept` | `Spec => FinalKeepsPairing` |

None of these properties is inductive: each speaks of the flash, which is
written from copies in RAM that several tasks hold.  The invariant says of every
copy what the property needs of the store.  `Typed` and `TracedInv`: the candidate of
a form, `config_` and the stored configuration come from a form of the past.
`StartedInv`: what runs is what the start has started.  `FinalInv`: from the check on,
which the task remembers in no variable but its place (`Decided`), `config_` was judged,
and the candidate of a form is never final.  `PartnersInv`: between the check that finds
the partners and the save that makes the configuration final they stay, since
announcements only add or complete peers and a board that is found is never replaced
by a newcomer (`FoundGrows`), with one exception: the worker of a member that heard
another coordinator before the check clears its table after it (`Partnered`).  What a
worker has in hand fits the role it was started with; a cable that
answers a gateway of the form the ESP started with is the master's; and the form
being saved is younger than that one.  `ResumedInv`: between the two saves of a form
the store holds that form, unless something overtook it, and what was answered is
never newer than `config_`.  `KeptInv`: while the store is final and no completion is
about to save, a final `config_` of the same form pairs with the same boards under the
same id, so that saving it changes neither, unless a worker is known to have changed
it (`disturbed`); and an entry the worker chose in a configuration that was final has
the address it is about to write.

The exceptions are those of the code, and each is narrow: `early` needs a check
between the answer to a form and the restart it announces, `hasty` an answer between
a check and its completion, `disturbed` needs an announcement that
passed the test of `receive` or `learn_peer` before the completion and is carried out
after it.  A check that asks for one connection too few, a completion without a check, a
pairing opened in a final configuration or a role the store should not have are none
of them, and break the properties.

*Mesh.*  Any number of listeners, any capacities and bounds
(`FramesAssumption`).

| Theorem | Says |
|---|---|
| `MeshTypeCorrect` | `Spec => []TypeOK`; in particular no receive queue exceeds its capacity |
| `MeshImplementsChannel` | `Spec => ChannelSpec`: messages reach a listener in order, each at most once |
| `OnlyRepeatsAreRefused` | `Spec => RefusedForAReason`: the filter refuses no other message |

The filter alone does not give this: it compares numbers, and numbers start over
with a restart, are taken twice, and are reset by every hello.  `OrderInv` is the
reason it still holds: the radio keeps the order, so a queue holds messages in the
order in which they were sent (`Before`), all of them younger than what was
taken; the only exception is a repetition directly behind its original, and by
the time it is the first of the queue, its original was taken or refused and,
if taken, left its number in the filter.  That the message about to be sent is
younger than all in the queues (`TaskInv`) carries this over a transmission, and the
worker sends nothing but announcements.

For `OnlyRepeatsAreRefused` the numbers themselves have to rise, which they do not in
general.  `NumberInv` says from where on they do (`NumbersRise`): a listener that has
heard the sender since its start, or a place behind an announcement in its queue
(`Vouched`).  Where nothing vouches for the numbers (`Unvouched`) they may be anything, as
after a restart of the sender.  A task that met no other holds the latest number
(`CleanTask`), and that of a message on its way to the radio has not been used yet
(`Latest`).

*Path.*  Any arrangement, any inverters, any capacities of ring and queues, any
faults (`PathAssumption`).

| Theorem | Says |
|---|---|
| `PathTypeCorrect` | `Spec => []TypeOK`; in particular no queue exceeds its capacity and what is under way was accepted |
| `RepeatsRefused` | `Spec => []NoEarlyRepeat`, for every size of the ring |
| `CommandsStayInOrder` | `Spec => []ExecutedInOrder`: an inverter executes its commands in order, each at most once |
| `ResultsStayInOrder` | `Spec => []AnsweredInOrder`: its results are published in order, each at most once, and only for what it executed |

`TypeOK` is inductive as it stands.  For the ring the invariant says what a place
holds (`Remembered`): the place `d` before the next slot has the id of the command
accepted `d` commands ago, as long as the bridge has not restarted since.  The order of
commands is lost if any two places between clients and inverter may disagree, so
`CommandOrder` orders them all: what was executed, the queue of the inverter's
task, the radio and the cable with its transmit queue form a `Chain`, each stage
`Ordered` within and `Ahead` of the next as far as commands of one inverter go.  A
step takes the head of one stage and appends it to the next, or drops it; faults
only take away (`TakesAway`).  The stages are those of every arrangement at once: where
the inverter is served at home, those in between are empty.  `ResultOrder` is the
same on the way back, from what was published to the command a task has in hand,
and adds that every result belongs to an executed command (`Genuine`), as a
result carries its number but not where it came from.

*Values* (`NamedValues`).

| Theorem | Says |
|---|---|
| `AcceptedFitsItsRegisters` | what a named setter accepts becomes one word for each register |
| `AcceptedNumberComesBack` | the number published for the words sent is the number accepted |
| `MessageFits` | a message carries 1..40 registers of its block |
| `NoValueIsCut` | no message but the last of its block ends within a value of two words |
| `CacheKeepsValuesWhole` | whatever messages of a block arrive, both words of every value in the cache behind the live document are of the same reading |

The cache merges single messages, each of which may be lost in a queue or on the
radio, and the next ones belong to a later reading; a number of two words is right
only if its words travel together.  The theorem asks that a block begins and ends
between values.  This is so for every row of `DefaultPollPlan`, at every
number of PV inputs, with the types of the generated catalog.

Only model-checked: liveness (`CommandAnswered`, `StatusBecomesKnown`,
`AnsweredUnlessDropped`, `HeardWhenQuiet`, `VerificationEnds`), since fairness and
ENABLED are out of the prover's reach.  Every invariant and action property that a passing run
checks is also a theorem.

## 5. Where code and documents disagree

* `late`: a read reply names no address, so the late answer of a timed-out poll
  of one holding register is taken for the pre-read of a following command,
  which then reports `confirmed` for a value the register never held.
* `starved`: the scan covers 32 of 48 rows and always starts at row 1; the slow
  counters and the parallel block are never polled, and in a usual household
  nor are the last power-flow blocks.
* `unanswered`: `doc/MQTT_Register_Command_API.md:462` promises exactly one result per
  command.  A command that finds the queue of 8 full gets none, and since its id is
  remembered the repeated message is dropped as a duplicate.
* `unheard`: `main/README.md:161` has members announce themselves every five seconds
  until learned.  The code waits for five seconds without a frame of any board; a
  member whose announcement after a restart is lost may then stay silent, and its
  messages are refused, as long as others keep sending.
* `hurried`: `main/README.md:62` blocks the completion until all checks pass, and
  `doc/MQTT_ESPNOW_Web_Configuration.md:35` says that saving a changed configuration
  restarts the verification.  A form answered between the last check of the
  configuration before it and `complete_provisioning` is made final as it is.
* `reset`: after `provisioning_button_task` has erased the store it waits for the
  release of BOOT, and the mesh worker still saves the whole old configuration
  whenever a known board announces itself; the next start is then no first
  installation (`main.cpp:283`, `main.cpp:346`).

Smaller remarks without a run:

* A boot or setup block the inverter rejects stays due for ever, ahead of the status
  block, so that every guarded command is refused; line 84 of
  `doc/MQTT_Register_Command_API.md` promises the state every second.  `schedule` and
  `RejectedSetupHidesState` show that this is so for every such block.
* A command for H65 or H66 has no pre-read.  If the inverter performs an earlier write
  after its window, that echo is taken for the answer of the next, which is then
  reported `sent_unverifiable` although its own frame may be lost: without
  `Unmistakable` TLC finds this in `outcomes` (`ContractSpec`), with two commands for
  H65.  The theorems about the contract exclude it by `UnpreparedWritesAlone`.
* The mesh worker acts on a hello after it has tested that pairing is open
  (`espnow_mesh.cpp:246`, `317`, `328`), without a lock.  If `complete_provisioning` comes
  in between, a member that hears a second coordinator has its table cleared and its
  id changed, the completion saves it as final without a coordinator, and `learn_peer`
  refuses one from then on (`main/README.md:62-65`); and an entry chosen before the
  completion is written and saved after it, in a configuration that is final
  (`doc/MQTT_ESPNOW_Web_Configuration.md:37`).  Without `disturbed`, TLC finds both in
  `setup` (`FinalHasPartners`, `FinalKeepsPairing`).
* A Finalize, or the running verification, that comes after the answer to a form and
  before the restart judges the new form by what the old one has started (`early`).
* `doc/AOHAI_Modbus_RTU_V2.14_Register_Classes.md` (line 625) calls a differing
  read-back REJECTED, while the code reports `adjusted` or
  `communication_error`; the same file (line 668) expects the status about every
  1.7 s in overload, see the 2.55 s above.
* `doc/MQTT_ESPNOW_Web_Configuration.md:23` says that holding BOOT keeps the
  settings; the code erases them.
* A form answered with an error may still be stored, and takes effect at the next
  start.  A Finalize that fails in normal operation leaves pairing open.
* `doc/MQTT_Register_Command_API.md:75` says that snapshots come once after
  communication starts; a snapshot that meets a full publish queue is lost until
  the next session, as the poller reads the block only once.  Line 60 promises an
  alert when its value changes; its value is remembered before the publication,
  whose result is not looked at.
* `aohai_register_catalog.generated.cpp:29` gives the year as "Read: 2022 ~ 2050;
  Write: 22 ~ 50".  A named set of the year writes two digits, so the read-back
  comparison cannot confirm it on such an inverter.

## 6. Not modelled, and why

CRC arithmetic and byte-level resynchronisation (frames are whole or garbled);
JSON and topics (no property here is about them); Wi-Fi, its scan, the web page,
the captive DNS server and LEDs (I/O); the text fields of a form and their checks
in `validate_config`; the framing of `CoordinatorLink`; the generated catalog (a
constant; the runs use excerpts of it); the diagnostic scanner (prints fixed
blocks, keeps nothing); the age of a command that waits in a queue (the path has
no clock).  The window between `mqtt->start()` and `attach_mqtt` in `app_main`, in
which a member's result is dropped, counts as a lost frame in `CommandPath`.

A `SystemConfig` is copied without a lock while another task may change it; the
models copy it in one step, so a torn copy is outside them.  A board whose member
id is changed while it is paired (two entries for one board) is not among the
announcements of the runs.  Of the telemetry in `MqttBridge` only the merging of
values is modelled, not the documents and the detection of alert changes.  The wrap of the 32-bit sequence
number is beyond any bound; it takes years of frames between two restarts.

## 7. Plan

In this order; each module with its instance, runs and theorems.

1. Done: `CommandGuards`, `InverterTask`, `CommandContract`, `PollPlan`,
   `PollSchedule`, `CommandPath`, `MeshFrames` with `MeshChannel`, `Provisioning`,
   `NamedValues`, and the proofs of section 4.
2. Theorems about several components at once: what a client of `CommandPath` may
   conclude from a result, given the contract of the task that executes it.
3. Retained topics: alerts and settings on the broker across reconnects, restarts
   and a full publish queue.
4. `CoordinatorLink`: heartbeats, connection timeout, framing.

To check a run: `tlc -workers 2 -config <cfg> <MC module>`; to check the proofs:
`tlapm <module>` for `CommandGuardsProofs.tla`, `InverterTaskProofs.tla`,
`CommandContractProofs.tla`, `PollScheduleProofs.tla`, `ProvisioningProofs.tla`, `MeshFramesProofs.tla`, `CommandPathProofs.tla` and
`NamedValues.tla`.
