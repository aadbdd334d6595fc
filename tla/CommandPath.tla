---------------------------- MODULE CommandPath ----------------------------
(***************************************************************************)
(* The way of an MQTT command to an inverter and of its result back:       *)
(*                                                                         *)
(*   MqttBridge -> UniversalRuntime -> (CoordinatorLink -> coordinator)    *)
(*     -> (EspNowMesh -> member) -> command queue -> inverter task         *)
(*                                                                         *)
(* and the reverse route to the publish queue and the publisher task.  The *)
(* host is the ESP with the MQTT bridge.  In the standalone and combined   *)
(* roles it also serves inverter 0; otherwise it is an internet gateway    *)
(* and the coordinator, behind the UART, serves inverter 0.  Inverters 1.. *)
(* belong to members on the radio.  The inverter task is InverterTask,     *)
(* here only: takes a command, answers it.  The radio is a lossy channel   *)
(* that keeps the order and does not duplicate.                            *)
(*                                                                         *)
(* Commands are numbered in the order in which the bridge accepts them;    *)
(* queues and channels hold these numbers.                                 *)
(***************************************************************************)
EXTENDS Integers, Sequences, FiniteSets

CONSTANTS
  Topologies,    \* a subset of {"standalone", "combined", "gateway"}
  Member,        \* inverters 0 .. expected_inverter_count - 1
  Command,       \* commands clients publish, an id and the member of the topic
  RingSize,      \* recent_command_ids_
  QueueCap,      \* command_queue_
  LinkCap,       \* transmit_queue_ of the coordinator link
  PublishCap,    \* publish_queue_ of the bridge
  Emits,         \* whether telemetry competes for the queues
  MaxAccepted,   \* bound on the commands accepted
  MaxFaults      \* bound on lost frames, restarts and broker disconnects

NoId == 0
None == 0
Telemetry == -1     \* a telemetry message; it shares the queues with the results

ASSUME PathAssumption ==
  /\ Topologies \subseteq {"standalone", "combined", "gateway"}
  /\ Member \subseteq Nat /\ 0 \in Member /\ IsFiniteSet(Member)
  /\ Command \subseteq [id : Nat \ {NoId}, target : Member]
  /\ RingSize \in Nat \ {0} /\ MaxAccepted \in Nat /\ MaxFaults \in Nat
  /\ Emits \in BOOLEAN
  /\ QueueCap \in Nat /\ LinkCap \in Nat /\ PublishCap \in Nat

VARIABLES
  topology,    \* fixed
  connected,   \* connected_ of the bridge
  ring,        \* recent_command_ids_
  slot,        \* next_command_id_slot_
  down,        \* gateway to coordinator: transmit queue of the gateway
  up,          \* coordinator to gateway: transmit queue of the coordinator
  toMember,    \* commands under way to a member, its receive queue included
  toCoord,     \* results under way from a member
  queue,       \* command_queue_ of the ESP of each inverter
  busy,        \* the command an inverter task has taken
  publish,     \* publish_queue_
  outgoing,    \* the message the publisher task has taken
  plugged,     \* the USB adapter of an inverter is there
  known,       \* members the coordinator has learned
  accepted,    \* history: the commands accepted, in order
  booted,      \* history: commands accepted before the host's last restart
  executed,    \* history: per inverter, the commands it has taken
  answered,    \* history: the results handed to the MQTT client
  lost,        \* history: commands that were dropped, or their results were
  faults       \* faults so far

bridge  == <<connected, ring, slot>>
wires   == <<down, up, toMember, toCoord>>
tasks   == <<queue, busy>>
output  == <<publish, outgoing>>
setting == <<plugged, known>>
history == <<accepted, booted, executed, answered, lost, faults>>
vars    == <<topology, bridge, wires, tasks, output, setting, history>>

Radio == Member \ {0}
Served == IF topology = "standalone" THEN {0} ELSE Member
InverterAtHost == topology # "gateway"
Entries(s) == {s[i] : i \in DOMAIN s}
Commands(s) == Entries(s) \ {Telemetry, None}
Target(n) == accepted'[n].target

(* xQueueSend without waiting: a full queue drops the message.             *)
Enqueue(q, n, cap) == IF Len(q) < cap THEN Append(q, n) ELSE q
Dropped(q, n, cap) == IF Len(q) < cap THEN {} ELSE {n} \ {Telemetry}
-----------------------------------------------------------------------------
(*                        Routing of a command                             *)

(* The message ends here; only the log of the ESP tells.                   *)
Discard(n) == lost' = lost \cup {n} /\ UNCHANGED <<queue, toMember>>

(* Faulty variant: a command overtakes the ones that wait.                 *)
EnqueueInFront(q, n, cap) == IF Len(q) < cap THEN <<n>> \o q ELSE q

QueueCommand(q, n, cap) == Enqueue(q, n, cap)

ToQueue(m, n) ==
  /\ queue' = [queue EXCEPT ![m] = QueueCommand(@, n, QueueCap)]
  /\ lost' = lost \cup Dropped(queue[m], n, QueueCap)
  /\ UNCHANGED toMember

(* EspNowMesh::send_command; without a saved peer the command ends here.   *)
ToMesh(m, n) ==
  IF m \in known THEN toMember' = [toMember EXCEPT ![m] = Append(@, n)] /\ UNCHANGED <<queue, lost>>
  ELSE Discard(n)

(* on_command on the ESP that serves inverter 0 and has the mesh.          *)
AtCoordinator(n) == IF Target(n) = 0 THEN ToQueue(0, n) ELSE ToMesh(Target(n), n)

AtHost(n) ==
  IF InverterAtHost THEN AtCoordinator(n) /\ UNCHANGED down
  ELSE /\ down' = Enqueue(down, n, LinkCap)
       /\ lost' = lost \cup Dropped(down, n, LinkCap)
       /\ UNCHANGED <<queue, toMember>>

(* Faulty variant: the slot does not move, so only one id is remembered.   *)
NextSlotStuck == slot

(* Faulty variant: the slot runs past the end of the ring.                 *)
NextSlotUnwrapped == slot + 1

NextSlot == (slot + 1) % RingSize

(* handle_command: a well-formed command whose id is not in the ring is    *)
(* remembered and then handed over.  Of a duplicate, a malformed command   *)
(* or one for no served inverter only a log line comes: a stuttering step. *)
Accept(c) ==
  /\ connected /\ Len(accepted) < MaxAccepted
  /\ c.target \in Served
  /\ c.id \notin Entries(ring)
  /\ ring' = [ring EXCEPT ![slot + 1] = c.id]
  /\ slot' = NextSlot
  /\ accepted' = Append(accepted, c)
  /\ AtHost(Len(accepted) + 1)
  /\ UNCHANGED <<topology, connected, up, toCoord, busy, output, setting, booted, executed,
                 answered, faults>>

(* CoordinatorLink: a frame leaves the transmit queue while the other end  *)
(* is heard, and is dispatched there.                                      *)
LinkDown ==
  /\ down # <<>>
  /\ down' = Tail(down)
  /\ accepted' = accepted
  /\ AtCoordinator(Head(down))
  /\ UNCHANGED <<topology, bridge, up, toCoord, busy, output, setting, booted, executed,
                 answered, faults>>

(* EspNowMesh::receive on the member.                                      *)
MeshToMember(m) ==
  /\ toMember[m] # <<>>
  /\ toMember' = [toMember EXCEPT ![m] = Tail(@)]
  /\ queue' = [queue EXCEPT ![m] = QueueCommand(@, Head(toMember[m]), QueueCap)]
  /\ lost' = lost \cup Dropped(queue[m], Head(toMember[m]), QueueCap)
  /\ UNCHANGED <<topology, bridge, down, up, toCoord, busy, output, setting, accepted, booted,
                 executed, answered, faults>>
-----------------------------------------------------------------------------
(*                   The inverter task, and the way back                   *)

TakeCommand(m) ==
  /\ plugged[m] /\ busy[m] = None /\ queue[m] # <<>>
  /\ queue' = [queue EXCEPT ![m] = Tail(@)]
  /\ busy' = [busy EXCEPT ![m] = Head(queue[m])]
  /\ executed' = [executed EXCEPT ![m] = Append(@, Head(queue[m]))]
  /\ UNCHANGED <<topology, bridge, wires, output, setting, accepted, booted, answered, lost,
                 faults>>

ToPublish(n) ==
  /\ publish' = Enqueue(publish, n, PublishCap)
  /\ lost' = lost \cup Dropped(publish, n, PublishCap)
  /\ UNCHANGED up

(* on_command_result on the ESP that serves inverter 0.                    *)
ResultAtCoordinator(n) ==
  IF InverterAtHost THEN ToPublish(n)
  ELSE /\ up' = Enqueue(up, n, LinkCap)
       /\ lost' = lost \cup Dropped(up, n, LinkCap)
       /\ UNCHANGED publish

FinishCommand(m) ==
  /\ busy[m] # None
  /\ busy' = [busy EXCEPT ![m] = None]
  /\ IF m = 0 THEN ResultAtCoordinator(busy[m]) /\ UNCHANGED toCoord
     ELSE toCoord' = [toCoord EXCEPT ![m] = Append(@, busy[m])] /\ UNCHANGED <<up, publish, lost>>
  /\ UNCHANGED <<topology, bridge, down, toMember, queue, outgoing, setting, accepted, booted,
                 executed, answered, faults>>

MeshToCoordinator(m) ==
  /\ toCoord[m] # <<>>
  /\ toCoord' = [toCoord EXCEPT ![m] = Tail(@)]
  /\ ResultAtCoordinator(Head(toCoord[m]))
  /\ UNCHANGED <<topology, bridge, down, toMember, tasks, outgoing, setting, accepted, booted,
                 executed, answered, faults>>

(* on_telemetry of a message of inverter 0 or of a member.                 *)
EmitTelemetry ==
  /\ Emits
  /\ ResultAtCoordinator(Telemetry)
  /\ UNCHANGED <<topology, bridge, down, toMember, toCoord, tasks, outgoing, setting, accepted,
                 booted, executed, answered, faults>>

LinkUp ==
  /\ up # <<>>
  /\ up' = Tail(up)
  /\ publish' = Enqueue(publish, Head(up), PublishCap)
  /\ lost' = lost \cup Dropped(publish, Head(up), PublishCap)
  /\ UNCHANGED <<topology, bridge, down, toMember, toCoord, tasks, outgoing, setting, accepted,
                 booted, executed, answered, faults>>

(* publisher_task: takes a message, waits for the broker, publishes.       *)
TakeMessage ==
  /\ outgoing = None /\ publish # <<>>
  /\ outgoing' = Head(publish)
  /\ publish' = Tail(publish)
  /\ UNCHANGED <<topology, bridge, wires, tasks, setting, history>>

(* Faulty variant: the message stays with the publisher.                   *)
PublishAgain ==
  /\ outgoing # None /\ connected
  /\ answered' = IF outgoing = Telemetry THEN answered ELSE Append(answered, outgoing)
  /\ UNCHANGED <<topology, bridge, wires, tasks, output, setting, accepted, booted, executed, lost,
                 faults>>

(* Faulty variant: without a broker the message is thrown away.            *)
PublishUnlessOffline ==
  /\ outgoing # None
  /\ outgoing' = None
  /\ answered' = IF connected /\ outgoing # Telemetry THEN Append(answered, outgoing)
                 ELSE answered
  /\ UNCHANGED <<topology, bridge, wires, tasks, publish, setting, accepted, booted, executed,
                 lost, faults>>

PublishNow ==
  /\ outgoing # None /\ connected
  /\ outgoing' = None
  /\ answered' = IF outgoing = Telemetry THEN answered ELSE Append(answered, outgoing)
  /\ UNCHANGED <<topology, bridge, wires, tasks, publish, setting, accepted, booted, executed,
                 lost, faults>>
-----------------------------------------------------------------------------
(*                      Faults and the environment                         *)

Fault == faults < MaxFaults /\ faults' = faults + 1

(* A frame is damaged on the wire, the radio or a receive queue loses it,  *)
(* or it arrives while the host has not attached its bridge yet.           *)
LoseFrame ==
  /\ Fault
  /\ \/ /\ down # <<>> /\ down' = Tail(down) /\ lost' = lost \cup {Head(down)}
        /\ UNCHANGED <<up, toMember, toCoord>>
     \/ /\ up # <<>> /\ up' = Tail(up) /\ lost' = lost \cup ({Head(up)} \ {Telemetry})
        /\ UNCHANGED <<down, toMember, toCoord>>
     \/ \E m \in Radio :
          /\ toMember[m] # <<>>
          /\ toMember' = [toMember EXCEPT ![m] = Tail(@)]
          /\ lost' = lost \cup {Head(toMember[m])}
          /\ UNCHANGED <<down, up, toCoord>>
     \/ \E m \in Radio :
          /\ toCoord[m] # <<>>
          /\ toCoord' = [toCoord EXCEPT ![m] = Tail(@)]
          /\ lost' = lost \cup {Head(toCoord[m])}
          /\ UNCHANGED <<down, up, toMember>>
  /\ UNCHANGED <<topology, bridge, tasks, output, setting, accepted, booted, executed, answered>>

(* The broker goes away and comes back; nothing queued is given up.        *)
LoseBroker ==
  /\ Fault /\ connected /\ connected' = FALSE
  /\ UNCHANGED <<topology, ring, slot, wires, tasks, output, setting, accepted, booted, executed,
                 answered, lost>>

FindBroker ==
  /\ ~connected /\ connected' = TRUE
  /\ UNCHANGED <<topology, ring, slot, wires, tasks, output, setting, history>>

Unplug(m) ==
  /\ Fault /\ plugged[m] /\ plugged' = [plugged EXCEPT ![m] = FALSE]
  /\ UNCHANGED <<topology, bridge, wires, tasks, output, known, accepted, booted, executed,
                 answered, lost>>

Plug(m) ==
  /\ ~plugged[m] /\ plugged' = [plugged EXCEPT ![m] = TRUE]
  /\ UNCHANGED <<topology, bridge, wires, tasks, output, known, history>>

LearnMember(m) ==
  /\ m \notin known /\ known' = known \cup {m}
  /\ UNCHANGED <<topology, bridge, wires, tasks, output, plugged, history>>

(* What the ESP that serves inverter m holds in RAM; the coordinator also  *)
(* holds what the members' radios are sending to it.                       *)
Held(m) ==
  Commands(queue[m]) \cup ({busy[m]} \ {None})
  \cup (IF m = 0 THEN UNION {Entries(toCoord[k]) : k \in Radio} ELSE Entries(toMember[m]))

Emptied(m) ==
  /\ queue' = [queue EXCEPT ![m] = <<>>]
  /\ busy' = [busy EXCEPT ![m] = None]
  /\ IF m = 0 THEN toCoord' = [k \in Radio |-> <<>>] /\ UNCHANGED toMember
     ELSE toMember' = [toMember EXCEPT ![m] = <<>>] /\ UNCHANGED toCoord

(* The ESP with the bridge restarts: everything it held in RAM is gone.    *)
RestartHost ==
  /\ Fault
  /\ connected' = FALSE
  /\ ring' = [i \in 1 .. RingSize |-> NoId] /\ slot' = 0
  /\ booted' = Len(accepted)
  /\ down' = <<>> /\ publish' = <<>> /\ outgoing' = None
  /\ lost' = lost \cup Commands(down \o publish \o <<outgoing>>)
                  \cup (IF InverterAtHost THEN Held(0) ELSE {})
  /\ IF InverterAtHost THEN Emptied(0) ELSE UNCHANGED <<queue, busy, toCoord, toMember>>
  /\ UNCHANGED <<topology, up, setting, accepted, executed, answered>>

(* The coordinator behind a gateway, or a member, restarts.                *)
RestartServer(m) ==
  /\ Fault /\ (m = 0 => ~InverterAtHost)
  /\ Emptied(m)
  /\ up' = IF m = 0 THEN <<>> ELSE up
  /\ lost' = lost \cup Held(m) \cup (IF m = 0 THEN Commands(up) ELSE {})
  /\ UNCHANGED <<topology, bridge, down, output, setting, accepted, booted, executed, answered>>
-----------------------------------------------------------------------------
Init ==
  /\ topology \in Topologies
  /\ connected = FALSE
  /\ ring = [i \in 1 .. RingSize |-> NoId] /\ slot = 0
  /\ down = <<>> /\ up = <<>>
  /\ toMember = [m \in Radio |-> <<>>] /\ toCoord = [m \in Radio |-> <<>>]
  /\ queue = [m \in Member |-> <<>>] /\ busy = [m \in Member |-> None]
  /\ publish = <<>> /\ outgoing = None
  /\ plugged = [m \in Member |-> TRUE] /\ known = {}
  /\ accepted = <<>> /\ booted = 0
  /\ executed = [m \in Member |-> <<>>] /\ answered = <<>> /\ lost = {}
  /\ faults = 0

Serve(m) == TakeCommand(m) \/ FinishCommand(m) \/ Plug(m)
Carry == LinkDown \/ LinkUp \/ (\E m \in Radio : MeshToMember(m) \/ MeshToCoordinator(m))
Publisher == TakeMessage \/ PublishNow

Next ==
  \/ (\E c \in Command : Accept(c)) \/ EmitTelemetry
  \/ Carry \/ Publisher \/ FindBroker
  \/ (\E m \in Member : Serve(m) \/ Unplug(m) \/ RestartServer(m))
  \/ (\E m \in Radio : LearnMember(m))
  \/ LoseFrame \/ LoseBroker \/ RestartHost

Spec == Init /\ [][Next]_vars

(* Every task runs, frames do not stay on the wire for ever, the broker    *)
(* and the adapters come back.                                             *)
FairSpec ==
  /\ Spec
  /\ \A m \in Member : WF_vars(Serve(m))
  /\ \A m \in Radio : WF_vars(MeshToMember(m)) /\ WF_vars(MeshToCoordinator(m))
  /\ WF_vars(LinkDown) /\ WF_vars(LinkUp) /\ WF_vars(Publisher) /\ WF_vars(FindBroker)
-----------------------------------------------------------------------------
(*                              Properties                                 *)

Serial == 1 .. Len(accepted)
Message == Serial \cup {Telemetry}

(* Types, the capacities of the queues, and the ring's own positions.      *)
TypeOK ==
  /\ topology \in Topologies /\ connected \in BOOLEAN
  /\ ring \in [1 .. RingSize -> Nat] /\ slot \in 0 .. RingSize - 1
  /\ down \in Seq(Serial) /\ Len(down) <= LinkCap
  /\ up \in Seq(Message) /\ Len(up) <= LinkCap
  /\ toMember \in [Radio -> Seq(Serial)] /\ toCoord \in [Radio -> Seq(Serial)]
  /\ queue \in [Member -> Seq(Serial)] /\ \A m \in Member : Len(queue[m]) <= QueueCap
  /\ busy \in [Member -> Serial \cup {None}]
  /\ publish \in Seq(Message) /\ Len(publish) <= PublishCap
  /\ outgoing \in Message \cup {None}
  /\ plugged \in [Member -> BOOLEAN] /\ known \subseteq Radio
  /\ accepted \in Seq(Command) /\ booted \in 0 .. Len(accepted)
  /\ executed \in [Member -> Seq(Serial)] /\ answered \in Seq(Serial)
  /\ lost \subseteq Serial /\ faults \in 0 .. MaxFaults

(* The bridge remembers the most recent command ids of the current boot:   *)
(* an id is accepted again only after more than RingSize - 1 other ones.   *)
NoEarlyRepeat ==
  \A i, j \in booted + 1 .. Len(accepted) :
    i < j /\ accepted[i].id = accepted[j].id => j - i > RingSize

Increasing(s) == \A i, j \in DOMAIN s : i < j => s[i] < s[j]

(* Commands for one inverter are executed in the order in which the bridge *)
(* accepted them, each at most once and only by the inverter of its topic, *)
(* whatever is lost or restarted on the way.                               *)
ExecutedInOrder ==
  \A m \in Member : /\ Increasing(executed[m])
                    /\ \A n \in Entries(executed[m]) : accepted[n].target = m

(* Results reach the broker at most once, only of commands that were       *)
(* executed, and for one inverter in the order of execution.               *)
AnsweredInOrder ==
  /\ \A i, j \in DOMAIN answered :
       i < j /\ accepted[answered[i]].target = accepted[answered[j]].target => answered[i] < answered[j]
  /\ \A n \in Entries(answered) : n \in Entries(executed[accepted[n].target])

(* Nothing hangs: a command of which neither itself nor its result is      *)
(* dropped is answered, once the broker and the adapters are back.         *)
AnsweredUnlessDropped ==
  \A n \in 1 .. MaxAccepted :
    [](n \notin lost) => (n \in Serial ~> n \in Entries(answered))

(* "ESP publishes exactly one result with the same command_id": every      *)
(* command the bridge accepted is answered.                                *)
EveryCommandAnswered ==
  \A n \in 1 .. MaxAccepted : n \in Serial ~> n \in Entries(answered)
=============================================================================
