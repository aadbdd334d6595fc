----------------------------- MODULE MeshFrames -----------------------------
(***************************************************************************)
(* EspNowMesh in a finalised installation: the sequence numbers of one     *)
(* board, the filter of the boards that listen to it, announcements and    *)
(* restarts.  The sender is the coordinator, whose listeners are members,  *)
(* or a member, whose listener is the coordinator; numbers and filters of  *)
(* different senders have nothing in common.                               *)
(*                                                                         *)
(* On the sender two tasks transmit: the worker of the mesh announces, and *)
(* the task that uses the mesh (the UART worker, the MQTT client or the    *)
(* inverter loop, here "user") sends commands, telemetry and results, and  *)
(* the announcement at the end of start().  Both take their number from    *)
(* sequence_ without a lock and give the frame to the radio later, so they *)
(* can meet anywhere between.  The radio keeps the order, loses frames and *)
(* may repeat a frame for a single board; a broadcast is never repeated.   *)
(***************************************************************************)
EXTENDS Integers, Sequences, FiniteSets

CONSTANTS
  Listener,    \* the boards that listen to the sender
  Roles,       \* roles of the sender, a subset of {"coordinator", "member"}
  InboxCap,    \* receive_queue_
  Interval,    \* espnow_announce_interval_ms, in ticks
  MaxNumber,   \* bound on sequence_: messages stop below it, and it stays there
  MaxSent,     \* bound on the messages for one listener
  MaxFaults    \* bound on lost frames, repeated frames and restarts

Task == {"worker", "user"}

ASSUME FramesAssumption ==
  /\ IsFiniteSet(Listener) /\ Roles \subseteq {"coordinator", "member"}
  /\ InboxCap \in Nat \ {0} /\ Interval \in Nat \ {0}
  /\ MaxNumber \in Nat /\ MaxSent \in Nat /\ MaxFaults \in Nat

VARIABLES
  role,       \* of the sender, fixed
  sequence,   \* sequence_ of the sender
  task,       \* what the sending tasks are about
  waited,     \* how long the worker has waited for a frame of any board
  prompts,    \* listeners whose announcement is in the sender's receive queue
  inbox,      \* receive_queue_ of a listener: frames of the sender
  last,       \* last_peer_sequence_ of a listener, for the sender
  sent,       \* history: messages for a listener sent so far
  taken,      \* history: messages a listener has handed to its sink
  fresh,      \* history: has heard the sender since its numbers went back
  faults

vars == <<role, sequence, task, waited, prompts, inbox, last, sent, taken, fresh, faults>>

(* A frame: the listeners it is for, its number and, as history, which     *)
(* message it is (0: an announcement), whether the radio repeats it and    *)
(* whether it was numbered and sent with nothing of the other task between.*)
Frame == [for : SUBSET Listener, number : 0 .. MaxNumber, message : 0 .. MaxSent,
          repeat : BOOLEAN, clean : BOOLEAN]
Hello == [for |-> Listener, number |-> 0, message |-> 0, repeat |-> FALSE, clean |-> TRUE]
Message(r, k) == [for |-> {r}, number |-> 0, message |-> k, repeat |-> FALSE, clean |-> TRUE]
IsHello(f) == f.message = 0
Unclean(f) == [f EXCEPT !.clean = FALSE]
Entries(s) == {s[i] : i \in DOMAIN s}

Idle == [step |-> "idle"]
Reading(n, f) == [step |-> "number", read |-> n, frame |-> f]

(* start() announces from the user task; the worker waits for frames.      *)
Started == [worker |-> Idle, user |-> Reading(0, Hello)]
-----------------------------------------------------------------------------
(*                              Sending                                    *)

Other(t) == IF t = "worker" THEN "user" ELSE "worker"
Busy(t) == task[t] # Idle

(* Announcements under way no longer vouch for the sender's numbers.       *)
Doubted ==
  [r \in Listener |-> [i \in DOMAIN inbox[r] |->
     IF IsHello(inbox[r][i]) THEN Unclean(inbox[r][i]) ELSE inbox[r][i]]]
NoneFresh == [r \in Listener |-> FALSE]

(* send_packet reads sequence_; when the other task is sending as well,    *)
(* neither can rely on its number any more.                                *)
Begin(t, f) ==
  IF Busy(Other(t))
  THEN /\ task' = [task EXCEPT ![t] = Reading(sequence, Unclean(f)),
                               ![Other(t)].frame = Unclean(@)]
       /\ inbox' = Doubted /\ fresh' = NoneFresh
  ELSE /\ task' = [task EXCEPT ![t] = Reading(sequence, f)]
       /\ UNCHANGED <<inbox, fresh>>

(* .. stores the next number and puts it into the header ..                *)
Number(t) ==
  /\ task[t].step = "number"
  /\ LET next == IF task[t].read < MaxNumber THEN task[t].read + 1 ELSE MaxNumber
     IN  /\ sequence' = next
         /\ task' = [task EXCEPT ![t] = [step |-> "send", frame |-> [@.frame EXCEPT !.number = next]]]
  /\ UNCHANGED <<role, waited, prompts, inbox, last, sent, taken, fresh, faults>>

(* Faulty variant: nothing is ever dropped.                                *)
QueuedUnbounded(box, f) == Append(box, f)

(* receive_callback: a full queue drops the frame.                         *)
Queued(box, f) == IF Len(box) < InboxCap THEN Append(box, f) ELSE box
Heard(f, by) == [r \in Listener |-> IF r \in by THEN Queued(inbox[r], f) ELSE inbox[r]]

Fault == faults < MaxFaults /\ faults' = faults + 1

(* .. and gives the frame to the radio, where each board it is for hears   *)
(* it once, never or, if it is for one board, twice.                       *)
Transmit(t) ==
  /\ task[t].step = "send"
  /\ task' = [task EXCEPT ![t] = Idle]
  /\ LET f == task[t].frame
     IN  \/ inbox' = Heard(f, f.for) /\ UNCHANGED faults
         \/ Fault /\ \E by \in (SUBSET f.for) \ {f.for} : inbox' = Heard(f, by)
         \/ /\ Fault /\ ~IsHello(f)
            /\ inbox' = [r \in Listener |->
                           IF r \in f.for THEN Queued(Queued(inbox[r], f), [f EXCEPT !.repeat = TRUE])
                           ELSE inbox[r]]
  /\ UNCHANGED <<role, waited, sequence, prompts, last, sent, taken, fresh>>

(* send_command, send_telemetry, send_command_result.                      *)
SendMessage(r) ==
  /\ ~Busy("user") /\ sequence < MaxNumber - 1 /\ sent[r] < MaxSent
  /\ sent' = [sent EXCEPT ![r] = @ + 1]
  /\ Begin("user", Message(r, sent[r] + 1))
  /\ UNCHANGED <<role, waited, sequence, prompts, last, taken, faults>>

(* worker_task waits for a frame; one of any board, of this installation   *)
(* or of another, for it or for all, starts the wait over.                 *)
Tick ==
  /\ ~Busy("worker") /\ prompts = {} /\ waited < Interval
  /\ waited' = waited + 1
  /\ UNCHANGED <<role, sequence, task, prompts, inbox, last, sent, taken, fresh, faults>>

Overhear ==
  /\ ~Busy("worker") /\ waited < Interval
  /\ waited' = 0
  /\ UNCHANGED <<role, sequence, task, prompts, inbox, last, sent, taken, fresh, faults>>

(* Faulty variant: once it has sent anything, a board stays quiet.         *)
AnnounceQuietUntilSent ==
  /\ ~Busy("worker") /\ waited = Interval /\ sequence = 0
  /\ waited' = 0 /\ Begin("worker", Hello)
  /\ UNCHANGED <<role, sequence, prompts, last, sent, taken, faults>>

(* The wait has timed out: nothing came for the announcement interval.     *)
AnnounceQuiet ==
  /\ ~Busy("worker") /\ waited = Interval
  /\ waited' = 0 /\ Begin("worker", Hello)
  /\ UNCHANGED <<role, sequence, prompts, last, sent, taken, faults>>

(* receive: the coordinator answers the hello of a member with its own; a  *)
(* member only notes the coordinator's.                                    *)
AnswerHello(r) ==
  /\ ~Busy("worker") /\ waited < Interval /\ r \in prompts
  /\ prompts' = prompts \ {r} /\ waited' = 0
  /\ IF role = "coordinator" THEN Begin("worker", Hello) ELSE UNCHANGED <<task, inbox, fresh>>
  /\ UNCHANGED <<role, sequence, last, sent, taken, faults>>
-----------------------------------------------------------------------------
(*                             Listening                                   *)

(* Faulty variants: the comparison lets a repeated frame pass; a hello is  *)
(* judged like any other frame.                                            *)
AcceptSequenceTwice(r, f) == IsHello(f) \/ f.number >= last[r]
AcceptSequenceAlways(r, f) == f.number > last[r]

AcceptSequence(r, f) == IsHello(f) \/ f.number > last[r]

(* receive: a hello takes the sender's number over; a message goes to the  *)
(* sink when its number is new.                                            *)
Receive(r, f) ==
  /\ inbox[r] # <<>> /\ f = Head(inbox[r])
  /\ inbox' = [inbox EXCEPT ![r] = Tail(@)]
  /\ last' = IF AcceptSequence(r, f) THEN [last EXCEPT ![r] = f.number] ELSE last
  /\ taken' = IF AcceptSequence(r, f) /\ ~IsHello(f) THEN [taken EXCEPT ![r] = Append(@, f.message)] ELSE taken
  /\ fresh' = [fresh EXCEPT ![r] = @ \/ (IsHello(f) /\ f.clean)]
  /\ UNCHANGED <<role, waited, sequence, task, prompts, sent, faults>>

(* A listener that hears nothing announces itself, or it has restarted.    *)
ListenerAnnounces(r) ==
  /\ inbox[r] = <<>> /\ r \notin prompts
  /\ prompts' = prompts \cup {r}
  /\ UNCHANGED <<role, waited, sequence, task, inbox, last, sent, taken, fresh, faults>>
-----------------------------------------------------------------------------
(* The sender restarts: its numbers start over, and start() announces.     *)
RestartSender ==
  /\ Fault
  /\ sequence' = 0 /\ task' = Started /\ waited' = 0 /\ prompts' = {}
  /\ inbox' = Doubted /\ fresh' = NoneFresh
  /\ UNCHANGED <<role, last, sent, taken>>

(* A listener restarts with an empty queue and an empty filter.            *)
RestartListener(r) ==
  /\ Fault
  /\ inbox' = [inbox EXCEPT ![r] = <<>>] /\ last' = [last EXCEPT ![r] = 0]
  /\ UNCHANGED <<role, waited, sequence, task, prompts, sent, taken, fresh>>

Init ==
  /\ role \in Roles
  /\ sequence = 0 /\ task = Started /\ waited = 0 /\ prompts = {}
  /\ inbox = [r \in Listener |-> <<>>] /\ last = [r \in Listener |-> 0]
  /\ sent = [r \in Listener |-> 0] /\ taken = [r \in Listener |-> <<>>]
  /\ fresh = [r \in Listener |-> TRUE]
  /\ faults = 0

Send(t) == Number(t) \/ Transmit(t)
Listen(r) == \E f \in Entries(inbox[r]) : Receive(r, f)

Next ==
  \/ \E t \in Task : Send(t)
  \/ Tick \/ Overhear \/ AnnounceQuiet \/ RestartSender
  \/ \E r \in Listener : \/ SendMessage(r) \/ AnswerHello(r)
                         \/ Listen(r) \/ ListenerAnnounces(r) \/ RestartListener(r)

Spec == Init /\ [][Next]_vars

(* The tasks run and time goes on; nobody promises an interval without a   *)
(* frame.                                                                  *)
FairSpec ==
  /\ Spec
  /\ \A t \in Task : WF_vars(Send(t))
  /\ WF_vars(Tick) /\ WF_vars(AnnounceQuiet)
  /\ \A r \in Listener : WF_vars(AnswerHello(r)) /\ WF_vars(Listen(r))
-----------------------------------------------------------------------------
(*                              Properties                                 *)

(* Types, the capacity of the receive queues, and history in step.         *)
TypeOK ==
  /\ role \in Roles /\ sequence \in 0 .. MaxNumber /\ prompts \subseteq Listener
  /\ waited \in 0 .. Interval
  /\ \A t \in Task : \/ ~Busy(t)
                     \/ task[t] \in [step : {"number"}, read : 0 .. MaxNumber, frame : Frame]
                     \/ task[t] \in [step : {"send"}, frame : Frame]
  /\ \A r \in Listener : Len(inbox[r]) <= InboxCap /\ Entries(inbox[r]) \subseteq Frame
  /\ last \in [Listener -> 0 .. MaxNumber]
  /\ sent \in [Listener -> 0 .. MaxSent]
  /\ \A r \in Listener : Entries(taken[r]) \subseteq 1 .. sent[r]
  /\ fresh \in [Listener -> BOOLEAN] /\ faults \in 0 .. MaxFaults

(* Whatever is lost, repeated or restarted, and however the two sending    *)
(* tasks meet: messages reach the sink in order and at most once.          *)
Channel == INSTANCE MeshChannel
ChannelSpec == Channel!Spec

(* The filter refuses a message only if the radio repeated it, if it was   *)
(* numbered while the other task was sending, or if the sender restarted   *)
(* or mixed up its numbers and was not heard announcing itself since.      *)
RefusedForAReason ==
  [][\A r \in Listener : \A f \in Entries(inbox[r]) :
       Receive(r, f) /\ ~IsHello(f) /\ f.clean /\ ~f.repeat /\ fresh[r]
         => taken'[r] = Append(taken[r], f.message)]_vars

(* A sender that restarted or mixed up its numbers is heard again, provided*)
(* that the air is quiet for an announcement interval now and then: it     *)
(* announces itself until it gets through.                                 *)
HeardWhenQuiet == []<>(waited = Interval) => \A r \in Listener : ~fresh[r] ~> fresh[r]

(* "Members announce every five seconds until learned": a member whose     *)
(* coordinator has not heard it since its restart announces itself again.  *)
AnnouncedUntilLearned ==
  \A r \in Listener : role = "member" /\ ~fresh[r] ~> fresh[r] \/ Busy("worker")
=============================================================================
