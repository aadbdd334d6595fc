-------------------------- MODULE MeshFramesProofs --------------------------
(***************************************************************************)
(* Theorems about MeshFrames for any number of listeners, any bounds and   *)
(* any number of lost and repeated frames and of restarts: its types, that *)
(* it implements MeshChannel, and that the filter refuses repeats only.    *)
(***************************************************************************)
EXTENDS MeshFrames, TLAPS, SequenceTheorems

Number0 == 0 .. MaxNumber
ReadingTask == [step : {"number"}, read : Number0, frame : Frame]
SendingTask == [step : {"send"}, frame : Frame]

(* The shape of every variable.                                            *)
Typed ==
  /\ role \in Roles /\ sequence \in Number0 /\ prompts \subseteq Listener /\ waited \in 0 .. Interval
  /\ task \in [Task -> {Idle} \cup ReadingTask \cup SendingTask]
  /\ inbox \in [Listener -> Seq(Frame)] /\ \A r \in Listener : Len(inbox[r]) <= InboxCap
  /\ last \in [Listener -> Number0] /\ sent \in [Listener -> 0 .. MaxSent]
  /\ taken \in [Listener -> Seq(Nat)]
  /\ fresh \in [Listener -> BOOLEAN] /\ faults \in 0 .. MaxFaults

(* A message is younger than what its listener has taken.                  *)
Younger(r, f) == \A i \in DOMAIN taken[r] : taken[r][i] < f.message

(* f was put into a queue before g, and g is younger or its repetition.    *)
Before(f, g, next) ==
  IsHello(f) \/ IsHello(g) \/ f.message < g.message
    \/ (next /\ f.message = g.message /\ f.number = g.number)

(* A queue holds messages in the order in which they were sent; only its   *)
(* first one may have been taken before, and then its number is known.     *)
QueueInv(r) ==
  /\ \A i \in DOMAIN taken[r] : taken[r][i] \in 1 .. sent[r]
  /\ \A i \in DOMAIN inbox[r] : ~IsHello(inbox[r][i]) =>
       /\ inbox[r][i].message \in 1 .. sent[r]
       /\ Younger(r, inbox[r][i]) \/ (i = 1 /\ inbox[r][i].number <= last[r])
  /\ \A i, j \in DOMAIN inbox[r] : i < j => Before(inbox[r][i], inbox[r][j], j = i + 1)

(* The message about to be sent is younger than all others for its         *)
(* listener; the worker sends announcements only.                          *)
TaskInv ==
  /\ Busy("worker") => IsHello(task["worker"].frame)
  /\ Busy("user") /\ ~IsHello(task["user"].frame) =>
       \A r \in task["user"].frame.for :
         /\ task["user"].frame.message \in 1 .. sent[r]
         /\ Younger(r, task["user"].frame)
         /\ \A i \in DOMAIN inbox[r] : inbox[r][i].message < task["user"].frame.message

OrderInv == TaskInv /\ \A r \in Listener : QueueInv(r)
-----------------------------------------------------------------------------
(*                              Frames                                     *)

LEMMA HelloIsFrame == Hello \in Frame /\ IsHello(Hello)
BY FramesAssumption DEF Hello, Frame, IsHello

LEMMA UncleanFacts ==
  ASSUME NEW f \in Frame
  PROVE  /\ Unclean(f) \in Frame
         /\ Unclean(f).for = f.for /\ Unclean(f).number = f.number
         /\ Unclean(f).message = f.message /\ Unclean(f).repeat = f.repeat
BY DEF Unclean, Frame

LEMMA MessageFacts ==
  ASSUME NEW r \in Listener, NEW k \in 1 .. MaxSent
  PROVE  Message(r, k) \in Frame /\ Message(r, k).for = {r} /\ Message(r, k).message = k
<1>1. {r} \in SUBSET Listener /\ 0 \in 0 .. MaxNumber /\ k \in 0 .. MaxSent
  BY FramesAssumption
<1> QED
  BY <1>1 DEF Message, Frame

LEMMA StartedFacts ==
  /\ Started \in [Task -> {Idle} \cup ReadingTask \cup SendingTask]
  /\ Started["worker"] = Idle /\ Started["user"].frame = Hello
<1>1. Reading(0, Hello) \in ReadingTask /\ Reading(0, Hello).frame = Hello
  BY HelloIsFrame, FramesAssumption DEF Reading, ReadingTask, Number0
<1>2. DOMAIN Started = Task /\ Started["worker"] = Idle /\ Started["user"] = Reading(0, Hello)
  BY DEF Started, Task
<1>3. Started = [t \in Task |-> Started[t]]
  BY <1>2 DEF Started
<1> QED
  BY <1>1, <1>2, <1>3 DEF Task

LEMMA IdleIsNone == Idle \notin ReadingTask \cup SendingTask
BY DEF Idle, ReadingTask, SendingTask

(* Doubting announcements changes nothing but their own flag.              *)
LEMMA DoubtedFacts ==
  ASSUME inbox \in [Listener -> Seq(Frame)]
  PROVE  /\ Doubted \in [Listener -> Seq(Frame)]
         /\ \A r \in Listener :
              /\ Len(Doubted[r]) = Len(inbox[r])
              /\ \A i \in DOMAIN inbox[r] :
                   /\ Doubted[r][i].message = inbox[r][i].message
                   /\ Doubted[r][i].number = inbox[r][i].number
<1>1. SUFFICES ASSUME NEW r \in Listener
               PROVE  /\ Doubted[r] \in Seq(Frame) /\ Len(Doubted[r]) = Len(inbox[r])
                      /\ \A i \in DOMAIN inbox[r] :
                           /\ Doubted[r][i].message = inbox[r][i].message
                           /\ Doubted[r][i].number = inbox[r][i].number
  BY DEF Doubted
<1> DEFINE s == inbox[r]
           d == [i \in DOMAIN s |-> IF IsHello(s[i]) THEN Unclean(s[i]) ELSE s[i]]
<1>2. Doubted[r] = d
  BY DEF Doubted
<1>3. s \in Seq(Frame) /\ DOMAIN s = 1 .. Len(s) /\ Len(s) \in Nat
  OBVIOUS
<1>4. \A i \in DOMAIN s : s[i] \in Frame
  BY <1>3
<1> HIDE DEF s
<1>5. \A i \in DOMAIN s : d[i] \in Frame /\ d[i].message = s[i].message /\ d[i].number = s[i].number
  BY <1>4, UncleanFacts
<1>6. d \in [1 .. Len(s) -> Frame]
  BY <1>3, <1>5
<1> HIDE DEF d
<1>7. d \in Seq(Frame) /\ Len(d) = Len(s)
  <2>1. d \in Seq(Frame)
    <3>1. Seq(Frame) = UNION {[1 .. n -> Frame] : n \in Nat}
      BY SeqDef
    <3>2. [1 .. Len(s) -> Frame] \in {[1 .. n -> Frame] : n \in Nat}
      BY <1>3
    <3> QED
      BY <1>6, <3>1, <3>2
  <2>2. DOMAIN d = 1 .. Len(s)
    BY <1>6
  <2>3. Len(d) = Len(s)
    BY <1>3, <2>1, <2>2
  <2> QED
    BY <2>1, <2>3
<1> QED
  BY <1>2, <1>5, <1>7 DEF s

(* What a queue is after a frame was heard.                                *)
LEMMA QueuedFacts ==
  ASSUME NEW s \in Seq(Frame), Len(s) <= InboxCap, NEW f \in Frame
  PROVE  /\ Queued(s, f) \in Seq(Frame) /\ Len(Queued(s, f)) <= InboxCap
         /\ Queued(s, f) = s
              \/ (/\ Len(Queued(s, f)) = Len(s) + 1 /\ Queued(s, f)[Len(s) + 1] = f
                  /\ \A i \in 1 .. Len(s) : Queued(s, f)[i] = s[i])
BY FramesAssumption DEF Queued
-----------------------------------------------------------------------------
(*                         Shapes of the variables                         *)

LEMMA TypedStart == Init => Typed
BY StartedFacts, FramesAssumption DEF Init, Typed, Number0

LEMMA BeginIsTyped ==
  ASSUME Typed, NEW t \in Task, NEW f \in Frame, ~Busy(t), Begin(t, f)
  PROVE  /\ task' \in [Task -> {Idle} \cup ReadingTask \cup SendingTask]
         /\ inbox' \in [Listener -> Seq(Frame)] /\ \A r \in Listener : Len(inbox'[r]) <= InboxCap
         /\ fresh' \in [Listener -> BOOLEAN]
         /\ task'[t] = Reading(sequence, f) \/ task'[t] = Reading(sequence, Unclean(f))
         /\ Busy(Other(t)) => /\ task'[Other(t)] # Idle
                              /\ task'[Other(t)].frame \in {task[Other(t)].frame, Unclean(task[Other(t)].frame)}
         /\ ~Busy(Other(t)) => task'[Other(t)] = task[Other(t)]
         /\ inbox' = inbox \/ inbox' = Doubted
<1> DEFINE o == Other(t)
<1>1. o \in Task /\ o # t
  BY DEF Task, Other
<1>2. Unclean(f) \in Frame /\ sequence \in Number0
  BY UncleanFacts DEF Typed
<1>3. /\ Reading(sequence, f) \in ReadingTask /\ Reading(sequence, Unclean(f)) \in ReadingTask
  BY <1>2 DEF Reading, ReadingTask
<1>4. CASE ~Busy(o)
  BY <1>1, <1>3, <1>4 DEF Begin, Typed
<1>5. CASE Busy(o)
  <2> DEFINE g == [task[o] EXCEPT !.frame = Unclean(@)]
  <2>1. task[o] \in ReadingTask \cup SendingTask
    BY <1>1, <1>5 DEF Busy, Typed
  <2>2. task[o].frame \in Frame /\ Unclean(task[o].frame) \in Frame
    BY <2>1, UncleanFacts DEF ReadingTask, SendingTask
  <2>3. g \in ReadingTask \cup SendingTask /\ g.frame = Unclean(task[o].frame)
    BY <2>1, <2>2 DEF ReadingTask, SendingTask
  <2>4. task' = [task EXCEPT ![t] = Reading(sequence, Unclean(f)), ![o] = g]
    BY <1>5 DEF Begin
  <2> HIDE DEF g, o
  <2>5. /\ task' \in [Task -> {Idle} \cup ReadingTask \cup SendingTask]
        /\ task'[t] = Reading(sequence, Unclean(f)) /\ task'[o] = g
    BY <1>1, <1>3, <2>3, <2>4 DEF Typed
  <2>6. /\ inbox' = Doubted /\ fresh' = NoneFresh
    BY <1>5 DEF Begin, o
  <2>7. /\ inbox' \in [Listener -> Seq(Frame)] /\ \A r \in Listener : Len(inbox'[r]) <= InboxCap
        /\ fresh' \in [Listener -> BOOLEAN]
    BY <2>6, DoubtedFacts DEF Typed, NoneFresh
  <2>8. g # Idle
    BY <2>3, IdleIsNone
  <2> QED
    BY <1>5, <2>3, <2>5, <2>6, <2>7, <2>8 DEF o
<1> QED
  BY <1>4, <1>5

LEMMA FaultIsBounded ==
  ASSUME Fault, faults \in 0 .. MaxFaults
  PROVE  faults' \in 0 .. MaxFaults
BY FramesAssumption DEF Fault

(* What a transmission leaves in the queue of a listener: nothing new, the *)
(* frame, or the frame twice.                                              *)
LEMMA TransmitFacts ==
  ASSUME Typed, NEW t \in Task, Transmit(t), NEW r \in Listener
  PROVE  LET f == task[t].frame
             g == [f EXCEPT !.repeat = TRUE]
         IN  /\ f \in Frame /\ g \in Frame /\ g.message = f.message /\ g.number = f.number
             /\ inbox' \in [Listener -> Seq(Frame)]
             /\ \/ inbox'[r] = inbox[r]
                \/ r \in f.for /\ inbox'[r] = Queued(inbox[r], f)
                \/ r \in f.for /\ inbox'[r] = Queued(Queued(inbox[r], f), g)
<1> DEFINE f == task[t].frame
           g == [f EXCEPT !.repeat = TRUE]
<1>1. f \in Frame
  BY DEF Transmit, Typed, Idle, ReadingTask, SendingTask
<1> HIDE DEF f
<1>2. g \in Frame /\ g.message = f.message /\ g.number = f.number
  BY <1>1 DEF Frame
<1> HIDE DEF g
<1>3. \A x \in Listener :
        /\ inbox[x] \in Seq(Frame) /\ Queued(inbox[x], f) \in Seq(Frame)
        /\ Queued(Queued(inbox[x], f), g) \in Seq(Frame)
  BY <1>1, <1>2, QueuedFacts DEF Typed
<1>4. \/ \E by \in SUBSET f.for : inbox' = Heard(f, by)
      \/ inbox' = [x \in Listener |-> IF x \in f.for THEN Queued(Queued(inbox[x], f), g) ELSE inbox[x]]
  BY DEF Transmit, f, g
<1>5. CASE \E by \in SUBSET f.for : inbox' = Heard(f, by)
  BY <1>1, <1>2, <1>3, <1>5 DEF Heard, f, g
<1>6. CASE inbox' = [x \in Listener |-> IF x \in f.for THEN Queued(Queued(inbox[x], f), g) ELSE inbox[x]]
  BY <1>1, <1>2, <1>3, <1>6 DEF f, g
<1> QED
  BY <1>4, <1>5, <1>6

(* Every step keeps the shapes.                                            *)
LEMMA TypedStep ==
  ASSUME Typed, [Next]_vars
  PROVE  Typed'
<1>1. ASSUME NEW t \in Task, Number(t)
      PROVE  Typed'
  <2> DEFINE next == IF task[t].read < MaxNumber THEN task[t].read + 1 ELSE MaxNumber
             f == [task[t].frame EXCEPT !.number = next]
  <2>1. task[t] \in ReadingTask
    BY <1>1 DEF Number, Typed, Idle, ReadingTask, SendingTask
  <2>2. next \in Number0
    BY <2>1, FramesAssumption DEF ReadingTask, Number0
  <2> HIDE DEF next
  <2>3. f \in Frame
    BY <2>1, <2>2 DEF ReadingTask, Frame, Number0
  <2>4. task' = [task EXCEPT ![t] = [step |-> "send", frame |-> f]] /\ sequence' = next
    BY <1>1 DEF Number, next
  <2> HIDE DEF f
  <2>5. task' \in [Task -> {Idle} \cup ReadingTask \cup SendingTask]
    BY <2>3, <2>4 DEF Typed, SendingTask
  <2> QED
    BY <1>1, <2>2, <2>4, <2>5 DEF Number, Typed
<1>2. ASSUME NEW t \in Task, Transmit(t)
      PROVE  Typed'
  <2>1. \A r \in Listener : inbox'[r] \in Seq(Frame) /\ Len(inbox'[r]) <= InboxCap
    <3> TAKE r \in Listener
    <3>1. /\ inbox[r] \in Seq(Frame) /\ Len(inbox[r]) <= InboxCap
      BY DEF Typed
    <3> DEFINE f == task[t].frame
               g == [f EXCEPT !.repeat = TRUE]
    <3>2. /\ f \in Frame /\ g \in Frame
          /\ inbox'[r] \in {inbox[r], Queued(inbox[r], f), Queued(Queued(inbox[r], f), g)}
      BY <1>2, TransmitFacts
    <3> HIDE DEF f, g
    <3>3. Queued(inbox[r], f) \in Seq(Frame) /\ Len(Queued(inbox[r], f)) <= InboxCap
      BY <3>1, <3>2, QueuedFacts
    <3>4. Queued(Queued(inbox[r], f), g) \in Seq(Frame) /\ Len(Queued(Queued(inbox[r], f), g)) <= InboxCap
      BY <3>2, <3>3, QueuedFacts
    <3> QED
      BY <3>1, <3>2, <3>3, <3>4
  <2>2. inbox' \in [Listener -> Seq(Frame)]
    <3>1. CASE Listener = {}
      BY <1>2, <3>1 DEF Transmit, Heard
    <3>2. CASE Listener # {}
      BY <1>2, <3>2, TransmitFacts
    <3> QED
      BY <3>1, <3>2
  <2>3. task' \in [Task -> {Idle} \cup ReadingTask \cup SendingTask]
    BY <1>2 DEF Transmit, Typed
  <2>4. faults' \in 0 .. MaxFaults
    BY <1>2, FaultIsBounded DEF Transmit, Typed
  <2> QED
    BY <1>2, <2>1, <2>2, <2>3, <2>4 DEF Transmit, Typed
<1>3. ASSUME NEW r \in Listener, SendMessage(r)
      PROVE  Typed'
  <2>1. sent[r] + 1 \in 1 .. MaxSent /\ sent' \in [Listener -> 0 .. MaxSent]
    BY <1>3, FramesAssumption DEF SendMessage, Typed
  <2>2. Message(r, sent[r] + 1) \in Frame /\ "user" \in Task
    BY <2>1, MessageFacts DEF Task
  <2> QED
    BY <1>3, <2>1, <2>2, BeginIsTyped DEF SendMessage, Typed
<1>4. ASSUME AnnounceQuiet
      PROVE  Typed'
  <2>1. "worker" \in Task
    BY DEF Task
  <2>2. waited' \in 0 .. Interval
    BY <1>4, FramesAssumption DEF AnnounceQuiet
  <2> QED
    BY <1>4, <2>1, <2>2, HelloIsFrame, BeginIsTyped DEF AnnounceQuiet, Typed
<1>5. ASSUME NEW r \in Listener, AnswerHello(r)
      PROVE  Typed'
  <2>1. "worker" \in Task
    BY DEF Task
  <2>2. waited' \in 0 .. Interval
    BY <1>5, FramesAssumption DEF AnswerHello
  <2> QED
    BY <1>5, <2>1, <2>2, HelloIsFrame, BeginIsTyped DEF AnswerHello, Typed
<1>6. ASSUME NEW r \in Listener, NEW f, Receive(r, f)
      PROVE  Typed'
  <2>1. /\ inbox[r] \in Seq(Frame) /\ Len(inbox[r]) <= InboxCap /\ inbox[r] # <<>>
        /\ f = Head(inbox[r])
    BY <1>6 DEF Receive, Typed
  <2>2. f \in Frame /\ Tail(inbox[r]) \in Seq(Frame) /\ Len(Tail(inbox[r])) <= InboxCap
    BY <2>1, FramesAssumption
  <2>3. /\ inbox' \in [Listener -> Seq(Frame)]
        /\ \A x \in Listener : Len(inbox'[x]) <= InboxCap
    BY <1>6, <2>2 DEF Receive, Typed
  <2>4. f.number \in Number0 /\ f.message \in Nat
    BY <2>2, FramesAssumption DEF Frame, Number0
  <2>5. last' \in [Listener -> Number0] /\ taken' \in [Listener -> Seq(Nat)]
    BY <1>6, <2>4 DEF Receive, Typed
  <2>6. fresh' \in [Listener -> BOOLEAN]
    BY <1>6 DEF Receive, Typed
  <2> QED
    BY <1>6, <2>3, <2>5, <2>6 DEF Receive, Typed
<1>7. ASSUME NEW r \in Listener, ListenerAnnounces(r)
      PROVE  Typed'
  BY <1>7 DEF ListenerAnnounces, Typed
<1>8. CASE RestartSender
  BY <1>8, StartedFacts, DoubtedFacts, FaultIsBounded, FramesAssumption
  DEF RestartSender, Typed, NoneFresh, Number0
<1>9. ASSUME NEW r \in Listener, RestartListener(r)
      PROVE  Typed'
  BY <1>9, FaultIsBounded, FramesAssumption DEF RestartListener, Typed, Number0
<1>10. CASE Tick \/ Overhear
  BY <1>10, FramesAssumption DEF Tick, Overhear, Typed
<1>11. CASE UNCHANGED vars
  BY <1>11 DEF vars, Typed
<1> QED
  BY <1>1, <1>2, <1>3, <1>4, <1>5, <1>6, <1>7, <1>8, <1>9, <1>10, <1>11 DEF Next, Send, Listen
-----------------------------------------------------------------------------
(*                         Order of the messages                           *)

(* A queue stays in order when its numbers and messages stay the same.     *)
LEMMA QueueFrom ==
  ASSUME Typed, NEW r \in Listener, QueueInv(r), UNCHANGED <<taken, last>>,
         sent'[r] \in Nat, sent[r] <= sent'[r], inbox'[r] \in Seq(Frame), Len(inbox'[r]) = Len(inbox[r]),
         \A i \in DOMAIN inbox[r] : /\ inbox'[r][i].message = inbox[r][i].message
                                    /\ inbox'[r][i].number = inbox[r][i].number
  PROVE  QueueInv(r)'
<1>1. /\ DOMAIN inbox'[r] = DOMAIN inbox[r] /\ sent[r] \in Nat
      /\ \A i \in DOMAIN inbox[r] : inbox[r][i].message \in Nat
  <2>1. inbox[r] \in Seq(Frame) /\ sent[r] \in Nat
    BY FramesAssumption DEF Typed
  <2>2. \A i \in DOMAIN inbox[r] : inbox[r][i] \in Frame
    BY <2>1
  <2>3. DOMAIN inbox'[r] = 1 .. Len(inbox'[r]) /\ DOMAIN inbox[r] = 1 .. Len(inbox[r])
    BY <2>1
  <2>4. \A f \in Frame : f.message \in Nat
    BY FramesAssumption DEF Frame
  <2> QED
    BY <2>1, <2>2, <2>3, <2>4
<1>2. \A i \in DOMAIN taken'[r] : taken'[r][i] \in 1 .. sent'[r]
  BY <1>1 DEF QueueInv
<1>3. \A i \in DOMAIN inbox'[r] : ~IsHello(inbox'[r][i]) =>
        /\ inbox'[r][i].message \in 1 .. sent'[r]
        /\ Younger(r, inbox[r][i])' \/ (i = 1 /\ inbox'[r][i].number <= last'[r])
  BY <1>1 DEF QueueInv, IsHello, Younger
<1>4. \A i, j \in DOMAIN inbox'[r] : i < j => Before(inbox[r][i], inbox[r][j], j = i + 1)'
  BY <1>1 DEF QueueInv, IsHello, Before
<1> QED
  BY <1>2, <1>3, <1>4 DEF QueueInv

(* A queue stays in order when a younger message, or the repetition of its *)
(* last one, is appended.                                                  *)
LEMMA QueueAppend ==
  ASSUME Typed, NEW r \in Listener, UNCHANGED <<taken, last, sent>>,
         NEW s \in Seq(Frame), NEW f \in Frame, Len(s) <= InboxCap,
         \A i \in DOMAIN s : ~IsHello(s[i]) =>
           /\ s[i].message \in 1 .. sent[r]
           /\ Younger(r, s[i]) \/ (i = 1 /\ s[i].number <= last[r]),
         \A i, j \in DOMAIN s : i < j => Before(s[i], s[j], j = i + 1),
         ~IsHello(f) => f.message \in 1 .. sent[r] /\ Younger(r, f),
         \A i \in DOMAIN s : Before(s[i], f, i = Len(s))
  PROVE  LET q == Queued(s, f)
         IN  /\ \A i \in DOMAIN q : ~IsHello(q[i]) =>
                  /\ q[i].message \in 1 .. sent[r]
                  /\ Younger(r, q[i]) \/ (i = 1 /\ q[i].number <= last[r])
             /\ \A i, j \in DOMAIN q : i < j => Before(q[i], q[j], j = i + 1)
<1> DEFINE q == Queued(s, f)
<1>1. CASE q = s
  BY <1>1
<1>2. CASE /\ q \in Seq(Frame) /\ Len(q) = Len(s) + 1 /\ q[Len(s) + 1] = f
           /\ \A i \in 1 .. Len(s) : q[i] = s[i]
  <2> HIDE DEF q
  <2>1. DOMAIN q = 1 .. Len(s) + 1 /\ DOMAIN s = 1 .. Len(s) /\ Len(s) \in Nat
    BY <1>2
  <2>2. \A i \in DOMAIN q : i \in DOMAIN s \/ i = Len(s) + 1
    BY <2>1
  <2>3. ASSUME NEW i \in DOMAIN q, ~IsHello(q[i])
        PROVE  /\ q[i].message \in 1 .. sent[r]
               /\ Younger(r, q[i]) \/ (i = 1 /\ q[i].number <= last[r])
    BY <1>2, <2>1, <2>2, <2>3
  <2>4. ASSUME NEW i \in DOMAIN q, NEW j \in DOMAIN q, i < j
        PROVE  Before(q[i], q[j], j = i + 1)
    <3>1. i \in DOMAIN s /\ q[i] = s[i] /\ i \in Int
      BY <1>2, <2>1, <2>4
    <3>2. CASE j \in DOMAIN s
      BY <1>2, <2>1, <2>4, <3>1, <3>2
    <3>3. CASE j = Len(s) + 1
      <4>1. Before(s[i], f, i = Len(s))
        BY <3>1
      <4>2. (i = Len(s)) <=> (j = i + 1)
        BY <2>1, <3>1, <3>3
      <4> QED
        BY <1>2, <3>1, <3>3, <4>1, <4>2 DEF Before
    <3> QED
      BY <2>2, <3>2, <3>3
  <2> QED
    BY <2>3, <2>4 DEF q
<1> QED
  BY <1>1, <1>2, QueuedFacts

(* Sending starts with an announcement or with the youngest message.       *)
LEMMA BeginKeepsOrder ==
  ASSUME Typed, OrderInv, Typed', NEW t \in Task, NEW f \in Frame, ~Busy(t), Begin(t, f),
         UNCHANGED <<taken, last>>, \A r \in Listener : sent[r] <= sent'[r],
         t = "worker" => IsHello(f),
         ~IsHello(f) => \A r \in f.for :
                          /\ f.message \in 1 .. sent'[r] /\ Younger(r, f)
                          /\ \A i \in DOMAIN inbox[r] : inbox[r][i].message < f.message
  PROVE  OrderInv'
<1>1. /\ task'[t].frame \in {f, Unclean(f)}
      /\ Busy(Other(t)) => task'[Other(t)].frame \in {task[Other(t)].frame, Unclean(task[Other(t)].frame)}
      /\ ~Busy(Other(t)) => task'[Other(t)] = Idle
      /\ inbox' = inbox \/ inbox' = Doubted
  <2>1. task'[t] = Reading(sequence, f) \/ task'[t] = Reading(sequence, Unclean(f))
    BY BeginIsTyped
  <2>2. task'[t].frame \in {f, Unclean(f)}
    BY <2>1 DEF Reading
  <2> QED
    BY <2>2, BeginIsTyped DEF Busy
<1>2. \A r \in Listener :
        /\ inbox'[r] \in Seq(Frame) /\ inbox[r] \in Seq(Frame) /\ Len(inbox'[r]) = Len(inbox[r])
        /\ DOMAIN inbox'[r] = DOMAIN inbox[r]
        /\ \A i \in DOMAIN inbox[r] : /\ inbox'[r][i].message = inbox[r][i].message
                                       /\ inbox'[r][i].number = inbox[r][i].number
  <2>1. inbox \in [Listener -> Seq(Frame)] /\ inbox' \in [Listener -> Seq(Frame)]
    BY DEF Typed
  <2> QED
    BY <1>1, <2>1, DoubtedFacts
<1>3. \A r \in Listener : QueueInv(r)'
  BY <1>2, QueueFrom DEF OrderInv, Typed
<1>4. \A g \in Frame : Unclean(g).for = g.for /\ Unclean(g).message = g.message
  BY UncleanFacts
<1>5. Task = {t, Other(t)} /\ Other(t) \in Task /\ Other("worker") = "user" /\ Other("user") = "worker"
  BY DEF Task, Other
<1>6. /\ task'[t].frame.for = f.for /\ task'[t].frame.message = f.message
      /\ Busy(Other(t)) =>
           /\ task'[Other(t)].frame.for = task[Other(t)].frame.for
           /\ task'[Other(t)].frame.message = task[Other(t)].frame.message
  <2>1. Busy(Other(t)) => task[Other(t)].frame \in Frame
    BY <1>5 DEF Busy, Typed, ReadingTask, SendingTask
  <2> QED
    BY <1>1, <1>4, <2>1
<1>7. \A r \in Listener : sent[r] \in Nat /\ sent'[r] \in Nat
  BY FramesAssumption DEF Typed
<1>8. /\ Busy("worker") => IsHello(task["worker"].frame)
      /\ Busy("user") /\ ~IsHello(task["user"].frame) =>
           \A r \in task["user"].frame.for :
             /\ task["user"].frame.message \in 1 .. sent[r]
             /\ Younger(r, task["user"].frame)
             /\ \A i \in DOMAIN inbox[r] : inbox[r][i].message < task["user"].frame.message
  BY DEF OrderInv, TaskInv
<1>9. f.for \subseteq Listener /\ (Busy("user") => task["user"].frame.for \subseteq Listener)
  BY DEF Busy, Typed, Task, ReadingTask, SendingTask, Frame
<1>10. CASE t = "worker"
  <2>1. IsHello(task'["worker"].frame)
    BY <1>6, <1>10 DEF IsHello
  <2>2. ASSUME Busy("user")', ~IsHello(task'["user"].frame)
        PROVE  \A r \in task'["user"].frame.for :
                 /\ task'["user"].frame.message \in 1 .. sent'[r]
                 /\ Younger(r, task["user"].frame)'
                 /\ \A i \in DOMAIN inbox'[r] : inbox'[r][i].message < task'["user"].frame.message
    <3>1. Busy("user") /\ ~IsHello(task["user"].frame)
      BY <1>1, <1>5, <1>6, <1>10, <2>2 DEF Busy, IsHello
    <3> QED
      BY <1>2, <1>5, <1>6, <1>7, <1>8, <1>9, <1>10, <3>1 DEF Younger
  <2> QED
    BY <1>3, <2>1, <2>2 DEF OrderInv, TaskInv
<1>11. CASE t = "user"
  <2>1. Busy("worker")' => IsHello(task'["worker"].frame)
    BY <1>1, <1>5, <1>6, <1>8, <1>11 DEF Busy, IsHello
  <2>2. ASSUME ~IsHello(task'["user"].frame)
        PROVE  \A r \in task'["user"].frame.for :
                 /\ task'["user"].frame.message \in 1 .. sent'[r]
                 /\ Younger(r, task["user"].frame)'
                 /\ \A i \in DOMAIN inbox'[r] : inbox'[r][i].message < task'["user"].frame.message
    <3>1. ~IsHello(f)
      BY <1>6, <1>11, <2>2 DEF IsHello
    <3> QED
      BY <1>2, <1>6, <1>9, <1>11, <3>1 DEF Younger
  <2> QED
    BY <1>3, <2>1, <2>2 DEF OrderInv, TaskInv
<1> QED
  BY <1>10, <1>11 DEF Task

(* What a transmission does to a queue and to the messages under way.      *)
LEMMA TransmitKeepsOrder ==
  ASSUME Typed, OrderInv, Typed', NEW t \in Task, Transmit(t)
  PROVE  OrderInv'
<1> DEFINE f == task[t].frame
           g == [f EXCEPT !.repeat = TRUE]
<1>1. /\ UNCHANGED <<taken, last, sent>> /\ task' = [task EXCEPT ![t] = Idle] /\ Busy(t)
  BY DEF Transmit, Busy, Idle
<1>2. ASSUME NEW r \in Listener
      PROVE  QueueInv(r)'
  <2>1. /\ f \in Frame /\ g \in Frame /\ g.message = f.message /\ g.number = f.number
        /\ \/ inbox'[r] = inbox[r]
           \/ r \in f.for /\ inbox'[r] = Queued(inbox[r], f)
           \/ r \in f.for /\ inbox'[r] = Queued(Queued(inbox[r], f), g)
    BY TransmitFacts
  <2>2. r \in f.for /\ ~IsHello(f) =>
          /\ f.message \in 1 .. sent[r] /\ Younger(r, f)
          /\ \A i \in DOMAIN inbox[r] : inbox[r][i].message < f.message
    BY <1>1 DEF OrderInv, TaskInv, Task
  <2> DEFINE s == inbox[r]
             u == Queued(s, f)
             v == Queued(u, g)
  <2>3. /\ s \in Seq(Frame) /\ Len(s) <= InboxCap
        /\ \A i \in DOMAIN s : ~IsHello(s[i]) =>
             /\ s[i].message \in 1 .. sent[r]
             /\ Younger(r, s[i]) \/ (i = 1 /\ s[i].number <= last[r])
        /\ \A i, j \in DOMAIN s : i < j => Before(s[i], s[j], j = i + 1)
        /\ \A i \in DOMAIN taken[r] : taken[r][i] \in 1 .. sent[r]
    BY DEF OrderInv, QueueInv, Typed
  <2> HIDE DEF f, g, s
  <2>4. ASSUME r \in f.for
        PROVE  /\ u \in Seq(Frame) /\ Len(u) <= InboxCap
               /\ \A i \in DOMAIN u : ~IsHello(u[i]) =>
                    /\ u[i].message \in 1 .. sent[r]
                    /\ Younger(r, u[i]) \/ (i = 1 /\ u[i].number <= last[r])
               /\ \A i, j \in DOMAIN u : i < j => Before(u[i], u[j], j = i + 1)
    <3>1. \A i \in DOMAIN s : Before(s[i], f, i = Len(s))
      BY <2>2, <2>4 DEF Before, s
    <3>2. u \in Seq(Frame) /\ Len(u) <= InboxCap
      BY <2>1, <2>3, QueuedFacts
    <3> QED
      BY <1>1, <2>1, <2>2, <2>3, <2>4, <3>1, <3>2, QueueAppend
  <2>5. ASSUME r \in f.for
        PROVE  /\ \A i \in DOMAIN v : ~IsHello(v[i]) =>
                    /\ v[i].message \in 1 .. sent[r]
                    /\ Younger(r, v[i]) \/ (i = 1 /\ v[i].number <= last[r])
               /\ \A i, j \in DOMAIN v : i < j => Before(v[i], v[j], j = i + 1)
    <3>1. IsHello(g) <=> IsHello(f)
      BY <2>1 DEF IsHello
    <3>2. ~IsHello(g) => g.message \in 1 .. sent[r] /\ Younger(r, g)
      BY <2>1, <2>2, <2>5, <3>1 DEF Younger
    <3>3. CASE u = s /\ Len(s) >= InboxCap
      <4>1. v = u
        BY <3>3 DEF Queued
      <4> QED
        BY <2>4, <2>5, <4>1
    <3>4. CASE u = Append(s, f)
      <4>1. \A i \in DOMAIN u : Before(u[i], g, i = Len(u))
        <5>1. DOMAIN u = 1 .. Len(s) + 1 /\ Len(u) = Len(s) + 1 /\ u[Len(s) + 1] = f
              /\ DOMAIN s = 1 .. Len(s) /\ \A i \in DOMAIN s : u[i] = s[i]
          BY <2>1, <2>3, <3>4
        <5> HIDE DEF u
        <5>2. Before(f, g, TRUE)
          BY <2>1 DEF Before
        <5>3. \A i \in DOMAIN s : Before(u[i], g, i = Len(u))
          BY <2>1, <2>2, <2>5, <3>1, <5>1 DEF Before, s
        <5>4. \A i \in DOMAIN u : i \in DOMAIN s \/ i = Len(u)
          BY <2>3, <5>1
        <5> QED
          BY <5>1, <5>2, <5>3, <5>4 DEF Before
      <4> HIDE DEF u
      <4> QED
        BY <1>1, <2>1, <2>4, <2>5, <3>2, <4>1, QueueAppend
    <3> QED
      BY <2>3, <3>3, <3>4, FramesAssumption DEF Queued
  <2>6. inbox'[r] = s \/ (r \in f.for /\ inbox'[r] \in {u, v})
    BY <2>1 DEF s
  <2>7. /\ \A i \in DOMAIN inbox'[r] : ~IsHello(inbox'[r][i]) =>
             /\ inbox'[r][i].message \in 1 .. sent[r]
             /\ Younger(r, inbox'[r][i]) \/ (i = 1 /\ inbox'[r][i].number <= last[r])
        /\ \A i, j \in DOMAIN inbox'[r] : i < j => Before(inbox'[r][i], inbox'[r][j], j = i + 1)
    <3> HIDE DEF u, v
    <3> QED
      BY <2>3, <2>4, <2>5, <2>6
  <2> QED
    BY <1>1, <2>3, <2>7 DEF QueueInv, Younger, IsHello, Before
<1>3. TaskInv'
  <2>1. CASE t = "user"
    BY <1>1, <2>1 DEF OrderInv, TaskInv, Busy, Typed, Task
  <2>2. CASE t = "worker"
    <3>1. task'["worker"] = Idle /\ task'["user"] = task["user"]
      BY <1>1, <2>2 DEF Typed, Task
    <3>2. IsHello(task["worker"].frame)
      BY <1>1, <2>2 DEF OrderInv, TaskInv
    <3>3. ASSUME Busy("user"), ~IsHello(task["user"].frame), NEW r \in task["user"].frame.for
          PROVE  /\ task["user"].frame.message \in 1 .. sent[r]
                 /\ Younger(r, task["user"].frame)
                 /\ \A i \in DOMAIN inbox'[r] : inbox'[r][i].message < task["user"].frame.message
      <4>1. /\ task["user"].frame.message \in 1 .. sent[r]
            /\ Younger(r, task["user"].frame)
            /\ \A i \in DOMAIN inbox[r] : inbox[r][i].message < task["user"].frame.message
        BY <3>3 DEF OrderInv, TaskInv
      <4>2. r \in Listener
        BY <3>3 DEF Busy, Typed, Task, ReadingTask, SendingTask, Frame
      <4> DEFINE u == Queued(inbox[r], f)
                 v == Queued(u, g)
                 m == task["user"].frame.message
      <4>3. /\ f \in Frame /\ g \in Frame /\ f.message = 0 /\ g.message = 0
            /\ inbox'[r] \in {inbox[r], u, v}
        BY <2>2, <3>2, <4>2, TransmitFacts DEF IsHello
      <4>4. inbox[r] \in Seq(Frame) /\ Len(inbox[r]) <= InboxCap /\ DOMAIN inbox[r] = 1 .. Len(inbox[r])
        BY <4>2 DEF Typed
      <4> HIDE DEF f, g
      <4>5. u \in Seq(Frame) /\ Len(u) <= InboxCap
        BY <4>3, <4>4, QueuedFacts
      <4>6. \A i \in DOMAIN u : u[i].message < m
        <5>1. m \in Nat /\ 0 < m
          BY <4>1
        <5> HIDE DEF m
        <5> QED
          BY <4>1, <4>3, <4>4, <5>1 DEF Queued, m
      <4>7. \A i \in DOMAIN v : v[i].message < m
        <5>1. m \in Nat /\ 0 < m
          BY <4>1
        <5> HIDE DEF m, u
        <5> QED
          BY <4>3, <4>5, <4>6, <5>1 DEF Queued
      <4> HIDE DEF u, v
      <4> QED
        BY <4>1, <4>3, <4>6, <4>7
    <3> QED
      BY <1>1, <3>1, <3>3 DEF TaskInv, Busy, Younger
  <2> QED
    BY <2>1, <2>2 DEF Task
<1> QED
  BY <1>2, <1>3 DEF OrderInv

(* Taking the first frame out of a queue in order leaves it in order, and  *)
(* what reaches the sink is younger than all that did before.              *)
LEMMA ReceiveKeepsQueue ==
  ASSUME Typed, NEW r \in Listener, NEW f, Receive(r, f), QueueInv(r)
  PROVE  /\ QueueInv(r)'
         /\ taken' # taken => /\ f.message \in 1 .. sent[r] /\ Younger(r, f)
                              /\ taken' = [taken EXCEPT ![r] = Append(@, f.message)]
<1> DEFINE s == inbox[r]
           u == inbox'[r]
           done == taken[r]
<1>1. /\ s \in Seq(Frame) /\ Len(s) \in Nat \ {0} /\ f = s[1] /\ f \in Frame /\ u = Tail(s)
      /\ done \in Seq(Nat) /\ sent[r] \in Nat /\ last[r] \in Nat /\ UNCHANGED sent
  <2>1. s \in Seq(Frame) /\ s # <<>> /\ f = Head(s) /\ u = Tail(s)
    BY DEF Typed, Receive
  <2>2. done \in Seq(Nat) /\ sent[r] \in Nat /\ last[r] \in Nat /\ UNCHANGED sent
    BY FramesAssumption DEF Typed, Receive, Number0
  <2> HIDE DEF s, u, done
  <2> QED
    BY <2>1, <2>2
<1>2. /\ 1 \in DOMAIN s
      /\ \A i \in DOMAIN u : i \in Nat \ {0} /\ i + 1 \in DOMAIN s /\ u[i] = s[i + 1] /\ u[i] \in Frame
  <2> HIDE DEF s, u
  <2> QED
    BY <1>1
<1>3. \A g \in Frame : g.message \in Nat /\ g.number \in Nat
  BY FramesAssumption DEF Frame
<1>4. /\ \A i \in DOMAIN done : done[i] \in 1 .. sent[r]
      /\ \A i \in DOMAIN s : ~IsHello(s[i]) =>
           /\ s[i].message \in 1 .. sent[r]
           /\ Younger(r, s[i]) \/ (i = 1 /\ s[i].number <= last[r])
      /\ \A i, j \in DOMAIN s : i < j => Before(s[i], s[j], j = i + 1)
  BY DEF QueueInv
<1>5. \A i \in DOMAIN u : ~IsHello(u[i]) =>
        u[i].message \in 1 .. sent[r] /\ Younger(r, u[i])
  <2>1. \A i \in DOMAIN u : i + 1 # 1
    BY <1>2
  <2> HIDE DEF s, u
  <2> QED
    BY <1>2, <1>4, <2>1
<1>6. \A i, j \in DOMAIN u : i < j => Before(u[i], u[j], j = i + 1)
  <2> TAKE i, j \in DOMAIN u
  <2>1. i < j => Before(s[i + 1], s[j + 1], j + 1 = i + 1 + 1)
    <3>1. i < j => i + 1 < j + 1
      BY <1>2
    <3> QED
      BY <1>2, <1>4, <3>1
  <2>2. (j + 1 = i + 1 + 1) <=> (j = i + 1)
    BY <1>2
  <2> HIDE DEF s, u
  <2> QED
    BY <1>2, <2>1, <2>2 DEF Before
<1>7. CASE AcceptSequence(r, f) /\ ~IsHello(f)
  <2> DEFINE after == taken'[r]
  <2>1. /\ taken' = [taken EXCEPT ![r] = Append(@, f.message)] /\ after = Append(done, f.message)
        /\ last'[r] = f.number
    BY <1>7 DEF Receive, Typed
  <2>2. f.message \in 1 .. sent[r] /\ Younger(r, f)
    <3>1. ~(f.number <= last[r])
      BY <1>1, <1>3, <1>7 DEF AcceptSequence
    <3> HIDE DEF s
    <3> QED
      BY <1>1, <1>2, <1>4, <1>7, <3>1
  <2>3. \A i \in DOMAIN after : after[i] \in 1 .. sent[r] /\ after[i] <= f.message
    <3>1. \A i \in DOMAIN done : done[i] < f.message
      BY <2>2 DEF Younger
    <3> HIDE DEF done, after
    <3>2. DOMAIN after = 1 .. Len(done) + 1 /\ DOMAIN done = 1 .. Len(done) /\ after[Len(done) + 1] = f.message
          /\ \A i \in DOMAIN done : after[i] = done[i] /\ done[i] \in Nat
      BY <1>1, <1>3, <2>1
    <3>3. \A i \in DOMAIN after : i \in DOMAIN done \/ i = Len(done) + 1
      BY <1>1, <3>2
    <3> QED
      BY <1>1, <1>3, <1>4, <2>2, <3>1, <3>2, <3>3
  <2>4. ASSUME NEW i \in DOMAIN u, ~IsHello(u[i])
        PROVE  Younger(r, inbox[r][i])' \/ (i = 1 /\ u[i].number <= last'[r])
    <3>1. Before(f, u[i], i = 1)
      <4>1. (i + 1 = 1 + 1) <=> (i = 1)
        BY <1>2
      <4>2. 1 < i + 1
        BY <1>2
      <4>3. Before(s[1], s[i + 1], i + 1 = 1 + 1)
        BY <1>2, <1>4, <4>2
      <4> HIDE DEF s, u
      <4> QED
        BY <1>1, <1>2, <4>1, <4>3 DEF Before
    <3>2. CASE f.message < u[i].message
      <4>1. f.message \in Nat /\ u[i].message \in Nat
        BY <1>1, <1>2, <1>3
      <4>2. \A k \in DOMAIN after : after[k] \in Nat /\ after[k] <= f.message
        BY <1>1, <2>3
      <4>3. \A k \in DOMAIN after : after[k] < u[i].message
        BY <3>2, <4>1, <4>2
      <4> QED
        BY <4>3 DEF Younger
    <3>3. CASE i = 1 /\ f.number = u[i].number
      BY <1>1, <1>3, <2>1, <3>3
    <3> QED
      BY <1>7, <2>4, <3>1, <3>2, <3>3 DEF Before
  <2>5. \A i \in DOMAIN inbox'[r] : ~IsHello(inbox'[r][i]) =>
          /\ inbox'[r][i].message \in 1 .. sent'[r]
          /\ Younger(r, inbox[r][i])' \/ (i = 1 /\ inbox'[r][i].number <= last'[r])
    <3>1. ASSUME NEW i \in DOMAIN u, ~IsHello(u[i])
          PROVE  u[i].message \in 1 .. sent'[r]
      BY <1>1, <1>5, <3>1
    <3> QED
      BY <2>4, <3>1
  <2>6. QueueInv(r)'
    <3>1. \A i \in DOMAIN taken'[r] : taken'[r][i] \in 1 .. sent'[r]
      BY <1>1, <2>3
    <3>2. \A i, j \in DOMAIN inbox'[r] : i < j => Before(inbox[r][i], inbox[r][j], j = i + 1)'
      BY <1>6 DEF Before, IsHello
    <3> QED
      BY <2>5, <3>1, <3>2 DEF QueueInv, IsHello
  <2> QED
    BY <2>1, <2>2, <2>6
<1>8. CASE ~(AcceptSequence(r, f) /\ ~IsHello(f))
  <2>1. UNCHANGED <<taken, sent>>
    BY <1>8 DEF Receive
  <2> QED
    BY <1>4, <1>5, <1>6, <2>1 DEF QueueInv, Younger, Before, IsHello
<1> QED
  BY <1>7, <1>8

(* Nothing is under way at the start but the first announcement.           *)
LEMMA OrderStart == Init => OrderInv
<1>1. SUFFICES ASSUME Init PROVE OrderInv
  OBVIOUS
<1>2. TaskInv
  BY <1>1, StartedFacts, HelloIsFrame DEF Init, TaskInv, Busy
<1>3. \A r \in Listener : inbox[r] = <<>> /\ taken[r] = <<>>
  BY <1>1 DEF Init
<1>4. \A r \in Listener : DOMAIN inbox[r] = {} /\ DOMAIN taken[r] = {}
  BY <1>3
<1> QED
  BY <1>2, <1>4 DEF OrderInv, QueueInv

(* Every step keeps the order and is a step of the channel, or nothing to  *)
(* it.                                                                     *)
LEMMA OrderStep ==
  ASSUME Typed, OrderInv, Typed', [Next]_vars
  PROVE  OrderInv' /\ (Channel!Next \/ UNCHANGED <<sent, taken>>)
<1>1. ASSUME NEW t \in Task, Number(t)
      PROVE  OrderInv' /\ UNCHANGED <<sent, taken>>
  <2>1. /\ UNCHANGED <<inbox, last, sent, taken>>
        /\ \A o \in Task \ {t} : task'[o] = task[o]
    BY <1>1 DEF Number, Typed
  <2>2. /\ task[t] \in ReadingTask /\ Busy(t)
    BY <1>1 DEF Number, Typed, Busy, Idle, ReadingTask, SendingTask
  <2>3. task'[t].frame.for = task[t].frame.for /\ task'[t].frame.message = task[t].frame.message
    <3> DEFINE next == IF task[t].read < MaxNumber THEN task[t].read + 1 ELSE MaxNumber
               f == [task[t].frame EXCEPT !.number = next]
    <3>1. task'[t] = [step |-> "send", frame |-> f]
      BY <1>1 DEF Number, Typed
    <3>2. task[t].frame \in Frame
      BY <2>2 DEF ReadingTask
    <3> HIDE DEF next
    <3>3. f.for = task[t].frame.for /\ f.message = task[t].frame.message
      BY <3>2 DEF Frame
    <3> HIDE DEF f
    <3> QED
      BY <3>1, <3>3
  <2>4. \A r \in Listener : QueueInv(r)'
    BY <2>1 DEF OrderInv, QueueInv, Younger, Before, IsHello
  <2>5. TaskInv'
    <3>1. CASE t = "worker"
      <4>1. task'["user"] = task["user"] /\ IsHello(task'["worker"].frame)
        BY <2>1, <2>2, <2>3, <3>1 DEF OrderInv, TaskInv, IsHello, Task
      <4> QED
        BY <2>1, <4>1 DEF OrderInv, TaskInv, Busy, Younger
    <3>2. CASE t = "user"
      <4>1. task'["worker"] = task["worker"]
        BY <2>1, <3>2 DEF Task
      <4> QED
        BY <2>1, <2>2, <2>3, <3>2, <4>1 DEF OrderInv, TaskInv, Busy, Younger, IsHello
    <3> QED
      BY <3>1, <3>2 DEF Task
  <2> QED
    BY <2>1, <2>4, <2>5 DEF OrderInv
<1>2. ASSUME NEW t \in Task, Transmit(t)
      PROVE  OrderInv' /\ UNCHANGED <<sent, taken>>
  BY <1>2, TransmitKeepsOrder DEF Transmit
<1>3. ASSUME NEW r \in Listener, SendMessage(r)
      PROVE  OrderInv' /\ Channel!Next
  <2> DEFINE f == Message(r, sent[r] + 1)
  <2>1. /\ sent[r] \in Nat /\ sent[r] + 1 \in 1 .. MaxSent /\ sent' = [sent EXCEPT ![r] = @ + 1]
        /\ \A x \in Listener : sent[x] \in Nat
    BY <1>3, FramesAssumption DEF SendMessage, Typed
  <2>2. f \in Frame /\ f.for = {r} /\ f.message = sent[r] + 1
    BY <2>1, MessageFacts
  <2>3. \A x \in Listener : sent[x] <= sent'[x]
    BY <2>1 DEF Typed
  <2>4. sent'[r] = sent[r] + 1
    BY <2>1 DEF Typed
  <2>5. \A i \in DOMAIN taken[r] : taken[r][i] < sent[r] + 1
    BY <2>1 DEF OrderInv, QueueInv
  <2>6. \A i \in DOMAIN inbox[r] : inbox[r][i].message < sent[r] + 1
    BY <2>1 DEF OrderInv, QueueInv, IsHello
  <2> HIDE DEF f
  <2>7. ~IsHello(f) => \A x \in f.for :
                         /\ f.message \in 1 .. sent'[x] /\ Younger(x, f)
                         /\ \A i \in DOMAIN inbox[x] : inbox[x][i].message < f.message
    BY <2>1, <2>2, <2>4, <2>5, <2>6 DEF Younger
  <2>8. Begin("user", f) /\ ~Busy("user") /\ UNCHANGED <<taken, last>>
    BY <1>3 DEF SendMessage, f
  <2>9. "user" \in Task /\ "user" # "worker"
    BY DEF Task
  <2>10. OrderInv'
    BY <2>2, <2>3, <2>7, <2>8, <2>9, BeginKeepsOrder
  <2> QED
    BY <2>1, <2>8, <2>10 DEF Channel!Next, Channel!Send
<1>4. ASSUME AnnounceQuiet \/ \E r \in Listener : AnswerHello(r)
      PROVE  OrderInv' /\ UNCHANGED <<sent, taken>>
  <2>1. "worker" \in Task /\ \A r \in Listener : sent[r] \in Nat
    BY FramesAssumption DEF Typed, Task
  <2>2. UNCHANGED <<taken, last, sent>>
    BY <1>4 DEF AnnounceQuiet, AnswerHello
  <2>3. CASE ~Busy("worker") /\ Begin("worker", Hello)
    <3>1. \A r \in Listener : sent[r] <= sent'[r]
      BY <2>1, <2>2
    <3> QED
      BY <2>1, <2>2, <2>3, <3>1, HelloIsFrame, BeginKeepsOrder
  <2>4. CASE UNCHANGED <<task, inbox>>
    BY <2>2, <2>4 DEF OrderInv, TaskInv, QueueInv, Busy, Younger, Before, IsHello
  <2> QED
    BY <1>4, <2>2, <2>3, <2>4 DEF AnnounceQuiet, AnswerHello
<1>5. ASSUME NEW r \in Listener, Listen(r)
      PROVE  OrderInv' /\ (Channel!Next \/ UNCHANGED <<sent, taken>>)
  <2>1. PICK f : Receive(r, f)
    BY <1>5 DEF Listen
  <2>2. /\ QueueInv(r)'
        /\ taken' # taken => /\ f.message \in 1 .. sent[r] /\ Younger(r, f)
                             /\ taken' = [taken EXCEPT ![r] = Append(@, f.message)]
    BY <2>1, ReceiveKeepsQueue DEF OrderInv
  <2>3. /\ UNCHANGED <<sent, task>>
        /\ \A x \in Listener \ {r} : /\ inbox'[x] = inbox[x] /\ last'[x] = last[x]
                                     /\ taken'[x] = taken[x]
    BY <2>1 DEF Receive, Typed
  <2>4. \A x \in Listener \ {r} : QueueInv(x)'
    BY <2>3 DEF OrderInv, QueueInv, Younger, Before, IsHello
  <2>5. ASSUME Busy("user"), ~IsHello(task["user"].frame), NEW x \in task["user"].frame.for
        PROVE  /\ task["user"].frame.message \in 1 .. sent[x]
               /\ \A i \in DOMAIN taken'[x] : taken'[x][i] < task["user"].frame.message
               /\ \A i \in DOMAIN inbox'[x] : inbox'[x][i].message < task["user"].frame.message
    <3> DEFINE m == task["user"].frame.message
    <3>1. x \in Listener
      BY <2>5 DEF Busy, Typed, Task, ReadingTask, SendingTask, Frame
    <3>2. /\ m \in 1 .. sent[x] /\ \A i \in DOMAIN taken[x] : taken[x][i] < m
          /\ \A i \in DOMAIN inbox[x] : inbox[x][i].message < m
      BY <2>5 DEF OrderInv, TaskInv, Younger
    <3> HIDE DEF m
    <3>3. CASE x # r
      BY <2>3, <3>1, <3>2, <3>3 DEF m
    <3>4. CASE x = r
      <4>1. inbox[r] \in Seq(Frame) /\ inbox[r] # <<>> /\ f = Head(inbox[r]) /\ inbox'[r] = Tail(inbox[r])
        BY <2>1 DEF Receive, Typed
      <4>2. f.message < m
        BY <3>2, <3>4, <4>1
      <4>3. \A i \in DOMAIN inbox'[r] : inbox'[r][i].message < m
        BY <3>2, <3>4, <4>1
      <4>4. taken[r] \in Seq(Nat) /\ taken'[r] \in {taken[r], Append(taken[r], f.message)}
        BY <2>2 DEF Typed
      <4>5. \A i \in DOMAIN taken'[r] : taken'[r][i] < m
        <5>1. f.message \in Nat
          <6>1. f \in Frame
            BY <4>1
          <6> QED
            BY <6>1, FramesAssumption DEF Frame
        <5> DEFINE a == Append(taken[r], f.message)
        <5>2. /\ DOMAIN taken[r] = 1 .. Len(taken[r]) /\ Len(taken[r]) \in Nat
              /\ DOMAIN a = 1 .. Len(taken[r]) + 1 /\ a[Len(taken[r]) + 1] = f.message
              /\ \A i \in 1 .. Len(taken[r]) : a[i] = taken[r][i]
          BY <4>4, <5>1
        <5> HIDE DEF a
        <5>3. \A i \in DOMAIN a : a[i] < m
          BY <3>2, <3>4, <4>2, <5>2
        <5> QED
          BY <3>2, <3>4, <4>4, <5>3 DEF a
      <4> QED
        BY <3>2, <3>4, <4>3, <4>5 DEF m
    <3> QED
      BY <3>3, <3>4
  <2>6. TaskInv'
    BY <2>3, <2>5 DEF OrderInv, TaskInv, Busy, Younger
  <2>7. taken' # taken => Channel!Take(r)
    BY <2>2, <2>3 DEF Channel!Take, Younger
  <2> QED
    BY <2>2, <2>3, <2>4, <2>6, <2>7 DEF OrderInv, Channel!Next
<1>6. ASSUME NEW r \in Listener, ListenerAnnounces(r)
      PROVE  OrderInv' /\ UNCHANGED <<sent, taken>>
  BY <1>6 DEF ListenerAnnounces, OrderInv, TaskInv, QueueInv, Busy, Younger, Before, IsHello
<1>7. ASSUME RestartSender
      PROVE  OrderInv' /\ UNCHANGED <<sent, taken>>
  <2>1. /\ UNCHANGED <<last, sent, taken>> /\ task' = Started /\ inbox' = Doubted
    BY <1>7 DEF RestartSender
  <2>2. TaskInv'
    BY <2>1, StartedFacts, HelloIsFrame DEF TaskInv, Busy
  <2>3. inbox \in [Listener -> Seq(Frame)] /\ \A r \in Listener : sent[r] \in Nat
    BY FramesAssumption DEF Typed
  <2>4. ASSUME NEW r \in Listener
        PROVE  QueueInv(r)'
    <3>1. sent'[r] \in Nat /\ sent[r] <= sent'[r] /\ QueueInv(r)
      BY <2>1, <2>3 DEF OrderInv
    <3>2. /\ inbox'[r] \in Seq(Frame) /\ Len(inbox'[r]) = Len(inbox[r])
          /\ \A i \in DOMAIN inbox[r] : /\ inbox'[r][i].message = inbox[r][i].message
                                        /\ inbox'[r][i].number = inbox[r][i].number
      BY <2>1, <2>3, DoubtedFacts
    <3> QED
      BY <2>1, <3>1, <3>2, QueueFrom
  <2> QED
    BY <2>1, <2>2, <2>4 DEF OrderInv
<1>8. ASSUME NEW r \in Listener, RestartListener(r)
      PROVE  OrderInv' /\ UNCHANGED <<sent, taken>>
  <2>1. /\ UNCHANGED <<sent, taken, task>> /\ inbox'[r] = <<>>
        /\ \A x \in Listener \ {r} : inbox'[x] = inbox[x] /\ last'[x] = last[x]
    BY <1>8 DEF RestartListener, Typed
  <2>2. DOMAIN inbox'[r] = {}
    BY <2>1
  <2>3. \A x \in Listener : QueueInv(x)'
    BY <2>1, <2>2 DEF OrderInv, QueueInv, Younger, Before, IsHello
  <2>4. ASSUME Busy("user"), ~IsHello(task["user"].frame), NEW x \in task["user"].frame.for
        PROVE  \A i \in DOMAIN inbox'[x] : inbox'[x][i].message < task["user"].frame.message
    <3>1. x \in Listener
      BY <2>4 DEF Busy, Typed, Task, ReadingTask, SendingTask, Frame
    <3> QED
      BY <2>1, <2>2, <2>4, <3>1 DEF OrderInv, TaskInv
  <2> QED
    BY <2>1, <2>3, <2>4 DEF OrderInv, TaskInv, Busy, Younger
<1>9. CASE Tick \/ Overhear \/ UNCHANGED vars
  BY <1>9 DEF Tick, Overhear, vars, OrderInv, TaskInv, QueueInv, Busy, Younger, Before, IsHello
<1> QED
  BY <1>1, <1>2, <1>3, <1>4, <1>5, <1>6, <1>7, <1>8, <1>9 DEF Next, Send
-----------------------------------------------------------------------------
(* In every state the variables have their types, no receive queue exceeds *)
(* its capacity, and what a listener took was sent to it.                  *)
THEOREM MeshTypeCorrect == Spec => []TypeOK
<1>1. Init => Typed /\ OrderInv
  BY TypedStart, OrderStart
<1>2. Typed /\ OrderInv /\ [Next]_vars => (Typed /\ OrderInv)'
  BY TypedStep, OrderStep
<1>3. Typed /\ OrderInv => TypeOK
  <2>1. SUFFICES ASSUME Typed, OrderInv PROVE TypeOK
    OBVIOUS
  <2>2. \A t \in Task : \/ ~Busy(t)
                        \/ task[t] \in [step : {"number"}, read : 0 .. MaxNumber, frame : Frame]
                        \/ task[t] \in [step : {"send"}, frame : Frame]
    BY <2>1 DEF Typed, Busy, ReadingTask, SendingTask, Number0
  <2>3. \A r \in Listener : Len(inbox[r]) <= InboxCap /\ Entries(inbox[r]) \subseteq Frame
    BY <2>1 DEF Typed, Entries
  <2>4. \A r \in Listener : Entries(taken[r]) \subseteq 1 .. sent[r]
    BY <2>1 DEF OrderInv, QueueInv, Entries
  <2> QED
    BY <2>1, <2>2, <2>3, <2>4 DEF Typed, TypeOK, Number0
<1> QED
  BY <1>1, <1>2, <1>3, PTL DEF Spec

(* However frames are lost, repeated and numbered twice, and however often *)
(* the boards restart, the messages of a board reach a listener in the     *)
(* order in which they were sent, each at most once: the mesh implements   *)
(* the channel.                                                            *)
THEOREM MeshImplementsChannel == Spec => ChannelSpec
<1>1. Init => Typed /\ OrderInv /\ Channel!Init
  BY TypedStart, OrderStart DEF Init, Channel!Init
<1>2. Typed /\ OrderInv /\ [Next]_vars =>
        (Typed /\ OrderInv)' /\ [Channel!Next]_<<sent, taken>>
  BY TypedStep, OrderStep
<1> QED
  BY <1>1, <1>2, PTL DEF Spec, ChannelSpec, Channel!Spec
-----------------------------------------------------------------------------
(*                      Numbers the filter refuses                         *)

CleanHello(f) == IsHello(f) /\ f.clean

(* The numbers of a queue s can be relied on from place i on: its listener *)
(* has heard the sender (b), or an announcement comes first.               *)
Vouched(b, s, i) == b \/ \E k \in DOMAIN s : k <= i /\ CleanHello(s[k])

(* The filter takes f when the last number it took was n.                  *)
Rises(n, f) == n <= f.number /\ (~IsHello(f) /\ ~f.repeat => n < f.number)

(* From there on the numbers rise, after the last one taken (n) and up to  *)
(* the latest one in use (m).                                              *)
NumbersRise(b, n, s, m) ==
  /\ b => n <= m /\ \A j \in DOMAIN s : Rises(n, s[j])
  /\ \A i \in DOMAIN s : Vouched(b, s, i) =>
       s[i].number <= m /\ \A j \in DOMAIN s : i < j => Rises(s[i].number, s[j])

(* Nothing vouches for any number in a queue.                              *)
Unvouched(b, s) == ~b /\ \A k \in DOMAIN s : ~CleanHello(s[k])

(* The latest number given away: that of a message on its way to the radio *)
(* is not yet.                                                             *)
Carrying(t) == Busy(t) /\ task[t].frame.clean /\ task[t].step = "send" /\ ~IsHello(task[t].frame)
Latest == IF \E t \in Task : Carrying(t) THEN sequence - 1 ELSE sequence

(* A task that met no other has the latest number.                         *)
CleanTask(t) ==
  Busy(t) /\ task[t].frame.clean =>
    /\ ~Busy(Other(t))
    /\ task[t].step = "number" =>
         task[t].read = sequence /\ (~IsHello(task[t].frame) => sequence < MaxNumber)
    /\ task[t].step = "send" =>
         task[t].frame.number = sequence /\ (~IsHello(task[t].frame) => 0 < sequence)

NumberInv ==
  /\ \A t \in Task : CleanTask(t)
  /\ \A r \in Listener :
       /\ NumbersRise(fresh[r], last[r], inbox[r], Latest)
       /\ Unvouched(fresh[r], inbox[r]) \/ \A t \in Task : Busy(t) => task[t].frame.clean

LEMMA FrameNumbers == \A f \in Frame : f.number \in Nat /\ f.clean \in BOOLEAN /\ f.repeat \in BOOLEAN
BY FramesAssumption DEF Frame

LEMMA UnvouchedRises ==
  ASSUME NEW b, NEW n, NEW s, NEW m, Unvouched(b, s)
  PROVE  NumbersRise(b, n, s, m)
BY DEF Unvouched, NumbersRise, Vouched

LEMMA RisesLater ==
  ASSUME NEW b, NEW n \in Nat, NEW s \in Seq(Frame), NEW m \in Nat, NEW k \in Nat,
         NumbersRise(b, n, s, m), m <= k
  PROVE  NumbersRise(b, n, s, k)
<1>1. \A i \in DOMAIN s : s[i].number \in Nat
  BY FrameNumbers
<1> QED
  BY <1>1 DEF NumbersRise

(* A frame with a later number is appended.                                *)
LEMMA QueuedRises ==
  ASSUME NEW b \in BOOLEAN, NEW n \in Nat, NEW s \in Seq(Frame), NEW m \in Nat, NEW k \in Nat,
         NEW f \in Frame, Len(s) <= InboxCap,
         NumbersRise(b, n, s, m), m <= k, Rises(m, f), f.number <= k
  PROVE  NumbersRise(b, n, Queued(s, f), k)
<1> DEFINE q == Queued(s, f)
<1>1. CASE q = s
  BY <1>1, RisesLater
<1>2. CASE /\ q \in Seq(Frame) /\ Len(q) = Len(s) + 1 /\ q[Len(s) + 1] = f
           /\ \A i \in 1 .. Len(s) : q[i] = s[i]
  <2> HIDE DEF q
  <2>1. /\ DOMAIN q = 1 .. Len(s) + 1 /\ DOMAIN s = 1 .. Len(s) /\ Len(s) \in Nat
        /\ f.number \in Nat /\ \A i \in DOMAIN s : s[i].number \in Nat
    BY <1>2, FrameNumbers
  <2>2. \A i \in DOMAIN q : (i \in DOMAIN s /\ q[i] = s[i]) \/ (i = Len(s) + 1 /\ q[i] = f)
    BY <1>2, <2>1
  <2>3. \A x \in Nat : x <= m => Rises(x, f)
    BY <2>1 DEF Rises
  <2>4. b => n <= k /\ \A j \in DOMAIN q : Rises(n, q[j])
    BY <2>2, <2>3 DEF NumbersRise
  <2>5. ASSUME NEW i \in DOMAIN q, Vouched(b, q, i)
        PROVE  q[i].number <= k /\ \A j \in DOMAIN q : i < j => Rises(q[i].number, q[j])
    <3>1. CASE i = Len(s) + 1
      <4>1. \A j \in DOMAIN q : ~(i < j)
        BY <2>1, <3>1
      <4> QED
        BY <1>2, <3>1, <4>1
    <3>2. CASE i \in DOMAIN s /\ q[i] = s[i]
      <4>1. Vouched(b, s, i)
        <5>1. SUFFICES ASSUME NEW x \in DOMAIN q, x <= i, CleanHello(q[x])
                       PROVE  x \in DOMAIN s /\ q[x] = s[x]
          BY <2>5 DEF Vouched
        <5> QED
          BY <2>1, <2>2, <3>2, <5>1
      <4>2. s[i].number <= m /\ \A j \in DOMAIN s : i < j => Rises(s[i].number, s[j])
        BY <3>2, <4>1 DEF NumbersRise
      <4>3. Rises(s[i].number, f) /\ s[i].number <= k
        BY <2>1, <2>3, <3>2, <4>2
      <4> QED
        BY <2>2, <3>2, <4>2, <4>3
    <3> QED
      BY <2>2, <3>1, <3>2
  <2> QED
    BY <2>4, <2>5 DEF NumbersRise, q
<1> QED
  BY <1>1, <1>2, QueuedFacts

LEMMA QueuedUnvouched ==
  ASSUME NEW b, NEW s \in Seq(Frame), NEW f \in Frame, Len(s) <= InboxCap,
         Unvouched(b, s), ~f.clean
  PROVE  Unvouched(b, Queued(s, f))
<1> DEFINE q == Queued(s, f)
<1>1. CASE q = s
  BY <1>1
<1>2. CASE /\ q \in Seq(Frame) /\ Len(q) = Len(s) + 1 /\ q[Len(s) + 1] = f
           /\ \A i \in 1 .. Len(s) : q[i] = s[i]
  <2> HIDE DEF q
  <2>1. \A i \in DOMAIN q : (i \in DOMAIN s /\ q[i] = s[i]) \/ q[i] = f
    BY <1>2
  <2> QED
    BY <2>1 DEF Unvouched, CleanHello, q
<1> QED
  BY <1>1, <1>2, QueuedFacts

(* The first frame is taken out: a hello or a message with a new number    *)
(* leaves its number behind.                                               *)
LEMMA TailRises ==
  ASSUME NEW b \in BOOLEAN, NEW n \in Nat, NEW s \in Seq(Frame), NEW m \in Nat, s # <<>>,
         NEW c \in BOOLEAN, c <=> b \/ CleanHello(Head(s)),
         NEW x \in Nat, x = Head(s).number \/ (x = n /\ ~IsHello(Head(s))),
         NumbersRise(b, n, s, m)
  PROVE  NumbersRise(c, x, Tail(s), m)
<1> DEFINE u == Tail(s)
<1>1. /\ 1 \in DOMAIN s /\ Head(s) = s[1]
      /\ \A i \in DOMAIN u : i \in Nat \ {0} /\ i + 1 \in DOMAIN s /\ u[i] = s[i + 1]
  OBVIOUS
<1> HIDE DEF u
<1>2. c => Vouched(b, s, 1)
  BY <1>1 DEF Vouched
<1>3. ASSUME c
      PROVE  x <= m /\ \A j \in DOMAIN u : Rises(x, u[j])
  <2>1. CASE x = s[1].number
    <3>1. x <= m /\ \A j \in DOMAIN s : 1 < j => Rises(x, s[j])
      BY <1>1, <1>2, <1>3, <2>1 DEF NumbersRise
    <3>2. \A j \in DOMAIN u : 1 < j + 1
      BY <1>1
    <3> QED
      BY <1>1, <3>1, <3>2
  <2>2. CASE x = n /\ ~IsHello(s[1])
    <3>1. b
      BY <1>1, <1>3, <2>2 DEF CleanHello
    <3> QED
      BY <1>1, <2>2, <3>1 DEF NumbersRise
  <2> QED
    BY <1>1, <2>1, <2>2
<1>4. ASSUME NEW i \in DOMAIN u, Vouched(c, u, i)
      PROVE  u[i].number <= m /\ \A j \in DOMAIN u : i < j => Rises(u[i].number, u[j])
  <2>1. Vouched(b, s, i + 1)
    <3>1. CASE c
      <4>1. 1 <= i + 1
        BY <1>1
      <4> QED
        BY <1>1, <3>1, <4>1 DEF Vouched
    <3>2. CASE ~c
      <4>1. PICK k \in DOMAIN u : k <= i /\ CleanHello(u[k])
        BY <1>4, <3>2 DEF Vouched
      <4>2. k + 1 \in DOMAIN s /\ k + 1 <= i + 1 /\ CleanHello(s[k + 1])
        BY <1>1, <4>1
      <4> QED
        BY <4>2 DEF Vouched
    <3> QED
      BY <3>1, <3>2
  <2>2. s[i + 1].number <= m /\ \A j \in DOMAIN s : i + 1 < j => Rises(s[i + 1].number, s[j])
    BY <1>1, <2>1 DEF NumbersRise
  <2>3. \A j \in DOMAIN u : i < j => i + 1 < j + 1
    BY <1>1
  <2> QED
    BY <1>1, <2>2, <2>3
<1> QED
  BY <1>3, <1>4 DEF NumbersRise, u

LEMMA LatestFacts ==
  ASSUME Typed, \A t \in Task : CleanTask(t)
  PROVE  /\ Latest \in Nat /\ Latest <= sequence /\ sequence \in Nat
         /\ \A t \in Task : Carrying(t) => Latest = sequence - 1 /\ 0 < sequence
         /\ (\A t \in Task : ~Carrying(t)) => Latest = sequence
<1>1. sequence \in Nat
  BY FramesAssumption DEF Typed, Number0
<1>2. \A t \in Task : Carrying(t) => 0 < sequence
  BY DEF CleanTask, Carrying
<1> QED
  BY <1>1, <1>2 DEF Latest

(* Announcements in doubt vouch for nothing.                               *)
LEMMA DoubtedUnvouched ==
  ASSUME Typed, NEW r \in Listener
  PROVE  Unvouched(NoneFresh[r], Doubted[r])
<1> DEFINE s == inbox[r]
<1>1. Doubted[r] = [i \in DOMAIN s |-> IF IsHello(s[i]) THEN Unclean(s[i]) ELSE s[i]]
  BY DEF Doubted
<1>2. \A i \in DOMAIN s : s[i] \in Frame
  BY DEF Typed
<1>3. \A f \in Frame : ~Unclean(f).clean
  BY DEF Unclean, Frame
<1> HIDE DEF s
<1>4. \A i \in DOMAIN s : ~CleanHello(IF IsHello(s[i]) THEN Unclean(s[i]) ELSE s[i])
  BY <1>2, <1>3 DEF CleanHello
<1> QED
  BY <1>1, <1>4 DEF Unvouched, NoneFresh

LEMMA TaskPair ==
  \A t \in Task : /\ Other(t) \in Task /\ Other(t) # t /\ Task = {t, Other(t)} /\ Other(Other(t)) = t
BY DEF Task, Other

LEMMA BeginKeepsNumbers ==
  ASSUME Typed, NumberInv, Typed', NEW t \in Task, NEW f \in Frame, ~Busy(t), Begin(t, f),
         UNCHANGED <<sequence, last>>, ~IsHello(f) => sequence < MaxNumber, f.clean
  PROVE  NumberInv'
<1> DEFINE o == Other(t)
<1>1. o \in Task /\ o # t /\ Task = {t, o} /\ Other(o) = t
  BY TaskPair
<1>2. CASE Busy(o)
  <2>1. task' = [task EXCEPT ![t] = Reading(sequence, Unclean(f)), ![o].frame = Unclean(@)]
        /\ inbox' = Doubted /\ fresh' = NoneFresh
    BY <1>2 DEF Begin
  <2>2. task[o] \in ReadingTask \cup SendingTask
    BY <1>1, <1>2 DEF Busy, Typed
  <2>3. task[o].frame \in Frame /\ \A g \in Frame : Unclean(g).clean = FALSE
    BY <2>2 DEF ReadingTask, SendingTask, Unclean, Frame
  <2>4. task'[t].frame = Unclean(f) /\ task'[o].frame = Unclean(task[o].frame)
    <3> HIDE DEF o
    <3>1. task'[t] = Reading(sequence, Unclean(f))
          /\ task'[o] = [task[o] EXCEPT !.frame = Unclean(@)]
      BY <1>1, <2>1 DEF Typed
    <3> QED
      BY <2>2, <3>1 DEF Reading, ReadingTask, SendingTask
  <2>5. \A u \in Task : ~task'[u].frame.clean
    BY <1>1, <2>3, <2>4
  <2>6. \A r \in Listener : Unvouched(fresh'[r], inbox'[r])
    BY <2>1, DoubtedUnvouched
  <2> QED
    BY <2>5, <2>6, UnvouchedRises DEF NumberInv, CleanTask
<1>3. CASE ~Busy(o)
  <2>1. task' = [task EXCEPT ![t] = Reading(sequence, f)] /\ UNCHANGED <<inbox, fresh>>
    BY <1>3 DEF Begin
  <2>2. /\ task'[t] = Reading(sequence, f) /\ task'[o] = Idle /\ task[t] = Idle /\ task[o] = Idle
    BY <1>1, <1>3, <2>1 DEF Busy, Typed
  <2>3. task'[t].step = "number" /\ task'[t].read = sequence /\ task'[t].frame = f
    BY <2>2 DEF Reading
  <2>4. \A u \in Task : ~Carrying(u) /\ ~Carrying(u)'
    BY <1>1, <2>2, <2>3 DEF Carrying, Busy
  <2>5. Latest' = Latest
    BY <2>4 DEF Latest
  <2>6. \A u \in Task : CleanTask(u)'
    BY <1>1, <2>2, <2>3 DEF CleanTask, Busy
  <2>7. \A u \in Task : Busy(u)' => task'[u].frame.clean
    BY <1>1, <2>2, <2>3 DEF Busy
  <2> QED
    BY <2>1, <2>5, <2>6, <2>7 DEF NumberInv
<1> QED
  BY <1>2, <1>3

LEMMA NumberKeepsNumbers ==
  ASSUME Typed, NumberInv, Typed', NEW t \in Task, Number(t)
  PROVE  NumberInv'
<1> DEFINE o == Other(t)
           next == IF task[t].read < MaxNumber THEN task[t].read + 1 ELSE MaxNumber
<1>1. o \in Task /\ o # t /\ Task = {t, o} /\ Other(o) = t
  BY TaskPair
<1>2. /\ task[t] \in ReadingTask /\ Busy(t) /\ task[t].step = "number"
      /\ task[t].frame \in Frame /\ task[t].read \in Nat
  <2>1. task[t] # Idle /\ task[t].step = "number"
    BY DEF Number, Idle
  <2>2. task[t] \in ReadingTask
    BY <2>1 DEF Typed, SendingTask
  <2> QED
    BY <2>1, <2>2, FramesAssumption DEF ReadingTask, Busy, Number0
<1>3. /\ task'[t] = [step |-> "send", frame |-> [task[t].frame EXCEPT !.number = next]]
      /\ task'[o] = task[o] /\ sequence' = next /\ UNCHANGED <<inbox, last, fresh>>
  BY <1>1 DEF Number, Typed
<1>4. next \in Nat
  BY <1>2, FramesAssumption
<1>5. /\ task'[t].step = "send" /\ task'[t].frame.number = next
      /\ task'[t].frame.clean = task[t].frame.clean /\ task'[t].frame.message = task[t].frame.message
      /\ task'[t] # Idle
  <2> HIDE DEF next
  <2>1. task'[t].frame = [task[t].frame EXCEPT !.number = next] /\ task'[t].step = "send"
    BY <1>3
  <2> QED
    BY <1>2, <2>1 DEF Frame, Idle
<1>6. \A u \in Task : (Busy(u)' <=> Busy(u)) /\ task'[u].frame.clean = task[u].frame.clean
  BY <1>1, <1>2, <1>3, <1>5 DEF Busy
<1> HIDE DEF next
<1>7. CASE task[t].frame.clean
  <2>1. /\ ~Busy(o) /\ task[t].read = sequence /\ (~IsHello(task[t].frame) => sequence < MaxNumber)
    BY <1>2, <1>7 DEF NumberInv, CleanTask
  <2>2. /\ sequence \in Nat /\ MaxNumber \in Nat /\ sequence <= MaxNumber /\ sequence <= next
        /\ ~IsHello(task[t].frame) => next = sequence + 1
    BY <2>1, FramesAssumption DEF Typed, Number0, next
  <2>3. \A u \in Task : CleanTask(u)'
    <3>1. CleanTask(t)'
      BY <1>3, <1>5, <1>6, <2>1, <2>2, <1>1 DEF CleanTask, IsHello
    <3>2. CleanTask(o)'
      BY <1>1, <1>6, <2>1 DEF CleanTask
    <3> QED
      BY <1>1, <3>1, <3>2
  <2>4. Latest = sequence
    <3>1. \A u \in Task : ~Carrying(u)
      BY <1>1, <1>2, <2>1 DEF Carrying
    <3> QED
      BY <3>1 DEF Latest
  <2>5. Latest' \in Nat /\ sequence <= Latest'
    <3>1. Carrying(o)' <=> FALSE
      BY <1>1, <1>6, <2>1 DEF Carrying
    <3>2. Carrying(t)' => ~IsHello(task[t].frame)
      BY <1>5 DEF Carrying, IsHello
    <3>3. Latest' = IF Carrying(t)' THEN next - 1 ELSE next
      BY <1>1, <1>3, <3>1 DEF Latest
    <3> QED
      BY <1>4, <2>2, <3>2, <3>3
  <2>6. ASSUME NEW r \in Listener
        PROVE  NumbersRise(fresh'[r], last'[r], inbox'[r], Latest')
    <3>1. last[r] \in Nat /\ inbox[r] \in Seq(Frame)
      BY FramesAssumption DEF Typed, Number0
    <3>2. NumbersRise(fresh[r], last[r], inbox[r], sequence)
      BY <2>4 DEF NumberInv
    <3> QED
      BY <1>3, <2>2, <2>5, <3>1, <3>2, RisesLater
  <2>7. \A u \in Task : Busy(u)' => task'[u].frame.clean
    BY <1>1, <1>6, <1>7, <2>1
  <2> QED
    BY <2>3, <2>6, <2>7 DEF NumberInv
<1>8. CASE ~task[t].frame.clean
  <2>1. \A r \in Listener : Unvouched(fresh'[r], inbox'[r])
    BY <1>2, <1>3, <1>8 DEF NumberInv
  <2>2. \A u \in Task : CleanTask(u)'
    <3>1. CleanTask(t)'
      BY <1>5, <1>8 DEF CleanTask
    <3>2. CleanTask(o)'
      <4>1. ~(Busy(o) /\ task[o].frame.clean)
        BY <1>1, <1>2 DEF NumberInv, CleanTask
      <4> QED
        BY <1>1, <1>6, <4>1 DEF CleanTask
    <3> QED
      BY <1>1, <3>1, <3>2
  <2> QED
    BY <2>1, <2>2, UnvouchedRises DEF NumberInv
<1> QED
  BY <1>7, <1>8

LEMMA TransmitKeepsNumbers ==
  ASSUME Typed, NumberInv, Typed', NEW t \in Task, Transmit(t)
  PROVE  NumberInv'
<1> DEFINE o == Other(t)
           f == task[t].frame
           g == [f EXCEPT !.repeat = TRUE]
<1>1. o \in Task /\ o # t /\ Task = {t, o} /\ Other(o) = t
  BY TaskPair
<1>2. /\ task'[t] = Idle /\ task'[o] = task[o] /\ UNCHANGED <<sequence, last, fresh>>
      /\ Busy(t) /\ task[t].step = "send" /\ f \in Frame
  BY <1>1 DEF Transmit, Typed, Busy, Idle, ReadingTask, SendingTask
<1>3. ~Busy(t)' /\ (Busy(o)' <=> Busy(o))
  BY <1>2 DEF Busy
<1>4. /\ g \in Frame /\ g.number = f.number /\ g.clean = f.clean /\ g.repeat /\ (IsHello(g) <=> IsHello(f))
  BY <1>2 DEF Frame, IsHello
<1>5. ASSUME NEW r \in Listener
      PROVE  /\ inbox[r] \in Seq(Frame) /\ Len(inbox[r]) <= InboxCap
             /\ last[r] \in Nat /\ fresh[r] \in BOOLEAN
             /\ inbox'[r] \in {inbox[r], Queued(inbox[r], f), Queued(Queued(inbox[r], f), g)}
             /\ Queued(inbox[r], f) \in Seq(Frame) /\ Len(Queued(inbox[r], f)) <= InboxCap
  <2>1. /\ inbox[r] \in Seq(Frame) /\ Len(inbox[r]) <= InboxCap
        /\ last[r] \in Nat /\ fresh[r] \in BOOLEAN
    BY FramesAssumption DEF Typed, Number0
  <2>2. inbox'[r] \in {inbox[r], Queued(inbox[r], f), Queued(Queued(inbox[r], f), g)}
    BY TransmitFacts
  <2> QED
    BY <1>2, <2>1, <2>2, QueuedFacts
<1> HIDE DEF f, g
<1>6. CASE f.clean
  <2>1. ~Busy(o) /\ f.number = sequence /\ (~IsHello(f) => 0 < sequence)
    BY <1>2, <1>6 DEF NumberInv, CleanTask, f
  <2>2. \A u \in Task : ~Busy(u)'
    BY <1>1, <1>3, <2>1
  <2>3. Latest' = sequence
    BY <1>2, <2>2 DEF Latest, Carrying
  <2>4. Latest \in Nat /\ Latest <= sequence /\ sequence \in Nat
    BY LatestFacts DEF NumberInv
  <2>5. Rises(Latest, f) /\ Rises(sequence, g)
    <3>1. ~IsHello(f) => Carrying(t)
      BY <1>2, <1>6 DEF Carrying, f
    <3>2. ~IsHello(f) => Latest = sequence - 1
      BY <3>1 DEF Latest
    <3> QED
      BY <1>4, <2>1, <2>4, <3>2 DEF Rises
  <2>6. ASSUME NEW r \in Listener
        PROVE  NumbersRise(fresh'[r], last'[r], inbox'[r], Latest')
    <3>1. NumbersRise(fresh[r], last[r], inbox[r], Latest)
      BY DEF NumberInv
    <3>2. NumbersRise(fresh[r], last[r], inbox[r], sequence)
      BY <1>5, <2>4, <3>1, RisesLater
    <3>3. NumbersRise(fresh[r], last[r], Queued(inbox[r], f), sequence)
      BY <1>2, <1>5, <2>1, <2>4, <2>5, <3>1, QueuedRises
    <3>4. NumbersRise(fresh[r], last[r], Queued(Queued(inbox[r], f), g), sequence)
      BY <1>2, <1>4, <1>5, <2>1, <2>4, <2>5, <3>3, QueuedRises
    <3> QED
      BY <1>2, <1>5, <2>3, <3>2, <3>3, <3>4
  <2> QED
    BY <2>2, <2>6 DEF NumberInv, CleanTask
<1>7. CASE ~f.clean
  <2>1. ASSUME NEW r \in Listener
        PROVE  Unvouched(fresh'[r], inbox'[r])
    <3>1. Unvouched(fresh[r], inbox[r])
      BY <1>2, <1>7 DEF NumberInv, f
    <3>2. Unvouched(fresh[r], Queued(inbox[r], f))
      BY <1>2, <1>5, <1>7, <3>1, QueuedUnvouched
    <3>3. Unvouched(fresh[r], Queued(Queued(inbox[r], f), g))
      BY <1>2, <1>4, <1>5, <1>7, <3>2, QueuedUnvouched
    <3> QED
      BY <1>2, <1>5, <3>1, <3>2, <3>3
  <2>2. \A u \in Task : CleanTask(u)'
    <3>1. ~(Busy(o) /\ task[o].frame.clean)
      BY <1>1, <1>2 DEF NumberInv, CleanTask
    <3>2. CleanTask(o)'
      BY <1>2, <1>3, <3>1 DEF CleanTask
    <3>3. CleanTask(t)'
      BY <1>3 DEF CleanTask
    <3> QED
      BY <1>1, <3>2, <3>3
  <2> QED
    BY <2>1, <2>2, UnvouchedRises DEF NumberInv
<1> QED
  BY <1>6, <1>7

LEMMA ReceiveKeepsNumbers ==
  ASSUME Typed, NumberInv, NEW r \in Listener, NEW f, Receive(r, f)
  PROVE  NumberInv'
<1>1. /\ UNCHANGED <<task, sequence>> /\ inbox[r] # <<>> /\ f = Head(inbox[r])
      /\ inbox' = [inbox EXCEPT ![r] = Tail(@)]
      /\ last' = IF AcceptSequence(r, f) THEN [last EXCEPT ![r] = f.number] ELSE last
      /\ fresh' = [fresh EXCEPT ![r] = @ \/ (IsHello(f) /\ f.clean)]
  BY DEF Receive
<1>2. Latest' = Latest
  BY <1>1 DEF Latest, Carrying, Busy
<1>3. \A t \in Task : CleanTask(t)'
  BY <1>1 DEF NumberInv, CleanTask, Busy
<1>4. /\ inbox[r] \in Seq(Frame) /\ f \in Frame /\ last[r] \in Nat /\ fresh[r] \in BOOLEAN
      /\ f.number \in Nat /\ f.clean \in BOOLEAN
  <2>1. inbox[r] \in Seq(Frame) /\ last[r] \in Nat /\ fresh[r] \in BOOLEAN
    BY FramesAssumption DEF Typed, Number0
  <2> QED
    BY <1>1, <2>1, FrameNumbers
<1>5. /\ inbox'[r] = Tail(inbox[r]) /\ fresh'[r] = (fresh[r] \/ CleanHello(f))
      /\ last'[r] = f.number \/ (last'[r] = last[r] /\ ~IsHello(f))
      /\ \A x \in Listener \ {r} : inbox'[x] = inbox[x] /\ fresh'[x] = fresh[x] /\ last'[x] = last[x]
  BY <1>1 DEF Typed, CleanHello, AcceptSequence
<1>6. NumbersRise(fresh'[r], last'[r], inbox'[r], Latest)
  <2>1. NumbersRise(fresh[r], last[r], inbox[r], Latest) /\ Latest \in Nat
    BY LatestFacts DEF NumberInv
  <2>2. fresh'[r] \in BOOLEAN /\ last'[r] \in Nat
    BY <1>4, <1>5 DEF CleanHello, IsHello
  <2> QED
    BY <1>1, <1>4, <1>5, <2>1, <2>2, TailRises
<1>7. Unvouched(fresh[r], inbox[r]) => Unvouched(fresh'[r], inbox'[r])
  <2>1. 1 \in DOMAIN inbox[r] /\ f = inbox[r][1]
        /\ \A i \in DOMAIN Tail(inbox[r]) : i + 1 \in DOMAIN inbox[r] /\ Tail(inbox[r])[i] = inbox[r][i + 1]
    BY <1>1, <1>4
  <2> QED
    BY <1>5, <2>1 DEF Unvouched
<1>8. \A x \in Listener :
        /\ NumbersRise(fresh'[x], last'[x], inbox'[x], Latest)
        /\ Unvouched(fresh'[x], inbox'[x]) \/ \A t \in Task : Busy(t) => task[t].frame.clean
  BY <1>5, <1>6, <1>7 DEF NumberInv
<1> QED
  BY <1>1, <1>2, <1>3, <1>8 DEF NumberInv, Busy

LEMMA NumberStart == Init => NumberInv
<1> SUFFICES ASSUME Init PROVE NumberInv
  OBVIOUS
<1>1. /\ task["worker"] = Idle /\ task["user"] = Reading(0, Hello) /\ sequence = 0
      /\ \A r \in Listener : inbox[r] = <<>> /\ last[r] = 0
  BY StartedFacts DEF Init, Started
<1>2. task["user"].step = "number" /\ task["user"].read = 0 /\ task["user"].frame = Hello
  BY <1>1 DEF Reading
<1>3. ~Busy("worker") /\ \A t \in Task : ~Carrying(t)
  BY <1>1, <1>2 DEF Busy, Carrying, Task
<1>4. \A t \in Task : CleanTask(t)
  BY <1>1, <1>2, <1>3, HelloIsFrame DEF CleanTask, Task, Other
<1>5. Latest = 0
  BY <1>1, <1>3 DEF Latest
<1>6. \A r \in Listener : NumbersRise(fresh[r], last[r], inbox[r], Latest)
  BY <1>1, <1>5 DEF NumbersRise
<1>7. \A t \in Task : Busy(t) => task[t].frame.clean
  BY <1>2, <1>3 DEF Task, Hello
<1> QED
  BY <1>4, <1>6, <1>7 DEF NumberInv

LEMMA NumberStep ==
  ASSUME Typed, NumberInv, Typed', [Next]_vars
  PROVE  NumberInv'
<1>1. ASSUME NEW t \in Task, Send(t)
      PROVE  NumberInv'
  BY <1>1, NumberKeepsNumbers, TransmitKeepsNumbers DEF Send
<1>2. Hello \in Frame /\ IsHello(Hello) /\ Hello.clean /\ "worker" \in Task /\ "user" \in Task
  BY HelloIsFrame DEF Hello, Task
<1>3. CASE AnnounceQuiet
  BY <1>2, <1>3, BeginKeepsNumbers DEF AnnounceQuiet
<1>4. CASE RestartSender
  <2>1. sequence' = 0 /\ task' = Started /\ inbox' = Doubted /\ fresh' = NoneFresh
    BY <1>4 DEF RestartSender
  <2>2. \A r \in Listener : Unvouched(fresh'[r], inbox'[r])
    BY <2>1, DoubtedUnvouched
  <2>3. /\ task'["worker"] = Idle /\ task'["user"] = Reading(0, Hello)
    BY <2>1 DEF Started
  <2>4. task'["user"].step = "number" /\ task'["user"].read = 0 /\ task'["user"].frame = Hello
    BY <2>3 DEF Reading
  <2>5. \A t \in Task : CleanTask(t)'
    BY <1>2, <2>1, <2>3, <2>4 DEF CleanTask, Task, Other, Busy
  <2> QED
    BY <2>2, <2>5, UnvouchedRises DEF NumberInv
<1>5. ASSUME NEW r \in Listener, SendMessage(r)
      PROVE  NumberInv'
  <2> DEFINE f == Message(r, sent[r] + 1)
  <2>1. sent[r] + 1 \in 1 .. MaxSent
    BY <1>5, FramesAssumption DEF SendMessage, Typed
  <2>2. f \in Frame /\ f.clean
    BY <2>1, MessageFacts DEF Message
  <2>3. sequence < MaxNumber
    BY <1>5, FramesAssumption DEF SendMessage, Typed, Number0
  <2> HIDE DEF f
  <2>4. ~Busy("user") /\ Begin("user", f) /\ UNCHANGED <<sequence, last>>
    BY <1>5 DEF SendMessage, f
  <2> QED
    BY <1>2, <2>2, <2>3, <2>4, BeginKeepsNumbers
<1>6. ASSUME UNCHANGED <<sequence, task, inbox, last, fresh>>
      PROVE  NumberInv'
  <2>1. Latest' = Latest /\ \A t \in Task : CleanTask(t)'
    BY <1>6 DEF Latest, Carrying, Busy, NumberInv, CleanTask
  <2> QED
    BY <1>6, <2>1 DEF NumberInv, Busy
<1>7. ASSUME NEW r \in Listener, AnswerHello(r)
      PROVE  NumberInv'
  <2>1. CASE role = "coordinator"
    BY <1>2, <1>7, <2>1, BeginKeepsNumbers DEF AnswerHello
  <2>2. CASE role # "coordinator"
    BY <1>6, <1>7, <2>2 DEF AnswerHello
  <2> QED
    BY <2>1, <2>2
<1>8. ASSUME NEW r \in Listener, Listen(r)
      PROVE  NumberInv'
  BY <1>8, ReceiveKeepsNumbers DEF Listen
<1>9. ASSUME NEW r \in Listener, ListenerAnnounces(r)
      PROVE  NumberInv'
  BY <1>6, <1>9 DEF ListenerAnnounces
<1>10. ASSUME NEW r \in Listener, RestartListener(r)
       PROVE  NumberInv'
  <2>1. /\ inbox' = [inbox EXCEPT ![r] = <<>>] /\ last' = [last EXCEPT ![r] = 0]
        /\ UNCHANGED <<sequence, task, fresh>>
    BY <1>10 DEF RestartListener
  <2>2. Latest' = Latest /\ Latest \in Nat /\ \A t \in Task : CleanTask(t)'
    BY <2>1, LatestFacts DEF Latest, Carrying, Busy, NumberInv, CleanTask
  <2>3. /\ inbox'[r] = <<>> /\ last'[r] = 0
        /\ \A x \in Listener \ {r} : inbox'[x] = inbox[x] /\ last'[x] = last[x]
    BY <2>1 DEF Typed
  <2>4. NumbersRise(fresh'[r], last'[r], inbox'[r], Latest')
    BY <2>2, <2>3 DEF NumbersRise
  <2>5. Unvouched(fresh[r], inbox[r]) => Unvouched(fresh'[r], inbox'[r])
    BY <2>1, <2>3 DEF Unvouched
  <2>6. \A x \in Listener :
          /\ NumbersRise(fresh'[x], last'[x], inbox'[x], Latest')
          /\ Unvouched(fresh'[x], inbox'[x]) \/ \A t \in Task : Busy(t) => task[t].frame.clean
    BY <2>1, <2>2, <2>3, <2>4, <2>5 DEF NumberInv
  <2> QED
    BY <2>1, <2>2, <2>6 DEF NumberInv, Busy
<1>11. CASE Tick \/ Overhear \/ UNCHANGED vars
  BY <1>6, <1>11 DEF Tick, Overhear, vars
<1> QED
  BY <1>1, <1>3, <1>4, <1>5, <1>7, <1>8, <1>9, <1>10, <1>11 DEF Next

(* A message is refused only if the radio repeated it, if the two sending  *)
(* tasks met, or if the listener has not heard the sender announce itself  *)
(* since it restarted: never because of the order of announcements,        *)
(* messages, losses and restarts of listeners.                             *)
THEOREM OnlyRepeatsAreRefused == Spec => RefusedForAReason
<1>1. Typed /\ [Next]_vars => Typed'
  BY TypedStep
<1>2. Typed /\ NumberInv /\ Typed' /\ [Next]_vars => NumberInv'
  BY NumberStep
<1> DEFINE Refusal ==
      \A r \in Listener : \A f \in Entries(inbox[r]) :
        Receive(r, f) /\ ~IsHello(f) /\ f.clean /\ ~f.repeat /\ fresh[r]
          => taken'[r] = Append(taken[r], f.message)
<1>3. Typed /\ NumberInv /\ [Next]_vars => [Refusal]_vars
  <2> SUFFICES ASSUME Typed, NumberInv, NEW r \in Listener, NEW f \in Entries(inbox[r]),
                      Receive(r, f), ~IsHello(f), ~f.repeat, fresh[r]
               PROVE  taken'[r] = Append(taken[r], f.message)
    OBVIOUS
  <2>1. inbox[r] \in Seq(Frame) /\ inbox[r] # <<>> /\ f = Head(inbox[r])
    BY DEF Typed, Receive
  <2>2. 1 \in DOMAIN inbox[r] /\ f = inbox[r][1]
    BY <2>1
  <2>3. Rises(last[r], f)
    BY <2>2 DEF NumberInv, NumbersRise
  <2>4. last[r] \in Nat /\ f.number \in Nat
    BY <2>1, FrameNumbers, FramesAssumption DEF Typed, Number0
  <2>5. AcceptSequence(r, f)
    BY <2>3, <2>4 DEF AcceptSequence, Rises
  <2> QED
    BY <2>5 DEF Receive, Typed
<1>4. Init => Typed /\ NumberInv
  BY TypedStart, NumberStart
<1>5. Spec => [](Typed /\ NumberInv)
  BY <1>1, <1>2, <1>4, PTL DEF Spec
<1>6. Spec => [][Refusal]_vars
  <2> HIDE DEF Refusal
  <2> QED
    BY <1>3, <1>5, PTL DEF Spec
<1> QED
  BY <1>6 DEF RefusedForAReason
=============================================================================
