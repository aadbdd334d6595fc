------------------------- MODULE CommandPathProofs -------------------------
(***************************************************************************)
(* Theorems about CommandPath for any arrangement of ESPs, any number of   *)
(* inverters, any capacities of ring and queues, and any faults.           *)
(***************************************************************************)
EXTENDS CommandPath, TLAPS

-----------------------------------------------------------------------------
(*                              Sequences                                  *)

LEMMA EntriesOfAppend ==
  ASSUME NEW S, NEW s \in Seq(S), NEW x \in S
  PROVE  /\ Append(s, x) \in Seq(S) /\ Len(Append(s, x)) = Len(s) + 1
         /\ Entries(Append(s, x)) = Entries(s) \cup {x}
<1> DEFINE t == Append(s, x)
<1>1. /\ t \in Seq(S) /\ Len(t) = Len(s) + 1 /\ t[Len(s) + 1] = x
      /\ \A i \in 1 .. Len(s) : t[i] = s[i]
      /\ DOMAIN t = 1 .. Len(s) + 1 /\ DOMAIN s = 1 .. Len(s) /\ Len(s) \in Nat
  OBVIOUS
<1> HIDE DEF t
<1>2. \A i \in DOMAIN t : i \in DOMAIN s \/ i = Len(s) + 1
  BY <1>1
<1>3. Entries(t) = Entries(s) \cup {x}
  BY <1>1, <1>2 DEF Entries
<1> QED
  BY <1>1, <1>3 DEF t

LEMMA EntriesOfTail ==
  ASSUME NEW S, NEW s \in Seq(S), s # <<>>
  PROVE  /\ Tail(s) \in Seq(S) /\ Len(Tail(s)) = Len(s) - 1 /\ Len(s) \in Nat
         /\ Head(s) \in S /\ Head(s) \in Entries(s) /\ Head(s) = s[1] /\ 1 \in DOMAIN s
         /\ Entries(Tail(s)) \subseteq Entries(s)
         /\ \A i \in DOMAIN Tail(s) : i \in Nat \ {0} /\ i + 1 \in DOMAIN s /\ Tail(s)[i] = s[i + 1]
<1> DEFINE t == Tail(s)
<1>1. /\ t \in Seq(S) /\ Len(t) = Len(s) - 1 /\ Len(s) \in Nat \ {0} /\ Head(s) = s[1] /\ s[1] \in S
      /\ \A i \in 1 .. Len(s) - 1 : t[i] = s[i + 1]
      /\ DOMAIN t = 1 .. Len(s) - 1 /\ DOMAIN s = 1 .. Len(s)
  OBVIOUS
<1> HIDE DEF t
<1>2. \A i \in DOMAIN t : i \in Nat \ {0} /\ i + 1 \in DOMAIN s /\ t[i] = s[i + 1]
  BY <1>1
<1>3. 1 \in DOMAIN s
  BY <1>1
<1>4. Entries(t) \subseteq Entries(s) /\ Head(s) \in Entries(s)
  BY <1>1, <1>2, <1>3 DEF Entries
<1> QED
  BY <1>1, <1>2, <1>3, <1>4 DEF t

LEMMA EntriesOfSeq ==
  ASSUME NEW S, NEW s \in Seq(S)
  PROVE  Entries(s) \subseteq S
BY DEF Entries

LEMMA EntriesOfNone == Entries(<<>>) = {}
BY DEF Entries

LEMMA SeqOfMore ==
  ASSUME NEW S, NEW T, S \subseteq T, NEW s \in Seq(S)
  PROVE  s \in Seq(T)
<1>1. s \in [1 .. Len(s) -> S] /\ Len(s) \in Nat
  OBVIOUS
<1>2. s \in [1 .. Len(s) -> T]
  BY <1>1
<1> QED
  BY <1>1, <1>2

(* A message queued or dropped.                                            *)
LEMMA EnqueueFacts ==
  ASSUME NEW S, NEW q \in Seq(S), NEW n \in S, NEW cap \in Nat, Len(q) <= cap
  PROVE  /\ Enqueue(q, n, cap) \in Seq(S) /\ Len(Enqueue(q, n, cap)) <= cap
         /\ Enqueue(q, n, cap) \in {q, Append(q, n)}
         /\ Dropped(q, n, cap) \subseteq {n} \ {Telemetry}
BY DEF Enqueue, Dropped
-----------------------------------------------------------------------------
(*                                Types                                    *)

(* The commands of the next state include those of this one.               *)
LEMMA MoreMessages ==
  ASSUME accepted \in Seq(Command), NEW c \in Command, accepted' = Append(accepted, c)
  PROVE  /\ accepted' \in Seq(Command) /\ Len(accepted') = Len(accepted) + 1
         /\ Serial' = 1 .. Len(accepted) + 1 /\ Serial \subseteq Serial' /\ Message \subseteq Message'
         /\ Len(accepted) + 1 \in Serial'
         /\ accepted'[Len(accepted) + 1] = c
         /\ \A n \in Serial : accepted'[n] = accepted[n]
BY DEF Serial, Message

LEMMA TypeStart == Init => TypeOK
<1>1. ASSUME Init PROVE TypeOK
  <2>1. 0 \in 0 .. RingSize - 1 /\ NoId \in Nat /\ 0 \in 0 .. MaxFaults
    BY PathAssumption DEF NoId
  <2>2. \A m \in Member : Len(queue[m]) <= QueueCap
    BY <1>1, PathAssumption DEF Init
  <2>3. Len(<<>>) <= LinkCap /\ Len(<<>>) <= PublishCap
    BY PathAssumption
  <2>4. ring \in [1 .. RingSize -> Nat] /\ booted \in 0 .. Len(accepted)
    BY <1>1, <2>1 DEF Init
  <2>5. <<>> \in Seq(Serial) /\ <<>> \in Seq(Message) /\ <<>> \in Seq(Command)
    OBVIOUS
  <2>6. /\ toMember \in [Radio -> Seq(Serial)] /\ toCoord \in [Radio -> Seq(Serial)]
        /\ queue \in [Member -> Seq(Serial)] /\ executed \in [Member -> Seq(Serial)]
        /\ busy \in [Member -> Serial \cup {None}] /\ plugged \in [Member -> BOOLEAN]
    BY <1>1, <2>5 DEF Init
  <2>7. /\ topology \in Topologies /\ connected \in BOOLEAN /\ slot \in 0 .. RingSize - 1
        /\ outgoing \in Message \cup {None} /\ known \subseteq Radio /\ lost \subseteq Serial
        /\ faults \in 0 .. MaxFaults
    BY <1>1, <2>1 DEF Init
  <2>8. /\ down \in Seq(Serial) /\ Len(down) <= LinkCap /\ up \in Seq(Message) /\ Len(up) <= LinkCap
        /\ publish \in Seq(Message) /\ Len(publish) <= PublishCap
        /\ accepted \in Seq(Command) /\ answered \in Seq(Serial)
    BY <1>1, <2>3, <2>5 DEF Init
  <2> QED
    BY <2>2, <2>4, <2>6, <2>7, <2>8 DEF TypeOK
<1> QED
  BY <1>1

LEMMA Targets == \A c \in Command : c.target \in Member /\ c.id \in Nat
BY PathAssumption

(* Routing at the coordinator: the command ends at a queue, at a member's  *)
(* radio or in the list of the lost ones.                                  *)
LEMMA CoordinatorTyped ==
  ASSUME TypeOK, NEW n \in Serial', accepted' \in Seq(Command), Serial \subseteq Serial',
         AtCoordinator(n)
  PROVE  /\ toMember' \in [Radio -> Seq(Serial')]
         /\ queue' \in [Member -> Seq(Serial')] /\ \A m \in Member : Len(queue'[m]) <= QueueCap
         /\ lost' \subseteq Serial'
         /\ \A m \in Member : \/ queue'[m] = queue[m]
                              \/ m = 0 /\ m = accepted'[n].target /\ queue'[m] = Append(queue[m], n)
         /\ \A m \in Radio : \/ toMember'[m] = toMember[m]
                             \/ m = accepted'[n].target /\ toMember'[m] = Append(toMember[m], n)
         /\ accepted'[n].target \in Member
<1>1. accepted'[n].target \in Member /\ Target(n) = accepted'[n].target
  <2>1. accepted'[n] \in Command
    BY DEF Serial
  <2> QED
    BY <2>1, Targets DEF Target
<1> DEFINE t == accepted'[n].target
<1>2. /\ queue \in [Member -> Seq(Serial')] /\ toMember \in [Radio -> Seq(Serial')]
      /\ lost \subseteq Serial' /\ \A m \in Member : Len(queue[m]) <= QueueCap
  BY SeqOfMore DEF TypeOK
<1> HIDE DEF t
<1>3. CASE t = 0
  <2>1. ToQueue(0, n) /\ 0 \in Member
    BY <1>1, <1>3, PathAssumption DEF AtCoordinator, t
  <2>2. /\ Enqueue(queue[0], n, QueueCap) \in Seq(Serial')
        /\ Len(Enqueue(queue[0], n, QueueCap)) <= QueueCap
        /\ Enqueue(queue[0], n, QueueCap) \in {queue[0], Append(queue[0], n)}
        /\ Dropped(queue[0], n, QueueCap) \subseteq {n} \ {Telemetry}
    <3>1. queue[0] \in Seq(Serial') /\ Len(queue[0]) <= QueueCap
      BY <1>2, <2>1
    <3> QED
      BY <3>1, EnqueueFacts, PathAssumption
  <2>3. /\ queue' = [queue EXCEPT ![0] = Enqueue(queue[0], n, QueueCap)]
        /\ lost' = lost \cup Dropped(queue[0], n, QueueCap) /\ toMember' = toMember
    BY <2>1 DEF ToQueue, QueueCommand
  <2> QED
    BY <1>1, <1>2, <1>3, <2>1, <2>2, <2>3 DEF t
<1>4. CASE t # 0
  <2>1. ToMesh(t, n) /\ t \in Radio
    BY <1>1, <1>4 DEF AtCoordinator, Radio, t
  <2>2. CASE t \in known
    <3>1. toMember' = [toMember EXCEPT ![t] = Append(@, n)] /\ UNCHANGED <<queue, lost>>
      BY <2>1, <2>2 DEF ToMesh
    <3>2. Append(toMember[t], n) \in Seq(Serial')
      BY <1>2, <2>1
    <3> QED
      BY <1>1, <1>2, <2>1, <3>1, <3>2 DEF t
  <2>3. CASE t \notin known
    <3>1. Discard(n)
      BY <2>1, <2>3 DEF ToMesh
    <3> QED
      BY <1>1, <1>2, <3>1 DEF Discard, t
  <2> QED
    BY <2>2, <2>3
<1> QED
  BY <1>3, <1>4

(* What stays when no command is accepted.                                 *)
LEMMA SerialStays ==
  ASSUME accepted' = accepted
  PROVE  Serial' = Serial /\ Message' = Message
BY DEF Serial, Message

LEMMA AcceptTyped ==
  ASSUME TypeOK, NEW c \in Command, Accept(c)
  PROVE  TypeOK'
<1>1. /\ accepted' \in Seq(Command) /\ Len(accepted') = Len(accepted) + 1
      /\ Serial \subseteq Serial' /\ Message \subseteq Message' /\ Len(accepted) + 1 \in Serial'
      /\ Len(accepted) \in Nat
  BY MoreMessages DEF Accept, TypeOK
<1> DEFINE n == Len(accepted) + 1
<1>2. /\ down \in Seq(Serial') /\ up \in Seq(Message') /\ publish \in Seq(Message')
      /\ answered \in Seq(Serial') /\ queue \in [Member -> Seq(Serial')]
      /\ toMember \in [Radio -> Seq(Serial')] /\ toCoord \in [Radio -> Seq(Serial')]
      /\ executed \in [Member -> Seq(Serial')] /\ busy \in [Member -> Serial' \cup {None}]
      /\ outgoing \in Message' \cup {None} /\ lost \subseteq Serial'
  <2>1. \A s \in Seq(Serial) : s \in Seq(Serial')
    BY <1>1, SeqOfMore
  <2>2. \A s \in Seq(Message) : s \in Seq(Message')
    BY <1>1, SeqOfMore
  <2> QED
    BY <1>1, <2>1, <2>2 DEF TypeOK
<1>3. /\ down' \in Seq(Serial') /\ Len(down') <= LinkCap
      /\ toMember' \in [Radio -> Seq(Serial')] /\ queue' \in [Member -> Seq(Serial')]
      /\ \A m \in Member : Len(queue'[m]) <= QueueCap
      /\ lost' \subseteq Serial'
  <2>1. CASE InverterAtHost
    <3>1. AtCoordinator(n) /\ down' = down
      BY <2>1 DEF Accept, AtHost
    <3> QED
      BY <1>1, <1>2, <3>1, CoordinatorTyped DEF TypeOK
  <2>2. CASE ~InverterAtHost
    <3>1. /\ down' = Enqueue(down, n, LinkCap) /\ lost' = lost \cup Dropped(down, n, LinkCap)
          /\ UNCHANGED <<queue, toMember>>
      BY <2>2 DEF Accept, AtHost
    <3>2. LinkCap \in Nat /\ Len(down) <= LinkCap
      BY PathAssumption DEF TypeOK
    <3>3. /\ Enqueue(down, n, LinkCap) \in Seq(Serial') /\ Len(Enqueue(down, n, LinkCap)) <= LinkCap
          /\ Dropped(down, n, LinkCap) \subseteq {n} \ {Telemetry}
      BY <1>1, <1>2, <3>2, EnqueueFacts
    <3> QED
      BY <1>1, <1>2, <3>1, <3>3 DEF TypeOK
  <2> QED
    BY <2>1, <2>2
<1>4. ring' \in [1 .. RingSize -> Nat] /\ slot' \in 0 .. RingSize - 1
  <2>1. RingSize \in Nat \ {0} /\ c.id \in Nat
    BY PathAssumption
  <2>2. slot' = (slot + 1) % RingSize /\ ring' = [ring EXCEPT ![slot + 1] = c.id]
    BY DEF Accept, NextSlot
  <2>3. ring \in [1 .. RingSize -> Nat]
    BY DEF TypeOK
  <2>4. slot' \in 0 .. RingSize - 1
    BY <2>1, <2>2 DEF TypeOK
  <2> QED
    BY <2>1, <2>2, <2>3, <2>4
<1>5. /\ topology' = topology /\ connected' = connected /\ up' = up /\ toCoord' = toCoord
      /\ busy' = busy /\ publish' = publish /\ outgoing' = outgoing /\ plugged' = plugged
      /\ known' = known /\ booted' = booted /\ executed' = executed /\ answered' = answered
      /\ faults' = faults
  BY DEF Accept, output, setting
<1>6. booted' \in 0 .. Len(accepted')
  BY <1>1, <1>5 DEF TypeOK
<1> HIDE DEF n
<1> QED
  BY <1>1, <1>2, <1>3, <1>4, <1>5, <1>6 DEF TypeOK

LEMMA CommandTyped ==
  ASSUME TypeOK, LinkDown \/ (\E m \in Radio : MeshToMember(m)) \/ (\E m \in Member : TakeCommand(m))
  PROVE  TypeOK'
<1>1. CASE LinkDown
  <2>1. accepted' = accepted /\ down # <<>> /\ down' = Tail(down) /\ AtCoordinator(Head(down))
    BY <1>1 DEF LinkDown
  <2>2. Serial' = Serial /\ Message' = Message
    BY <2>1, SerialStays
  <2>3. down' \in Seq(Serial) /\ Len(down') <= LinkCap /\ Head(down) \in Serial'
    BY <2>1, <2>2, EntriesOfTail, PathAssumption DEF TypeOK
  <2>4. /\ toMember' \in [Radio -> Seq(Serial)] /\ queue' \in [Member -> Seq(Serial)]
        /\ \A m \in Member : Len(queue'[m]) <= QueueCap
        /\ lost' \subseteq Serial
    BY <2>1, <2>2, <2>3, CoordinatorTyped DEF TypeOK
  <2>5. UNCHANGED <<topology, connected, ring, slot, up, toCoord, busy, publish, outgoing, plugged,
                    known, booted, executed, answered, faults>>
    BY <1>1 DEF LinkDown, bridge, output, setting
  <2> QED
    BY <2>1, <2>2, <2>3, <2>4, <2>5 DEF TypeOK
<1>2. ASSUME NEW m \in Radio, MeshToMember(m) PROVE TypeOK'
  <2> DEFINE n == Head(toMember[m])
  <2>1. /\ UNCHANGED <<topology, connected, ring, slot, down, up, toCoord, busy, publish, outgoing,
                       plugged, known, accepted, booted, executed, answered, faults>>
        /\ toMember[m] # <<>> /\ toMember' = [toMember EXCEPT ![m] = Tail(@)]
        /\ queue' = [queue EXCEPT ![m] = Enqueue(queue[m], n, QueueCap)]
        /\ lost' = lost \cup Dropped(queue[m], n, QueueCap)
    BY <1>2 DEF MeshToMember, bridge, output, setting, QueueCommand
  <2>2. Serial' = Serial /\ Message' = Message
    BY <2>1, SerialStays
  <2>3. m \in Member /\ QueueCap \in Nat
    BY PathAssumption DEF Radio
  <2>4. toMember[m] \in Seq(Serial) /\ queue[m] \in Seq(Serial) /\ Len(queue[m]) <= QueueCap
    BY <2>3 DEF TypeOK
  <2>5. Tail(toMember[m]) \in Seq(Serial) /\ n \in Serial
    BY <2>1, <2>4, EntriesOfTail
  <2>6. /\ Enqueue(queue[m], n, QueueCap) \in Seq(Serial)
        /\ Len(Enqueue(queue[m], n, QueueCap)) <= QueueCap
        /\ Dropped(queue[m], n, QueueCap) \subseteq {n}
    BY <2>3, <2>4, <2>5, EnqueueFacts
  <2> HIDE DEF n
  <2>7. /\ toMember' \in [Radio -> Seq(Serial)] /\ queue' \in [Member -> Seq(Serial)]
        /\ \A k \in Member : Len(queue'[k]) <= QueueCap
        /\ lost' \subseteq Serial
    BY <2>1, <2>3, <2>5, <2>6 DEF TypeOK
  <2> QED
    BY <2>1, <2>2, <2>7 DEF TypeOK
<1>3. ASSUME NEW m \in Member, TakeCommand(m) PROVE TypeOK'
  <2> DEFINE n == Head(queue[m])
  <2>1. /\ UNCHANGED <<topology, connected, ring, slot, down, up, toMember, toCoord, publish, outgoing,
                       plugged, known, accepted, booted, answered, lost, faults>>
        /\ queue[m] # <<>> /\ queue' = [queue EXCEPT ![m] = Tail(@)]
        /\ busy' = [busy EXCEPT ![m] = n]
        /\ executed' = [executed EXCEPT ![m] = Append(@, n)]
    BY <1>3 DEF TakeCommand, bridge, wires, output, setting
  <2>2. Serial' = Serial /\ Message' = Message
    BY <2>1, SerialStays
  <2>3. queue[m] \in Seq(Serial) /\ executed[m] \in Seq(Serial) /\ Len(queue[m]) <= QueueCap
    BY DEF TypeOK
  <2>4. Tail(queue[m]) \in Seq(Serial) /\ n \in Serial /\ Len(Tail(queue[m])) <= QueueCap
    BY <2>1, <2>3, EntriesOfTail, PathAssumption
  <2>5. Append(executed[m], n) \in Seq(Serial)
    BY <2>3, <2>4
  <2> HIDE DEF n
  <2>6. /\ queue' \in [Member -> Seq(Serial)] /\ \A k \in Member : Len(queue'[k]) <= QueueCap
        /\ busy' \in [Member -> Serial \cup {None}] /\ executed' \in [Member -> Seq(Serial)]
    BY <2>1, <2>4, <2>5 DEF TypeOK
  <2> QED
    BY <2>1, <2>2, <2>6 DEF TypeOK
<1> QED
  BY <1>1, <1>2, <1>3

(* Where a result or a telemetry message goes from the coordinator.        *)
LEMMA ResultRouted ==
  ASSUME TypeOK, NEW n \in Message, ResultAtCoordinator(n)
  PROVE  /\ up' \in Seq(Message) /\ Len(up') <= LinkCap
         /\ publish' \in Seq(Message) /\ Len(publish') <= PublishCap
         /\ lost' \subseteq Serial
         /\ \/ up' = up /\ publish' = publish
            \/ InverterAtHost /\ up' = up /\ publish' = Append(publish, n)
            \/ ~InverterAtHost /\ publish' = publish /\ up' = Append(up, n)
<1>1. {n} \ {Telemetry} \subseteq Serial /\ LinkCap \in Nat /\ PublishCap \in Nat
  BY PathAssumption DEF Message
<1>2. /\ Enqueue(up, n, LinkCap) \in Seq(Message) /\ Len(Enqueue(up, n, LinkCap)) <= LinkCap
      /\ Enqueue(up, n, LinkCap) \in {up, Append(up, n)}
      /\ Dropped(up, n, LinkCap) \subseteq {n} \ {Telemetry}
  BY <1>1, EnqueueFacts DEF TypeOK
<1>3. /\ Enqueue(publish, n, PublishCap) \in Seq(Message)
      /\ Len(Enqueue(publish, n, PublishCap)) <= PublishCap
      /\ Enqueue(publish, n, PublishCap) \in {publish, Append(publish, n)}
      /\ Dropped(publish, n, PublishCap) \subseteq {n} \ {Telemetry}
  BY <1>1, EnqueueFacts DEF TypeOK
<1>4. lost \subseteq Serial /\ up \in Seq(Message) /\ Len(up) <= LinkCap
      /\ publish \in Seq(Message) /\ Len(publish) <= PublishCap
  BY DEF TypeOK
<1>5. CASE InverterAtHost
  <2>1. /\ publish' = Enqueue(publish, n, PublishCap) /\ up' = up
        /\ lost' = lost \cup Dropped(publish, n, PublishCap)
    BY <1>5 DEF ResultAtCoordinator, ToPublish
  <2> QED
    BY <1>1, <1>3, <1>4, <1>5, <2>1
<1>6. CASE ~InverterAtHost
  <2>1. /\ up' = Enqueue(up, n, LinkCap) /\ publish' = publish
        /\ lost' = lost \cup Dropped(up, n, LinkCap)
    BY <1>6 DEF ResultAtCoordinator
  <2> QED
    BY <1>1, <1>2, <1>4, <1>6, <2>1
<1> QED
  BY <1>5, <1>6

LEMMA ResultTyped ==
  ASSUME TypeOK, \/ \E m \in Member : FinishCommand(m)
                 \/ \E m \in Radio : MeshToCoordinator(m)
                 \/ EmitTelemetry \/ LinkUp \/ TakeMessage \/ PublishNow
  PROVE  TypeOK'
<1> SUFFICES ASSUME accepted' = accepted PROVE TypeOK'
  BY DEF FinishCommand, MeshToCoordinator, EmitTelemetry, LinkUp, TakeMessage, PublishNow, history
<1>0. Serial' = Serial /\ Message' = Message
  BY SerialStays
<1>1. ASSUME NEW m \in Member, FinishCommand(m) PROVE TypeOK'
  <2>1. /\ UNCHANGED <<topology, connected, ring, slot, down, toMember, queue, outgoing, plugged,
                       known, accepted, booted, executed, answered, faults>>
        /\ busy[m] # None /\ busy' = [busy EXCEPT ![m] = None]
    BY <1>1 DEF FinishCommand, bridge, setting
  <2>2. busy[m] \in Serial /\ busy' \in [Member -> Serial \cup {None}]
    BY <2>1 DEF TypeOK
  <2>3. CASE m = 0
    <3>1. ResultAtCoordinator(busy[m]) /\ toCoord' = toCoord
      BY <1>1, <2>3 DEF FinishCommand
    <3>2. busy[m] \in Message
      BY <2>2 DEF Message
    <3>3. /\ up' \in Seq(Message) /\ Len(up') <= LinkCap
          /\ publish' \in Seq(Message) /\ Len(publish') <= PublishCap /\ lost' \subseteq Serial
      BY <3>1, <3>2, ResultRouted
    <3> QED
      BY <1>0, <2>1, <2>2, <3>1, <3>3 DEF TypeOK
  <2>4. CASE m # 0
    <3>1. /\ toCoord' = [toCoord EXCEPT ![m] = Append(@, busy[m])]
          /\ UNCHANGED <<up, publish, lost>> /\ m \in Radio
      BY <1>1, <2>4 DEF FinishCommand, Radio
    <3>2. Append(toCoord[m], busy[m]) \in Seq(Serial)
      BY <2>2, <3>1 DEF TypeOK
    <3>3. toCoord' \in [Radio -> Seq(Serial)]
      BY <3>1, <3>2 DEF TypeOK
    <3> QED
      BY <1>0, <2>1, <2>2, <3>1, <3>3 DEF TypeOK
  <2> QED
    BY <2>3, <2>4
<1>2. ASSUME NEW m \in Radio, MeshToCoordinator(m) PROVE TypeOK'
  <2>1. /\ UNCHANGED <<topology, connected, ring, slot, down, toMember, queue, busy, outgoing,
                       plugged, known, accepted, booted, executed, answered, faults>>
        /\ toCoord[m] # <<>> /\ toCoord' = [toCoord EXCEPT ![m] = Tail(@)]
        /\ ResultAtCoordinator(Head(toCoord[m]))
    BY <1>2 DEF MeshToCoordinator, bridge, setting, tasks
  <2>2. Tail(toCoord[m]) \in Seq(Serial) /\ Head(toCoord[m]) \in Serial
    BY <2>1, EntriesOfTail DEF TypeOK
  <2>3. toCoord' \in [Radio -> Seq(Serial)] /\ Head(toCoord[m]) \in Message
    BY <2>1, <2>2 DEF TypeOK, Message
  <2>4. /\ up' \in Seq(Message) /\ Len(up') <= LinkCap
        /\ publish' \in Seq(Message) /\ Len(publish') <= PublishCap /\ lost' \subseteq Serial
    BY <2>1, <2>3, ResultRouted
  <2> QED
    BY <1>0, <2>1, <2>3, <2>4 DEF TypeOK
<1>3. CASE EmitTelemetry
  <2>1. /\ UNCHANGED <<topology, connected, ring, slot, down, toMember, toCoord, queue, busy,
                       outgoing, plugged, known, accepted, booted, executed, answered, faults>>
        /\ ResultAtCoordinator(Telemetry) /\ Telemetry \in Message
    BY <1>3 DEF EmitTelemetry, bridge, setting, tasks, Message
  <2>2. /\ up' \in Seq(Message) /\ Len(up') <= LinkCap
        /\ publish' \in Seq(Message) /\ Len(publish') <= PublishCap /\ lost' \subseteq Serial
    BY <2>1, ResultRouted
  <2> QED
    BY <1>0, <2>1, <2>2 DEF TypeOK
<1>4. CASE LinkUp
  <2> DEFINE n == Head(up)
  <2>1. /\ UNCHANGED <<topology, connected, ring, slot, down, toMember, toCoord, queue, busy,
                       outgoing, plugged, known, accepted, booted, executed, answered, faults>>
        /\ up # <<>> /\ up' = Tail(up) /\ publish' = Enqueue(publish, n, PublishCap)
        /\ lost' = lost \cup Dropped(publish, n, PublishCap)
    BY <1>4 DEF LinkUp, bridge, setting, tasks
  <2>2. Tail(up) \in Seq(Message) /\ n \in Message /\ Len(Tail(up)) <= LinkCap
    BY <2>1, EntriesOfTail, PathAssumption DEF TypeOK
  <2>3. /\ Enqueue(publish, n, PublishCap) \in Seq(Message)
        /\ Len(Enqueue(publish, n, PublishCap)) <= PublishCap
        /\ Dropped(publish, n, PublishCap) \subseteq {n} \ {Telemetry}
    BY <2>2, EnqueueFacts, PathAssumption DEF TypeOK
  <2>4. lost' \subseteq Serial
    BY <2>1, <2>2, <2>3 DEF TypeOK, Message
  <2> HIDE DEF n
  <2> QED
    BY <1>0, <2>1, <2>2, <2>3, <2>4 DEF TypeOK
<1>5. CASE TakeMessage
  <2>1. /\ UNCHANGED <<topology, connected, ring, slot, down, up, toMember, toCoord, queue, busy,
                       plugged, known, accepted, booted, executed, answered, lost, faults>>
        /\ publish # <<>> /\ publish' = Tail(publish) /\ outgoing' = Head(publish)
    BY <1>5 DEF TakeMessage, bridge, wires, setting, tasks, history
  <2>2. Tail(publish) \in Seq(Message) /\ Head(publish) \in Message /\ Len(Tail(publish)) <= PublishCap
    BY <2>1, EntriesOfTail, PathAssumption DEF TypeOK
  <2> QED
    BY <1>0, <2>1, <2>2 DEF TypeOK
<1>6. CASE PublishNow
  <2>1. /\ UNCHANGED <<topology, connected, ring, slot, down, up, toMember, toCoord, queue, busy,
                       publish, plugged, known, accepted, booted, executed, lost, faults>>
        /\ outgoing # None /\ outgoing' = None
        /\ answered' = IF outgoing = Telemetry THEN answered ELSE Append(answered, outgoing)
    BY <1>6 DEF PublishNow, bridge, wires, setting, tasks
  <2>2. answered' \in Seq(Serial)
    BY <2>1 DEF TypeOK, Message
  <2> QED
    BY <1>0, <2>1, <2>2 DEF TypeOK
<1> QED
  BY <1>1, <1>2, <1>3, <1>4, <1>5, <1>6

(* A sequence that lost its first entry or all of them, or nothing.        *)
Shorter(s, t) == t = s \/ t = <<>> \/ (s # <<>> /\ t = Tail(s))

LEMMA ShorterFacts ==
  ASSUME NEW S, NEW s \in Seq(S), NEW t, Shorter(s, t)
  PROVE  /\ t \in Seq(S) /\ Len(t) <= Len(s) /\ Entries(t) \subseteq Entries(s)
         /\ Len(t) \in Nat /\ Len(s) \in Nat
<1>1. CASE t = s
  BY <1>1
<1>2. CASE t = <<>>
  BY <1>2, EntriesOfNone
<1>3. CASE s # <<>> /\ t = Tail(s)
  BY <1>3, EntriesOfTail
<1> QED
  BY <1>1, <1>2, <1>3 DEF Shorter

(* The steps of the environment take messages away; they add none.         *)
Environment ==
  \/ LoseFrame \/ LoseBroker \/ FindBroker \/ RestartHost
  \/ (\E m \in Member : Plug(m) \/ Unplug(m) \/ RestartServer(m))
  \/ (\E m \in Radio : LearnMember(m))

TakesAway ==
  /\ UNCHANGED <<topology, accepted, executed, answered>>
  /\ Shorter(down, down') /\ Shorter(up, up') /\ Shorter(publish, publish')
  /\ queue' \in [Member -> Seq(Serial)] /\ \A m \in Member : Shorter(queue[m], queue'[m])
  /\ toMember' \in [Radio -> Seq(Serial)] /\ \A m \in Radio : Shorter(toMember[m], toMember'[m])
  /\ toCoord' \in [Radio -> Seq(Serial)] /\ \A m \in Radio : Shorter(toCoord[m], toCoord'[m])
  /\ busy' \in [Member -> Serial \cup {None}] /\ \A m \in Member : busy'[m] \in {busy[m], None}
  /\ outgoing' \in {outgoing, None}
  /\ lost' \subseteq Serial

LEMMA EmptiedTakesAway ==
  ASSUME TypeOK, NEW m \in Member, Emptied(m)
  PROVE  /\ queue' \in [Member -> Seq(Serial)] /\ \A k \in Member : Shorter(queue[k], queue'[k])
         /\ toMember' \in [Radio -> Seq(Serial)] /\ \A k \in Radio : Shorter(toMember[k], toMember'[k])
         /\ toCoord' \in [Radio -> Seq(Serial)] /\ \A k \in Radio : Shorter(toCoord[k], toCoord'[k])
         /\ busy' \in [Member -> Serial \cup {None}] /\ \A k \in Member : busy'[k] \in {busy[k], None}
         /\ Held(m) \subseteq Serial
<1>1. <<>> \in Seq(Serial)
  OBVIOUS
<1>2. /\ queue' = [queue EXCEPT ![m] = <<>>] /\ busy' = [busy EXCEPT ![m] = None]
      /\ \/ m = 0 /\ toCoord' = [k \in Radio |-> <<>>] /\ toMember' = toMember
         \/ m # 0 /\ m \in Radio /\ toMember' = [toMember EXCEPT ![m] = <<>>] /\ toCoord' = toCoord
  BY DEF Emptied, Radio
<1>3. /\ queue \in [Member -> Seq(Serial)] /\ busy \in [Member -> Serial \cup {None}]
      /\ toMember \in [Radio -> Seq(Serial)] /\ toCoord \in [Radio -> Seq(Serial)]
  BY DEF TypeOK
<1>4. Held(m) \subseteq Serial
  <2>1. /\ Entries(queue[m]) \subseteq Serial
        /\ \A k \in Radio : Entries(toCoord[k]) \subseteq Serial /\ Entries(toMember[k]) \subseteq Serial
    BY <1>3, EntriesOfSeq
  <2>2. Commands(queue[m]) \subseteq Serial /\ {busy[m]} \ {None} \subseteq Serial
    BY <1>3, <2>1 DEF Commands
  <2>3. m # 0 => m \in Radio
    BY DEF Radio
  <2> QED
    BY <2>1, <2>2, <2>3 DEF Held
<1>5. /\ queue' \in [Member -> Seq(Serial)] /\ \A k \in Member : Shorter(queue[k], queue'[k])
      /\ busy' \in [Member -> Serial \cup {None}] /\ \A k \in Member : busy'[k] \in {busy[k], None}
  BY <1>1, <1>2, <1>3 DEF Shorter
<1>6. /\ toMember' \in [Radio -> Seq(Serial)] /\ \A k \in Radio : Shorter(toMember[k], toMember'[k])
      /\ toCoord' \in [Radio -> Seq(Serial)] /\ \A k \in Radio : Shorter(toCoord[k], toCoord'[k])
  BY <1>1, <1>2, <1>3 DEF Shorter
<1> QED
  BY <1>4, <1>5, <1>6

LEMMA EnvironmentTakesAway ==
  ASSUME TypeOK, Environment
  PROVE  TakesAway
<1>0. /\ queue \in [Member -> Seq(Serial)] /\ busy \in [Member -> Serial \cup {None}]
      /\ toMember \in [Radio -> Seq(Serial)] /\ toCoord \in [Radio -> Seq(Serial)]
      /\ lost \subseteq Serial /\ down \in Seq(Serial) /\ up \in Seq(Message) /\ publish \in Seq(Message)
      /\ outgoing \in Message \cup {None}
  BY DEF TypeOK
<1>1. \A s : Shorter(s, s)
  BY DEF Shorter
<1>2. CASE LoseFrame
  <2>1. UNCHANGED <<topology, queue, busy, publish, outgoing, accepted, executed, answered>>
    BY <1>2 DEF LoseFrame, tasks, output
  <2>2. CASE down # <<>> /\ down' = Tail(down) /\ lost' = lost \cup {Head(down)} /\ UNCHANGED <<up, toMember, toCoord>>
    <3>1. Head(down) \in Serial
      BY <1>0, <2>2, EntriesOfTail
    <3> QED
      BY <1>0, <1>1, <2>1, <2>2, <3>1 DEF TakesAway, Shorter
  <2>3. CASE up # <<>> /\ up' = Tail(up) /\ lost' = lost \cup ({Head(up)} \ {Telemetry}) /\ UNCHANGED <<down, toMember, toCoord>>
    <3>1. {Head(up)} \ {Telemetry} \subseteq Serial
      BY <1>0, <2>3, EntriesOfTail DEF Message
    <3> QED
      BY <1>0, <1>1, <2>1, <2>3, <3>1 DEF TakesAway, Shorter
  <2>4. ASSUME NEW m \in Radio, toMember[m] # <<>>, toMember' = [toMember EXCEPT ![m] = Tail(@)],
               lost' = lost \cup {Head(toMember[m])}, UNCHANGED <<down, up, toCoord>>
        PROVE  TakesAway
    <3>1. Head(toMember[m]) \in Serial /\ Tail(toMember[m]) \in Seq(Serial)
      BY <1>0, <2>4, EntriesOfTail
    <3>2. toMember' \in [Radio -> Seq(Serial)] /\ \A k \in Radio : Shorter(toMember[k], toMember'[k])
      BY <1>0, <1>1, <2>4, <3>1 DEF Shorter
    <3> QED
      BY <1>0, <1>1, <2>1, <2>4, <3>1, <3>2 DEF TakesAway
  <2>5. ASSUME NEW m \in Radio, toCoord[m] # <<>>, toCoord' = [toCoord EXCEPT ![m] = Tail(@)],
               lost' = lost \cup {Head(toCoord[m])}, UNCHANGED <<down, up, toMember>>
        PROVE  TakesAway
    <3>1. Head(toCoord[m]) \in Serial /\ Tail(toCoord[m]) \in Seq(Serial)
      BY <1>0, <2>5, EntriesOfTail
    <3>2. toCoord' \in [Radio -> Seq(Serial)] /\ \A k \in Radio : Shorter(toCoord[k], toCoord'[k])
      BY <1>0, <1>1, <2>5, <3>1 DEF Shorter
    <3> QED
      BY <1>0, <1>1, <2>1, <2>5, <3>1, <3>2 DEF TakesAway
  <2> QED
    BY <1>2, <2>2, <2>3, <2>4, <2>5 DEF LoseFrame
<1>3. CASE LoseBroker \/ FindBroker \/ (\E m \in Member : Plug(m) \/ Unplug(m)) \/ (\E m \in Radio : LearnMember(m))
  <2>1. UNCHANGED <<topology, down, up, toMember, toCoord, queue, busy, publish, outgoing, accepted,
                    executed, answered, lost>>
    BY <1>3 DEF LoseBroker, FindBroker, Plug, Unplug, LearnMember, wires, tasks, output, history
  <2> QED
    BY <1>0, <1>1, <2>1 DEF TakesAway
<1>4. CASE RestartHost
  <2>1. /\ UNCHANGED <<topology, up, accepted, executed, answered>>
        /\ down' = <<>> /\ publish' = <<>> /\ outgoing' = None
        /\ lost' = lost \cup Commands(down \o publish \o <<outgoing>>)
                        \cup (IF InverterAtHost THEN Held(0) ELSE {})
        /\ IF InverterAtHost THEN Emptied(0) ELSE UNCHANGED <<queue, busy, toCoord, toMember>>
    BY <1>4 DEF RestartHost
  <2>2. Commands(down \o publish \o <<outgoing>>) \subseteq Serial
    <3>1. down \in Seq(Message \cup {None}) /\ publish \in Seq(Message \cup {None})
      BY <1>0, SeqOfMore DEF Message
    <3>2. down \o publish \o <<outgoing>> \in Seq(Message \cup {None})
      BY <1>0, <3>1
    <3> QED
      BY <3>2, EntriesOfSeq DEF Commands, Message
  <2>3. Shorter(down, down') /\ Shorter(publish, publish') /\ Shorter(up, up')
    BY <2>1 DEF Shorter
  <2>4. CASE InverterAtHost
    <3>1. Emptied(0) /\ 0 \in Member
      BY <2>1, <2>4, PathAssumption
    <3> QED
      BY <1>0, <2>1, <2>2, <2>3, <2>4, <3>1, EmptiedTakesAway DEF TakesAway
  <2>5. CASE ~InverterAtHost
    BY <1>0, <1>1, <2>1, <2>2, <2>3, <2>5 DEF TakesAway
  <2> QED
    BY <2>4, <2>5
<1>5. ASSUME NEW m \in Member, RestartServer(m) PROVE TakesAway
  <2>1. /\ Emptied(m)
        /\ up' = IF m = 0 THEN <<>> ELSE up
        /\ lost' = lost \cup Held(m) \cup (IF m = 0 THEN Commands(up) ELSE {})
        /\ UNCHANGED <<topology, down, publish, outgoing, accepted, executed, answered>>
    BY <1>5 DEF RestartServer, output
  <2>2. Commands(up) \subseteq Serial
    BY <1>0, EntriesOfSeq DEF Commands, Message
  <2>3. Shorter(down, down') /\ Shorter(publish, publish') /\ Shorter(up, up')
    BY <2>1 DEF Shorter
  <2> QED
    BY <1>0, <2>1, <2>2, <2>3, EmptiedTakesAway DEF TakesAway
<1> QED
  BY <1>2, <1>3, <1>4, <1>5 DEF Environment

LEMMA EnvironmentTyped ==
  ASSUME TypeOK, Environment
  PROVE  TypeOK'
<1>1. TakesAway
  BY EnvironmentTakesAway
<1>2. Serial' = Serial /\ Message' = Message
  BY <1>1, SerialStays DEF TakesAway
<1>3. /\ down' \in Seq(Serial) /\ Len(down') <= LinkCap /\ up' \in Seq(Message) /\ Len(up') <= LinkCap
      /\ publish' \in Seq(Message) /\ Len(publish') <= PublishCap
  <2>1. LinkCap \in Nat /\ PublishCap \in Nat
    BY PathAssumption
  <2>2. /\ down \in Seq(Serial) /\ Len(down) <= LinkCap /\ up \in Seq(Message) /\ Len(up) <= LinkCap
        /\ publish \in Seq(Message) /\ Len(publish) <= PublishCap
    BY DEF TypeOK
  <2>3. Shorter(down, down') /\ Shorter(up, up') /\ Shorter(publish, publish')
    BY <1>1 DEF TakesAway
  <2>4. /\ down' \in Seq(Serial) /\ Len(down') <= Len(down) /\ Len(down') \in Nat /\ Len(down) \in Nat
    BY <2>2, <2>3, ShorterFacts
  <2>5. /\ up' \in Seq(Message) /\ Len(up') <= Len(up) /\ Len(up') \in Nat /\ Len(up) \in Nat
    BY <2>2, <2>3, ShorterFacts
  <2>6. /\ publish' \in Seq(Message) /\ Len(publish') <= Len(publish) /\ Len(publish') \in Nat
        /\ Len(publish) \in Nat
    BY <2>2, <2>3, ShorterFacts
  <2> QED
    BY <2>1, <2>2, <2>4, <2>5, <2>6
<1>4. ASSUME NEW m \in Member PROVE Len(queue'[m]) <= QueueCap
  <2>1. queue[m] \in Seq(Serial) /\ Shorter(queue[m], queue'[m]) /\ Len(queue[m]) <= QueueCap
    BY <1>1 DEF TakesAway, TypeOK
  <2>2. Len(queue'[m]) <= Len(queue[m]) /\ Len(queue'[m]) \in Nat /\ Len(queue[m]) \in Nat
    BY <2>1, ShorterFacts
  <2> QED
    BY <2>1, <2>2, PathAssumption
<1>5. /\ ring' \in [1 .. RingSize -> Nat] /\ slot' \in 0 .. RingSize - 1
      /\ booted' \in 0 .. Len(accepted) /\ connected' \in BOOLEAN
  <2>1. \/ ring' = ring /\ slot' = slot /\ booted' = booted
        \/ ring' = [i \in 1 .. RingSize |-> NoId] /\ slot' = 0 /\ booted' = Len(accepted)
    BY DEF Environment, LoseFrame, LoseBroker, FindBroker, RestartHost, Plug, Unplug, LearnMember,
           RestartServer, bridge, history
  <2>2. connected' \in {connected, TRUE, FALSE}
    BY DEF Environment, LoseFrame, LoseBroker, FindBroker, RestartHost, Plug, Unplug, LearnMember,
           RestartServer, bridge, history
  <2>3. RingSize \in Nat \ {0} /\ Len(accepted) \in Nat
    BY PathAssumption DEF TypeOK
  <2>4. ring \in [1 .. RingSize -> Nat] /\ slot \in 0 .. RingSize - 1 /\ booted \in 0 .. Len(accepted)
    BY DEF TypeOK
  <2>5. connected' \in BOOLEAN
    BY <2>2 DEF TypeOK
  <2>6. CASE ring' = ring /\ slot' = slot /\ booted' = booted
    BY <2>4, <2>5, <2>6
  <2>7. CASE ring' = [i \in 1 .. RingSize |-> NoId] /\ slot' = 0 /\ booted' = Len(accepted)
    BY <2>3, <2>5, <2>7 DEF NoId
  <2> QED
    BY <2>1, <2>6, <2>7
<1>6. plugged' \in [Member -> BOOLEAN] /\ known' \subseteq Radio
  BY DEF Environment, LoseFrame, LoseBroker, FindBroker, RestartHost, Plug, Unplug, LearnMember,
         RestartServer, setting, TypeOK
<1>7. faults' \in 0 .. MaxFaults
  <2>1. faults' = faults \/ Fault
    BY DEF Environment, LoseFrame, LoseBroker, FindBroker, RestartHost, Plug, Unplug, LearnMember,
           RestartServer, history
  <2>2. faults \in 0 .. MaxFaults /\ MaxFaults \in Nat
    BY PathAssumption DEF TypeOK
  <2> QED
    BY <2>1, <2>2 DEF Fault
<1> QED
  BY <1>1, <1>2, <1>3, <1>4, <1>5, <1>6, <1>7 DEF TakesAway, TypeOK

(* Every step is of one of these kinds.                                    *)
LEMMA StepKinds ==
  ASSUME Next
  PROVE  \/ \E c \in Command : Accept(c)
         \/ LinkDown \/ (\E m \in Radio : MeshToMember(m)) \/ (\E m \in Member : TakeCommand(m))
         \/ (\E m \in Member : FinishCommand(m)) \/ (\E m \in Radio : MeshToCoordinator(m))
            \/ EmitTelemetry \/ LinkUp \/ TakeMessage \/ PublishNow
         \/ Environment
BY DEF Next, Serve, Carry, Publisher, Environment

LEMMA TypeStep == TypeOK /\ [Next]_vars => TypeOK'
<1>1. ASSUME TypeOK, Next PROVE TypeOK'
  BY <1>1, StepKinds, AcceptTyped, CommandTyped, ResultTyped, EnvironmentTyped
<1>2. ASSUME TypeOK, UNCHANGED vars PROVE TypeOK'
  <2>1. Serial' = Serial /\ Message' = Message
    BY <1>2, SerialStays DEF vars, history
  <2> QED
    BY <1>2, <2>1 DEF TypeOK, vars, bridge, wires, tasks, output, setting, history
<1> QED
  BY <1>1, <1>2

(* Whatever is accepted, carried, lost or restarted, the queues hold       *)
(* accepted commands within their capacities (TypeOK).                     *)
THEOREM PathTypeCorrect == Spec => []TypeOK
BY TypeStart, TypeStep, PTL DEF Spec
-----------------------------------------------------------------------------
(*                     The ids the bridge remembers                        *)

(* Where the id of the command accepted d commands ago lies, s the slot.   *)
Place(s, d) == IF s - d >= 1 THEN s - d ELSE s - d + RingSize

(* The ring holds the ids of the last commands of this boot, the most      *)
(* recent one in the place before the slot.                                *)
Remembered ==
  \A d \in 0 .. RingSize - 1 :
    d < Len(accepted) - booted => ring[Place(slot, d)] = accepted[Len(accepted) - d].id

RingInv == TypeOK /\ Remembered /\ NoEarlyRepeat

LEMMA NextPlace ==
  ASSUME NEW r \in Nat \ {0}, NEW a \in 0 .. r - 1
  PROVE  (a + 1) % r = IF a + 1 = r THEN 0 ELSE a + 1
OBVIOUS

LEMMA RingAfterAccept ==
  ASSUME RingInv, NEW c \in Command, Accept(c)
  PROVE  Remembered' /\ NoEarlyRepeat'
<1> DEFINE n == Len(accepted)
<1>1. /\ RingSize \in Nat \ {0} /\ slot \in 0 .. RingSize - 1 /\ n \in Nat /\ booted \in 0 .. n
      /\ ring \in [1 .. RingSize -> Nat]
  BY PathAssumption DEF RingInv, TypeOK
<1>2. /\ Len(accepted') = n + 1 /\ accepted'[n + 1] = c /\ \A i \in 1 .. n : accepted'[i] = accepted[i]
  BY MoreMessages DEF Accept, RingInv, TypeOK, Serial
<1>3. /\ slot' = IF slot + 1 = RingSize THEN 0 ELSE slot + 1
      /\ ring' = [ring EXCEPT ![slot + 1] = c.id] /\ booted' = booted /\ c.id \notin Entries(ring)
  <2>1. slot' = (slot + 1) % RingSize /\ ring' = [ring EXCEPT ![slot + 1] = c.id] /\ booted' = booted
        /\ c.id \notin Entries(ring)
    BY DEF Accept, NextSlot
  <2>2. (slot + 1) % RingSize = IF slot + 1 = RingSize THEN 0 ELSE slot + 1
    BY <1>1, NextPlace
  <2> QED
    BY <2>1, <2>2
<1> HIDE DEF n
<1>4. ASSUME NEW d \in 0 .. RingSize - 1, d < n + 1 - booted
      PROVE  ring'[Place(slot', d)] = accepted'[n + 1 - d].id
  <2>1. CASE d = 0
    <3>1. Place(slot', d) = slot + 1
      BY <1>1, <1>3, <2>1 DEF Place
    <3> QED
      BY <1>1, <1>2, <1>3, <2>1, <3>1
  <2>2. CASE d # 0
    <3>1. /\ d - 1 \in 0 .. RingSize - 1 /\ d - 1 < n - booted
          /\ Place(slot', d) = Place(slot, d - 1) /\ Place(slot, d - 1) # slot + 1 /\ Place(slot, d - 1) \in 1 .. RingSize
      BY <1>1, <1>3, <1>4, <2>2 DEF Place
    <3>2. ring[Place(slot, d - 1)] = accepted[n - (d - 1)].id
      BY <3>1 DEF RingInv, Remembered, n
    <3>3. n - (d - 1) = n + 1 - d /\ n + 1 - d \in 1 .. n
      BY <1>1, <1>4, <2>2
    <3> QED
      BY <1>1, <1>2, <1>3, <3>1, <3>2, <3>3
  <2> QED
    BY <2>1, <2>2
<1>5. ASSUME NEW i \in booted + 1 .. n + 1, NEW j \in booted + 1 .. n + 1, i < j,
             accepted'[i].id = accepted'[j].id
      PROVE  j - i > RingSize
  <2>1. CASE j <= n
    <3>1. i \in 1 .. n /\ j \in 1 .. n /\ i \in booted + 1 .. n /\ j \in booted + 1 .. n
      BY <1>1, <1>5, <2>1
    <3> QED
      BY <1>2, <1>5, <3>1 DEF RingInv, NoEarlyRepeat, n
  <2>2. CASE j = n + 1
    <3> DEFINE d == n - i
    <3>1. i \in 1 .. n /\ accepted[i].id = c.id /\ n - d = i /\ d \in 0 .. n /\ d < n - booted
      BY <1>1, <1>2, <1>5, <2>2
    <3>2. CASE d \in 0 .. RingSize - 1
      <4>1. ring[Place(slot, d)] = c.id
        BY <3>1, <3>2 DEF RingInv, Remembered, n
      <4>2. Place(slot, d) \in 1 .. RingSize
        BY <1>1, <3>1, <3>2 DEF Place
      <4>3. DOMAIN ring = 1 .. RingSize
        BY <1>1
      <4>4. ring[Place(slot, d)] \in Entries(ring)
        BY <4>2, <4>3 DEF Entries
      <4> QED
        BY <1>3, <4>1, <4>4
    <3>3. CASE d \notin 0 .. RingSize - 1
      BY <1>1, <2>2, <3>1, <3>3
    <3> QED
      BY <3>2, <3>3
  <2> QED
    BY <1>1, <1>5, <2>1, <2>2
<1>6. Remembered'
  BY <1>1, <1>2, <1>3, <1>4 DEF Remembered
<1>7. NoEarlyRepeat'
  BY <1>2, <1>3, <1>5 DEF NoEarlyRepeat
<1> QED
  BY <1>6, <1>7

(* In one boot of the bridge an id is accepted again only after at least   *)
(* RingSize other commands (NoEarlyRepeat), whatever the size of the ring. *)
THEOREM RepeatsRefused == Spec => []NoEarlyRepeat
<1>1. Init => RingInv
  <2>1. ASSUME Init PROVE Remembered /\ NoEarlyRepeat
    <3>1. accepted = <<>> /\ booted = 0
      BY <2>1 DEF Init
    <3>2. Len(accepted) = 0
      BY <3>1
    <3> QED
      BY <3>1, <3>2, PathAssumption DEF Remembered, NoEarlyRepeat
  <2> QED
    BY <2>1, TypeStart DEF RingInv
<1>2. RingInv /\ [Next]_vars => RingInv'
  <2>1. ASSUME RingInv, \E c \in Command : Accept(c) PROVE Remembered' /\ NoEarlyRepeat'
    BY <2>1, RingAfterAccept
  <2>2. ASSUME RingInv, accepted' = accepted,
               \/ UNCHANGED <<ring, slot, booted>>
               \/ booted' = Len(accepted)
        PROVE  Remembered' /\ NoEarlyRepeat'
    <3>1. CASE UNCHANGED <<ring, slot, booted>>
      BY <2>2, <3>1 DEF RingInv, Remembered, NoEarlyRepeat
    <3>2. CASE booted' = Len(accepted)
      <4>1. Len(accepted) \in Nat /\ RingSize \in Nat
        BY <2>2, PathAssumption DEF RingInv, TypeOK
      <4> QED
        BY <2>2, <3>2, <4>1 DEF Remembered, NoEarlyRepeat
    <3> QED
      BY <2>2, <3>1, <3>2
  <2>3. ASSUME RingInv, Next PROVE \/ \E c \in Command : Accept(c)
                                  \/ /\ accepted' = accepted
                                     /\ UNCHANGED <<ring, slot, booted>> \/ booted' = Len(accepted)
    BY <2>3 DEF Next, Serve, Carry, Publisher, LinkDown, LinkUp, MeshToMember, MeshToCoordinator,
                TakeCommand, FinishCommand, Plug, Unplug, RestartServer, TakeMessage, PublishNow,
                FindBroker, LearnMember, LoseFrame, LoseBroker, RestartHost, EmitTelemetry, bridge, history
  <2>4. ASSUME RingInv, UNCHANGED vars PROVE accepted' = accepted /\ UNCHANGED <<ring, slot, booted>>
    BY <2>4 DEF vars, bridge, history
  <2>5. RingInv /\ [Next]_vars => Remembered' /\ NoEarlyRepeat'
    BY <2>1, <2>2, <2>3, <2>4
  <2> QED
    BY <2>5, TypeStep DEF RingInv
<1>3. RingInv => NoEarlyRepeat
  BY DEF RingInv
<1> QED
  BY <1>1, <1>2, <1>3, PTL DEF Spec
-----------------------------------------------------------------------------
(*                       The order on the way                              *)

(* Two commands of one inverter, a the commands accepted.                  *)
Alike(a, x, y) == x \in DOMAIN a /\ y \in DOMAIN a /\ a[x].target = a[y].target

(* A sequence keeps the order among the commands of each inverter.         *)
Ordered(a, s) == \A i, j \in DOMAIN s : i < j /\ Alike(a, s[i], s[j]) => s[i] < s[j]

(* What lies in S is ahead of what lies in T.                              *)
Ahead(a, S, T) == \A x \in S, y \in T : Alike(a, x, y) => x < y

(* The stages f[1], f[2], ... f[k], the furthest one first.                *)
Chain(a, f, k) == \A i, j \in 1 .. k : i < j => Ahead(a, f[i], f[j])

LEMMA OrderedNone == \A a : Ordered(a, <<>>)
BY DEF Ordered

LEMMA OrderedTail ==
  ASSUME NEW a, NEW S, NEW s \in Seq(S), s # <<>>, Ordered(a, s)
  PROVE  Ordered(a, Tail(s)) /\ Ahead(a, {Head(s)}, Entries(Tail(s)))
<1> DEFINE t == Tail(s)
<1>1. /\ Head(s) = s[1] /\ 1 \in DOMAIN s
      /\ \A i \in DOMAIN t : i \in Nat \ {0} /\ i + 1 \in DOMAIN s /\ t[i] = s[i + 1]
  BY EntriesOfTail
<1> HIDE DEF t
<1>2. Ordered(a, t)
  <2>1. ASSUME NEW i \in DOMAIN t, NEW j \in DOMAIN t, i < j, Alike(a, t[i], t[j]) PROVE t[i] < t[j]
    <3>1. i + 1 \in DOMAIN s /\ j + 1 \in DOMAIN s /\ i + 1 < j + 1 /\ t[i] = s[i + 1] /\ t[j] = s[j + 1]
      BY <1>1, <2>1
    <3> QED
      BY <2>1, <3>1 DEF Ordered
  <2> QED
    BY <2>1 DEF Ordered
<1>3. Ahead(a, {Head(s)}, Entries(t))
  <2>1. ASSUME NEW i \in DOMAIN t, Alike(a, s[1], t[i]) PROVE s[1] < t[i]
    <3>1. i + 1 \in DOMAIN s /\ 1 < i + 1 /\ t[i] = s[i + 1]
      BY <1>1
    <3> QED
      BY <1>1, <2>1, <3>1 DEF Ordered
  <2> QED
    BY <1>1, <2>1 DEF Ahead, Entries
<1> QED
  BY <1>2, <1>3 DEF t

LEMMA OrderedAppend ==
  ASSUME NEW a, NEW S, NEW s \in Seq(S), NEW x \in S, Ordered(a, s), Ahead(a, Entries(s), {x})
  PROVE  Ordered(a, Append(s, x))
<1> DEFINE t == Append(s, x)
<1>1. /\ t[Len(s) + 1] = x /\ \A i \in 1 .. Len(s) : t[i] = s[i]
      /\ DOMAIN t = 1 .. Len(s) + 1 /\ DOMAIN s = 1 .. Len(s) /\ Len(s) \in Nat
  OBVIOUS
<1> HIDE DEF t
<1>2. ASSUME NEW i \in DOMAIN t, NEW j \in DOMAIN t, i < j, Alike(a, t[i], t[j]) PROVE t[i] < t[j]
  <2>1. i \in DOMAIN s /\ t[i] = s[i] /\ s[i] \in Entries(s)
    BY <1>1, <1>2 DEF Entries
  <2>2. CASE j \in DOMAIN s
    BY <1>1, <1>2, <2>1, <2>2 DEF Ordered
  <2>3. CASE j \notin DOMAIN s
    <3>1. t[j] = x
      BY <1>1, <2>3
    <3> QED
      BY <1>2, <2>1, <3>1 DEF Ahead
  <2> QED
    BY <2>2, <2>3
<1> QED
  BY <1>2 DEF Ordered, t

LEMMA OrderedShorter ==
  ASSUME NEW a, NEW S, NEW s \in Seq(S), NEW t, Shorter(s, t), Ordered(a, s)
  PROVE  Ordered(a, t)
BY OrderedNone, OrderedTail DEF Shorter

(* A command x put into stage k of n, behind what is ahead of it and ahead *)
(* of what is behind it; elsewhere commands may have been taken away.      *)
Put(a, f, g, n, k, x) ==
  /\ \A i \in 1 .. n : i # k => g[i] \subseteq f[i]
  /\ g[k] \subseteq f[k] \cup {x}
  /\ \A i \in 1 .. n : i < k => Ahead(a, g[i], {x})
  /\ \A i \in 1 .. n : i > k => Ahead(a, {x}, g[i])

LEMMA PutIntoChain ==
  ASSUME NEW a, NEW n \in Nat, NEW f, NEW g, NEW k \in 1 .. n, NEW x,
         Chain(a, f, n), Put(a, f, g, n, k, x)
  PROVE  Chain(a, g, n)
<1>1. ASSUME NEW i \in 1 .. n, NEW j \in 1 .. n, i < j PROVE Ahead(a, g[i], g[j])
  <2>1. Ahead(a, f[i], f[j])
    BY <1>1 DEF Chain
  <2>2. CASE i # k /\ j # k
    BY <2>1, <2>2 DEF Ahead, Put
  <2>3. CASE j = k
    <3>1. g[i] \subseteq f[i] /\ Ahead(a, g[i], {x}) /\ g[j] \subseteq f[j] \cup {x}
      BY <1>1, <2>3 DEF Put
    <3> QED
      BY <2>1, <3>1 DEF Ahead
  <2>4. CASE i = k
    <3>1. g[j] \subseteq f[j] /\ Ahead(a, {x}, g[j]) /\ g[i] \subseteq f[i] \cup {x}
      BY <1>1, <2>4 DEF Put
    <3> QED
      BY <2>1, <3>1 DEF Ahead
  <2> QED
    BY <2>2, <2>3, <2>4
<1> QED
  BY <1>1 DEF Chain

LEMMA TakeFromChain ==
  ASSUME NEW a, NEW n \in Nat, NEW f, NEW g, Chain(a, f, n), \A i \in 1 .. n : g[i] \subseteq f[i]
  PROVE  Chain(a, g, n)
<1>1. ASSUME NEW i \in 1 .. n, NEW j \in 1 .. n, i < j PROVE Ahead(a, g[i], g[j])
  BY <1>1 DEF Chain, Ahead
<1> QED
  BY <1>1 DEF Chain

(* A further command accepted changes nothing among the earlier ones.      *)
LEMMA MoreAccepted ==
  ASSUME NEW C, NEW a \in Seq(C), NEW c \in C, NEW b, b = Append(a, c)
  PROVE  /\ \A S, T : Len(a) + 1 \notin S /\ Len(a) + 1 \notin T /\ Ahead(a, S, T) => Ahead(b, S, T)
         /\ \A s : Len(a) + 1 \notin Entries(s) /\ Ordered(a, s) => Ordered(b, s)
<1>1. /\ Len(a) \in Nat /\ DOMAIN a = 1 .. Len(a) /\ DOMAIN b = 1 .. Len(a) + 1
      /\ \A i \in 1 .. Len(a) : b[i] = a[i]
  OBVIOUS
<1>2. ASSUME NEW x, NEW y, x # Len(a) + 1, y # Len(a) + 1, Alike(b, x, y) PROVE Alike(a, x, y)
  BY <1>1, <1>2 DEF Alike
<1>3. ASSUME NEW S, NEW T, Len(a) + 1 \notin S, Len(a) + 1 \notin T, Ahead(a, S, T) PROVE Ahead(b, S, T)
  BY <1>2, <1>3 DEF Ahead
<1>4. ASSUME NEW s, Len(a) + 1 \notin Entries(s), Ordered(a, s) PROVE Ordered(b, s)
  BY <1>2, <1>4 DEF Ordered, Entries
<1> QED
  BY <1>3, <1>4
-----------------------------------------------------------------------------
(*                   Commands and results in order                         *)

Done == UNION {Entries(executed[m]) : m \in Member}
Queued == UNION {Entries(queue[m]) : m \in Member}
OnRadio == UNION {Entries(toMember[m]) : m \in Radio}

(* Among the commands of an inverter those executed come first, then those *)
(* queued, then those on the radio and last those on the wire; each stage  *)
(* keeps their order.  Here a are the commands accepted, d those on the wire. *)
InOrder(a, d) ==
  /\ Chain(a, <<Done, Queued, OnRadio, Entries(d)>>, 4)
  /\ Ordered(a, d)
  /\ \A m \in Member : /\ Ordered(a, executed[m]) /\ Ordered(a, queue[m])
                       /\ \A n \in Entries(executed[m]) \cup Entries(queue[m]) : a[n].target = m
  /\ \A m \in Radio : /\ Ordered(a, toMember[m])
                      /\ \A n \in Entries(toMember[m]) : a[n].target = m
  /\ InverterAtHost => d = <<>>

CommandOrder == InOrder(accepted, down)

LEMMA StageFacts ==
  ASSUME TypeOK
  PROVE  Done \subseteq Serial /\ Queued \subseteq Serial /\ OnRadio \subseteq Serial /\ Entries(down) \subseteq Serial
<1>1. /\ \A m \in Member : Entries(executed[m]) \subseteq Serial /\ Entries(queue[m]) \subseteq Serial
      /\ \A m \in Radio : Entries(toMember[m]) \subseteq Serial
      /\ Entries(down) \subseteq Serial
  BY EntriesOfSeq DEF TypeOK
<1> QED
  BY <1>1 DEF Done, Queued, OnRadio

(* Commands taken away leave the others in order.                          *)
LEMMA LessInOrder ==
  ASSUME TypeOK, CommandOrder, UNCHANGED <<topology, accepted, executed>>,
         Shorter(down, down'),
         \A m \in Member : Shorter(queue[m], queue'[m]),
         \A m \in Radio : Shorter(toMember[m], toMember'[m])
  PROVE  CommandOrder'
<1>1. /\ down' \in Seq(Serial) /\ Entries(down') \subseteq Entries(down) /\ Ordered(accepted, down')
      /\ InverterAtHost => down' = <<>>
  <2>1. down \in Seq(Serial) /\ Ordered(accepted, down) /\ (InverterAtHost => down = <<>>)
    BY DEF TypeOK, CommandOrder, InOrder
  <2>2. InverterAtHost => down' = <<>>
    BY <2>1 DEF Shorter
  <2> QED
    BY <2>1, <2>2, ShorterFacts, OrderedShorter
<1>2. ASSUME NEW m \in Member
      PROVE  Entries(queue'[m]) \subseteq Entries(queue[m]) /\ Ordered(accepted, queue'[m])
  <2>1. queue[m] \in Seq(Serial) /\ Ordered(accepted, queue[m])
    BY DEF TypeOK, CommandOrder, InOrder
  <2> QED
    BY <2>1, ShorterFacts, OrderedShorter
<1>3. ASSUME NEW m \in Radio
      PROVE  Entries(toMember'[m]) \subseteq Entries(toMember[m]) /\ Ordered(accepted, toMember'[m])
  <2>1. toMember[m] \in Seq(Serial) /\ Ordered(accepted, toMember[m])
    BY DEF TypeOK, CommandOrder, InOrder
  <2> QED
    BY <2>1, ShorterFacts, OrderedShorter
<1>4. Chain(accepted, <<Done', Queued', OnRadio', Entries(down')>>, 4)
  <2> DEFINE f == <<Done, Queued, OnRadio, Entries(down)>>
             g == <<Done', Queued', OnRadio', Entries(down')>>
  <2>1. Chain(accepted, f, 4)
    BY DEF CommandOrder, InOrder
  <2>2. Done' = Done /\ Queued' \subseteq Queued /\ OnRadio' \subseteq OnRadio
    BY <1>2, <1>3 DEF Done, Queued, OnRadio
  <2>3. \A i \in 1 .. 4 : g[i] \subseteq f[i]
    BY <1>1, <2>2
  <2> HIDE DEF f, g
  <2>4. Chain(accepted, g, 4)
    BY <2>1, <2>3, TakeFromChain
  <2> QED
    BY <2>4 DEF g
<1>5. /\ \A m \in Member : /\ Ordered(accepted, executed[m])
                           /\ \A n \in Entries(executed[m]) \cup Entries(queue[m]) : accepted[n].target = m
      /\ \A m \in Radio : \A n \in Entries(toMember[m]) : accepted[n].target = m
  BY DEF CommandOrder, InOrder
<1> QED
  BY <1>1, <1>2, <1>3, <1>4, <1>5 DEF CommandOrder, InOrder, InverterAtHost

(* Routing at the coordinator puts a command behind those of its inverter. *)
LEMMA RoutedInOrder ==
  ASSUME TypeOK, NEW n \in Serial', accepted' \in Seq(Command), Serial \subseteq Serial',
         AtCoordinator(n), UNCHANGED <<topology, executed>>,
         InOrder(accepted', down'),
         Ahead(accepted', Done \cup Queued \cup OnRadio, {n}),
         Ahead(accepted', {n}, Entries(down'))
  PROVE  CommandOrder'
<1> DEFINE a == accepted'
           t == a[n].target
           f == <<Done, Queued, OnRadio, Entries(down')>>
           g == <<Done', Queued', OnRadio', Entries(down')>>
<1>1. /\ \A m \in Member : \/ queue'[m] = queue[m]
                           \/ m = 0 /\ m = t /\ queue'[m] = Append(queue[m], n)
      /\ \A m \in Radio : \/ toMember'[m] = toMember[m]
                          \/ m = t /\ toMember'[m] = Append(toMember[m], n)
      /\ t \in Member /\ n \in DOMAIN a
  BY CoordinatorTyped DEF Serial
<1>2. /\ \A m \in Member : queue[m] \in Seq(Serial') /\ executed[m] \in Seq(Serial')
      /\ \A m \in Radio : toMember[m] \in Seq(Serial')
  BY SeqOfMore DEF TypeOK
<1>3. /\ Chain(a, f, 4) /\ Ordered(a, down')
      /\ \A m \in Member : /\ Ordered(a, executed[m]) /\ Ordered(a, queue[m])
                           /\ \A k \in Entries(executed[m]) \cup Entries(queue[m]) : a[k].target = m
      /\ \A m \in Radio : /\ Ordered(a, toMember[m])
                          /\ \A k \in Entries(toMember[m]) : a[k].target = m
      /\ InverterAtHost => down' = <<>>
  BY DEF InOrder
<1> HIDE DEF a, t
<1>4. ASSUME NEW m \in Member
      PROVE  /\ Entries(queue'[m]) \subseteq Entries(queue[m]) \cup {n}
             /\ n \in Entries(queue'[m]) => n \in Entries(queue[m]) \/ (m = t /\ t = 0)
             /\ Ordered(a, queue'[m])
  <2>1. CASE queue'[m] = queue[m]
    BY <1>3, <2>1
  <2>2. CASE m = 0 /\ m = t /\ queue'[m] = Append(queue[m], n)
    <3>1. queue[m] \in Seq(Serial') /\ Entries(queue[m]) \subseteq Queued
      BY <1>2 DEF Queued
    <3>2. Ahead(a, Entries(queue[m]), {n})
      BY <3>1 DEF Ahead, a
    <3>3. Ordered(a, queue'[m])
      <4>1. Ordered(a, queue[m])
        BY <1>3
      <4>2. Ordered(a, Append(queue[m], n))
        BY <3>1, <3>2, <4>1, OrderedAppend
      <4> QED
        BY <2>2, <4>2
    <3> QED
      BY <2>2, <3>1, <3>3, EntriesOfAppend
  <2> QED
    BY <1>1, <2>1, <2>2
<1>5. ASSUME NEW m \in Radio
      PROVE  /\ Entries(toMember'[m]) \subseteq Entries(toMember[m]) \cup {n}
             /\ n \in Entries(toMember'[m]) => n \in Entries(toMember[m]) \/ m = t
             /\ Ordered(a, toMember'[m])
  <2>1. CASE toMember'[m] = toMember[m]
    BY <1>3, <2>1
  <2>2. CASE m = t /\ toMember'[m] = Append(toMember[m], n)
    <3>1. toMember[m] \in Seq(Serial') /\ Entries(toMember[m]) \subseteq OnRadio
      BY <1>2 DEF OnRadio
    <3>2. Ahead(a, Entries(toMember[m]), {n})
      BY <3>1 DEF Ahead, a
    <3>3. Ordered(a, toMember'[m])
      BY <1>3, <2>2, <3>1, <3>2, OrderedAppend
    <3> QED
      BY <2>2, <3>1, <3>3, EntriesOfAppend
  <2> QED
    BY <1>1, <2>1, <2>2
<1>6. Done' = Done
  BY DEF Done
<1>7. Ahead(a, Done, {n}) /\ Ahead(a, Queued, {n}) /\ Ahead(a, OnRadio, {n}) /\ Ahead(a, {n}, Entries(down'))
  BY DEF Ahead, a
<1>8. Chain(a, g, 4)
  <2>1. CASE t = 0
    <3>1. OnRadio' \subseteq OnRadio
      <4>1. \A m \in Radio : m # t
        BY <2>1 DEF Radio
      <4> QED
        BY <1>5, <4>1 DEF OnRadio
    <3>2. Queued' \subseteq Queued \cup {n}
      BY <1>4 DEF Queued
    <3>3. Ahead(a, {n}, OnRadio')
      <4>1. \A x \in OnRadio : a[x].target # 0
        BY <1>3 DEF OnRadio, Radio
      <4> QED
        BY <2>1, <3>1, <4>1 DEF Ahead, Alike, t
    <3>4. Put(a, f, g, 4, 2, n)
      BY <1>6, <1>7, <3>1, <3>2, <3>3 DEF Put
    <3> HIDE DEF f, g
    <3> QED
      BY <1>3, <3>4, PutIntoChain
  <2>2. CASE t # 0
    <3>1. Queued' \subseteq Queued
      BY <1>4, <2>2 DEF Queued
    <3>2. OnRadio' \subseteq OnRadio \cup {n}
      BY <1>5 DEF OnRadio
    <3>3. Ahead(a, Queued', {n})
      BY <1>7, <3>1 DEF Ahead
    <3>4. Put(a, f, g, 4, 3, n)
      BY <1>6, <1>7, <3>1, <3>2, <3>3 DEF Put
    <3> HIDE DEF f, g
    <3> QED
      BY <1>3, <3>4, PutIntoChain
  <2> QED
    BY <2>1, <2>2
<1>9. /\ \A m \in Member : \A k \in Entries(executed[m]) \cup Entries(queue'[m]) : a[k].target = m
      /\ \A m \in Radio : \A k \in Entries(toMember'[m]) : a[k].target = m
  <2>1. a[n].target = t
    BY DEF t
  <2>2. ASSUME NEW m \in Member, NEW k \in Entries(queue'[m]) PROVE a[k].target = m
    BY <1>3, <1>4, <2>1
  <2>3. ASSUME NEW m \in Radio, NEW k \in Entries(toMember'[m]) PROVE a[k].target = m
    BY <1>3, <1>5, <2>1
  <2> QED
    BY <1>3, <2>2, <2>3
<1> QED
  BY <1>3, <1>4, <1>5, <1>8, <1>9 DEF CommandOrder, InOrder, InverterAtHost, a

LEMMA AcceptInOrder ==
  ASSUME TypeOK, CommandOrder, NEW c \in Command, Accept(c)
  PROVE  CommandOrder'
<1> DEFINE n == Len(accepted) + 1
           a == accepted'
           f == <<Done, Queued, OnRadio, Entries(down)>>
<1>1. /\ accepted \in Seq(Command) /\ a = Append(accepted, c) /\ a \in Seq(Command)
      /\ Serial \subseteq Serial' /\ n \in Serial' /\ Len(accepted) \in Nat
      /\ \A x \in Serial : x < n /\ a[x] = accepted[x]
      /\ n \notin Serial
  BY MoreMessages DEF Accept, TypeOK, Serial
<1>2. Done \subseteq Serial /\ Queued \subseteq Serial /\ OnRadio \subseteq Serial /\ Entries(down) \subseteq Serial
  BY StageFacts
<1>3. /\ \A m \in Member : Entries(executed[m]) \subseteq Serial /\ Entries(queue[m]) \subseteq Serial
      /\ \A m \in Radio : Entries(toMember[m]) \subseteq Serial
  BY <1>2 DEF Done, Queued, OnRadio
<1> HIDE DEF n
<1>4. InOrder(a, down)
  <2>1. n \notin Serial
    BY <1>1
  <2>2. \A S, T : S \subseteq Serial /\ T \subseteq Serial /\ Ahead(accepted, S, T) => Ahead(a, S, T)
    <3>1. ASSUME NEW S, NEW T, S \subseteq Serial, T \subseteq Serial, Ahead(accepted, S, T)
          PROVE  Ahead(a, S, T)
      <4>1. n \notin S /\ n \notin T
        BY <2>1, <3>1
      <4> QED
        BY <1>1, <3>1, <4>1, MoreAccepted DEF n
    <3> QED
      BY <3>1
  <2>3. \A s : Entries(s) \subseteq Serial /\ Ordered(accepted, s) => Ordered(a, s)
    BY <1>1, <2>1, MoreAccepted DEF n
  <2>4. Chain(a, f, 4)
    <3>1. Chain(accepted, f, 4)
      BY DEF CommandOrder, InOrder
    <3>2. \A i \in 1 .. 4 : f[i] \subseteq Serial
      BY <1>2
    <3> HIDE DEF f
    <3> QED
      BY <2>2, <3>1, <3>2 DEF Chain
  <2>5. /\ Ordered(accepted, down)
        /\ \A m \in Member : /\ Ordered(accepted, executed[m]) /\ Ordered(accepted, queue[m])
                             /\ \A k \in Entries(executed[m]) \cup Entries(queue[m]) : accepted[k].target = m
        /\ \A m \in Radio : /\ Ordered(accepted, toMember[m])
                            /\ \A k \in Entries(toMember[m]) : accepted[k].target = m
        /\ InverterAtHost => down = <<>>
    BY DEF CommandOrder, InOrder
  <2>6. /\ \A m \in Member : \A k \in Entries(executed[m]) \cup Entries(queue[m]) : a[k].target = m
        /\ \A m \in Radio : \A k \in Entries(toMember[m]) : a[k].target = m
    BY <1>1, <1>3, <2>5
  <2> HIDE DEF a
  <2> QED
    BY <1>2, <1>3, <2>3, <2>4, <2>5, <2>6 DEF InOrder
<1>5. \A S : S \subseteq Serial => Ahead(a, S, {n})
  BY <1>1 DEF Ahead
<1>6. UNCHANGED <<topology, executed>>
  BY DEF Accept
<1>7. CASE InverterAtHost
  <2>1. AtCoordinator(n) /\ down' = down /\ down = <<>>
    BY <1>7 DEF Accept, AtHost, CommandOrder, InOrder, n
  <2>2. Ahead(a, {n}, Entries(down'))
    BY <2>1, EntriesOfNone DEF Ahead
  <2>3. Ahead(a, Done \cup Queued \cup OnRadio, {n})
    BY <1>2, <1>5
  <2> QED
    BY <1>1, <1>4, <1>6, <2>1, <2>2, <2>3, RoutedInOrder
<1>8. CASE ~InverterAtHost
  <2> DEFINE g == <<Done, Queued, OnRadio, Entries(down')>>
  <2>1. /\ down' = Enqueue(down, n, LinkCap) /\ UNCHANGED <<queue, toMember>>
    BY <1>8 DEF Accept, AtHost, n
  <2>2. down \in Seq(Serial') /\ Ordered(a, down)
    BY <1>1, <1>4, SeqOfMore DEF TypeOK, InOrder
  <2>3. Entries(down') \subseteq Entries(down) \cup {n} /\ Ordered(a, down')
    <3>1. CASE down' = down
      BY <2>2, <3>1
    <3>2. CASE down' = Append(down, n)
      BY <1>1, <1>2, <1>5, <2>2, <3>2, EntriesOfAppend, OrderedAppend
    <3> QED
      BY <2>1, <3>1, <3>2 DEF Enqueue
  <2>4. Chain(a, g, 4)
    <3>1. Put(a, f, g, 4, 4, n)
      BY <1>2, <1>5, <2>3 DEF Put
    <3>2. Chain(a, f, 4)
      BY <1>4 DEF InOrder
    <3> HIDE DEF f, g
    <3> QED
      BY <3>1, <3>2, PutIntoChain
  <2>5. Done' = Done /\ Queued' = Queued /\ OnRadio' = OnRadio /\ (InverterAtHost' => InverterAtHost)
    BY <1>6, <2>1 DEF Done, Queued, OnRadio, InverterAtHost
  <2> HIDE DEF a
  <2> QED
    BY <1>4, <1>6, <1>8, <2>1, <2>3, <2>4, <2>5 DEF CommandOrder, InOrder, a
<1> QED
  BY <1>7, <1>8

LEMMA LinkDownInOrder ==
  ASSUME TypeOK, CommandOrder, LinkDown
  PROVE  CommandOrder'
<1> DEFINE n == Head(down)
           f == <<Done, Queued, OnRadio, Entries(down)>>
           g == <<Done, Queued, OnRadio, Entries(down')>>
<1>1. /\ down \in Seq(Serial) /\ down # <<>> /\ down' = Tail(down) /\ accepted' = accepted
      /\ AtCoordinator(n) /\ UNCHANGED <<topology, executed>>
  BY DEF LinkDown, TypeOK
<1>2. Serial' = Serial /\ accepted' \in Seq(Command)
  BY <1>1, SerialStays DEF TypeOK
<1>3. n \in Serial /\ n \in Entries(down) /\ Entries(down') \subseteq Entries(down)
  BY <1>1, EntriesOfTail
<1>4. Ordered(accepted, down') /\ Ahead(accepted, {n}, Entries(down'))
  BY <1>1, OrderedTail DEF CommandOrder, InOrder
<1> HIDE DEF n
<1>5. Chain(accepted, f, 4)
  BY DEF CommandOrder, InOrder
<1>6. Ahead(accepted, Done \cup Queued \cup OnRadio, {n})
  <2>1. Ahead(accepted, f[1], f[4]) /\ Ahead(accepted, f[2], f[4]) /\ Ahead(accepted, f[3], f[4])
    BY <1>5 DEF Chain
  <2> QED
    BY <1>3, <2>1 DEF Ahead
<1>7. InOrder(accepted, down')
  <2>1. \A i \in 1 .. 4 : g[i] \subseteq f[i]
    BY <1>3
  <2> HIDE DEF f, g
  <2>2. Chain(accepted, g, 4)
    BY <1>5, <2>1, TakeFromChain
  <2>3. InverterAtHost => FALSE
    BY <1>1 DEF CommandOrder, InOrder
  <2> QED
    BY <1>4, <2>2, <2>3 DEF CommandOrder, InOrder, g
<1> QED
  BY <1>1, <1>2, <1>3, <1>4, <1>6, <1>7, RoutedInOrder

LEMMA MeshToMemberInOrder ==
  ASSUME TypeOK, CommandOrder, NEW m \in Radio, MeshToMember(m)
  PROVE  CommandOrder'
<1> DEFINE n == Head(toMember[m])
           f == <<Done, Queued, OnRadio, Entries(down)>>
           g == <<Done', Queued', OnRadio', Entries(down)>>
<1>1. /\ UNCHANGED <<topology, down, accepted, executed>>
      /\ toMember[m] # <<>> /\ toMember' = [toMember EXCEPT ![m] = Tail(@)]
      /\ queue' = [queue EXCEPT ![m] = Enqueue(queue[m], n, QueueCap)]
  BY DEF MeshToMember, QueueCommand
<1>2. /\ m \in Member /\ queue \in [Member -> Seq(Serial)] /\ toMember \in [Radio -> Seq(Serial)]
      /\ \A k \in Radio : k \in Member
  BY DEF Radio, TypeOK
<1>3. /\ Chain(accepted, f, 4)
      /\ \A k \in Member : /\ Ordered(accepted, executed[k]) /\ Ordered(accepted, queue[k])
                           /\ \A x \in Entries(executed[k]) \cup Entries(queue[k]) : accepted[x].target = k
      /\ \A k \in Radio : /\ Ordered(accepted, toMember[k])
                          /\ \A x \in Entries(toMember[k]) : accepted[x].target = k
      /\ Ordered(accepted, down) /\ (InverterAtHost => down = <<>>)
  BY DEF CommandOrder, InOrder
<1>4. n \in Serial /\ n \in Entries(toMember[m]) /\ Entries(Tail(toMember[m])) \subseteq Entries(toMember[m])
  BY <1>1, <1>2, EntriesOfTail
<1>5. Ordered(accepted, Tail(toMember[m])) /\ Ahead(accepted, {n}, Entries(Tail(toMember[m])))
  BY <1>1, <1>2, <1>3, OrderedTail
<1> HIDE DEF n
<1>6. n \in OnRadio /\ accepted[n].target = m
  BY <1>3, <1>4 DEF OnRadio
<1>7. Ahead(accepted, Done, {n}) /\ Ahead(accepted, Queued, {n}) /\ Ahead(accepted, {n}, Entries(down))
  <2>1. Ahead(accepted, f[1], f[3]) /\ Ahead(accepted, f[2], f[3]) /\ Ahead(accepted, f[3], f[4])
    BY <1>3 DEF Chain
  <2> QED
    BY <1>6, <2>1 DEF Ahead
<1>8. Ordered(accepted, queue'[m]) /\ Entries(queue'[m]) \subseteq Entries(queue[m]) \cup {n}
  <2>1. CASE queue'[m] = queue[m]
    BY <1>2, <1>3, <2>1
  <2>2. CASE queue'[m] = Append(queue[m], n)
    <3>1. queue[m] \in Seq(Serial) /\ Ordered(accepted, queue[m])
      BY <1>2, <1>3
    <3>2. Ahead(accepted, Entries(queue[m]), {n})
      BY <1>2, <1>7 DEF Queued, Ahead
    <3>3. Ordered(accepted, Append(queue[m], n)) /\ Entries(Append(queue[m], n)) = Entries(queue[m]) \cup {n}
      BY <1>4, <3>1, <3>2, OrderedAppend, EntriesOfAppend
    <3> QED
      BY <2>2, <3>3
  <2> QED
    BY <1>1, <1>2, <2>1, <2>2 DEF Enqueue
<1>9. /\ \A k \in Member : k # m => queue'[k] = queue[k]
      /\ \A k \in Radio : k # m => toMember'[k] = toMember[k]
      /\ toMember'[m] = Tail(toMember[m])
  BY <1>1, <1>2
<1>10. Chain(accepted, g, 4)
  <2>1. Done' = Done /\ Queued' \subseteq Queued \cup {n}
    BY <1>1, <1>8, <1>9 DEF Done, Queued
  <2>2. OnRadio' \subseteq OnRadio
    BY <1>4, <1>9 DEF OnRadio
  <2>3. Ahead(accepted, {n}, OnRadio')
    <3>1. ASSUME NEW k \in Radio, NEW y \in Entries(toMember'[k]), Alike(accepted, n, y) PROVE n < y
      <4>1. CASE k = m
        BY <1>5, <1>9, <3>1, <4>1 DEF Ahead
      <4>2. CASE k # m
        BY <1>3, <1>6, <1>9, <3>1, <4>2 DEF Alike
      <4> QED
        BY <4>1, <4>2
    <3> QED
      BY <3>1 DEF Ahead, OnRadio
  <2>4. Put(accepted, f, g, 4, 2, n)
    BY <1>7, <2>1, <2>2, <2>3 DEF Put
  <2> HIDE DEF f, g
  <2> QED
    BY <1>3, <2>4, PutIntoChain
<1>11. /\ \A k \in Member : Ordered(accepted, queue'[k])
       /\ \A k \in Radio : Ordered(accepted, toMember'[k])
  BY <1>3, <1>5, <1>8, <1>9
<1>12. /\ \A k \in Member : \A x \in Entries(executed[k]) \cup Entries(queue'[k]) : accepted[x].target = k
       /\ \A k \in Radio : \A x \in Entries(toMember'[k]) : accepted[x].target = k
  BY <1>3, <1>4, <1>6, <1>8, <1>9
<1> QED
  BY <1>1, <1>3, <1>10, <1>11, <1>12 DEF CommandOrder, InOrder, InverterAtHost

LEMMA TakeInOrder ==
  ASSUME TypeOK, CommandOrder, NEW m \in Member, TakeCommand(m)
  PROVE  CommandOrder'
<1> DEFINE n == Head(queue[m])
           f == <<Done, Queued, OnRadio, Entries(down)>>
           g == <<Done', Queued', OnRadio, Entries(down)>>
<1>1. /\ UNCHANGED <<topology, down, toMember, accepted>>
      /\ queue[m] # <<>> /\ queue' = [queue EXCEPT ![m] = Tail(@)]
      /\ executed' = [executed EXCEPT ![m] = Append(@, n)]
  BY DEF TakeCommand, wires
<1>2. queue \in [Member -> Seq(Serial)] /\ executed \in [Member -> Seq(Serial)]
  BY DEF TypeOK
<1>3. /\ Chain(accepted, f, 4)
      /\ \A k \in Member : /\ Ordered(accepted, executed[k]) /\ Ordered(accepted, queue[k])
                           /\ \A x \in Entries(executed[k]) \cup Entries(queue[k]) : accepted[x].target = k
      /\ \A k \in Radio : /\ Ordered(accepted, toMember[k])
                          /\ \A x \in Entries(toMember[k]) : accepted[x].target = k
      /\ Ordered(accepted, down) /\ (InverterAtHost => down = <<>>)
  BY DEF CommandOrder, InOrder
<1>4. n \in Serial /\ n \in Entries(queue[m]) /\ Entries(Tail(queue[m])) \subseteq Entries(queue[m])
  BY <1>1, <1>2, EntriesOfTail
<1>5. Ordered(accepted, Tail(queue[m])) /\ Ahead(accepted, {n}, Entries(Tail(queue[m])))
  BY <1>1, <1>2, <1>3, OrderedTail
<1> HIDE DEF n
<1>6. n \in Queued /\ accepted[n].target = m
  BY <1>3, <1>4 DEF Queued
<1>7. Ahead(accepted, Done, {n}) /\ Ahead(accepted, {n}, OnRadio) /\ Ahead(accepted, {n}, Entries(down))
  <2>1. Ahead(accepted, f[1], f[2]) /\ Ahead(accepted, f[2], f[3]) /\ Ahead(accepted, f[2], f[4])
    BY <1>3 DEF Chain
  <2> QED
    BY <1>6, <2>1 DEF Ahead
<1>8. Ordered(accepted, executed'[m]) /\ Entries(executed'[m]) = Entries(executed[m]) \cup {n}
  <2>1. executed[m] \in Seq(Serial) /\ Ordered(accepted, executed[m])
    BY <1>2, <1>3
  <2>2. Ahead(accepted, Entries(executed[m]), {n})
    BY <1>7 DEF Done, Ahead
  <2>3. Ordered(accepted, Append(executed[m], n)) /\ Entries(Append(executed[m], n)) = Entries(executed[m]) \cup {n}
    BY <1>4, <2>1, <2>2, OrderedAppend, EntriesOfAppend
  <2> QED
    BY <1>1, <1>2, <2>3
<1>9. /\ \A k \in Member : k # m => queue'[k] = queue[k] /\ executed'[k] = executed[k]
      /\ queue'[m] = Tail(queue[m])
  BY <1>1, <1>2
<1>10. Chain(accepted, g, 4)
  <2>1. Done' \subseteq Done \cup {n}
    BY <1>8, <1>9 DEF Done
  <2>2. Queued' \subseteq Queued
    BY <1>4, <1>9 DEF Queued
  <2>3. Ahead(accepted, {n}, Queued')
    <3>1. ASSUME NEW k \in Member, NEW y \in Entries(queue'[k]), Alike(accepted, n, y) PROVE n < y
      <4>1. CASE k = m
        BY <1>5, <1>9, <3>1, <4>1 DEF Ahead
      <4>2. CASE k # m
        BY <1>3, <1>6, <1>9, <3>1, <4>2 DEF Alike
      <4> QED
        BY <4>1, <4>2
    <3> QED
      BY <3>1 DEF Ahead, Queued
  <2>4. Put(accepted, f, g, 4, 1, n)
    BY <1>7, <2>1, <2>2, <2>3 DEF Put
  <2> HIDE DEF f, g
  <2> QED
    BY <1>3, <2>4, PutIntoChain
<1>11. \A k \in Member : Ordered(accepted, queue'[k]) /\ Ordered(accepted, executed'[k])
  BY <1>3, <1>5, <1>8, <1>9
<1>12. \A k \in Member : \A x \in Entries(executed'[k]) \cup Entries(queue'[k]) : accepted[x].target = k
  BY <1>3, <1>4, <1>6, <1>8, <1>9
<1>13. OnRadio' = OnRadio
  BY <1>1 DEF OnRadio
<1> QED
  BY <1>1, <1>3, <1>10, <1>11, <1>12, <1>13 DEF CommandOrder, InOrder, InverterAtHost

LEMMA CommandOrderStep ==
  ASSUME TypeOK, CommandOrder, Next
  PROVE  CommandOrder'
<1>1. \A s : Shorter(s, s)
  BY DEF Shorter
<1>2. CASE \E c \in Command : Accept(c)
  BY <1>2, AcceptInOrder
<1>3. CASE LinkDown \/ (\E m \in Radio : MeshToMember(m)) \/ (\E m \in Member : TakeCommand(m))
  BY <1>3, LinkDownInOrder, MeshToMemberInOrder, TakeInOrder
<1>4. CASE (\E m \in Member : FinishCommand(m)) \/ (\E m \in Radio : MeshToCoordinator(m))
           \/ EmitTelemetry \/ LinkUp \/ TakeMessage \/ PublishNow
  <2>1. UNCHANGED <<topology, accepted, executed, down, queue, toMember>>
    BY <1>4 DEF FinishCommand, MeshToCoordinator, EmitTelemetry, LinkUp, TakeMessage, PublishNow, wires,
                tasks, history
  <2> QED
    BY <1>1, <2>1, LessInOrder
<1>5. CASE Environment
  BY <1>5, EnvironmentTakesAway, LessInOrder DEF TakesAway
<1> QED
  BY <1>2, <1>3, <1>4, <1>5, StepKinds

LEMMA CommandOrderStart == Init => CommandOrder
<1>1. ASSUME Init PROVE CommandOrder
  <2>1. /\ down = <<>> /\ \A m \in Member : executed[m] = <<>> /\ queue[m] = <<>>
        /\ \A m \in Radio : toMember[m] = <<>>
    BY <1>1 DEF Init
  <2>2. Done = {} /\ Queued = {} /\ OnRadio = {} /\ Entries(down) = {}
    BY <2>1, EntriesOfNone DEF Done, Queued, OnRadio
  <2>3. Chain(accepted, <<Done, Queued, OnRadio, Entries(down)>>, 4)
    <3> DEFINE f == <<Done, Queued, OnRadio, Entries(down)>>
    <3>1. \A i \in 1 .. 4 : f[i] = {}
      BY <2>2
    <3> HIDE DEF f
    <3>2. Chain(accepted, f, 4)
      BY <3>1 DEF Chain, Ahead
    <3> QED
      BY <3>2 DEF f
  <2> QED
    BY <2>1, <2>3, OrderedNone, EntriesOfNone DEF CommandOrder, InOrder
<1> QED
  BY <1>1

LEMMA CommandOrderInvariant == Spec => [](TypeOK /\ CommandOrder)
<1>1. TypeOK /\ CommandOrder /\ [Next]_vars => CommandOrder'
  <2>1. ASSUME TypeOK, CommandOrder, UNCHANGED vars PROVE CommandOrder'
    <3>1. \A s : Shorter(s, s)
      BY DEF Shorter
    <3> QED
      BY <2>1, <3>1, LessInOrder DEF vars, wires, tasks, history
  <2> QED
    BY <2>1, CommandOrderStep
<1> QED
  BY <1>1, CommandOrderStart, TypeStart, TypeStep, PTL DEF Spec

(* Whatever is lost, dropped or restarted on the way, an inverter executes *)
(* its own commands only, each at most once and in the order of acceptance *)
(* (ExecutedInOrder), for any number of inverters and any capacities.      *)
THEOREM CommandsStayInOrder == Spec => []ExecutedInOrder
<1>1. TypeOK /\ CommandOrder => ExecutedInOrder
  <2>1. ASSUME TypeOK, CommandOrder, NEW m \in Member
        PROVE  /\ Increasing(executed[m])
               /\ \A n \in Entries(executed[m]) : accepted[n].target = m
    <3>1. /\ executed[m] \in Seq(Serial) /\ Ordered(accepted, executed[m])
          /\ \A n \in Entries(executed[m]) : accepted[n].target = m
          /\ DOMAIN accepted = Serial
      BY <2>1 DEF TypeOK, CommandOrder, InOrder, Serial
    <3>2. ASSUME NEW i \in DOMAIN executed[m], NEW j \in DOMAIN executed[m], i < j
          PROVE  executed[m][i] < executed[m][j]
      <4>1. /\ executed[m][i] \in Entries(executed[m]) /\ executed[m][j] \in Entries(executed[m])
            /\ executed[m][i] \in Serial /\ executed[m][j] \in Serial
        BY <3>1, EntriesOfSeq DEF Entries
      <4>2. Alike(accepted, executed[m][i], executed[m][j])
        BY <3>1, <4>1 DEF Alike
      <4> QED
        BY <3>1, <3>2, <4>2 DEF Ordered
    <3> QED
      BY <3>1, <3>2 DEF Increasing
  <2> QED
    BY <2>1 DEF ExecutedInOrder
<1> QED
  BY <1>1, CommandOrderInvariant, PTL
-----------------------------------------------------------------------------
(*                     The order on the way back                           *)

Returning == UNION {Entries(toCoord[m]) : m \in Radio}
Taken == {busy[m] : m \in Member} \ {None}

(* A result is one of a command its inverter executed.                     *)
Genuine(n) == n \in Serial => n \in Entries(executed[accepted[n].target])

(* Among the results of an inverter those published come first, then those *)
(* queued at the bridge, p, those on the wire, u, and on the radio, r, and *)
(* last those of the commands under way, t.                                *)
Front(a, p, u, r, t) ==
  /\ Chain(a, <<Entries(answered), {outgoing} \ {None}, Entries(p), Entries(u), r, t>>, 6)
  /\ Ordered(a, answered) /\ Ordered(a, p) /\ Ordered(a, u)
  /\ \A n \in Entries(answered) \cup {outgoing} \cup Entries(p) \cup Entries(u) : Genuine(n)
  /\ InverterAtHost => u = <<>>

(* The same of the next state, q and v what is on the radio and under way. *)
NextFront(q, v) ==
  /\ Chain(accepted', <<Entries(answered'), {outgoing'} \ {None}, Entries(publish'), Entries(up'), q, v>>, 6)
  /\ Ordered(accepted', answered') /\ Ordered(accepted', publish') /\ Ordered(accepted', up')
  /\ \A n \in Entries(answered') \cup {outgoing'} \cup Entries(publish') \cup Entries(up') : Genuine(n)'
  /\ InverterAtHost' => up' = <<>>

(* What is on the radio and under way is of commands executed there.       *)
Back(a) ==
  /\ \A m \in Radio : Ordered(a, toCoord[m]) /\ Entries(toCoord[m]) \subseteq Entries(executed[m])
  /\ \A m \in Member : busy[m] = None \/ busy[m] \in Entries(executed[m])

ResultOrder == Front(accepted, publish, up, Returning, Taken) /\ Back(accepted)

OrderInv == TypeOK /\ CommandOrder /\ ResultOrder

LEMMA ResultOrderStart == Init => ResultOrder
<1>1. ASSUME Init PROVE ResultOrder
  <2>1. /\ answered = <<>> /\ publish = <<>> /\ up = <<>> /\ outgoing = None /\ accepted = <<>>
        /\ \A m \in Member : busy[m] = None
        /\ \A m \in Radio : toCoord[m] = <<>>
    BY <1>1 DEF Init
  <2>2. Returning = {} /\ Taken = {} /\ {outgoing} \ {None} = {}
    BY <2>1, EntriesOfNone DEF Returning, Taken
  <2> DEFINE f == <<Entries(answered), {outgoing} \ {None}, Entries(publish), Entries(up), Returning, Taken>>
  <2>3. \A i \in 1 .. 6 : f[i] = {}
    BY <2>1, <2>2, EntriesOfNone
  <2>4. Chain(accepted, f, 6)
    <3> HIDE DEF f
    <3> QED
      BY <2>3 DEF Chain, Ahead
  <2>5. ~(None \in Serial)
    BY DEF None, Serial
  <2> QED
    BY <2>1, <2>4, <2>5, OrderedNone, EntriesOfNone DEF ResultOrder, Front, Back, Genuine
<1> QED
  BY <1>1

(* Nothing moves: what is taken away leaves the rest in order.             *)
LEMMA LessFront ==
  ASSUME TypeOK, NEW r, NEW t, NEW q, NEW v, Front(accepted, publish, up, r, t),
         UNCHANGED <<topology, accepted, executed, answered>>, outgoing' \in {outgoing, None},
         Shorter(publish, publish'), Shorter(up, up'), q \subseteq r, v \subseteq t
  PROVE  NextFront(q, v)
<1> DEFINE f == <<Entries(answered), {outgoing} \ {None}, Entries(publish), Entries(up), r, t>>
           g == <<Entries(answered), {outgoing'} \ {None}, Entries(publish'), Entries(up'), q, v>>
<1>1. /\ Chain(accepted, f, 6) /\ Ordered(accepted, answered) /\ Ordered(accepted, publish) /\ Ordered(accepted, up)
      /\ \A n \in Entries(answered) \cup {outgoing} \cup Entries(publish) \cup Entries(up) : Genuine(n)
      /\ InverterAtHost => up = <<>>
  BY DEF Front
<1>2. /\ Entries(publish') \subseteq Entries(publish) /\ Ordered(accepted, publish')
      /\ Entries(up') \subseteq Entries(up) /\ Ordered(accepted, up')
  <2>1. publish \in Seq(Message) /\ up \in Seq(Message)
    BY DEF TypeOK
  <2> QED
    BY <1>1, <2>1, ShorterFacts, OrderedShorter
<1>3. InverterAtHost' => up' = <<>>
  BY <1>1 DEF InverterAtHost, Shorter
<1>4. Chain(accepted, g, 6)
  <2>1. \A i \in 1 .. 6 : g[i] \subseteq f[i]
    BY <1>2
  <2> HIDE DEF f, g
  <2> QED
    BY <1>1, <2>1, TakeFromChain
<1>5. \A n : Genuine(n) => Genuine(n)'
  BY DEF Genuine, Serial
<1>6. Genuine(None)
  BY DEF Genuine, None, Serial
<1>7. \A n \in Entries(answered) \cup {outgoing'} \cup Entries(publish') \cup Entries(up') : Genuine(n)'
  BY <1>1, <1>2, <1>5, <1>6
<1> QED
  BY <1>1, <1>2, <1>3, <1>4, <1>7 DEF NextFront

LEMMA LessResults ==
  ASSUME TypeOK, ResultOrder, UNCHANGED <<topology, accepted, executed, answered>>,
         outgoing' \in {outgoing, None}, Shorter(publish, publish'), Shorter(up, up'),
         \A m \in Radio : Shorter(toCoord[m], toCoord'[m]),
         \A m \in Member : busy'[m] \in {busy[m], None}
  PROVE  ResultOrder'
<1>1. ASSUME NEW m \in Radio
      PROVE  Ordered(accepted, toCoord'[m]) /\ Entries(toCoord'[m]) \subseteq Entries(toCoord[m])
  <2>1. toCoord[m] \in Seq(Serial) /\ Ordered(accepted, toCoord[m]) /\ Shorter(toCoord[m], toCoord'[m])
    BY DEF TypeOK, ResultOrder, Back
  <2> QED
    BY <2>1, ShorterFacts, OrderedShorter
<1>2. Returning' \subseteq Returning /\ Taken' \subseteq Taken
  BY <1>1 DEF Returning, Taken
<1>3. Back(accepted)'
  BY <1>1 DEF ResultOrder, Back
<1>4. Front(accepted, publish, up, Returning, Taken)
  BY DEF ResultOrder
<1> DEFINE q == Returning'
           v == Taken'
<1>5. q \subseteq Returning /\ v \subseteq Taken
  BY <1>2
<1> HIDE DEF q, v
<1>6. NextFront(q, v)
  BY <1>4, <1>5, LessFront
<1> QED
  BY <1>3, <1>6 DEF ResultOrder, Front, NextFront, q, v

(* A result, or a telemetry message, goes behind those of its inverter.    *)
LEMMA ResultInOrder ==
  ASSUME TypeOK, NEW n \in Message, NEW r, NEW t, Front(accepted, publish, up, r, t),
         ResultAtCoordinator(n), Genuine(n),
         UNCHANGED <<topology, accepted, executed, answered, outgoing>>,
         Ahead(accepted, Entries(answered) \cup {outgoing} \cup Entries(publish) \cup Entries(up), {n}),
         Ahead(accepted, {n}, r), Ahead(accepted, {n}, t)
  PROVE  NextFront(r, t)
<1> DEFINE f == <<Entries(answered), {outgoing} \ {None}, Entries(publish), Entries(up), r, t>>
           g == <<Entries(answered), {outgoing} \ {None}, Entries(publish'), Entries(up'), r, t>>
<1>1. /\ Chain(accepted, f, 6) /\ Ordered(accepted, answered) /\ Ordered(accepted, publish) /\ Ordered(accepted, up)
      /\ \A k \in Entries(answered) \cup {outgoing} \cup Entries(publish) \cup Entries(up) : Genuine(k)
      /\ InverterAtHost => up = <<>>
  BY DEF Front
<1>2. publish \in Seq(Message) /\ up \in Seq(Message)
  BY DEF TypeOK
<1>3. /\ Ahead(accepted, Entries(answered), {n}) /\ Ahead(accepted, {outgoing} \ {None}, {n})
      /\ Ahead(accepted, Entries(publish), {n}) /\ Ahead(accepted, Entries(up), {n})
  BY DEF Ahead
<1>4. \A k : Genuine(k) => Genuine(k)'
  BY DEF Genuine, Serial
<1>5. CASE up' = up /\ publish' = publish
  <2>1. InverterAtHost' => up' = <<>>
    BY <1>1, <1>5 DEF InverterAtHost
  <2> QED
    BY <1>1, <1>4, <1>5, <2>1 DEF NextFront
<1>6. CASE InverterAtHost /\ up' = up /\ publish' = Append(publish, n)
  <2>1. Ordered(accepted, publish') /\ Entries(publish') = Entries(publish) \cup {n}
    BY <1>1, <1>2, <1>3, <1>6, OrderedAppend, EntriesOfAppend
  <2>2. up' = <<>> /\ Entries(up') = {} /\ Entries(up) = {}
    BY <1>1, <1>6, EntriesOfNone
  <2>3. Ahead(accepted, {n}, Entries(up'))
    BY <2>2 DEF Ahead
  <2>4. Put(accepted, f, g, 6, 3, n)
    BY <1>3, <2>1, <2>2, <2>3 DEF Put
  <2>5. Chain(accepted, g, 6)
    <3> HIDE DEF f, g
    <3> QED
      BY <1>1, <2>4, PutIntoChain
  <2>6. \A k \in Entries(answered') \cup {outgoing'} \cup Entries(publish') \cup Entries(up') : Genuine(k)'
    BY <1>1, <1>4, <2>1, <2>2
  <2> QED
    BY <1>1, <1>6, <2>1, <2>2, <2>5, <2>6 DEF NextFront
<1>7. CASE ~InverterAtHost /\ publish' = publish /\ up' = Append(up, n)
  <2>1. Ordered(accepted, up') /\ Entries(up') = Entries(up) \cup {n}
    BY <1>1, <1>2, <1>3, <1>7, OrderedAppend, EntriesOfAppend
  <2>2. Put(accepted, f, g, 6, 4, n)
    BY <1>3, <1>7, <2>1 DEF Put
  <2>3. Chain(accepted, g, 6)
    <3> HIDE DEF f, g
    <3> QED
      BY <1>1, <2>2, PutIntoChain
  <2>4. \A k \in Entries(answered') \cup {outgoing'} \cup Entries(publish') \cup Entries(up') : Genuine(k)'
    BY <1>1, <1>4, <1>7, <2>1
  <2>5. InverterAtHost' = InverterAtHost
    BY DEF InverterAtHost
  <2> QED
    BY <1>1, <1>7, <2>1, <2>3, <2>4, <2>5 DEF NextFront
<1> QED
  BY <1>5, <1>6, <1>7, ResultRouted

LEMMA FrontLess ==
  ASSUME NEW r, NEW t, NEW q, NEW v, Front(accepted, publish, up, r, t), q \subseteq r, v \subseteq t
  PROVE  Front(accepted, publish, up, q, v)
<1> DEFINE f == <<Entries(answered), {outgoing} \ {None}, Entries(publish), Entries(up), r, t>>
           g == <<Entries(answered), {outgoing} \ {None}, Entries(publish), Entries(up), q, v>>
<1>1. \A i \in 1 .. 6 : g[i] \subseteq f[i]
  OBVIOUS
<1>2. Chain(accepted, f, 6)
  BY DEF Front
<1>3. Chain(accepted, g, 6)
  <2> HIDE DEF f, g
  <2> QED
    BY <1>1, <1>2, TakeFromChain
<1> QED
  BY <1>3 DEF Front

(* What is on the radio or under way is behind everything further on.      *)
LEMMA BehindFront ==
  ASSUME TypeOK, NEW r, NEW t, Front(accepted, publish, up, r, t), NEW x
  PROVE  LET all == Entries(answered) \cup {outgoing} \cup Entries(publish) \cup Entries(up)
         IN  /\ x \in r => Ahead(accepted, all, {x}) /\ Ahead(accepted, {x}, t)
             /\ x \in t => Ahead(accepted, all, {x}) /\ Ahead(accepted, r, {x})
<1> DEFINE f == <<Entries(answered), {outgoing} \ {None}, Entries(publish), Entries(up), r, t>>
<1>1. Chain(accepted, f, 6)
  BY DEF Front
<1>2. /\ Ahead(accepted, f[1], f[5]) /\ Ahead(accepted, f[2], f[5]) /\ Ahead(accepted, f[3], f[5])
      /\ Ahead(accepted, f[4], f[5])
  BY <1>1 DEF Chain
<1>3. /\ Ahead(accepted, f[1], f[6]) /\ Ahead(accepted, f[2], f[6]) /\ Ahead(accepted, f[3], f[6])
      /\ Ahead(accepted, f[4], f[6]) /\ Ahead(accepted, f[5], f[6])
  BY <1>1 DEF Chain
<1>4. Ahead(accepted, {None}, {x})
  <2>1. None \notin DOMAIN accepted
    BY DEF TypeOK, None
  <2> QED
    BY <2>1 DEF Ahead, Alike
<1> QED
  BY <1>2, <1>3, <1>4 DEF Ahead

LEMMA FinishInOrder ==
  ASSUME TypeOK, CommandOrder, ResultOrder, NEW m \in Member, FinishCommand(m)
  PROVE  ResultOrder'
<1> DEFINE n == busy[m]
<1>1. /\ UNCHANGED <<topology, accepted, executed, answered, outgoing>>
      /\ n # None /\ busy' = [busy EXCEPT ![m] = None]
  BY DEF FinishCommand
<1>2. /\ Front(accepted, publish, up, Returning, Taken)
      /\ \A k \in Radio : Ordered(accepted, toCoord[k]) /\ Entries(toCoord[k]) \subseteq Entries(executed[k])
      /\ \A k \in Member : busy[k] = None \/ busy[k] \in Entries(executed[k])
      /\ \A k \in Member : \A x \in Entries(executed[k]) : accepted[x].target = k
      /\ \A k \in Radio : k \in Member
  BY DEF ResultOrder, Back, CommandOrder, InOrder, Radio
<1>3. /\ n \in Serial /\ n \in Message /\ n \in Entries(executed[m]) /\ accepted[n].target = m /\ n \in Taken
  BY <1>1, <1>2 DEF TypeOK, Message, Taken
<1>4. \A k \in Member : busy'[k] = IF k = m THEN None ELSE busy[k]
  BY <1>1 DEF TypeOK
<1> HIDE DEF n
<1>5. Genuine(n)
  BY <1>3 DEF Genuine
<1>6. Taken' \subseteq Taken /\ Ahead(accepted, {n}, Taken')
  <2>1. Taken' \subseteq Taken
    BY <1>4 DEF Taken
  <2>2. \A x \in Taken' : accepted[x].target # m
    <3>1. ASSUME NEW k \in Member, busy'[k] # None PROVE accepted[busy'[k]].target # m
      BY <1>2, <1>4, <3>1
    <3> QED
      BY <3>1 DEF Taken
  <2> QED
    BY <1>3, <2>1, <2>2 DEF Ahead, Alike
<1>7. CASE m = 0
  <2>1. ResultAtCoordinator(n) /\ toCoord' = toCoord
    BY <1>7 DEF FinishCommand, n
  <2>2. \A x \in Returning : accepted[x].target # 0
    BY <1>2 DEF Returning, Radio
  <2>3. Ahead(accepted, {n}, Returning)
    BY <1>3, <1>7, <2>2 DEF Ahead, Alike
  <2>4. Ahead(accepted, Entries(answered) \cup {outgoing} \cup Entries(publish) \cup Entries(up), {n})
    BY <1>2, <1>3, BehindFront
  <2> DEFINE v == Taken'
  <2>5. v \subseteq Taken /\ Ahead(accepted, {n}, v)
    BY <1>6
  <2> HIDE DEF v
  <2>6. Front(accepted, publish, up, Returning, v)
    BY <1>2, <2>5, FrontLess
  <2>7. NextFront(Returning, v)
    BY <1>1, <1>3, <1>5, <2>1, <2>3, <2>4, <2>5, <2>6, ResultInOrder
  <2>8. Returning' = Returning
    BY <2>1 DEF Returning
  <2>9. Back(accepted)'
    BY <1>1, <1>2, <1>4, <2>1 DEF Back
  <2> QED
    BY <2>7, <2>8, <2>9 DEF ResultOrder, Front, NextFront, v
<1>8. CASE m # 0
  <2>1. /\ toCoord' = [toCoord EXCEPT ![m] = Append(@, n)] /\ UNCHANGED <<up, publish>> /\ m \in Radio
    BY <1>8 DEF FinishCommand, Radio, n
  <2>2. toCoord[m] \in Seq(Serial) /\ toCoord'[m] = Append(toCoord[m], n)
        /\ \A k \in Radio : k # m => toCoord'[k] = toCoord[k]
    BY <2>1 DEF TypeOK
  <2>3. Ahead(accepted, Entries(toCoord[m]), {n})
    <3>1. Ahead(accepted, Returning, {n})
      BY <1>2, <1>3, BehindFront
    <3> QED
      BY <2>1, <3>1 DEF Ahead, Returning
  <2>4. Ordered(accepted, toCoord'[m]) /\ Entries(toCoord'[m]) = Entries(toCoord[m]) \cup {n}
    <3>1. Ordered(accepted, toCoord[m])
      BY <1>2, <2>1
    <3> QED
      BY <1>3, <2>2, <2>3, <3>1, OrderedAppend, EntriesOfAppend
  <2>5. Returning' \subseteq Returning \cup {n}
    BY <2>2, <2>4 DEF Returning
  <2> DEFINE f == <<Entries(answered), {outgoing} \ {None}, Entries(publish), Entries(up), Returning, Taken>>
             g == <<Entries(answered), {outgoing} \ {None}, Entries(publish), Entries(up), Returning', Taken'>>
  <2>6. Chain(accepted, f, 6)
    BY <1>2 DEF Front
  <2>7. Put(accepted, f, g, 6, 5, n)
    <3>1. /\ Ahead(accepted, Entries(answered), {n}) /\ Ahead(accepted, {outgoing} \ {None}, {n})
          /\ Ahead(accepted, Entries(publish), {n}) /\ Ahead(accepted, Entries(up), {n})
      <4>1. Ahead(accepted, Entries(answered) \cup {outgoing} \cup Entries(publish) \cup Entries(up), {n})
        BY <1>2, <1>3, BehindFront
      <4> QED
        BY <4>1 DEF Ahead
    <3> QED
      BY <1>6, <2>5, <3>1 DEF Put
  <2>8. Chain(accepted, g, 6)
    <3> HIDE DEF f, g
    <3> QED
      BY <2>6, <2>7, PutIntoChain
  <2>9. Back(accepted)'
    <3>1. \A k \in Radio : Ordered(accepted, toCoord'[k]) /\ Entries(toCoord'[k]) \subseteq Entries(executed[k])
      BY <1>2, <1>3, <2>1, <2>2, <2>4
    <3>2. \A k \in Member : busy'[k] = None \/ busy'[k] \in Entries(executed[k])
      BY <1>2, <1>4
    <3> QED
      BY <1>1, <3>1, <3>2 DEF Back
  <2>10. \A k : Genuine(k) => Genuine(k)'
    BY <1>1 DEF Genuine, Serial
  <2>11. InverterAtHost' = InverterAtHost
    BY <1>1 DEF InverterAtHost
  <2> QED
    BY <1>1, <1>2, <2>1, <2>8, <2>9, <2>10, <2>11 DEF ResultOrder, Front
<1> QED
  BY <1>7, <1>8

LEMMA MeshResultInOrder ==
  ASSUME TypeOK, CommandOrder, ResultOrder, NEW m \in Radio, MeshToCoordinator(m)
  PROVE  ResultOrder'
<1> DEFINE n == Head(toCoord[m])
<1>1. /\ UNCHANGED <<topology, accepted, executed, answered, outgoing, busy>>
      /\ toCoord[m] # <<>> /\ toCoord' = [toCoord EXCEPT ![m] = Tail(@)]
      /\ ResultAtCoordinator(n)
  BY DEF MeshToCoordinator, tasks
<1>2. /\ Front(accepted, publish, up, Returning, Taken)
      /\ \A k \in Radio : Ordered(accepted, toCoord[k]) /\ Entries(toCoord[k]) \subseteq Entries(executed[k])
      /\ \A k \in Member : busy[k] = None \/ busy[k] \in Entries(executed[k])
      /\ \A k \in Radio : \A x \in Entries(executed[k]) : accepted[x].target = k
  BY DEF ResultOrder, Back, CommandOrder, InOrder, Radio
<1>3. toCoord[m] \in Seq(Serial)
  BY DEF TypeOK
<1>4. n \in Serial /\ n \in Entries(toCoord[m]) /\ Entries(Tail(toCoord[m])) \subseteq Entries(toCoord[m])
  BY <1>1, <1>3, EntriesOfTail
<1>5. Ordered(accepted, Tail(toCoord[m])) /\ Ahead(accepted, {n}, Entries(Tail(toCoord[m])))
  BY <1>1, <1>2, <1>3, OrderedTail
<1>6. toCoord'[m] = Tail(toCoord[m]) /\ \A k \in Radio : k # m => toCoord'[k] = toCoord[k]
  BY <1>1 DEF TypeOK
<1> HIDE DEF n
<1>7. n \in Message /\ n \in Returning /\ accepted[n].target = m /\ n \in Entries(executed[m]) /\ Genuine(n)
  BY <1>2, <1>4 DEF Message, Returning, Genuine
<1>8. Returning' \subseteq Returning /\ Ahead(accepted, {n}, Returning')
  <2>1. Returning' \subseteq Returning
    BY <1>4, <1>6 DEF Returning
  <2>2. ASSUME NEW k \in Radio, NEW y \in Entries(toCoord'[k]), Alike(accepted, n, y) PROVE n < y
    <3>1. CASE k = m
      BY <1>5, <1>6, <2>2, <3>1 DEF Ahead
    <3>2. CASE k # m
      BY <1>2, <1>6, <1>7, <2>2, <3>2 DEF Alike
    <3> QED
      BY <3>1, <3>2
  <2> QED
    BY <2>1, <2>2 DEF Ahead, Returning
<1> DEFINE q == Returning'
<1>9. q \subseteq Returning /\ Ahead(accepted, {n}, q)
  BY <1>8
<1> HIDE DEF q
<1>10. /\ Ahead(accepted, Entries(answered) \cup {outgoing} \cup Entries(publish) \cup Entries(up), {n})
       /\ Ahead(accepted, {n}, Taken)
  BY <1>2, <1>7, BehindFront
<1>11. Front(accepted, publish, up, q, Taken)
  BY <1>2, <1>9, FrontLess
<1>12. NextFront(q, Taken)
  BY <1>1, <1>7, <1>9, <1>10, <1>11, ResultInOrder
<1>13. Taken' = Taken
  BY <1>1 DEF Taken
<1>14. Back(accepted)'
  <2>1. \A k \in Radio : Ordered(accepted, toCoord'[k]) /\ Entries(toCoord'[k]) \subseteq Entries(executed[k])
    BY <1>2, <1>4, <1>5, <1>6
  <2> QED
    BY <1>1, <1>2, <2>1 DEF Back
<1> QED
  BY <1>12, <1>13, <1>14 DEF ResultOrder, Front, NextFront, q

LEMMA TelemetryInOrder ==
  ASSUME TypeOK, ResultOrder, EmitTelemetry
  PROVE  ResultOrder'
<1>1. /\ UNCHANGED <<topology, accepted, executed, answered, outgoing, busy, toCoord>>
      /\ ResultAtCoordinator(Telemetry)
  BY DEF EmitTelemetry, tasks
<1>2. Telemetry \in Message /\ Telemetry \notin Serial /\ Telemetry \notin DOMAIN accepted
  BY DEF Telemetry, Message, Serial, TypeOK
<1>3. Genuine(Telemetry)
  BY <1>2 DEF Genuine
<1>4. \A S : Ahead(accepted, S, {Telemetry}) /\ Ahead(accepted, {Telemetry}, S)
  BY <1>2 DEF Ahead, Alike
<1>5. Front(accepted, publish, up, Returning, Taken) /\ Back(accepted)
  BY DEF ResultOrder
<1>6. NextFront(Returning, Taken)
  BY <1>1, <1>2, <1>3, <1>4, <1>5, ResultInOrder
<1>7. Returning' = Returning /\ Taken' = Taken /\ Back(accepted)'
  BY <1>1, <1>5 DEF Returning, Taken, Back
<1> QED
  BY <1>6, <1>7 DEF ResultOrder, Front, NextFront

LEMMA LinkUpInOrder ==
  ASSUME TypeOK, ResultOrder, LinkUp
  PROVE  ResultOrder'
<1> DEFINE n == Head(up)
           f == <<Entries(answered), {outgoing} \ {None}, Entries(publish), Entries(up), Returning, Taken>>
           g == <<Entries(answered), {outgoing} \ {None}, Entries(publish'), Entries(up'), Returning, Taken>>
<1>1. /\ UNCHANGED <<topology, accepted, executed, answered, outgoing, busy, toCoord>>
      /\ up # <<>> /\ up' = Tail(up) /\ publish' = Enqueue(publish, n, PublishCap)
  BY DEF LinkUp, tasks
<1>2. /\ Chain(accepted, f, 6) /\ Ordered(accepted, answered) /\ Ordered(accepted, publish) /\ Ordered(accepted, up)
      /\ \A k \in Entries(answered) \cup {outgoing} \cup Entries(publish) \cup Entries(up) : Genuine(k)
      /\ Back(accepted) /\ ~InverterAtHost
  BY <1>1 DEF ResultOrder, Front
<1>3. up \in Seq(Message) /\ publish \in Seq(Message)
  BY DEF TypeOK
<1>4. n \in Message /\ n \in Entries(up) /\ Entries(up') \subseteq Entries(up)
  BY <1>1, <1>3, EntriesOfTail
<1>5. Ordered(accepted, up') /\ Ahead(accepted, {n}, Entries(up'))
  BY <1>1, <1>2, <1>3, OrderedTail
<1> HIDE DEF n
<1>6. /\ Ahead(accepted, Entries(answered), {n}) /\ Ahead(accepted, {outgoing} \ {None}, {n})
      /\ Ahead(accepted, Entries(publish), {n})
      /\ Ahead(accepted, {n}, Returning) /\ Ahead(accepted, {n}, Taken)
  <2>1. /\ Ahead(accepted, f[1], f[4]) /\ Ahead(accepted, f[2], f[4]) /\ Ahead(accepted, f[3], f[4])
        /\ Ahead(accepted, f[4], f[5]) /\ Ahead(accepted, f[4], f[6])
    BY <1>2 DEF Chain
  <2> QED
    BY <1>4, <2>1 DEF Ahead
<1>7. Ordered(accepted, publish') /\ Entries(publish') \subseteq Entries(publish) \cup {n}
  <2>1. CASE publish' = publish
    BY <1>2, <2>1
  <2>2. CASE publish' = Append(publish, n)
    BY <1>2, <1>3, <1>4, <1>6, <2>2, OrderedAppend, EntriesOfAppend
  <2> QED
    BY <1>1, <2>1, <2>2 DEF Enqueue
<1>8. Put(accepted, f, g, 6, 3, n)
  BY <1>4, <1>5, <1>6, <1>7 DEF Put
<1>9. Chain(accepted, g, 6)
  <2> HIDE DEF f, g
  <2> QED
    BY <1>2, <1>8, PutIntoChain
<1>10. \A k : Genuine(k) => Genuine(k)'
  BY <1>1 DEF Genuine, Serial
<1>11. \A k \in Entries(answered) \cup {outgoing} \cup Entries(publish') \cup Entries(up') : Genuine(k)'
  BY <1>2, <1>4, <1>7, <1>10
<1>12. Returning' = Returning /\ Taken' = Taken /\ Back(accepted)' /\ ~InverterAtHost'
  BY <1>1, <1>2 DEF Returning, Taken, Back, InverterAtHost
<1> QED
  BY <1>1, <1>2, <1>5, <1>7, <1>9, <1>11, <1>12 DEF ResultOrder, Front

LEMMA TakeMessageInOrder ==
  ASSUME TypeOK, ResultOrder, TakeMessage
  PROVE  ResultOrder'
<1> DEFINE n == Head(publish)
           f == <<Entries(answered), {outgoing} \ {None}, Entries(publish), Entries(up), Returning, Taken>>
           g == <<Entries(answered), {outgoing'} \ {None}, Entries(publish'), Entries(up), Returning, Taken>>
<1>1. /\ UNCHANGED <<topology, accepted, executed, answered, up, busy, toCoord>>
      /\ outgoing = None /\ publish # <<>> /\ publish' = Tail(publish) /\ outgoing' = n
  BY DEF TakeMessage, tasks, wires, history
<1>2. /\ Chain(accepted, f, 6) /\ Ordered(accepted, answered) /\ Ordered(accepted, publish) /\ Ordered(accepted, up)
      /\ \A k \in Entries(answered) \cup {outgoing} \cup Entries(publish) \cup Entries(up) : Genuine(k)
      /\ Back(accepted) /\ (InverterAtHost => up = <<>>)
  BY DEF ResultOrder, Front
<1>3. publish \in Seq(Message)
  BY DEF TypeOK
<1>4. n \in Message /\ n \in Entries(publish) /\ Entries(publish') \subseteq Entries(publish)
  BY <1>1, <1>3, EntriesOfTail
<1>5. Ordered(accepted, publish') /\ Ahead(accepted, {n}, Entries(publish'))
  BY <1>1, <1>2, <1>3, OrderedTail
<1> HIDE DEF n
<1>6. /\ Ahead(accepted, Entries(answered), {n}) /\ Ahead(accepted, {n}, Entries(up))
      /\ Ahead(accepted, {n}, Returning) /\ Ahead(accepted, {n}, Taken)
  <2>1. /\ Ahead(accepted, f[1], f[3]) /\ Ahead(accepted, f[3], f[4])
        /\ Ahead(accepted, f[3], f[5]) /\ Ahead(accepted, f[3], f[6])
    BY <1>2 DEF Chain
  <2> QED
    BY <1>4, <2>1 DEF Ahead
<1>7. Put(accepted, f, g, 6, 2, n)
  BY <1>1, <1>4, <1>5, <1>6 DEF Put
<1>8. Chain(accepted, g, 6)
  <2> HIDE DEF f, g
  <2> QED
    BY <1>2, <1>7, PutIntoChain
<1>9. \A k : Genuine(k) => Genuine(k)'
  BY <1>1 DEF Genuine, Serial
<1>10. \A k \in Entries(answered) \cup {outgoing'} \cup Entries(publish') \cup Entries(up) : Genuine(k)'
  BY <1>1, <1>2, <1>4, <1>9
<1>11. Returning' = Returning /\ Taken' = Taken /\ Back(accepted)' /\ (InverterAtHost' => up' = <<>>)
  BY <1>1, <1>2 DEF Returning, Taken, Back, InverterAtHost
<1> QED
  BY <1>1, <1>2, <1>5, <1>8, <1>10, <1>11 DEF ResultOrder, Front

LEMMA PublishInOrder ==
  ASSUME TypeOK, ResultOrder, PublishNow
  PROVE  ResultOrder'
<1> DEFINE f == <<Entries(answered), {outgoing} \ {None}, Entries(publish), Entries(up), Returning, Taken>>
           g == <<Entries(answered'), {outgoing'} \ {None}, Entries(publish), Entries(up), Returning, Taken>>
<1>1. /\ UNCHANGED <<topology, accepted, executed, publish, up, busy, toCoord>>
      /\ outgoing # None /\ outgoing' = None
      /\ answered' = IF outgoing = Telemetry THEN answered ELSE Append(answered, outgoing)
  BY DEF PublishNow, tasks, wires
<1>2. /\ Chain(accepted, f, 6) /\ Ordered(accepted, answered) /\ Ordered(accepted, publish) /\ Ordered(accepted, up)
      /\ \A k \in Entries(answered) \cup {outgoing} \cup Entries(publish) \cup Entries(up) : Genuine(k)
      /\ Back(accepted) /\ (InverterAtHost => up = <<>>)
  BY DEF ResultOrder, Front
<1>3. answered \in Seq(Serial) /\ outgoing \in Message
  BY <1>1 DEF TypeOK
<1>4. /\ Ahead(accepted, Entries(answered), {outgoing}) /\ Ahead(accepted, {outgoing}, Entries(publish))
      /\ Ahead(accepted, {outgoing}, Entries(up)) /\ Ahead(accepted, {outgoing}, Returning)
      /\ Ahead(accepted, {outgoing}, Taken)
  <2>1. /\ Ahead(accepted, f[1], f[2]) /\ Ahead(accepted, f[2], f[3]) /\ Ahead(accepted, f[2], f[4])
        /\ Ahead(accepted, f[2], f[5]) /\ Ahead(accepted, f[2], f[6])
    BY <1>2 DEF Chain
  <2> QED
    BY <1>1, <2>1 DEF Ahead
<1>5. Ordered(accepted, answered') /\ Entries(answered') \subseteq Entries(answered) \cup {outgoing}
  <2>1. CASE outgoing = Telemetry
    BY <1>1, <1>2, <2>1
  <2>2. CASE outgoing # Telemetry
    <3>1. outgoing \in Serial
      BY <1>3, <2>2 DEF Message
    <3> QED
      BY <1>1, <1>2, <1>3, <1>4, <2>2, <3>1, OrderedAppend, EntriesOfAppend
  <2> QED
    BY <2>1, <2>2
<1>6. {outgoing'} \ {None} = {}
  BY <1>1
<1>7. Put(accepted, f, g, 6, 1, outgoing)
  <2>1. Ahead(accepted, {outgoing}, {outgoing'} \ {None})
    BY <1>6 DEF Ahead
  <2> QED
    BY <1>4, <1>5, <1>6, <2>1 DEF Put
<1>8. Chain(accepted, g, 6)
  <2> HIDE DEF f, g
  <2> QED
    BY <1>2, <1>7, PutIntoChain
<1>9. /\ \A k : Genuine(k) => Genuine(k)'
      /\ Genuine(None)
  BY <1>1 DEF Genuine, Serial, None
<1>10. \A k \in Entries(answered') \cup {outgoing'} \cup Entries(publish) \cup Entries(up) : Genuine(k)'
  BY <1>1, <1>2, <1>5, <1>9
<1>11. Returning' = Returning /\ Taken' = Taken /\ Back(accepted)' /\ (InverterAtHost' => up' = <<>>)
  BY <1>1, <1>2 DEF Returning, Taken, Back, InverterAtHost
<1> QED
  BY <1>1, <1>2, <1>5, <1>8, <1>10, <1>11 DEF ResultOrder, Front

(* A command taken is behind every result of its inverter, since those are *)
(* of commands executed before.                                            *)
LEMMA TakenInOrder ==
  ASSUME TypeOK, CommandOrder, ResultOrder, NEW m \in Member, TakeCommand(m)
  PROVE  ResultOrder'
<1> DEFINE n == Head(queue[m])
           f == <<Entries(answered), {outgoing} \ {None}, Entries(publish), Entries(up), Returning, Taken>>
           g == <<Entries(answered), {outgoing} \ {None}, Entries(publish), Entries(up), Returning, Taken'>>
<1>1. /\ UNCHANGED <<topology, accepted, answered, outgoing, publish, up, toCoord>>
      /\ busy[m] = None /\ queue[m] # <<>>
      /\ busy' = [busy EXCEPT ![m] = n] /\ executed' = [executed EXCEPT ![m] = Append(@, n)]
  BY DEF TakeCommand, wires, output
<1>2. /\ Chain(accepted, f, 6) /\ Ordered(accepted, answered) /\ Ordered(accepted, publish) /\ Ordered(accepted, up)
      /\ \A k \in Entries(answered) \cup {outgoing} \cup Entries(publish) \cup Entries(up) : Genuine(k)
      /\ InverterAtHost => up = <<>>
      /\ \A k \in Radio : Ordered(accepted, toCoord[k]) /\ Entries(toCoord[k]) \subseteq Entries(executed[k])
      /\ \A k \in Member : busy[k] = None \/ busy[k] \in Entries(executed[k])
  BY DEF ResultOrder, Front, Back
<1>3. /\ queue[m] \in Seq(Serial) /\ \A k \in Member : executed[k] \in Seq(Serial)
      /\ \A k \in Radio : k \in Member
      /\ \A k \in Member : \A x \in Entries(executed[k]) : accepted[x].target = k
      /\ \A x \in Entries(queue[m]) : accepted[x].target = m
  BY DEF TypeOK, CommandOrder, InOrder, Radio
<1>4. n \in Serial /\ n \in Entries(queue[m])
  BY <1>1, <1>3, EntriesOfTail
<1>5. /\ \A k \in Member : busy'[k] = IF k = m THEN n ELSE busy[k]
      /\ \A k \in Member : executed'[k] = IF k = m THEN Append(executed[m], n) ELSE executed[k]
  BY <1>1 DEF TypeOK
<1> HIDE DEF n
<1>6. \A k \in Member : Entries(executed[k]) \subseteq Entries(executed'[k])
  BY <1>3, <1>4, <1>5, EntriesOfAppend
<1>7. n \in Entries(executed'[m]) /\ accepted[n].target = m
  BY <1>3, <1>4, <1>5, EntriesOfAppend
<1>8. \A y \in Entries(executed[m]) : Alike(accepted, y, n) => y < n
  <2>1. Chain(accepted, <<Done, Queued, OnRadio, Entries(down)>>, 4)
    BY DEF CommandOrder, InOrder
  <2>2. Ahead(accepted, Done, Queued)
    BY <2>1 DEF Chain
  <2> QED
    BY <1>4, <2>2 DEF Ahead, Done, Queued
<1>9. \A y : Genuine(y) => Ahead(accepted, {y}, {n})
  <2>1. DOMAIN accepted = Serial
    BY DEF TypeOK, Serial
  <2>2. ASSUME NEW y, Genuine(y), Alike(accepted, y, n) PROVE y < n
    <3>1. y \in Entries(executed[m])
      BY <1>7, <2>1, <2>2 DEF Genuine, Alike
    <3> QED
      BY <1>8, <2>2, <3>1
  <2> QED
    BY <2>2 DEF Ahead
<1>10. /\ Ahead(accepted, Entries(answered), {n}) /\ Ahead(accepted, {outgoing} \ {None}, {n})
       /\ Ahead(accepted, Entries(publish), {n}) /\ Ahead(accepted, Entries(up), {n})
  BY <1>2, <1>9 DEF Ahead
<1>11. Ahead(accepted, Returning, {n})
  <2>1. ASSUME NEW k \in Radio, NEW y \in Entries(toCoord[k]), Alike(accepted, y, n) PROVE y < n
    <3>1. y \in Entries(executed[k]) /\ accepted[y].target = k
      BY <1>2, <1>3
    <3>2. k = m
      BY <1>7, <2>1, <3>1 DEF Alike
    <3> QED
      BY <1>8, <2>1, <3>1, <3>2
  <2> QED
    BY <2>1 DEF Ahead, Returning
<1>12. Taken' \subseteq Taken \cup {n}
  BY <1>5 DEF Taken
<1>13. Put(accepted, f, g, 6, 6, n)
  BY <1>10, <1>11, <1>12 DEF Put
<1>14. Chain(accepted, g, 6)
  <2> HIDE DEF f, g
  <2> QED
    BY <1>2, <1>13, PutIntoChain
<1>15. \A k : Genuine(k) => Genuine(k)'
  <2>1. ASSUME NEW k, Genuine(k), k \in Serial' PROVE k \in Entries(executed'[accepted'[k].target])
    <3>1. k \in Serial /\ accepted'[k] = accepted[k]
      BY <1>1, <2>1 DEF Serial
    <3>2. accepted[k].target \in Member
      BY <3>1, Targets DEF TypeOK, Serial
    <3> QED
      BY <1>6, <2>1, <3>1, <3>2 DEF Genuine
  <2> QED
    BY <2>1 DEF Genuine
<1>16. \A k \in Entries(answered) \cup {outgoing} \cup Entries(publish) \cup Entries(up) : Genuine(k)'
  BY <1>2, <1>15
<1>17. Back(accepted)'
  <2>1. \A k \in Radio : Ordered(accepted, toCoord[k]) /\ Entries(toCoord[k]) \subseteq Entries(executed'[k])
    BY <1>2, <1>3, <1>6
  <2>2. \A k \in Member : busy'[k] = None \/ busy'[k] \in Entries(executed'[k])
    BY <1>2, <1>5, <1>6, <1>7
  <2> QED
    BY <1>1, <2>1, <2>2 DEF Back
<1>18. Returning' = Returning /\ InverterAtHost' = InverterAtHost
  BY <1>1 DEF Returning, InverterAtHost
<1> QED
  BY <1>1, <1>2, <1>14, <1>16, <1>17, <1>18 DEF ResultOrder, Front

(* A command accepted does not touch the results of the earlier ones.      *)
LEMMA AcceptedApart ==
  ASSUME TypeOK, ResultOrder, NEW c \in Command, Accept(c)
  PROVE  ResultOrder'
<1> DEFINE n == Len(accepted) + 1
           a == accepted'
           f == <<Entries(answered), {outgoing} \ {None}, Entries(publish), Entries(up), Returning, Taken>>
<1>1. /\ UNCHANGED <<topology, executed, answered, outgoing, publish, up, toCoord, busy>>
      /\ a = Append(accepted, c) /\ accepted \in Seq(Command) /\ Len(accepted) \in Nat
  BY DEF Accept, output, TypeOK
<1>2. /\ Chain(accepted, f, 6) /\ Ordered(accepted, answered) /\ Ordered(accepted, publish) /\ Ordered(accepted, up)
      /\ \A k \in Entries(answered) \cup {outgoing} \cup Entries(publish) \cup Entries(up) : Genuine(k)
      /\ InverterAtHost => up = <<>>
      /\ \A k \in Radio : Ordered(accepted, toCoord[k]) /\ Entries(toCoord[k]) \subseteq Entries(executed[k])
      /\ \A k \in Member : busy[k] = None \/ busy[k] \in Entries(executed[k])
  BY DEF ResultOrder, Front, Back
<1>3. n \notin Message /\ n # None
  BY <1>1 DEF Message, Serial, Telemetry, None
<1>4. /\ Entries(answered) \subseteq Message /\ {outgoing} \ {None} \subseteq Message
      /\ Entries(publish) \subseteq Message /\ Entries(up) \subseteq Message
      /\ Returning \subseteq Message /\ Taken \subseteq Message
  <2>1. Entries(answered) \subseteq Serial /\ Entries(publish) \subseteq Message /\ Entries(up) \subseteq Message
    BY EntriesOfSeq DEF TypeOK
  <2>2. \A m \in Radio : Entries(toCoord[m]) \subseteq Serial
    BY EntriesOfSeq DEF TypeOK
  <2>3. Taken \subseteq Serial /\ {outgoing} \ {None} \subseteq Message
    BY DEF Taken, TypeOK
  <2> QED
    BY <2>1, <2>2, <2>3 DEF Returning, Message
<1> HIDE DEF n
<1>5. ASSUME NEW S, NEW T, S \subseteq Message, T \subseteq Message, Ahead(accepted, S, T)
      PROVE  Ahead(a, S, T)
  <2>1. n \notin S /\ n \notin T
    BY <1>3, <1>5
  <2> QED
    BY <1>1, <1>5, <2>1, MoreAccepted DEF n
<1>6. ASSUME NEW s, Entries(s) \subseteq Message, Ordered(accepted, s) PROVE Ordered(a, s)
  <2>1. n \notin Entries(s)
    BY <1>3, <1>6
  <2> QED
    BY <1>1, <1>6, <2>1, MoreAccepted DEF n
<1>7. Chain(a, f, 6)
  <2>1. \A i \in 1 .. 6 : f[i] \subseteq Message
    BY <1>4
  <2> HIDE DEF f
  <2> QED
    BY <1>2, <1>5, <2>1 DEF Chain
<1>8. Ordered(a, answered) /\ Ordered(a, publish) /\ Ordered(a, up)
  BY <1>2, <1>4, <1>6
<1>9. \A k \in Radio : Ordered(a, toCoord[k]) /\ Entries(toCoord[k]) \subseteq Entries(executed[k])
  BY <1>2, <1>4, <1>6 DEF Returning
<1>10. ASSUME NEW k, Genuine(k), k # n PROVE Genuine(k)'
  <2>1. k \in Serial' => k \in Serial /\ a[k] = accepted[k]
    BY <1>1, <1>10 DEF Serial, n
  <2> QED
    BY <1>1, <1>10, <2>1 DEF Genuine
<1>11. \A k \in Entries(answered) \cup {outgoing} \cup Entries(publish) \cup Entries(up) : Genuine(k)'
  BY <1>2, <1>3, <1>4, <1>10
<1>12. Returning' = Returning /\ Taken' = Taken /\ InverterAtHost' = InverterAtHost
  BY <1>1 DEF Returning, Taken, InverterAtHost
<1>13. Back(accepted)'
  BY <1>1, <1>2, <1>9 DEF Back
<1> HIDE DEF a
<1> QED
  BY <1>1, <1>2, <1>7, <1>8, <1>11, <1>12, <1>13 DEF ResultOrder, Front, a

LEMMA ResultOrderStep ==
  ASSUME TypeOK, CommandOrder, ResultOrder, Next
  PROVE  ResultOrder'
<1>1. CASE \E c \in Command : Accept(c)
  BY <1>1, AcceptedApart
<1>2. CASE \E m \in Member : TakeCommand(m)
  BY <1>2, TakenInOrder
<1>3. CASE LinkDown \/ \E m \in Radio : MeshToMember(m)
  <2>1. \A s : Shorter(s, s)
    BY DEF Shorter
  <2>2. UNCHANGED <<topology, accepted, executed, answered, outgoing, publish, up, toCoord, busy>>
    BY <1>3 DEF LinkDown, MeshToMember, output
  <2> QED
    BY <2>1, <2>2, LessResults
<1>4. CASE \/ (\E m \in Member : FinishCommand(m)) \/ (\E m \in Radio : MeshToCoordinator(m))
           \/ EmitTelemetry \/ LinkUp \/ TakeMessage \/ PublishNow
  BY <1>4, FinishInOrder, MeshResultInOrder, TelemetryInOrder, LinkUpInOrder, TakeMessageInOrder,
     PublishInOrder
<1>5. CASE Environment
  BY <1>5, EnvironmentTakesAway, LessResults DEF TakesAway
<1> QED
  BY <1>1, <1>2, <1>3, <1>4, <1>5, StepKinds

(* Results reach the broker at most once, only of commands that were       *)
(* executed, and for one inverter in the order of execution                *)
(* (AnsweredInOrder), whatever is lost or restarted on the way back.       *)
THEOREM ResultsStayInOrder == Spec => []AnsweredInOrder
<1>1. OrderInv /\ [Next]_vars => OrderInv'
  <2>1. ASSUME OrderInv, Next PROVE OrderInv'
    BY <2>1, TypeStep, CommandOrderStep, ResultOrderStep DEF OrderInv
  <2>2. ASSUME OrderInv, UNCHANGED vars PROVE OrderInv'
    <3>1. \A s : Shorter(s, s)
      BY DEF Shorter
    <3>2. UNCHANGED <<topology, accepted, executed, answered, outgoing, publish, up, toCoord, busy, down,
                      queue, toMember>>
      BY <2>2 DEF vars, wires, tasks, output, history
    <3> QED
      BY <2>2, <3>1, <3>2, TypeStep, LessInOrder, LessResults DEF OrderInv
  <2> QED
    BY <2>1, <2>2
<1>2. OrderInv => AnsweredInOrder
  <2>1. ASSUME OrderInv PROVE AnsweredInOrder
    <3>1. answered \in Seq(Serial) /\ DOMAIN accepted = Serial
      BY <2>1 DEF OrderInv, TypeOK, Serial
    <3>2. Ordered(accepted, answered) /\ \A n \in Entries(answered) : Genuine(n)
      BY <2>1 DEF OrderInv, ResultOrder, Front
    <3>3. \A n \in Entries(answered) : n \in Serial
      BY <3>1, EntriesOfSeq
    <3>4. \A i \in DOMAIN answered : answered[i] \in Serial
      BY <3>3 DEF Entries
    <3> QED
      BY <3>1, <3>2, <3>3, <3>4 DEF AnsweredInOrder, Ordered, Alike, Genuine
  <2> QED
    BY <2>1
<1>3. Init => OrderInv
  BY TypeStart, CommandOrderStart, ResultOrderStart DEF OrderInv
<1> QED
  BY <1>1, <1>2, <1>3, PTL DEF Spec
=============================================================================
