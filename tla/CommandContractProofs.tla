----------------------- MODULE CommandContractProofs -----------------------
(***************************************************************************)
(* What the results of the inverter task are worth, for every catalog, set *)
(* of commands and polls, any timing and any number of commands.  The task *)
(* implements CommandContract: whatever the inverter, the adapter and the  *)
(* front panel do, a result never contradicts what happened to the         *)
(* registers, not even through a frame that is performed after the result. *)
(* And what it confirms, the registers held while the command ran.         *)
(***************************************************************************)
EXTENDS InverterTaskProofs

(* A write without a pre-read (H65, H66) leaves when no other write is     *)
(* under way: the late echo of an earlier one would be taken for its own.  *)
UnpreparedWriteAlone ==
  WriteLeaves /\ SkipsPreRead(cmd) => \A i \in DOMAIN bus : bus[i].fn \in ReadFunction
UnpreparedWritesAlone == [][UnpreparedWriteAlone]_vars

-----------------------------------------------------------------------------
(*                      The inductive invariant                            *)

Writes(frame) == frame.fn \notin ReadFunction
WriteUnderWay == \E i \in DOMAIN bus : Writes(bus[i])

(* The task waits for the answer to its write.                             *)
AwaitsWrite == pc = "write" /\ sent

(* The command in hand, if any, has not sent its write.                    *)
Unwritten == pc \in {"read", "previous"} \/ (pc = "write" /\ ~sent) \/ cmd = NoCommand

(* A result that leaves open whether the write will still be performed.    *)
Unsettled(result) ==
  \/ result.kind # "read_registers" /\ result.outcome = "unknown"
  \/ result.kind = "write_registers" /\ result.outcome = "communication_error"

PhaseInv ==
  /\ pc \in CommandStep <=> cmd # NoCommand
  /\ cmd # NoCommand /\ cmd.kind = "read_registers" => pc = "read"

(* How many frames are under way; rx was emptied when the last one left.   *)
BusInv ==
  /\ Len(bus) <= (IF sent THEN MaxLate + 1 ELSE MaxLate)
  /\ sent /\ rx # <<>> => Len(bus) <= MaxLate
  /\ ~connected => bus = <<>>

(* A write under way has not been performed.  It is the one the task waits *)
(* for, or one left over from a command that ended unsettled, and then the *)
(* first frame the inverter serves.                                        *)
Awaited(i)  == i = Len(bus) /\ bus[i] = WriteOf(cmd) /\ bus[i].by = Serial
LeftOver(i) ==
  /\ i = 1 /\ bus[i].by \in DOMAIN log /\ Unsettled(log[bus[i].by])
  /\ pc = "write" => SkipsPreRead(cmd)

WriteInv ==
  \A i \in DOMAIN bus : Writes(bus[i]) =>
    /\ bus[i].by \notin applied
    /\ IF AwaitsWrite THEN Awaited(i) ELSE LeftOver(i)

(* Frames are served in order: no answer to the pre-read has come while a  *)
(* write is left over, and the answer to a write is its own.               *)
ReplyInv ==
  /\ pc = "previous" /\ sent /\ WriteUnderWay => \A k \in DOMAIN rx : Writes(rx[k])
  /\ AwaitsWrite => \A k \in DOMAIN rx : Writes(rx[k]) =>
       /\ ~WriteUnderWay
       /\ rx[k].form = "exception" => Serial \notin applied
       /\ rx[k].form = "data" => Serial \in applied /\ Echoes(WriteOf(cmd), rx[k])

AppliedInv ==
  /\ applied \subseteq 1 .. Serial
  /\ Unwritten => Serial \notin applied
  /\ pc = "readback" => Serial \in applied

ResultInv ==
  \A n \in DOMAIN log : n \in applied => ~Contract!Denies(log[n].kind, log[n].outcome)

FateInv == PhaseInv /\ BusInv /\ WriteInv /\ ReplyInv /\ AppliedInv /\ ResultInv

ContractStep == [Contract!Next]_<<cmd # NoCommand, log, applied>>

-----------------------------------------------------------------------------
(*                               Lemmas                                    *)

(* The frames under way.                                                   *)
LEMMA BusFacts ==
  ASSUME IInv
  PROVE  /\ Len(bus) \in Nat /\ DOMAIN bus = 1 .. Len(bus) /\ (bus = <<>> <=> Len(bus) = 0)
         /\ Len(rx) \in Nat /\ DOMAIN rx = 1 .. Len(rx) /\ (rx = <<>> <=> Len(rx) = 0)
         /\ Len(log) \in Nat /\ DOMAIN log = 1 .. Len(log) /\ Serial = Len(log) + 1
         /\ MaxLate \in Nat
         /\ \A i \in DOMAIN bus : bus[i] \in Request /\ bus[i].by \in Nat
<1>1. bus \in Seq(SoundRequest) /\ rx \in Seq(SoundReply) /\ log \in Seq(Result)
  BY DEF IInv, LinkInv, ControlInv
<1>2. \A i \in DOMAIN bus : bus[i] \in Request /\ bus[i].by \in Nat
  BY <1>1 DEF SoundRequest, Request
<1> QED
  BY <1>1, <1>2, TimingAssumption, LenProperties, EmptySeq DEF Serial

(* The inverter takes the first frame from the bus.                        *)
LEMMA BusPopped ==
  ASSUME IInv, bus # <<>>, bus' = Tail(bus)
  PROVE  /\ Len(bus) > 0 /\ Len(bus') = Len(bus) - 1 /\ DOMAIN bus' = 1 .. Len(bus) - 1
         /\ 1 \in DOMAIN bus /\ Head(bus) = bus[1] /\ (Len(bus) = 1 => bus' = <<>>)
         /\ \A i \in DOMAIN bus' : i \in Nat \ {0} /\ i + 1 \in DOMAIN bus /\ bus'[i] = bus[i + 1]
<1>1. bus \in Seq(SoundRequest)
  BY DEF IInv, LinkInv
<1>2. /\ Len(bus) \in Nat \ {0} /\ bus' \in Seq(SoundRequest) /\ Len(bus') = Len(bus) - 1
      /\ Head(bus) = bus[1] /\ \A i \in 1 .. Len(bus) - 1 : bus'[i] = bus[i + 1]
  BY <1>1, HeadTailProperties, EmptySeq, LenProperties
<1>3. DOMAIN bus = 1 .. Len(bus) /\ DOMAIN bus' = 1 .. Len(bus) - 1
  BY <1>1, <1>2, LenProperties
<1>4. Len(bus) = 1 => bus' = <<>>
  BY <1>2, EmptySeq
<1> QED
  BY <1>2, <1>3, <1>4

(* An answer is appended to the receive stream.                            *)
LEMMA AppendFacts ==
  ASSUME NEW S, NEW s \in Seq(S), NEW r
  PROVE  /\ DOMAIN Append(s, r) = 1 .. Len(s) + 1 /\ Append(s, r)[Len(s) + 1] = r
         /\ \A k \in DOMAIN Append(s, r) : k = Len(s) + 1 \/ (k \in DOMAIN s /\ Append(s, r)[k] = s[k])
<1>1. s \in Seq(S \cup {r}) /\ r \in S \cup {r}
  BY SeqMonotonic
<1>2. Len(s) \in Nat /\ DOMAIN s = 1 .. Len(s)
  BY LenProperties
<1>3. /\ Append(s, r) \in Seq(S \cup {r}) /\ Len(Append(s, r)) = Len(s) + 1
      /\ Append(s, r)[Len(s) + 1] = r /\ \A k \in 1 .. Len(s) : Append(s, r)[k] = s[k]
  BY <1>1, AppendProperties
<1>4. DOMAIN Append(s, r) = 1 .. Len(s) + 1
  BY <1>3, LenProperties
<1> QED
  BY <1>2, <1>3, <1>4

LEMMA AnswerFrame ==
  ASSUME NEW q \in Request, NEW form \in {"data", "exception", "garbled"}, Answered(q, form)
  PROVE  \E r : /\ rx' = Append(rx, r) /\ r.fn = q.fn /\ r.form = form
                /\ r.first = q.first /\ r.count = q.count
                /\ form = "data" /\ q.fn = "write_single" => r.values = q.values
<1> DEFINE words == CASE form # "data"           -> <<>>
                      [] q.fn = "read_holding"   -> Block(holding, q.first, q.count)
                      [] q.fn = "read_input"     -> IF q.first = 0 THEN <<status>> ELSE <<0>>
                      [] q.fn = "write_single"   -> q.values
                      [] q.fn = "write_multiple" -> <<>>
           r == [fn |-> q.fn, form |-> form, first |-> q.first, count |-> q.count, values |-> words]
<1>1. form = "data" /\ q.fn = "write_single" => words = q.values
  OBVIOUS
<1>2. rx' = Append(rx, r)
  BY DEF Answered
<1> HIDE DEF words
<1> QED
  BY <1>1, <1>2

(* A result is appended to the log.                                        *)
LEMMA LogGrows ==
  ASSUME IInv, NEW r \in Result, log' = Append(log, r)
  PROVE  /\ DOMAIN log' = 1 .. Serial /\ Serial \in Nat \ {0} /\ Serial' = Serial + 1
         /\ log'[Serial] = r /\ \A n \in DOMAIN log : n \in DOMAIN log' /\ log'[n] = log[n]
         /\ \A n \in DOMAIN log' : n \in DOMAIN log \/ n = Serial
<1>1. log \in Seq(Result)
  BY DEF IInv, ControlInv
<1>2. /\ Len(log) \in Nat /\ Len(log') = Len(log) + 1 /\ log' \in Seq(Result)
      /\ log'[Len(log) + 1] = r /\ \A n \in 1 .. Len(log) : log'[n] = log[n]
  BY <1>1, AppendProperties, LenProperties
<1>3. DOMAIN log = 1 .. Len(log) /\ DOMAIN log' = 1 .. Len(log')
  BY <1>1, <1>2, LenProperties
<1> QED
  BY <1>2, <1>3 DEF Serial

(* An unsettled result denies nothing.                                     *)
LEMMA UnsettledDeniesNothing ==
  ASSUME NEW r \in Result, Unsettled(r)
  PROVE  ~Contract!Denies(r.kind, r.outcome) /\ r.outcome \in {"unknown", "communication_error"}
BY DEF Unsettled, Contract!Denies, GuardOutcome, Result

(* The kinds of the commands in hand.                                      *)
LEMMA CommandKinds ==
  /\ \A c \in Command : c.kind \in {"semantic", "write_registers", "read_registers"} /\ c # NoCommand
  /\ IInv /\ cmd # NoCommand => cmd \in Command
<1>1. \A c \in Command : c.kind \in {"semantic", "write_registers", "read_registers"}
  BY CommandAssumption, CommandShapes
<1>2. NoCommand.kind = "none"
  BY DEF NoCommand
<1> QED
  BY <1>1, <1>2 DEF IInv, ControlInv

(* The invariant speaks of these variables only.                           *)
LEMMA FateUntouched ==
  ASSUME FateInv, UNCHANGED <<pc, sent, cmd, previous, connected, bus, rx, log, applied>>
  PROVE  FateInv' /\ ContractStep
<1>1. PhaseInv' /\ BusInv'
  BY DEF FateInv, PhaseInv, BusInv
<1>2. WriteOf(cmd)' = WriteOf(cmd) /\ Serial' = Serial
  BY DEF WriteOf, Requested, Serial
<1>3. WriteInv'
  BY <1>2 DEF FateInv, WriteInv, AwaitsWrite, Awaited, LeftOver
<1>4. ReplyInv'
  BY <1>2 DEF FateInv, ReplyInv, AwaitsWrite, WriteUnderWay
<1>5. AppliedInv' /\ ResultInv'
  BY <1>2 DEF FateInv, AppliedInv, ResultInv, Unwritten
<1> QED
  BY <1>1, <1>3, <1>4, <1>5 DEF FateInv, ContractStep

-----------------------------------------------------------------------------
(*                   The wire, the inverter and time                       *)

(* A new frame is the last one; only the write step sends a write.         *)
LEMMA SendFrameFate ==
  ASSUME IInv, FateInv, SendFrame, UnpreparedWriteAlone
  PROVE  FateInv' /\ ContractStep
<1>1. /\ pc \in BusStep /\ ~sent /\ connected /\ sent' = TRUE /\ rx' = <<>>
      /\ bus' = Append(bus, CurrentRequest)
      /\ UNCHANGED <<pc, cmd, previous, connected, log, applied, poll>>
  BY DEF SendFrame
<1>2. bus \in Seq(SoundRequest) /\ CurrentRequest \in SoundRequest
  BY <1>1, CurrentRequestIsSound DEF IInv, LinkInv
<1>3. /\ Len(bus') = Len(bus) + 1 /\ DOMAIN bus' = 1 .. Len(bus) + 1
      /\ bus'[Len(bus) + 1] = CurrentRequest /\ \A i \in DOMAIN bus : bus'[i] = bus[i]
      /\ \A i \in DOMAIN bus' : i \in DOMAIN bus \/ i = Len(bus')
  BY <1>1, <1>2, BusFacts, AppendProperties, LenProperties
<1>4. WriteOf(cmd)' = WriteOf(cmd) /\ Serial' = Serial
  BY <1>1 DEF WriteOf, Requested, Serial
<1>5. IF pc = "write" THEN CurrentRequest = WriteOf(cmd) ELSE ~Writes(CurrentRequest)
  <2>1. pc = "poll" => poll.fn \in ReadFunction
    BY PollAssumption DEF IInv, ControlInv
  <2> QED
    BY <2>1 DEF CurrentRequest, ReadOf, ReadFunction, Writes
<1>6. BusInv'
  BY <1>1, <1>3, BusFacts DEF FateInv, BusInv
<1>7. WriteInv'
  <2> SUFFICES ASSUME NEW i \in DOMAIN bus', Writes(bus'[i])
               PROVE  /\ bus'[i].by \notin applied
                      /\ IF AwaitsWrite' THEN Awaited(i)' ELSE LeftOver(i)'
    BY <1>1 DEF WriteInv
  <2>1. CASE i \in DOMAIN bus
    <3>1. bus'[i] = bus[i] /\ bus[i].by \notin applied /\ LeftOver(i)
      BY <1>1, <1>3, <2>1 DEF FateInv, WriteInv, AwaitsWrite
    <3>2. pc # "write"
      BY <1>1, <1>3, <2>1, <3>1 DEF LeftOver, UnpreparedWriteAlone, WriteLeaves, Writes
    <3> QED
      BY <1>1, <3>1, <3>2 DEF LeftOver, AwaitsWrite
  <2>2. CASE i = Len(bus')
    <3>1. bus'[i] = WriteOf(cmd) /\ pc = "write"
      BY <1>3, <1>5, <2>2
    <3>2. bus'[i].by = Serial
      BY <3>1 DEF WriteOf
    <3>3. Serial \notin applied
      BY <1>1, <3>1 DEF FateInv, AppliedInv, Unwritten
    <3> QED
      BY <1>1, <1>4, <2>2, <3>1, <3>2, <3>3 DEF Awaited, AwaitsWrite
  <2> QED
    BY <1>3, <2>1, <2>2
<1>8. ReplyInv'
  BY <1>1 DEF ReplyInv
<1>9. PhaseInv' /\ AppliedInv' /\ ResultInv' /\ ContractStep
  BY <1>1, <1>4 DEF FateInv, PhaseInv, AppliedInv, ResultInv, Unwritten, ContractStep
<1> QED
  BY <1>6, <1>7, <1>8, <1>9 DEF FateInv

(* What every step of the inverter leaves: the rest of the bus.            *)
LEMMA ServedFate ==
  ASSUME IInv, FateInv, InverterStep
  PROVE  /\ bus # <<>> /\ bus' = Tail(bus) /\ connected
         /\ UNCHANGED <<pc, sent, cmd, previous, connected, log>>
         /\ Serial' = Serial /\ WriteOf(cmd)' = WriteOf(cmd) /\ AwaitsWrite' = AwaitsWrite
         /\ PhaseInv' /\ BusInv'
         /\ WriteUnderWay' => AwaitsWrite /\ WriteUnderWay /\ ~Writes(Head(bus))
         /\ \A i \in DOMAIN bus' : Writes(bus'[i]) =>
              bus'[i].by \notin applied /\ Awaited(i)' /\ AwaitsWrite'
<1>1. /\ bus # <<>> /\ bus' = Tail(bus)
      /\ UNCHANGED <<pc, sent, cmd, previous, connected, log>>
  BY DEF InverterStep, ServeRead, ServeWrite, RefuseWrite, LoseFrame, control, history
<1>2. Serial' = Serial /\ WriteOf(cmd)' = WriteOf(cmd) /\ AwaitsWrite' = AwaitsWrite /\ connected
  BY <1>1 DEF WriteOf, Requested, Serial, AwaitsWrite, FateInv, BusInv
<1>3. PhaseInv' /\ BusInv'
  BY <1>1, <1>2, BusFacts, BusPopped DEF FateInv, PhaseInv, BusInv
<1>4. ASSUME NEW i \in DOMAIN bus', Writes(bus'[i])
      PROVE  /\ bus'[i].by \notin applied /\ Awaited(i)' /\ AwaitsWrite /\ WriteUnderWay
             /\ ~Writes(Head(bus))
  <2>1. i + 1 \in DOMAIN bus /\ bus'[i] = bus[i + 1] /\ i \in Nat \ {0}
    BY <1>1, BusPopped
  <2>2. bus[i + 1].by \notin applied /\ AwaitsWrite /\ Awaited(i + 1)
    BY <1>4, <2>1 DEF FateInv, WriteInv, LeftOver
  <2>3. Len(bus) = i + 1 /\ Len(bus') = i
    <3>1. Len(bus) \in Nat /\ Len(bus') = Len(bus) - 1
      BY <1>1, BusPopped, BusFacts
    <3>2. Len(bus) = i + 1
      BY <2>2 DEF Awaited
    <3> QED
      BY <2>1, <3>1, <3>2
  <2>4. ~Writes(Head(bus))
    BY <1>1, <2>1, <2>2, <2>3, BusPopped DEF FateInv, WriteInv, Awaited
  <2> QED
    BY <1>2, <1>4, <2>1, <2>2, <2>3, <2>4 DEF Awaited, WriteUnderWay
<1> QED
  BY <1>1, <1>2, <1>3, <1>4 DEF WriteUnderWay

(* A read that is served, and a frame that is lost, leave all writes alone. *)
LEMMA ReadOrLostFate ==
  ASSUME IInv, FateInv, ServeRead \/ LoseFrame
  PROVE  FateInv' /\ ContractStep
<1>1. InverterStep /\ applied' = applied
  BY DEF InverterStep, ServeRead, LoseFrame, history
<1>2. \A k \in DOMAIN rx' : Writes(rx'[k]) => k \in DOMAIN rx /\ rx'[k] = rx[k]
  <2>1. CASE LoseFrame
    BY <2>1 DEF LoseFrame
  <2>2. CASE ServeRead
    <3>1. PICK r : rx' = Append(rx, r) /\ ~Writes(r)
      <4>1. Head(bus) \in Request /\ ~Writes(Head(bus))
        BY <2>2, <1>1, ServedFate, BusPopped, BusFacts DEF ServeRead, Writes
      <4> QED
        BY <2>2, <4>1, AnswerFrame DEF ServeRead, Writes
    <3>2. rx \in Seq(SoundReply)
      BY DEF IInv, LinkInv
    <3> QED
      BY <3>1, <3>2, AppendFacts
  <2> QED
    BY <2>1, <2>2
<1>3. WriteInv'
  BY <1>1, ServedFate DEF WriteInv
<1>4. ReplyInv'
  <2>1. ~(pc' = "previous" /\ sent' /\ WriteUnderWay')
    BY <1>1, ServedFate DEF AwaitsWrite
  <2> QED
    BY <1>1, <1>2, <2>1, ServedFate DEF FateInv, ReplyInv
<1>5. AppliedInv' /\ ResultInv' /\ ContractStep
  BY <1>1, ServedFate DEF FateInv, AppliedInv, ResultInv, Unwritten, ContractStep
<1> QED
  BY <1>1, <1>3, <1>4, <1>5, ServedFate DEF FateInv

(* The answer to a write is its own: it is the last frame under way.       *)
LEMMA RefuseWriteFate ==
  ASSUME IInv, FateInv, RefuseWrite
  PROVE  FateInv' /\ ContractStep
<1>1. InverterStep /\ applied' = applied /\ Writes(Head(bus)) /\ Answered(Head(bus), "exception")
  BY DEF InverterStep, RefuseWrite, history, Writes
<1>2. PICK r : rx' = Append(rx, r) /\ r.form = "exception"
  <2>1. Head(bus) \in Request
    BY <1>1, ServedFate, BusPopped, BusFacts
  <2> QED
    BY <1>1, <2>1, AnswerFrame
<1>3. rx \in Seq(SoundReply)
  BY DEF IInv, LinkInv
<1>4. ~WriteUnderWay' /\ WriteInv'
  BY <1>1, ServedFate DEF WriteInv
<1>5. ReplyInv'
  <2> SUFFICES ASSUME AwaitsWrite, NEW k \in DOMAIN rx', Writes(rx'[k])
               PROVE  /\ rx'[k].form = "exception" => Serial \notin applied
                      /\ rx'[k].form = "data" => Serial \in applied /\ Echoes(WriteOf(cmd), rx'[k])
    BY <1>1, <1>4, ServedFate DEF ReplyInv, AwaitsWrite
  <2>1. 1 \in DOMAIN bus /\ Head(bus) = bus[1]
    BY <1>1, ServedFate, BusPopped
  <2>2. WriteUnderWay /\ Serial \notin applied
    BY <1>1, <2>1 DEF WriteUnderWay, FateInv, WriteInv, Awaited
  <2>3. k = Len(rx) + 1 /\ rx'[k] = r
    <3>1. k \in DOMAIN rx => rx'[k] # rx[k]
      BY <2>2 DEF FateInv, ReplyInv
    <3> QED
      BY <1>2, <1>3, <3>1, AppendFacts
  <2> QED
    BY <1>2, <2>2, <2>3
<1>6. AppliedInv' /\ ResultInv' /\ ContractStep
  BY <1>1, ServedFate DEF FateInv, AppliedInv, ResultInv, Unwritten, ContractStep
<1> QED
  BY <1>1, <1>4, <1>5, <1>6, ServedFate DEF FateInv

(* A write is performed once, for the command in hand or for one that was  *)
(* answered with its fate left open.                                       *)
LEMMA ServeWriteFate ==
  ASSUME IInv, FateInv, ServeWrite
  PROVE  FateInv' /\ ContractStep
<1> DEFINE q == Head(bus)
<1>1. /\ InverterStep /\ Writes(q) /\ applied' = applied \cup {q.by}
      /\ rx' = rx \/ \E form \in {"data", "garbled"} : Answered(q, form)
  BY DEF InverterStep, ServeWrite, Writes
<1>2. 1 \in DOMAIN bus /\ q = bus[1] /\ q \in Request /\ q.by \notin applied /\ q.by \in Nat
  BY <1>1, ServedFate, BusPopped, BusFacts DEF FateInv, WriteInv
<1>3. IF AwaitsWrite THEN Awaited(1) ELSE LeftOver(1)
  BY <1>1, <1>2 DEF FateInv, WriteInv
<1>4. ~WriteUnderWay' /\ WriteInv'
  <2>1. ~WriteUnderWay'
    BY <1>1, ServedFate
  <2> QED
    BY <2>1 DEF WriteUnderWay, WriteInv
<1> HIDE DEF q
<1>5. CASE AwaitsWrite
  <2>1. q = WriteOf(cmd) /\ q.by = Serial
    BY <1>2, <1>3, <1>5 DEF Awaited
  <2>2. cmd # NoCommand /\ ~Unwritten' /\ pc' # "previous"
    BY <1>1, <1>5, ServedFate DEF FateInv, PhaseInv, AwaitsWrite, CommandStep, Unwritten
  <2>3. ReplyInv'
    <3> SUFFICES ASSUME NEW k \in DOMAIN rx', Writes(rx'[k])
                 PROVE  rx'[k].form # "exception" /\ (rx'[k].form = "data" => Echoes(WriteOf(cmd), rx'[k]))
      BY <1>1, <1>4, <2>1, <2>2, ServedFate DEF ReplyInv
    <3>1. WriteUnderWay
      BY <1>1, <1>2 DEF WriteUnderWay
    <3>2. k \in DOMAIN rx => rx'[k] # rx[k]
      BY <1>5, <3>1 DEF FateInv, ReplyInv
    <3>3. PICK form \in {"data", "garbled"} : Answered(q, form)
      BY <1>1, <3>2
    <3>4. PICK r : /\ rx' = Append(rx, r) /\ r.form = form /\ r.first = q.first /\ r.count = q.count
                   /\ form = "data" /\ q.fn = "write_single" => r.values = q.values
      BY <1>2, <3>3, AnswerFrame
    <3>5. rx \in Seq(SoundReply)
      BY DEF IInv, LinkInv
    <3>6. rx'[k] = r
      BY <3>2, <3>4, <3>5, AppendFacts
    <3> QED
      BY <2>1, <3>4, <3>6 DEF Echoes
  <2>4. AppliedInv'
    <3>1. Serial \in 1 .. Serial /\ Serial' = Serial
      BY <1>1, BusFacts, ServedFate
    <3> QED
      BY <1>1, <2>1, <2>2, <3>1 DEF FateInv, AppliedInv
  <2>5. ResultInv'
    <3>1. Serial \notin DOMAIN log
      BY BusFacts
    <3> QED
      BY <1>1, <2>1, <3>1, ServedFate DEF FateInv, ResultInv
  <2>6. ContractStep
    BY <1>1, <1>2, <2>1, <2>2, ServedFate
    DEF ContractStep, Contract!Next, Contract!Perform, Contract!Serial, Serial
  <2> QED
    BY <1>1, <1>4, <2>3, <2>4, <2>5, <2>6, ServedFate DEF FateInv
<1>6. CASE ~AwaitsWrite
  <2>1. q.by \in DOMAIN log /\ Unsettled(log[q.by]) /\ q.by < Serial
    BY <1>2, <1>3, <1>6, BusFacts DEF LeftOver
  <2>2. log[q.by] \in Result
    BY <2>1, ElementOfSeq DEF IInv, ControlInv
  <2>3. ~Contract!Denies(log[q.by].kind, log[q.by].outcome)
        /\ log[q.by].outcome \in {"unknown", "communication_error"}
    BY <2>1, <2>2, UnsettledDeniesNothing
  <2>4. ReplyInv'
    BY <1>1, <1>4, <1>6, ServedFate DEF ReplyInv
  <2>5. AppliedInv'
    <3>1. q.by \in 1 .. Serial /\ Serial # q.by /\ Serial' = Serial
      BY <1>1, <2>1, BusFacts, ServedFate
    <3>2. UNCHANGED <<pc, sent, cmd>>
      BY <1>1, ServedFate
    <3> QED
      BY <1>1, <3>1, <3>2 DEF FateInv, AppliedInv, Unwritten
  <2>6. ResultInv'
    BY <1>1, <2>3, ServedFate DEF FateInv, ResultInv
  <2>7. ContractStep
    BY <1>1, <1>2, <2>1, <2>3, ServedFate
    DEF ContractStep, Contract!Next, Contract!PerformLate, Contract!Denies
  <2> QED
    BY <1>1, <1>4, <2>4, <2>5, <2>6, <2>7, ServedFate DEF FateInv
<1> QED
  BY <1>5, <1>6

(* Disconnections empty the bus; skipped answers were not the command's.   *)
LEMMA WireFate ==
  ASSUME IInv, FateInv, SkipReply \/ Disconnect
  PROVE  FateInv' /\ ContractStep
<1>1. UNCHANGED <<pc, sent, cmd, previous, log, applied>>
  BY DEF SkipReply, Disconnect, control, history
<1>2. WriteOf(cmd)' = WriteOf(cmd) /\ Serial' = Serial /\ AwaitsWrite' = AwaitsWrite
  BY <1>1 DEF WriteOf, Requested, Serial, AwaitsWrite
<1>3. PhaseInv' /\ AppliedInv' /\ ResultInv' /\ ContractStep
  BY <1>1, <1>2 DEF FateInv, PhaseInv, AppliedInv, ResultInv, Unwritten, ContractStep
<1>4. CASE Disconnect
  <2>1. bus' = <<>> /\ rx' = <<>> /\ connected' = FALSE
    BY <1>4 DEF Disconnect
  <2>2. Len(bus') = 0 /\ DOMAIN bus' = {} /\ DOMAIN rx' = {}
    BY <2>1
  <2> QED
    BY <1>1, <1>3, <2>1, <2>2, BusFacts DEF FateInv, BusInv, WriteInv, ReplyInv
<1>5. CASE SkipReply
  <2>1. rx # <<>> /\ rx' = Tail(rx) /\ UNCHANGED <<connected, bus>>
    BY <1>5 DEF SkipReply
  <2>2. \A k \in DOMAIN rx' : k + 1 \in DOMAIN rx /\ rx'[k] = rx[k + 1]
    <3>1. rx \in Seq(SoundReply)
      BY DEF IInv, LinkInv
    <3>2. Len(rx) \in Nat /\ DOMAIN rx = 1 .. Len(rx) /\ DOMAIN rx' = 1 .. Len(rx) - 1
          /\ \A k \in 1 .. Len(rx) - 1 : rx'[k] = rx[k + 1]
      BY <2>1, <3>1, HeadTailProperties, LenProperties
    <3> QED
      BY <3>2
  <2>3. BusInv' /\ WriteInv'
    BY <1>1, <1>2, <2>1 DEF FateInv, BusInv, WriteInv, Awaited, LeftOver
  <2>4. ReplyInv'
    BY <1>1, <1>2, <2>1, <2>2 DEF FateInv, ReplyInv, WriteUnderWay
  <2> QED
    BY <1>3, <2>3, <2>4 DEF FateInv
<1> QED
  BY <1>4, <1>5

-----------------------------------------------------------------------------
(*                      The end of a transaction                           *)

(* A published result agrees with what happened to the write.              *)
LEMMA PublishFate ==
  ASSUME IInv, FateInv, MaxLate <= 1, pc \in CommandStep, NEW o \in Outcome, Publish(o),
         sent' = FALSE, UNCHANGED <<connected, bus, applied>>, Len(bus) <= MaxLate,
         Contract!Denies(cmd.kind, o) => Serial \notin applied,
         o \in {"sent_unverifiable", "adjusted"} => Serial \in applied,
         AwaitsWrite /\ WriteUnderWay => Unsettled([kind |-> cmd.kind, outcome |-> o])
  PROVE  FateInv' /\ ContractStep
<1> DEFINE r == [kind |-> cmd.kind, outcome |-> o]
<1>1. /\ log' = Append(log, r) /\ pc' = "polling" /\ cmd' = NoCommand
      /\ cmd # NoCommand /\ cmd.kind \in {"semantic", "write_registers", "read_registers"}
  BY CommandKinds DEF Publish, PublishResult, FateInv, PhaseInv
<1>2. r \in Result
  BY <1>1 DEF Result
<1> HIDE DEF r
<1>3. PhaseInv' /\ BusInv'
  BY <1>1 DEF FateInv, PhaseInv, BusInv, CommandStep
<1>4. WriteInv'
  <2> SUFFICES ASSUME NEW i \in DOMAIN bus, Writes(bus[i])
               PROVE  bus[i].by \notin applied /\ LeftOver(i)'
    BY <1>1 DEF WriteInv, AwaitsWrite
  <2>1. bus[i].by \notin applied
    BY DEF FateInv, WriteInv
  <2>2. CASE AwaitsWrite
    <3>1. bus[i].by = Serial /\ i = 1
      BY <2>2, BusFacts DEF FateInv, WriteInv, Awaited
    <3>2. Serial \in DOMAIN log' /\ log'[Serial] = r
      BY <1>1, <1>2, LogGrows
    <3>3. Unsettled(r)
      BY <2>2 DEF WriteUnderWay, r
    <3> QED
      BY <1>1, <2>1, <3>1, <3>2, <3>3 DEF LeftOver
  <2>3. CASE ~AwaitsWrite
    <3>1. LeftOver(i)
      BY <2>3 DEF FateInv, WriteInv
    <3> QED
      BY <1>1, <1>2, <2>1, <3>1, LogGrows DEF LeftOver
  <2> QED
    BY <2>2, <2>3
<1>5. ReplyInv'
  BY <1>1 DEF ReplyInv, AwaitsWrite
<1>6. AppliedInv'
  <2>1. Serial' = Serial + 1 /\ Serial \in Nat
    BY <1>1, <1>2, LogGrows
  <2>2. applied \subseteq 1 .. Serial
    BY DEF FateInv, AppliedInv
  <2>3. applied \subseteq 1 .. Serial + 1 /\ Serial + 1 \notin applied
    BY <2>1, <2>2
  <2> QED
    BY <1>1, <2>1, <2>3 DEF AppliedInv
<1>7. ResultInv'
  BY <1>1, <1>2, LogGrows DEF FateInv, ResultInv, Contract!Denies, r
<1>8. Contract!Answer
  BY <1>1 DEF Contract!Answer, Contract!Serial, Serial, Outcome, r
<1> QED
  BY <1>3, <1>4, <1>5, <1>6, <1>7, <1>8 DEF FateInv, ContractStep, Contract!Next

(* The next transaction of the command: the write follows only when no     *)
(* other is left over, the read-back only when it was performed.           *)
LEMMA ProceedFate ==
  ASSUME IInv, FateInv, pc \in CommandStep \ {"read"}, NEW step \in {"write", "readback", "status"},
         Proceed(step), sent' = FALSE, UNCHANGED <<connected, bus, applied>>, Len(bus) <= MaxLate,
         AwaitsWrite \/ step = "write" => ~WriteUnderWay,
         step = "write" => Serial \notin applied, step = "readback" => Serial \in applied
  PROVE  FateInv' /\ ContractStep
<1>1. pc' = step /\ UNCHANGED <<cmd, log>> /\ Serial' = Serial /\ cmd # NoCommand
  BY DEF Proceed, Serial, FateInv, PhaseInv
<1>2. PhaseInv' /\ BusInv'
  BY <1>1 DEF FateInv, PhaseInv, BusInv, CommandStep
<1>3. WriteInv'
  <2> SUFFICES ASSUME NEW i \in DOMAIN bus, Writes(bus[i])
               PROVE  bus[i].by \notin applied /\ LeftOver(i)'
    BY DEF WriteInv, AwaitsWrite
  <2>1. ~AwaitsWrite /\ step # "write"
    BY DEF WriteUnderWay
  <2> QED
    BY <1>1, <2>1 DEF FateInv, WriteInv, LeftOver
<1>4. ReplyInv'
  BY <1>1 DEF ReplyInv, AwaitsWrite
<1>5. AppliedInv' /\ ResultInv' /\ ContractStep
  BY <1>1 DEF FateInv, AppliedInv, ResultInv, Unwritten, ContractStep
<1> QED
  BY <1>2, <1>3, <1>4, <1>5 DEF FateInv

(* What a transaction tells of a write: success means performed and a      *)
(* refusal means not performed, and then it is under way no more; a frame  *)
(* that was not transmitted was never under way.                           *)
SoundWrite(a) ==
  pc = "write" =>
    /\ a.status = "success" => Serial \in applied /\ ~WriteUnderWay
    /\ a.status = "exception_response" => Serial \notin applied /\ ~WriteUnderWay
    /\ a.status \notin {"echo_mismatch", "invalid_argument"}
    /\ a.status = "transmit_failed" => ~sent

LEMMA ConcludedFate ==
  ASSUME IInv, FateInv, MaxLate <= 1, pc \in BusStep, NEW a, Concluded(a), SoundWrite(a),
         pc = "previous" /\ Ok(a) => ~WriteUnderWay,
         sent' = FALSE, UNCHANGED <<connected, bus, applied>>, Len(bus) <= MaxLate
  PROVE  FateInv' /\ ContractStep
<1>1. pc \in CommandStep => cmd.kind \in {"semantic", "write_registers", "read_registers"}
  BY CommandKinds DEF FateInv, PhaseInv
<1>2. pc \in CommandStep \ {"read"} => cmd.kind \in {"semantic", "write_registers"}
  BY <1>1 DEF FateInv, PhaseInv
<1>3. {"confirmed", "communication_error", "expected_value_mismatch", "unknown", "adjusted", "rejected",
       "sent_unverifiable", "completed", "transition_pending"} \subseteq Outcome
  BY DEF Outcome, GuardOutcome
<1>4. \A k \in {"semantic", "write_registers"} :
        /\ \A o \in {"confirmed", "unknown", "adjusted", "sent_unverifiable", "completed", "transition_pending"} :
             ~Contract!Denies(k, o)
        /\ ~Contract!Denies("write_registers", "communication_error")
  BY DEF Contract!Denies, GuardOutcome
<1>5. CASE ReadDone(a)
  <2>1. pc = "read" /\ pc \in CommandStep /\ ~AwaitsWrite /\ Serial \notin applied
    BY <1>5 DEF ReadDone, CommandStep, AwaitsWrite, FateInv, AppliedInv, Unwritten
  <2>2. PICK o \in {"confirmed", "communication_error"} : Publish(o)
    BY <1>5 DEF ReadDone
  <2> QED
    BY <1>3, <2>1, <2>2, PublishFate
<1>6. CASE PreviousDone(a)
  <2>1. pc = "previous" /\ pc \in CommandStep \ {"read"} /\ ~AwaitsWrite /\ Serial \notin applied
    BY <1>6 DEF PreviousDone, CommandStep, AwaitsWrite, FateInv, AppliedInv, Unwritten
  <2>2. \/ \E o \in {"communication_error", "expected_value_mismatch", "confirmed"} : Publish(o)
        \/ Proceed("status") \/ (Ok(a) /\ Proceed("write"))
    BY <1>6 DEF PreviousDone
  <2>3. CASE \E o \in {"communication_error", "expected_value_mismatch", "confirmed"} : Publish(o)
    BY <1>3, <2>1, <2>3, PublishFate
  <2>4. CASE Proceed("status") \/ (Ok(a) /\ Proceed("write"))
    BY <2>1, <2>4, ProceedFate
  <2> QED
    BY <2>2, <2>3, <2>4
<1>7. CASE WriteDone(a)
  <2>1. pc = "write" /\ pc \in CommandStep \ {"read"}
    BY <1>7 DEF WriteDone, CommandStep
  <2>2. CASE ~Ok(a) /\ Publish(WriteFailure(cmd, a.status))
    <3> DEFINE o == WriteFailure(cmd, a.status)
    <3>1. o \in Outcome
      BY <1>3 DEF WriteFailure
    <3>2. Contract!Denies(cmd.kind, o) => Serial \notin applied
      <4>1. ~sent => Serial \notin applied
        BY <2>1 DEF FateInv, AppliedInv, Unwritten
      <4>2. a.status \in {"exception_response", "transmit_failed"} => Serial \notin applied
        BY <2>1, <4>1 DEF SoundWrite
      <4> QED
        BY <1>2, <1>4, <2>1, <4>2 DEF WriteFailure, SoundWrite
    <3>3. AwaitsWrite /\ WriteUnderWay => Unsettled([kind |-> cmd.kind, outcome |-> o])
      BY <1>2, <2>1 DEF WriteFailure, SoundWrite, Unsettled, AwaitsWrite
    <3>4. o \notin {"sent_unverifiable", "adjusted"}
      BY DEF WriteFailure
    <3> QED
      BY <2>1, <2>2, <3>1, <3>2, <3>3, <3>4, PublishFate
  <2>3. CASE Ok(a) /\ Publish("sent_unverifiable")
    BY <1>2, <1>3, <1>4, <2>1, <2>3, PublishFate DEF SoundWrite, Ok
  <2>4. CASE Ok(a) /\ Proceed("readback")
    BY <2>1, <2>4, ProceedFate DEF SoundWrite, Ok
  <2> QED
    BY <1>7, <2>2, <2>3, <2>4 DEF WriteDone
<1>8. CASE ReadbackDone(a)
  <2>1. pc = "readback" /\ pc \in CommandStep \ {"read"} /\ ~AwaitsWrite /\ Serial \in applied
    BY <1>8 DEF ReadbackDone, CommandStep, AwaitsWrite, FateInv, AppliedInv
  <2>2. \/ \E o \in {"unknown", "adjusted", "confirmed"} : Publish(o)
        \/ cmd.kind # "semantic" /\ Publish("communication_error")
        \/ Proceed("status")
    BY <1>8 DEF ReadbackDone
  <2>3. CASE \E o \in {"unknown", "adjusted", "confirmed"} : Publish(o)
    BY <1>2, <1>3, <1>4, <2>1, <2>3, PublishFate
  <2>4. CASE cmd.kind # "semantic" /\ Publish("communication_error")
    BY <1>2, <1>3, <1>4, <2>1, <2>4, PublishFate
  <2>5. CASE Proceed("status")
    BY <2>1, <2>5, ProceedFate
  <2> QED
    BY <2>2, <2>3, <2>4, <2>5
<1>9. CASE StatusDone(a)
  <2>1. pc = "status" /\ pc \in CommandStep \ {"read"} /\ ~AwaitsWrite
    BY <1>9 DEF StatusDone, CommandStep, AwaitsWrite
  <2>2. PICK o \in {"completed", "transition_pending"} : Publish(o)
    BY <1>9 DEF StatusDone
  <2> QED
    BY <1>2, <1>3, <1>4, <2>1, <2>2, PublishFate
<1>10. CASE PollDone(a)
  <2>1. pc = "poll" /\ pc' = "loop" /\ UNCHANGED <<cmd, previous, log>> /\ cmd = NoCommand
    BY <1>10 DEF PollDone, FateInv, PhaseInv, CommandStep
  <2>2. Serial' = Serial /\ PhaseInv' /\ BusInv'
    BY <2>1 DEF Serial, FateInv, PhaseInv, BusInv, CommandStep
  <2>3. WriteInv' /\ ReplyInv'
    BY <2>1 DEF FateInv, WriteInv, ReplyInv, AwaitsWrite, LeftOver
  <2>4. AppliedInv' /\ ResultInv' /\ ContractStep
    BY <2>1, <2>2 DEF FateInv, AppliedInv, ResultInv, Unwritten, ContractStep
  <2> QED
    BY <2>2, <2>3, <2>4 DEF FateInv
<1> QED
  BY <1>5, <1>6, <1>7, <1>8, <1>9, <1>10 DEF Concluded

(* However a transaction ends, its result tells the truth.                 *)
LEMMA EndFate ==
  ASSUME IInv, FateInv, MaxLate <= 1, SendFails \/ AcceptReply \/ TimeOut \/ NoticeDisconnect
  PROVE  FateInv' /\ ContractStep
<1>1. CASE SendFails
  <2>1. /\ pc \in BusStep /\ ~sent /\ sent' = FALSE /\ Concluded(Answer("transmit_failed", <<>>))
        /\ UNCHANGED <<connected, bus, applied>>
    BY <1>1 DEF SendFails, IInv, ControlInv
  <2>2. Len(bus) <= MaxLate
    BY <2>1 DEF FateInv, BusInv
  <2>3. SoundWrite(Answer("transmit_failed", <<>>)) /\ ~Ok(Answer("transmit_failed", <<>>))
    BY <2>1 DEF SoundWrite, Answer, Ok
  <2> QED
    BY <2>1, <2>2, <2>3, ConcludedFate
<1>2. CASE AcceptReply
  <2> DEFINE a == Judge(CurrentRequest, Head(rx))
  <2>1. /\ pc \in BusStep /\ sent /\ sent' = FALSE /\ Concluded(a) /\ rx # <<>>
        /\ Head(rx).fn = CurrentRequest.fn /\ UNCHANGED <<connected, bus, applied>>
    BY <1>2 DEF AcceptReply
  <2>2. Len(bus) <= MaxLate
    BY <2>1 DEF FateInv, BusInv
  <2>3. 1 \in DOMAIN rx /\ Head(rx) = rx[1] /\ rx[1] \in Reply
    BY <2>1, BusFacts, HeadTailProperties, ElementOfSeq DEF IInv, LinkInv, SoundReply
  <2>4. SoundWrite(a)
    <3> SUFFICES ASSUME pc = "write"
                 PROVE  /\ a.status = "success" => Serial \in applied /\ ~WriteUnderWay
                        /\ a.status = "exception_response" => Serial \notin applied /\ ~WriteUnderWay
                        /\ a.status \notin {"echo_mismatch", "invalid_argument", "transmit_failed"}
      BY DEF SoundWrite
    <3>1. CurrentRequest = WriteOf(cmd) /\ Writes(WriteOf(cmd))
      BY DEF CurrentRequest, WriteOf, Writes, ReadFunction
    <3>2. /\ ~WriteUnderWay
          /\ rx[1].form = "exception" => Serial \notin applied
          /\ rx[1].form = "data" => Serial \in applied /\ Echoes(WriteOf(cmd), rx[1])
      BY <2>1, <2>3, <3>1 DEF Writes, FateInv, ReplyInv, AwaitsWrite
    <3>3. rx[1].form \in {"data", "exception", "garbled"}
      BY <2>3 DEF Reply
    <3> QED
      BY <2>3, <3>1, <3>2, <3>3 DEF Judge, Answer, Writes
  <2>5. pc = "previous" /\ Ok(a) => ~WriteUnderWay
    <3>1. pc = "previous" => ~Writes(rx[1])
      BY <2>1, <2>3 DEF CurrentRequest, ReadOf, Writes, ReadFunction
    <3> QED
      BY <2>1, <2>3, <3>1 DEF FateInv, ReplyInv
  <2> HIDE DEF a
  <2> QED
    BY <2>1, <2>2, <2>4, <2>5, ConcludedFate
<1>3. CASE TimeOut
  <2>1. /\ pc \in BusStep /\ sent' = FALSE /\ Concluded(Answer("timeout", <<>>))
        /\ UNCHANGED <<connected, bus, applied>> /\ Len(bus) <= MaxLate
    BY <1>3 DEF TimeOut, link
  <2>2. SoundWrite(Answer("timeout", <<>>)) /\ ~Ok(Answer("timeout", <<>>))
    BY DEF SoundWrite, Answer, Ok
  <2> QED
    BY <2>1, <2>2, ConcludedFate
<1>4. CASE NoticeDisconnect
  <2>1. /\ pc \in BusStep /\ sent' = FALSE /\ Concluded(Answer("disconnected", <<>>))
        /\ UNCHANGED <<connected, bus, applied>> /\ ~connected
    BY <1>4 DEF NoticeDisconnect, link
  <2>2. SoundWrite(Answer("disconnected", <<>>)) /\ ~Ok(Answer("disconnected", <<>>))
    BY DEF SoundWrite, Answer, Ok
  <2>3. Len(bus) <= MaxLate
    BY <2>1, BusFacts DEF FateInv, BusInv
  <2> QED
    BY <2>1, <2>2, <2>3, ConcludedFate
<1> QED
  BY <1>1, <1>2, <1>3, <1>4

-----------------------------------------------------------------------------
(*                              The loop                                   *)

(* A refused command is never sent; an accepted one has not been yet.      *)
LEMMA TakeCommandFate ==
  ASSUME IInv, FateInv, MaxLate <= 1, NEW c \in Command, TakeCommand(c)
  PROVE  FateInv' /\ ContractStep
<1> DEFINE refusal == Refusal(c, CurrentSnapshot)
<1>1. /\ pc = "loop" /\ cmd = NoCommand /\ sent = FALSE /\ sent' = FALSE
      /\ UNCHANGED <<connected, bus, applied>> /\ ~AwaitsWrite /\ Serial \notin applied
  BY DEF TakeCommand, FateInv, PhaseInv, CommandStep, BusStep, IInv, ControlInv, link,
         AwaitsWrite, AppliedInv, Unwritten
<1>2. c \in RoutedCommand /\ c.kind \in {"semantic", "write_registers", "read_registers"} /\ c # NoCommand
  BY CommandAssumption, CommandKinds
<1>3. BusInv'
  BY <1>1 DEF FateInv, BusInv
<1>4. ReplyInv'
  BY <1>1 DEF ReplyInv, AwaitsWrite
<1>5. CASE refusal # "proceed" /\ PublishResult(c.kind, refusal)
  <2> DEFINE r == [kind |-> c.kind, outcome |-> refusal]
  <2>1. refusal \in GuardOutcome
    BY <1>2, <1>5, RefusalIsGuardOutcome
  <2>2. r \in Result /\ log' = Append(log, r) /\ pc' = "polling" /\ cmd' = NoCommand
    BY <1>2, <1>5, <2>1 DEF Result, Outcome, PublishResult
  <2>3. PhaseInv'
    BY <2>2 DEF PhaseInv, CommandStep
  <2> HIDE DEF refusal
  <2>4. Contract!Refuse
    BY <1>1, <1>2, <2>1, <2>2 DEF Contract!Refuse, r
  <2> HIDE DEF r
  <2>5. WriteInv'
    BY <1>1, <2>2, LogGrows DEF FateInv, WriteInv, AwaitsWrite, LeftOver
  <2>6. AppliedInv'
    <3>1. Serial' = Serial + 1 /\ Serial \in Nat /\ applied \subseteq 1 .. Serial
      BY <2>2, LogGrows DEF FateInv, AppliedInv
    <3>2. applied \subseteq 1 .. Serial + 1 /\ Serial + 1 \notin applied
      BY <3>1
    <3> QED
      BY <1>1, <2>2, <3>1, <3>2 DEF AppliedInv
  <2>7. ResultInv'
    BY <1>1, <2>2, LogGrows DEF FateInv, ResultInv, Contract!Denies
  <2> QED
    BY <1>3, <1>4, <2>3, <2>4, <2>5, <2>6, <2>7 DEF FateInv, ContractStep, Contract!Next
<1>6. CASE pc' = FirstStep(c) /\ cmd' = c /\ UNCHANGED <<previous, log>>
  <2>1. /\ FirstStep(c) \in {"read", "previous", "write"}
        /\ c.kind = "read_registers" => FirstStep(c) = "read"
        /\ FirstStep(c) = "write" => SkipsPreRead(c)
    BY DEF FirstStep
  <2>3. PhaseInv' /\ Serial' = Serial
    BY <1>2, <1>6, <2>1 DEF PhaseInv, CommandStep, Serial
  <2>4. WriteInv'
    BY <1>1, <1>6, <2>1 DEF FateInv, WriteInv, AwaitsWrite, LeftOver
  <2>5. AppliedInv' /\ ResultInv'
    BY <1>1, <1>6, <2>1, <2>3 DEF FateInv, AppliedInv, ResultInv
  <2>6. ContractStep
    BY <1>1, <1>2, <1>6 DEF ContractStep, Contract!Next, Contract!Take
  <2> QED
    BY <1>3, <1>4, <2>3, <2>4, <2>5, <2>6 DEF FateInv
<1> QED
  BY <1>5, <1>6 DEF TakeCommand

(* Between commands nothing is awaited.                                    *)
LEMMA LoopFate ==
  ASSUME IInv, FateInv,
         NoCommandWaiting \/ NothingDue \/ EndSession \/ BeginSession \/ (\E p \in PollRead : StartPoll(p))
  PROVE  FateInv' /\ ContractStep
<1>1. /\ pc \in {"loop", "polling", "down"} /\ pc' \in {"loop", "polling", "poll", "down"}
      /\ UNCHANGED <<sent, cmd, previous, log, applied>>
      /\ (bus' = <<>> /\ rx' = <<>>) \/ UNCHANGED <<connected, bus, rx>>
  BY DEF NoCommandWaiting, NothingDue, EndSession, BeginSession, StartPoll, history, link
<1>2. cmd = NoCommand /\ sent = FALSE /\ Serial' = Serial
  BY <1>1 DEF FateInv, PhaseInv, CommandStep, BusStep, IInv, ControlInv, Serial
<1>3. PhaseInv' /\ BusInv'
  BY <1>1, <1>2, BusFacts DEF FateInv, PhaseInv, BusInv, CommandStep
<1>4. WriteInv' /\ ReplyInv'
  BY <1>1, <1>2 DEF FateInv, WriteInv, ReplyInv, AwaitsWrite, LeftOver
<1>5. AppliedInv' /\ ResultInv' /\ ContractStep
  BY <1>1, <1>2 DEF FateInv, AppliedInv, ResultInv, Unwritten, ContractStep
<1> QED
  BY <1>3, <1>4, <1>5 DEF FateInv

LEMMA FateStep ==
  ASSUME IInv, FateInv, MaxLate <= 1, [Next]_vars, [UnpreparedWriteAlone]_vars
  PROVE  FateInv' /\ ContractStep
<1>1. CASE UNCHANGED vars \/ ChangeStatus \/ FrontPanel \/ Tick
  <2>1. UNCHANGED <<pc, sent, cmd, previous, connected, bus, rx, log, applied>>
    BY <1>1 DEF vars, ChangeStatus, FrontPanel, Tick, control, link, history
  <2> QED
    BY <2>1, FateUntouched
<1>2. CASE TaskStep /\ ~UNCHANGED vars
  <2>1. UnpreparedWriteAlone
    BY <1>2
  <2> QED
    BY <1>2, <2>1, SendFrameFate, EndFate, WireFate, TakeCommandFate, LoopFate DEF TaskStep
<1>3. CASE InverterStep
  BY <1>3, ReadOrLostFate, RefuseWriteFate, ServeWriteFate DEF InverterStep
<1>4. CASE Disconnect
  BY <1>4, WireFate
<1> QED
  BY <1>1, <1>2, <1>3, <1>4 DEF Next

LEMMA FateStart ==
  ASSUME Init
  PROVE  FateInv /\ Contract!Init
<1>1. /\ pc = "loop" /\ sent = FALSE /\ cmd = NoCommand /\ connected = TRUE
      /\ bus = <<>> /\ rx = <<>> /\ log = <<>> /\ applied = {}
  BY DEF Init
<1>2. Len(bus) = 0 /\ DOMAIN bus = {} /\ DOMAIN rx = {} /\ DOMAIN log = {}
  BY <1>1
<1>3. PhaseInv /\ BusInv
  BY <1>1, <1>2, TimingAssumption DEF PhaseInv, BusInv, CommandStep
<1>4. WriteInv /\ ReplyInv /\ AppliedInv /\ ResultInv
  BY <1>1, <1>2 DEF WriteInv, ReplyInv, AppliedInv, ResultInv
<1> QED
  BY <1>1, <1>3, <1>4 DEF FateInv, Contract!Init

-----------------------------------------------------------------------------
(*                    What a confirmation has seen                         *)

(* A read reply carries no address, so a late one would be taken for the   *)
(* answer to the next read of the same length: when a transaction times    *)
(* out, the inverter owes no answer to a holding read.                     *)
PromptHoldingReads == [][TimeOut => \A i \in DOMAIN bus : bus[i].fn # "read_holding"]_vars

(* The holding reads the inverter owes, the answers to them on their way,  *)
(* and whether the task waits for one.                                     *)
Owed       == {i \in DOMAIN bus : bus[i].fn = "read_holding"}
Received   == {k \in DOMAIN rx : rx[k].fn = "read_holding"}
AwaitsRead == pc \in BusStep /\ sent /\ CurrentRequest.fn = "read_holding"

(* There is at most one of either, and it answers the current request.     *)
OwedInv ==
  \A i \in Owed :
    /\ AwaitsRead /\ bus[i].first = CurrentRequest.first /\ bus[i].count = CurrentRequest.count
    /\ Owed = {i} /\ Received = {}

ReceivedInv ==
  \A k \in Received :
    /\ AwaitsRead /\ Received = {k}
    /\ rx[k].form = "data" /\ cmd # NoCommand => rx[k].values \in seen

(* What the task knows of the registers of its command was there.          *)
KnownInv ==
  /\ cmd # NoCommand => Contents(cmd, holding) \in seen
  /\ pc = "read" => cmd.kind = "read_registers"
  /\ pc = "readback" \/ (pc = "write" /\ ~SkipsPreRead(cmd)) => previous \in seen
  /\ pc = "status" => \E words \in seen : Fulfils(cmd, words)

WireInv == ~connected => bus = <<>> /\ rx = <<>>

SightInv == PhaseInv /\ WireInv /\ OwedInv /\ ReceivedInv /\ KnownInv

SeenWhenConfirmed == Confirms => \E words \in seen : Fulfils(cmd, words)

(* Setting or clearing the bit a second time changes nothing.              *)
LEMMA FeatureBitTwice ==
  ASSUME NEW w \in Word, NEW v
  PROVE  WithFeatureBit(WithFeatureBit(w, v), v) = WithFeatureBit(w, v)
<1>1. w \in Nat
  BY WordIsNatural
<1>2. PICK p \in Nat, b \in {0, 1}, r \in {0, 1} : w = 4 * p + 2 * b + r
  <2> DEFINE q == w \div 2
  <2>1. q \in Nat /\ (w = 2 * q \/ w = 2 * q + 1)
    BY <1>1
  <2>2. q \div 2 \in Nat /\ (q = 2 * (q \div 2) \/ q = 2 * (q \div 2) + 1)
    BY <2>1
  <2> HIDE DEF q
  <2>3. \E p \in Nat : q = 2 * p \/ q = 2 * p + 1
    BY <2>2
  <2> QED
    BY <2>1, <2>3
<1>3. ASSUME NEW p0 \in Nat, NEW b0 \in {0, 1}, NEW r0 \in {0, 1}
      PROVE  WithFeatureBit(4 * p0 + 2 * b0 + r0, v) = IF v = 1 THEN 4 * p0 + 2 + r0 ELSE 4 * p0 + r0
  <2>1. (4 * p0 + 2 * b0 + r0) \div 2 = 2 * p0 + b0
    OBVIOUS
  <2>2. (2 * p0 + b0) % 2 = b0
    OBVIOUS
  <2> QED
    BY <2>1, <2>2 DEF WithFeatureBit
<1>4. WithFeatureBit(w, v) = IF v = 1 THEN 4 * p + 2 * 1 + r ELSE 4 * p + 2 * 0 + r
  BY <1>2, <1>3
<1> QED
  BY <1>3, <1>4

(* A block that is read back as it was requested fulfils the command.      *)
LEMMA ReadBackFulfils ==
  ASSUME NEW c \in Command, NEW before \in Seq(Word), IsFeatureBit(c) => before # <<>>
  PROVE  Fulfils(c, Requested(c, before))
<1>1. CASE IsFeatureBit(c)
  <2>1. before[1] \in Word
    BY <1>1, EmptySeq, ElementOfSeq
  <2>2. Requested(c, before) = <<WithFeatureBit(before[1], c.value)>>
    BY <1>1 DEF Requested, IsFeatureBit
  <2> QED
    BY <1>1, <2>1, <2>2, FeatureBitTwice DEF Fulfils
<1>2. CASE ~IsFeatureBit(c)
  BY <1>2 DEF Fulfils, Requested
<1> QED
  BY <1>1, <1>2

(* So does a pre-read that finds the requested words already there.        *)
LEMMA PreReadFulfils ==
  ASSUME NEW c \in Command, NEW words, words = Requested(c, words)
  PROVE  Fulfils(c, words)
BY DEF Fulfils, Requested, IsFeatureBit

(* A result of a setter confirms only what was seen.                       *)
LEMMA PublishSight ==
  ASSUME IInv, SightInv, pc \in CommandStep, NEW o \in Outcome, Publish(o), sent' = FALSE,
         Owed' = {}, Received' = {}, WireInv',
         o \in {"confirmed", "completed"} /\ cmd.kind # "read_registers"
           => \E words \in seen : Fulfils(cmd, words)
  PROVE  SightInv' /\ SeenWhenConfirmed
<1>1. pc' = "polling" /\ cmd' = NoCommand /\ cmd # NoCommand
      /\ log' = Append(log, [kind |-> cmd.kind, outcome |-> o])
  BY DEF Publish, PublishResult, SightInv, PhaseInv
<1>2. [kind |-> cmd.kind, outcome |-> o] \in Result
  BY <1>1, CommandKinds DEF Result
<1>3. log'[Len(log')].outcome = o
  BY <1>1, <1>2, AppendProperties DEF IInv, ControlInv
<1>4. SeenWhenConfirmed
  BY <1>3 DEF SeenWhenConfirmed, Confirms
<1>5. PhaseInv' /\ KnownInv'
  BY <1>1 DEF PhaseInv, KnownInv, CommandStep
<1> QED
  BY <1>4, <1>5 DEF SightInv, OwedInv, ReceivedInv

(* The next transaction knows what the last one has seen.                  *)
LEMMA ProceedSight ==
  ASSUME IInv, SightInv, pc \in CommandStep \ {"read"}, NEW step \in {"write", "readback", "status"},
         Proceed(step), sent' = FALSE, Owed' = {}, Received' = {}, WireInv', holding' = holding,
         step \in {"write", "readback"} => previous' \in seen,
         step = "status" => \E words \in seen : Fulfils(cmd, words)
  PROVE  SightInv' /\ SeenWhenConfirmed
<1>1. pc' = step /\ UNCHANGED <<cmd, log, seen>> /\ cmd # NoCommand
  BY DEF Proceed, SightInv, PhaseInv
<1>2. SeenWhenConfirmed
  <2>1. Len(log) \in Nat
    BY BusFacts
  <2> QED
    BY <1>1, <2>1 DEF SeenWhenConfirmed, Confirms
<1>3. PhaseInv'
  BY <1>1 DEF SightInv, PhaseInv, CommandStep
<1>4. KnownInv'
  BY <1>1 DEF SightInv, KnownInv, Contents, Fulfils, Requested, IsFeatureBit
<1> QED
  BY <1>2, <1>3, <1>4 DEF SightInv, OwedInv, ReceivedInv

(* However a transaction of the task goes on, it claims only what it saw.  *)
LEMMA ConcludedSight ==
  ASSUME IInv, SightInv, pc \in BusStep, NEW a, SoundAnswer(a), Concluded(a), sent' = FALSE,
         Owed' = {}, Received' = {}, WireInv', holding' = holding,
         pc \in {"previous", "readback"} /\ Ok(a) => a.values \in seen
  PROVE  SightInv' /\ SeenWhenConfirmed
<1>1. {"confirmed", "communication_error", "expected_value_mismatch", "unknown", "adjusted", "rejected",
       "sent_unverifiable", "completed", "transition_pending"} \subseteq Outcome
  BY DEF Outcome, GuardOutcome
<1>2. ASSUME pc \in CommandStep PROVE cmd \in Command
  BY <1>2 DEF IInv, ControlInv
<1>3. CASE ReadDone(a)
  <2>1. pc = "read" /\ pc \in CommandStep /\ cmd.kind = "read_registers"
    BY <1>3 DEF ReadDone, CommandStep, SightInv, KnownInv
  <2>2. PICK o \in {"confirmed", "communication_error"} : Publish(o)
    BY <1>3 DEF ReadDone
  <2> QED
    BY <1>1, <2>1, <2>2, PublishSight
<1>4. CASE PreviousDone(a)
  <2>1. pc = "previous" /\ pc \in CommandStep \ {"read"} /\ cmd \in Command
    BY <1>2, <1>4 DEF PreviousDone, CommandStep
  <2>2. \/ \E o \in {"communication_error", "expected_value_mismatch"} : Publish(o)
        \/ Ok(a) /\ a.values = Requested(cmd, a.values) /\ (Publish("confirmed") \/ Proceed("status"))
        \/ Ok(a) /\ Proceed("write") /\ previous' = a.values
    BY <1>4 DEF PreviousDone
  <2>3. CASE \E o \in {"communication_error", "expected_value_mismatch"} : Publish(o)
    BY <1>1, <2>1, <2>3, PublishSight
  <2>4. CASE Ok(a) /\ a.values = Requested(cmd, a.values) /\ (Publish("confirmed") \/ Proceed("status"))
    <3>1. a.values \in seen /\ Fulfils(cmd, a.values)
      BY <2>1, <2>4, PreReadFulfils
    <3> QED
      BY <1>1, <2>1, <2>4, <3>1, PublishSight, ProceedSight
  <2>5. CASE Ok(a) /\ Proceed("write") /\ previous' = a.values
    BY <2>1, <2>5, ProceedSight
  <2> QED
    BY <2>2, <2>3, <2>4, <2>5
<1>5. CASE WriteDone(a)
  <2>1. pc = "write" /\ pc \in CommandStep \ {"read"}
    BY <1>5 DEF WriteDone, CommandStep
  <2>2. \/ \E o \in {"communication_error", "rejected", "unknown", "sent_unverifiable"} : Publish(o)
        \/ ~SkipsPreRead(cmd) /\ Proceed("readback") /\ UNCHANGED previous
    BY <1>5 DEF WriteDone, WriteFailure
  <2>3. CASE \E o \in {"communication_error", "rejected", "unknown", "sent_unverifiable"} : Publish(o)
    BY <1>1, <2>1, <2>3, PublishSight
  <2>4. CASE ~SkipsPreRead(cmd) /\ Proceed("readback") /\ UNCHANGED previous
    <3>1. previous' \in seen
      BY <2>1, <2>4 DEF SightInv, KnownInv
    <3> QED
      BY <2>1, <2>4, <3>1, ProceedSight
  <2> QED
    BY <2>2, <2>3, <2>4
<1>6. CASE ReadbackDone(a)
  <2>1. pc = "readback" /\ pc \in CommandStep \ {"read"} /\ cmd \in Command
    BY <1>2, <1>6 DEF ReadbackDone, CommandStep
  <2>2. \/ \E o \in {"unknown", "communication_error", "adjusted"} : Publish(o)
        \/ Ok(a) /\ a.values = Requested(cmd, previous) /\ (Publish("confirmed") \/ Proceed("status"))
    BY <1>6 DEF ReadbackDone
  <2>3. CASE \E o \in {"unknown", "communication_error", "adjusted"} : Publish(o)
    BY <1>1, <2>1, <2>3, PublishSight
  <2>4. CASE Ok(a) /\ a.values = Requested(cmd, previous) /\ (Publish("confirmed") \/ Proceed("status"))
    <3>1. previous \in Seq(Word) /\ (IsFeatureBit(cmd) => previous # <<>>)
      BY <2>1 DEF IInv, ControlInv, IsFeatureBit
    <3>2. a.values \in seen /\ Fulfils(cmd, a.values)
      BY <2>1, <2>4, <3>1, ReadBackFulfils
    <3> QED
      BY <1>1, <2>1, <2>4, <3>2, PublishSight, ProceedSight
  <2> QED
    BY <2>2, <2>3, <2>4
<1>7. CASE StatusDone(a)
  <2>1. pc = "status" /\ pc \in CommandStep /\ \E words \in seen : Fulfils(cmd, words)
    BY <1>7 DEF StatusDone, CommandStep, SightInv, KnownInv
  <2>2. PICK o \in {"completed", "transition_pending"} : Publish(o)
    BY <1>7 DEF StatusDone
  <2> QED
    BY <1>1, <2>1, <2>2, PublishSight
<1>8. CASE PollDone(a)
  <2>1. pc = "poll" /\ pc' = "loop" /\ UNCHANGED <<cmd, log>> /\ cmd = NoCommand
    BY <1>8 DEF PollDone, SightInv, PhaseInv, CommandStep
  <2>2. PhaseInv' /\ KnownInv' /\ SeenWhenConfirmed
    BY <2>1 DEF PhaseInv, KnownInv, SeenWhenConfirmed, Confirms, CommandStep
  <2> QED
    BY <2>2 DEF SightInv, OwedInv, ReceivedInv
<1> QED
  BY <1>3, <1>4, <1>5, <1>6, <1>7, <1>8 DEF Concluded

(* An answer that is taken for the pre-read or the read-back is one.       *)
LEMMA AcceptedSight ==
  ASSUME IInv, SightInv, AcceptReply
  PROVE  SightInv' /\ SeenWhenConfirmed
<1> DEFINE a == Judge(CurrentRequest, Head(rx))
<1>1. /\ pc \in BusStep /\ sent /\ connected /\ rx # <<>> /\ Head(rx).fn = CurrentRequest.fn
      /\ Concluded(a) /\ rx' = Tail(rx) /\ sent' = FALSE /\ UNCHANGED <<connected, bus, holding>>
  BY DEF AcceptReply, plant
<1>2. SoundAnswer(a)
  BY <1>1, JudgedAnswerIsSound
<1>3. /\ 1 \in DOMAIN rx /\ Head(rx) = rx[1] /\ rx[1] \in Reply
      /\ \A k \in DOMAIN rx' : k # 0 /\ k \in Nat /\ k + 1 \in DOMAIN rx /\ rx'[k] = rx[k + 1]
  <2>1. rx \in Seq(SoundReply)
    BY DEF IInv, LinkInv
  <2>2. Len(rx) \in Nat \ {0} /\ DOMAIN rx = 1 .. Len(rx) /\ DOMAIN rx' = 1 .. Len(rx) - 1
        /\ Head(rx) = rx[1] /\ \A k \in 1 .. Len(rx) - 1 : rx'[k] = rx[k + 1]
    BY <1>1, <2>1, HeadTailProperties, LenProperties, EmptySeq
  <2>3. rx[1] \in SoundReply
    BY <2>1, <2>2, ElementOfSeq
  <2> QED
    BY <2>2, <2>3 DEF SoundReply
<1>4. Received' = {}
  <2>1. ASSUME NEW k \in Received' PROVE FALSE
    <3>1. k + 1 \in Received /\ k + 1 # 1
      BY <1>3, <2>1 DEF Received
    <3>2. rx[1].fn = "read_holding"
      BY <1>1, <1>3, <3>1 DEF SightInv, ReceivedInv, AwaitsRead
    <3> QED
      BY <1>3, <3>1, <3>2 DEF SightInv, ReceivedInv, Received
  <2> QED
    BY <2>1
<1>5. Owed' = {}
  <2>1. Owed' = Owed
    BY <1>1 DEF Owed
  <2>2. ASSUME NEW i \in Owed PROVE FALSE
    BY <1>1, <1>3, <2>2 DEF SightInv, OwedInv, AwaitsRead, Received
  <2> QED
    BY <2>1, <2>2
<1>6. ASSUME pc \in {"previous", "readback"}, Ok(a) PROVE a.values \in seen
  <2>1. CurrentRequest.fn = "read_holding" /\ cmd # NoCommand
    BY <1>6 DEF CurrentRequest, ReadOf, SightInv, PhaseInv, CommandStep
  <2>2. 1 \in Received
    BY <1>1, <1>3, <2>1 DEF Received
  <2>3. rx[1].form = "data" /\ a.values = rx[1].values
    BY <1>3, <1>6, <2>1 DEF Judge, Answer, Ok, Reply, ReadFunction
  <2> QED
    BY <2>1, <2>2, <2>3 DEF SightInv, ReceivedInv
<1>7. WireInv'
  BY <1>1 DEF WireInv
<1> HIDE DEF a
<1> QED
  BY <1>1, <1>2, <1>4, <1>5, <1>6, <1>7, ConcludedSight

(* A transaction that ends without an answer leaves no holding read under  *)
(* way.                                                                    *)
LEMMA UnansweredSight ==
  ASSUME IInv, SightInv, SendFails \/ TimeOut \/ NoticeDisconnect,
         TimeOut => \A i \in DOMAIN bus : bus[i].fn # "read_holding"
  PROVE  SightInv' /\ SeenWhenConfirmed
<1>1. \A st : st # "success" => SoundAnswer(Answer(st, <<>>)) /\ ~Ok(Answer(st, <<>>))
  BY EmptySeq DEF SoundAnswer, Answer, Ok
<1>2. /\ pc \in BusStep /\ sent' = FALSE /\ UNCHANGED <<connected, bus, holding>>
      /\ \E st \in {"transmit_failed", "timeout", "disconnected"} : Concluded(Answer(st, <<>>))
      /\ rx' = <<>> \/ (rx' = rx /\ WireInv')
  BY DEF SendFails, TimeOut, NoticeDisconnect, link, plant, IInv, ControlInv, SightInv, WireInv
<1>3. rx' = <<>> /\ WireInv'
  BY <1>2 DEF SendFails, TimeOut, NoticeDisconnect, link, SightInv, WireInv
<1>4. Received' = {}
  BY <1>3 DEF Received
<1>5. Owed' = {}
  BY <1>2 DEF Owed, SendFails, TimeOut, NoticeDisconnect, SightInv, OwedInv, WireInv, AwaitsRead
<1>6. PICK st \in {"transmit_failed", "timeout", "disconnected"} : Concluded(Answer(st, <<>>))
  BY <1>2
<1>7. SoundAnswer(Answer(st, <<>>)) /\ ~Ok(Answer(st, <<>>))
  BY <1>1, <1>6
<1> QED
  BY <1>2, <1>3, <1>4, <1>5, <1>6, <1>7, ConcludedSight

(* The request in hand depends on these variables only.                    *)
LEMMA RequestUntouched ==
  ASSUME UNCHANGED <<pc, sent, cmd, poll, previous, log>>
  PROVE  CurrentRequest' = CurrentRequest /\ AwaitsRead' = AwaitsRead /\ (PhaseInv => PhaseInv')
BY DEF CurrentRequest, ReadOf, WriteOf, Requested, Serial, AwaitsRead, PhaseInv

(* A holding read leaves alone, and the receive stream is empty then.      *)
LEMMA SendFrameSight ==
  ASSUME IInv, SightInv, SendFrame
  PROVE  SightInv' /\ SeenWhenConfirmed
<1>1. /\ pc \in BusStep /\ ~sent /\ connected /\ sent' = TRUE /\ rx' = <<>>
      /\ bus' = Append(bus, CurrentRequest)
      /\ UNCHANGED <<pc, cmd, poll, previous, connected, holding, log, seen>>
  BY DEF SendFrame, plant
<1>2. CurrentRequest' = CurrentRequest /\ PhaseInv' /\ Serial' = Serial
  BY <1>1 DEF CurrentRequest, ReadOf, WriteOf, Requested, Serial, SightInv, PhaseInv
<1>3. bus \in Seq(SoundRequest)
  BY DEF IInv, LinkInv
<1>4. /\ Len(bus) + 1 \in DOMAIN bus' /\ bus'[Len(bus) + 1] = CurrentRequest
      /\ \A i \in DOMAIN bus' : i = Len(bus) + 1 \/ (i \in DOMAIN bus /\ bus'[i] = bus[i])
  BY <1>1, <1>3, BusFacts, AppendFacts
<1>5. \A i \in DOMAIN bus : bus[i].fn # "read_holding"
  BY <1>1 DEF SightInv, OwedInv, Owed, AwaitsRead
<1>6. Owed' \subseteq {Len(bus) + 1} /\ Received' = {}
  BY <1>1, <1>4, <1>5 DEF Owed, Received
<1>7. OwedInv'
  <2> SUFFICES ASSUME NEW i \in Owed' PROVE
        /\ AwaitsRead' /\ bus'[i].first = CurrentRequest'.first /\ bus'[i].count = CurrentRequest'.count
        /\ Owed' = {i} /\ Received' = {}
    BY DEF OwedInv
  <2>1. i = Len(bus) + 1 /\ bus'[i] = CurrentRequest /\ CurrentRequest.fn = "read_holding"
    BY <1>4, <1>6 DEF Owed
  <2> QED
    BY <1>1, <1>2, <1>6, <2>1 DEF AwaitsRead
<1>8. ReceivedInv' /\ WireInv'
  BY <1>1, <1>6 DEF ReceivedInv, WireInv
<1>9. KnownInv'
  BY <1>1 DEF SightInv, KnownInv, Contents, Fulfils, Requested
<1>10. SeenWhenConfirmed
  BY <1>1, BusFacts DEF SeenWhenConfirmed, Confirms
<1> QED
  BY <1>2, <1>7, <1>8, <1>9, <1>10 DEF SightInv

(* The registers change, and the contents of those of the command are      *)
(* noted.                                                                  *)
LEMMA PlantSight ==
  ASSUME IInv, SightInv, UNCHANGED <<pc, sent, cmd, poll, previous, log>>,
         (holding' = holding /\ seen' = seen) \/ NoteContents
  PROVE  /\ KnownInv' /\ PhaseInv' /\ SeenWhenConfirmed /\ seen \subseteq seen'
         /\ CurrentRequest' = CurrentRequest /\ AwaitsRead' = AwaitsRead
<1>1. seen \subseteq seen' /\ (cmd # NoCommand => Contents(cmd, holding') \in seen')
  BY DEF NoteContents, SightInv, KnownInv
<1>2. KnownInv'
  BY <1>1 DEF SightInv, KnownInv, Contents, Fulfils, Requested
<1>3. SeenWhenConfirmed
  BY BusFacts DEF SeenWhenConfirmed, Confirms
<1> QED
  BY <1>1, <1>2, <1>3, RequestUntouched DEF SightInv

(* Frames of the wire are lost or keep their order, the registers may      *)
(* change.                                                                 *)
LEMMA ShiftedSight ==
  ASSUME IInv, SightInv, UNCHANGED <<pc, sent, cmd, poll, previous, log>>,
         (holding' = holding /\ seen' = seen) \/ NoteContents, WireInv',
         NEW d \in {0, 1}, \A i \in Owed' : i + d \in Owed /\ i \in Nat /\ bus'[i] = bus[i + d],
         NEW e \in {0, 1}, \A k \in Received' : k + e \in Received /\ k \in Nat /\ rx'[k] = rx[k + e]
  PROVE  SightInv' /\ SeenWhenConfirmed
<1>1. /\ KnownInv' /\ PhaseInv' /\ SeenWhenConfirmed /\ seen \subseteq seen'
      /\ CurrentRequest' = CurrentRequest /\ AwaitsRead' = AwaitsRead
  BY PlantSight
<1>2. OwedInv'
  <2> SUFFICES ASSUME NEW i \in Owed' PROVE
        /\ AwaitsRead /\ bus'[i].first = CurrentRequest.first /\ bus'[i].count = CurrentRequest.count
        /\ Owed' = {i} /\ Received' = {}
    BY <1>1 DEF OwedInv
  <2>1. /\ AwaitsRead /\ bus'[i].first = CurrentRequest.first /\ bus'[i].count = CurrentRequest.count
        /\ Owed = {i + d} /\ Received = {} /\ i \in Nat
    BY DEF SightInv, OwedInv
  <2>2. Received' = {}
    BY <2>1
  <2>3. \A j \in Owed' : j = i
    BY <2>1
  <2> QED
    BY <2>1, <2>2, <2>3
<1>3. ReceivedInv'
  <2> SUFFICES ASSUME NEW k \in Received' PROVE
        /\ AwaitsRead /\ Received' = {k}
        /\ rx'[k].form = "data" /\ cmd # NoCommand => rx'[k].values \in seen'
    BY <1>1 DEF ReceivedInv
  <2>1. /\ AwaitsRead /\ Received = {k + e} /\ k \in Nat
        /\ rx'[k].form = "data" /\ cmd # NoCommand => rx'[k].values \in seen
    BY DEF SightInv, ReceivedInv
  <2>2. \A j \in Received' : j = k
    BY <2>1
  <2> QED
    BY <1>1, <2>1, <2>2
<1> QED
  BY <1>1, <1>2, <1>3 DEF SightInv

(* The frames that stay under way when the inverter takes the first one.   *)
LEMMA OwedAfterServing ==
  ASSUME IInv, SightInv, bus # <<>>, bus' = Tail(bus)
  PROVE  /\ \A i \in Owed' : i + 1 \in Owed /\ i \in Nat /\ bus'[i] = bus[i + 1]
         /\ Head(bus).fn = "read_holding" => 1 \in Owed /\ Owed' = {} /\ Received = {} /\ Head(bus) = bus[1]
<1>1. \A i \in Owed' : i + 1 \in Owed /\ i \in Nat \ {0} /\ bus'[i] = bus[i + 1]
  BY BusPopped DEF Owed
<1>2. ASSUME Head(bus).fn = "read_holding"
      PROVE  1 \in Owed /\ Owed' = {} /\ Received = {} /\ Head(bus) = bus[1]
  <2>1. 1 \in Owed /\ Head(bus) = bus[1]
    BY <1>2, BusPopped DEF Owed
  <2>2. Owed = {1} /\ Received = {}
    BY <2>1 DEF SightInv, OwedInv
  <2>3. \A i \in Owed' : FALSE
    BY <1>1, <2>2
  <2> QED
    BY <2>1, <2>2, <2>3
<1> QED
  BY <1>1, <1>2

(* The inverter answers a holding read with what the registers hold: the   *)
(* contents of the registers of the command, if one is in hand.            *)
LEMMA ServeHoldingSight ==
  ASSUME IInv, SightInv, ServeRead, Head(bus).fn = "read_holding"
  PROVE  SightInv' /\ SeenWhenConfirmed
<1>1. /\ bus # <<>> /\ bus' = Tail(bus) /\ connected' = connected
      /\ UNCHANGED <<pc, sent, cmd, poll, previous, log, holding, seen>>
  BY DEF ServeRead, control, plant, history
<1>2. 1 \in Owed /\ Owed' = {} /\ Received = {} /\ Head(bus) = bus[1]
  BY <1>1, OwedAfterServing
<1>3. /\ AwaitsRead /\ Head(bus).first = CurrentRequest.first
      /\ Head(bus).count = CurrentRequest.count
  BY <1>2 DEF SightInv, OwedInv
<1>4. PICK form \in {"data", "exception", "garbled"} : Answered(Head(bus), form)
  BY DEF ServeRead
<1>5. PICK r : /\ rx' = Append(rx, r) /\ r.fn = "read_holding" /\ r.form = form
               /\ form = "data" => r.values = Block(holding, Head(bus).first, Head(bus).count)
  <2> DEFINE block == Block(holding, Head(bus).first, Head(bus).count)
             words == CASE form # "data"                   -> <<>>
                        [] Head(bus).fn = "read_holding"   -> block
                        [] Head(bus).fn = "read_input"     -> IF Head(bus).first = 0 THEN <<status>> ELSE <<0>>
                        [] Head(bus).fn = "write_single"   -> Head(bus).values
                        [] Head(bus).fn = "write_multiple" -> <<>>
             r == [fn |-> Head(bus).fn, form |-> form, first |-> Head(bus).first,
                   count |-> Head(bus).count, values |-> words]
  <2>1. rx' = Append(rx, r)
    BY <1>4 DEF Answered
  <2>2. form = "data" => words = block
    OBVIOUS
  <2> HIDE DEF words, block
  <2> QED
    BY <2>1, <2>2 DEF block
<1>6. r.form = "data" /\ cmd # NoCommand => r.values \in seen
  <2> SUFFICES ASSUME r.form = "data", cmd # NoCommand PROVE r.values \in seen
    OBVIOUS
  <2>1. pc \in CommandStep /\ CurrentRequest.fn = "read_holding"
    BY <1>3 DEF SightInv, PhaseInv, AwaitsRead
  <2>2. pc # "status" /\ pc # "write" /\ pc # "poll"
    BY <2>1 DEF CurrentRequest, WriteOf, CommandStep
  <2>3. CurrentRequest.first = Target(cmd).first /\ CurrentRequest.count = Target(cmd).count
    BY <2>2 DEF CurrentRequest, ReadOf
  <2>4. r.values = Contents(cmd, holding)
    BY <1>3, <1>5, <2>3 DEF Contents
  <2> QED
    BY <2>4 DEF SightInv, KnownInv
<1>7. rx \in Seq(SoundReply)
  BY DEF IInv, LinkInv
<1>8. Received' = {Len(rx) + 1} /\ rx'[Len(rx) + 1] = r
  <2>1. /\ DOMAIN rx' = 1 .. Len(rx) + 1 /\ rx'[Len(rx) + 1] = r
        /\ \A k \in DOMAIN rx' : k = Len(rx) + 1 \/ (k \in DOMAIN rx /\ rx'[k] = rx[k])
    BY <1>5, <1>7, AppendFacts
  <2>2. Len(rx) + 1 \in DOMAIN rx'
    BY <2>1, BusFacts
  <2>3. \A k \in Received' : k = Len(rx) + 1
    BY <1>2, <2>1 DEF Received
  <2> QED
    BY <1>5, <2>1, <2>2, <2>3 DEF Received
<1>9. /\ KnownInv' /\ PhaseInv' /\ SeenWhenConfirmed /\ AwaitsRead' = AwaitsRead
  BY <1>1, PlantSight
<1>10. OwedInv' /\ ReceivedInv'
  BY <1>1, <1>2, <1>3, <1>6, <1>8, <1>9 DEF OwedInv, ReceivedInv
<1>11. WireInv'
  BY <1>1 DEF SightInv, WireInv
<1> QED
  BY <1>9, <1>10, <1>11 DEF SightInv

(* Whatever else the inverter does, no answer to a holding read is added.  *)
LEMMA InverterSight ==
  ASSUME IInv, SightInv, InverterStep
  PROVE  SightInv' /\ SeenWhenConfirmed
<1>1. CASE ServeRead /\ Head(bus).fn = "read_holding"
  BY <1>1, ServeHoldingSight
<1>2. CASE ~(ServeRead /\ Head(bus).fn = "read_holding")
  <2>1. /\ bus # <<>> /\ bus' = Tail(bus) /\ connected' = connected
        /\ UNCHANGED <<pc, sent, cmd, poll, previous, log>>
        /\ (holding' = holding /\ seen' = seen) \/ NoteContents
    BY DEF InverterStep, ServeRead, ServeWrite, RefuseWrite, LoseFrame, control, plant, history
  <2>2. rx' = rx \/ \E form \in {"data", "exception", "garbled"} :
                      Answered(Head(bus), form) /\ Head(bus).fn # "read_holding"
    BY <1>2 DEF InverterStep, ServeRead, ServeWrite, RefuseWrite, LoseFrame, ReadFunction
  <2>3. \A k \in Received' : k + 0 \in Received /\ k \in Nat /\ rx'[k] = rx[k + 0]
    <3>1. \A k \in DOMAIN rx : k + 0 = k /\ k \in Nat
      BY BusFacts
    <3>2. CASE rx' = rx
      BY <3>1, <3>2 DEF Received
    <3>3. CASE rx' # rx
      <4>1. PICK form \in {"data", "exception", "garbled"} :
              Answered(Head(bus), form) /\ Head(bus).fn # "read_holding"
        BY <2>2, <3>3
      <4>2. Head(bus) \in Request
        BY <2>1, BusPopped, BusFacts
      <4>3. PICK r : rx' = Append(rx, r) /\ r.fn # "read_holding"
        BY <4>1, <4>2, AnswerFrame
      <4>4. rx \in Seq(SoundReply)
        BY DEF IInv, LinkInv
      <4>5. \A k \in DOMAIN rx' : rx'[k] = r \/ (k \in DOMAIN rx /\ rx'[k] = rx[k])
        BY <4>3, <4>4, AppendFacts
      <4> QED
        BY <3>1, <4>3, <4>5 DEF Received
    <3> QED
      BY <3>2, <3>3
  <2>4. WireInv'
    BY <2>1 DEF SightInv, WireInv
  <2>5. \A i \in Owed' : i + 1 \in Owed /\ i \in Nat /\ bus'[i] = bus[i + 1]
    BY <2>1, OwedAfterServing
  <2> QED
    BY <2>1, <2>3, <2>4, <2>5, ShiftedSight
<1> QED
  BY <1>1, <1>2

(* Skipped answers, the plug, the status, the front panel and time.        *)
LEMMA EnvironmentSight ==
  ASSUME IInv, SightInv,
         SkipReply \/ Disconnect \/ ChangeStatus \/ FrontPanel \/ Tick \/ UNCHANGED vars
  PROVE  SightInv' /\ SeenWhenConfirmed
<1>1. /\ UNCHANGED <<pc, sent, cmd, poll, previous, log>>
      /\ (holding' = holding /\ seen' = seen) \/ NoteContents
  BY DEF SkipReply, Disconnect, ChangeStatus, FrontPanel, Tick, vars, control, plant, history
<1>2. /\ \A i \in DOMAIN bus : i + 0 = i /\ i \in Nat
      /\ \A k \in DOMAIN rx : k + 0 = k /\ k \in Nat
  BY BusFacts
<1>3. CASE Disconnect
  <2>1. bus' = <<>> /\ rx' = <<>>
    BY <1>3 DEF Disconnect
  <2>2. Owed' = {} /\ Received' = {} /\ WireInv'
    BY <2>1 DEF Owed, Received, WireInv
  <2> QED
    BY <1>1, <2>2, ShiftedSight
<1>4. CASE SkipReply
  <2>1. rx # <<>> /\ rx' = Tail(rx) /\ UNCHANGED <<connected, bus>>
    BY <1>4 DEF SkipReply
  <2>2. \A k \in DOMAIN rx' : k + 1 \in DOMAIN rx /\ k \in Nat /\ rx'[k] = rx[k + 1]
    <3>1. rx \in Seq(SoundReply)
      BY DEF IInv, LinkInv
    <3>2. Len(rx) \in Nat /\ DOMAIN rx = 1 .. Len(rx) /\ DOMAIN rx' = 1 .. Len(rx) - 1
          /\ \A k \in 1 .. Len(rx) - 1 : rx'[k] = rx[k + 1]
      BY <2>1, <3>1, HeadTailProperties, LenProperties
    <3> QED
      BY <3>2
  <2>3. \A k \in Received' : k + 1 \in Received /\ k \in Nat /\ rx'[k] = rx[k + 1]
    BY <2>2 DEF Received
  <2>4. \A i \in Owed' : i + 0 \in Owed /\ i \in Nat /\ bus'[i] = bus[i + 0]
    BY <1>2, <2>1 DEF Owed
  <2>5. WireInv'
    BY <2>1 DEF SightInv, WireInv
  <2> QED
    BY <1>1, <2>3, <2>4, <2>5, ShiftedSight
<1>5. CASE ChangeStatus \/ FrontPanel \/ Tick \/ UNCHANGED vars
  <2>1. UNCHANGED <<connected, bus, rx>>
    BY <1>5 DEF ChangeStatus, FrontPanel, Tick, vars, link
  <2>2. \A i \in Owed' : i + 0 \in Owed /\ i \in Nat /\ bus'[i] = bus[i + 0]
    BY <1>2, <2>1 DEF Owed
  <2>3. \A k \in Received' : k + 0 \in Received /\ k \in Nat /\ rx'[k] = rx[k + 0]
    BY <1>2, <2>1 DEF Received
  <2>4. WireInv'
    BY <2>1 DEF SightInv, WireInv
  <2> QED
    BY <1>1, <2>2, <2>3, <2>4, ShiftedSight
<1> QED
  BY <1>3, <1>4, <1>5

(* Between transactions no holding read is under way.                      *)
LEMMA LoopSight ==
  ASSUME IInv, SightInv,
         \/ NoCommandWaiting \/ NothingDue \/ EndSession \/ BeginSession
         \/ (\E p \in PollRead : StartPoll(p)) \/ (\E c \in Command : TakeCommand(c))
  PROVE  SightInv' /\ SeenWhenConfirmed
<1>1. /\ pc \in {"loop", "polling", "down"} /\ holding' = holding /\ sent' = sent
      /\ (bus' = <<>> /\ rx' = <<>>) \/ UNCHANGED <<connected, bus, rx>>
  BY DEF NoCommandWaiting, NothingDue, EndSession, BeginSession, StartPoll, TakeCommand,
         plant, link
<1>2. cmd = NoCommand /\ ~sent
  BY <1>1 DEF SightInv, PhaseInv, CommandStep, BusStep, IInv, ControlInv
<1>3. Owed' = {} /\ Received' = {} /\ WireInv'
  BY <1>1, <1>2 DEF Owed, Received, SightInv, WireInv, OwedInv, ReceivedInv, AwaitsRead
<1>4. OwedInv' /\ ReceivedInv' /\ SeenWhenConfirmed
  BY <1>2, <1>3 DEF OwedInv, ReceivedInv, SeenWhenConfirmed, Confirms
<1>5. CASE cmd' = NoCommand /\ pc' \in {"loop", "polling", "down", "poll"}
  BY <1>3, <1>4, <1>5 DEF SightInv, PhaseInv, KnownInv, CommandStep
<1>6. CASE \E c \in Command : pc' = FirstStep(c) /\ cmd' = c /\ seen' = {Contents(c, holding)}
  <2>1. PICK c \in Command : pc' = FirstStep(c) /\ cmd' = c /\ seen' = {Contents(c, holding)}
    BY <1>6
  <2>2. /\ FirstStep(c) \in {"read", "previous", "write"} /\ c # NoCommand
        /\ FirstStep(c) = "read" <=> c.kind = "read_registers"
        /\ FirstStep(c) = "write" => SkipsPreRead(c)
    BY CommandKinds DEF FirstStep
  <2>3. PhaseInv'
    BY <2>1, <2>2 DEF PhaseInv, CommandStep
  <2>4. KnownInv'
    BY <1>1, <2>1, <2>2 DEF KnownInv, SkipsPreRead, IsWriteOnly, Contents, Target
  <2> QED
    BY <1>3, <1>4, <2>3, <2>4 DEF SightInv
<1>7. \/ cmd' = NoCommand /\ pc' \in {"loop", "polling", "down", "poll"}
      \/ \E c \in Command : pc' = FirstStep(c) /\ cmd' = c /\ seen' = {Contents(c, holding)}
  BY <1>2 DEF NoCommandWaiting, NothingDue, EndSession, BeginSession, StartPoll, TakeCommand, PublishResult
<1> QED
  BY <1>5, <1>6, <1>7

LEMMA SightStep ==
  ASSUME IInv, SightInv, [Next]_vars, TimeOut => \A i \in DOMAIN bus : bus[i].fn # "read_holding"
  PROVE  SightInv' /\ SeenWhenConfirmed
BY SendFrameSight, AcceptedSight, UnansweredSight, InverterSight, EnvironmentSight, LoopSight
DEF Next, TaskStep

LEMMA SightStart ==
  ASSUME Init
  PROVE  SightInv
<1>1. /\ pc = "loop" /\ cmd = NoCommand /\ connected = TRUE /\ bus = <<>> /\ rx = <<>>
  BY DEF Init
<1>2. Owed = {} /\ Received = {}
  BY <1>1 DEF Owed, Received
<1> QED
  BY <1>1, <1>2 DEF SightInv, PhaseInv, WireInv, OwedInv, ReceivedInv, KnownInv, CommandStep

(* The words of a feature-bit write are those of the pre-read but for one  *)
(* bit.                                                                    *)
LEMMA FeatureWriteWasSeen ==
  ASSUME SightInv, WriteLeaves, IsFeatureBit(cmd)
  PROVE  \E words \in seen : WriteOf(cmd).values = <<WithFeatureBit(words[1], cmd.value)>>
<1>1. previous \in seen
  BY DEF SightInv, KnownInv, WriteLeaves, IsFeatureBit, SkipsPreRead
<1>2. WriteOf(cmd).values = <<WithFeatureBit(previous[1], cmd.value)>>
  BY DEF WriteOf, Requested, IsFeatureBit
<1> QED
  BY <1>1, <1>2

-----------------------------------------------------------------------------
(*                              Theorems                                   *)

(* Whatever the inverter, the adapter and the front panel do, the result   *)
(* published for a command agrees with whether its write was performed,    *)
(* and a write takes effect after its result only when that result left    *)
(* it open: the task implements the contract, for any number of commands   *)
(* one after the other.  Two things can break it: a second frame that is   *)
(* performed after its reply window, and an H65 or H66 that is sent while  *)
(* an earlier write is still under way.                                    *)
THEOREM TaskImplementsContract == ASSUME MaxLate <= 1 PROVE Spec /\ UnpreparedWritesAlone => ContractSpec
<1>1. Init => IInv /\ FateInv /\ Contract!Init
  BY InitEstablishesInv, FateStart
<1>2. IInv /\ FateInv /\ [Next]_vars /\ [UnpreparedWriteAlone]_vars
        => (IInv /\ FateInv)' /\ [Contract!Next]_<<cmd # NoCommand, log, applied>>
  BY StepKeepsInv, FateStep DEF ContractStep
<1> QED
  BY <1>1, <1>2, PTL DEF Spec, UnpreparedWritesAlone, ContractSpec, Contract!Spec, Contract!vars

(* A refusal, a "rejected" or a semantic "communication_error" is final:   *)
(* under the same two conditions the write of such a command is never      *)
(* performed, neither before its result nor through a frame under way.     *)
THEOREM RefusedStaysUnwritten == ASSUME MaxLate <= 1 PROVE Spec /\ UnpreparedWritesAlone => []RefusedNeverWritten
<1>1. Init => IInv /\ FateInv
  BY InitEstablishesInv, FateStart
<1>2. IInv /\ FateInv /\ [Next]_vars /\ [UnpreparedWriteAlone]_vars => (IInv /\ FateInv)'
  BY StepKeepsInv, FateStep
<1>3. FateInv => RefusedNeverWritten
  BY DEF FateInv, ResultInv, RefusedNeverWritten, Contract!Denies
<1> QED
  BY <1>1, <1>2, <1>3, PTL DEF Spec, UnpreparedWritesAlone

(* PromptHoldingReads is met by an inverter that answers within the reply  *)
(* window or not at all.                                                   *)
LEMMA PromptInverter == ASSUME MaxLate = 0 PROVE Spec => PromptHoldingReads
<1>1. IInv /\ [Next]_vars => [TimeOut => \A i \in DOMAIN bus : bus[i].fn # "read_holding"]_vars
  <2> SUFFICES ASSUME IInv, TimeOut, NEW i \in DOMAIN bus PROVE FALSE
    OBVIOUS
  <2>1. Len(bus) <= 0
    BY DEF TimeOut
  <2> QED
    BY <2>1, BusFacts
<1> QED
  BY <1>1, InductiveInvariant, PTL DEF Spec, PromptHoldingReads

(* If the inverter answers holding reads within the reply window or not at *)
(* all, a setter reported as confirmed or completed found, or left, the    *)
(* requested value in the registers at some moment while it ran, whatever  *)
(* the front panel did meanwhile.                                          *)
THEOREM ConfirmedIsSeen == Spec /\ PromptHoldingReads => ConfirmedWasSeen
<1>1. Init => IInv /\ SightInv
  BY InitEstablishesInv, SightStart
<1>2. /\ IInv /\ SightInv /\ [Next]_vars
      /\ [TimeOut => \A i \in DOMAIN bus : bus[i].fn # "read_holding"]_vars
      => (IInv /\ SightInv)' /\ [Confirms => \E words \in seen : Fulfils(cmd, words)]_vars
  <2> SUFFICES ASSUME IInv, SightInv, [Next]_vars,
                      [TimeOut => \A i \in DOMAIN bus : bus[i].fn # "read_holding"]_vars
               PROVE  (IInv /\ SightInv)' /\ [Confirms => \E words \in seen : Fulfils(cmd, words)]_vars
    OBVIOUS
  <2>1. CASE UNCHANGED vars
    BY <2>1, StepKeepsInv, EnvironmentSight DEF SeenWhenConfirmed
  <2>2. CASE TimeOut => \A i \in DOMAIN bus : bus[i].fn # "read_holding"
    BY <2>2, StepKeepsInv, SightStep DEF SeenWhenConfirmed
  <2> QED
    BY <2>1, <2>2
<1> QED
  BY <1>1, <1>2, PTL DEF Spec, PromptHoldingReads, ConfirmedWasSeen

(* Under the same condition the read-modify-write of the feature word      *)
(* (H201) writes back bits that H201 really held while the command ran.    *)
THEOREM FeatureBitsAreKept == Spec /\ PromptHoldingReads => FeatureBitIsolated
<1>1. Init => IInv /\ SightInv
  BY InitEstablishesInv, SightStart
<1>2. /\ IInv /\ SightInv /\ [Next]_vars
      /\ [TimeOut => \A i \in DOMAIN bus : bus[i].fn # "read_holding"]_vars
      => (IInv /\ SightInv)'
  <2> SUFFICES ASSUME IInv, SightInv, [Next]_vars,
                      [TimeOut => \A i \in DOMAIN bus : bus[i].fn # "read_holding"]_vars
               PROVE  (IInv /\ SightInv)'
    OBVIOUS
  <2>1. CASE UNCHANGED vars
    BY <2>1, StepKeepsInv, EnvironmentSight
  <2>2. CASE TimeOut => \A i \in DOMAIN bus : bus[i].fn # "read_holding"
    BY <2>2, StepKeepsInv, SightStep
  <2> QED
    BY <2>1, <2>2
<1>3. SightInv => [WriteLeaves /\ IsFeatureBit(cmd) =>
                     \E words \in seen : WriteOf(cmd).values = <<WithFeatureBit(words[1], cmd.value)>>]_vars
  BY FeatureWriteWasSeen
<1> QED
  BY <1>1, <1>2, <1>3, PTL DEF Spec, PromptHoldingReads, FeatureBitIsolated
=============================================================================
