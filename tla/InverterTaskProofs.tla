------------------------- MODULE InverterTaskProofs -------------------------
(***************************************************************************)
(* Type correctness of the inverter task and the evidence behind every     *)
(* write that needs a stopped inverter, for every catalog, every set of    *)
(* commands and polls, and every value of the timing constants.            *)
(***************************************************************************)
EXTENDS InverterTask, CommandGuardsProofs, SequenceTheorems

-----------------------------------------------------------------------------
(*                      The inductive invariant                            *)

(* A write frame carries exactly the words it announces, and a data reply  *)
(* to a read carries at least one.                                         *)
SoundRequest == {q \in Request : q.fn \notin ReadFunction => Len(q.values) = q.count}
SoundReply   == {r \in Reply : r.form = "data" /\ r.fn \in ReadFunction => r.values # <<>>}

(* The command in hand has passed its checks.                              *)
Fits(c) == IF c.kind = "semantic" THEN c.value \in 0 .. 5 ELSE IsWellFormed(c)

ControlInv ==
  /\ pc \in Step /\ sent \in BOOLEAN
  /\ cmd \in Command \cup {NoCommand} /\ poll \in PollRead \cup {NoPoll}
  /\ previous \in Seq(Word)
  /\ polled \in [known : BOOLEAN, state : OperatingState]
  /\ age \in 0 .. AgeCap
  /\ log \in Seq(Result) /\ seen \subseteq Seq(Word) /\ wrote \in BOOLEAN
  /\ sent => pc \in BusStep
  /\ pc \in CommandStep => cmd \in Command /\ Fits(cmd)
  /\ pc = "poll" => poll \in PollRead
  /\ pc \in {"write", "readback"} /\ cmd.kind = "semantic" => previous # <<>>
  /\ cmd # NoCommand => cmd \in Command /\ Fits(cmd)

LinkInv ==
  /\ slot \in 0 .. SlotCap
  /\ commanded \in BOOLEAN /\ connected \in BOOLEAN
  /\ bus \in Seq(SoundRequest) /\ rx \in Seq(SoundReply)
  /\ holding \in [DOMAIN HoldingCatalog -> Word] /\ status \in Word
  /\ applied \subseteq Nat

(* How old the status behind a command may be before its write leaves: the *)
(* freshness limit when it was taken, one command slot until the pre-read  *)
(* leaves, and the time since.                                             *)
Deadline ==
  IF pc = "previous" /\ ~sent
  THEN Freshness + (IF slot <= Gap THEN slot ELSE Gap)
  ELSE Freshness + Gap + slot

BeforeWrite == pc = "previous" \/ (pc = "write" /\ ~sent)

Evidence ==
  BeforeWrite /\ NeedsStopped(cmd) =>
    /\ polled.known /\ polled.state \in {"standby", "stopped"}
    /\ age <= Deadline

IInv == ControlInv /\ LinkInv /\ Evidence

-----------------------------------------------------------------------------
(*                        Lemmas on the helpers                            *)

(* The caps of the two clocks.                                             *)
LEMMA CapsAreNatural ==
  /\ SlotCap \in Nat /\ Gap <= SlotCap /\ ReplyWindow <= SlotCap
  /\ EvidenceBound \in Nat /\ EvidenceBound = Freshness + Gap + SlotCap
  /\ AgeCap \in Nat /\ AgeCap = EvidenceBound + 1
BY TimingAssumption DEF SlotCap, EvidenceBound, AgeCap, Larger

(* What the proofs need to know of the numbers 65535, 125 and 24.          *)
LEMMA BoundsOfWords == MaxWord \in Nat /\ MaxWord >= 231 /\ MaxRead \in Nat /\ MaxRead >= MaxWords
                        /\ MaxWords \in Nat /\ MaxWords >= 1
BY DEF MaxWord, MaxRead, MaxWords

(* Clearing or setting bit 1 of a word gives a word.                       *)
LEMMA FeatureBitIsWord ==
  ASSUME NEW w \in Word, NEW v
  PROVE  WithFeatureBit(w, v) \in Word
<1> DEFINE q == w \div 2
           b == q % 2
<1>1. MaxWord \in Nat /\ MaxWord <= 65535 /\ MaxWord >= 65535
  BY DEF MaxWord
<1>2. w \in Nat /\ w <= 65535
  BY <1>1 DEF Word
<1>3. q \in Int /\ 2 * q <= w /\ w <= 2 * q + 1
  BY <1>2
<1>4. b \in {0, 1} /\ (q = 32767 => b = 1) /\ (q = 0 => b = 0)
  BY <1>3
<1>5. WithFeatureBit(w, v) = IF v = 1 THEN w - 2 * b + 2 ELSE w - 2 * b
  BY DEF WithFeatureBit
<1> HIDE DEF q, b
<1>6. w - 2 * b \in Nat /\ w - 2 * b <= 65535
  BY <1>2, <1>3, <1>4
<1>7. w - 2 * b + 2 \in Nat /\ w - 2 * b + 2 <= 65535
  BY <1>2, <1>3, <1>4
<1>8. w - 2 * b \in Word /\ w - 2 * b + 2 \in Word
  BY <1>1, <1>6, <1>7 DEF Word
<1> QED BY <1>5, <1>8

(* A block of holding registers is a sequence of words.                    *)
LEMMA BlockIsWords ==
  ASSUME NEW registers \in [DOMAIN HoldingCatalog -> Word], NEW first \in Nat, NEW count \in Nat
  PROVE  /\ Block(registers, first, count) \in Seq(Word)
         /\ count > 0 => Block(registers, first, count) # <<>>
<1>1. Block(registers, first, count) \in [1 .. count -> Word]
  <2>1. 0 \in Word
    BY BoundsOfWords DEF Word
  <2> QED BY <2>1 DEF Block
<1>2. Block(registers, first, count) \in Seq(Word)
  BY <1>1, SeqDef
<1>3. ASSUME count > 0
      PROVE  Block(registers, first, count) # <<>>
  BY <1>1, <1>3
<1> QED BY <1>2, <1>3

(* A command names a block of registers that a frame can carry.            *)
LEMMA TargetIsBlock ==
  ASSUME NEW c \in Command
  PROVE  /\ Target(c).first \in Word /\ Target(c).first \in Nat /\ Target(c).count \in Nat
         /\ Fits(c) => Target(c).count \in 1 .. MaxWords
<1>1. c \in RoutedCommand
  BY CommandAssumption
<1>2. CASE c.kind = "semantic"
  <2>1. c.operation \in Operation
    BY <1>1, <1>2, CommandShapes
  <2>2. OperationRegister[c.operation] \in {207, 231, 0, 201, 208, 125}
    BY <2>1 DEF Operation, OperationRegister
  <2>3. OperationRegister[c.operation] \in Word /\ OperationRegister[c.operation] \in Nat
    BY <2>2, BoundsOfWords DEF Word
  <2> QED BY <1>2, <2>3, BoundsOfWords DEF Target
<1>3. CASE c.kind # "semantic"
  <2>1. c.first \in Word /\ c.count \in Nat
    BY <1>1, <1>3, CommandShapes
  <2>2. c.first \in Nat
    BY <2>1, WordIsNatural
  <2> QED BY <1>3, <2>1, <2>2 DEF Target, Fits, IsWellFormed
<1> QED BY <1>2, <1>3

(* The contents of the registers of a command are words.                   *)
LEMMA ContentsAreWords ==
  ASSUME NEW c \in Command, NEW registers \in [DOMAIN HoldingCatalog -> Word]
  PROVE  Contents(c, registers) \in Seq(Word)
BY TargetIsBlock, BlockIsWords DEF Contents

(* The frame the task sends is a well-formed request.                      *)
LEMMA CurrentRequestIsSound ==
  ASSUME IInv, pc \in BusStep
  PROVE  CurrentRequest \in SoundRequest
<1> USE DEF IInv, ControlInv
<1>1. Serial \in Nat
  BY EmptySeq, LenProperties DEF Serial
<1>2. <<>> \in Seq(Word)
  BY EmptySeq
<1>3. CASE pc = "poll"
  <2>1. poll \in [fn : ReadFunction, first : Word, count : 1 .. MaxRead]
    BY <1>3, PollAssumption
  <2> QED BY <1>2, <1>3, <2>1 DEF CurrentRequest, SoundRequest, Request, Function
<1>4. CASE pc = "status"
  <2>1. 0 \in Word
    BY BoundsOfWords DEF Word
  <2>2. CurrentRequest = [fn |-> "read_input", first |-> 0, count |-> 1,
                          values |-> <<>>, by |-> Serial]
    BY <1>4 DEF CurrentRequest
  <2>3. CurrentRequest \in Request
    BY <1>1, <1>2, <2>1, <2>2, BoundsOfWords DEF Request, ReadFunction, Function
  <2> QED BY <2>2, <2>3 DEF SoundRequest, ReadFunction
<1>5. CASE pc \in {"read", "previous", "readback"}
  <2>1. cmd \in Command /\ Fits(cmd)
    BY <1>5 DEF CommandStep
  <2>2. Target(cmd).first \in Word /\ Target(cmd).count \in 1 .. MaxRead
    BY <2>1, TargetIsBlock, BoundsOfWords
  <2>3. CurrentRequest = ReadOf(cmd)
    BY <1>5 DEF CurrentRequest
  <2>4. ReadOf(cmd).fn \in ReadFunction
    BY DEF ReadOf, ReadFunction
  <2>5. ReadOf(cmd) \in Request
    BY <1>1, <1>2, <2>2 DEF ReadOf, Request, ReadFunction, Function
  <2> QED BY <2>3, <2>4, <2>5 DEF SoundRequest
<1>6. CASE pc = "write"
  <2>1. cmd \in Command /\ Fits(cmd) /\ cmd \in RoutedCommand
    BY <1>6, CommandAssumption DEF CommandStep
  <2>2. Target(cmd).first \in Word /\ Target(cmd).count \in 1 .. MaxRead
    BY <2>1, TargetIsBlock, BoundsOfWords
  <2>3. Requested(cmd, previous) \in Seq(Word) /\ Len(Requested(cmd, previous)) = Target(cmd).count
    <3>1. CASE cmd.kind # "semantic"
      BY <2>1, <3>1, CommandShapes DEF Requested, Target
    <3>2. CASE cmd.kind = "semantic" /\ ~ IsFeatureBit(cmd)
      <4>1. cmd.value \in Word
        BY <2>1, <3>2, BoundsOfWords DEF Fits, Word
      <4> QED BY <3>2, <4>1 DEF Requested, Target
    <3>3. CASE cmd.kind = "semantic" /\ IsFeatureBit(cmd)
      <4>1. previous[1] \in Word
        BY <1>6, <3>3, EmptySeq, ElementOfSeq
      <4>2. WithFeatureBit(previous[1], cmd.value) \in Word
        BY <4>1, FeatureBitIsWord
      <4> QED BY <3>3, <4>2 DEF Requested, Target
    <3> QED BY <3>1, <3>2, <3>3
  <2>4. CurrentRequest = WriteOf(cmd)
    BY <1>6 DEF CurrentRequest
  <2>5. WriteOf(cmd) \in Request
    BY <1>1, <2>2, <2>3 DEF WriteOf, Request, Function
  <2>6. Len(WriteOf(cmd).values) = WriteOf(cmd).count
    BY <2>3 DEF WriteOf
  <2> QED BY <2>4, <2>5, <2>6 DEF SoundRequest
<1> QED BY <1>3, <1>4, <1>5, <1>6 DEF BusStep, CommandStep

(* What a transaction hands to the service: words, and at least one of     *)
(* them after a successful read.                                           *)
SoundAnswer(a) == /\ a.values \in Seq(Word)
                  /\ Ok(a) /\ pc # "write" => a.values # <<>>

(* A reply taken for a successful read carries at least one word.          *)
LEMMA JudgedAnswerIsSound ==
  ASSUME IInv, pc \in BusStep, rx # <<>>, Head(rx).fn = CurrentRequest.fn
  PROVE  SoundAnswer(Judge(CurrentRequest, Head(rx)))
<1> DEFINE r == Head(rx)
<1>1. r \in SoundReply
  BY HeadTailProperties DEF IInv, LinkInv
<1>2. r \in Reply /\ (r.form = "data" /\ r.fn \in ReadFunction => r.values # <<>>)
  BY <1>1 DEF SoundReply
<1>3. r.values \in Seq(Word) /\ r.form \in {"data", "exception", "garbled"}
  BY <1>2 DEF Reply
<1>4. pc # "write" => CurrentRequest.fn \in ReadFunction
  <2>1. pc = "poll" => poll.fn \in ReadFunction
    BY PollAssumption DEF IInv, ControlInv
  <2> QED BY <2>1 DEF CurrentRequest, ReadOf, ReadFunction
<1> HIDE DEF r
<1>5. <<>> \in Seq(Word)
  BY EmptySeq
<1>6. Judge(CurrentRequest, r).values \in Seq(Word)
  BY <1>3, <1>5 DEF Judge, Answer
<1>7. ASSUME pc # "write", Ok(Judge(CurrentRequest, r))
      PROVE  Judge(CurrentRequest, r).values # <<>>
  <2>1. r.form = "data"
    BY <1>3, <1>7 DEF Judge, Answer, Ok
  <2>2. Judge(CurrentRequest, r).values = r.values
    BY <1>4, <1>7, <2>1 DEF Judge, Answer, Ok
  <2>3. r.fn \in ReadFunction
    BY <1>4, <1>7 DEF r
  <2> QED BY <1>2, <2>1, <2>2, <2>3
<1> QED BY <1>6, <1>7 DEF SoundAnswer, r

-----------------------------------------------------------------------------
(*              The end of a transaction keeps the control state           *)

(* A published result ends the command.                                    *)
LEMMA PublishKeepsControl ==
  ASSUME IInv, NEW kind \in {"semantic", "write_registers", "read_registers"},
         NEW o \in Outcome, PublishResult(kind, o), sent' = FALSE
  PROVE  ControlInv' /\ ~ BeforeWrite'
<1>1. [kind |-> kind, outcome |-> o] \in Result
  BY DEF Result
<1>2. log' \in Seq(Result)
  BY <1>1, AppendProperties DEF PublishResult, IInv, ControlInv
<1>3. previous' = <<>> /\ <<>> \in Seq(Word)
  BY EmptySeq DEF PublishResult
<1>4. pc' = "polling" /\ cmd' = NoCommand /\ seen' = {} /\ wrote' = FALSE
  BY DEF PublishResult
<1>5. poll' = poll /\ polled' = polled /\ age' = age
  BY DEF PublishResult
<1>6. /\ poll \in PollRead \cup {NoPoll}
      /\ polled \in [known : BOOLEAN, state : OperatingState]
      /\ age \in 0 .. AgeCap
  BY DEF IInv, ControlInv
<1>7. ControlInv'
  BY <1>2, <1>3, <1>4, <1>5, <1>6
  DEF ControlInv, Step, BusStep, CommandStep
<1>8. ~ BeforeWrite'
  BY <1>4 DEF BeforeWrite
<1> QED BY <1>7, <1>8

(* The next transaction of the command in hand.                            *)
LEMMA ProceedKeepsControl ==
  ASSUME IInv, pc \in CommandStep, NEW step \in CommandStep, Proceed(step), sent' = FALSE,
         previous' \in Seq(Word),
         step \in {"write", "readback"} /\ cmd.kind = "semantic" => previous' # <<>>
  PROVE  ControlInv' /\ pc' = step /\ cmd' = cmd /\ polled' = polled /\ age' = age
BY DEF Proceed, IInv, ControlInv, Step, BusStep, CommandStep

(* The six continuations of a transaction keep the control state sound.    *)
LEMMA ConcludedKeepsControl ==
  ASSUME IInv, pc \in BusStep, NEW a, SoundAnswer(a), Concluded(a), sent' = FALSE
  PROVE  /\ ControlInv'
         /\ BeforeWrite' => /\ pc = "previous" /\ Ok(a) /\ pc' = "write"
                            /\ cmd' = cmd /\ polled' = polled /\ age' = age
<1>1. ASSUME pc \in CommandStep
      PROVE  /\ cmd \in Command /\ cmd \in RoutedCommand
             /\ cmd.kind \in {"semantic", "write_registers", "read_registers"}
  <2>1. cmd \in Command /\ cmd \in RoutedCommand
    BY <1>1, CommandAssumption DEF IInv, ControlInv
  <2> QED BY <2>1, CommandShapes
<1>2. ASSUME pc \in CommandStep, NEW o \in Outcome, Publish(o)
      PROVE  ControlInv' /\ ~ BeforeWrite'
  BY <1>1, <1>2, PublishKeepsControl DEF Publish
<1>3. a.values \in Seq(Word) /\ previous \in Seq(Word)
  BY DEF SoundAnswer, IInv, ControlInv
<1>4. CASE ReadDone(a)
  <2>1. pc \in CommandStep
    BY <1>4 DEF ReadDone, CommandStep
  <2> QED BY <1>2, <1>4, <2>1 DEF ReadDone, Outcome
<1>5. CASE PreviousDone(a)
  <2>1. pc = "previous" /\ pc \in CommandStep
    BY <1>5 DEF PreviousDone, CommandStep
  <2>2. CASE \E o \in Outcome : Publish(o)
    BY <1>2, <2>1, <2>2
  <2>3. CASE Ok(a) /\ Proceed("status") /\ previous' = a.values
    BY <1>3, <2>1, <2>3, ProceedKeepsControl DEF CommandStep, BeforeWrite
  <2>4. CASE Ok(a) /\ Proceed("write") /\ previous' = a.values
    <3>1. a.values # <<>>
      BY <2>1, <2>4 DEF SoundAnswer
    <3> QED BY <1>3, <2>1, <2>4, <3>1, ProceedKeepsControl DEF CommandStep
  <2>5. "communication_error" \in Outcome /\ "expected_value_mismatch" \in Outcome
        /\ "confirmed" \in Outcome
    BY DEF Outcome, GuardOutcome
  <2> QED BY <1>5, <2>2, <2>3, <2>4, <2>5 DEF PreviousDone
<1>6. CASE WriteDone(a)
  <2>1. pc = "write" /\ pc \in CommandStep
    BY <1>6 DEF WriteDone, CommandStep
  <2>2. CASE \E o \in Outcome : Publish(o)
    BY <1>2, <2>1, <2>2
  <2>3. CASE Proceed("readback") /\ UNCHANGED previous
    <3>1. cmd.kind = "semantic" => previous' # <<>>
      BY <2>1, <2>3 DEF IInv, ControlInv
    <3> QED BY <1>3, <2>1, <2>3, <3>1, ProceedKeepsControl DEF CommandStep, BeforeWrite
  <2>4. WriteFailure(cmd, a.status) \in Outcome /\ "sent_unverifiable" \in Outcome
    BY DEF WriteFailure, Outcome
  <2> QED BY <1>6, <2>2, <2>3, <2>4 DEF WriteDone
<1>7. CASE ReadbackDone(a)
  <2>1. pc = "readback" /\ pc \in CommandStep
    BY <1>7 DEF ReadbackDone, CommandStep
  <2>2. CASE \E o \in Outcome : Publish(o)
    BY <1>2, <2>1, <2>2
  <2>3. CASE Proceed("status") /\ UNCHANGED previous
    BY <1>3, <2>1, <2>3, ProceedKeepsControl DEF CommandStep, BeforeWrite
  <2>4. {"unknown", "communication_error", "adjusted", "confirmed"} \subseteq Outcome
    BY DEF Outcome
  <2> QED BY <1>7, <2>2, <2>3, <2>4 DEF ReadbackDone
<1>8. CASE StatusDone(a)
  <2>1. pc \in CommandStep
    BY <1>8 DEF StatusDone, CommandStep
  <2>2. PICK o \in {"completed", "transition_pending"} : Publish(o)
    BY <1>8 DEF StatusDone
  <2>3. o \in Outcome
    BY DEF Outcome
  <2> QED BY <1>2, <2>1, <2>2, <2>3
<1>9. CASE PollDone(a)
  <2>1. pc' = "loop" /\ poll' = NoPoll /\ pc = "poll"
    BY <1>9 DEF PollDone
  <2>2. UNCHANGED <<cmd, previous, log, seen, wrote>>
    BY <1>9 DEF PollDone
  <2>3. polled' \in [known : BOOLEAN, state : OperatingState] /\ age' \in 0 .. AgeCap
    <3>1. CASE Ok(a) /\ poll = StatusPoll
      <4>1. DecodeState(a.values[1]) \in OperatingState
        BY DEF DecodeState, OperatingState
      <4>2. polled' = [known |-> TRUE, state |-> DecodeState(a.values[1])] /\ age' = 0
        BY <1>9, <3>1 DEF PollDone
      <4>3. 0 \in 0 .. AgeCap
        BY CapsAreNatural
      <4> QED BY <4>1, <4>2, <4>3
    <3>2. CASE ~ (Ok(a) /\ poll = StatusPoll)
      <4>1. polled' = polled /\ age' = age
        BY <1>9, <3>2 DEF PollDone
      <4> QED BY <4>1 DEF IInv, ControlInv
    <3> QED BY <3>1, <3>2
  <2>4. /\ cmd \in Command \cup {NoCommand} /\ previous \in Seq(Word)
        /\ log \in Seq(Result) /\ seen \subseteq Seq(Word) /\ wrote \in BOOLEAN
        /\ cmd # NoCommand => cmd \in Command /\ Fits(cmd)
    BY DEF IInv, ControlInv
  <2>5. ControlInv'
    BY <2>1, <2>2, <2>3, <2>4 DEF ControlInv, Step, BusStep, CommandStep, Fits, IsWellFormed
  <2>6. ~ BeforeWrite'
    BY <2>1 DEF BeforeWrite
  <2> QED BY <2>5, <2>6
<1> QED BY <1>4, <1>5, <1>6, <1>7, <1>8, <1>9 DEF Concluded

-----------------------------------------------------------------------------
(*                     Every step keeps the invariant                      *)

(* ControlInv depends on nothing the link and the inverter change.         *)
LEMMA ControlUntouched ==
  ASSUME IInv, UNCHANGED <<control, age, log, seen, wrote>>
  PROVE  ControlInv'
BY DEF IInv, ControlInv, control, Fits, IsWellFormed

(* Evidence depends on control, the clocks and nothing else.               *)
LEMMA EvidenceUntouched ==
  ASSUME IInv, UNCHANGED <<pc, sent, cmd, polled, age, slot>>
  PROVE  Evidence'
BY DEF IInv, Evidence, BeforeWrite, Deadline

(* The invariant holds when the task starts.                               *)
LEMMA InitEstablishesInv == Init => IInv
<1> SUFFICES ASSUME Init PROVE IInv
  OBVIOUS
<1>1. <<>> \in Seq(Word) /\ <<>> \in Seq(Result) /\ <<>> \in Seq(SoundRequest)
      /\ <<>> \in Seq(SoundReply)
  BY EmptySeq
<1>a. 0 \in 0 .. AgeCap /\ 0 \in 0 .. SlotCap
  BY CapsAreNatural
<1>2. ControlInv
  <2>1. polled \in [known : BOOLEAN, state : OperatingState]
    BY DEF Init, OperatingState
  <2>2. pc = "loop" /\ sent = FALSE /\ cmd = NoCommand /\ poll = NoPoll /\ previous = <<>>
        /\ age = 0 /\ log = <<>> /\ seen = {} /\ wrote = FALSE
    BY DEF Init
  <2> QED BY <1>1, <1>a, <2>1, <2>2 DEF ControlInv, Step, BusStep, CommandStep
<1>3. LinkInv
  <2>1. holding \in [DOMAIN HoldingCatalog -> InitialWord] /\ status \in RawStatus
    BY DEF Init
  <2>2. InitialWord \subseteq Word /\ RawStatus \subseteq Word
    BY PollAssumption
  <2>3. holding \in [DOMAIN HoldingCatalog -> Word] /\ status \in Word
    BY <2>1, <2>2
  <2> QED BY <1>1, <1>a, <2>3 DEF Init, LinkInv
<1>4. Evidence
  BY DEF Init, Evidence, BeforeWrite
<1> QED BY <1>2, <1>3, <1>4 DEF IInv

(* The end of a transaction, whichever event ended it.                     *)
LEMMA ConcludedKeepsInv ==
  ASSUME IInv, pc \in BusStep, NEW a, SoundAnswer(a), Concluded(a), sent' = FALSE,
         slot' \in 0 .. SlotCap, commanded' \in BOOLEAN, rx' \in Seq(SoundReply),
         Ok(a) => slot' = slot /\ sent,
         UNCHANGED <<connected, bus, plant, applied>>
  PROVE  IInv'
<1>1. /\ ControlInv'
      /\ BeforeWrite' => /\ pc = "previous" /\ Ok(a) /\ pc' = "write"
                         /\ cmd' = cmd /\ polled' = polled /\ age' = age
  BY ConcludedKeepsControl
<1>2. LinkInv'
  BY DEF IInv, LinkInv, plant
<1>3. Evidence'
  <2> SUFFICES ASSUME BeforeWrite', NeedsStopped(cmd)' PROVE
                  /\ polled'.known /\ polled'.state \in {"standby", "stopped"}
                  /\ age' <= Deadline'
    BY DEF Evidence
  <2>1. pc = "previous" /\ pc' = "write" /\ cmd' = cmd /\ polled' = polled /\ age' = age
        /\ slot' = slot /\ sent
    BY <1>1
  <2>2. Deadline' = Deadline
    BY <2>1 DEF Deadline
  <2>3. BeforeWrite /\ NeedsStopped(cmd)
    BY <2>1 DEF BeforeWrite
  <2> QED BY <2>1, <2>2, <2>3 DEF IInv, Evidence
<1> QED BY <1>1, <1>2, <1>3 DEF IInv

(* A transmission appends one sound request and moves the deadline by the slot. *)
LEMMA SendFrameKeepsInv == ASSUME IInv, SendFrame PROVE IInv'
<1>1. pc \in BusStep /\ ~sent /\ sent' /\ slot' = 0 /\ rx' = <<>>
      /\ bus' = Append(bus, CurrentRequest)
  BY DEF SendFrame
<1>2. UNCHANGED <<pc, cmd, poll, previous, polled, age, connected, plant, log, seen, applied>>
      /\ commanded' = TRUE /\ sent' = TRUE /\ wrote' = (wrote \/ pc = "write")
  BY DEF SendFrame
<1>3. ControlInv'
  BY <1>1, <1>2 DEF IInv, ControlInv, Fits, IsWellFormed
<1>4. LinkInv'
  <2>1. bus' \in Seq(SoundRequest)
    BY <1>1, CurrentRequestIsSound, AppendProperties DEF IInv, LinkInv
  <2>2. rx' \in Seq(SoundReply) /\ slot' \in 0 .. SlotCap
    BY <1>1, EmptySeq, CapsAreNatural
  <2> QED BY <1>2, <2>1, <2>2 DEF IInv, LinkInv, plant
<1>5. Evidence'
  <2> SUFFICES ASSUME BeforeWrite', NeedsStopped(cmd)' PROVE
                  /\ polled'.known /\ polled'.state \in {"standby", "stopped"}
                  /\ age' <= Deadline'
    BY DEF Evidence
  <2>1. pc = "previous" /\ pc' = pc
    BY <1>1, <1>2 DEF BeforeWrite
  <2>2. Deadline <= Freshness + Gap /\ Deadline' = Freshness + Gap
    <3>1. slot \in Nat
      BY CapsAreNatural DEF IInv, LinkInv
    <3> QED BY <1>1, <2>1, <3>1, TimingAssumption DEF Deadline
  <2>3. polled.known /\ polled.state \in {"standby", "stopped"} /\ age <= Deadline
    BY <1>2, <2>1 DEF IInv, Evidence, BeforeWrite
  <2>4. age \in Nat /\ Deadline \in Nat
    BY <1>1, <2>1, CapsAreNatural, TimingAssumption DEF IInv, ControlInv, LinkInv, Deadline
  <2> QED BY <1>2, <2>2, <2>3, <2>4, TimingAssumption
<1> QED BY <1>3, <1>4, <1>5 DEF IInv

(* However a transaction ends, the invariant is kept.                      *)
LEMMA EndOfTransactionKeepsInv ==
  ASSUME IInv, SendFails \/ AcceptReply \/ TimeOut \/ NoticeDisconnect
  PROVE  IInv'
<1>1. <<>> \in Seq(Word) /\ <<>> \in Seq(SoundReply)
  BY EmptySeq
<1>2. ASSUME NEW st, st # "success"
      PROVE  SoundAnswer(Answer(st, <<>>)) /\ ~ Ok(Answer(st, <<>>))
  BY <1>1, <1>2 DEF SoundAnswer, Answer, Ok
<1>3. slot \in 0 .. SlotCap /\ 0 \in 0 .. SlotCap /\ rx \in Seq(SoundReply)
      /\ commanded \in BOOLEAN
  BY CapsAreNatural DEF IInv, LinkInv
<1>4. CASE SendFails
  <2>1. sent' = FALSE
    BY <1>4 DEF SendFails, IInv, ControlInv
  <2> QED BY <1>1, <1>2, <1>3, <1>4, <2>1, ConcludedKeepsInv DEF SendFails
<1>5. CASE AcceptReply
  <2>1. SoundAnswer(Judge(CurrentRequest, Head(rx)))
    BY <1>5, JudgedAnswerIsSound DEF AcceptReply
  <2>2. rx' \in Seq(SoundReply)
    BY <1>3, <1>5, HeadTailProperties DEF AcceptReply
  <2> QED BY <1>3, <1>5, <2>1, <2>2, ConcludedKeepsInv DEF AcceptReply
<1>6. CASE TimeOut
  BY <1>2, <1>3, <1>6, ConcludedKeepsInv DEF TimeOut, link
<1>7. CASE NoticeDisconnect
  BY <1>2, <1>3, <1>7, ConcludedKeepsInv DEF NoticeDisconnect, link
<1> QED BY <1>4, <1>5, <1>6, <1>7

(* A command that passes its checks has fresh evidence when it is taken.   *)
LEMMA TakeCommandKeepsInv ==
  ASSUME IInv, NEW c \in Command, TakeCommand(c)
  PROVE  IInv'
<1> DEFINE refusal == Refusal(c, CurrentSnapshot)
<1>1. c \in RoutedCommand /\ c.kind \in {"semantic", "write_registers", "read_registers"}
  BY CommandAssumption, CommandShapes
<1>2. sent = FALSE /\ sent' = FALSE /\ UNCHANGED <<slot, link, plant, applied>>
  BY DEF TakeCommand, IInv, ControlInv, BusStep, CommandStep
<1>3. LinkInv'
  BY <1>2 DEF IInv, LinkInv, link, plant
<1>4. CASE refusal # "proceed" /\ PublishResult(c.kind, refusal)
  <2>1. refusal \in Outcome
    BY <1>1, <1>4, RefusalIsGuardOutcome DEF Outcome
  <2>2. ControlInv' /\ ~ BeforeWrite'
    BY <1>1, <1>2, <1>4, <2>1, PublishKeepsControl
  <2> QED BY <1>3, <2>2 DEF IInv, Evidence
<1>5. CASE /\ refusal = "proceed"
           /\ pc' = FirstStep(c) /\ cmd' = c /\ seen' = {Contents(c, holding)}
           /\ UNCHANGED <<poll, previous, polled, age, log, wrote>>
  <2>1. Fits(c)
    BY <1>1, <1>5, AcceptedCommandFits DEF Fits
  <2>2. Contents(c, holding) \in Seq(Word)
    BY ContentsAreWords DEF IInv, LinkInv
  <2>3. /\ FirstStep(c) \in {"read", "previous", "write"}
        /\ FirstStep(c) = "write" => c.kind = "write_registers"
    BY DEF FirstStep, SkipsPreRead
  <2>4. /\ poll \in PollRead \cup {NoPoll} /\ previous \in Seq(Word)
        /\ polled \in [known : BOOLEAN, state : OperatingState] /\ age \in 0 .. AgeCap
        /\ log \in Seq(Result) /\ wrote \in BOOLEAN
    BY DEF IInv, ControlInv
  <2>5. Fits(c)'
    BY <2>1 DEF Fits, IsWellFormed
  <2>6. ControlInv'
    BY <1>2, <1>5, <2>1, <2>2, <2>3, <2>4
    DEF ControlInv, Step, BusStep, CommandStep, Fits, IsWellFormed
  <2>7. Evidence'
    <3> SUFFICES ASSUME BeforeWrite', NeedsStopped(c) PROVE
                    /\ polled'.known /\ polled'.state \in {"standby", "stopped"}
                    /\ age' <= Deadline'
      BY <1>5 DEF Evidence
    <3>1. IsStopped(CurrentSnapshot)
      BY <1>1, <1>5, StandbyCommandNeedsStopped
    <3>2. polled.known /\ polled.state \in {"standby", "stopped"} /\ age <= Freshness
      BY <3>1 DEF IsStopped, CurrentSnapshot
    <3>3. Deadline' \in Int /\ Deadline' >= Freshness
      <4>1. slot' \in Nat
        BY <1>2, CapsAreNatural DEF IInv, LinkInv
      <4>2. CASE pc' = "previous" /\ slot' <= Gap
        BY <1>2, <4>1, <4>2, TimingAssumption DEF Deadline
      <4>3. CASE pc' = "previous" /\ ~ (slot' <= Gap)
        BY <1>2, <4>1, <4>3, TimingAssumption DEF Deadline
      <4>4. CASE pc' # "previous"
        BY <1>2, <4>1, <4>4, TimingAssumption DEF Deadline
      <4> QED BY <4>2, <4>3, <4>4
    <3>4. age \in Nat /\ Freshness \in Nat
      BY <2>4, CapsAreNatural, TimingAssumption
    <3> QED BY <1>5, <3>2, <3>3, <3>4
  <2> QED BY <1>3, <2>6, <2>7 DEF IInv
<1> QED BY <1>4, <1>5 DEF TakeCommand

(* The loop itself: no command is in hand.                                 *)
LEMMA LoopStepKeepsInv ==
  ASSUME IInv,
         NoCommandWaiting \/ NothingDue \/ EndSession \/ (\E p \in PollRead : StartPoll(p))
  PROVE  IInv'
<1>1. /\ pc \in {"loop", "polling"} /\ pc' \in {"loop", "polling", "poll", "down"}
      /\ poll' \in PollRead \cup {NoPoll} /\ (pc' = "poll" => poll' \in PollRead)
      /\ UNCHANGED <<sent, cmd, previous, polled, clock, link, plant, history>>
  BY DEF NoCommandWaiting, NothingDue, EndSession, StartPoll, IInv, ControlInv
<1>2. sent = FALSE
  BY <1>1 DEF IInv, ControlInv, BusStep, CommandStep
<1>3. ControlInv'
  BY <1>1, <1>2 DEF IInv, ControlInv, Step, BusStep, CommandStep, Fits, IsWellFormed,
                    clock, history
<1>4. LinkInv'
  BY <1>1 DEF IInv, LinkInv, clock, link, plant, history
<1>5. Evidence'
  BY <1>1 DEF Evidence, BeforeWrite
<1> QED BY <1>3, <1>4, <1>5 DEF IInv

(* A new USB session forgets the status and every frame.                   *)
LEMMA BeginSessionKeepsInv == ASSUME IInv, BeginSession PROVE IInv'
<1>1. /\ pc' = "loop" /\ connected' = TRUE /\ commanded' = FALSE
      /\ bus' = <<>> /\ rx' = <<>> /\ age' = 0 /\ slot' = 0
      /\ polled' = [known |-> FALSE, state |-> "unknown"]
      /\ UNCHANGED <<sent, cmd, poll, previous, plant, history>> /\ pc = "down"
  BY DEF BeginSession
<1>2. sent = FALSE
  BY <1>1 DEF IInv, ControlInv, BusStep, CommandStep
<1>3. 0 \in 0 .. AgeCap /\ 0 \in 0 .. SlotCap
  BY CapsAreNatural
<1>4. polled' \in [known : BOOLEAN, state : OperatingState]
  BY <1>1 DEF OperatingState
<1>5. ControlInv'
  BY <1>1, <1>2, <1>3, <1>4
  DEF IInv, ControlInv, Step, BusStep, CommandStep, Fits, IsWellFormed, history
<1>6. LinkInv'
  BY <1>1, <1>3, EmptySeq DEF IInv, LinkInv, plant, history
<1>7. Evidence'
  BY <1>1 DEF Evidence, BeforeWrite
<1> QED BY <1>5, <1>6, <1>7 DEF IInv

(* The inverter answers with frames of the protocol.                       *)
LEMMA AnsweredIsSound ==
  ASSUME IInv, NEW req \in SoundRequest, NEW form \in {"data", "exception", "garbled"},
         Answered(req, form)
  PROVE  rx' \in Seq(SoundReply)
<1> DEFINE words == CASE form # "data"           -> <<>>
                      [] req.fn = "read_holding" -> Block(holding, req.first, req.count)
                      [] req.fn = "read_input"   -> IF req.first = 0 THEN <<status>> ELSE <<0>>
                      [] req.fn = "write_single" -> req.values
                      [] req.fn = "write_multiple" -> <<>>
           reply == [fn |-> req.fn, form |-> form, first |-> req.first, count |-> req.count,
                     values |-> words]
<1>1. /\ req.fn \in Function /\ req.first \in Word /\ req.count \in 1 .. MaxRead
      /\ req.values \in Seq(Word)
  BY DEF SoundRequest, Request
<1>2. req.first \in Nat /\ req.count \in Nat /\ req.count > 0 /\ req.count \in 0 .. MaxRead
  BY <1>1, WordIsNatural, BoundsOfWords
<1>3. holding \in [DOMAIN HoldingCatalog -> Word] /\ status \in Word /\ 0 \in Word
  BY BoundsOfWords DEF IInv, LinkInv, Word
<1>4. /\ Block(holding, req.first, req.count) \in Seq(Word)
      /\ Block(holding, req.first, req.count) # <<>>
  BY <1>2, <1>3, BlockIsWords
<1>5. <<>> \in Seq(Word) /\ <<status>> \in Seq(Word) /\ <<0>> \in Seq(Word)
      /\ <<status>> # <<>> /\ <<0>> # <<>>
  BY <1>3, EmptySeq
<1>6. words \in Seq(Word)
  BY <1>1, <1>4, <1>5 DEF Function, ReadFunction
<1>7. form = "data" /\ req.fn \in ReadFunction => words # <<>>
  BY <1>4, <1>5 DEF ReadFunction
<1>8. rx' = Append(rx, reply)
  BY DEF Answered
<1> HIDE DEF words
<1>9. reply \in SoundReply
  BY <1>1, <1>2, <1>6, <1>7 DEF SoundReply, Reply
<1> QED BY <1>8, <1>9, AppendProperties DEF IInv, LinkInv

(* What the inverter does leaves the task alone.                           *)
LEMMA NoteContentsIsSound ==
  ASSUME IInv, NoteContents, UNCHANGED cmd, holding' \in [DOMAIN HoldingCatalog -> Word]
  PROVE  seen' \subseteq Seq(Word)
<1>1. CASE cmd = NoCommand
  BY <1>1 DEF NoteContents, IInv, ControlInv
<1>2. CASE cmd # NoCommand
  <2>1. cmd \in Command
    BY <1>2 DEF IInv, ControlInv
  <2>2. Contents(cmd, holding') \in Seq(Word)
    BY <2>1, ContentsAreWords
  <2>3. seen' = seen \cup {Contents(cmd, holding')}
    BY <1>2 DEF NoteContents
  <2> QED BY <2>2, <2>3 DEF IInv, ControlInv
<1> QED BY <1>1, <1>2

(* Serving, refusing or losing a frame keeps the invariant.                *)
LEMMA InverterStepKeepsInv == ASSUME IInv, InverterStep PROVE IInv'
<1>1. /\ bus # <<>> /\ bus' = Tail(bus)
      /\ UNCHANGED <<control, clock, commanded, connected, status, log, wrote>>
  BY DEF InverterStep, ServeRead, ServeWrite, RefuseWrite, LoseFrame, plant, history
<1>2. Head(bus) \in SoundRequest /\ bus' \in Seq(SoundRequest)
  BY <1>1, HeadTailProperties DEF IInv, LinkInv
<1>3. rx' \in Seq(SoundReply) /\ holding' \in [DOMAIN HoldingCatalog -> Word]
      /\ applied' \subseteq Nat /\ seen' \subseteq Seq(Word)
  <2>1. CASE ServeRead \/ RefuseWrite
    <3>1. rx' \in Seq(SoundReply)
      BY <1>2, <2>1, AnsweredIsSound DEF ServeRead, RefuseWrite
    <3>2. UNCHANGED <<holding, applied, seen>>
      BY <2>1 DEF ServeRead, RefuseWrite, plant, history
    <3> QED BY <3>1, <3>2 DEF IInv, LinkInv, ControlInv
  <2>2. CASE LoseFrame
    BY <2>2 DEF LoseFrame, plant, history, IInv, LinkInv, ControlInv
  <2>3. CASE ServeWrite
    <3> DEFINE req == Head(bus)
    <3>1. /\ req \in Request /\ Len(req.values) = req.count
          /\ req.values \in Seq(Word) /\ req.by \in Nat /\ req.count \in Nat
          /\ req.first \in Nat
      <4>1. req \in Request /\ Len(req.values) = req.count
        BY <1>2, <2>3 DEF SoundRequest, ServeWrite
      <4>2. req.values \in Seq(Word) /\ req.by \in Nat /\ req.first \in Word
            /\ req.count \in 1 .. MaxRead
        BY <4>1 DEF Request
      <4> QED BY <4>1, <4>2, WordIsNatural, BoundsOfWords
    <3>2. PICK words \in {req.values} \cup [1 .. req.count -> PanelWord] :
            holding' = [a \in DOMAIN holding |->
                          IF a \in req.first .. (req.first + req.count - 1)
                          THEN words[a - req.first + 1] ELSE holding[a]]
      BY <2>3 DEF ServeWrite
    <3>3. \A i \in 1 .. req.count : words[i] \in Word
      BY <3>1, <3>2, ElementOfSeq, PollAssumption
    <3>4. holding' \in [DOMAIN HoldingCatalog -> Word]
      <4>1. holding \in [DOMAIN HoldingCatalog -> Word]
        BY DEF IInv, LinkInv
      <4>2. ASSUME NEW a \in DOMAIN HoldingCatalog
            PROVE  (IF a \in req.first .. (req.first + req.count - 1)
                    THEN words[a - req.first + 1] ELSE holding[a]) \in Word
        <5>1. a \in Word /\ a \in Nat
          BY CatalogAssumption, WordIsNatural
        <5> HIDE DEF req
        <5>2. CASE a \in req.first .. (req.first + req.count - 1)
          <6>1. a - req.first + 1 \in 1 .. req.count
            BY <3>1, <5>1, <5>2
          <6> QED BY <3>3, <5>2, <6>1
        <5>3. CASE a \notin req.first .. (req.first + req.count - 1)
          BY <4>1, <5>3
        <5> QED BY <5>2, <5>3
      <4> QED BY <3>2, <4>1, <4>2
    <3>5. seen' \subseteq Seq(Word)
      BY <1>1, <2>3, <3>4, NoteContentsIsSound DEF ServeWrite, control
    <3>6. rx' \in Seq(SoundReply)
      BY <1>2, <2>3, AnsweredIsSound DEF ServeWrite, IInv, LinkInv
    <3>7. applied' \subseteq Nat
      BY <2>3, <3>1 DEF ServeWrite, IInv, LinkInv
    <3> QED BY <3>4, <3>5, <3>6, <3>7
  <2> QED BY <2>1, <2>2, <2>3 DEF InverterStep
<1>4. ControlInv'
  BY <1>1, <1>3 DEF IInv, ControlInv, control, clock, Fits, IsWellFormed
<1>5. LinkInv'
  BY <1>1, <1>2, <1>3 DEF IInv, LinkInv, clock
<1>6. Evidence'
  BY <1>1, EvidenceUntouched DEF control, clock
<1> QED BY <1>4, <1>5, <1>6 DEF IInv

(* Status changes, the front panel and the plug keep the invariant.        *)
LEMMA EnvironmentKeepsInv ==
  ASSUME IInv, SkipReply \/ ChangeStatus \/ FrontPanel \/ Disconnect
  PROVE  IInv'
<1>1. UNCHANGED <<control, clock, commanded, log, wrote, applied>>
  BY DEF SkipReply, ChangeStatus, FrontPanel, Disconnect, link, history
<1>2. CASE SkipReply \/ Disconnect
  <2>1. UNCHANGED <<plant, seen>> /\ connected' \in BOOLEAN /\ (bus' = bus \/ bus' = <<>>)
        /\ ((rx # <<>> /\ rx' = Tail(rx)) \/ rx' = <<>>)
    BY <1>2 DEF SkipReply, Disconnect, history, IInv, LinkInv
  <2>2. bus' \in Seq(SoundRequest) /\ rx' \in Seq(SoundReply)
    BY <2>1, EmptySeq, HeadTailProperties DEF IInv, LinkInv
  <2>3. LinkInv'
    BY <1>1, <2>1, <2>2 DEF IInv, LinkInv, clock, plant
  <2>4. ControlInv' /\ Evidence'
    BY <1>1, <2>1, ControlUntouched, EvidenceUntouched DEF clock, control
  <2> QED BY <2>3, <2>4 DEF IInv
<1>3. CASE ChangeStatus
  <2>1. status' \in Word /\ UNCHANGED <<link, holding, history>>
    BY <1>3, PollAssumption DEF ChangeStatus
  <2>2. LinkInv'
    BY <1>1, <2>1 DEF IInv, LinkInv, clock, link
  <2>3. ControlInv' /\ Evidence'
    BY <1>1, <2>1, ControlUntouched, EvidenceUntouched DEF clock, control, history
  <2> QED BY <2>2, <2>3 DEF IInv
<1>4. CASE FrontPanel
  <2>1. PICK a \in DOMAIN holding, w \in PanelWord : holding' = [holding EXCEPT ![a] = w]
    BY <1>4 DEF FrontPanel
  <2>2. w \in Word
    BY PollAssumption
  <2>3. holding' \in [DOMAIN HoldingCatalog -> Word]
    BY <2>1, <2>2 DEF IInv, LinkInv
  <2>4. UNCHANGED <<link, status>> /\ NoteContents
    BY <1>4 DEF FrontPanel
  <2>5. seen' \subseteq Seq(Word)
    BY <1>1, <2>3, <2>4, NoteContentsIsSound DEF control
  <2>6. LinkInv'
    BY <1>1, <2>3, <2>4 DEF IInv, LinkInv, clock, link
  <2>7. ControlInv'
    BY <1>1, <2>5 DEF IInv, ControlInv, control, clock, Fits, IsWellFormed
  <2>8. Evidence'
    BY <1>1, EvidenceUntouched DEF control, clock
  <2> QED BY <2>6, <2>7, <2>8 DEF IInv
<1> QED BY <1>2, <1>3, <1>4

(* While a command waits, the age of its evidence and its deadline grow    *)
(* together.                                                               *)
LEMMA TickKeepsInv == ASSUME IInv, Tick PROVE IInv'
<1>1. UNCHANGED <<control, link, plant, history>>
      /\ age' = (IF polled.known /\ age < AgeCap THEN age + 1 ELSE age)
      /\ slot' = (IF slot < SlotCap THEN slot + 1 ELSE slot)
  BY DEF Tick
<1>2. age \in Nat /\ age <= AgeCap /\ slot \in Nat /\ slot <= SlotCap
  BY CapsAreNatural DEF IInv, ControlInv, LinkInv
<1>3. age' \in 0 .. AgeCap /\ slot' \in 0 .. SlotCap /\ age' <= age + 1 /\ age' \in Nat
  BY <1>1, <1>2, CapsAreNatural
<1>4. ControlInv'
  BY <1>1, <1>3 DEF IInv, ControlInv, control, history, Fits, IsWellFormed
<1>5. LinkInv'
  BY <1>1, <1>3 DEF IInv, LinkInv, link, plant, history
<1>6. Evidence'
  <2> SUFFICES ASSUME BeforeWrite', NeedsStopped(cmd)' PROVE
                  /\ polled'.known /\ polled'.state \in {"standby", "stopped"}
                  /\ age' <= Deadline'
    BY DEF Evidence
  <2>1. pc' = pc /\ sent' = sent /\ cmd' = cmd /\ polled' = polled
    BY <1>1 DEF control
  <2>2. pc \in {"previous", "write"} /\ BeforeWrite /\ NeedsStopped(cmd)
    BY <2>1 DEF BeforeWrite
  <2>3. polled.known /\ polled.state \in {"standby", "stopped"} /\ age <= Deadline
    BY <2>2 DEF IInv, Evidence
  <2>4. \/ ~ sent /\ slot < Gap
        \/ sent /\ slot < ReplyWindow
    BY <1>2, <2>2, TimingAssumption DEF Tick, SlotOpen, BusStep, CommandStep
  <2>5. slot' = slot + 1
    BY <1>1, <1>2, <2>4, CapsAreNatural, TimingAssumption
  <2>6. Deadline' = Deadline + 1 /\ Deadline \in Nat
    <3>1. CASE pc = "previous" /\ ~ sent
      BY <1>2, <2>1, <2>4, <2>5, <3>1, TimingAssumption DEF Deadline
    <3>2. CASE ~ (pc = "previous" /\ ~ sent)
      BY <1>2, <2>1, <2>5, <3>2, TimingAssumption DEF Deadline
    <3> QED BY <3>1, <3>2
  <2> QED BY <1>2, <1>3, <2>1, <2>3, <2>6
<1> QED BY <1>4, <1>5, <1>6 DEF IInv

(* Every step keeps the invariant, one case per action.                    *)
LEMMA StepKeepsInv == IInv /\ [Next]_vars => IInv'
<1> SUFFICES ASSUME IInv, [Next]_vars PROVE IInv'
  OBVIOUS
<1>1. CASE UNCHANGED vars
  <2>1. UNCHANGED <<control, clock, link, plant, history>>
    BY <1>1 DEF vars
  <2>2. ControlInv' /\ Evidence'
    BY <2>1, ControlUntouched, EvidenceUntouched DEF control, clock, history
  <2>3. LinkInv'
    BY <2>1 DEF IInv, LinkInv, clock, link, plant, history
  <2> QED BY <2>2, <2>3 DEF IInv
<1>2. CASE TaskStep
  BY <1>2, SendFrameKeepsInv, EndOfTransactionKeepsInv, TakeCommandKeepsInv,
     LoopStepKeepsInv, BeginSessionKeepsInv, EnvironmentKeepsInv DEF TaskStep
<1>3. CASE InverterStep
  BY <1>3, InverterStepKeepsInv
<1>4. CASE ChangeStatus \/ FrontPanel \/ Disconnect
  BY <1>4, EnvironmentKeepsInv
<1>5. CASE Tick
  BY <1>5, TickKeepsInv
<1> QED BY <1>1, <1>2, <1>3, <1>4, <1>5 DEF Next

-----------------------------------------------------------------------------
(*                              Theorems                                   *)

(* The strengthened invariant holds in every reachable state.              *)
THEOREM InductiveInvariant == Spec => []IInv
BY InitEstablishesInv, StepKeepsInv, PTL DEF Spec

(* The invariant contains the type invariant.                              *)
LEMMA InvImpliesTypeOK == IInv => TypeOK
<1> SUFFICES ASSUME IInv PROVE TypeOK
  OBVIOUS
<1>1. SoundRequest \subseteq Request /\ SoundReply \subseteq Reply
  BY DEF SoundRequest, SoundReply
<1>2. bus \in Seq(Request) /\ rx \in Seq(Reply)
  BY <1>1, SeqMonotonic DEF IInv, LinkInv
<1> QED BY <1>2 DEF IInv, ControlInv, LinkInv, TypeOK

(* Every variable of the inverter task keeps its type: the frames on the   *)
(* bus are well formed, the results are documented outcomes, the command   *)
(* in hand is one the queue accepts.                                       *)
THEOREM TypeCorrect == Spec => []TypeOK
BY InductiveInvariant, InvImpliesTypeOK, PTL

(* A write that needs a stopped inverter leaves the gateway only on a      *)
(* status that said so and that is at most EvidenceBound old.              *)
LEMMA InvImpliesEvidence ==
  ASSUME IInv, WriteLeaves, NeedsStopped(cmd)
  PROVE  /\ polled.known /\ polled.state \in {"standby", "stopped"}
         /\ age <= EvidenceBound
<1>1. pc = "write" /\ ~ sent
  BY DEF WriteLeaves
<1>2. polled.known /\ polled.state \in {"standby", "stopped"} /\ age <= Deadline
  BY <1>1 DEF IInv, Evidence, BeforeWrite
<1>3. Deadline = Freshness + Gap + slot /\ slot \in Nat /\ slot <= SlotCap /\ age \in Nat
  BY <1>1, CapsAreNatural DEF Deadline, IInv, LinkInv, ControlInv
<1> QED BY <1>2, <1>3, CapsAreNatural, TimingAssumption

(* Every write that needs a stopped inverter leaves on a stopped status no *)
(* older than the bound: the write guards of execute_write and of          *)
(* CommandService, for every catalog, command set, poll set and timing.    *)
THEOREM StandbyWritesHaveEvidence == Spec => StandbyWriteEvidence
<1>1. IInv => (WriteLeaves /\ NeedsStopped(cmd) =>
                 /\ polled.known /\ polled.state \in {"standby", "stopped"}
                 /\ age <= EvidenceBound)
  BY InvImpliesEvidence
<1>2. IInv /\ [Next]_vars =>
        [WriteLeaves /\ NeedsStopped(cmd) =>
           /\ polled.known /\ polled.state \in {"standby", "stopped"}
           /\ age <= EvidenceBound]_vars
  BY <1>1
<1> QED BY <1>2, InductiveInvariant, PTL DEF Spec, StandbyWriteEvidence
=============================================================================
