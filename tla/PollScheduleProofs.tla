------------------------ MODULE PollScheduleProofs ------------------------
(***************************************************************************)
(* Theorems about PollSchedule for any poll plan, any times and any set of *)
(* rejected rows, and about the firmware's own plan: no empty block holds  *)
(* the poller up, the status block gets its turn, the snapshot stays fresh, *)
(* and what a rejected setup block costs.                                  *)
(***************************************************************************)
EXTENDS PollSchedule, WellFoundedInduction, TLAPS

(* A nonempty set of numbers has a least one, which is what FirstOf picks. *)
LEMMA FirstOfIsIn ==
  ASSUME NEW T \in SUBSET Nat, T # {}
  PROVE  FirstOf(T) \in T
<1> DEFINE R == {ss \in Nat \X Nat : ss[1] < ss[2]}
<1>1. PICK x \in T : \A y \in T : ~(<<y, x>> \in R)
  <2> HIDE DEF R
  <2>1. IsWellFoundedOn(R, Nat)
    BY NatLessThanWellFounded DEF R, OpToRel
  <2> QED
    BY <2>1, WFMin
<1>2. \A y \in T : ~(y < x)
  BY <1>1
<1>3. \A y \in T : x <= y
  BY <1>2
<1> QED
  BY <1>3 DEF FirstOf

LEMMA RequestsTyped ==
  /\ Scanned \subseteq Nat \ {0} /\ OthersCap \in Nat
  /\ \A i \in Scanned : i \in DOMAIN Plan /\ Requests[i] = Plan[i] /\ Requests[i] \in PollRequest
<1> DEFINE n == IF Len(Plan) < MaximumRequests THEN Len(Plan) ELSE MaximumRequests
<1>1. Plan \in Seq(PollRequest) /\ MaximumRequests \in Nat
  BY ScheduleAssumption, PlanAssumption
<1>2. n \in Nat /\ n <= Len(Plan) /\ Len(Plan) \in Nat
  BY <1>1
<1>3. /\ Requests \in Seq(PollRequest) /\ Len(Requests) = n /\ DOMAIN Requests = 1 .. n
      /\ \A i \in 1 .. n : Requests[i] = Plan[i]
  BY <1>1, <1>2 DEF Requests
<1>4. DOMAIN Plan = 1 .. Len(Plan) /\ \A i \in DOMAIN Plan : Plan[i] \in PollRequest
  BY <1>1
<1> QED
  BY <1>2, <1>3, <1>4 DEF Scanned, OthersCap

(* The interval an age is capped at; a block read once has none.           *)
Limit(i) == IF IsPeriodic(i) THEN Interval[Requests[i].cadence] ELSE 0

Ages == {a \in [Scanned -> Nat] : \A i \in Scanned : a[i] <= Limit(i)}

LEMMA LimitTyped == \A i \in Scanned : Limit(i) \in Nat
BY ScheduleAssumption DEF Limit, IsPeriodic, Periodic

LEMMA AgedTyped ==
  ASSUME age \in Ages, NEW t \in Nat
  PROVE  Aged(t) \in Ages
BY LimitTyped DEF Ages, Limit, Aged, Cap

LEMMA NeverPolledTyped == NeverPolled \in Ages
BY LimitTyped DEF Ages, Limit, NeverPolled

(* The time a transaction takes.                                           *)
LEMMA TimesTyped ==
  ASSUME NEW reply \in ReplyTimes, slot \in 0 .. Gap
  PROVE  /\ reply \in Nat /\ FirstTransaction(reply) \in Nat /\ LaterTransaction(reply) \in Nat
         /\ Cap(reply, Gap) \in 0 .. Gap
BY ScheduleAssumption DEF FirstTransaction, LaterTransaction, Cap

LEMMA StateAgedTyped ==
  ASSUME stateAge \in 0 .. Freshness + 1, NEW t \in Nat
  PROVE  StateAged(t) \in 0 .. Freshness + 1
BY ScheduleAssumption DEF StateAged, Cap

(* The row that is read is one of the scanned rows.                        *)
LEMMA NextRowScanned ==
  ASSUME DueRows # {}, install \in Installations
  PROVE  NextRow \in DueRows /\ NextRow \in Scanned
<1>1. DueRows \subseteq Scanned
  BY DEF DueRows, EnabledRows
<1>2. DueRows \in SUBSET Nat
  BY <1>1, RequestsTyped
<1> QED
  BY <1>1, <1>2, FirstOfIsIn DEF NextRow

(* The two records of a successful status read agree.                      *)
RecordsAgree == known <=> (\E i \in Scanned : IsStatus(i) /\ completed[i])

LEMMA TypeOKParts ==
  TypeOK <=>
    /\ install \in Installations /\ rejected \in RejectedSets
    /\ phase \in {"command", "poll", "sleep"}
    /\ ready \in BOOLEAN /\ known \in BOOLEAN /\ quiet \in BOOLEAN
    /\ completed \in [Scanned -> BOOLEAN] /\ age \in Ages
    /\ slot \in 0 .. Gap /\ stateAge \in 0 .. Freshness + 1
    /\ RecordsAgree
    /\ others \in 0 .. OthersCap /\ sessions \in 1 .. MaxSessions
BY DEF TypeOK, Ages, Limit, RecordsAgree

LEMMA TypeStart == Init => TypeOK
<1> SUFFICES ASSUME Init PROVE TypeOK
  OBVIOUS
<1>1. /\ install \in Installations /\ rejected \in RejectedSets /\ ready \in BOOLEAN
      /\ phase = "command" /\ known = FALSE /\ quiet = TRUE
  BY DEF Init
<1>2. age \in Ages
  BY NeverPolledTyped DEF Init
<1>3. completed \in [Scanned -> BOOLEAN] /\ RecordsAgree
  BY DEF Init, NoneCompleted, RecordsAgree
<1>4. /\ slot \in 0 .. Gap /\ stateAge \in 0 .. Freshness + 1
      /\ others \in 0 .. OthersCap /\ sessions \in 1 .. MaxSessions
  BY ScheduleAssumption, RequestsTyped DEF Init
<1> QED
  BY <1>1, <1>2, <1>3, <1>4 DEF TypeOK, Ages, Limit, RecordsAgree

LEMMA CommandTyped ==
  ASSUME TypeOK, NEW n \in CommandLengths, NEW reply \in ReplyTimes, ExecuteCommand(n, reply)
  PROVE  TypeOK'
<1> DEFINE t == FirstTransaction(reply) + (n - 1) * LaterTransaction(reply)
<1>1. t \in Nat /\ Cap(reply, Gap) \in 0 .. Gap
  <2>1. n - 1 \in Nat
    BY ScheduleAssumption
  <2>2. \A a, b, c \in Nat : a + b * c \in Nat
    OBVIOUS
  <2>3. slot \in 0 .. Gap
    BY DEF TypeOK
  <2> QED
    BY <2>1, <2>2, <2>3, TimesTyped
<1> HIDE DEF t
<1>2. age \in Ages /\ stateAge \in 0 .. Freshness + 1
  BY TypeOKParts
<1>3. age' \in Ages /\ stateAge' \in 0 .. Freshness + 1 /\ slot' \in 0 .. Gap
  BY <1>1, <1>2, AgedTyped, StateAgedTyped DEF ExecuteCommand, t
<1>4. /\ phase' = "poll" /\ quiet' = FALSE
      /\ UNCHANGED <<install, rejected, ready, completed, known, others, sessions>>
  BY DEF ExecuteCommand
<1> QED
  BY <1>3, <1>4 DEF TypeOK, Ages, Limit, RecordsAgree

LEMMA ReadTyped ==
  ASSUME TypeOK, NEW reply \in ReplyTimes, ReadDue(reply)
  PROVE  TypeOK'
<1> DEFINE t  == FirstTransaction(reply)
           ok == NextRow \notin rejected /\ reply < ResponseTimeout
<1>1. NextRow \in Scanned
  BY NextRowScanned DEF ReadDue, TypeOK
<1>2. t \in Nat /\ Cap(reply, Gap) \in 0 .. Gap
  <2>1. slot \in 0 .. Gap
    BY DEF TypeOK
  <2> QED
    BY <2>1, TimesTyped
<1>3. age' \in Ages
  <2>1. Aged(t) \in Ages
    BY <1>2, AgedTyped, TypeOKParts
  <2>2. age' = [Aged(t) EXCEPT ![NextRow] = IF IsPeriodic(NextRow) THEN 0 ELSE @]
    BY DEF ReadDue, Stamped
  <2>3. ASSUME NEW a \in Ages, NEW b \in {0, a[NextRow]}
        PROVE  [a EXCEPT ![NextRow] = b] \in Ages
    BY <1>1, LimitTyped DEF Ages
  <2>4. (IF IsPeriodic(NextRow) THEN 0 ELSE Aged(t)[NextRow]) \in {0, Aged(t)[NextRow]}
    OBVIOUS
  <2> QED
    BY <2>1, <2>2, <2>3, <2>4
<1>4. stateAge' \in 0 .. Freshness + 1
  <2>1. StateAged(t) \in 0 .. Freshness + 1
    BY <1>2, StateAgedTyped, TypeOKParts
  <2>2. stateAge' \in {0, StateAged(t)}
    BY DEF ReadDue
  <2> HIDE DEF t
  <2> QED
    BY <2>1, <2>2, ScheduleAssumption
<1>5. completed' = [completed EXCEPT ![NextRow] = @ \/ ok] /\ known' = (known \/ (ok /\ IsStatus(NextRow)))
  BY DEF ReadDue, CompletedBy
<1> HIDE DEF ok
<1>6. completed' \in [Scanned -> BOOLEAN] /\ known' \in BOOLEAN
  BY <1>1, <1>5 DEF TypeOK
<1>7. RecordsAgree'
  <2>1. completed \in [Scanned -> BOOLEAN] /\ RecordsAgree /\ known \in BOOLEAN
    BY TypeOKParts
  <2>2. \A i \in Scanned : completed'[i] <=> completed[i] \/ (i = NextRow /\ ok)
    BY <1>1, <1>5, <2>1
  <2>3. \A i : IsStatus(i)' <=> IsStatus(i)
    BY DEF IsStatus
  <2> QED
    BY <1>1, <1>5, <2>1, <2>2, <2>3 DEF RecordsAgree
<1>8. others' \in 0 .. OthersCap
  <2>1. others \in 0 .. OthersCap
    BY DEF TypeOK
  <2>2. others' \in {0, Cap(others + 1, OthersCap)}
    BY DEF ReadDue
  <2> QED
    BY <2>1, <2>2, RequestsTyped DEF Cap
<1>9. /\ phase' = "sleep" /\ slot' \in 0 .. Gap /\ quiet' \in BOOLEAN
      /\ UNCHANGED <<install, rejected, ready, sessions>>
  BY <1>2 DEF ReadDue, TypeOK
<1> QED
  BY <1>3, <1>4, <1>6, <1>7, <1>8, <1>9 DEF TypeOK, Ages, Limit, RecordsAgree

LEMMA LoopTyped ==
  ASSUME TypeOK, NoCommandWaiting \/ NothingRead \/ Sleep
  PROVE  TypeOK'
<1>1. CASE NoCommandWaiting \/ NothingRead
  BY <1>1 DEF NoCommandWaiting, NothingRead, schedule, TypeOK, IsPeriodic, IsStatus
<1>2. CASE Sleep
  <2>1. LoopDelay \in Nat /\ slot \in 0 .. Gap /\ age \in Ages /\ stateAge \in 0 .. Freshness + 1
    BY ScheduleAssumption, TypeOKParts
  <2>2. age' \in Ages /\ stateAge' \in 0 .. Freshness + 1
    BY <1>2, <2>1, AgedTyped, StateAgedTyped DEF Sleep
  <2>3. slot' \in 0 .. Gap
    BY <1>2, <2>1, ScheduleAssumption DEF Sleep, Cap
  <2>4. phase' = "command" /\ UNCHANGED <<install, rejected, ready, completed, known, others, quiet, sessions>>
    BY <1>2 DEF Sleep
  <2> QED
    BY <2>2, <2>3, <2>4 DEF TypeOK, Ages, Limit, RecordsAgree
<1> QED
  BY <1>1, <1>2

LEMMA NewSessionTyped ==
  ASSUME TypeOK, NewSession
  PROVE  TypeOK'
<1>1. age' \in Ages
  BY NeverPolledTyped DEF NewSession
<1>2. completed' \in [Scanned -> BOOLEAN] /\ RecordsAgree' /\ known' = FALSE
  BY DEF NewSession, NoneCompleted, RecordsAgree
<1>3. /\ slot' \in 0 .. Gap /\ stateAge' \in 0 .. Freshness + 1 /\ others' \in 0 .. OthersCap
      /\ sessions' \in 1 .. MaxSessions
  BY ScheduleAssumption, RequestsTyped DEF NewSession, TypeOK
<1>4. quiet' = TRUE /\ UNCHANGED <<install, rejected, phase, ready>>
  BY DEF NewSession
<1> QED
  BY <1>1, <1>2, <1>3, <1>4 DEF TypeOK, Ages, Limit, RecordsAgree

LEMMA TypeStep == TypeOK /\ [Next]_vars => TypeOK'
<1> SUFFICES ASSUME TypeOK, [Next]_vars PROVE TypeOK'
  OBVIOUS
<1>1. CASE UNCHANGED vars
  BY <1>1 DEF vars, schedule, TypeOK, IsPeriodic, IsStatus
<1>2. CASE LearnCoordinator
  BY <1>2 DEF LearnCoordinator, schedule, TypeOK, IsPeriodic, IsStatus
<1>3. CASE NewSession
  BY <1>3, NewSessionTyped
<1>4. CASE LoopStep
  BY <1>4, CommandTyped, ReadTyped, LoopTyped DEF LoopStep, LoopStepWith
<1> QED
  BY <1>1, <1>2, <1>3, <1>4 DEF Next

(* Every variable keeps its type, ages never pass their interval, and the  *)
(* poller's two records of a status read agree, whatever the plan, the     *)
(* intervals, the answers and the sessions: state() knows a snapshot       *)
(* exactly when the status block has been read in this session.            *)
THEOREM ScheduleTypeCorrect == Spec => []TypeOK
<1>1. TypeOK /\ [Next]_vars => TypeOK'
  BY TypeStep
<1> QED
  BY <1>1, TypeStart, PTL DEF Spec
-----------------------------------------------------------------------------
(*                          No empty block is due                          *)

(* Every block the features of an installation enable has registers.       *)
FeaturesMatchSizes ==
  \A i \in Installations : \A r \in DOMAIN Plan :
    IsEnabled(Plan[r], i) => RegisterCount(Plan[r], i) \in 1 .. 125

(* A due block has registers to read, for every plan whose features agree  *)
(* with the sizes of its blocks.                                           *)
THEOREM NeverStuck == ASSUME FeaturesMatchSizes PROVE Spec => []NeverStuckOnEmptyBlock
<1>1. TypeOK => NeverStuckOnEmptyBlock
  <2> SUFFICES ASSUME TypeOK, DueRows # {}
               PROVE  RegisterCount(Requests[NextRow], install) \in 1 .. 125
    BY DEF NeverStuckOnEmptyBlock
  <2>1. install \in Installations
    BY DEF TypeOK
  <2>2. NextRow \in DueRows /\ NextRow \in Scanned
    BY <2>1, NextRowScanned
  <2>3. NextRow \in DOMAIN Plan /\ Requests[NextRow] = Plan[NextRow]
    BY <2>2, RequestsTyped
  <2>4. IsEnabled(Requests[NextRow], install)
    BY <2>1, <2>2 DEF DueRows, EnabledRows
  <2> QED
    BY <2>1, <2>3, <2>4 DEF FeaturesMatchSizes
<1> QED
  BY <1>1, ScheduleTypeCorrect, PTL

(* What the sizes of a row depend on.                                      *)
Sized(row) ==
  /\ row.count \in 1 .. 125
  /\ row.space = "input" /\ row.first = 68  => "extended_pv" \in row.features
  /\ row.space = "input" /\ row.first = 252 => "pv" \in row.features

LEMMA FirmwareRowsSized == \A r \in DOMAIN DefaultPollPlan : Sized(DefaultPollPlan[r])
<1>1. DOMAIN DefaultPollPlan = 1 .. 48
  BY DEF DefaultPollPlan
<1>2. \A r \in 1 .. 12 : Sized(DefaultPollPlan[r])
  BY SMTT(60) DEF DefaultPollPlan, Row, Sized
<1>3. \A r \in 13 .. 24 : Sized(DefaultPollPlan[r])
  BY SMTT(60) DEF DefaultPollPlan, Row, Sized
<1>4. \A r \in 25 .. 36 : Sized(DefaultPollPlan[r])
  BY SMTT(60) DEF DefaultPollPlan, Row, Sized
<1>5. \A r \in 37 .. 48 : Sized(DefaultPollPlan[r])
  BY SMTT(60) DEF DefaultPollPlan, Row, Sized
<1> QED
  BY <1>1, <1>2, <1>3, <1>4, <1>5

LEMMA SizedRowsFit ==
  ASSUME NEW i \in Installation, NEW row, Sized(row), IsEnabled(row, i)
  PROVE  RegisterCount(row, i) \in 1 .. 125
<1>1. i.pv \in 0 .. 16
  BY DEF Installation
<1>2. /\ "extended_pv" \in row.features => i.pv > 2
      /\ "pv" \in row.features => i.pv > 0
  BY <1>1 DEF IsEnabled, EnabledFeatures, PvFeatures
<1> QED
  BY <1>1, <1>2 DEF Sized, RegisterCount

(* The firmware's plan, the features main.cpp enables and the sizes        *)
(* read_request cuts its blocks to agree for every installation that       *)
(* validate_config accepts: the poller never stops at an empty block.      *)
THEOREM FirmwareNeverStuck == ASSUME Plan = DefaultPollPlan PROVE Spec => []NeverStuckOnEmptyBlock
<1>1. FeaturesMatchSizes
  BY FirmwareRowsSized, SizedRowsFit, PlanAssumption DEF FeaturesMatchSizes
<1> QED
  BY <1>1, NeverStuck
-----------------------------------------------------------------------------
(*                      The turn of the status block                       *)

(* The status block and the one periodic block in front of it.             *)
StatusRow == 12
PriorityRow == 11

(* What the plan has to offer: the status block is critical, only setup    *)
(* blocks and one normal block precede it, and all of these are read in    *)
(* every installation.                                                     *)
StatusLeads ==
  /\ StatusRow \in Scanned
  /\ \A i \in Scanned : IsStatus(i) <=> i = StatusRow
  /\ Requests[StatusRow].cadence = "critical" /\ Requests[PriorityRow].cadence = "normal"
  /\ \A i \in Scanned : Requests[i].cadence \in Once <=> i < PriorityRow
  /\ \A i \in Scanned : i <= StatusRow => Requests[i].features = {}

LEMMA FirmwareStatusLeads ==
  ASSUME Plan = DefaultPollPlan, MaximumRequests >= StatusRow
  PROVE  StatusLeads
<1>1. DOMAIN DefaultPollPlan = 1 .. 48 /\ Len(DefaultPollPlan) = 48
  BY DEF DefaultPollPlan
<1> DEFINE n == IF 48 < MaximumRequests THEN 48 ELSE MaximumRequests
           Leads(r, row) ==
             /\ row.space = "input" /\ row.first = 0 <=> r = 12
             /\ row.cadence \in {"boot_once", "setup_once"} <=> r < 11
             /\ r <= 12 => row.features = {}
             /\ r = 11 => row.cadence = "normal"
             /\ r = 12 => row.cadence = "critical"
<1>2. \A r \in 1 .. 48 : Leads(r, DefaultPollPlan[r])
  <2>1. \A r \in 1 .. 12 : Leads(r, DefaultPollPlan[r])
    BY SMTT(60) DEF DefaultPollPlan, Row
  <2>2. \A r \in 13 .. 24 : Leads(r, DefaultPollPlan[r])
    BY SMTT(60) DEF DefaultPollPlan, Row
  <2>3. \A r \in 25 .. 36 : Leads(r, DefaultPollPlan[r])
    BY SMTT(60) DEF DefaultPollPlan, Row
  <2>4. \A r \in 37 .. 48 : Leads(r, DefaultPollPlan[r])
    BY SMTT(60) DEF DefaultPollPlan, Row
  <2> HIDE DEF Leads
  <2> QED
    BY <2>1, <2>2, <2>3, <2>4
<1>3. Scanned = 1 .. n /\ \A i \in 1 .. n : Requests[i] = DefaultPollPlan[i]
  <2>1. n \in Nat /\ n <= 48
    BY ScheduleAssumption
  <2>2. DefaultPollPlan \in Seq(PollRequest)
    BY PlanAssumption
  <2>3. Requests = SubSeq(DefaultPollPlan, 1, n)
    BY <1>1 DEF Requests
  <2> HIDE DEF n
  <2> QED
    BY <1>1, <2>1, <2>2, <2>3 DEF Scanned
<1>4. n \in 12 .. 48
  BY ScheduleAssumption DEF StatusRow
<1> HIDE DEF n
<1>5. \A i \in Scanned : Leads(i, Requests[i])
  <2>1. SUFFICES ASSUME NEW i \in Scanned PROVE Leads(i, Requests[i])
    OBVIOUS
  <2>2. n \in Nat /\ n <= 48 /\ i \in 1 .. n
    BY <1>3, <1>4, <2>1
  <2>3. i \in 1 .. 48
    BY <2>2
  <2>4. Requests[i] = DefaultPollPlan[i]
    BY <1>3, <2>2
  <2> QED
    BY <1>2, <2>3, <2>4
<1>6. 11 \in Scanned /\ 12 \in Scanned
  <2>1. n \in Nat /\ 12 <= n
    BY <1>4
  <2>2. 11 \in 1 .. n /\ 12 \in 1 .. n
    BY <2>1
  <2> QED
    BY <1>3, <2>2, Zenon
<1>7. Requests[12].cadence = "critical" /\ Requests[11].cadence = "normal"
  BY <1>5, <1>6
<1>8. \A i \in Scanned :
        /\ IsStatus(i) <=> i = 12
        /\ Requests[i].cadence \in Once <=> i < 11
        /\ i <= 12 => Requests[i].features = {}
  <2>1. SUFFICES ASSUME NEW i \in Scanned
                 PROVE  /\ IsStatus(i) <=> i = 12
                        /\ Requests[i].cadence \in Once <=> i < 11
                        /\ i <= 12 => Requests[i].features = {}
    OBVIOUS
  <2>2. Leads(i, Requests[i])
    BY <1>5
  <2> QED
    BY <2>2, Zenon DEF IsStatus, Once
<1> QED
  BY <1>6, <1>7, <1>8 DEF StatusLeads, StatusRow, PriorityRow

LEMMA FirstOfIsLeast ==
  ASSUME NEW T \in SUBSET Nat, NEW j \in T
  PROVE  FirstOf(T) <= j
<1> DEFINE R == {ss \in Nat \X Nat : ss[1] < ss[2]}
<1>1. PICK x \in T : \A y \in T : ~(<<y, x>> \in R)
  <2> HIDE DEF R
  <2>1. IsWellFoundedOn(R, Nat)
    BY NatLessThanWellFounded DEF R, OpToRel
  <2> QED
    BY <2>1, WFMin
<1>2. \A y \in T : ~(y < x)
  BY <1>1
<1>3. \A y \in T : x <= y
  BY <1>2
<1> QED
  BY <1>3 DEF FirstOf

LEMMA DueOnce ==
  ASSUME NEW i \in Scanned, Requests[i].cadence \in Once
  PROVE  IsDue(i) <=> ~completed[i]
<1>1. ~IsPeriodic(i)
  BY DEF IsPeriodic, Periodic, Once
<1> QED
  BY <1>1 DEF IsDue

LEMMA LeadingRows ==
  ASSUME StatusLeads
  PROVE  /\ StatusRow \in Scanned /\ PriorityRow \in Scanned /\ PriorityRow < StatusRow
         /\ IsPeriodic(StatusRow) /\ IsPeriodic(PriorityRow)
         /\ Limit(StatusRow) = Interval["critical"] /\ Limit(PriorityRow) = Interval["normal"]
         /\ Interval["critical"] \in Nat /\ Interval["normal"] \in Nat
         /\ OthersCap >= 12
<1>1. DOMAIN Requests = 1 .. Len(Requests) /\ Len(Requests) \in Nat
  <2>1. Plan \in Seq(PollRequest) /\ MaximumRequests \in Nat
    BY ScheduleAssumption, PlanAssumption
  <2> QED
    BY <2>1 DEF Requests
<1>2. StatusRow \in Scanned /\ PriorityRow \in Scanned /\ PriorityRow < StatusRow /\ OthersCap >= 12
  BY <1>1 DEF StatusLeads, Scanned, StatusRow, PriorityRow, OthersCap
<1>3. IsPeriodic(StatusRow) /\ IsPeriodic(PriorityRow)
  BY DEF StatusLeads, IsPeriodic, Periodic
<1>4. Interval["critical"] \in Nat /\ Interval["normal"] \in Nat
  BY ScheduleAssumption DEF Periodic
<1> QED
  BY <1>2, <1>3, <1>4 DEF Limit, StatusLeads

(* Once the setup is done and the status is due, it is read now or after   *)
(* the normal block in front of it.                                        *)
LEMMA DueStatusIsNext ==
  ASSUME StatusLeads, TypeOK, SetupDone, age[StatusRow] = Interval["critical"]
  PROVE  /\ DueRows # {} /\ NextRow \in {PriorityRow, StatusRow}
         /\ age[PriorityRow] < Interval["normal"] => NextRow = StatusRow
<1>1. /\ StatusRow \in Scanned /\ IsPeriodic(StatusRow) /\ install \in Installations
      /\ Requests[StatusRow].cadence = "critical"
  BY LeadingRows DEF TypeOK, StatusLeads
<1>2. IsDue(StatusRow)
  BY <1>1 DEF IsDue, Once
<1>3. IsEnabled(Requests[StatusRow], install)
  BY <1>1 DEF StatusLeads, IsEnabled, StatusRow
<1>4. StatusRow \in DueRows
  BY <1>1, <1>2, <1>3 DEF DueRows, EnabledRows
<1>5. NextRow \in DueRows /\ NextRow \in Scanned
  BY <1>1, <1>4, NextRowScanned
<1>6. NextRow <= StatusRow
  <2>1. DueRows \in SUBSET Nat
    BY RequestsTyped, <1>1 DEF DueRows, EnabledRows
  <2> QED
    BY <1>4, <2>1, FirstOfIsLeast DEF NextRow
<1>7. IsDue(NextRow)
  BY <1>5 DEF DueRows
<1>8. ~(NextRow < PriorityRow)
  BY <1>5, <1>7, DueOnce DEF StatusLeads, SetupDone
<1>9. NextRow \in {PriorityRow, StatusRow}
  BY <1>5, <1>6, <1>8, RequestsTyped DEF PriorityRow, StatusRow
<1>10. ASSUME NextRow = PriorityRow
       PROVE  age[PriorityRow] = Interval["normal"]
  <2>1. Requests[PriorityRow].cadence = "normal"
    BY DEF StatusLeads
  <2> QED
    BY <1>7, <1>10, <2>1 DEF IsDue, IsPeriodic, Once, Periodic
<1>11. age[PriorityRow] < Interval["normal"] => NextRow # PriorityRow
  BY <1>10, LeadingRows
<1> QED
  BY <1>4, <1>9, <1>11

(* The status block is read only when the setup is done.                   *)
LEMMA StatusAfterSetup ==
  ASSUME StatusLeads, TypeOK, DueRows # {}, NextRow = StatusRow
  PROVE  SetupDone
<1>1. SUFFICES ASSUME NEW i \in Scanned, Requests[i].cadence \in Once, ~completed[i]
               PROVE  FALSE
  BY DEF SetupDone
<1>2. i < PriorityRow /\ i \in Nat /\ install \in Installations
  BY <1>1, RequestsTyped DEF StatusLeads, TypeOK
<1>3. Requests[i].features = {}
  BY <1>2 DEF StatusLeads, PriorityRow, StatusRow
<1>4. i \in DueRows
  <2>1. IsDue(i) /\ IsEnabled(Requests[i], install)
    BY <1>1, <1>3, DueOnce DEF IsEnabled
  <2> QED
    BY <1>2, <2>1 DEF DueRows, EnabledRows
<1>5. NextRow <= i
  <2>1. DueRows \in SUBSET Nat
    BY RequestsTyped, <1>2 DEF DueRows, EnabledRows
  <2> QED
    BY <1>4, <2>1, FirstOfIsLeast DEF NextRow
<1> QED
  BY <1>2, <1>5 DEF PriorityRow, StatusRow
-----------------------------------------------------------------------------
(*                     Reads between two status reads                      *)

(* The sleep that is still to come in this loop.                           *)
Coming == IF phase = "sleep" THEN LoopDelay ELSE 0

(* How long the status has not been read after none, one and two other     *)
(* reads; a third one is that of the normal block, which is not due again  *)
(* before the status is read.                                              *)
SoonInv ==
  /\ others <= 3 /\ (others > 0 => SetupDone /\ ready)
  /\ others = 0 /\ phase # "sleep" => age[StatusRow] >= Cap(LoopDelay, Interval["critical"])
  /\ others = 1 => age[StatusRow] >= Cap(LoopDelay + slot, Interval["critical"])
  /\ others >= 2 => age[StatusRow] + Coming >= Interval["critical"]
  /\ others = 3 =>
       /\ age[StatusRow] = Interval["critical"] /\ age[PriorityRow] < Interval["normal"]
       /\ phase # "poll" => age[PriorityRow] + Coming <= LoopDelay

(* The age of the snapshot while the loop only polls: that of the status   *)
(* block until this is due; then it waits for at most the read that was    *)
(* under way and the normal block in front of it.                          *)
FreshInv ==
  /\ known => SetupDone /\ ready
  /\ known /\ quiet =>
       \/ age[StatusRow] < Interval["critical"] /\ stateAge = age[StatusRow]
       \/ /\ age[StatusRow] = Interval["critical"]
          /\ stateAge + Coming + (Gap - Cap(slot + Coming, Gap)) < LateTurn
       \/ /\ age[StatusRow] = Interval["critical"]
          /\ stateAge + Coming < LateTurn + ResponseTimeout + LoopDelay
          /\ age[PriorityRow] + Coming <= LoopDelay


(* t ticks make the two blocks older, up to their intervals.               *)
LEMMA AgedRows ==
  ASSUME StatusLeads, NEW t
  PROVE  /\ Aged(t)[StatusRow] = Cap(age[StatusRow] + t, Interval["critical"])
         /\ Aged(t)[PriorityRow] = Cap(age[PriorityRow] + t, Interval["normal"])
BY LeadingRows DEF Aged, StatusLeads

LEMMA ReadRows ==
  ASSUME StatusLeads, TypeOK, NEW reply \in ReplyTimes, ReadDue(reply)
  PROVE  /\ NextRow \in Scanned
         /\ age'[StatusRow] = IF NextRow = StatusRow THEN 0
              ELSE Cap(age[StatusRow] + FirstTransaction(reply), Interval["critical"])
         /\ age'[PriorityRow] = IF NextRow = PriorityRow THEN 0
              ELSE Cap(age[PriorityRow] + FirstTransaction(reply), Interval["normal"])
<1> DEFINE t == FirstTransaction(reply)
<1>1. NextRow \in Scanned /\ StatusRow \in Scanned /\ PriorityRow \in Scanned
  BY NextRowScanned, LeadingRows DEF ReadDue, TypeOK
<1>2. age' = [Aged(t) EXCEPT ![NextRow] = IF IsPeriodic(NextRow) THEN 0 ELSE @]
  BY DEF ReadDue, Stamped
<1>3. DOMAIN Aged(t) = Scanned
  BY DEF Aged
<1> HIDE DEF t
<1>4. \A r \in Scanned : age'[r] = IF r = NextRow THEN (IF IsPeriodic(NextRow) THEN 0 ELSE Aged(t)[r])
                                   ELSE Aged(t)[r]
  BY <1>1, <1>2, <1>3
<1> QED
  BY <1>1, <1>4, AgedRows, LeadingRows DEF t

(* A setup that is done stays done for the session.                        *)
LEMMA SetupStays ==
  ASSUME TypeOK, SetupDone, UNCHANGED completed \/ \E reply \in ReplyTimes : ReadDue(reply)
  PROVE  SetupDone'
<1>1. CASE UNCHANGED completed
  BY <1>1 DEF SetupDone
<1>2. CASE \E reply \in ReplyTimes : ReadDue(reply)
  <2>1. PICK ok \in BOOLEAN : completed' = [completed EXCEPT ![NextRow] = @ \/ ok]
    BY <1>2 DEF ReadDue, CompletedBy
  <2>2. completed \in [Scanned -> BOOLEAN]
    BY DEF TypeOK
  <2>3. \A i \in Scanned : completed[i] => completed'[i]
    BY <2>1, <2>2
  <2> QED
    BY <2>3 DEF SetupDone
<1> QED
  BY <1>1, <1>2

(* The numbers the two blocks, the slot and the times are.                 *)
LEMMA TimesAreNumbers ==
  ASSUME StatusLeads, TypeOK
  PROVE  /\ age[StatusRow] \in Nat /\ age[StatusRow] <= Interval["critical"]
         /\ age[PriorityRow] \in Nat /\ age[PriorityRow] <= Interval["normal"]
         /\ slot \in 0 .. Gap /\ stateAge \in 0 .. Freshness + 1 /\ others \in Nat
         /\ Interval["critical"] \in Nat /\ Interval["normal"] \in Nat
         /\ Gap \in Nat /\ LoopDelay \in Nat \ {0} /\ Freshness \in Nat /\ ResponseTimeout \in Nat
         /\ OthersCap \in Nat /\ OthersCap >= 12
<1>1. age \in Ages /\ StatusRow \in Scanned /\ PriorityRow \in Scanned
  BY TypeOKParts, LeadingRows
<1>2. /\ age[StatusRow] \in Nat /\ age[StatusRow] <= Interval["critical"]
      /\ age[PriorityRow] \in Nat /\ age[PriorityRow] <= Interval["normal"]
  BY <1>1, LeadingRows DEF Ages
<1> QED
  BY <1>2, LeadingRows, ScheduleAssumption, RequestsTyped DEF TypeOK

LEMMA SoonRead ==
  ASSUME StatusLeads, TwoReadsLast, CommandsShort, TypeOK, SoonInv,
         NEW reply \in ReplyTimes, ReadDue(reply)
  PROVE  SoonInv'
<1> DEFINE C == Interval["critical"]
           N == Interval["normal"]
           a == age[StatusRow]
           p == age[PriorityRow]
           t == FirstTransaction(reply)
<1>1. /\ phase = "poll" /\ phase' = "sleep" /\ ready /\ ready' /\ slot' = Cap(reply, Gap)
      /\ DueRows # {}
  BY DEF ReadDue
<1>2. /\ NextRow \in Scanned
      /\ age'[StatusRow] = IF NextRow = StatusRow THEN 0 ELSE Cap(a + t, C)
      /\ age'[PriorityRow] = IF NextRow = PriorityRow THEN 0 ELSE Cap(p + t, N)
  BY ReadRows
<1>3. IsStatus(NextRow) <=> NextRow = StatusRow
  BY <1>2 DEF StatusLeads
<1>4. /\ a \in Nat /\ a <= C /\ p \in Nat /\ p <= N /\ slot \in 0 .. Gap /\ others \in Nat
      /\ C \in Nat /\ N \in Nat /\ Gap \in Nat /\ LoopDelay \in Nat \ {0}
      /\ OthersCap \in Nat /\ OthersCap >= 12
  BY TimesAreNumbers
<1>5. /\ reply \in Nat /\ reply >= 1 /\ t = (Gap - slot) + reply
      /\ C <= Gap + 2 * LoopDelay + reply
  BY ScheduleAssumption DEF FirstTransaction, TwoReadsLast
<1>6. CASE NextRow = StatusRow \/ ~SetupDone
  <2>1. others' = 0
    BY <1>3, <1>6 DEF ReadDue
  <2> QED
    BY <1>1, <2>1 DEF SoonInv
<1>7. CASE NextRow # StatusRow /\ SetupDone
  <2>1. SetupDone'
    BY <1>7, SetupStays
  <2>2. others' = Cap(others + 1, OthersCap) /\ others <= 3
    BY <1>3, <1>7 DEF ReadDue, SoonInv
  <2>3. others' = others + 1
    BY <1>4, <2>2 DEF Cap
  <2>4. age'[StatusRow] = Cap(a + t, C)
    BY <1>2, <1>7
  <2>5. CASE others = 0
    <3>1. a >= Cap(LoopDelay, C)
      BY <1>1, <2>5 DEF SoonInv
    <3>2. Cap(a + t, C) >= Cap(LoopDelay + Cap(reply, Gap), C)
      <4> HIDE DEF C, a, t
      <4> QED
        BY <1>4, <1>5, <3>1 DEF Cap
    <3> QED
      BY <1>1, <2>1, <2>3, <2>4, <2>5, <3>2 DEF SoonInv
  <2>6. CASE others = 1
    <3>1. a >= Cap(LoopDelay + slot, C)
      BY <2>6 DEF SoonInv
    <3>2. Cap(a + t, C) + LoopDelay >= C
      <4> HIDE DEF C, a, t
      <4> QED
        BY <1>4, <1>5, <3>1 DEF Cap
    <3> QED
      BY <1>1, <2>1, <2>3, <2>4, <2>6, <3>2 DEF SoonInv, Coming
  <2>7. CASE others = 2
    <3>1. a = C
      BY <1>1, <1>4, <2>7 DEF SoonInv, Coming
    <3>2. NextRow = PriorityRow
      BY <1>7, <3>1, DueStatusIsNext
    <3>3. age'[PriorityRow] = 0 /\ age'[StatusRow] = C
      <4>1. Cap(a + t, C) = C
        <5> HIDE DEF C, a, t
        <5> QED
          BY <1>4, <1>5, <3>1 DEF Cap
      <4> QED
        BY <1>2, <2>4, <3>2, <4>1
    <3>4. LoopDelay < N
      BY DEF CommandsShort
    <3> HIDE DEF C, N
    <3>5. others' = 3 /\ age'[StatusRow] + LoopDelay >= C /\ age'[PriorityRow] < N
          /\ age'[PriorityRow] + LoopDelay <= LoopDelay
      BY <1>4, <2>3, <2>7, <3>3, <3>4
    <3> QED
      BY <1>1, <2>1, <3>3, <3>5 DEF SoonInv, Coming, C, N
  <2>8. CASE others = 3
    <3>1. a = C /\ p < N
      BY <2>8 DEF SoonInv
    <3> QED
      BY <1>7, <3>1, DueStatusIsNext
  <2> QED
    BY <1>4, <2>2, <2>5, <2>6, <2>7, <2>8
<1> QED
  BY <1>6, <1>7

LEMMA SoonCommand ==
  ASSUME StatusLeads, CommandsShort, TypeOK, SoonInv,
         NEW n \in CommandLengths, NEW reply \in ReplyTimes, ExecuteCommand(n, reply)
  PROVE  SoonInv'
<1> DEFINE C == Interval["critical"]
           N == Interval["normal"]
           a == age[StatusRow]
           p == age[PriorityRow]
           rest == (n - 1) * LaterTransaction(reply)
           t == FirstTransaction(reply) + rest
<1>1. /\ phase = "command" /\ phase' = "poll" /\ slot' = Cap(reply, Gap)
      /\ UNCHANGED <<ready, completed, others>> /\ age' = Aged(t)
  BY DEF ExecuteCommand
<1>2. age'[StatusRow] = Cap(a + t, C) /\ age'[PriorityRow] = Cap(p + t, N)
  BY <1>1, AgedRows
<1>3. /\ a \in Nat /\ a <= C /\ p \in Nat /\ p <= N /\ slot \in 0 .. Gap /\ others \in Nat
      /\ C \in Nat /\ N \in Nat /\ Gap \in Nat /\ LoopDelay \in Nat \ {0}
  BY TimesAreNumbers
<1>4. reply \in Nat /\ reply >= 1 /\ rest \in Nat /\ FirstTransaction(reply) = (Gap - slot) + reply
  <2>1. n - 1 \in Nat /\ LaterTransaction(reply) \in Nat
    BY <1>3, ScheduleAssumption, TimesTyped
  <2>2. \A x, y \in Nat : x * y \in Nat
    OBVIOUS
  <2> QED
    BY <2>1, <2>2, ScheduleAssumption DEF FirstTransaction
<1>5. LoopDelay + ((Gap - slot) + reply + rest) < N
  BY <1>3 DEF CommandsShort
<1> HIDE DEF rest
<1>6. t = (Gap - slot) + reply + rest
  BY <1>4
<1>7. SetupDone => SetupDone'
  BY <1>1, SetupStays
<1> HIDE DEF C, N, a, p, t
<1>8. others = 0 => Cap(a + t, C) >= Cap(LoopDelay, C)
  <2>1. others = 0 => a >= Cap(LoopDelay, C)
    BY <1>1 DEF SoonInv, C, a
  <2> QED
    BY <1>3, <1>4, <1>6, <2>1 DEF Cap
<1>9. others = 1 => Cap(a + t, C) >= Cap(LoopDelay + Cap(reply, Gap), C)
  <2>1. others = 1 => a >= Cap(LoopDelay + slot, C)
    BY DEF SoonInv, C, a
  <2> QED
    BY <1>3, <1>4, <1>6, <2>1 DEF Cap
<1>10. others >= 2 => Cap(a + t, C) >= C
  <2>1. others >= 2 => a >= C
    BY <1>1, <1>3 DEF SoonInv, Coming, C, a
  <2> QED
    BY <1>3, <1>4, <1>6, <2>1 DEF Cap
<1>11. others = 3 => Cap(a + t, C) = C /\ Cap(p + t, N) < N
  <2>1. others = 3 => a = C /\ p <= LoopDelay
    BY <1>1, <1>3 DEF SoonInv, Coming, C, a, p
  <2> QED
    BY <1>3, <1>4, <1>5, <1>6, <2>1 DEF Cap
<1>12. others <= 3 /\ (others > 0 => SetupDone /\ ready)
  BY DEF SoonInv
<1>13. Coming' = 0
  BY <1>1 DEF Coming
<1>14. others >= 2 => Cap(a + t, C) + 0 >= C
  BY <1>3, <1>4, <1>6, <1>10 DEF Cap
<1> QED
  BY <1>1, <1>2, <1>7, <1>8, <1>9, <1>11, <1>12, <1>13, <1>14 DEF SoonInv, C, N

LEMMA SoonSleep ==
  ASSUME StatusLeads, CommandsShort, TypeOK, SoonInv, Sleep
  PROVE  SoonInv'
<1> DEFINE C == Interval["critical"]
           N == Interval["normal"]
           a == age[StatusRow]
           p == age[PriorityRow]
<1>1. /\ phase = "sleep" /\ phase' = "command" /\ slot' = Cap(slot + LoopDelay, Gap)
      /\ UNCHANGED <<ready, completed, others>> /\ age' = Aged(LoopDelay)
  BY DEF Sleep
<1>2. age'[StatusRow] = Cap(a + LoopDelay, C) /\ age'[PriorityRow] = Cap(p + LoopDelay, N)
  BY <1>1, AgedRows
<1>3. /\ a \in Nat /\ a <= C /\ p \in Nat /\ p <= N /\ slot \in 0 .. Gap /\ others \in Nat
      /\ C \in Nat /\ N \in Nat /\ Gap \in Nat /\ LoopDelay \in Nat \ {0} /\ LoopDelay < N
  BY TimesAreNumbers DEF CommandsShort
<1>4. SetupDone => SetupDone'
  BY <1>1, SetupStays
<1> HIDE DEF C, N, a, p
<1>5. Cap(a + LoopDelay, C) >= Cap(LoopDelay, C)
  BY <1>3 DEF Cap
<1>6. others = 1 => Cap(a + LoopDelay, C) >= Cap(LoopDelay + Cap(slot + LoopDelay, Gap), C)
  <2>1. others = 1 => a >= Cap(LoopDelay + slot, C)
    BY DEF SoonInv, C, a
  <2> QED
    BY <1>3, <2>1 DEF Cap
<1>7. others >= 2 => Cap(a + LoopDelay, C) + 0 >= C
  <2>1. others >= 2 => a + LoopDelay >= C
    BY <1>1 DEF SoonInv, Coming, C, a
  <2> QED
    BY <1>3, <2>1 DEF Cap
<1>8. others = 3 => /\ Cap(a + LoopDelay, C) = C /\ Cap(p + LoopDelay, N) < N
                    /\ Cap(p + LoopDelay, N) + 0 <= LoopDelay
  <2>1. others = 3 => a = C /\ p + LoopDelay <= LoopDelay
    BY <1>1 DEF SoonInv, Coming, C, a, p
  <2> QED
    BY <1>3, <2>1 DEF Cap
<1>9. others <= 3 /\ (others > 0 => SetupDone /\ ready)
  BY DEF SoonInv
<1>10. Coming' = 0
  BY <1>1 DEF Coming
<1> QED
  BY <1>1, <1>2, <1>4, <1>5, <1>6, <1>7, <1>8, <1>9, <1>10 DEF SoonInv, C, N

(* A poll that reads nothing does so while the status block is not due, or *)
(* while the coordinator is not known.                                     *)
LEMMA NothingReadNotDue ==
  ASSUME StatusLeads, TypeOK, NeverStuckOnEmptyBlock, NothingRead, SetupDone, ready
  PROVE  age[StatusRow] # Interval["critical"]
<1> SUFFICES ASSUME age[StatusRow] = Interval["critical"] PROVE FALSE
  OBVIOUS
<1>1. DueRows # {}
  BY DueStatusIsNext
<1> QED
  BY <1>1 DEF NothingRead, NeverStuckOnEmptyBlock

LEMMA SoonNothingRead ==
  ASSUME StatusLeads, TypeOK, NeverStuckOnEmptyBlock, SoonInv, NothingRead
  PROVE  SoonInv'
<1>1. /\ phase = "poll" /\ phase' = "sleep"
      /\ UNCHANGED <<ready, completed, age, slot, others>>
  BY DEF NothingRead, schedule
<1>2. SetupDone => SetupDone'
  BY <1>1, SetupStays
<1>3. others # 3
  <2>1. SUFFICES ASSUME others = 3 PROVE FALSE
    OBVIOUS
  <2>2. SetupDone /\ ready /\ age[StatusRow] = Interval["critical"]
    BY <2>1 DEF SoonInv
  <2> QED
    BY <2>2, NothingReadNotDue
<1>4. /\ age[StatusRow] \in Nat /\ Interval["critical"] \in Nat /\ LoopDelay \in Nat /\ others \in Nat
  BY TimesAreNumbers
<1>5. others >= 2 => age[StatusRow] + LoopDelay >= Interval["critical"]
  BY <1>1, <1>4 DEF SoonInv, Coming
<1> QED
  BY <1>1, <1>2, <1>3, <1>4, <1>5 DEF SoonInv, Coming

LEMMA SoonStart ==
  ASSUME StatusLeads, age = NeverPolled, others = 0
  PROVE  SoonInv
<1>1. age[StatusRow] = Interval["critical"]
  BY LeadingRows DEF NeverPolled, StatusLeads
<1>2. Interval["critical"] \in Nat /\ LoopDelay \in Nat
  BY LeadingRows, ScheduleAssumption
<1>3. Interval["critical"] >= Cap(LoopDelay, Interval["critical"])
  BY <1>2 DEF Cap
<1> QED
  BY <1>1, <1>3 DEF SoonInv

LEMMA SoonStep ==
  ASSUME StatusLeads, TwoReadsLast, CommandsShort,
         TypeOK, NeverStuckOnEmptyBlock, SoonInv, [Next]_vars
  PROVE  SoonInv'
<1>1. CASE UNCHANGED vars
  BY <1>1 DEF vars, schedule, SoonInv, Coming, SetupDone
<1>2. CASE LearnCoordinator
  BY <1>2 DEF LearnCoordinator, schedule, SoonInv, Coming, SetupDone
<1>3. CASE NewSession
  <2>1. age' = NeverPolled /\ others' = 0
    BY <1>3 DEF NewSession
  <2>2. age'[StatusRow] = Interval["critical"]
    BY <2>1, LeadingRows DEF NeverPolled, StatusLeads
  <2>3. Interval["critical"] >= Cap(LoopDelay, Interval["critical"])
    BY LeadingRows, ScheduleAssumption DEF Cap
  <2> QED
    BY <2>1, <2>2, <2>3 DEF SoonInv
<1>4. CASE NoCommandWaiting
  BY <1>4 DEF NoCommandWaiting, schedule, SoonInv, Coming, SetupDone
<1>5. CASE NothingRead
  BY <1>5, SoonNothingRead
<1>6. CASE Sleep
  BY <1>6, SoonSleep
<1>7. CASE \E reply \in ReplyTimes : \/ ReadDue(reply)
                                    \/ \E n \in CommandLengths : ExecuteCommand(n, reply)
  BY <1>7, SoonRead, SoonCommand
<1> QED
  BY <1>1, <1>2, <1>3, <1>4, <1>5, <1>6, <1>7 DEF Next, LoopStep, LoopStepWith

(* Between two reads of the status, or after the setup, at most three      *)
(* other blocks are read, when two reads of other blocks take as long as   *)
(* the status interval and no command makes the normal block due again.    *)
THEOREM StatusIsSoonRead ==
  ASSUME StatusLeads, FeaturesMatchSizes, TwoReadsLast, CommandsShort
  PROVE  Spec => []StatusSoonRead
<1>1. Init => SoonInv
  BY SoonStart DEF Init
<1>2. TypeOK /\ NeverStuckOnEmptyBlock /\ SoonInv /\ [Next]_vars => SoonInv'
  BY SoonStep
<1>3. SoonInv => StatusSoonRead
  BY DEF SoonInv, StatusSoonRead
<1> QED
  BY <1>1, <1>2, <1>3, ScheduleTypeCorrect, NeverStuck, PTL DEF Spec
-----------------------------------------------------------------------------
(*                        The age of the snapshot                          *)

LEMMA FreshTimes ==
  ASSUME FreshnessSuffices
  PROVE  /\ LoopDelay < Interval["normal"]
         /\ LateTurn \in Nat /\ LateTurn + ResponseTimeout + LoopDelay <= Freshness
         /\ LateTurn >= Interval["critical"] + Gap + ResponseTimeout + LoopDelay
         /\ LateTurn >= Interval["critical"] + Gap + Gap
<1>1. /\ Interval["critical"] \in Nat /\ Gap \in Nat /\ ResponseTimeout \in Nat /\ LoopDelay \in Nat
  BY ScheduleAssumption DEF Periodic
<1> QED
  BY <1>1 DEF FreshnessSuffices, LateTurn, Longer

(* A read ages the snapshot by its transaction, a read of the status       *)
(* refreshes it or ends the quiet time.                                    *)
LEMMA FreshRead ==
  ASSUME StatusLeads, FreshnessSuffices, TypeOK, FreshInv,
         NEW reply \in ReplyTimes, ReadDue(reply)
  PROVE  FreshInv'
<1> DEFINE C == Interval["critical"]
           a == age[StatusRow]
           p == age[PriorityRow]
           t == FirstTransaction(reply)
<1>1. /\ phase = "poll" /\ phase' = "sleep" /\ ready /\ ready' /\ slot' = Cap(reply, Gap)
      /\ DueRows # {}
  BY DEF ReadDue
<1>2. /\ NextRow \in Scanned
      /\ age'[StatusRow] = IF NextRow = StatusRow THEN 0 ELSE Cap(a + t, C)
      /\ NextRow = PriorityRow => age'[PriorityRow] = 0
  BY ReadRows
<1>3. IsStatus(NextRow) <=> NextRow = StatusRow
  BY <1>2 DEF StatusLeads
<1>4. /\ a \in Nat /\ a <= C /\ p \in Nat /\ slot \in 0 .. Gap /\ stateAge \in Nat
      /\ C \in Nat /\ Gap \in Nat /\ LoopDelay \in Nat \ {0} /\ Freshness \in Nat
      /\ ResponseTimeout \in Nat
  BY TimesAreNumbers
<1>5. reply \in Nat /\ reply >= 1 /\ reply <= ResponseTimeout /\ t = (Gap - slot) + reply
  BY ScheduleAssumption DEF FirstTransaction
<1>6. Coming' = LoopDelay /\ Coming = 0
  BY <1>1 DEF Coming
<1>7. SetupDone => SetupDone'
  BY SetupStays
<1>8. CASE NextRow = StatusRow
  <2>1. SetupDone' /\ ready'
    BY <1>1, <1>7, <1>8, StatusAfterSetup
  <2>2. quiet' => stateAge' = 0
    BY <1>3, <1>8 DEF ReadDue
  <2>3. age'[StatusRow] = 0
    BY <1>2, <1>8
  <2>4. 0 + LoopDelay + (Gap - Cap(Cap(reply, Gap) + LoopDelay, Gap)) < LateTurn
    <3> HIDE DEF t
    <3> QED
      BY <1>4, <1>5, FreshTimes DEF Cap
  <2>5. quiet' => \/ age'[StatusRow] < C /\ stateAge' = age'[StatusRow]
                  \/ /\ age'[StatusRow] = C
                     /\ stateAge' + Coming' + (Gap - Cap(slot' + Coming', Gap)) < LateTurn
    <3>1. 0 < C \/ 0 = C
      BY <1>4
    <3> QED
      BY <1>1, <1>6, <2>2, <2>3, <2>4, <3>1
  <2> QED
    BY <2>1, <2>5 DEF FreshInv
<1>9. CASE NextRow # StatusRow
  <2>1. known' = known /\ quiet' = quiet /\ stateAge' = StateAged(t)
    <3>1. known \in BOOLEAN
      BY DEF TypeOK
    <3> QED
      BY <1>3, <1>9, <3>1 DEF ReadDue
  <2>2. SUFFICES ASSUME known, quiet PROVE FreshInv'
    BY <1>1, <1>7, <2>1 DEF FreshInv
  <2>3. SetupDone /\ SetupDone' /\ stateAge' = Cap(stateAge + t, Freshness + 1)
    BY <1>7, <2>1, <2>2 DEF FreshInv, StateAged
  <2>4. age'[StatusRow] = Cap(a + t, C)
    BY <1>2, <1>9
  <2>5. CASE a < C
    <3>1. stateAge = a
      BY <1>4, <2>2, <2>5 DEF FreshInv
    <3>2. \/ Cap(a + t, C) < C /\ stateAge' = Cap(a + t, C)
          \/ /\ Cap(a + t, C) = C
             /\ stateAge' + LoopDelay + (Gap - Cap(Cap(reply, Gap) + LoopDelay, Gap)) < LateTurn
      <4>1. C <= Freshness
        BY <1>4, FreshTimes
      <4> HIDE DEF C, a, t
      <4>2. CASE a + t < C
        BY <1>4, <1>5, <2>3, <3>1, <4>1, <4>2 DEF Cap
      <4>3. CASE ~(a + t < C)
        <5>1. stateAge' <= a + t /\ stateAge' \in Nat
          BY <1>4, <1>5, <2>3, <3>1 DEF Cap
        <5>2. a + t + LoopDelay + (Gap - Cap(Cap(reply, Gap) + LoopDelay, Gap)) < LateTurn
          BY <1>4, <1>5, <2>5, FreshTimes DEF Cap, C
        <5>3. Cap(Cap(reply, Gap) + LoopDelay, Gap) \in Nat
          BY <1>4, <1>5 DEF Cap
        <5> QED
          BY <1>4, <1>5, <4>3, <5>1, <5>2, <5>3, FreshTimes DEF Cap
      <4> QED
        BY <4>2, <4>3
    <3> QED
      BY <1>1, <1>6, <2>3, <2>4, <3>2 DEF FreshInv
  <2>6. CASE a = C
    <3>1. NextRow = PriorityRow /\ ~(p < Interval["normal"])
      BY <1>9, <2>3, <2>6, DueStatusIsNext
    <3>2. ~(p <= LoopDelay)
      BY <1>4, <3>1, FreshTimes, TimesAreNumbers
    <3>3. stateAge + (Gap - slot) < LateTurn
      <4>1. stateAge + 0 + (Gap - Cap(slot + 0, Gap)) < LateTurn
        BY <1>4, <1>6, <2>2, <2>6, <3>2 DEF FreshInv
      <4> QED
        BY <1>4, <4>1 DEF Cap
    <3>4. Cap(a + t, C) = C
      <4> HIDE DEF C, a, t
      <4> QED
        BY <1>4, <1>5, <2>6 DEF Cap
    <3>5. stateAge' + LoopDelay < LateTurn + ResponseTimeout + LoopDelay
      <4> HIDE DEF t
      <4> QED
        BY <1>4, <1>5, <2>3, <3>3, FreshTimes DEF Cap
    <3>6. age'[PriorityRow] + LoopDelay <= LoopDelay
      BY <1>2, <1>4, <3>1
    <3> QED
      BY <1>1, <1>6, <2>3, <2>4, <3>4, <3>5, <3>6 DEF FreshInv
  <2> QED
    BY <1>4, <2>5, <2>6
<1> QED
  BY <1>8, <1>9

LEMMA FreshSleep ==
  ASSUME StatusLeads, FreshnessSuffices, TypeOK, FreshInv, Sleep
  PROVE  FreshInv'
<1> DEFINE C == Interval["critical"]
           a == age[StatusRow]
           p == age[PriorityRow]
<1>1. /\ phase = "sleep" /\ phase' = "command" /\ slot' = Cap(slot + LoopDelay, Gap)
      /\ stateAge' = StateAged(LoopDelay) /\ age' = Aged(LoopDelay)
      /\ UNCHANGED <<ready, completed, known, quiet>>
  BY DEF Sleep
<1>2. SetupDone => SetupDone'
  BY <1>1, SetupStays
<1>3. SUFFICES ASSUME known, quiet PROVE FreshInv'
  BY <1>1, <1>2 DEF FreshInv
<1>4. /\ age'[StatusRow] = Cap(a + LoopDelay, C)
      /\ age'[PriorityRow] = Cap(p + LoopDelay, Interval["normal"])
      /\ stateAge' = Cap(stateAge + LoopDelay, Freshness + 1)
  BY <1>1, <1>3, AgedRows DEF StateAged
<1>5. /\ a \in Nat /\ a <= C /\ p \in Nat /\ slot \in 0 .. Gap /\ stateAge \in Nat
      /\ C \in Nat /\ Gap \in Nat /\ LoopDelay \in Nat \ {0} /\ Freshness \in Nat
      /\ ResponseTimeout \in Nat /\ Interval["normal"] \in Nat
  BY TimesAreNumbers
<1>6. Coming = LoopDelay /\ Coming' = 0 /\ SetupDone' /\ ready'
  BY <1>1, <1>2, <1>3 DEF Coming, FreshInv
<1>7. CASE a < C
  <2>1. stateAge = a
    BY <1>3, <1>5, <1>7 DEF FreshInv
  <2>2. C <= Freshness
    BY <1>5, FreshTimes
  <2>3. \/ Cap(a + LoopDelay, C) < C /\ stateAge' = Cap(a + LoopDelay, C)
        \/ /\ Cap(a + LoopDelay, C) = C
           /\ stateAge' + 0 + (Gap - Cap(Cap(slot + LoopDelay, Gap) + 0, Gap)) < LateTurn
    <3>1. C + Gap + LoopDelay <= LateTurn
      BY <1>5, FreshTimes
    <3>2. LateTurn \in Nat
      BY FreshTimes
    <3> HIDE DEF C, a
    <3> QED
      BY <1>4, <1>5, <1>7, <2>1, <2>2, <3>1, <3>2 DEF Cap
  <2> QED
    BY <1>1, <1>4, <1>6, <2>3 DEF FreshInv
<1>8. CASE a = C
  <2>1. Cap(a + LoopDelay, C) = C
    <3> HIDE DEF C, a
    <3> QED
      BY <1>5, <1>8 DEF Cap
  <2>2. stateAge' \in Nat /\ stateAge' <= stateAge + LoopDelay
    BY <1>4, <1>5 DEF Cap
  <2>3. CASE stateAge + LoopDelay + (Gap - Cap(slot + LoopDelay, Gap)) < LateTurn
    <3>1. stateAge' + 0 + (Gap - Cap(Cap(slot + LoopDelay, Gap) + 0, Gap)) < LateTurn
      BY <1>5, <2>2, <2>3, FreshTimes DEF Cap
    <3> QED
      BY <1>1, <1>4, <1>6, <2>1, <3>1 DEF FreshInv
  <2>4. CASE /\ stateAge + LoopDelay < LateTurn + ResponseTimeout + LoopDelay
             /\ p + LoopDelay <= LoopDelay
    <3>1. /\ stateAge' + 0 < LateTurn + ResponseTimeout + LoopDelay
          /\ Cap(p + LoopDelay, Interval["normal"]) + 0 <= LoopDelay
      <4> HIDE DEF p
      <4> QED
        BY <1>5, <2>2, <2>4, FreshTimes DEF Cap
    <3> QED
      BY <1>1, <1>4, <1>6, <2>1, <3>1 DEF FreshInv
  <2> QED
    BY <1>3, <1>5, <1>6, <1>8, <2>3, <2>4 DEF FreshInv
<1> QED
  BY <1>5, <1>7, <1>8

LEMMA FreshStep ==
  ASSUME StatusLeads, FreshnessSuffices, TypeOK, NeverStuckOnEmptyBlock, FreshInv, [Next]_vars
  PROVE  FreshInv'
<1>1. CASE UNCHANGED vars
  BY <1>1 DEF vars, schedule, FreshInv, Coming, SetupDone
<1>2. CASE LearnCoordinator
  BY <1>2 DEF LearnCoordinator, schedule, FreshInv, Coming, SetupDone
<1>3. CASE NewSession
  BY <1>3 DEF NewSession, FreshInv
<1>4. CASE NoCommandWaiting
  BY <1>4 DEF NoCommandWaiting, schedule, FreshInv, Coming, SetupDone
<1>5. CASE NothingRead
  <2>1. UNCHANGED <<ready, completed, age, slot, known, stateAge, quiet>>
    BY <1>5 DEF NothingRead, schedule
  <2>2. known => SetupDone /\ SetupDone' /\ ready /\ ready'
    BY <2>1, SetupStays DEF FreshInv
  <2>3. known => age[StatusRow] # Interval["critical"]
    BY <1>5, <2>2, NothingReadNotDue
  <2> QED
    BY <2>1, <2>2, <2>3 DEF FreshInv
<1>6. CASE Sleep
  BY <1>6, FreshSleep
<1>7. CASE \E reply \in ReplyTimes : \E n \in CommandLengths : ExecuteCommand(n, reply)
  <2>1. quiet' = FALSE /\ UNCHANGED <<ready, completed, known>>
    BY <1>7 DEF ExecuteCommand
  <2>2. SetupDone => SetupDone'
    BY <2>1, SetupStays
  <2> QED
    BY <2>1, <2>2 DEF FreshInv
<1>8. CASE \E reply \in ReplyTimes : ReadDue(reply)
  BY <1>8, FreshRead
<1> QED
  BY <1>1, <1>2, <1>3, <1>4, <1>5, <1>6, <1>7, <1>8 DEF Next, LoopStep, LoopStepWith

(* While the loop only polls and the status is answered, a command finds   *)
(* the snapshot fresh, when the freshness exceeds the longest wait of the  *)
(* status block by the times FreshnessSuffices adds up.                    *)
THEOREM SnapshotIsFresh ==
  ASSUME StatusLeads, FeaturesMatchSizes, FreshnessSuffices
  PROVE  Spec => []SnapshotStaysFresh
<1>1. Init => FreshInv
  BY DEF Init, FreshInv
<1>2. TypeOK /\ NeverStuckOnEmptyBlock /\ FreshInv /\ [Next]_vars => FreshInv'
  BY FreshStep
<1>3. TypeOK /\ FreshInv => SnapshotStaysFresh
  <2> SUFFICES ASSUME TypeOK, FreshInv, phase = "command", quiet, known
               PROVE  stateAge <= Freshness
    BY DEF SnapshotStaysFresh
  <2>1. Coming = 0
    BY DEF Coming
  <2>2. /\ slot \in 0 .. Gap /\ stateAge \in Nat /\ Gap \in Nat /\ Freshness \in Nat
        /\ ResponseTimeout \in Nat /\ LoopDelay \in Nat /\ Interval["critical"] \in Nat
    BY TimesAreNumbers
  <2>3. CASE age[StatusRow] < Interval["critical"] /\ stateAge = age[StatusRow]
    BY <2>2, <2>3, TimesAreNumbers, FreshTimes
  <2>4. CASE stateAge + 0 + (Gap - Cap(slot + 0, Gap)) < LateTurn
    BY <2>2, <2>4, FreshTimes DEF Cap
  <2>5. CASE stateAge + 0 < LateTurn + ResponseTimeout + LoopDelay
    BY <2>2, <2>5, FreshTimes
  <2> QED
    BY <2>1, <2>3, <2>4, <2>5 DEF FreshInv
<1> QED
  BY <1>1, <1>2, <1>3, ScheduleTypeCorrect, NeverStuck, PTL DEF Spec
-----------------------------------------------------------------------------
(* The firmware's plan puts the status block behind the setup and one      *)
(* normal block, and its features match the sizes: the scan order cannot   *)
(* keep the status out, whatever the inverter rejects and however slowly   *)
(* it answers, when two answers take as long as the status interval.       *)
THEOREM FirmwareStatusSoonRead ==
  ASSUME Plan = DefaultPollPlan, MaximumRequests >= StatusRow, TwoReadsLast, CommandsShort
  PROVE  Spec => []StatusSoonRead
<1>1. FeaturesMatchSizes
  BY FirmwareRowsSized, SizedRowsFit, PlanAssumption DEF FeaturesMatchSizes
<1> QED
  BY <1>1, FirmwareStatusLeads, StatusIsSoonRead

(* With the firmware's plan, polling alone never makes the snapshot stale, *)
(* for every installation, reply time and set of rejected rows.            *)
THEOREM FirmwareSnapshotFresh ==
  ASSUME Plan = DefaultPollPlan, MaximumRequests >= StatusRow, FreshnessSuffices
  PROVE  Spec => []SnapshotStaysFresh
<1>1. FeaturesMatchSizes
  BY FirmwareRowsSized, SizedRowsFit, PlanAssumption DEF FeaturesMatchSizes
<1> QED
  BY <1>1, FirmwareStatusLeads, SnapshotIsFresh
-----------------------------------------------------------------------------
(*                       A rejected setup block                            *)

(* A rejected block is never read, and the status only after the setup.    *)
RejectedInv ==
  /\ \A r \in rejected : r \in Scanned => ~completed[r]
  /\ known => SetupDone

LEMMA RejectedStep ==
  ASSUME StatusLeads, TypeOK, RejectedInv, [Next]_vars
  PROVE  RejectedInv'
<1>1. CASE UNCHANGED <<rejected, completed, known>>
  BY <1>1 DEF RejectedInv, SetupDone
<1>2. CASE NewSession
  BY <1>2 DEF NewSession, RejectedInv, NoneCompleted
<1>3. CASE \E reply \in ReplyTimes : ReadDue(reply)
  <2>1. PICK reply \in ReplyTimes : ReadDue(reply)
    BY <1>3
  <2> DEFINE ok == NextRow \notin rejected /\ reply < ResponseTimeout
  <2>2. /\ DueRows # {} /\ rejected' = rejected /\ completed' = CompletedBy(NextRow, ok)
        /\ known' = (known \/ (ok /\ IsStatus(NextRow)))
    BY <2>1 DEF ReadDue
  <2>3. \A r \in Scanned : completed'[r] = (completed[r] \/ (r = NextRow /\ ok))
    BY <2>2 DEF CompletedBy, TypeOK
  <2>4. SetupDone => SetupDone'
    BY <2>3 DEF SetupDone
  <2>5. IsStatus(NextRow) => SetupDone
    <3>1. NextRow \in Scanned
      BY <2>2, NextRowScanned DEF TypeOK
    <3> QED
      BY <2>2, <3>1, StatusAfterSetup DEF StatusLeads
  <2> QED
    BY <2>2, <2>3, <2>4, <2>5 DEF RejectedInv
<1>4. UNCHANGED <<rejected, completed, known>> \/ NewSession \/ \E reply \in ReplyTimes : ReadDue(reply)
  BY DEF Next, LoopStep, LoopStepWith, ExecuteCommand, NoCommandWaiting, NothingRead, Sleep,
         LearnCoordinator, vars, schedule
<1> QED
  BY <1>1, <1>2, <1>3, <1>4

(* An inverter that rejects one boot or setup block of the firmware's plan *)
(* is never asked for its status: state() stays without a snapshot, and    *)
(* every guarded command is refused, whatever the times are.               *)
THEOREM RejectedSetupHidesState ==
  ASSUME Plan = DefaultPollPlan, MaximumRequests >= StatusRow
  PROVE  Spec => []RejectionHidesStatus
<1>1. StatusLeads
  BY FirmwareStatusLeads
<1>2. Init => RejectedInv
  BY DEF Init, RejectedInv, NoneCompleted
<1>3. TypeOK /\ RejectedInv /\ [Next]_vars => RejectedInv'
  BY <1>1, RejectedStep
<1>4. RejectedInv => RejectionHidesStatus
  BY DEF RejectedInv, RejectionHidesStatus, RejectsSetup, SetupDone
<1> QED
  BY <1>2, <1>3, <1>4, ScheduleTypeCorrect, PTL DEF Spec
=============================================================================
