------------------------- MODULE ProvisioningProofs -------------------------
(***************************************************************************)
(* Theorems about Provisioning for every set of forms and of announcements,*)
(* every table size and any number of forms, faults and restarts.          *)
(***************************************************************************)
EXTENDS Provisioning, TLAPS, FiniteSetTheorems

Config ==
  [role : Role, pairing : Nat, expected : Nat, site : STRING,
   peers : [1 .. Slots -> Peer \cup {Free}], provisioned : BOOLEAN, form : Nat,
   judged : {"no", "verified", "early", "hasty"}, disturbed : BOOLEAN]

BootShape == [mode : {"off", "portal", "normal"}, role : Role, form : Nat,
              marked : BOOLEAN, waiting : BOOLEAN]
HttpShape == [step : {"idle", "commit"}] \cup [step : {"save", "mark"}, candidate : Config]
VerifierShape == [step : {"off", "check", "commit", "busy"}, count : 0 .. Stable]
CompletionShape == [step : {"none", "save", "unmark", "done"}, by : {"none", "http", "verifier"}]
WriteShape ==
  [step : {"write"}, hello : Hellos, at : 1 .. Slots, new : BOOLEAN, final : 0 .. MaxForms]
MeshShape ==
  [step : {"idle", "save"}] \cup [step : {"adopt", "learn"}, hello : Hellos] \cup WriteShape

(* The shape of every variable.                                            *)
Typed ==
  /\ store \in [config : Config \cup {None}, pending : BOOLEAN]
  /\ config \in Config /\ boot \in BootShape /\ http \in HttpShape
  /\ verifier \in VerifierShape /\ completion \in CompletionShape
  /\ mesh \in MeshShape /\ link \in {"idle", "copy", "save", "done"}
  /\ rebooting \in BOOLEAN /\ wiped \in BOOLEAN /\ overtaken \in BOOLEAN
  /\ answered \in Nat /\ forms \in 0 .. MaxForms /\ faults \in 0 .. MaxFaults

(* A form is on its way into the store.                                    *)
Posting == http.step \in {"save", "mark"}

(* A configuration comes from a form of the past.                          *)
Traced(c) == c.form <= forms /\ (c.role # "none" => c.form > 0)

TracedInv ==
  /\ Traced(config)
  /\ store.config # None => Traced(store.config) /\ Valid(store.config)
  /\ Posting => Traced(http.candidate) /\ http.candidate.form > config.form
  /\ answered <= forms

(* What runs is what the start has started.                                *)
StartedInv ==
  /\ boot.mode = "off" =>
       boot = Off /\ http = NoForm /\ answered = 0 /\ mesh = Waiting /\ link = "idle"
  /\ boot.mode = "normal" => boot.role # "none"
  /\ up \subseteq Attached

(* A task has found config_ ready, or has made it final after that.        *)
Due == config.provisioned \/ Decided
Excused(c) == c.judged \in {"early", "hasty"}
Partnered(c) == HasPartners(c) \/ (c.role = "member" /\ c.disturbed)

(* What is final, or about to be, was judged; a form is never final.       *)
FinalInv ==
  /\ FinalIsVerifiedOrHasty
  /\ Due => config.judged # "no"
  /\ Posting => ~http.candidate.provisioned

(* The partners found at the last check stay, as far as a member's worker  *)
(* does not clear them; a worker has what fits the role it was started     *)
(* with; and the cable that answers a gateway is its master's.             *)
PartnersInv ==
  /\ FinalHasPartners
  /\ Due => Excused(config) \/ (config.form = boot.form /\ Partnered(config))
  /\ config.form = boot.form =>
       /\ "link" \in up /\ config.role = "gateway" => config.site = MasterSite
       /\ mesh.step \in {"adopt", "learn", "write"} =>
            IF mesh.hello.id = 0 THEN config.role = "member" ELSE config.role \in IsCoordinator
       /\ mesh.step = "adopt" => mesh.hello.id = 0
       /\ link = "copy" => config.role = "gateway"
  /\ boot.form <= forms
  /\ Posting => http.candidate.form > boot.form

(* A stored form is not forgotten while another one is being saved.        *)
ResumedInv ==
  /\ config.form >= answered
  /\ Posting => http.candidate.form = forms
  /\ http.step = "mark" /\ ~overtaken =>
       store.config # None /\ store.config.form = http.candidate.form
  /\ answered # 0 /\ ~overtaken =>
       store.config # None /\ store.config.form >= answered /\ store.pending

(* The final configuration in RAM has the pairing of the stored one, until *)
(* a worker is known to have changed it; and what a worker let through     *)
(* into a configuration that was final is the address its entry has.       *)
KeptInv ==
  /\ Final /\ config.provisioned /\ ~config.disturbed
     /\ config.form = store.config.form /\ completion.step # "save" =>
       SamePairing(config, store.config)
  /\ mesh.step = "write" =>
       /\ mesh.final <= config.form
       /\ mesh.final = config.form /\ mesh.final > 0 =>
            ~mesh.new /\ mesh.at \in Paired(config) /\ config.peers[mesh.at].mac = mesh.hello.mac

-----------------------------------------------------------------------------
(*                             Configurations                              *)

LEMMA FreeIsNoPeer == \A p \in Peer : p # Free
<1>1. "mac" \in DOMAIN [mac |-> "", id |-> 0] /\ DOMAIN Free = {"free"}
  BY DEF Free
<1>2. \A p \in Peer : DOMAIN p = {"mac", "id"}
  BY DEF Peer
<1>3. {"mac", "id"} # {"free"}
  OBVIOUS
<1> QED
  BY <1>1, <1>2, <1>3

LEMMA BoardFacts ==
  ASSUME NEW h \in Hello
  PROVE  BoardOf(h) \in Peer /\ BoardOf(h) # Free /\ BoardOf(h).mac = h.mac /\ BoardOf(h).id = h.id
<1>1. BoardOf(h) \in Peer /\ BoardOf(h).mac = h.mac /\ BoardOf(h).id = h.id
  BY DEF BoardOf, Hello, Peer
<1> QED
  BY <1>1, FreeIsNoPeer

LEMMA DefaultIsConfig == Default \in Config
<1>1. NoPeers \in [1 .. Slots -> Peer \cup {Free}]
  BY DEF NoPeers
<1> QED
  BY <1>1, SetupAssumption DEF Default, Config, Role

(* A configuration is never the empty place in the store.                  *)
LEMMA ConfigIsNotNone == \A c \in Config : c # None
<1>1. \A c \in Config : c.role # "empty"
  BY DEF Config, Role
<1> QED
  BY <1>1 DEF None

(* What a form makes of a configuration.                                   *)
LEMMA CandidateFacts ==
  ASSUME config \in Config, forms \in Nat, NEW f \in Form
  PROVE  /\ Candidate(f) \in Config
         /\ ~Candidate(f).provisioned /\ Candidate(f).form = forms + 1
<1>1. SiteOf(f) \in STRING
  BY DEF SiteOf, Form, Config
<1>2. KeptPeers(f) \in [1 .. Slots -> Peer \cup {Free}]
  BY DEF KeptPeers, NoPeers, Config
<1>3. f.role \in Role /\ f.pairing \in Nat /\ f.expected \in Nat
  BY DEF Form
<1> QED
  BY <1>1, <1>2, <1>3 DEF Candidate, Edited, Config

LEMMA MinIsMember ==
  ASSUME NEW S \in SUBSET Nat, S # {}
  PROVE  Min(S) \in S
<1> DEFINE less == {p \in Nat \X Nat : p[1] < p[2]}
<1>1. IsWellFoundedOn(less, Nat)
  BY NatLessThanWellFounded DEF OpToRel
<1>2. \A x, y \in Nat : <<y, x>> \in less <=> y < x
  OBVIOUS
<1> HIDE DEF less
<1>3. PICK x \in S : \A y \in S : ~ (<<y, x>> \in less)
  BY <1>1, WFMin
<1>4. ASSUME NEW y \in S
      PROVE  x <= y
  <2>1. x \in Nat /\ y \in Nat
    OBVIOUS
  <2>2. ~ (y < x)
    BY <1>2, <1>3, <2>1
  <2> QED
    BY <2>1, <2>2
<1> QED
  BY <1>4 DEF Min

(* Where learn_peer puts an announcement it accepts.                       *)
LEMMA EntryFacts ==
  ASSUME NEW c \in Config, NEW h \in Hello, Accepts(c, h)
  PROVE  /\ EntryFor(c, h) \in 1 .. Slots
         /\ c.provisioned =>
              /\ Known(c, h) # {} /\ EntryFor(c, h) \in Paired(c)
              /\ c.peers[EntryFor(c, h)].mac = h.mac
<1>1. Known(c, h) \subseteq Paired(c) /\ Paired(c) \subseteq 1 .. Slots /\ Vacant(c) \subseteq 1 .. Slots
  BY DEF Known, Paired, Vacant
<1>2. Known(c, h) \in SUBSET Nat /\ Vacant(c) \in SUBSET Nat
  BY <1>1
<1>3. CASE Known(c, h) # {}
  BY <1>1, <1>2, <1>3, MinIsMember DEF EntryFor, Accepts
<1>4. CASE Known(c, h) = {}
  BY <1>1, <1>2, <1>4, MinIsMember DEF EntryFor, Accepts
<1> QED
  BY <1>3, <1>4
-----------------------------------------------------------------------------
(*                       What changes config_                              *)

(* Still the configuration of the same form.                               *)
Like(d, c) ==
  /\ d \in Config /\ d.role = c.role /\ d.form = c.form /\ d.expected = c.expected

LEMMA NotingFacts ==
  ASSUME config \in Config, NEW c \in Config, NEW noticed \in BOOLEAN
  PROVE  LET d == Noting(c, noticed)
         IN  /\ Like(d, c) /\ d.site = c.site /\ d.peers = c.peers
             /\ d.provisioned = c.provisioned /\ d.judged = c.judged
             /\ d.disturbed <=> c.disturbed \/ (noticed /\ Disturbs(c))
<1> DEFINE mark == c.disturbed \/ (noticed /\ Disturbs(c))
<1>1. mark \in BOOLEAN
  OBVIOUS
<1>2. Noting(c, noticed) = [c EXCEPT !.disturbed = mark]
  BY DEF Noting
<1> HIDE DEF mark
<1>3. LET d == [c EXCEPT !.disturbed = mark]
      IN  /\ Like(d, c) /\ d.site = c.site /\ d.peers = c.peers
          /\ d.provisioned = c.provisioned /\ d.judged = c.judged
          /\ d.disturbed = mark
  BY <1>1 DEF Like, Config
<1> QED
  BY <1>2, <1>3 DEF mark

LEMMA JudgeFacts ==
  ASSUME config \in Config, Judge
  PROVE  /\ Like(config', config) /\ config'.site = config.site /\ config'.peers = config.peers
         /\ config'.provisioned = config.provisioned /\ config'.judged = Verdict
         /\ config.provisioned => config'.disturbed = config.disturbed
<1>1. Verdict \in {"no", "verified", "early", "hasty"}
  BY DEF Verdict
<1>2. (config.provisioned /\ config.disturbed) \in BOOLEAN
  OBVIOUS
<1>3. config.provisioned \in BOOLEAN /\ config.disturbed \in BOOLEAN
  BY DEF Config
<1> QED
  BY <1>1, <1>2, <1>3 DEF Judge, Like, Config

LEMMA CompleteFacts ==
  ASSUME config \in Config, NEW by \in {"http", "verifier"}, Complete(by)
  PROVE  /\ Like(config', config) /\ config'.site = config.site /\ config'.peers = config.peers
         /\ config'.provisioned /\ config'.judged = config.judged
         /\ config'.disturbed = config.disturbed
         /\ completion' \in CompletionShape /\ completion'.step = "save"
BY DEF Complete, Like, Config, CompletionShape

LEMMA GiveUpFacts ==
  ASSUME config \in Config, GiveUp
  PROVE  /\ Like(config', config) /\ config'.site = config.site /\ config'.peers = config.peers
         /\ ~config'.provisioned /\ config'.judged = config.judged
         /\ config'.disturbed = config.disturbed
         /\ completion' \in CompletionShape /\ completion'.step # "save"
BY DEF GiveUp, Like, Config, CompletionShape, NotCompleting

(* What the workers of the mesh and of the cable write into config_.       *)
Adopted == [config EXCEPT !.site = mesh.hello.site, !.peers = NoPeers]
Written == [config EXCEPT !.peers[mesh.at] = BoardOf(mesh.hello)]
Copied == [config EXCEPT !.site = MasterSite]

LEMMA AdoptFacts ==
  ASSUME Typed, Adopt
  PROVE  /\ Adopted \in Config /\ config' = Noting(Adopted, TRUE)
         /\ Like(config', config) /\ config'.peers = NoPeers
         /\ config'.site = Adopted.site /\ config'.peers = Adopted.peers
         /\ config'.provisioned = config.provisioned /\ config'.judged = config.judged
         /\ config'.disturbed <=> config.disturbed \/ Disturbs(Adopted)
         /\ mesh.hello \in Hellos
<1>1. mesh.hello \in Hellos /\ config \in Config
  BY DEF Typed, Adopt, MeshShape, WriteShape
<1>2. mesh.hello.site \in STRING
  BY <1>1, SetupAssumption DEF Hello
<1>3. NoPeers \in [1 .. Slots -> Peer \cup {Free}]
  BY DEF NoPeers
<1>4. /\ Adopted \in Config /\ Adopted.peers = NoPeers /\ Like(Adopted, config)
      /\ Adopted.provisioned = config.provisioned /\ Adopted.judged = config.judged
      /\ Adopted.disturbed = config.disturbed
  BY <1>1, <1>2, <1>3 DEF Adopted, Config, Like
<1>5. config' = Noting(Adopted, TRUE)
  BY DEF Adopt, Adopted
<1> QED
  BY <1>1, <1>4, <1>5, NotingFacts DEF Like

LEMMA CopyFacts ==
  ASSUME Typed, CopyMaster
  PROVE  /\ Copied \in Config /\ config' = Noting(Copied, TRUE)
         /\ Like(config', config) /\ config'.site = MasterSite /\ config'.peers = config.peers
         /\ config'.site = Copied.site /\ config'.peers = Copied.peers
         /\ config'.provisioned = config.provisioned /\ config'.judged = config.judged
         /\ config'.disturbed <=> config.disturbed \/ Disturbs(Copied)
<1>1. config \in Config
  BY DEF Typed
<1>2. /\ Copied \in Config /\ Copied.peers = config.peers /\ Like(Copied, config)
      /\ Copied.provisioned = config.provisioned /\ Copied.judged = config.judged
      /\ Copied.disturbed = config.disturbed /\ Copied.site = MasterSite
  BY <1>1, SetupAssumption DEF Copied, Config, Like
<1>3. config' = Noting(Copied, TRUE)
  BY DEF CopyMaster, Copied
<1> QED
  BY <1>1, <1>2, <1>3, NotingFacts DEF Like

LEMMA WriteFacts ==
  ASSUME Typed, WritePeer, mesh.new \/ mesh.at \in Paired(config)
  PROVE  /\ Written \in Config /\ config' = Noting(Written, mesh.final # config.form)
         /\ Like(config', config) /\ config'.site = config.site
         /\ config'.site = Written.site /\ config'.peers = Written.peers
         /\ config'.peers = [config.peers EXCEPT ![mesh.at] = BoardOf(mesh.hello)]
         /\ config'.provisioned = config.provisioned /\ config'.judged = config.judged
         /\ config'.disturbed <=>
              config.disturbed \/ (mesh.final # config.form /\ Disturbs(Written))
         /\ mesh.hello \in Hellos /\ mesh.at \in 1 .. Slots
<1>1. mesh.hello \in Hellos /\ config \in Config /\ mesh.at \in 1 .. Slots
  BY DEF Typed, WritePeer, MeshShape, WriteShape
<1>2. BoardOf(mesh.hello) \in Peer
  BY <1>1, SetupAssumption, BoardFacts
<1>3. /\ Written \in Config /\ Like(Written, config) /\ Written.site = config.site
      /\ Written.peers = [config.peers EXCEPT ![mesh.at] = BoardOf(mesh.hello)]
      /\ Written.provisioned = config.provisioned /\ Written.judged = config.judged
      /\ Written.disturbed = config.disturbed
  BY <1>1, <1>2 DEF Written, Config, Like
<1>4. config' = Noting(Written, mesh.final # config.form)
  BY DEF WritePeer, Written
<1> QED
  BY <1>1, <1>3, <1>4, NotingFacts DEF Like

(* The steps of the workers, and what none of them touches.                *)
LEMMA WorkerFacts ==
  ASSUME Typed, Adopt \/ WritePeer \/ CopyMaster
  PROVE  /\ Like(config', config)
         /\ config'.provisioned = config.provisioned /\ config'.judged = config.judged
         /\ config.disturbed => config'.disturbed
<1>1. CASE Adopt \/ CopyMaster
  BY <1>1, AdoptFacts, CopyFacts
<1>2. CASE WritePeer /\ (mesh.new \/ mesh.at \in Paired(config))
  BY <1>2, WriteFacts
<1>3. CASE WritePeer /\ ~ (mesh.new \/ mesh.at \in Paired(config))
  BY <1>3 DEF WritePeer, Like, Typed
<1> QED
  BY <1>1, <1>2, <1>3
-----------------------------------------------------------------------------
(*                         Shapes of the variables                         *)

(* What the actions of Next have in common: the steps it consists of.      *)
LEMMA StepCases ==
  ASSUME [Next]_vars
  PROVE  \/ Start \/ Restart \/ Crash
         \/ \E f \in Forms : PostForm(f)
         \/ SaveForm \/ MarkForm \/ Finalize \/ CommitFinalize
         \/ Verify \/ Commit \/ SaveFinal \/ Unmark
         \/ \E h \in Hellos : HearHello(h)
         \/ Adopt \/ LearnPeer \/ WritePeer \/ SavePeer
         \/ HearMaster \/ CopyMaster \/ SaveMaster
         \/ ResetAtStart \/ HoldButton \/ ReleaseButton
         \/ \E c \in {"inverter", "mqtt", "link"} : Connect(c) \/ Disconnect(c)
         \/ UNCHANGED vars
BY DEF Next, Page, Verification, Pairing, Learning, Joining, Button, Connections

LEMMA IdleShapes ==
  /\ Off \in BootShape /\ NoForm \in HttpShape /\ NotChecking \in VerifierShape
  /\ NotCompleting \in CompletionShape /\ Waiting \in MeshShape
<1>1. Off \in BootShape
  BY DEF Off, BootShape, Role
<1>2. NoForm \in HttpShape /\ Waiting \in MeshShape
  BY DEF NoForm, Waiting, HttpShape, MeshShape
<1>3. NotChecking \in VerifierShape /\ NotCompleting \in CompletionShape
  BY SetupAssumption DEF NotChecking, NotCompleting, VerifierShape, CompletionShape
<1> QED
  BY <1>1, <1>2, <1>3

LEMMA TypedStart == Init => Typed
<1>1. SUFFICES ASSUME Init PROVE Typed
  OBVIOUS
<1>2. store \in [config : Config \cup {None}, pending : BOOLEAN]
  <2>1. store = [config |-> None, pending |-> FALSE]
    BY <1>1 DEF Init
  <2> DEFINE empty == None
  <2>2. empty = None
    OBVIOUS
  <2> HIDE DEF empty
  <2>3. [config |-> empty, pending |-> FALSE] \in [config : Config \cup {empty}, pending : BOOLEAN]
    OBVIOUS
  <2> QED
    BY <2>1, <2>2, <2>3
<1>3. answered \in Nat /\ forms \in 0 .. MaxForms /\ faults \in 0 .. MaxFaults
  <2>1. answered = 0 /\ forms = 0 /\ faults = 0
    BY <1>1 DEF Init
  <2> QED
    BY <2>1, SetupAssumption
<1>4. rebooting \in BOOLEAN /\ wiped \in BOOLEAN /\ overtaken \in BOOLEAN
  BY <1>1, Zenon DEF Init
<1> QED
  BY <1>1, <1>2, <1>3, <1>4, DefaultIsConfig, IdleShapes DEF Init, Typed

LEMMA FaultIsBounded ==
  ASSUME Fault, faults \in 0 .. MaxFaults
  PROVE  faults' \in 0 .. MaxFaults
BY SetupAssumption DEF Fault

LEMMA DownIsTyped ==
  ASSUME GoDown, Typed, UNCHANGED store, faults' \in 0 .. MaxFaults
  PROVE  Typed'
<1>1. /\ rebooting' \in BOOLEAN /\ wiped' \in BOOLEAN /\ overtaken' \in BOOLEAN
      /\ answered' \in Nat /\ forms' \in 0 .. MaxForms
  BY DEF GoDown, Typed
<1> QED
  BY <1>1, DefaultIsConfig, IdleShapes DEF GoDown, Typed

LEMMA StoreIsTyped ==
  ASSUME Typed, NEW c \in Config, Saved(c) \/ NotSaved(c)
  PROVE  store' \in [config : Config \cup {None}, pending : BOOLEAN] /\ faults' \in 0 .. MaxFaults
BY FaultIsBounded DEF Typed, Saved, NotSaved

LEMMA MarkIsTyped ==
  ASSUME Typed, NEW mark \in BOOLEAN, Marked(mark) \/ NotMarked
  PROVE  store' \in [config : Config \cup {None}, pending : BOOLEAN] /\ faults' \in 0 .. MaxFaults
BY FaultIsBounded DEF Typed, Marked, NotMarked

LEMMA PostingIsTyped ==
  ASSUME Typed, Posting
  PROVE  /\ http \in [step : {"save", "mark"}, candidate : Config]
         /\ http.candidate \in Config
BY DEF Typed, Posting, HttpShape

(* Every step keeps the shapes.                                            *)
LEMMA TypedStep ==
  ASSUME Typed, TracedInv, [Next]_vars
  PROVE  Typed'
<1> USE DEF Typed
<1>1. CASE Start
  <2>1. PICK loaded \in Config, marked \in BOOLEAN :
          /\ UNCHANGED faults \/ Fault
          /\ config' = IF loaded.provisioned THEN loaded ELSE Unjudged(loaded)
          /\ boot' = Booted(loaded, marked)
          /\ verifier' = IF marked THEN Checking(0) ELSE NotChecking
    <3>1. ASSUME NEW c \in {IF store.config = None THEN Default ELSE store.config, Default}
          PROVE  c \in Config /\ (~c.provisioned /\ store.pending) \in BOOLEAN
      BY <3>1, DefaultIsConfig DEF Config
    <3> QED
      BY <1>1, <3>1 DEF Start
  <2>2. boot' \in BootShape
    <3>1. loaded.role \in Role /\ loaded.form \in Nat /\ loaded.provisioned \in BOOLEAN
      BY <2>1 DEF Config
    <3> QED
      BY <2>1, <3>1 DEF Booted, BootShape
  <2>3. verifier' \in VerifierShape
    BY <2>1, SetupAssumption DEF Checking, NotChecking, VerifierShape
  <2>4. faults' \in 0 .. MaxFaults
    BY <2>1, FaultIsBounded
  <2>5. config' \in Config
    <3>1. Unjudged(loaded) \in Config
      BY DEF Unjudged, Config
    <3> QED
      BY <2>1, <3>1
  <2> QED
    BY <1>1, <2>2, <2>3, <2>4, <2>5 DEF Start, history, workers
<1>2. CASE Restart
  BY <1>2, DownIsTyped DEF Restart
<1>3. CASE Crash
  BY <1>3, DownIsTyped, FaultIsBounded DEF Crash
<1>4. ASSUME NEW f \in Forms, PostForm(f)
      PROVE  Typed'
  <2>1. Candidate(f) \in Config
    BY CandidateFacts, SetupAssumption
  <2>2. forms' \in 0 .. MaxForms
    BY <1>4, SetupAssumption DEF PostForm
  <2>3. http' \in HttpShape
    BY <1>4, <2>1 DEF PostForm, HttpShape
  <2> QED
    BY <1>4, <2>2, <2>3 DEF PostForm, history, workers
<1>5. CASE SaveForm
  <2>1. http \in [step : {"save", "mark"}, candidate : Config] /\ http.candidate \in Config
    BY <1>5, PostingIsTyped DEF SaveForm, Posting
  <2>2. http' \in HttpShape
    BY <1>5, <2>1, IdleShapes DEF SaveForm, HttpShape
  <2>3. store' \in [config : Config \cup {None}, pending : BOOLEAN] /\ faults' \in 0 .. MaxFaults
    BY <1>5, <2>1, StoreIsTyped DEF SaveForm
  <2> QED
    BY <1>5, <2>2, <2>3 DEF SaveForm, history, workers
<1>6. CASE MarkForm
  <2>1. http.candidate \in Config
    BY <1>6, PostingIsTyped DEF MarkForm, Posting
  <2>2. store' \in [config : Config \cup {None}, pending : BOOLEAN] /\ faults' \in 0 .. MaxFaults
    BY <1>6, MarkIsTyped DEF MarkForm
  <2>3. config' \in Config /\ answered' \in Nat /\ rebooting' \in BOOLEAN
    BY <1>6, <2>1 DEF MarkForm, Answer, Config
  <2> QED
    BY <1>6, <2>2, <2>3, IdleShapes DEF MarkForm, workers
<1>7. CASE Finalize
  <2>1. config' \in Config
    BY <1>7, JudgeFacts DEF Finalize, Like
  <2>2. http' \in HttpShape
    BY <1>7 DEF Finalize, HttpShape
  <2> QED
    BY <1>7, <2>1, <2>2 DEF Finalize, history, workers
<1>8. CASE CommitFinalize
  <2>1. config' \in Config /\ completion' \in CompletionShape /\ rebooting' \in BOOLEAN
    BY <1>8, CompleteFacts DEF CommitFinalize, Like
  <2> QED
    BY <1>8, <2>1, IdleShapes DEF CommitFinalize, history, workers
<1>9. CASE Verify
  <2>1. verifier' \in VerifierShape
    BY <1>9, SetupAssumption DEF Verify, Checking, NotChecking, VerifierShape
  <2>2. config' \in Config
    BY <1>9, JudgeFacts DEF Verify, Like
  <2> QED
    BY <1>9, <2>1, <2>2 DEF Verify, history, workers
<1>10. CASE Commit
  <2>1. verifier' \in VerifierShape
    BY <1>10, SetupAssumption DEF Commit, Checking, VerifierShape
  <2>2. config' \in Config /\ completion' \in CompletionShape
    BY <1>10, CompleteFacts DEF Commit, Like
  <2> QED
    BY <1>10, <2>1, <2>2 DEF Commit, history, workers
<1>11. CASE SaveFinal
  <2>1. store' \in [config : Config \cup {None}, pending : BOOLEAN] /\ faults' \in 0 .. MaxFaults
    BY <1>11, StoreIsTyped DEF SaveFinal
  <2>2. config' \in Config /\ completion' \in CompletionShape
    <3>1. CASE UNCHANGED config /\ completion' = [completion EXCEPT !.step = "unmark"]
      BY <3>1 DEF CompletionShape
    <3>2. CASE GiveUp
      BY <3>2, GiveUpFacts DEF Like
    <3> QED
      BY <1>11, <3>1, <3>2 DEF SaveFinal
  <2>3. verifier' \in VerifierShape
    BY <1>11, SetupAssumption DEF SaveFinal, Checking, VerifierShape
  <2>4. overtaken' \in BOOLEAN
    BY <1>11 DEF SaveFinal, Overtakes
  <2> QED
    BY <1>11, <2>1, <2>2, <2>3, <2>4 DEF SaveFinal, workers
<1>12. CASE Unmark
  <2>1. store' \in [config : Config \cup {None}, pending : BOOLEAN] /\ faults' \in 0 .. MaxFaults
    BY <1>12, MarkIsTyped DEF Unmark
  <2>2. completion' \in CompletionShape
    BY <1>12 DEF Unmark, CompletionShape
  <2> QED
    BY <1>12, <2>1, <2>2 DEF Unmark, workers
<1>13. ASSUME NEW h \in Hellos, HearHello(h)
       PROVE  Typed'
  <2>1. mesh' \in MeshShape
    BY <1>13 DEF HearHello, MeshShape
  <2>2. faults' \in 0 .. MaxFaults
    BY <1>13, FaultIsBounded DEF HearHello
  <2> QED
    BY <1>13, <2>1, <2>2 DEF HearHello, history
<1>14. CASE Adopt \/ WritePeer
  <2>1. config' \in Config
    BY <1>14, WorkerFacts DEF Like
  <2>2. mesh' \in MeshShape
    <3>1. CASE Adopt
      <4>1. mesh \in [step : {"adopt", "learn"}, hello : Hellos]
        BY <3>1 DEF Adopt, MeshShape, WriteShape
      <4>2. mesh' \in [step : {"adopt", "learn"}, hello : Hellos]
        BY <3>1, <4>1 DEF Adopt
      <4> QED
        BY <4>2 DEF MeshShape
    <3>2. CASE WritePeer
      BY <3>2 DEF WritePeer, MeshShape
    <3> QED
      BY <1>14, <3>1, <3>2
  <2> QED
    BY <1>14, <2>1, <2>2 DEF Adopt, WritePeer, history
<1>15. CASE LearnPeer
  <2>1. mesh.hello \in Hellos
    BY <1>15 DEF LearnPeer, MeshShape, WriteShape
  <2>2. mesh' \in MeshShape
    <3>1. CASE ~Accepts(config, mesh.hello)
      BY <1>15, <3>1, IdleShapes DEF LearnPeer
    <3>2. CASE Accepts(config, mesh.hello)
      <4>1. EntryFor(config, mesh.hello) \in 1 .. Slots
        BY <2>1, <3>2, EntryFacts, SetupAssumption
      <4>2. (IF config.provisioned THEN config.form ELSE 0) \in 0 .. MaxForms
        BY SetupAssumption DEF TracedInv, Traced, Config
      <4>3. (Known(config, mesh.hello) = {}) \in BOOLEAN
        OBVIOUS
      <4> DEFINE at == EntryFor(config, mesh.hello)
                 new == Known(config, mesh.hello) = {}
                 final == IF config.provisioned THEN config.form ELSE 0
      <4>4. mesh' = [step |-> "write", hello |-> mesh.hello, at |-> at, new |-> new, final |-> final]
        BY <1>15, <3>2 DEF LearnPeer
      <4> HIDE DEF at, new, final
      <4>5. at \in 1 .. Slots /\ new \in BOOLEAN /\ final \in 0 .. MaxForms
        BY <4>1, <4>2, <4>3 DEF at, new, final
      <4> QED
        BY <2>1, <4>4, <4>5 DEF MeshShape, WriteShape
    <3> QED
      BY <3>1, <3>2
  <2> QED
    BY <1>15, <2>2 DEF LearnPeer, history
<1>16. CASE SavePeer \/ SaveMaster
  <2>1. store' \in [config : Config \cup {None}, pending : BOOLEAN] /\ faults' \in 0 .. MaxFaults
    BY <1>16, StoreIsTyped DEF SavePeer, SaveMaster
  <2>2. overtaken' \in BOOLEAN /\ rebooting' \in BOOLEAN
    BY <1>16 DEF SavePeer, SaveMaster, Overtakes
  <2>3. mesh' \in MeshShape /\ link' \in {"idle", "copy", "save", "done"}
    BY <1>16, IdleShapes DEF SavePeer, SaveMaster
  <2> QED
    BY <1>16, <2>1, <2>2, <2>3 DEF SavePeer, SaveMaster
<1>17. CASE HearMaster \/ CopyMaster
  <2>1. config' \in Config
    BY <1>17, WorkerFacts DEF HearMaster, Like
  <2> QED
    BY <1>17, <2>1 DEF HearMaster, CopyMaster, history
<1>18. CASE ResetAtStart
  BY <1>18 DEF ResetAtStart, history, workers
<1>19. CASE HoldButton
  <2>1. faults' \in 0 .. MaxFaults
    BY <1>19, FaultIsBounded DEF HoldButton
  <2>2. store' \in [config : Config \cup {None}, pending : BOOLEAN]
    BY <1>19 DEF HoldButton
  <2>3. wiped' \in BOOLEAN /\ overtaken' \in BOOLEAN
    BY <1>19 DEF HoldButton
  <2> QED
    BY <1>19, <2>1, <2>2, <2>3 DEF HoldButton, workers
<1>20. CASE ReleaseButton
  BY <1>20, DownIsTyped DEF ReleaseButton
<1>21. ASSUME NEW c \in {"inverter", "mqtt", "link"}, Connect(c) \/ Disconnect(c)
       PROVE  Typed'
  <2>1. faults' \in 0 .. MaxFaults
    BY <1>21, FaultIsBounded DEF Connect, Disconnect
  <2> QED
    BY <1>21, <2>1 DEF Connect, Disconnect, history, workers
<1>22. CASE UNCHANGED vars
  BY <1>22 DEF vars, history, workers
<1> QED
  BY StepCases, <1>1, <1>2, <1>3, <1>4, <1>5, <1>6, <1>7, <1>8, <1>9, <1>10, <1>11, <1>12,
     <1>13, <1>14, <1>15, <1>16, <1>17, <1>18, <1>19, <1>20, <1>21, <1>22
-----------------------------------------------------------------------------
(*                 Where configurations and connections come from          *)

(* A save keeps what is in the store traced and valid.                     *)
LEMMA SavedIsTraced ==
  ASSUME Typed, TracedInv, NEW c \in Config, Traced(c), Saved(c) \/ NotSaved(c)
  PROVE  store'.config # None => Traced(store'.config) /\ Valid(store'.config)
<1>1. CASE Saved(c)
  <2>1. store'.config = c /\ Valid(c)
    BY <1>1 DEF Saved, Typed
  <2> QED
    BY <2>1
<1>2. CASE NotSaved(c)
  BY <1>2 DEF NotSaved, TracedInv
<1> QED
  BY <1>1, <1>2

LEMMA MarkKeepsConfig ==
  ASSUME Typed, NEW mark \in BOOLEAN, Marked(mark) \/ NotMarked
  PROVE  store'.config = store.config
BY DEF Typed, Marked, NotMarked

(* When no form is accepted, what was traced is.                           *)
LEMMA TracedFrom ==
  ASSUME Typed, TracedInv, UNCHANGED forms,
         config' = config \/ Like(config', config) \/ (Traced(config') /\ ~Posting'),
         store'.config # None => Traced(store'.config) /\ Valid(store'.config),
         Posting' => http'.candidate = http.candidate /\ Posting,
         answered' <= forms
  PROVE  TracedInv'
BY DEF TracedInv, Traced, Like

LEMMA DefaultIsTraced == forms \in Nat => Traced(Default)
BY SetupAssumption DEF Traced, Default

LEMMA TracedStep ==
  ASSUME Typed, TracedInv, StartedInv, [Next]_vars
  PROVE  TracedInv'
<1>1. /\ Traced(config) /\ answered <= forms
      /\ store.config # None => Traced(store.config) /\ Valid(store.config)
      /\ Posting => Traced(http.candidate) /\ http.candidate.form > config.form
      /\ forms \in Nat /\ config \in Config /\ config.form \in Nat
  BY SetupAssumption DEF TracedInv, Typed, Config
<1>2. ~ (NoForm.step \in {"save", "mark"}) /\ answered \in Nat
  BY DEF NoForm, Typed
<1>3. ASSUME GoDown
      PROVE  /\ Traced(config') /\ ~Posting' /\ answered' <= forms /\ UNCHANGED forms
  BY <1>1, <1>2, <1>3, DefaultIsTraced DEF GoDown, Posting
<1>4. CASE Start
  <2>1. PICK loaded \in {IF store.config = None THEN Default ELSE store.config, Default} :
          config' = IF loaded.provisioned THEN loaded ELSE Unjudged(loaded)
    BY <1>4 DEF Start
  <2>2. Traced(loaded) /\ loaded \in Config
    BY <1>1, DefaultIsTraced, DefaultIsConfig DEF Typed
  <2>3. Unjudged(loaded).form = loaded.form /\ Unjudged(loaded).role = loaded.role
    BY <2>2 DEF Unjudged, Config
  <2>4. Traced(config')
    BY <2>1, <2>2, <2>3 DEF Traced
  <2>5. http' = NoForm
    BY <1>4 DEF Start, StartedInv
  <2> QED
    BY <1>1, <1>2, <1>4, <2>4, <2>5, TracedFrom DEF Start, history, Posting
<1>5. CASE Restart \/ Crash \/ ReleaseButton
  BY <1>1, <1>3, <1>5, TracedFrom DEF Restart, Crash, ReleaseButton
<1>6. ASSUME NEW f \in Forms, PostForm(f)
      PROVE  TracedInv'
  <2>1. Candidate(f).form = forms + 1
    BY <1>1, CandidateFacts, SetupAssumption
  <2>2. /\ http'.candidate = Candidate(f) /\ forms' = forms + 1
        /\ UNCHANGED <<store, config, answered>>
    BY <1>6 DEF PostForm, history
  <2>3. Traced(config)' /\ Traced(http.candidate)' /\ http'.candidate.form > config'.form
    BY <1>1, <2>1, <2>2 DEF Traced
  <2>4. store'.config # None => Traced(store.config)' /\ Valid(store'.config)
    <3>1. store.config # None => store.config.form \in Nat
      BY DEF Typed, Config
    <3> QED
      BY <1>1, <2>2, <3>1 DEF Traced
  <2>5. answered' <= forms'
    BY <1>1, <1>2, <2>2
  <2> QED
    BY <2>3, <2>4, <2>5 DEF TracedInv, Valid
<1>7. CASE SaveForm
  <2>1. Posting /\ http.candidate \in Config /\ Traced(http.candidate)
    BY <1>1, <1>7, PostingIsTyped DEF SaveForm, Posting
  <2>2. store'.config # None => Traced(store'.config) /\ Valid(store'.config)
    BY <1>7, <2>1, SavedIsTraced DEF SaveForm
  <2>3. Posting' => http'.candidate = http.candidate
    <3>1. http' = [http EXCEPT !.step = "mark"] => http'.candidate = http.candidate
      BY <2>1, PostingIsTyped
    <3> QED
      BY <1>2, <1>7, <3>1 DEF SaveForm, Posting
  <2> QED
    BY <1>1, <1>7, <2>1, <2>2, <2>3, TracedFrom DEF SaveForm, history
<1>8. CASE MarkForm
  <2>1. Posting /\ http.candidate \in Config /\ Traced(http.candidate) /\ ~Posting'
    BY <1>1, <1>2, <1>8, PostingIsTyped DEF MarkForm, Posting
  <2>2. Traced(config') /\ answered' <= forms
    <3>1. CASE Answer
      <4>1. config'.form = http.candidate.form /\ config'.role = http.candidate.role
        BY <2>1, <3>1 DEF Answer, Config
      <4> QED
        BY <2>1, <3>1, <4>1 DEF Answer, Traced
    <3>2. CASE UNCHANGED <<config, answered>>
      BY <1>1, <3>2
    <3>3. UNCHANGED forms
      BY <1>8 DEF MarkForm
    <3> QED
      BY <1>8, <3>1, <3>2, <3>3 DEF MarkForm
  <2>3. store'.config = store.config
    BY <1>8, MarkKeepsConfig DEF MarkForm
  <2> QED
    BY <1>1, <1>8, <2>1, <2>2, <2>3, TracedFrom DEF MarkForm
<1>9. CASE Finalize
  <2>1. Like(config', config) /\ ~Posting'
    BY <1>1, <1>9, JudgeFacts DEF Finalize, Posting
  <2> QED
    BY <1>1, <1>9, <2>1, TracedFrom DEF Finalize, history
<1>10. CASE CommitFinalize
  <2>1. Like(config', config) \/ config' = config
    BY <1>1, <1>10, CompleteFacts DEF CommitFinalize
  <2>2. ~Posting'
    BY <1>2, <1>10 DEF CommitFinalize, Posting
  <2> QED
    BY <1>1, <1>10, <2>1, <2>2, TracedFrom DEF CommitFinalize, history
<1>11. CASE Verify
  <2>1. Like(config', config) \/ config' = config
    BY <1>1, <1>11, JudgeFacts DEF Verify
  <2> QED
    BY <1>1, <1>11, <2>1, TracedFrom DEF Verify, history, Posting
<1>12. CASE Commit
  <2>1. Like(config', config) \/ config' = config
    BY <1>1, <1>12, CompleteFacts DEF Commit
  <2> QED
    BY <1>1, <1>12, <2>1, TracedFrom DEF Commit, history, Posting
<1>13. CASE SaveFinal
  <2>1. store'.config # None => Traced(store'.config) /\ Valid(store'.config)
    BY <1>1, <1>13, SavedIsTraced DEF SaveFinal
  <2>2. Like(config', config) \/ config' = config
    BY <1>1, <1>13, GiveUpFacts DEF SaveFinal
  <2> QED
    BY <1>1, <1>13, <2>1, <2>2, TracedFrom DEF SaveFinal, Posting
<1>14. CASE Unmark
  <2>1. store'.config = store.config
    BY <1>14, MarkKeepsConfig DEF Unmark
  <2> QED
    BY <1>1, <1>14, <2>1, TracedFrom DEF Unmark, Posting
<1>15. CASE Adopt \/ WritePeer \/ CopyMaster
  <2>1. Like(config', config)
    BY <1>15, WorkerFacts
  <2> QED
    BY <1>1, <1>15, <2>1, TracedFrom DEF Adopt, WritePeer, CopyMaster, history, Posting
<1>16. CASE SavePeer \/ SaveMaster
  <2>1. store'.config # None => Traced(store'.config) /\ Valid(store'.config)
    BY <1>1, <1>16, SavedIsTraced DEF SavePeer, SaveMaster
  <2> QED
    BY <1>1, <1>16, <2>1, TracedFrom DEF SavePeer, SaveMaster, Posting
<1>17. CASE LearnPeer \/ HearMaster \/ \E h \in Hellos : HearHello(h)
  BY <1>1, <1>17, TracedFrom DEF LearnPeer, HearMaster, HearHello, history, Posting
<1>18. CASE ResetAtStart \/ HoldButton
  <2>1. store'.config = None
    BY <1>18 DEF ResetAtStart, HoldButton
  <2> QED
    BY <1>1, <1>18, <2>1, TracedFrom DEF ResetAtStart, HoldButton, history, Posting
<1>19. ASSUME NEW c \in {"inverter", "mqtt", "link"}, Connect(c) \/ Disconnect(c)
       PROVE  TracedInv'
  BY <1>1, <1>19, TracedFrom DEF Connect, Disconnect, history, Posting
<1>20. CASE UNCHANGED vars
  BY <1>1, <1>20, TracedFrom DEF vars, history, Posting
<1> QED
  BY StepCases, <1>4, <1>5, <1>6, <1>7, <1>8, <1>9, <1>10, <1>11, <1>12, <1>13, <1>14,
     <1>15, <1>16, <1>17, <1>18, <1>19, <1>20

(* Starting and stopping; and no connection but those of the started role. *)
LEMMA StartedFrom ==
  ASSUME StartedInv, UNCHANGED boot, up' \subseteq Attached,
         boot.mode = "off" => http' = NoForm /\ answered' = 0 /\ mesh' = Waiting /\ link' = "idle"
  PROVE  StartedInv'
BY DEF StartedInv, Attached

LEMMA StartedStep ==
  ASSUME Typed, TracedInv, StartedInv, [Next]_vars
  PROVE  StartedInv'
<1>1. /\ boot.mode = "off" =>
           boot = Off /\ http = NoForm /\ answered = 0 /\ mesh = Waiting /\ link = "idle"
      /\ boot.mode = "normal" => boot.role # "none"
      /\ up \subseteq Attached
  BY DEF StartedInv
<1>2. /\ NoForm.step = "idle" /\ Off.role = "none" /\ Off.mode = "off"
      /\ Default.provisioned = FALSE /\ Waiting.step = "idle"
  BY DEF NoForm, Off, Default, Waiting
<1>3. ASSUME GoDown
      PROVE  StartedInv'
  BY <1>2, <1>3 DEF GoDown, StartedInv
<1>4. CASE Start
  <2>1. up = {}
    <3>1. Attached = {}
      BY <1>1, <1>2, <1>4 DEF Start, Attached, UsesMqtt, UsesLink
    <3> QED
      BY <1>1, <3>1
  <2>2. PICK loaded \in {IF store.config = None THEN Default ELSE store.config, Default}, marked \in {TRUE, FALSE} :
          boot' = Booted(loaded, marked)
    <3>1. \A c : (~c.provisioned /\ store.pending) \in {TRUE, FALSE}
      OBVIOUS
    <3> QED
      BY <1>4, <3>1 DEF Start
  <2>3. loaded.provisioned => loaded.role # "none"
    BY <1>2 DEF TracedInv, Valid
  <2>4. boot'.mode # "off" /\ (boot'.mode = "normal" => boot'.role # "none")
    BY <2>2, <2>3 DEF Booted
  <2>5. up' = {}
    BY <1>4, <2>1 DEF Start
  <2> QED
    BY <2>4, <2>5 DEF StartedInv
<1>5. CASE Restart \/ Crash \/ ReleaseButton
  BY <1>3, <1>5 DEF Restart, Crash, ReleaseButton
<1>6. ASSUME NEW f \in Forms, PostForm(f)
      PROVE  StartedInv'
  BY <1>1, <1>6, StartedFrom DEF PostForm, PageServed, history, workers
<1>7. CASE SaveForm \/ MarkForm \/ CommitFinalize
  <2>1. http # NoForm
    BY <1>2, <1>7 DEF SaveForm, MarkForm, CommitFinalize
  <2> QED
    BY <1>1, <1>7, <2>1, StartedFrom DEF SaveForm, MarkForm, CommitFinalize
<1>8. CASE Finalize
  <2>1. boot.mode # "off"
    BY <1>8 DEF Finalize, PageServed
  <2> QED
    BY <1>1, <1>8, <2>1, StartedFrom DEF Finalize
<1>9. CASE Verify \/ Commit \/ SaveFinal \/ Unmark
  BY <1>1, <1>9, StartedFrom DEF Verify, Commit, SaveFinal, Unmark, history, workers
<1>10. CASE Adopt \/ LearnPeer \/ WritePeer \/ SavePeer
  <2>1. boot.mode # "off"
    BY <1>1, <1>2, <1>10 DEF Adopt, LearnPeer, WritePeer, SavePeer
  <2> QED
    BY <1>1, <1>10, <2>1, StartedFrom DEF Adopt, LearnPeer, WritePeer, SavePeer
<1>11. CASE HearMaster \/ \E h \in Hellos : HearHello(h)
  <2>1. boot.mode # "off"
    BY <1>1, <1>2, <1>11 DEF HearMaster, HearHello, UsesMesh, UsesLink, IsCoordinator
  <2> QED
    BY <1>1, <1>11, <2>1, StartedFrom DEF HearMaster, HearHello
<1>12. CASE CopyMaster \/ SaveMaster
  <2>1. boot.mode # "off"
    BY <1>1, <1>12 DEF CopyMaster, SaveMaster
  <2> QED
    BY <1>1, <1>12, <2>1, StartedFrom DEF CopyMaster, SaveMaster
<1>13. CASE ResetAtStart \/ HoldButton
  BY <1>1, <1>13, StartedFrom DEF ResetAtStart, HoldButton, history, workers
<1>14. ASSUME NEW c \in {"inverter", "mqtt", "link"}, Connect(c) \/ Disconnect(c)
       PROVE  StartedInv'
  <2>1. up' \subseteq Attached
    BY <1>1, <1>14 DEF Connect, Disconnect
  <2> QED
    BY <1>1, <1>14, <2>1, StartedFrom DEF Connect, Disconnect, history, workers
<1>15. CASE UNCHANGED vars
  BY <1>1, <1>15, StartedFrom DEF vars, history, workers
<1> QED
  BY StepCases, <1>4, <1>5, <1>6, <1>7, <1>8, <1>9, <1>10, <1>11, <1>12, <1>13, <1>14, <1>15
-----------------------------------------------------------------------------
(*                        Final configurations                             *)

(* What the set-up page and the verification task ask for is what the      *)
(* installation needs, when the ESP runs with the configuration.           *)
LEMMA ReadyIsWorking ==
  ASSUME PartnersInv, Ready(config), config.form = boot.form
  PROVE  Working(config)
<1>1. HasPartners(config)
  BY DEF Ready, HasPartners, PartnersInv, UsesLink, IsCoordinator
<1>2. ASSUME NEW k \in {"inverter", "mqtt", "link"} \ up
      PROVE  config.role \notin
               (CASE k = "inverter" -> HasInverter [] k = "mqtt" -> UsesMqtt [] k = "link" -> UsesLink)
  <2>1. CASE k = "inverter"
    BY <2>1 DEF Ready
  <2>2. CASE k = "mqtt"
    BY <2>2 DEF Ready
  <2>3. CASE k = "link"
    BY <2>3 DEF Ready
  <2> QED
    BY <2>1, <2>2, <2>3
<1> QED
  BY <1>1, <1>2 DEF Working

LEMMA JudgeIsSure ==
  ASSUME Typed, PartnersInv, Ready(config), Judge
  PROVE  /\ config'.judged # "no"
         /\ Excused(config') \/ (config'.form = boot.form /\ HasPartners(config'))
<1>1. config.form = boot.form => Working(config)
  BY ReadyIsWorking
<1>2. config'.judged = Verdict /\ config'.form = config.form
  BY JudgeFacts DEF Typed, Like
<1>3. HasPartners(config) => HasPartners(config')
  BY JudgeFacts DEF Typed, Like, HasPartners, Found, HasCoordinator, Paired
<1> QED
  BY <1>1, <1>2, <1>3 DEF Verdict, Working, Excused

(* What is in the store after a save.                                      *)
LEMMA StoreAfterSave ==
  ASSUME Typed, NEW c, Saved(c) \/ NotSaved(c)
  PROVE  store' = store \/ (store'.config = c /\ store'.pending = store.pending)
BY DEF Typed, Saved, NotSaved

LEMMA FinalFrom ==
  ASSUME Typed, FinalInv,
         store'.config \in {store.config, None, config} \/ ~store'.config.provisioned,
         Due' => config'.judged # "no",
         Posting' => ~http'.candidate.provisioned
  PROVE  FinalInv'
<1>1. config.provisioned => config.judged \in {"verified", "early", "hasty"}
  BY DEF FinalInv, Due, Typed, Config
<1> QED
  BY <1>1 DEF FinalInv, FinalIsVerifiedOrHasty, Final

(* Nothing but a check that found everything ready lets a configuration    *)
(* become final.                                                           *)
LEMMA FinalStep ==
  ASSUME Typed, TracedInv, StartedInv, FinalInv, PartnersInv, [Next]_vars
  PROVE  FinalInv'
<1>1. /\ Due => config.judged # "no"
      /\ Posting => ~http.candidate.provisioned
      /\ Final => store.config.judged # "no"
      /\ config \in Config /\ forms \in Nat
  BY SetupAssumption DEF FinalInv, FinalIsVerifiedOrHasty, Typed
<1>2. /\ NoForm.step = "idle" /\ NotChecking.step = "off" /\ ~Default.provisioned
      /\ \A n : Checking(n).step = "check"
  BY DEF NoForm, NotChecking, Default, Checking
<1>3. ASSUME GoDown, UNCHANGED store
      PROVE  FinalInv'
  <2>1. ~Due' /\ ~Posting'
    BY <1>2, <1>3 DEF GoDown, Due, Decided, Posting
  <2> QED
    BY <1>3, <2>1, FinalFrom
<1>4. CASE Start
  <2>1. http' = NoForm /\ verifier'.step # "commit"
    BY <1>2, <1>4 DEF Start, StartedInv
  <2>2. PICK loaded \in {IF store.config = None THEN Default ELSE store.config, Default} :
          config' = IF loaded.provisioned THEN loaded ELSE Unjudged(loaded)
    BY <1>4 DEF Start
  <2>3. loaded \in Config /\ (loaded.provisioned => loaded.judged # "no")
    BY <1>1, <1>2, DefaultIsConfig DEF Typed, Final
  <2>4. ~loaded.provisioned => ~Unjudged(loaded).provisioned
    BY <2>3 DEF Unjudged, Config
  <2>5. Due' => config'.judged # "no"
    BY <1>2, <2>1, <2>2, <2>3, <2>4 DEF Due, Decided
  <2>6. ~Posting'
    BY <1>2, <2>1 DEF Posting
  <2> QED
    BY <1>4, <2>5, <2>6, FinalFrom DEF Start
<1>5. CASE Restart \/ Crash \/ ReleaseButton
  BY <1>3, <1>5 DEF Restart, Crash, ReleaseButton
<1>6. ASSUME NEW f \in Forms, PostForm(f)
      PROVE  FinalInv'
  <2>1. ~Candidate(f).provisioned
    BY <1>1, CandidateFacts, SetupAssumption
  <2>2. Due' => Due /\ config' = config
    BY <1>6 DEF PostForm, Due, Decided
  <2> QED
    BY <1>1, <1>6, <2>1, <2>2, FinalFrom DEF PostForm
<1>7. CASE SaveForm
  <2>1. http \in [step : {"save", "mark"}, candidate : Config]
    BY <1>7, PostingIsTyped DEF SaveForm, Posting
  <2>2. Posting' => ~http'.candidate.provisioned
    BY <1>1, <1>2, <1>7, <2>1 DEF SaveForm, Posting
  <2>3. store' = store \/ store'.config = http.candidate
    BY <1>7, StoreAfterSave DEF SaveForm
  <2>4. Due' => Due /\ config' = config
    BY <1>2, <1>7, <2>1 DEF SaveForm, Due, Decided
  <2>5. Posting
    BY <1>7 DEF SaveForm, Posting
  <2> QED
    BY <1>1, <1>7, <2>2, <2>3, <2>4, <2>5, FinalFrom
<1>8. CASE MarkForm
  <2>1. store'.config = store.config /\ ~Posting' /\ http'.step # "commit" /\ verifier' = verifier
    BY <1>2, <1>8, MarkKeepsConfig DEF MarkForm, Posting
  <2>2. CASE UNCHANGED config
    BY <1>1, <2>1, <2>2, FinalFrom DEF Due, Decided
  <2>3. CASE Answer
    <3>1. http.candidate \in Config /\ ~http.candidate.provisioned
      BY <1>1, <1>8, PostingIsTyped DEF MarkForm, Posting
    <3>2. ~config'.provisioned /\ (verifier.step = "commit" => config'.judged = "hasty")
      BY <2>3, <3>1 DEF Answer, Config
    <3> QED
      BY <2>1, <3>2, FinalFrom DEF Due, Decided
  <2> QED
    BY <1>8, <2>2, <2>3 DEF MarkForm
<1>9. CASE Finalize
  <2>1. config'.judged # "no"
    BY <1>9, JudgeIsSure DEF Finalize
  <2>2. ~Posting'
    BY <1>9 DEF Finalize, Posting
  <2> QED
    BY <1>9, <2>1, <2>2, FinalFrom DEF Finalize
<1>10. CASE CommitFinalize
  <2>1. config'.judged = config.judged /\ Due /\ ~Posting'
    BY <1>1, <1>2, <1>10, CompleteFacts DEF CommitFinalize, Due, Decided, Posting
  <2> QED
    BY <1>1, <1>10, <2>1, FinalFrom DEF CommitFinalize
<1>11. CASE Verify
  <2>1. verifier'.step = "commit" => Ready(config) /\ Judge
    BY <1>2, <1>11 DEF Verify
  <2>2. verifier'.step # "commit" => (Due' => Due) /\ config' = config
    BY <1>11 DEF Verify, Due, Decided
  <2>3. Due' => config'.judged # "no"
    BY <1>1, <2>1, <2>2, JudgeIsSure
  <2> QED
    BY <1>1, <1>11, <2>3, FinalFrom DEF Verify, Posting
<1>12. CASE Commit
  <2>1. config'.judged = config.judged /\ Due
    BY <1>1, <1>12, CompleteFacts DEF Commit, Due, Decided
  <2> QED
    BY <1>1, <1>12, <2>1, FinalFrom DEF Commit, Posting
<1>13. CASE SaveFinal
  <2>1. store' = store \/ store'.config = config
    BY <1>13, StoreAfterSave DEF SaveFinal
  <2>2. (Due' => Due) /\ config'.judged = config.judged
    BY <1>1, <1>2, <1>13, GiveUpFacts DEF SaveFinal, Due, Decided
  <2> QED
    BY <1>1, <1>13, <2>1, <2>2, FinalFrom DEF SaveFinal, Posting
<1>14. CASE Unmark
  <2>1. store'.config = store.config
    BY <1>14, MarkKeepsConfig DEF Unmark
  <2> QED
    BY <1>1, <1>14, <2>1, FinalFrom DEF Unmark, Due, Decided, Posting
<1>15. CASE Adopt \/ WritePeer \/ CopyMaster
  <2>1. (Due' => Due) /\ config'.judged = config.judged
    BY <1>15, WorkerFacts DEF Adopt, WritePeer, CopyMaster, Due, Decided
  <2> QED
    BY <1>1, <1>15, <2>1, FinalFrom DEF Adopt, WritePeer, CopyMaster, Posting
<1>16. CASE SavePeer \/ SaveMaster
  <2>1. store' = store \/ store'.config = config
    BY <1>16, StoreAfterSave DEF SavePeer, SaveMaster
  <2> QED
    BY <1>1, <1>16, <2>1, FinalFrom DEF SavePeer, SaveMaster, Due, Decided, Posting
<1>17. CASE LearnPeer \/ HearMaster \/ \E h \in Hellos : HearHello(h)
  BY <1>1, <1>17, FinalFrom DEF LearnPeer, HearMaster, HearHello, Due, Decided, Posting
<1>18. CASE ResetAtStart \/ HoldButton
  <2>1. store'.config = None
    BY <1>18 DEF ResetAtStart, HoldButton
  <2> QED
    BY <1>1, <1>18, <2>1, FinalFrom DEF ResetAtStart, HoldButton, Due, Decided, Posting
<1>19. ASSUME NEW c \in {"inverter", "mqtt", "link"}, Connect(c) \/ Disconnect(c)
       PROVE  FinalInv'
  BY <1>1, <1>19, FinalFrom DEF Connect, Disconnect, Due, Decided, Posting
<1>20. CASE UNCHANGED vars
  BY <1>1, <1>20, FinalFrom DEF vars, Due, Decided, Posting
<1> QED
  BY StepCases, <1>4, <1>5, <1>6, <1>7, <1>8, <1>9, <1>10, <1>11, <1>12, <1>13, <1>14,
     <1>15, <1>16, <1>17, <1>18, <1>19, <1>20
-----------------------------------------------------------------------------
(*                            Saved forms                                  *)

LEMMA ResumedFrom ==
  ASSUME ResumedInv, UNCHANGED <<store, http, answered, overtaken, forms>>, config'.form = config.form
  PROVE  ResumedInv'
BY DEF ResumedInv, Posting

(* A task that stores config_ overtakes a form between its two saves only. *)
LEMMA OvertakenFrom ==
  ASSUME Typed, ResumedInv, UNCHANGED <<http, answered, forms>>,
         config'.form = config.form,
         \/ UNCHANGED <<store, overtaken>>
         \/ Overtakes /\ store'.config # None /\ store'.config.form = config.form
              /\ store'.pending = store.pending
  PROVE  ResumedInv'
BY DEF ResumedInv, Overtakes, Posting

(* A form that was answered "saved" stays in the store, marked, until the  *)
(* next start, whatever is saved, lost or learned meanwhile.               *)
LEMMA ResumedStep ==
  ASSUME Typed, TracedInv, StartedInv, ResumedInv, [Next]_vars
  PROVE  ResumedInv'
<1>1. /\ config.form >= answered
      /\ Posting => http.candidate.form = forms
      /\ http.step = "mark" /\ ~overtaken =>
           store.config # None /\ store.config.form = http.candidate.form
      /\ answered # 0 /\ ~overtaken =>
           store.config # None /\ store.config.form >= answered /\ store.pending
  BY DEF ResumedInv
<1>2. /\ answered \in Nat /\ answered <= forms /\ forms \in Nat
      /\ config \in Config /\ config # None /\ config.form \in Nat
  BY SetupAssumption, ConfigIsNotNone DEF Typed, TracedInv, Config
<1>3. NoForm.step = "idle" /\ Default.form = 0 /\ Default \in Config
  BY DefaultIsConfig DEF NoForm, Default
<1>4. ASSUME GoDown
      PROVE  ResumedInv'
  BY <1>3, <1>4 DEF GoDown, ResumedInv, Posting
<1>5. CASE Start
  <2>1. http' = NoForm /\ answered' = 0
    BY <1>5 DEF Start, StartedInv, history
  <2>2. config' \in Config
    BY <1>5, TypedStep DEF Typed
  <2>3. config'.form \in Nat
    BY <2>2 DEF Config
  <2> QED
    BY <1>3, <2>1, <2>3 DEF ResumedInv, Posting
<1>6. CASE Restart \/ Crash \/ ReleaseButton
  BY <1>4, <1>6 DEF Restart, Crash, ReleaseButton
<1>7. ASSUME NEW f \in Forms, PostForm(f)
      PROVE  ResumedInv'
  <2>1. Candidate(f).form = forms + 1
    BY <1>2, CandidateFacts, SetupAssumption
  <2>2. /\ http' = [step |-> "save", candidate |-> Candidate(f)] /\ forms' = forms + 1
        /\ UNCHANGED <<store, config, answered, overtaken>>
    BY <1>7 DEF PostForm, history
  <2> QED
    BY <1>1, <2>1, <2>2 DEF ResumedInv
<1>8. CASE SaveForm
  <2>1. /\ http \in [step : {"save", "mark"}, candidate : Config]
        /\ http.candidate \in Config /\ http.candidate # None /\ http.candidate.form = forms
    BY <1>1, <1>8, PostingIsTyped, ConfigIsNotNone DEF SaveForm, Posting
  <2>2. UNCHANGED <<config, answered, overtaken, forms>>
    BY <1>8 DEF SaveForm, history
  <2>3. CASE Saved(http.candidate) /\ http' = [http EXCEPT !.step = "mark"]
    <3>1. http'.candidate = http.candidate
      BY <2>1, <2>3
    <3>2. store'.config = http.candidate /\ store'.pending = store.pending
      BY <2>3 DEF Saved, Typed
    <3> QED
      BY <1>1, <1>2, <2>1, <2>2, <3>1, <3>2 DEF ResumedInv
  <2>4. CASE NotSaved(http.candidate) /\ http' = NoForm
    <3>1. store' = store
      BY <2>4 DEF NotSaved
    <3> QED
      BY <1>1, <1>3, <2>2, <2>4, <3>1 DEF ResumedInv, Posting
  <2> QED
    BY <1>8, <2>3, <2>4 DEF SaveForm
<1>9. CASE MarkForm
  <2>1. /\ http.candidate.form = forms /\ http.candidate \in Config /\ http'.step = "idle"
        /\ UNCHANGED <<overtaken, forms>>
    BY <1>1, <1>3, <1>9, PostingIsTyped DEF MarkForm, Posting
  <2>2. store'.config = store.config
    BY <1>9, MarkKeepsConfig DEF MarkForm
  <2>3. CASE Marked(TRUE) /\ Answer
    <3>1. store'.pending /\ config'.form = forms /\ answered' = forms
      BY <2>1, <2>3 DEF Marked, Answer, Typed, Config
    <3>2. ~overtaken => store.config # None /\ store.config.form = forms
      BY <1>1, <1>9, <2>1 DEF MarkForm
    <3> QED
      BY <1>2, <2>1, <2>2, <3>1, <3>2 DEF ResumedInv, Posting
  <2>4. CASE NotMarked /\ UNCHANGED <<config, answered>>
    <3>1. store' = store
      BY <2>4 DEF NotMarked
    <3> QED
      BY <1>1, <2>1, <2>4, <3>1 DEF ResumedInv, Posting
  <2> QED
    BY <1>9, <2>3, <2>4 DEF MarkForm
<1>10. CASE Finalize
  <2>1. config'.form = config.form /\ http'.step = "commit" /\ UNCHANGED <<store, answered, overtaken, forms>>
    BY <1>2, <1>10, JudgeFacts DEF Finalize, Like, history
  <2> QED
    BY <1>1, <2>1 DEF ResumedInv, Posting
<1>11. CASE CommitFinalize
  <2>1. config'.form = config.form /\ UNCHANGED <<store, answered, overtaken, forms>>
    BY <1>2, <1>11, CompleteFacts DEF CommitFinalize, Like, history
  <2>2. http'.step = "idle"
    BY <1>3, <1>11 DEF CommitFinalize
  <2> QED
    BY <1>1, <2>1, <2>2 DEF ResumedInv, Posting
<1>12. CASE Verify \/ Commit
  <2>1. config'.form = config.form
    BY <1>2, <1>12, JudgeFacts, CompleteFacts DEF Verify, Commit, Like
  <2> QED
    BY <1>12, <2>1, ResumedFrom DEF Verify, Commit, history
<1>13. CASE SaveFinal
  <2>1. config'.form = config.form
    BY <1>2, <1>13, GiveUpFacts DEF SaveFinal, Like
  <2>2. \/ UNCHANGED <<store, overtaken>>
        \/ Overtakes /\ store'.config = config /\ store'.pending = store.pending
    BY <1>13 DEF SaveFinal, Saved, NotSaved, Typed
  <2> QED
    BY <1>2, <1>13, <2>1, <2>2, OvertakenFrom DEF SaveFinal
<1>14. CASE Unmark
  <2>1. store'.config = store.config
    BY <1>14, MarkKeepsConfig DEF Unmark
  <2> QED
    BY <1>1, <1>14, <2>1 DEF Unmark, ResumedInv, Posting
<1>15. CASE Adopt \/ WritePeer \/ CopyMaster
  <2>1. config'.form = config.form
    BY <1>15, WorkerFacts DEF Like
  <2> QED
    BY <1>15, <2>1, ResumedFrom DEF Adopt, WritePeer, CopyMaster, history
<1>16. CASE SavePeer \/ SaveMaster
  <2>1. \/ UNCHANGED <<store, overtaken>>
        \/ Overtakes /\ store'.config = config /\ store'.pending = store.pending
    BY <1>16 DEF SavePeer, SaveMaster, Saved, NotSaved, Typed
  <2> QED
    BY <1>2, <1>16, <2>1, OvertakenFrom DEF SavePeer, SaveMaster
<1>17. CASE LearnPeer \/ HearMaster \/ \E h \in Hellos : HearHello(h)
  BY <1>17, ResumedFrom DEF LearnPeer, HearMaster, HearHello, history
<1>18. CASE ResetAtStart
  <2>1. http = NoForm /\ answered = 0
    BY <1>18 DEF ResetAtStart, StartedInv
  <2> QED
    BY <1>1, <1>3, <1>18, <2>1 DEF ResetAtStart, ResumedInv, history, Posting
<1>19. CASE HoldButton
  BY <1>1, <1>19 DEF HoldButton, ResumedInv, Posting
<1>20. ASSUME NEW c \in {"inverter", "mqtt", "link"}, Connect(c) \/ Disconnect(c)
       PROVE  ResumedInv'
  BY <1>20, ResumedFrom DEF Connect, Disconnect, history
<1>21. CASE UNCHANGED vars
  BY <1>21, ResumedFrom DEF vars, history
<1> QED
  BY StepCases, <1>5, <1>6, <1>7, <1>8, <1>9, <1>10, <1>11, <1>12, <1>13, <1>14, <1>15,
     <1>16, <1>17, <1>18, <1>19, <1>20, <1>21
-----------------------------------------------------------------------------
(*                               Pairing                                   *)

(* A pairing is a matter of these fields alone.                            *)
LEMMA SamePairingFrom ==
  ASSUME NEW c, NEW d, NEW e, d.site = c.site, d.peers = c.peers, SamePairing(c, e)
  PROVE  SamePairing(d, e)
BY DEF SamePairing, Boards, Paired

(* An update with the address that the entry has keeps the boards.         *)
LEMMA WriteKeepsBoards ==
  ASSUME NEW c \in Config, NEW d, NEW h \in Hello, NEW i \in Paired(c),
         d.site = c.site, d.peers = [c.peers EXCEPT ![i] = BoardOf(h)], c.peers[i].mac = h.mac
  PROVE  SamePairing(d, c)
<1>1. BoardOf(h) # Free /\ BoardOf(h).mac = h.mac /\ i \in 1 .. Slots
  BY BoardFacts DEF Paired
<1>2. c.peers \in [1 .. Slots -> Peer \cup {Free}]
  BY DEF Config
<1>3. \A j \in 1 .. Slots : d.peers[j] = IF j = i THEN BoardOf(h) ELSE c.peers[j]
  BY <1>1, <1>2
<1>4. Paired(d) = Paired(c)
  BY <1>1, <1>3 DEF Paired
<1>5. \A j \in Paired(c) : d.peers[j].mac = c.peers[j].mac
  BY <1>1, <1>3 DEF Paired
<1> QED
  BY <1>4, <1>5 DEF SamePairing, Boards

LEMMA KeptFrom ==
  ASSUME KeptInv, store'.config = store.config,
         mesh' = mesh \/ mesh'.step # "write",
         \/ /\ config'.form = config.form /\ config'.site = config.site /\ config'.peers = config.peers
            /\ \/ ~config'.provisioned \/ completion'.step = "save"
               \/ /\ config'.provisioned = config.provisioned
                  /\ config'.disturbed = config.disturbed
                  /\ completion'.step # "save" => completion.step # "save"
         \/ mesh'.step # "write" /\ ~config'.provisioned
         \/ config'.form > config.form /\ config.form \in Nat /\ config'.form \in Nat
            /\ mesh \in MeshShape /\ ~config'.provisioned
  PROVE  KeptInv' /\ KeepsPairing
<1>1. KeepsPairing
  BY DEF KeepsPairing, SamePairing
<1>2. /\ Final' = Final
      /\ SamePairing(config, store.config)' = SamePairing(config', store.config)
  BY DEF Final, SamePairing, Boards, Paired
<1>3. Final' /\ config'.provisioned /\ ~config'.disturbed
        /\ config'.form = store'.config.form /\ completion'.step # "save" =>
          SamePairing(config', store.config)
  BY <1>2, SamePairingFrom DEF KeptInv
<1>4. mesh'.step = "write" =>
        /\ mesh'.final <= config'.form
        /\ mesh'.final = config'.form /\ mesh'.final > 0 =>
             ~mesh'.new /\ mesh'.at \in Paired(config)' /\ config'.peers[mesh'.at].mac = mesh'.hello.mac
  <2>1. CASE config'.form = config.form /\ config'.peers = config.peers
    <3>1. Paired(config)' = Paired(config)
      BY <2>1 DEF Paired
    <3> QED
      BY <2>1, <3>1 DEF KeptInv
  <2>2. CASE config'.form > config.form /\ config.form \in Nat /\ config'.form \in Nat /\ mesh \in MeshShape
    <3>1. mesh.step = "write" => mesh.final \in Nat /\ mesh.final <= config.form
      BY <2>2, SetupAssumption DEF KeptInv, MeshShape, WriteShape
    <3> QED
      BY <2>2, <3>1
  <2> QED
    BY <2>1, <2>2
<1> QED
  BY <1>1, <1>2, <1>3, <1>4 DEF KeptInv

(* The worker's half of the invariant when only the store or the past of   *)
(* the configuration in RAM changes.                                       *)
LEMMA KeptInRam ==
  ASSUME KeptInv, UNCHANGED <<config, mesh>> \/ (mesh'.step # "write"),
         Final' /\ config'.provisioned /\ ~config'.disturbed
           /\ config'.form = store'.config.form /\ completion'.step # "save" =>
             SamePairing(config', store'.config)
  PROVE  KeptInv'
<1>1. SamePairing(config, store.config)' = SamePairing(config', store'.config)
  BY DEF SamePairing, Boards, Paired
<1>2. mesh'.step = "write" =>
        /\ mesh'.final <= config'.form
        /\ mesh'.final = config'.form /\ mesh'.final > 0 =>
             ~mesh'.new /\ mesh'.at \in Paired(config)' /\ config'.peers[mesh'.at].mac = mesh'.hello.mac
  BY DEF KeptInv, Paired
<1> QED
  BY <1>1, <1>2 DEF KeptInv

(* A worker that changes a final configuration leaves its pairing as it    *)
(* was, or a note that it did not.                                         *)
LEMMA DisturbedOrKept ==
  ASSUME KeptInv, UNCHANGED <<store, completion>>, mesh'.step # "write",
         config'.form = config.form, config'.provisioned = config.provisioned,
         ~config'.disturbed => ~config.disturbed /\ (config.provisioned => SamePairing(config, config'))
  PROVE  KeptInv' /\ KeepsPairing
<1>1. KeepsPairing
  BY DEF KeepsPairing, SamePairing
<1>2. ASSUME Final, config'.provisioned, ~config'.disturbed,
             config'.form = store.config.form, completion.step # "save"
      PROVE  SamePairing(config', store.config)
  BY <1>2 DEF KeptInv, SamePairing
<1>3. Final' = Final
  BY DEF Final
<1> QED
  BY <1>1, <1>2, <1>3, KeptInRam

(* A save of what is in RAM.                                               *)
LEMMA KeptAfterSave ==
  ASSUME Typed, KeptInv, UNCHANGED <<config, completion>>, mesh' = mesh \/ mesh'.step # "write",
         Saved(config) \/ NotSaved(config)
  PROVE  KeptInv' /\ KeepsPairing
<1>1. store' = store \/ store'.config = config
  BY StoreAfterSave
<1>2. CASE store' = store
  <2>1. KeepsPairing
    BY <1>2 DEF KeepsPairing, SamePairing
  <2>2. Final' = Final
    BY <1>2 DEF Final
  <2> QED
    BY <1>2, <2>1, <2>2, KeptInRam DEF KeptInv
<1>3. CASE store'.config = config
  <2>1. SamePairing(config, store'.config)
    BY <1>3 DEF SamePairing
  <2>2. KeepsPairing
    BY <1>3 DEF KeepsPairing, KeptInv, SamePairing, Final
  <2> QED
    BY <2>1, <2>2, KeptInRam
<1> QED
  BY <1>1, <1>2, <1>3

(* Neither a save nor an announcement changes the pairing of a final       *)
(* configuration but through what is noted.                                *)
LEMMA KeptStep ==
  ASSUME Typed, TracedInv, StartedInv, FinalInv, KeptInv, [Next]_vars
  PROVE  KeptInv' /\ KeepsPairing
<1>1. /\ config \in Config /\ config.form \in Nat
      /\ Posting => ~http.candidate.provisioned /\ http.candidate.form > config.form
      /\ ~Default.provisioned /\ Waiting.step = "idle" /\ mesh \in MeshShape
      /\ config # None
  BY ConfigIsNotNone DEF Typed, Default, FinalInv, TracedInv, Waiting, Config
<1>2. ASSUME GoDown, UNCHANGED store
      PROVE  KeptInv' /\ KeepsPairing
  BY <1>1, <1>2, KeptFrom DEF GoDown
<1>3. CASE Start
  <2>1. store' = store /\ mesh'.step # "write"
    BY <1>1, <1>3 DEF Start, workers, StartedInv
  <2>2. KeepsPairing
    BY <2>1 DEF KeepsPairing, SamePairing
  <2>3. PICK loaded \in {IF store.config = None THEN Default ELSE store.config, Default} :
          config' = IF loaded.provisioned THEN loaded ELSE Unjudged(loaded)
    BY <1>3 DEF Start
  <2>4. loaded \in Config
    BY DefaultIsConfig DEF Typed
  <2>5. ~loaded.provisioned => ~Unjudged(loaded).provisioned
    BY <2>4 DEF Unjudged, Config
  <2>6. Final' /\ config'.provisioned => config' = store'.config
    BY <1>1, <2>1, <2>3, <2>5 DEF Final
  <2>7. Final' /\ config'.provisioned => SamePairing(config', store'.config)
    BY <2>6 DEF SamePairing
  <2> QED
    BY <2>1, <2>2, <2>7, KeptInRam
<1>4. CASE Restart \/ Crash \/ ReleaseButton
  BY <1>2, <1>4 DEF Restart, Crash, ReleaseButton
<1>5. ASSUME NEW f \in Forms, PostForm(f)
      PROVE  KeptInv' /\ KeepsPairing
  BY <1>5, KeptFrom DEF PostForm, workers
<1>6. CASE SaveForm
  <2>1. ~http.candidate.provisioned /\ UNCHANGED <<config, completion, mesh>>
    BY <1>1, <1>6 DEF SaveForm, Posting, workers
  <2>2. store' = store \/ store'.config = http.candidate
    BY <1>6, StoreAfterSave DEF SaveForm
  <2>3. CASE store' = store
    BY <2>1, <2>3, KeptFrom
  <2>4. CASE store'.config = http.candidate
    <3>1. ~Final' /\ KeepsPairing
      BY <2>1, <2>4 DEF Final, KeepsPairing
    <3> QED
      BY <2>1, <3>1, KeptInRam
  <2> QED
    BY <2>2, <2>3, <2>4
<1>7. CASE MarkForm
  <2>1. store'.config = store.config /\ mesh' = mesh
    BY <1>7, MarkKeepsConfig DEF MarkForm, workers
  <2>2. CASE UNCHANGED config
    BY <1>7, <2>1, <2>2, KeptFrom DEF MarkForm
  <2>3. CASE Answer
    <3>1. Posting /\ http.candidate \in Config
      BY <1>7, PostingIsTyped DEF MarkForm, Posting
    <3>2. /\ ~config'.provisioned /\ config'.form > config.form
          /\ config'.form \in Nat
      BY <1>1, <2>3, <3>1 DEF Answer, Config
    <3> QED
      BY <1>1, <2>1, <3>2, KeptFrom
  <2> QED
    BY <1>7, <2>2, <2>3 DEF MarkForm
<1>8. CASE Finalize \/ Verify
  <2>1. UNCHANGED <<store, completion, mesh>>
    BY <1>8 DEF Finalize, Verify, workers
  <2>2. CASE Judge
    <3>1. /\ config'.form = config.form /\ config'.site = config.site /\ config'.peers = config.peers
          /\ config'.provisioned = config.provisioned
          /\ config.provisioned => config'.disturbed = config.disturbed
      BY <1>1, <2>2, JudgeFacts DEF Like
    <3> QED
      BY <2>1, <3>1, KeptFrom
  <2>3. CASE UNCHANGED config
    BY <2>1, <2>3, KeptFrom
  <2> QED
    BY <1>8, <2>2, <2>3 DEF Finalize, Verify
<1>9. CASE CommitFinalize \/ Commit
  <2>1. UNCHANGED <<store, mesh>>
    BY <1>9 DEF CommitFinalize, Commit, workers
  <2>2. CASE UNCHANGED <<config, completion>>
    BY <2>1, <2>2, KeptFrom
  <2>3. ASSUME NEW by \in {"http", "verifier"}, Complete(by)
        PROVE  KeptInv' /\ KeepsPairing
    BY <1>1, <2>1, <2>3, CompleteFacts, KeptFrom DEF Like
  <2> QED
    BY <1>9, <2>2, <2>3 DEF CommitFinalize, Commit
<1>10. CASE SaveFinal
  <2>1. KeepsPairing /\ mesh' = mesh
    BY <1>10 DEF SaveFinal, KeepsPairing, workers
  <2>2. CASE Saved(config) /\ UNCHANGED config
    <3>1. store'.config = config
      BY <2>2 DEF Saved, Typed
    <3>2. SamePairing(config', store'.config)
      BY <2>2, <3>1 DEF SamePairing
    <3> QED
      BY <2>1, <2>2, <3>2, KeptInRam
  <2>3. CASE NotSaved(config) /\ GiveUp
    <3>1. store' = store
      BY <2>3 DEF NotSaved
    <3> QED
      BY <1>1, <2>1, <2>3, <3>1, GiveUpFacts, KeptFrom DEF Like
  <2> QED
    BY <1>10, <2>2, <2>3 DEF SaveFinal
<1>11. CASE Unmark
  <2>1. store'.config = store.config
    BY <1>11, MarkKeepsConfig DEF Unmark
  <2>2. completion.step # "save" /\ UNCHANGED <<config, mesh>>
    BY <1>11 DEF Unmark, workers
  <2> QED
    BY <2>1, <2>2, KeptFrom
<1>12. CASE Adopt
  <2>1. /\ UNCHANGED <<store, completion>> /\ mesh'.step # "write"
        /\ config'.site = Adopted.site /\ config'.peers = Adopted.peers
        /\ config'.form = config.form /\ config'.provisioned = config.provisioned
        /\ config'.disturbed <=> config.disturbed \/ Disturbs(Adopted)
    <3>1. mesh'.step # "write"
      BY <1>1, <1>12 DEF Adopt, MeshShape, WriteShape
    <3> QED
      BY <1>1, <1>12, <3>1, AdoptFacts DEF Adopt, Like
  <2>2. ~Disturbs(Adopted) /\ config.provisioned => SamePairing(config, Adopted)
    BY DEF Disturbs
  <2>3. SamePairing(config, Adopted) => SamePairing(config, config')
    BY <2>1 DEF SamePairing, Boards, Paired
  <2> QED
    BY <2>1, <2>2, <2>3, DisturbedOrKept
<1>13. CASE CopyMaster
  <2>1. /\ UNCHANGED <<store, completion>> /\ mesh' = mesh
        /\ config'.site = Copied.site /\ config'.peers = Copied.peers /\ config'.peers = config.peers
        /\ config'.form = config.form /\ config'.provisioned = config.provisioned
        /\ config'.disturbed <=> config.disturbed \/ Disturbs(Copied)
    BY <1>1, <1>13, CopyFacts DEF CopyMaster, Like
  <2>2. ~Disturbs(Copied) /\ config.provisioned => SamePairing(config, Copied)
    BY DEF Disturbs
  <2>3. SamePairing(config, Copied) => SamePairing(config, config')
    BY <2>1 DEF SamePairing, Boards, Paired
  <2>4. KeepsPairing
    BY <2>1 DEF KeepsPairing, SamePairing
  <2>5. ASSUME Final, config'.provisioned, ~config'.disturbed,
               config'.form = store.config.form, completion.step # "save"
        PROVE  SamePairing(config', store.config)
    BY <2>1, <2>2, <2>3, <2>5 DEF KeptInv, SamePairing
  <2>6. Final' = Final /\ Paired(config)' = Paired(config)
    BY <2>1 DEF Final, Paired
  <2>7. SamePairing(config, store.config)' = SamePairing(config', store.config)
    BY <2>1 DEF SamePairing, Boards, Paired
  <2> QED
    BY <2>1, <2>4, <2>5, <2>6, <2>7 DEF KeptInv
<1>14. CASE WritePeer
  <2>1. UNCHANGED <<store, completion>> /\ mesh'.step # "write"
    BY <1>14 DEF WritePeer
  <2>2. CASE UNCHANGED config
    BY <2>1, <2>2, KeptFrom
  <2>3. CASE mesh.new \/ mesh.at \in Paired(config)
    <3>1. /\ config'.site = Written.site /\ config'.peers = Written.peers
          /\ config'.form = config.form /\ config'.provisioned = config.provisioned
          /\ config'.site = config.site
          /\ config'.peers = [config.peers EXCEPT ![mesh.at] = BoardOf(mesh.hello)]
          /\ config'.disturbed <=>
               config.disturbed \/ (mesh.final # config.form /\ Disturbs(Written))
          /\ mesh.hello \in Hello
      BY <1>1, <1>14, <2>3, WriteFacts, SetupAssumption DEF Like
    <3>2. CASE mesh.final # config.form
      <4>1. ~Disturbs(Written) /\ config.provisioned => SamePairing(config, Written)
        BY DEF Disturbs
      <4>2. SamePairing(config, Written) => SamePairing(config, config')
        BY <3>1 DEF SamePairing, Boards, Paired
      <4> QED
        BY <2>1, <3>1, <3>2, <4>1, <4>2, DisturbedOrKept
    <3>3. CASE mesh.final = config.form /\ mesh.final > 0
      <4>1. mesh.at \in Paired(config) /\ config.peers[mesh.at].mac = mesh.hello.mac
        BY <1>14, <3>3 DEF WritePeer, KeptInv
      <4>2. SamePairing(config', config)
        BY <1>1, <3>1, <4>1, WriteKeepsBoards
      <4>3. SamePairing(config, config')
        BY <4>2 DEF SamePairing
      <4> QED
        BY <2>1, <3>1, <4>3, DisturbedOrKept
    <3>4. CASE config.form = 0
      <4>1. Final => store.config.form > 0
        BY DEF Final, TracedInv, Traced, Valid
      <4>2. KeepsPairing
        BY <2>1 DEF KeepsPairing, SamePairing
      <4>3. ~ (Final' /\ config'.form = store'.config.form)
        BY <2>1, <3>1, <3>4, <4>1 DEF Final
      <4> QED
        BY <2>1, <4>2, <4>3, KeptInRam
    <3> QED
      BY <1>1, <3>2, <3>3, <3>4
  <2> QED
    BY <1>14, <2>2, <2>3 DEF WritePeer
<1>15. CASE LearnPeer
  <2>1. UNCHANGED <<store, config, completion>>
    BY <1>15 DEF LearnPeer
  <2>2. CASE mesh' = Waiting
    BY <1>1, <2>1, <2>2, KeptFrom
  <2>3. CASE Accepts(config, mesh.hello)
    <3>1. mesh.hello \in Hello
      BY <1>1, <1>15, SetupAssumption DEF LearnPeer, MeshShape, WriteShape
    <3>2. mesh' = [step |-> "write", hello |-> mesh.hello, at |-> EntryFor(config, mesh.hello),
                   new |-> Known(config, mesh.hello) = {},
                   final |-> IF config.provisioned THEN config.form ELSE 0]
      BY <1>15, <2>3 DEF LearnPeer
    <3>3. mesh'.final <= config.form /\ (mesh'.final > 0 => config.provisioned)
      BY <1>1, <3>2
    <3>4. config.provisioned =>
            ~mesh'.new /\ mesh'.at \in Paired(config) /\ config.peers[mesh'.at].mac = mesh'.hello.mac
      BY <1>1, <2>3, <3>1, <3>2, EntryFacts
    <3>5. KeepsPairing /\ Final' = Final /\ Paired(config)' = Paired(config)
      BY <2>1 DEF KeepsPairing, SamePairing, Final, Paired
    <3>6. SamePairing(config, store.config)' = SamePairing(config, store.config)
      BY <2>1 DEF SamePairing, Boards, Paired
    <3> QED
      BY <2>1, <3>3, <3>4, <3>5, <3>6 DEF KeptInv
  <2> QED
    BY <1>15, <2>2, <2>3 DEF LearnPeer
<1>16. CASE SavePeer \/ SaveMaster
  BY <1>1, <1>16, KeptAfterSave DEF SavePeer, SaveMaster
<1>17. CASE HearMaster
  BY <1>17, KeptFrom DEF HearMaster
<1>18. ASSUME NEW h \in Hellos, HearHello(h)
       PROVE  KeptInv' /\ KeepsPairing
  BY <1>18, KeptFrom DEF HearHello
<1>19. CASE ResetAtStart \/ HoldButton
  <2>1. store'.config = None /\ UNCHANGED <<config, mesh>>
    BY <1>19 DEF ResetAtStart, HoldButton, workers
  <2>2. ~Final' /\ KeepsPairing
    BY <2>1 DEF KeepsPairing, Final
  <2> QED
    BY <2>1, <2>2, KeptInRam
<1>20. ASSUME NEW c \in {"inverter", "mqtt", "link"}, Connect(c) \/ Disconnect(c)
       PROVE  KeptInv' /\ KeepsPairing
  BY <1>20, KeptFrom DEF Connect, Disconnect, workers
<1>21. CASE UNCHANGED vars
  BY <1>21, KeptFrom DEF vars, workers
<1> QED
  BY StepCases, <1>3, <1>4, <1>5, <1>6, <1>7, <1>8, <1>9, <1>10, <1>11, <1>12, <1>13, <1>14,
     <1>15, <1>16, <1>17, <1>18, <1>19, <1>20, <1>21
-----------------------------------------------------------------------------
(*                        Partners of a final configuration                *)

(* Counted members do not become fewer while their places are kept.        *)
LEMMA FoundGrows ==
  ASSUME NEW c, NEW d,
         \A i \in Paired(c) : c.peers[i].id # 0 => i \in Paired(d) /\ d.peers[i].id # 0
  PROVE  Found(c) <= Found(d) /\ Found(c) \in Nat /\ Found(d) \in Nat
<1> DEFINE S == {i \in Paired(c) : c.peers[i].id # 0}
           T == {i \in Paired(d) : d.peers[i].id # 0}
<1>1. S \subseteq T /\ T \subseteq 1 .. Slots
  BY DEF Paired
<1> HIDE DEF S, T
<1>2. IsFiniteSet(T) /\ IsFiniteSet(S)
  <2>1. IsFiniteSet(1 .. Slots)
    BY FS_Interval, SetupAssumption
  <2> QED
    BY <1>1, <2>1, FS_Subset
<1>3. Cardinality(S) <= Cardinality(T) /\ Cardinality(S) \in Nat /\ Cardinality(T) \in Nat
  BY <1>1, <1>2, FS_Subset, FS_CardinalityType
<1> QED
  BY <1>3 DEF Found, S, T

(* Partners are a matter of these fields alone.                            *)
LEMMA PartneredSame ==
  ASSUME NEW c, NEW d, Partnered(c),
         d.role = c.role, d.expected = c.expected, d.site = c.site, d.peers = c.peers,
         c.disturbed => d.disturbed
  PROVE  Partnered(d)
BY DEF Partnered, HasPartners, Found, HasCoordinator, Paired

(* A member that loses its coordinator is noted as disturbed.              *)
LEMMA AdoptKeepsPartners ==
  ASSUME Typed, PartnersInv, Adopt, Due, config.form = boot.form, Partnered(config)
  PROVE  Partnered(config')
<1>1. /\ config'.role = "member" /\ config.role = "member"
      /\ config'.disturbed <=> config.disturbed \/ Disturbs(Adopted)
      /\ Adopted.peers = NoPeers
  BY AdoptFacts DEF Adopt, PartnersInv, Like, Typed, MeshShape, WriteShape
<1>2. CASE config.disturbed
  BY <1>1, <1>2 DEF Partnered
<1>3. CASE HasCoordinator(config)
  <2>1. Paired(config) # {} /\ Paired(Adopted) = {}
    BY <1>1, <1>3 DEF HasCoordinator, Paired, NoPeers
  <2>2. Boards(config) # {} /\ Boards(Adopted) = {}
    BY <2>1 DEF Boards
  <2>3. Disturbs(Adopted)
    BY <2>2 DEF Disturbs, SamePairing, Due
  <2> QED
    BY <1>1, <2>3 DEF Partnered
<1> QED
  BY <1>1, <1>2, <1>3 DEF Partnered, HasPartners, IsCoordinator

(* An entry is filled with a coordinator of a member, or with a member.    *)
LEMMA WriteKeepsPartners ==
  ASSUME Typed, PartnersInv, WritePeer, mesh.new \/ mesh.at \in Paired(config),
         config.form = boot.form, Partnered(config)
  PROVE  Partnered(config')
<1>1. /\ IF mesh.hello.id = 0 THEN config.role = "member" ELSE config.role \in IsCoordinator
      /\ config'.role = config.role /\ config'.expected = config.expected
      /\ config'.peers = [config.peers EXCEPT ![mesh.at] = BoardOf(mesh.hello)]
      /\ mesh.hello \in Hello /\ mesh.at \in 1 .. Slots
      /\ config \in Config
  BY WriteFacts, SetupAssumption DEF WritePeer, PartnersInv, Like, Typed
<1>2. BoardOf(mesh.hello) # Free /\ BoardOf(mesh.hello).id = mesh.hello.id
  BY <1>1, BoardFacts
<1>3. config.peers \in [1 .. Slots -> Peer \cup {Free}] /\ config.expected \in Nat
  BY <1>1 DEF Config
<1>4. \A i \in 1 .. Slots :
        config'.peers[i] = IF i = mesh.at THEN BoardOf(mesh.hello) ELSE config.peers[i]
  BY <1>1, <1>3
<1>5. mesh.at \in Paired(config') /\ Paired(config) \subseteq Paired(config')
  BY <1>1, <1>2, <1>4 DEF Paired
<1>6. CASE mesh.hello.id = 0
  <2>1. HasCoordinator(config')
    BY <1>1, <1>2, <1>4, <1>5, <1>6 DEF HasCoordinator
  <2> QED
    BY <1>1, <1>6, <2>1 DEF Partnered, HasPartners, IsCoordinator
<1>7. CASE mesh.hello.id # 0
  <2>1. \A i \in Paired(config) : config.peers[i].id # 0 => i \in Paired(config') /\ config'.peers[i].id # 0
    BY <1>1, <1>2, <1>4, <1>5, <1>7 DEF Paired
  <2>2. Found(config) <= Found(config') /\ Found(config) \in Nat /\ Found(config') \in Nat
    BY <2>1, FoundGrows
  <2>3. config.role \in IsCoordinator /\ Found(config) >= config.expected
    BY <1>1, <1>7 DEF Partnered, HasPartners, IsCoordinator
  <2>4. Found(config') >= config'.expected
    BY <1>1, <1>3, <2>2, <2>3
  <2> QED
    BY <1>1, <2>3, <2>4 DEF Partnered, HasPartners, IsCoordinator
<1> QED
  BY <1>6, <1>7

(* Steps that keep the form in hand, what was started and what the workers *)
(* have in hand.                                                           *)
LEMMA PartnersFrom ==
  ASSUME PartnersInv,
         UNCHANGED <<boot, forms>>,
         config'.form = config.form, config'.role = config.role,
         Due' => Excused(config') \/ (config'.form = boot.form /\ Partnered(config')),
         config.form = boot.form /\ config.role = "gateway" /\ config.site = MasterSite =>
           config'.site = MasterSite,
         "link" \in up' => "link" \in up \/ (config.role = "gateway" => config.site = MasterSite),
         mesh'.step \in {"adopt", "learn", "write"} =>
           mesh' = mesh \/ (mesh.step \in {"adopt", "learn"} /\ mesh'.hello = mesh.hello
                              /\ mesh'.step # "adopt"),
         link' = link \/ link' # "copy",
         store'.config \in {store.config, None, config} \/ ~store'.config.provisioned,
         Posting' => Posting /\ http'.candidate = http.candidate
  PROVE  PartnersInv'
<1>1. Due' => Excused(config)' \/ (config'.form = boot'.form /\ Partnered(config)')
  BY DEF Excused, Partnered, HasPartners, Found, HasCoordinator, Paired
<1>2. FinalHasPartners'
  <2>1. CASE store'.config = config
    <3>1. config.provisioned => Excused(config) \/ Partnered(config)
      BY DEF PartnersInv, Due
    <3> QED
      BY <2>1, <3>1
      DEF FinalHasPartners, Final, Excused, Partnered, HasPartners, Found, HasCoordinator, Paired
  <2>2. CASE store'.config = store.config
    BY <2>2 DEF PartnersInv, FinalHasPartners, Final, HasPartners, Found, HasCoordinator, Paired
  <2>3. CASE store'.config = None \/ ~store'.config.provisioned
    BY <2>3 DEF FinalHasPartners, Final
  <2> QED
    BY <2>1, <2>2, <2>3
<1>3. ASSUME config.form = boot.form
      PROVE  /\ "link" \in up' /\ config'.role = "gateway" => config'.site = MasterSite
             /\ mesh'.step \in {"adopt", "learn", "write"} =>
                  IF mesh'.hello.id = 0 THEN config'.role = "member" ELSE config'.role \in IsCoordinator
             /\ mesh'.step = "adopt" => mesh'.hello.id = 0
             /\ link' = "copy" => config'.role = "gateway"
  BY <1>3 DEF PartnersInv
<1>4. boot'.form <= forms' /\ (Posting' => http'.candidate.form > boot'.form)
  BY DEF PartnersInv
<1> QED
  BY <1>1, <1>2, <1>3, <1>4 DEF PartnersInv

(* Nothing but the note of a disturbed member lets a configuration become  *)
(* final without the partners its role needs.                              *)
LEMMA PartnersStep ==
  ASSUME Typed, TracedInv, StartedInv, FinalInv, PartnersInv, ResumedInv, [Next]_vars
  PROVE  PartnersInv'
<1>1. /\ config \in Config /\ forms \in Nat /\ mesh \in MeshShape
      /\ boot.form \in Nat /\ boot.form <= forms /\ config.form \in Nat
      /\ Posting => ~http.candidate.provisioned /\ http.candidate.form > boot.form
      /\ Due => Excused(config) \/ (config.form = boot.form /\ Partnered(config))
  BY SetupAssumption DEF Typed, FinalInv, PartnersInv, Config, BootShape
<1>2. /\ NoForm.step = "idle" /\ NotChecking.step = "off" /\ Off.form = 0 /\ Off.mode = "off"
      /\ Default.form = 0 /\ Default.role = "none" /\ ~Default.provisioned
      /\ Waiting.step = "idle" /\ \A n : Checking(n).step = "check"
  BY DEF NoForm, NotChecking, Off, Default, Waiting, Checking
<1>3. ASSUME UNCHANGED store
      PROVE  FinalHasPartners'
  BY <1>3 DEF PartnersInv, FinalHasPartners, Final, HasPartners, Found, HasCoordinator, Paired
<1>4. ASSUME GoDown, UNCHANGED store
      PROVE  PartnersInv'
  <2>1. /\ boot' = Off /\ config' = Default /\ up' = {} /\ http' = NoForm /\ verifier' = NotChecking
        /\ mesh' = Waiting /\ link' = "idle" /\ UNCHANGED forms
    BY <1>4 DEF GoDown
  <2>2. ~Due' /\ ~Posting'
    BY <1>2, <2>1 DEF Due, Decided, Posting
  <2> QED
    BY <1>1, <1>2, <1>3, <1>4, <2>1, <2>2 DEF PartnersInv
<1>5. CASE Start
  <2>1. http = NoForm /\ up = {} /\ mesh = Waiting /\ link = "idle"
    <3>1. boot = Off /\ http = NoForm /\ up \subseteq Attached /\ mesh = Waiting /\ link = "idle"
      BY <1>5 DEF Start, StartedInv
    <3>2. Off.role = "none"
      BY DEF Off
    <3> QED
      BY <1>2, <3>1, <3>2 DEF Attached, UsesMqtt, UsesLink
  <2>2. UNCHANGED <<store, up, http, mesh, link, forms>>
    BY <1>5 DEF Start, workers
  <2>3. PICK loaded \in {IF store.config = None THEN Default ELSE store.config, Default}, marked \in BOOLEAN :
          /\ config' = IF loaded.provisioned THEN loaded ELSE Unjudged(loaded)
          /\ boot' = Booted(loaded, marked)
          /\ verifier'.step # "commit"
    <3>1. \A c : (~c.provisioned /\ store.pending) \in BOOLEAN
      OBVIOUS
    <3> QED
      BY <1>2, <1>5, <3>1 DEF Start
  <2>4. loaded \in Config /\ loaded.form <= forms
    BY <1>1, <1>2, DefaultIsConfig DEF Typed, TracedInv, Traced
  <2>5. /\ boot'.form = loaded.form /\ config'.form = loaded.form
        /\ ~loaded.provisioned => ~config'.provisioned
    BY <2>3, <2>4 DEF Booted, Unjudged, Config
  <2>6. Due' => loaded.provisioned /\ config' = loaded
    BY <1>2, <2>1, <2>2, <2>3, <2>5 DEF Due, Decided
  <2>7. loaded.provisioned => Excused(loaded) \/ Partnered(loaded)
    BY <1>2 DEF PartnersInv, FinalHasPartners, Final, Excused, Partnered
  <2>8. Due' => Excused(config)' \/ (config'.form = boot'.form /\ Partnered(config)')
    BY <2>5, <2>6, <2>7 DEF Excused, Partnered, HasPartners, Found, HasCoordinator, Paired
  <2>9. ~Posting'
    BY <1>2, <2>1, <2>2 DEF Posting
  <2> QED
    BY <1>2, <1>3, <2>1, <2>2, <2>4, <2>5, <2>8, <2>9 DEF PartnersInv
<1>6. CASE Restart \/ Crash \/ ReleaseButton
  BY <1>4, <1>6 DEF Restart, Crash, ReleaseButton
<1>7. ASSUME NEW f \in Forms, PostForm(f)
      PROVE  PartnersInv'
  <2>1. Candidate(f).form = forms + 1
    BY <1>1, CandidateFacts, SetupAssumption
  <2>2. /\ http' = [step |-> "save", candidate |-> Candidate(f)] /\ forms' = forms + 1
        /\ UNCHANGED <<store, config, boot, up, verifier, mesh, link>>
    BY <1>7 DEF PostForm, workers
  <2>3. http'.candidate.form > boot'.form /\ boot'.form <= forms'
    BY <1>1, <2>1, <2>2
  <2>4. Due' => Due
    BY <2>2 DEF Due, Decided
  <2>5. Due' => Excused(config)' \/ (config'.form = boot'.form /\ Partnered(config)')
    BY <1>1, <2>2, <2>4 DEF Excused, Partnered, HasPartners, Found, HasCoordinator, Paired
  <2> QED
    BY <1>3, <2>2, <2>3, <2>5 DEF PartnersInv
<1>8. CASE SaveForm
  <2>1. http \in [step : {"save", "mark"}, candidate : Config] /\ Posting
    BY <1>8, PostingIsTyped DEF SaveForm, Posting
  <2>2. Posting' => Posting /\ http'.candidate = http.candidate
    BY <1>2, <1>8, <2>1 DEF SaveForm, Posting
  <2>3. store' = store \/ store'.config = http.candidate
    BY <1>8, StoreAfterSave DEF SaveForm
  <2>4. UNCHANGED <<config, boot, up, verifier, mesh, link, forms>> /\ (Due' => Due)
    BY <1>2, <1>8, <2>1 DEF SaveForm, workers, Due, Decided
  <2> QED
    BY <1>1, <2>1, <2>2, <2>3, <2>4, PartnersFrom
<1>9. CASE MarkForm
  <2>1. /\ store'.config = store.config /\ ~Posting' /\ http'.step # "commit"
        /\ UNCHANGED <<boot, up, verifier, mesh, link, forms>>
    BY <1>2, <1>9, MarkKeepsConfig DEF MarkForm, Posting, workers
  <2>2. CASE UNCHANGED config
    BY <1>1, <2>1, <2>2, PartnersFrom DEF Due, Decided
  <2>3. CASE Answer
    <3>1. Posting /\ http.candidate \in Config
      BY <1>9, PostingIsTyped DEF MarkForm, Posting
    <3>2. /\ ~config'.provisioned /\ config'.form > boot.form
          /\ verifier.step = "commit" => config'.judged = "hasty"
      BY <1>1, <2>3, <3>1 DEF Answer, Config
    <3>3. config'.form # boot'.form
      BY <1>1, <2>1, <3>2
    <3>4. Due' => Excused(config)'
      BY <2>1, <3>2 DEF Due, Decided, Excused
    <3>5. FinalHasPartners'
      BY <2>1 DEF PartnersInv, FinalHasPartners, Final, HasPartners, Found, HasCoordinator, Paired
    <3> QED
      BY <1>1, <2>1, <3>3, <3>4, <3>5 DEF PartnersInv
  <2> QED
    BY <1>9, <2>2, <2>3 DEF MarkForm
<1>10. ASSUME Ready(config), Judge
       PROVE  /\ config'.form = config.form /\ config'.role = config.role /\ config'.site = config.site
              /\ Excused(config') \/ (config'.form = boot.form /\ Partnered(config'))
  BY <1>1, <1>10, JudgeFacts, JudgeIsSure DEF Like, Partnered
<1>11. CASE Finalize
  <2>1. ~Posting' /\ UNCHANGED <<store, boot, up, mesh, link, forms>>
    BY <1>11 DEF Finalize, Posting, workers
  <2> QED
    BY <1>10, <1>11, <2>1, PartnersFrom DEF Finalize
<1>12. CASE Verify
  <2>1. UNCHANGED <<store, boot, up, http, mesh, link, forms>>
    BY <1>12 DEF Verify, workers
  <2>2. CASE verifier'.step = "commit"
    <3>1. Ready(config) /\ Judge
      BY <1>2, <1>12, <2>2 DEF Verify
    <3> QED
      BY <1>10, <2>1, <3>1, PartnersFrom DEF Posting
  <2>3. CASE verifier'.step # "commit"
    <3>1. UNCHANGED config /\ (Due' => Due)
      BY <1>12, <2>3 DEF Verify, Due, Decided
    <3> QED
      BY <1>1, <2>1, <3>1, PartnersFrom DEF Posting
  <2> QED
    BY <2>2, <2>3
<1>13. CASE CommitFinalize \/ Commit
  <2>1. Due /\ UNCHANGED <<store, boot, up, mesh, link, forms>>
    BY <1>13 DEF CommitFinalize, Commit, Due, Decided, workers
  <2>2. Posting' => Posting /\ http'.candidate = http.candidate
    BY <1>2, <1>13 DEF CommitFinalize, Commit, Posting
  <2>3. CASE UNCHANGED config
    BY <1>1, <2>1, <2>2, <2>3, PartnersFrom
  <2>4. ASSUME NEW by \in {"http", "verifier"}, Complete(by)
        PROVE  PartnersInv'
    <3>1. /\ Like(config', config) /\ config'.site = config.site /\ config'.peers = config.peers
          /\ config'.judged = config.judged /\ config'.disturbed = config.disturbed
      BY <1>1, <2>4, CompleteFacts
    <3>2. Excused(config') \/ (config'.form = boot.form /\ Partnered(config'))
      BY <1>1, <2>1, <3>1, PartneredSame DEF Like, Excused
    <3> QED
      BY <2>1, <2>2, <3>1, <3>2, PartnersFrom DEF Like
  <2> QED
    BY <1>13, <2>3, <2>4 DEF CommitFinalize, Commit
<1>14. CASE SaveFinal
  <2>1. store' = store \/ store'.config = config
    BY <1>14, StoreAfterSave DEF SaveFinal
  <2>2. UNCHANGED <<boot, up, http, mesh, link, forms>>
    BY <1>14 DEF SaveFinal, workers
  <2>3. verifier' = verifier \/ verifier'.step = "check"
    BY <1>2, <1>14 DEF SaveFinal
  <2>4. CASE UNCHANGED config
    <3>1. Due' => Due
      BY <2>2, <2>3, <2>4 DEF Due, Decided
    <3> QED
      BY <1>1, <2>1, <2>2, <2>4, <3>1, PartnersFrom DEF Posting
  <2>5. CASE GiveUp
    <3>1. /\ Like(config', config) /\ config'.site = config.site /\ config'.peers = config.peers
          /\ config'.judged = config.judged /\ config'.disturbed = config.disturbed
          /\ ~config'.provisioned
      BY <1>1, <2>5, GiveUpFacts
    <3>2. Due' => Due
      BY <2>2, <2>3, <3>1 DEF Due, Decided
    <3>3. Due' => Excused(config') \/ (config'.form = boot.form /\ Partnered(config'))
      BY <1>1, <3>1, <3>2, PartneredSame DEF Like, Excused
    <3> QED
      BY <2>1, <2>2, <3>1, <3>3, PartnersFrom DEF Like, Posting
  <2> QED
    BY <1>14, <2>4, <2>5 DEF SaveFinal
<1>15. CASE Unmark
  <2>1. store'.config = store.config
    BY <1>15, MarkKeepsConfig DEF Unmark
  <2> QED
    BY <1>1, <1>15, <2>1, PartnersFrom DEF Unmark, workers, Due, Decided, Posting
<1>16. CASE Adopt
  <2>1. /\ Like(config', config) /\ config'.judged = config.judged
        /\ config'.provisioned = config.provisioned
    BY <1>16, WorkerFacts
  <2>2. UNCHANGED <<store, boot, up, http, verifier, link, forms>> /\ (Due' => Due)
    BY <1>16, <2>1 DEF Adopt, Due, Decided
  <2>3. Due' => Excused(config') \/ (config'.form = boot.form /\ Partnered(config'))
    BY <1>1, <1>16, <2>1, <2>2, AdoptKeepsPartners DEF Like, Excused
  <2>4. mesh.step = "adopt" /\ mesh'.hello = mesh.hello /\ mesh'.step = "learn"
    BY <1>1, <1>16 DEF Adopt, MeshShape, WriteShape
  <2>5. config.form = boot.form => config.role = "member"
    BY <2>4 DEF PartnersInv
  <2> QED
    BY <2>1, <2>2, <2>3, <2>4, <2>5, PartnersFrom DEF Like, Posting
<1>17. CASE LearnPeer
  <2>1. /\ UNCHANGED <<store, config, boot, up, http, verifier, link, forms>>
        /\ mesh.step = "learn"
    BY <1>17 DEF LearnPeer
  <2>2. mesh'.step \in {"adopt", "learn", "write"} =>
          mesh'.hello = mesh.hello /\ mesh'.step # "adopt"
    BY <1>2, <1>17 DEF LearnPeer
  <2> QED
    BY <1>1, <2>1, <2>2, PartnersFrom DEF Due, Decided, Posting
<1>18. CASE WritePeer
  <2>1. /\ Like(config', config) /\ config'.judged = config.judged
        /\ config'.provisioned = config.provisioned
    BY <1>18, WorkerFacts
  <2>2. /\ UNCHANGED <<store, boot, up, http, verifier, link, forms>> /\ (Due' => Due)
        /\ mesh'.step = "save"
    BY <1>18, <2>1 DEF WritePeer, Due, Decided
  <2>3. Due' => Excused(config') \/ (config'.form = boot.form /\ Partnered(config'))
    <3>1. CASE UNCHANGED config
      BY <1>1, <2>2, <3>1
    <3>2. CASE mesh.new \/ mesh.at \in Paired(config)
      BY <1>1, <1>18, <2>1, <2>2, <3>2, WriteKeepsPartners DEF Like, Excused
    <3> QED
      BY <1>18, <3>1, <3>2 DEF WritePeer
  <2>4. config'.site = config.site
    BY <1>18, WriteFacts DEF WritePeer
  <2> QED
    BY <2>1, <2>2, <2>3, <2>4, PartnersFrom DEF Like, Posting
<1>19. CASE SavePeer
  <2>1. store' = store \/ store'.config = config
    BY <1>19, StoreAfterSave DEF SavePeer
  <2>2. UNCHANGED <<config, boot, up, http, verifier, link, forms>> /\ mesh' = Waiting
    BY <1>19 DEF SavePeer
  <2> QED
    BY <1>1, <1>2, <2>1, <2>2, PartnersFrom DEF Due, Decided, Posting
<1>20. ASSUME NEW h \in Hellos, HearHello(h)
       PROVE  PartnersInv'
  <2>1. UNCHANGED <<store, config, boot, up, http, verifier, link, forms>>
    BY <1>20 DEF HearHello
  <2>2. /\ mesh'.hello = h /\ (mesh'.step = "adopt" => h.id = 0)
        /\ IF h.id = 0 THEN config.role = "member" ELSE config.role \in IsCoordinator
    BY <1>20 DEF HearHello
  <2>3. (Due' => Due) /\ (Posting' => Posting)
    BY <2>1 DEF Due, Decided, Posting
  <2>4. Due' => Excused(config)' \/ (config'.form = boot'.form /\ Partnered(config)')
    BY <1>1, <2>1, <2>3 DEF Excused, Partnered, HasPartners, Found, HasCoordinator, Paired
  <2> QED
    BY <1>3, <2>1, <2>2, <2>3, <2>4 DEF PartnersInv
<1>21. CASE HearMaster
  <2>1. /\ UNCHANGED <<store, config, boot, up, http, verifier, mesh, forms>>
        /\ config.role = "gateway"
    BY <1>21 DEF HearMaster
  <2>2. (Due' => Due) /\ (Posting' => Posting)
    BY <2>1 DEF Due, Decided, Posting
  <2>3. Due' => Excused(config)' \/ (config'.form = boot'.form /\ Partnered(config)')
    BY <1>1, <2>1, <2>2 DEF Excused, Partnered, HasPartners, Found, HasCoordinator, Paired
  <2> QED
    BY <1>3, <2>1, <2>2, <2>3 DEF PartnersInv
<1>22. CASE CopyMaster
  <2>1. /\ Like(config', config) /\ config'.judged = config.judged
        /\ config'.provisioned = config.provisioned /\ config'.site = MasterSite
        /\ config.disturbed => config'.disturbed
    BY <1>22, WorkerFacts, CopyFacts
  <2>2. UNCHANGED <<store, boot, up, http, verifier, mesh, forms>> /\ (Due' => Due) /\ link' = "save"
    BY <1>22, <2>1 DEF CopyMaster, Due, Decided
  <2>3. config.form = boot.form => config.role = "gateway"
    BY <1>22 DEF CopyMaster, PartnersInv
  <2>4. config.form = boot.form => Partnered(config')
    BY <2>1, <2>3 DEF Partnered, HasPartners, IsCoordinator, Like
  <2>5. Due' => Excused(config') \/ (config'.form = boot.form /\ Partnered(config'))
    BY <1>1, <2>1, <2>2, <2>4 DEF Like, Excused
  <2> QED
    BY <2>1, <2>2, <2>5, PartnersFrom DEF Like, Posting
<1>23. CASE SaveMaster
  <2>1. store' = store \/ store'.config = config
    BY <1>23, StoreAfterSave DEF SaveMaster
  <2>2. UNCHANGED <<config, boot, up, http, verifier, mesh, forms>> /\ link' # "copy"
    BY <1>23 DEF SaveMaster
  <2> QED
    BY <1>1, <2>1, <2>2, PartnersFrom DEF Due, Decided, Posting
<1>24. CASE ResetAtStart \/ HoldButton
  <2>1. store'.config = None
    BY <1>24 DEF ResetAtStart, HoldButton
  <2> QED
    BY <1>1, <1>24, <2>1, PartnersFrom DEF ResetAtStart, HoldButton, history, workers, Due, Decided, Posting
<1>25. ASSUME NEW c \in {"inverter", "mqtt", "link"}, Connect(c) \/ Disconnect(c)
       PROVE  PartnersInv'
  <2>1. "link" \in up' => "link" \in up \/ (config.role = "gateway" => config.site = MasterSite)
    BY <1>25 DEF Connect, Disconnect
  <2>2. UNCHANGED <<store, config, boot, http, verifier, mesh, link, forms>>
    BY <1>25 DEF Connect, Disconnect, history, workers
  <2> QED
    BY <1>1, <2>1, <2>2, PartnersFrom DEF Due, Decided, Posting
<1>26. CASE UNCHANGED vars
  BY <1>1, <1>26, PartnersFrom DEF vars, workers, Due, Decided, Posting
<1> QED
  BY StepCases, <1>5, <1>6, <1>7, <1>8, <1>9, <1>11, <1>12, <1>13, <1>14, <1>15, <1>16,
     <1>17, <1>18, <1>19, <1>20, <1>21, <1>22, <1>23, <1>24, <1>25, <1>26
-----------------------------------------------------------------------------
(*                              Theorems                                   *)

(* What is true in every reachable state, and is kept by every step.       *)
IInv == Typed /\ TracedInv /\ StartedInv /\ FinalInv /\ PartnersInv /\ ResumedInv /\ KeptInv

LEMMA IInvAtStart == Init => IInv
<1>1. SUFFICES ASSUME Init PROVE IInv
  OBVIOUS
<1>2. Typed
  BY <1>1, TypedStart
<1>3. /\ store.config = None /\ config = Default /\ boot = Off /\ http = NoForm /\ up = {}
      /\ verifier = NotChecking /\ mesh = Waiting /\ link = "idle"
      /\ answered = 0 /\ forms = 0
  BY <1>1 DEF Init
<1>4. /\ NoForm.step = "idle" /\ Off.mode = "off" /\ Default.form = 0 /\ ~Default.provisioned
      /\ NotChecking.step = "off" /\ Off.form = 0 /\ Waiting.step = "idle"
  BY DEF NoForm, Off, Default, NotChecking, Waiting
<1>5. ~Posting /\ ~Due /\ ~Final
  BY <1>3, <1>4 DEF Posting, Due, Decided, Final
<1>6. TracedInv
  BY <1>3, <1>5, DefaultIsTraced DEF TracedInv
<1>7. StartedInv
  BY <1>3, <1>4 DEF StartedInv
<1>8. FinalInv
  BY <1>5 DEF FinalInv, FinalIsVerifiedOrHasty
<1>9. ResumedInv
  BY <1>3, <1>4, <1>5 DEF ResumedInv
<1>10. KeptInv
  BY <1>3, <1>4, <1>5 DEF KeptInv
<1>11. PartnersInv
  BY <1>3, <1>4, <1>5 DEF PartnersInv, FinalHasPartners
<1> QED
  BY <1>2, <1>6, <1>7, <1>8, <1>9, <1>10, <1>11 DEF IInv

(* The set-up keeps its inductive invariant, whatever the HTTP server, the *)
(* verification task, the two pairing workers and the button do between    *)
(* the check and the save of one another: every configuration in RAM, in a *)
(* form or in the store comes from a form; one that is final, or is about  *)
(* to be, was judged by a check that found everything ready; and what a    *)
(* worker changes in it after that is on record.                           *)
THEOREM SetupInvariant == Spec => []IInv
<1>1. IInv /\ [Next]_vars => IInv'
  BY TypedStep, TracedStep, StartedStep, FinalStep, PartnersStep, ResumedStep, KeptStep
  DEF IInv
<1> QED
  BY IInvAtStart, <1>1, PTL DEF Spec

(* No form, announcement, failing save, crash or restart makes a stored    *)
(* configuration final: only verification_task and finalize_handler do, at *)
(* a check that found it ready, or one overtaken by its form.              *)
THEOREM FinalConfigurationsAreVerified == Spec => []FinalIsVerifiedOrHasty
<1>1. IInv => FinalIsVerifiedOrHasty
  BY DEF IInv, FinalInv
<1> QED
  BY SetupInvariant, <1>1, PTL

(* However pairing, forms, verification and saves interleave, what         *)
(* required_connections_ready has seen of the partners of an ESP started   *)
(* with its form is there in the final configuration, but for a member     *)
(* whose worker cleared the table on a check older than the completion.    *)
THEOREM FinalConfigurationsHavePartners == Spec => []FinalHasPartners
<1>1. IInv => FinalHasPartners
  BY DEF IInv, PartnersInv
<1> QED
  BY SetupInvariant, <1>1, PTL

(* What config_post_handler has answered "saved" is what the ESP starts    *)
(* with, unless another task or the button went over it.                   *)
THEOREM SavedFormsAreResumed == Spec => []SavedIsResumed
<1>1. IInv => SavedIsResumed
  BY DEF IInv, ResumedInv, SavedIsResumed
<1> QED
  BY SetupInvariant, <1>1, PTL

(* learn_peer, adoption and their late saves leave a final configuration   *)
(* with the boards and the id it was paired with, except for what passed   *)
(* its check before the configuration was final and was written after.     *)
THEOREM FinalPairingIsKept == Spec => FinalKeepsPairing
<1>1. IInv /\ [Next]_vars => [KeepsPairing]_vars
  BY KeptStep DEF IInv
<1> QED
  BY SetupInvariant, <1>1, PTL DEF Spec, FinalKeepsPairing

(* Every variable keeps its type, and the store holds valid configurations *)
(* that came from a form.                                                  *)
THEOREM SetupTypeCorrect == Spec => []TypeOK
<1>1. IInv => TypeOK
  <2>1. SUFFICES ASSUME IInv PROVE TypeOK
    OBVIOUS
  <2>2. Typed /\ TracedInv /\ StartedInv
    BY <2>1 DEF IInv
  <2>3. ASSUME NEW c \in Config, Traced(c)
        PROVE  ConfigOK(c)
    <3>1. DOMAIN c = DOMAIN Default
      BY DefaultIsConfig DEF Config
    <3>2. c.form \in 0 .. MaxForms
      BY <2>2, <2>3, SetupAssumption DEF Typed, Traced, Config
    <3>3. /\ c.role \in Role /\ c.provisioned \in BOOLEAN
          /\ c.peers \in [1 .. Slots -> Peer \cup {Free}]
          /\ c.judged \in {"no", "verified", "early", "hasty"} /\ c.disturbed \in BOOLEAN
      BY DEF Config
    <3> QED
      BY <3>1, <3>2, <3>3 DEF ConfigOK
  <2>4. config \in Config /\ Traced(config)
    BY <2>2 DEF Typed, TracedInv
  <2>5. store.config # None =>
          ConfigOK(store.config) /\ Valid(store.config) /\ store.config.form > 0
    <3>1. store.config # None =>
            store.config \in Config /\ Traced(store.config) /\ Valid(store.config)
      BY <2>2 DEF Typed, TracedInv
    <3> QED
      BY <2>3, <3>1 DEF Traced, Valid
  <2>6. \/ http \in [step : {"idle", "commit"}]
        \/ http.step \in {"save", "mark"} /\ ConfigOK(http.candidate)
    <3>1. CASE http \in [step : {"idle", "commit"}]
      BY <3>1
    <3>2. CASE http \in [step : {"save", "mark"}, candidate : Config]
      <4>1. http.candidate \in Config /\ Traced(http.candidate) /\ http.step \in {"save", "mark"}
        BY <2>2, <3>2 DEF TracedInv, Posting
      <4> QED
        BY <2>3, <4>1
    <3> QED
      BY <2>2, <3>1, <3>2 DEF Typed, HttpShape
  <2>7. /\ boot.mode \in {"off", "portal", "normal"} /\ boot.role \in Role
        /\ boot.mode = "normal" => boot.role # "none"
        /\ up \subseteq Attached
    BY <2>2 DEF Typed, StartedInv, BootShape
  <2>8. /\ store.pending \in BOOLEAN
        /\ verifier.step \in {"off", "check", "commit", "busy"} /\ verifier.count \in 0 .. Stable
        /\ completion.step \in {"none", "save", "unmark", "done"}
        /\ completion.by \in {"none", "http", "verifier"}
    BY <2>2 DEF Typed, VerifierShape, CompletionShape
  <2>9. /\ mesh \in [step : {"idle", "save"}] \cup [step : {"adopt", "learn"}, hello : Hellos]
          \/ mesh \in WriteShape
        /\ link \in {"idle", "copy", "save", "done"}
    BY <2>2 DEF Typed, MeshShape
  <2>10. /\ rebooting \in BOOLEAN /\ wiped \in BOOLEAN /\ overtaken \in BOOLEAN
         /\ answered <= forms
         /\ forms \in 0 .. MaxForms /\ faults \in 0 .. MaxFaults
    BY <2>2 DEF Typed, TracedInv
  <2> QED
    BY <2>3, <2>4, <2>5, <2>6, <2>7, <2>8, <2>9, <2>10 DEF TypeOK, WriteShape
<1> QED
  BY SetupInvariant, <1>1, PTL
=============================================================================
