---------------------------- MODULE Provisioning ----------------------------
(***************************************************************************)
(* The set-up of one ESP: the form of the setup page, the verification of  *)
(* its connections, pairing with other ESPs, the configuration store and   *)
(* the factory reset, across restarts and crashes.                         *)
(*                                                                         *)
(* One SystemConfig in RAM (config_) is shared without a lock by the HTTP  *)
(* server, the verification task, the mesh worker, the worker of the       *)
(* coordinator cable and the button task.  What a task checks, what it     *)
(* changes in config_ on the strength of that check, and what it saves are *)
(* steps of their own, between which the other tasks run.                  *)
(* The monitor preference a form saves as well shares the fate of its mark.*)
(***************************************************************************)
EXTENDS Integers, Sequences, FiniteSets, FiniteSetsExt

CONSTANTS
  Forms,       \* forms the installer may send
  Hellos,      \* announcements of other boards this ESP may hear
  OwnSite,     \* installation id derived from the hardware address
  MasterSite,  \* id in the heartbeats of the cable, for a gateway
  Slots,       \* max_saved_peers
  Stable,      \* checks in a row: setup_verification_stable_ms / .._check_ms
  MaxForms,    \* bound on accepted forms
  MaxFaults    \* bound on failing flash accesses, crashes, lost connections
               \* and moves of a member from one coordinator to another

Role == {"none", "standalone", "coordinator", "member", "gateway", "combined"}
HasInverter == {"standalone", "coordinator", "member", "combined"}
UsesMqtt == {"standalone", "gateway", "combined"}
IsCoordinator == {"coordinator", "combined"}
UsesMesh == IsCoordinator \cup {"member"}
UsesLink == {"coordinator", "gateway"}
IsParallel == {"coordinator", "member", "gateway", "combined"}

(* "kept": the page sends the installation id it was given.  "pairing"     *)
(* stands for topology, member id and radio channel.                       *)
Form == [role : Role, pairing : Nat, expected : Nat, site : {"kept"} \cup STRING]

(* Member id 0 announces a coordinator.  Topology and number of inverters  *)
(* are those of "expected" members.                                        *)
Hello == [mac : STRING, id : Nat, site : STRING, expected : Nat]

ASSUME SetupAssumption ==
  /\ Forms \subseteq Form /\ Hellos \subseteq Hello
  /\ OwnSite \in STRING /\ MasterSite \in STRING \ {OwnSite}
  /\ Slots \in Nat \ {0} /\ Stable \in Nat \ {0}
  /\ MaxForms \in Nat /\ MaxFaults \in Nat

None == [role |-> "empty"]

VARIABLES
  store,       \* flash: the configuration, or None, and the verification mark
  config,      \* config_
  boot,        \* what app_main found when it started the tasks
  up,          \* connections whose probe answers yes
  http,        \* a form until its answer, or a Finalize that found all ready
  verifier,    \* verification_task
  completion,  \* complete_provisioning: how far, and in which task
  mesh,        \* worker of the mesh: an announcement on its way into config_
  link,        \* worker of the cable: the master's id on its way into config_
  rebooting,   \* a task will restart the ESP in a moment
  wiped,       \* the button was held, the store is erased, BOOT not released
  answered,    \* history: number of the latest form answered since the start
  overtaken,   \* history: another task stored something while a form was saved
  forms, faults

history == <<answered, overtaken>>
workers == <<mesh, link>>
vars == <<store, config, boot, up, http, verifier, completion, workers, rebooting,
          wiped, history, forms, faults>>

Fault == faults < MaxFaults /\ faults' = faults + 1
-----------------------------------------------------------------------------
(*                    Configurations and their store                       *)

(* A configuration holds, as history, the number of the form it came from, *)
(* whether it was found working before it became final, and whether its    *)
(* partners changed after that.                                            *)
(* Its peers are a table of Slots entries, each of them a board or free.   *)
Free == [free |-> TRUE]
NoPeers == [i \in 1 .. Slots |-> Free]
Default == [role |-> "none", pairing |-> 0, expected |-> 0, site |-> OwnSite,
            peers |-> NoPeers, provisioned |-> FALSE,
            form |-> 0, judged |-> "no", disturbed |-> FALSE]

(* Faulty variant: the role is not looked at.                              *)
ValidWithoutRole(c) == (c.role \in IsParallel <=> c.expected > 0) /\ c.expected < Slots

(* validate_config: a role, and counts that fit it and the peer table.     *)
Valid(c) == c.role # "none" /\ (c.role \in IsParallel <=> c.expected > 0) /\ c.expected < Slots

(* ConfigStore::save refuses what is not valid, and may fail.              *)
Saved(c) == Valid(c) /\ store' = [store EXCEPT !.config = c] /\ UNCHANGED faults
NotSaved(c) == (IF Valid(c) THEN Fault ELSE UNCHANGED faults) /\ UNCHANGED store

Marked(mark) == store' = [store EXCEPT !.pending = mark] /\ UNCHANGED faults
NotMarked == Fault /\ UNCHANGED store

(* Another task stores its configuration while a form is being saved.      *)
Overtakes == overtaken' = (overtaken \/ http.step = "mark")

Paired(c) == {i \in 1 .. Slots : c.peers[i] # Free}
HasCoordinator(c) == \E i \in Paired(c) : c.peers[i].id = 0
Found(c) == Cardinality({i \in Paired(c) : c.peers[i].id # 0})
-----------------------------------------------------------------------------
(*                        Start and restart                                *)

Off == [mode |-> "off", role |-> "none", form |-> 0, marked |-> FALSE, waiting |-> FALSE]
NoForm == [step |-> "idle"]
NotChecking == [step |-> "off", count |-> 0]
Checking(n) == [step |-> "check", count |-> n]
NotCompleting == [step |-> "none", by |-> "none"]
Waiting == [step |-> "idle"]

GoDown ==
  /\ boot' = Off /\ config' = Default /\ up' = {}
  /\ http' = NoForm /\ verifier' = NotChecking /\ completion' = NotCompleting
  /\ mesh' = Waiting /\ link' = "idle"
  /\ rebooting' = FALSE /\ wiped' = FALSE
  /\ answered' = 0 /\ overtaken' = FALSE
  /\ UNCHANGED forms

Booted(c, marked) ==
  [mode |-> IF c.provisioned THEN "normal" ELSE "portal", role |-> c.role, form |-> c.form,
   marked |-> marked, waiting |-> ~c.provisioned /\ c.role = "gateway" /\ c.site = OwnSite]

Unjudged(c) == [c EXCEPT !.judged = "no", !.disturbed = FALSE]

(* app_main: normal operation with a final configuration, otherwise the    *)
(* portal, which verifies when the mark is set.  A configuration that      *)
(* cannot be read is taken for a missing one, a mark for one not set.      *)
Start ==
  /\ boot.mode = "off"
  /\ LET stored == IF store.config = None THEN Default ELSE store.config
     IN  \E loaded \in {stored, Default} :
           LET due == ~loaded.provisioned /\ store.pending
           IN  \E marked \in {due, FALSE} :
                 /\ IF loaded = stored /\ marked = due THEN UNCHANGED faults ELSE Fault
                 /\ config' = IF loaded.provisioned THEN loaded ELSE Unjudged(loaded)
                 /\ boot' = Booted(loaded, marked)
                 /\ verifier' = IF marked THEN Checking(0) ELSE NotChecking
  /\ UNCHANGED <<store, up, http, completion, workers, rebooting, wiped, history, forms>>

(* provisioning_button_held during the start erases a valid configuration. *)
ResetAtStart ==
  /\ boot.mode = "off" /\ store.config # None
  /\ store' = [config |-> None, pending |-> FALSE]
  /\ UNCHANGED <<config, boot, up, http, verifier, completion, workers, rebooting, wiped, history, forms, faults>>

Restart == rebooting /\ GoDown /\ UNCHANGED <<store, faults>>
Crash == boot.mode # "off" /\ Fault /\ GoDown /\ UNCHANGED store

(* provisioning_button_task, started with a valid configuration.  When     *)
(* esp_wifi_restore fails after the erasure the ESP goes on as before.     *)
HoldButton ==
  /\ boot.role # "none" /\ ~wiped
  /\ store' = [config |-> None, pending |-> FALSE]
  /\ wiped' \in BOOLEAN
  /\ Fault
  /\ overtaken' = TRUE
  /\ UNCHANGED <<config, boot, up, http, verifier, completion, workers, rebooting, answered, forms>>

ReleaseButton == wiped /\ GoDown /\ UNCHANGED <<store, faults>>
-----------------------------------------------------------------------------
(*                             Connections                                 *)

(* What can answer a probe: telemetry under its own member id (a gateway's *)
(* is the master's, 0), and what app_main has started for the role it      *)
(* found, which is not MQTT while a gateway does not know its installation.*)
Attached ==
  {c \in {"inverter", "mqtt", "link"} :
     CASE c = "inverter" -> boot.role # "none"
       [] c = "mqtt" -> boot.role \in UsesMqtt /\ ~boot.waiting
       [] c = "link" -> boot.role \in UsesLink}

(* A gateway hears the cable only under the master's installation id.      *)
Connect(c) ==
  /\ c \in Attached \ up
  /\ c = "link" /\ config.role = "gateway" => config.site = MasterSite
  /\ up' = up \cup {c}
  /\ UNCHANGED <<store, config, boot, http, verifier, completion, workers, rebooting, wiped, history, forms, faults>>

(* local_inverter_seen is never withdrawn.                                 *)
Disconnect(c) ==
  /\ c \in up \ {"inverter"} /\ Fault /\ up' = up \ {c}
  /\ UNCHANGED <<store, config, boot, http, verifier, completion, workers, rebooting, wiped, history, forms>>

(* Faulty variants: one member too few will do; MQTT is not asked for.     *)
ReadyButOne(c) ==
  /\ c.role \in UsesMqtt => "mqtt" \in up
  /\ c.role \in HasInverter => "inverter" \in up
  /\ c.role = "member" => boot.role \in UsesMesh /\ HasCoordinator(c)
  /\ c.role \in IsCoordinator => Found(c) + 1 >= c.expected
  /\ c.role \in UsesLink => "link" \in up

ReadyOffline(c) ==
  /\ c.role \in HasInverter => "inverter" \in up
  /\ c.role = "member" => boot.role \in UsesMesh /\ HasCoordinator(c)
  /\ c.role \in IsCoordinator => Found(c) >= c.expected
  /\ c.role \in UsesLink => "link" \in up

(* What finalize_handler and required_connections_ready ask for.           *)
Ready(c) ==
  /\ c.role \in UsesMqtt => "mqtt" \in up
  /\ c.role \in HasInverter => "inverter" \in up
  /\ c.role = "member" => boot.role \in UsesMesh /\ HasCoordinator(c)
  /\ c.role \in IsCoordinator => Found(c) >= c.expected
  /\ c.role \in UsesLink => "link" \in up
-----------------------------------------------------------------------------
(*                   Verification and completion                           *)

(* What the documents ask of an installation before it is final: whatever  *)
(* the role uses answers, and its partners are known.                      *)
HasPartners(c) ==
  /\ c.role \in IsCoordinator => Found(c) >= c.expected
  /\ c.role = "member" => HasCoordinator(c)
  /\ c.role = "gateway" => c.site = MasterSite
Working(c) ==
  /\ HasPartners(c)
  /\ \A k \in {"inverter", "mqtt", "link"} \ up :
       c.role \notin (CASE k = "inverter" -> HasInverter [] k = "mqtt" -> UsesMqtt [] k = "link" -> UsesLink)

(* History: what the last check before a completion was worth.  An "early" *)
(* one found ready a form the ESP has taken but not started with.          *)
Verdict == IF config.form # boot.form THEN "early" ELSE IF Working(config) THEN "verified" ELSE "no"
Judge ==
  config' = [config EXCEPT !.judged = Verdict, !.disturbed = config.provisioned /\ config.disturbed]

Boards(c) == {c.peers[i].mac : i \in Paired(c)}
SamePairing(c, d) == c.site = d.site /\ Boards(c) = Boards(d)

(* History: a worker changes config_ to c when it is final already, or     *)
(* takes something away after a task has found everything ready.           *)
Decided == verifier.step = "commit" \/ http.step = "commit"
Disturbs(c) ==
  \/ config.provisioned /\ ~SamePairing(config, c)
  \/ Decided /\ ~(config.site = c.site /\ Boards(config) \subseteq Boards(c))
Noting(c, noticed) == [c EXCEPT !.disturbed = @ \/ (noticed /\ Disturbs(c))]

(* complete_provisioning: the flag completion_started_ lets one task in,   *)
(* which makes config_ final before it saves it.                           *)
Complete(by) ==
  /\ completion' = [step |-> "save", by |-> by]
  /\ config' = [config EXCEPT !.provisioned = TRUE]

(* required_connections_ready every setup_verification_check_ms; the form  *)
(* of a moment ago keeps its ready_since.                                  *)
Verify ==
  /\ verifier.step = "check"
  /\ verifier' = IF completion.step # "none" THEN NotChecking
                 ELSE IF ~(Valid(config) /\ Ready(config)) THEN Checking(0)
                 ELSE IF verifier.count < Stable THEN Checking(verifier.count + 1)
                 ELSE [verifier EXCEPT !.step = "commit"]
  /\ verifier' # verifier
  /\ IF verifier'.step = "commit" THEN Judge ELSE UNCHANGED config
  /\ UNCHANGED <<store, boot, up, http, completion, workers, rebooting, wiped, history, forms, faults>>

Commit ==
  /\ verifier.step = "commit"
  /\ IF completion.step = "none" THEN Complete("verifier") /\ verifier' = [verifier EXCEPT !.step = "busy"]
     ELSE verifier' = Checking(0) /\ UNCHANGED <<config, completion>>
  /\ UNCHANGED <<store, boot, up, http, workers, rebooting, wiped, history, forms, faults>>

(* Faulty variant: completion_started_ stays set after a failure.          *)
GiveUpStarted ==
  config' = [config EXCEPT !.provisioned = FALSE] /\ completion' = [completion EXCEPT !.step = "done"]

GiveUp == config' = [config EXCEPT !.provisioned = FALSE] /\ completion' = NotCompleting

(* .. saves config_ as it is now ..                                        *)
SaveFinal ==
  /\ completion.step = "save"
  /\ \/ Saved(config) /\ completion' = [completion EXCEPT !.step = "unmark"] /\ Overtakes
        /\ UNCHANGED <<config, verifier>>
     \/ NotSaved(config) /\ GiveUp /\ UNCHANGED overtaken
        /\ verifier' = IF completion.by = "verifier" THEN Checking(0) ELSE verifier
  /\ UNCHANGED <<boot, up, http, workers, rebooting, wiped, answered, forms>>

(* .. and takes the mark away; a failure of that is only logged.           *)
Unmark ==
  /\ completion.step = "unmark"
  /\ Marked(FALSE) \/ NotMarked
  /\ completion' = [completion EXCEPT !.step = "done"] /\ rebooting' = TRUE
  /\ overtaken' = (overtaken \/ answered # 0 \/ http.step = "mark")
  /\ UNCHANGED <<config, boot, up, http, verifier, workers, wiped, answered, forms>>
-----------------------------------------------------------------------------
(*                             The setup page                              *)

(* The page is served in the portal, and on the LAN by roles with MQTT.    *)
PageServed ==
  /\ boot.mode = "portal" \/ (boot.mode = "normal" /\ boot.role \in UsesMqtt)
  /\ http = NoForm
  /\ ~(completion.by = "http" /\ completion.step \in {"save", "unmark"})

Edited(f, site, peers, provisioned) ==
  [role |-> f.role, pairing |-> f.pairing, expected |-> f.expected, site |-> site,
   peers |-> peers, provisioned |-> provisioned, form |-> forms + 1,
   judged |-> "no", disturbed |-> FALSE]
SiteOf(f) == IF f.site = "kept" THEN config.site ELSE f.site
KeptPeers(f) ==
  IF f.role = config.role /\ f.pairing = config.pairing /\ SiteOf(f) = config.site
  THEN config.peers ELSE NoPeers

(* config_post_handler: config_ with the fields of the form; the peers go  *)
(* when the identity they were paired with changes.                        *)
Candidate(f) == Edited(f, SiteOf(f), KeptPeers(f), FALSE)

PostForm(f) ==
  /\ PageServed /\ forms < MaxForms /\ Valid(Candidate(f))
  /\ http' = [step |-> "save", candidate |-> Candidate(f)]
  /\ forms' = forms + 1
  /\ UNCHANGED <<store, config, boot, up, verifier, completion, workers, rebooting, wiped, history, faults>>

SaveForm ==
  /\ http.step = "save"
  /\ \/ Saved(http.candidate) /\ http' = [http EXCEPT !.step = "mark"]
     \/ NotSaved(http.candidate) /\ http' = NoForm
  /\ UNCHANGED <<config, boot, up, verifier, completion, workers, rebooting, wiped, history, forms>>

(* As history: verification_task may have found the configuration before   *)
(* ready and be about to make this one final.                              *)
Answer ==
  /\ config' = [http.candidate EXCEPT !.judged = IF verifier.step = "commit" THEN "hasty" ELSE "no"]
  /\ answered' = http.candidate.form /\ rebooting' = TRUE

(* Faulty variant: the outcome of the second save is not looked at.        *)
MarkFormUnchecked ==
  /\ http.step = "mark"
  /\ (Marked(TRUE) \/ NotMarked) /\ Answer
  /\ http' = NoForm
  /\ UNCHANGED <<boot, up, verifier, completion, workers, wiped, overtaken, forms>>

(* The mark, then config_, the answer "saved" and the task that restarts.  *)
MarkForm ==
  /\ http.step = "mark"
  /\ \/ Marked(TRUE) /\ Answer
     \/ NotMarked /\ UNCHANGED <<config, answered, rebooting>>
  /\ http' = NoForm
  /\ UNCHANGED <<boot, up, verifier, completion, workers, wiped, overtaken, forms>>

(* finalize_handler finds everything ready ..                              *)
Finalize ==
  /\ PageServed /\ Ready(config)
  /\ http' = [step |-> "commit"] /\ Judge
  /\ UNCHANGED <<store, boot, up, verifier, completion, workers, rebooting, wiped, history, forms, faults>>

(* .. and completes; when the verification task was faster it only answers *)
(* and restarts the ESP.                                                   *)
CommitFinalize ==
  /\ http.step = "commit" /\ http' = NoForm
  /\ IF completion.step = "none" THEN Complete("http") /\ UNCHANGED rebooting
     ELSE rebooting' = TRUE /\ UNCHANGED <<config, completion>>
  /\ UNCHANGED <<store, boot, up, verifier, workers, wiped, history, forms, faults>>
-----------------------------------------------------------------------------
(*                  Pairing and the installation id                        *)

Known(c, h) == {i \in Paired(c) : c.peers[i].id = h.id \/ c.peers[i].mac = h.mac}
Vacant(c) == (1 .. Slots) \ Paired(c)

(* The first entry with the id or the address, otherwise the first free.   *)
EntryFor(c, h) == Min(IF Known(c, h) # {} THEN Known(c, h) ELSE Vacant(c))

(* Faulty variant: a final configuration learns like any other.            *)
AcceptsAlways(c, h) == Known(c, h) # {} \/ Vacant(c) # {}

(* learn_peer: a known entry is updated, but a final configuration takes   *)
(* neither a new peer nor a new address.                                   *)
Accepts(c, h) ==
  IF Known(c, h) # {} THEN c.provisioned => c.peers[EntryFor(c, h)].mac = h.mac
  ELSE ~c.provisioned /\ Vacant(c) # {}

(* EspNowMesh::receive of a hello, by the mesh that app_main started: is   *)
(* it from a partner, of this installation or of one that may be adopted?  *)
HearHello(h) ==
  /\ mesh = Waiting /\ boot.role \in UsesMesh /\ h.expected = config.expected
  /\ IF h.id = 0 THEN config.role = "member" ELSE config.role \in IsCoordinator
  /\ h.site = config.site \/ ~config.provisioned
  /\ IF h.id = 0 /\ h.site # config.site
     THEN /\ mesh' = [step |-> "adopt", hello |-> h]
          /\ IF config.site = OwnSite THEN UNCHANGED faults ELSE Fault
     ELSE mesh' = [step |-> "learn", hello |-> h] /\ UNCHANGED faults
  /\ UNCHANGED <<store, config, boot, up, http, verifier, completion, link, rebooting, wiped, history, forms>>

(* A member takes the coordinator's installation id ..                     *)
Adopt ==
  /\ mesh.step = "adopt"
  /\ config' = Noting([config EXCEPT !.site = mesh.hello.site, !.peers = NoPeers], TRUE)
  /\ mesh' = [mesh EXCEPT !.step = "learn"]
  /\ UNCHANGED <<store, boot, up, http, verifier, completion, link, rebooting, wiped, history, forms, faults>>

(* .. learn_peer chooses the entry ("final" is the final form it saw) ..   *)
LearnPeer ==
  /\ mesh.step = "learn"
  /\ mesh' = IF Accepts(config, mesh.hello)
             THEN [step |-> "write", hello |-> mesh.hello, at |-> EntryFor(config, mesh.hello),
                   new |-> Known(config, mesh.hello) = {},
                   final |-> IF config.provisioned THEN config.form ELSE 0]
             ELSE Waiting
  /\ UNCHANGED <<store, config, boot, up, http, verifier, completion, link, rebooting, wiped, history, forms, faults>>

BoardOf(h) == [mac |-> h.mac, id |-> h.id]

(* .. writes it, in whatever config_ holds by then; only a new entry is    *)
(* made valid ..                                                           *)
WritePeer ==
  /\ mesh.step = "write"
  /\ config' = IF mesh.new \/ mesh.at \in Paired(config)
               THEN Noting([config EXCEPT !.peers[mesh.at] = BoardOf(mesh.hello)], mesh.final # config.form)
               ELSE config
  /\ mesh' = [step |-> "save"]
  /\ UNCHANGED <<store, boot, up, http, verifier, completion, link, rebooting, wiped, history, forms, faults>>

(* .. and saves config_ as it is now.                                      *)
SavePeer ==
  /\ mesh.step = "save" /\ mesh' = Waiting
  /\ \/ Saved(config) /\ Overtakes
     \/ NotSaved(config) /\ UNCHANGED overtaken
  /\ UNCHANGED <<config, boot, up, http, verifier, completion, link, rebooting, wiped, answered, forms>>

(* CoordinatorLink::run: a gateway hears the master under an id it may     *)
(* adopt ..                                                                *)
HearMaster ==
  /\ link = "idle" /\ boot.role \in UsesLink
  /\ config.role = "gateway" /\ ~config.provisioned /\ config.site # MasterSite
  /\ link' = "copy"
  /\ UNCHANGED <<store, config, boot, up, http, verifier, completion, mesh, rebooting, wiped, history, forms, faults>>

(* .. takes it over ..                                                     *)
CopyMaster ==
  /\ link = "copy" /\ link' = "save"
  /\ config' = Noting([config EXCEPT !.site = MasterSite], TRUE)
  /\ UNCHANGED <<store, boot, up, http, verifier, completion, mesh, rebooting, wiped, history, forms, faults>>

(* .. saves it, and restarts.                                              *)
SaveMaster ==
  /\ link = "save"
  /\ \/ Saved(config) /\ Overtakes /\ rebooting' = TRUE /\ link' = "done"
     \/ NotSaved(config) /\ link' = "idle" /\ UNCHANGED <<overtaken, rebooting>>
  /\ UNCHANGED <<config, boot, up, http, verifier, completion, mesh, wiped, answered, forms>>
-----------------------------------------------------------------------------
Init ==
  /\ store = [config |-> None, pending |-> FALSE]
  /\ config = Default /\ boot = Off /\ up = {}
  /\ http = NoForm /\ verifier = NotChecking /\ completion = NotCompleting
  /\ mesh = Waiting /\ link = "idle"
  /\ rebooting = FALSE /\ wiped = FALSE
  /\ answered = 0 /\ overtaken = FALSE
  /\ forms = 0 /\ faults = 0

Page == \/ \E f \in Forms : PostForm(f)
        \/ SaveForm \/ MarkForm \/ Finalize \/ CommitFinalize
Verification == Verify \/ Commit \/ SaveFinal \/ Unmark
Learning == Adopt \/ LearnPeer \/ WritePeer \/ SavePeer
Joining == HearMaster \/ CopyMaster \/ SaveMaster
Pairing == Learning \/ Joining \/ \E h \in Hellos : HearHello(h)
Button == ResetAtStart \/ HoldButton \/ ReleaseButton
Connections == \E c \in {"inverter", "mqtt", "link"} : Connect(c) \/ Disconnect(c)

Next == Start \/ Restart \/ Crash \/ Page \/ Verification \/ Pairing \/ Button \/ Connections

Spec == Init /\ [][Next]_vars

Answering == SaveForm \/ MarkForm \/ CommitFinalize
Starting == Start \/ Restart \/ ReleaseButton
Connecting == \E c \in {"inverter", "mqtt", "link"} : Connect(c)
HearPartner(i) == \E h \in Hellos : h.id = i /\ HearHello(h)

(* Tasks run, the ESP starts up, and a save is done before the 750 ms of a *)
(* restart are over; and the installation is complete: what a role needs   *)
(* gets connected and partners announce themselves.                        *)
FairSpec ==
  /\ Spec
  /\ WF_vars(Starting) /\ WF_vars(Verification) /\ SF_vars(SaveFinal)
  /\ WF_vars(Answering \/ Connecting \/ Joining)
  /\ \A i \in {h.id : h \in Hellos} : WF_vars(Learning \/ HearPartner(i))
-----------------------------------------------------------------------------
(*                              Properties                                 *)

Peer == [mac : STRING, id : Nat]
ConfigOK(c) ==
  /\ DOMAIN c = DOMAIN Default /\ c.role \in Role /\ c.provisioned \in BOOLEAN
  /\ c.peers \in [1 .. Slots -> Peer \cup {Free}]
  /\ c.form \in 0 .. MaxForms /\ c.judged \in {"no", "verified", "early", "hasty"}
  /\ c.disturbed \in BOOLEAN

(* Types; what is in the store has a role, counts that fit it, and came    *)
(* from a form; the flag of the completion is that of config_ in RAM.      *)
TypeOK ==
  /\ ConfigOK(config) /\ store.pending \in BOOLEAN
  /\ store.config # None => ConfigOK(store.config) /\ Valid(store.config) /\ store.config.form > 0
  /\ boot.mode \in {"off", "portal", "normal"} /\ boot.role \in Role
  /\ boot.mode = "normal" => boot.role # "none"
  /\ up \subseteq Attached
  /\ \/ http \in [step : {"idle", "commit"}]
     \/ http.step \in {"save", "mark"} /\ ConfigOK(http.candidate)
  /\ verifier.step \in {"off", "check", "commit", "busy"} /\ verifier.count \in 0 .. Stable
  /\ completion.step \in {"none", "save", "unmark", "done"}
  /\ completion.by \in {"none", "http", "verifier"}
  /\ \/ mesh \in [step : {"idle", "save"}] \cup [step : {"adopt", "learn"}, hello : Hellos]
     \/ mesh \in [step : {"write"}, hello : Hellos, at : 1 .. Slots, new : BOOLEAN, final : 0 .. MaxForms]
  /\ link \in {"idle", "copy", "save", "done"}
  /\ rebooting \in BOOLEAN /\ wiped \in BOOLEAN /\ overtaken \in BOOLEAN
  /\ answered <= forms
  /\ forms \in 0 .. MaxForms /\ faults \in 0 .. MaxFaults

Final == store.config # None /\ store.config.provisioned

(* A stored configuration is final only after a check found everything it  *)
(* uses working.                                                           *)
FinalIsVerified == Final => store.config.judged \in {"verified", "early"}

(* .. unless its form was answered between the check of the configuration  *)
(* before and the completion, which then took up the new one: no form,     *)
(* announcement, failed save or crash makes a configuration final, and no  *)
(* completion one that its ESP has run with and not found working.         *)
FinalIsVerifiedOrHasty == Final => store.config.judged \in {"verified", "early", "hasty"}

(* The final configuration of an ESP that was restarted after its form has *)
(* its partners: a coordinator as many members as it expects, a gateway    *)
(* the installation id of its master, and a member its coordinator, unless *)
(* the mesh worker cleared the table for another coordinator between the   *)
(* last check and the save.                                                *)
FinalHasPartners ==
  Final /\ store.config.judged \notin {"early", "hasty"} =>
    \/ HasPartners(store.config)
    \/ store.config.role = "member" /\ store.config.disturbed

(* An answered form is what the ESP starts with next, final or marked for  *)
(* verification, unless another task stored its own copy or ended a        *)
(* verification while the form was saved, or the button erased it.         *)
SavedIsResumed ==
  answered # 0 /\ ~overtaken =>
    /\ store.config # None /\ store.config.form >= answered
    /\ store.pending \/ store.config.provisioned

(* Between two forms and two completions a final configuration keeps the   *)
(* installation id and the addresses it was paired with, whatever other    *)
(* boards announce, except for what a worker let through before it became  *)
(* final and wrote after that.  (A Finalize in normal operation that fails *)
(* opens the pairing again, and a later completion makes what was learned  *)
(* final.)                                                                 *)
KeepsPairing ==
  Final /\ Final' /\ store'.config.form = store.config.form
  /\ completion.step # "save" /\ ~store'.config.disturbed =>
    SamePairing(store.config, store'.config)

FinalKeepsPairing == [][KeepsPairing]_vars

(* A long press leaves an empty store, so that the next start is a first   *)
(* installation.                                                           *)
ResetErases == wiped => store.config = None

(* Until the next restart nothing verifies by itself in normal operation   *)
(* (where a failed form or Finalize may leave a stored configuration that  *)
(* is not final), when the stored form was answered with an error, when    *)
(* the mark was not read, when a gateway has its master's id only in RAM   *)
(* and no MQTT, or when verification_task left because of a Finalize that  *)
(* then failed.                                                            *)
Stranded ==
  \/ /\ http = NoForm /\ ~rebooting
     /\ boot.mode = "normal" \/ (boot.mode = "portal" /\ store.config.form > config.form)
  \/ /\ boot.mode = "portal"
     /\ \/ ~boot.marked
        \/ boot.waiting /\ config.site = MasterSite
        \/ verifier = NotChecking /\ completion = NotCompleting

(* A configuration marked for verification becomes final, is replaced or   *)
(* is erased, whatever fails on the way, unless the ESP is stranded.       *)
VerificationEnds ==
  store.config # None /\ store.pending
    ~> (store.config = None \/ ~store.pending \/ store.config.provisioned \/ Stranded)
=============================================================================
