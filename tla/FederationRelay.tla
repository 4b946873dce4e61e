--------------------------- MODULE FederationRelay ---------------------------
(***************************************************************************)
(* The relay that carries a remote worker's messages to its Run home.  The *)
(* execution host queues them per dispatch; the Run home polls, imports    *)
(* each item in a transaction of its own and acknowledges what it has      *)
(* imported, together with its verdict on every worker_done.  A verdict    *)
(* that accepts the report settles the attachment on the host.             *)
(*                                                                         *)
(* One dispatch, federation protocol 3 (lifecycle settlement) on both      *)
(* sides.  Calls are lost before or after the host has acted on them, an   *)
(* acknowledgement may be handled long after the Run home gave up on it,   *)
(* and both runtimes restart.                                              *)
(***************************************************************************)
EXTENDS Integers, Sequences, FiniteSets

CONSTANTS
  None,         \* no value
  PageSize,     \* FEDERATION_PULL_PAGE_SIZE (50 in the code)
  MaxPages,     \* MAX_FEDERATION_PULL_PAGES_PER_SYNC (6 in the code)
  Quota,        \* unacknowledged items a dispatch may queue (256 in the code)
  MaxItems,     \* bound: items ever queued
  MaxEpoch,     \* bound: restarts of the execution host
  MaxWire       \* bound: acknowledgements in flight at once

Reports == {"succeeded", "failed"}              \* worker_done, by its outcome
Kinds == {"status", "heartbeat"} \cup Reports   \* status: any other mail
Epochs == 0 .. MaxEpoch

ASSUME RelayConstants ==
  /\ PageSize \in Nat \ {0}
  /\ MaxPages \in Nat \ {0}
  /\ Quota \in Nat \ {0}
  /\ MaxItems \in Nat
  /\ MaxEpoch \in Nat
  /\ MaxWire \in Nat
  /\ None \notin Epochs

VARIABLES
  (* execution host *)
  outbox,       \* federation_relay_items to_home, by sequence: the kind of each
  replaced,     \* history: where a report took the place of a heartbeat
  hostAcked,    \* the items up to this sequence have acked_at
  attachment,   \* remote_dispatch_attachments.state; stopping and after: "stopped"
  receipts,     \* mutation receipts of acknowledgements, by the cursor in the request id
  hostEpoch,    \* runtime id of the host's process
  wire,         \* acknowledgements sent and not yet handled
  (* Run home *)
  imported,     \* the relay messages imported; to_home_imported_sequence is its length
  report,       \* the dispatch: "open", how its report settled it, or its stop
  reopened,     \* the operator moved the settled task on
  homeAcked,    \* to_home_acknowledged_sequence
  knownEpoch,   \* remote_runtime_epoch
  capability,   \* epoch for which the capability cache holds lifecycle settlement
  sync          \* the sync in progress

hostVars == <<outbox, replaced, hostAcked, attachment, receipts, hostEpoch>>
homeVars == <<imported, report, reopened, homeAcked, knownEpoch, capability, sync>>
vars == <<hostVars, wire, homeVars>>

Min2(a, b) == IF a < b THEN a ELSE b
Max2(a, b) == IF a > b THEN a ELSE b

Sequences == 1 .. MaxItems
Verdict == Reports \cup {"rejected"}

(* throughSequence and settlements are the payload; cursor is in the        *)
(* request id only, and the receipt compares payloads.                      *)
Payload == [through : 0 .. MaxItems, verdicts : UNION {[S -> Verdict] : S \in SUBSET Sequences}]
Request == [cursor : 0 .. MaxItems, payload : Payload]

Receipt == [state : {"absent"}] \cup [state : {"pending", "completed"}, payload : Payload]

Idle == [phase |-> "idle", cap |-> None, left |-> 0, first |-> 0, page |-> <<>>,
         epoch |-> 0, request |-> None, answered |-> FALSE]

Phases == {"idle", "probe", "pull", "import", "ack"}

TypeOK ==
  /\ outbox \in Seq(Kinds)
  /\ Len(outbox) <= MaxItems
  /\ replaced \subseteq Sequences
  /\ hostAcked \in 0 .. MaxItems
  /\ attachment \in Reports \cup {"ready", "stopped"}
  /\ receipts \in [0 .. MaxItems -> Receipt]
  /\ hostEpoch \in Epochs
  /\ wire \subseteq Request
  /\ imported \in Seq(Kinds)
  /\ report \in Reports \cup {"open", "stopping", "stopped"}
  /\ reopened \in BOOLEAN
  /\ homeAcked \in 0 .. MaxItems
  /\ knownEpoch \in Epochs
  /\ capability \in Epochs \cup {None}
  /\ sync \in [phase : Phases, cap : Epochs \cup {None}, left : 0 .. MaxPages,
               first : 0 .. MaxItems, page : Seq(Kinds), epoch : Epochs,
               request : Request \cup {None}, answered : BOOLEAN]

Init ==
  /\ outbox = <<>>
  /\ replaced = {}
  /\ hostAcked = 0
  /\ attachment = "ready"
  /\ receipts = [c \in 0 .. MaxItems |-> [state |-> "absent"]]
  /\ hostEpoch = 0
  /\ wire = {}
  /\ imported = <<>>
  /\ report = "open"
  /\ reopened = FALSE
  /\ homeAcked = 0
  /\ knownEpoch = 0
  /\ capability = None
  /\ sync = Idle

-----------------------------------------------------------------------------
(* The execution host *)

Unacked == hostAcked + 1 .. Len(outbox)

(* enqueueFederationRelay behind `orchestration send` and `ask` of a worker *)
(* whose authority is current.  A heartbeat joins one that still waits, a   *)
(* report joins an identical one: neither changes the queue.                *)
Enqueue(kind) ==
  /\ attachment = "ready"
  /\ Len(outbox) < MaxItems
  /\ kind = "heartbeat" => \A k \in Unacked : outbox[k] # "heartbeat"
  /\ Cardinality(Unacked) < Quota
  /\ outbox' = Append(outbox, kind)
  /\ UNCHANGED <<replaced, hostAcked, attachment, receipts, hostEpoch, wire, homeVars>>

(* With the queue at its quota a report takes the place of the oldest       *)
(* waiting heartbeat, under a message id of its own.                        *)
EnqueueInPlace(kind, k) ==
  /\ attachment = "ready"
  /\ kind \in Reports
  /\ Cardinality(Unacked) >= Quota
  /\ k \in Unacked
  /\ outbox[k] = "heartbeat"
  /\ \A j \in Unacked : outbox[j] = "heartbeat" => k <= j
  /\ outbox' = [outbox EXCEPT ![k] = kind]
  /\ replaced' = replaced \cup {k}
  /\ UNCHANGED <<hostAcked, attachment, receipts, hostEpoch, wire, homeVars>>

(* Verdicts beyond what is acknowledged are dropped. *)
Judged(payload) == {k \in DOMAIN payload.verdicts : k <= payload.through}

Accepted(payload) == {payload.verdicts[k] : k \in Judged(payload)} \cap Reports

(* The refusals of federationAck and acknowledgeFederationRelay: a verdict  *)
(* is about a queued report and agrees with it, every report acknowledged   *)
(* now has one, and the attachment can take the outcome.                    *)
Fits(payload) ==
  /\ \A k \in Judged(payload) :
       /\ k \in DOMAIN outbox
       /\ outbox[k] \in Reports
       /\ payload.verdicts[k] \in {outbox[k], "rejected"}
  /\ \A k \in Unacked :
       k <= payload.through /\ outbox[k] \in Reports => k \in Judged(payload)
  /\ \A r \in Accepted(payload) :
       /\ Accepted(payload) = {r}
       /\ attachment \in {"ready", r}

(* Mutation of Acknowledge: settles the attachment on any verdict. *)
AcknowledgeAnyVerdict(payload) ==
  /\ hostAcked' = Max2(hostAcked, payload.through)
  /\ attachment' = IF Judged(payload) = {} THEN attachment
                   ELSE CHOOSE r \in Reports : \E k \in Judged(payload) : outbox[k] = r

(* Mutation of Acknowledge: forgets the attachment. *)
AcknowledgeItemsOnly(payload) ==
  /\ hostAcked' = Max2(hostAcked, payload.through)
  /\ attachment' = attachment

(* acknowledgeFederationRelay *)
Acknowledge(payload) ==
  /\ hostAcked' = Max2(hostAcked, payload.through)
  /\ attachment' = IF Accepted(payload) = {} THEN attachment
                   ELSE CHOOSE r \in Reports : r \in Accepted(payload)

Fresh(request) == receipts[request.cursor].state = "absent"

(* The request id was used before, with this payload. *)
Repeated(request) ==
  /\ ~Fresh(request)
  /\ receipts[request.cursor].payload = request.payload

(* What the Run home, if it still waits for this request, is told. *)
Answer(request, ok) ==
  sync' = IF sync.phase = "ack" /\ sync.request = request /\ ok
          THEN [sync EXCEPT !.answered = TRUE] ELSE sync

(* federationAck under the mutation executor.  A first request is executed  *)
(* and its receipt completed; a refusal leaves no receipt.  A repeated one  *)
(* is answered from a completed receipt.  A request id that was used with   *)
(* another payload, or whose first execution a restart cut short, fails.    *)
HostAck(request) ==
  /\ request \in wire
  /\ wire' = wire \ {request}
  /\ IF Fresh(request) /\ Fits(request.payload)
     THEN /\ Acknowledge(request.payload)
          /\ receipts' = [receipts EXCEPT ![request.cursor] =
                            [state |-> "completed", payload |-> request.payload]]
     ELSE UNCHANGED <<hostAcked, attachment, receipts>>
  /\ Answer(request, \/ Fresh(request) /\ Fits(request.payload)
                     \/ Repeated(request) /\ receipts[request.cursor].state = "completed")
  /\ UNCHANGED <<outbox, replaced, hostEpoch, imported, report, reopened, homeAcked, knownEpoch, capability>>

(* The host dies with the receipt of an acknowledgement pending, before or  *)
(* after the acknowledgement itself committed.                              *)
HostDiesInAck(request) ==
  /\ request \in wire
  /\ Fresh(request)
  /\ Fits(request.payload)
  /\ hostEpoch < MaxEpoch
  /\ receipts' = [receipts EXCEPT ![request.cursor] =
                    [state |-> "pending", payload |-> request.payload]]
  /\ Acknowledge(request.payload) \/ UNCHANGED <<hostAcked, attachment>>
  /\ hostEpoch' = hostEpoch + 1
  /\ wire' = {}
  /\ UNCHANGED <<outbox, replaced, homeVars>>

(* The host restarts; what was sent to the old process is lost. *)
HostRestart ==
  /\ hostEpoch < MaxEpoch
  /\ hostEpoch' = hostEpoch + 1
  /\ wire' = {}
  /\ UNCHANGED <<outbox, replaced, hostAcked, attachment, receipts, homeVars>>

(* beginRemoteAttachmentStop: federationStop, called by a Run home that has *)
(* begun to stop the worker.                                                *)
HostStop ==
  /\ report = "stopping"
  /\ attachment = "ready"
  /\ attachment' = "stopped"
  /\ UNCHANGED <<outbox, replaced, hostAcked, receipts, hostEpoch, wire, homeVars>>

LoseAck(request) ==
  /\ request \in wire
  /\ wire' = wire \ {request}
  /\ UNCHANGED <<hostVars, homeVars>>

-----------------------------------------------------------------------------
(* The Run home *)

(* Mutation of Eligible: polls only for acknowledgements. *)
EligibleUnacked == homeAcked < Len(imported)

(* isFederatedDispatchRelayEligible: the worker may still report, or an     *)
(* import is not known to be acknowledged.                                  *)
Eligible ==
  \/ report \in {"open", "stopping"}
  \/ homeAcked < Len(imported)

(* What the capability cache still holds once it has seen epoch e. *)
Seen(e) == IF capability = e THEN e ELSE None

(* A page of the sync begins: the cached capability saves the probe. *)
Page(cap, left) ==
  [Idle EXCEPT !.phase = IF cap = None THEN "probe" ELSE "pull", !.cap = cap, !.left = left]

(* syncDispatch, from the timer of the dispatch; one sync runs at a time. *)
BeginSync ==
  /\ sync.phase = "idle"
  /\ Eligible
  /\ sync' = Page(capability, MaxPages)
  /\ UNCHANGED <<hostVars, wire, imported, report, reopened, homeAcked, knownEpoch, capability>>

(* status.get of the capability probe *)
Probe ==
  /\ sync.phase = "probe"
  /\ sync' = [sync EXCEPT !.phase = "pull", !.cap = hostEpoch]
  /\ capability' = hostEpoch
  /\ UNCHANGED <<hostVars, wire, imported, report, reopened, homeAcked, knownEpoch>>

(* Mutation of Pull: the cursor starts an item too early. *)
PullFromBefore ==
  /\ sync.phase = "pull"
  /\ sync' = [sync EXCEPT
       !.phase = "import",
       !.epoch = hostEpoch,
       !.page = SubSeq(outbox, hostAcked + 1, Min2(Len(outbox), hostAcked + PageSize)),
       !.first = IF Unacked = {} THEN Len(imported) ELSE hostAcked - 1]
  /\ UNCHANGED <<hostVars, wire, imported, report, reopened, homeAcked, knownEpoch, capability>>

(* federationPull with replayUnacknowledged, which settlement support always *)
(* asks for: the oldest unacknowledged items.                                *)
Pull ==
  /\ sync.phase = "pull"
  /\ sync' = [sync EXCEPT
       !.phase = "import",
       !.epoch = hostEpoch,
       !.page = SubSeq(outbox, hostAcked + 1, Min2(Len(outbox), hostAcked + PageSize)),
       !.first = IF Unacked = {} THEN Len(imported) ELSE hostAcked]
  /\ UNCHANGED <<hostVars, wire, imported, report, reopened, homeAcked, knownEpoch, capability>>

PageReports == {k \in DOMAIN sync.page : sync.page[k] \in Reports}

FullPage == Len(sync.page) = PageSize

(* The capability answered for the process that served the page. *)
Current == sync.cap = sync.epoch

(* Without it nothing from the first worker_done on may be acknowledged. *)
Barred == ~Current /\ PageReports # {}

(* importFederatedRelayItem takes the first n items of the page: contiguous *)
(* with the imports, and those imported before are still the same message.  *)
Importable(n) ==
  /\ n > 0 => sync.first <= Len(imported)
  /\ \A k \in 1 .. n :
       sync.first + k <= Len(imported) => imported[sync.first + k] = sync.page[k]

(* Mutation of ImportedWith: items imported before are imported again. *)
ImportedWithDuplicates(n) == imported \o SubSeq(sync.page, 1, n)

ImportedWith(n) == imported \o SubSeq(sync.page, Len(imported) - sync.first + 1, n)

(* settleWorkerReportInTransaction: the first report settles an open        *)
(* dispatch.                                                                *)
ReportWith(n) ==
  LET reports == PageReports \cap 1 .. n
  IN IF report = "open" /\ reports # {}
     THEN sync.page[CHOOSE k \in reports : \A j \in reports : k <= j]
     ELSE report

(* The verdicts of the import, with r what the dispatch is after it: a      *)
(* report that agrees with how dispatch and task settled is accepted again. *)
VerdictsWith(r) ==
  [s \in {sync.first + k : k \in PageReports} |->
     IF sync.page[s - sync.first] = r /\ ~reopened THEN r ELSE "rejected"]

NoVerdicts == [s \in {} |-> "rejected"]

(* Mutation of Through: ignores the barrier. *)
ThroughCursor == sync.first + Len(sync.page)

(* acknowledgmentCursor *)
Through ==
  sync.first + IF Barred
               THEN (CHOOSE k \in PageReports : \A j \in PageReports : k <= j) - 1
               ELSE Len(sync.page)

AckRequest(r) ==
  [cursor |-> sync.first + Len(sync.page),
   payload |-> [through |-> Through,
                verdicts |-> IF Current THEN VerdictsWith(r) ELSE NoVerdicts]]

(* The acknowledgement, durable or checkpointed, the pulled epoch vouches for. *)
AckedBefore == IF knownEpoch = sync.epoch THEN homeAcked ELSE 0

(* The sync is over, or goes on with the next page. *)
FinishPage ==
  /\ capability' = Seen(sync.epoch)
  /\ knownEpoch' = sync.epoch
  /\ sync' = IF FullPage /\ sync.left > 1 /\ ~Barred
             THEN Page(Seen(sync.epoch), sync.left - 1) ELSE Idle

(* The whole page is imported, then acknowledged if that says anything new. *)
ImportPage ==
  /\ sync.phase = "import"
  /\ Importable(Len(sync.page))
  /\ imported' = ImportedWith(Len(sync.page))
  /\ report' = ReportWith(Len(sync.page))
  /\ UNCHANGED <<hostVars, reopened, homeAcked>>
  /\ IF Through > AckedBefore
     THEN /\ Cardinality(wire) < MaxWire
          /\ wire' = wire \cup {AckRequest(report')}
          /\ sync' = [sync EXCEPT !.phase = "ack", !.request = AckRequest(report')]
          /\ UNCHANGED <<knownEpoch, capability>>
     ELSE FinishPage /\ UNCHANGED wire

(* Mutation of Recorded: takes the cursor for what was acknowledged. *)
RecordedCursor == sync.request.cursor

(* A full last page keeps the relay eligible. *)
Recorded ==
  IF FullPage /\ sync.left = 1
  THEN Max2(0, sync.request.payload.through - 1) ELSE sync.request.payload.through

(* recordFederatedHomeAcknowledgment *)
RecordAck ==
  /\ sync.phase = "ack"
  /\ sync.answered
  /\ Recorded <= Len(imported)
  /\ homeAcked' = IF knownEpoch = sync.epoch THEN Max2(homeAcked, Recorded) ELSE Recorded
  /\ FinishPage
  /\ UNCHANGED <<hostVars, wire, imported, report, reopened>>

(* A sync that ends early keeps the items it has imported, each of them in *)
(* a transaction of its own.                                                *)
CutShort ==
  /\ sync' = Idle
  /\ \E n \in 0 .. Len(sync.page) :
       /\ n > 0 => sync.phase = "import"
       /\ Importable(n)
       /\ imported' = ImportedWith(n)
       /\ report' = ReportWith(n)
  /\ UNCHANGED <<hostVars, wire, reopened, homeAcked, knownEpoch>>

(* A call times out or is refused, or an item cannot be imported; the timer *)
(* begins another sync.                                                     *)
SyncFails ==
  /\ sync.phase # "idle"
  /\ CutShort
  /\ UNCHANGED capability

HomeRestart ==
  /\ CutShort
  /\ capability' = None

(* beginWorkerStop: from here on reports are rejected. *)
BeginStop ==
  /\ report = "open"
  /\ report' = "stopping"
  /\ UNCHANGED <<hostVars, wire, imported, reopened, homeAcked, knownEpoch, capability, sync>>

(* The stop is reconciled with the host, or the dispatch abandoned. *)
EndStop ==
  /\ report \in {"open", "stopping"}
  /\ report' = "stopped"
  /\ UNCHANGED <<hostVars, wire, imported, reopened, homeAcked, knownEpoch, capability, sync>>

(* The operator gives the settled task another status. *)
Reopen ==
  /\ report \in Reports
  /\ ~reopened
  /\ reopened' = TRUE
  /\ UNCHANGED <<hostVars, wire, imported, report, homeAcked, knownEpoch, capability, sync>>

-----------------------------------------------------------------------------
Next ==
  \/ \E kind \in Kinds : Enqueue(kind)
  \/ \E kind \in Reports, k \in DOMAIN outbox : EnqueueInPlace(kind, k)
  \/ \E request \in wire : HostAck(request)
  \/ \E request \in wire : HostDiesInAck(request)
  \/ \E request \in wire : LoseAck(request)
  \/ HostRestart
  \/ HostStop
  \/ BeginSync
  \/ Probe
  \/ Pull
  \/ ImportPage
  \/ RecordAck
  \/ SyncFails
  \/ HomeRestart
  \/ BeginStop
  \/ EndStop
  \/ Reopen

Spec == Init /\ [][Next]_vars

-----------------------------------------------------------------------------
(* A sync goes through in the end, whatever calls are lost and whichever    *)
(* side restarts: the timer begins one every second, each call gives up     *)
(* after 15 seconds, and faults do not hit every attempt.                   *)
HandledInTime ==
  /\ sync.phase = "ack"
  /\ ~sync.answered
  /\ HostAck(sync.request)

Fairness ==
  /\ WF_vars(BeginSync)
  /\ SF_vars(Probe)
  /\ SF_vars(Pull)
  /\ SF_vars(ImportPage)
  /\ WF_vars(\E request \in wire : HostAck(request) \/ LoseAck(request))
  /\ SF_vars(HandledInTime)
  /\ SF_vars(RecordAck)
  /\ WF_vars(SyncFails)

FairSpec == Spec /\ Fairness

(* An acknowledgement whose receipt a restart left pending is never run again. *)
Wedged == \E c \in DOMAIN receipts : receipts[c].state = "pending"

(* The Run home holds the heartbeat whose place a report took. *)
Overtaken == \E k \in replaced : k <= Len(imported) /\ imported[k] = "heartbeat"

-----------------------------------------------------------------------------
(* Properties *)

Log == INSTANCE RelayLog
         WITH sent <- outbox, applied <- imported, Heartbeat <- "heartbeat"

(* Whatever is lost, repeated or cut short, the Run home takes each queued  *)
(* message once and in the order of the queue: syncFederatedDispatch and    *)
(* importFederatedRelayItem implement the relay log.                        *)
RelaysInOrder == Log!LogSpec

(* The host forgets only what the Run home holds: an item counts as         *)
(* acknowledged only once it is imported, also when the acknowledgement is  *)
(* one the Run home gave up on, and the Run home, whose durable watermark   *)
(* ends the polling, never believes more acknowledged than is.              *)
AckedIsImported ==
  /\ homeAcked <= hostAcked
  /\ hostAcked <= Len(imported)

(* The two servers agree on how the worker ended: an attachment settles     *)
(* with an outcome only when the Run home accepted that outcome, and never  *)
(* for a report the home has rejected because it was stopping the worker.   *)
HostSettlesWithHome == attachment \in Reports => report = attachment

(* No acknowledgement takes the accepted report off the queue without       *)
(* settling the attachment, which would leave the worker unconfirmed with   *)
(* nothing left to replay; a status the operator gave the task since is the *)
(* one exception, because it turns a replayed verdict into a rejection.     *)
AcceptedReportSettles ==
  report \in Reports /\ ~reopened
    => \A k \in DOMAIN outbox :
         k <= hostAcked /\ outbox[k] = report => attachment = report

(* What the Run home asks the host to acknowledge, the host can take,       *)
(* however late the request arrives and whatever was queued, settled or     *)
(* stopped since: federationAck refuses a first request never for its       *)
(* verdicts, only because its id was used for another payload.  A report    *)
(* that replaced an imported heartbeat has no verdict.                      *)
AcksFit == ~Overtaken => \A request \in wire : Fits(request.payload)

(* A queued worker_done settles its dispatch, unless the dispatch was       *)
(* stopped or reported before: lost calls, restarts of either side and      *)
(* acknowledgements that fail do not keep the relay from the report.        *)
ReportSettles ==
  (\E k \in DOMAIN outbox : outbox[k] \in Reports) ~> (report # "open" \/ Wedged \/ Overtaken)

(* federation-lifecycle-settlement.test.ts "keeps terminal settlement       *)
(* replayable until the worker durably acknowledges it": the verdict on an  *)
(* accepted report reaches the host.  It does not: the request id names the *)
(* cursor, not what is acknowledged, and a receipt of an earlier            *)
(* acknowledgement up to that cursor refuses the one with the verdict.      *)
SettlementReachesHost ==
  (report \in Reports) ~> (attachment = report \/ reopened \/ Wedged \/ Overtaken)
=============================================================================
