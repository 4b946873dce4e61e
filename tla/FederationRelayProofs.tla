------------------------ MODULE FederationRelayProofs ------------------------
(***************************************************************************)
(* Theorems about FederationRelay for every page size, quota, number of    *)
(* pages, items and restarts.                                              *)
(***************************************************************************)
EXTENDS FederationRelay, SequenceTheorems, WellFoundedInduction, TLAPS

-----------------------------------------------------------------------------
(* The inductive invariant *)

(* The sync has a page exactly between the pull and its end, and the page   *)
(* begins no later than the imports end.                                    *)
PageInRange ==
  /\ sync.phase \in {"import", "ack"} =>
       /\ sync.first <= Len(imported)
       /\ sync.first + Len(sync.page) <= Len(outbox)
  /\ sync.phase \notin {"import", "ack"} => sync.page = <<>> /\ sync.first = 0

(* The page in hand is what the host has queued there, but for a heartbeat  *)
(* that was replaced after the pull.                                        *)
PageIsQueued ==
  sync.phase = "import" =>
    \A k \in DOMAIN sync.page :
      \/ sync.page[k] = outbox[sync.first + k]
      \/ sync.first + k \in replaced /\ sync.page[k] = "heartbeat"

(* A request acknowledges imports only, and a verdict that accepts a report *)
(* is the outcome the dispatch has.                                         *)
Honest(request) ==
  /\ request.payload.through <= Len(imported)
  /\ \A k \in DOMAIN request.payload.verdicts :
       request.payload.verdicts[k] \in Reports => report = request.payload.verdicts[k]

(* What was answered, now or from a receipt, the host has acknowledged. *)
AnsweredIsAcked ==
  /\ sync.phase = "ack" => sync.request \in Request
  /\ sync.answered => sync.phase = "ack" /\ sync.request.payload.through <= hostAcked
  /\ \A c \in 0 .. MaxItems :
       receipts[c].state = "completed" => receipts[c].payload.through <= hostAcked

ImportsAreQueued == Len(imported) <= Len(outbox)

RelayInv ==
  /\ TypeOK
  /\ AckedIsImported
  /\ ImportsAreQueued
  /\ PageInRange
  /\ PageIsQueued
  /\ \A request \in wire : Honest(request)
  /\ AnsweredIsAcked
  /\ HostSettlesWithHome

-----------------------------------------------------------------------------
(* Lemmas *)

(* The end of a page, appended to the imports it begins within, continues   *)
(* them item by item: ImportedWith.                                         *)
LEMMA ContinuedImports ==
  ASSUME NEW s \in Seq(Kinds), NEW p \in Seq(Kinds), NEW f \in Nat, NEW n \in Nat,
         f <= Len(s), n <= Len(p),
         NEW t, t = s \o SubSeq(p, Len(s) - f + 1, n)
  PROVE  /\ t \in Seq(Kinds)
         /\ Len(t) = IF f + n <= Len(s) THEN Len(s) ELSE f + n
         /\ \A k \in 1 .. Len(t) : t[k] = IF k <= Len(s) THEN s[k] ELSE p[k - f]
PROOF
<1> DEFINE q == SubSeq(p, Len(s) - f + 1, n)
<1>1. Len(s) \in Nat /\ Len(p) \in Nat /\ f <= Len(s)
  BY LenProperties
<1>2. \A i \in Len(s) - f + 1 .. n : p[i] \in Kinds
  BY <1>1
<1>3. /\ q \in Seq(Kinds)
      /\ Len(q) = IF Len(s) - f + 1 <= n THEN n - (Len(s) - f + 1) + 1 ELSE 0
      /\ \A i \in 1 .. n - (Len(s) - f + 1) + 1 : q[i] = p[(Len(s) - f + 1) + i - 1]
  <2>1. Len(s) - f + 1 \in Int /\ n \in Int
    BY <1>1
  <2> QED
    BY <1>2, <2>1, SubSeqProperties
<1>4. /\ s \o q \in Seq(Kinds)
      /\ Len(s \o q) = Len(s) + Len(q)
      /\ \A i \in 1 .. Len(s) + Len(q) :
           (s \o q)[i] = IF i <= Len(s) THEN s[i] ELSE q[i - Len(s)]
  BY <1>3, ConcatProperties
<1>5. Len(s \o q) = IF f + n <= Len(s) THEN Len(s) ELSE f + n
  BY <1>1, <1>3, <1>4
<1>6. ASSUME NEW k \in 1 .. Len(s \o q)
      PROVE  (s \o q)[k] = IF k <= Len(s) THEN s[k] ELSE p[k - f]
  BY <1>1, <1>3, <1>4
<1> QED
  BY <1>4, <1>5, <1>6

(* What of a request is a number, and a page of the queue is a sequence. *)
LEMMA RequestFields ==
  ASSUME RelayConstants, NEW q \in Request
  PROVE  /\ q.cursor \in 0 .. MaxItems
         /\ q.payload \in Payload
         /\ q.payload.through \in 0 .. MaxItems
BY DEF Request, Payload

LEMMA SyncFields ==
  ASSUME TypeOK
  PROVE  /\ sync.phase \in Phases
         /\ sync.cap \in Epochs \cup {None}
         /\ sync.left \in 0 .. MaxPages
         /\ sync.first \in 0 .. MaxItems
         /\ sync.page \in Seq(Kinds)
         /\ sync.epoch \in Epochs
         /\ sync.request \in Request \cup {None}
         /\ sync.answered \in BOOLEAN
BY DEF TypeOK

SyncState ==
  [phase : Phases, cap : Epochs \cup {None}, left : 0 .. MaxPages,
   first : 0 .. MaxItems, page : Seq(Kinds), epoch : Epochs,
   request : Request \cup {None}, answered : BOOLEAN]

NoPage(x) ==
  /\ x.phase \in {"idle", "probe", "pull"}
  /\ x.page = <<>>
  /\ x.first = 0
  /\ ~x.answered

(* A sync that ended, or goes on with another page, is well typed and has   *)
(* no page.                                                                 *)
LEMMA FreshSync ==
  ASSUME RelayConstants, NEW cap \in Epochs \cup {None}, NEW left \in 0 .. MaxPages
  PROVE  /\ Idle \in SyncState /\ NoPage(Idle)
         /\ Page(cap, left) \in SyncState /\ NoPage(Page(cap, left))
<1>1. <<>> \in Seq(Kinds) /\ 0 \in Epochs /\ 0 \in 0 .. MaxPages /\ 0 \in 0 .. MaxItems
  BY EmptySeq DEF RelayConstants, Epochs
<1>2. Idle \in SyncState /\ NoPage(Idle)
  BY <1>1 DEF Idle, SyncState, Phases, NoPage
<1>3. PICK phase \in {"probe", "pull"} :
        Page(cap, left) = [Idle EXCEPT !.phase = phase, !.cap = cap, !.left = left]
  BY DEF Page
<1>4. Page(cap, left) \in SyncState
  BY <1>2, <1>3 DEF SyncState, Phases
<1>5. NoPage(Page(cap, left))
  BY <1>2, <1>3 DEF SyncState, NoPage
<1> QED
  BY <1>2, <1>4, <1>5

(* What is in hand of a page. *)
LEMMA PageFacts ==
  ASSUME RelayConstants, RelayInv
  PROVE  /\ sync.page \in Seq(Kinds) /\ Len(sync.page) \in Nat
         /\ DOMAIN sync.page = 1 .. Len(sync.page)
         /\ imported \in Seq(Kinds) /\ Len(imported) \in Nat
         /\ sync.first \in Nat /\ sync.first <= Len(imported)
         /\ sync.first + Len(sync.page) <= Len(outbox)
         /\ Len(outbox) \in Nat /\ Len(outbox) <= MaxItems /\ Len(imported) <= Len(outbox)
<1>1. /\ sync.page \in Seq(Kinds) /\ Len(sync.page) \in Nat
      /\ DOMAIN sync.page = 1 .. Len(sync.page)
      /\ imported \in Seq(Kinds) /\ Len(imported) \in Nat /\ sync.first \in Nat
      /\ Len(outbox) \in Nat /\ Len(outbox) <= MaxItems /\ Len(imported) <= Len(outbox)
  BY SyncFields, LenProperties DEF RelayInv, TypeOK, ImportsAreQueued, RelayConstants
<1>2. CASE sync.phase \in {"import", "ack"}
  BY <1>1, <1>2 DEF RelayInv, PageInRange
<1>3. CASE sync.phase \notin {"import", "ack"}
  <2>1. sync.first = 0 /\ Len(sync.page) = 0
    BY <1>3, EmptySeq DEF RelayInv, PageInRange
  <2> QED
    BY <1>1, <2>1
<1> QED
  BY <1>1, <1>2, <1>3

(* The new fields of an enqueued message. *)
LEMMA EnqueueInv ==
  ASSUME RelayConstants, RelayInv, NEW kind \in Kinds, Enqueue(kind)
  PROVE  RelayInv'
<1> USE DEF RelayInv, hostVars, homeVars
<1>1. /\ outbox \in Seq(Kinds)
      /\ Len(outbox) \in Nat
      /\ outbox' \in Seq(Kinds)
      /\ Len(outbox') = Len(outbox) + 1
      /\ \A i \in 1 .. Len(outbox) : outbox'[i] = outbox[i]
      /\ Len(outbox) < MaxItems
  BY AppendProperties, LenProperties DEF TypeOK, Enqueue
<1>2. TypeOK'
  BY <1>1 DEF TypeOK, Enqueue, RelayConstants
<1>3. AckedIsImported' /\ HostSettlesWithHome'
  BY DEF Enqueue, AckedIsImported, HostSettlesWithHome
<1>4. ImportsAreQueued'
  BY <1>1, LenProperties DEF Enqueue, ImportsAreQueued, TypeOK
<1>5. PageInRange'
  BY <1>1, SyncFields, LenProperties DEF Enqueue, PageInRange
<1>6. PageIsQueued'
  <2> SUFFICES ASSUME sync.phase = "import", NEW k \in DOMAIN sync.page
               PROVE  \/ sync.page[k] = outbox'[sync.first + k]
                      \/ sync.first + k \in replaced /\ sync.page[k] = "heartbeat"
    BY DEF Enqueue, PageIsQueued
  <2>1. sync.first + k \in 1 .. Len(outbox)
    <3> HIDE DEF RelayInv
    <3> QED
      BY PageFacts
  <2> QED
    BY <1>1, <2>1 DEF PageIsQueued
<1>7. \A request \in wire' : Honest(request)'
  BY DEF Enqueue, Honest
<1>8. AnsweredIsAcked'
  BY DEF Enqueue, AnsweredIsAcked
<1> QED
  BY <1>2, <1>3, <1>4, <1>5, <1>6, <1>7, <1>8

LEMMA EnqueueInPlaceInv ==
  ASSUME RelayConstants, RelayInv, NEW kind \in Reports, NEW k \in DOMAIN outbox,
         EnqueueInPlace(kind, k)
  PROVE  RelayInv'
<1> USE DEF RelayInv, hostVars, homeVars
<1>1. /\ outbox' = [outbox EXCEPT ![k] = kind]
      /\ outbox \in Seq(Kinds) /\ kind \in Kinds
      /\ k \in 1 .. Len(outbox) /\ Len(outbox) \in Nat
  BY LenProperties DEF EnqueueInPlace, TypeOK, Kinds
<1>2. /\ outbox' \in Seq(Kinds)
      /\ Len(outbox') = Len(outbox)
      /\ \A j \in 1 .. Len(outbox) : outbox'[j] = IF j = k THEN kind ELSE outbox[j]
  BY <1>1, ExceptSeq
<1>3. TypeOK'
  BY <1>1, <1>2 DEF TypeOK, EnqueueInPlace, Sequences, RelayConstants
<1>4. AckedIsImported' /\ HostSettlesWithHome' /\ ImportsAreQueued' /\ PageInRange'
  BY <1>2 DEF EnqueueInPlace, AckedIsImported, HostSettlesWithHome, ImportsAreQueued, PageInRange
<1>5. PageIsQueued'
  <2> SUFFICES ASSUME sync.phase = "import", NEW j \in DOMAIN sync.page
               PROVE  \/ sync.page[j] = outbox'[sync.first + j]
                      \/ sync.first + j \in replaced' /\ sync.page[j] = "heartbeat"
    BY DEF EnqueueInPlace, PageIsQueued
  <2>1. sync.first + j \in 1 .. Len(outbox)
    <3> HIDE DEF RelayInv
    <3> QED
      BY PageFacts
  <2>2. \/ sync.page[j] = outbox[sync.first + j]
        \/ sync.first + j \in replaced /\ sync.page[j] = "heartbeat"
    BY DEF PageIsQueued
  <2>3. outbox[k] = "heartbeat" /\ replaced' = replaced \cup {k}
    BY DEF EnqueueInPlace
  <2> QED
    BY <1>2, <2>1, <2>2, <2>3
<1>6. \A request \in wire' : Honest(request)'
  BY DEF EnqueueInPlace, Honest
<1>7. AnsweredIsAcked'
  BY DEF EnqueueInPlace, AnsweredIsAcked
<1> QED
  BY <1>3, <1>4, <1>5, <1>6, <1>7

(* What acknowledging an honest request does to the host. *)
LEMMA AcknowledgeFacts ==
  ASSUME RelayConstants, RelayInv, NEW request \in wire, Acknowledge(request.payload)
  PROVE  /\ hostAcked' \in 0 .. MaxItems
         /\ hostAcked <= hostAcked' /\ hostAcked' <= Len(imported)
         /\ request.payload.through <= hostAcked'
         /\ attachment' \in Reports \cup {"ready", "stopped"}
         /\ attachment' # attachment => attachment' = report
<1>1. request \in Request /\ Honest(request)
  BY DEF RelayInv, TypeOK
<1>2. request.payload.through \in 0 .. MaxItems /\ request.payload.through <= Len(imported)
  BY <1>1, RequestFields DEF Honest
<1>3. hostAcked \in 0 .. MaxItems /\ hostAcked <= Len(imported)
  BY DEF RelayInv, TypeOK, AckedIsImported
<1>4. /\ hostAcked' \in 0 .. MaxItems
      /\ hostAcked <= hostAcked' /\ hostAcked' <= Len(imported)
      /\ request.payload.through <= hostAcked'
  BY <1>2, <1>3 DEF Acknowledge, Max2, RelayConstants
<1>5. /\ attachment' \in Reports \cup {"ready", "stopped"}
      /\ attachment' # attachment => attachment' = report
  <2>1. CASE Accepted(request.payload) = {}
    BY <2>1 DEF Acknowledge, RelayInv, TypeOK
  <2>2. CASE Accepted(request.payload) # {}
    <3>1. attachment' \in Accepted(request.payload) /\ attachment' \in Reports
      <4> DEFINE A == Accepted(request.payload)
      <4>1. \E r \in Reports : r \in A
        BY <2>2 DEF Accepted
      <4>2. attachment' = CHOOSE r \in Reports : r \in A
        BY <2>2 DEF Acknowledge
      <4> QED
        BY <4>1, <4>2
    <3>2. PICK k \in Judged(request.payload) : attachment' = request.payload.verdicts[k]
      BY <3>1 DEF Accepted
    <3>3. report = attachment'
      BY <1>1, <3>1, <3>2 DEF Honest, Judged
    <3> QED
      BY <3>1, <3>3
  <2> QED
    BY <2>1, <2>2
<1> QED
  BY <1>4, <1>5

(* The receipts stay those of requests. *)
LEMMA ReceiptStored ==
  ASSUME RelayConstants, RelayInv, NEW request \in wire, NEW st \in {"pending", "completed"},
         receipts' = [receipts EXCEPT ![request.cursor] = [state |-> st, payload |-> request.payload]]
  PROVE  /\ request \in Request
         /\ receipts' \in [0 .. MaxItems -> Receipt]
         /\ \A c \in 0 .. MaxItems :
              receipts'[c] = IF c = request.cursor
                             THEN [state |-> st, payload |-> request.payload] ELSE receipts[c]
<1>1. request \in Request /\ receipts \in [0 .. MaxItems -> Receipt]
  BY DEF RelayInv, TypeOK
<1>2. request.cursor \in 0 .. MaxItems /\ request.payload \in Payload
  BY <1>1, RequestFields
<1>3. [state |-> st, payload |-> request.payload] \in Receipt
  BY <1>2 DEF Receipt
<1> QED
  BY <1>1, <1>2, <1>3

LEMMA HostAckInv ==
  ASSUME RelayConstants, RelayInv, NEW request \in wire, HostAck(request)
  PROVE  RelayInv'
<1> DEFINE run == Fresh(request) /\ Fits(request.payload)
           ok == \/ run
                 \/ Repeated(request) /\ receipts[request.cursor].state = "completed"
<1>1. /\ wire' \subseteq wire
      /\ UNCHANGED <<outbox, replaced, hostEpoch, imported, report, reopened, homeAcked,
                     knownEpoch, capability>>
  BY DEF HostAck
<1>2. /\ hostAcked' \in 0 .. MaxItems
      /\ hostAcked <= hostAcked' /\ hostAcked' <= Len(imported)
      /\ attachment' \in Reports \cup {"ready", "stopped"}
      /\ attachment' # attachment => attachment' = report
      /\ run => request.payload.through <= hostAcked'
  <2>1. CASE run
    BY <2>1, AcknowledgeFacts DEF HostAck
  <2>2. CASE ~run
    BY <2>2 DEF HostAck, RelayInv, TypeOK, AckedIsImported
  <2> QED
    BY <2>1, <2>2
<1>3. request \in Request /\ request.payload.through \in 0 .. MaxItems
  BY RequestFields DEF RelayInv, TypeOK
<1>4. /\ receipts' \in [0 .. MaxItems -> Receipt]
      /\ \A c \in 0 .. MaxItems :
           receipts'[c].state = "completed" => receipts'[c].payload.through <= hostAcked'
  <2>1. CASE run
    <3>1. receipts' = [receipts EXCEPT ![request.cursor] =
                         [state |-> "completed", payload |-> request.payload]]
      BY <2>1 DEF HostAck
    <3>2. /\ receipts' \in [0 .. MaxItems -> Receipt]
          /\ \A c \in 0 .. MaxItems :
               receipts'[c] = IF c = request.cursor
                              THEN [state |-> "completed", payload |-> request.payload]
                              ELSE receipts[c]
      BY <3>1, ReceiptStored
    <3>3. ASSUME NEW c \in 0 .. MaxItems, receipts'[c].state = "completed"
          PROVE  receipts'[c].payload.through <= hostAcked'
      <4>1. CASE c = request.cursor
        BY <1>2, <2>1, <3>2, <4>1
      <4>2. CASE c # request.cursor
        <5>1. receipts[c].state = "completed" /\ receipts[c] \in Receipt
          BY <3>2, <3>3, <4>2 DEF RelayInv, TypeOK
        <5>2. receipts[c].payload.through \in 0 .. MaxItems
          BY <5>1 DEF Receipt, Payload
        <5>3. receipts[c].payload.through <= hostAcked /\ hostAcked \in 0 .. MaxItems
          BY <5>1 DEF RelayInv, AnsweredIsAcked, TypeOK
        <5> QED
          BY <1>2, <3>2, <4>2, <5>2, <5>3 DEF RelayConstants
      <4> QED
        BY <4>1, <4>2
    <3> QED
      BY <3>2, <3>3
  <2>2. CASE ~run
    BY <2>2 DEF HostAck, RelayInv, TypeOK, AnsweredIsAcked
  <2> QED
    BY <2>1, <2>2
<1>5. ok => request.payload.through <= hostAcked'
  <2>1. CASE Repeated(request) /\ receipts[request.cursor].state = "completed"
    <3>1. request.cursor \in 0 .. MaxItems
      BY <1>3, RequestFields
    <3>2. request.payload.through <= hostAcked
      BY <2>1, <3>1 DEF Repeated, RelayInv, AnsweredIsAcked
    <3> QED
      BY <1>2, <1>3, <3>2 DEF RelayInv, TypeOK, RelayConstants
  <2> QED
    BY <1>2, <2>1
<1>6. /\ sync' \in SyncState
      /\ \/ sync' = sync
         \/ /\ sync' = [sync EXCEPT !.answered = TRUE]
            /\ sync.phase = "ack" /\ sync.request = request /\ ok
  BY DEF HostAck, Answer, RelayInv, TypeOK, SyncState
<1>7. /\ sync'.phase = sync.phase /\ sync'.first = sync.first /\ sync'.page = sync.page
      /\ sync'.request = sync.request
      /\ sync'.answered => \/ sync.answered
                           \/ sync.phase = "ack" /\ sync.request = request /\ ok
  BY <1>6 DEF RelayInv, TypeOK
<1>8. TypeOK'
  BY <1>1, <1>2, <1>4, <1>6 DEF RelayInv, TypeOK, SyncState
<1>9. AckedIsImported' /\ ImportsAreQueued'
  BY <1>1, <1>2 DEF RelayInv, TypeOK, AckedIsImported, ImportsAreQueued, RelayConstants
<1>10. PageInRange' /\ PageIsQueued'
  BY <1>1, <1>7 DEF RelayInv, PageInRange, PageIsQueued
<1>11. \A q \in wire' : Honest(q)'
  BY <1>1 DEF RelayInv, Honest
<1>12. AnsweredIsAcked'
  <2>1. sync'.phase = "ack" => sync'.request \in Request
    BY <1>7 DEF RelayInv, AnsweredIsAcked
  <2>2. ASSUME sync'.answered
        PROVE  sync'.phase = "ack" /\ sync'.request.payload.through <= hostAcked'
    <3>1. CASE sync.answered
      <4>1. /\ sync.phase = "ack" /\ sync.request \in Request
            /\ sync.request.payload.through <= hostAcked
        BY <3>1 DEF RelayInv, AnsweredIsAcked
      <4>2. sync.request.payload.through \in 0 .. MaxItems /\ hostAcked \in 0 .. MaxItems
        BY <4>1, RequestFields DEF RelayInv, TypeOK
      <4> QED
        BY <1>2, <1>7, <4>1, <4>2 DEF RelayConstants
    <3>2. CASE sync.phase = "ack" /\ sync.request = request /\ ok
      BY <1>5, <1>7, <3>2
    <3> QED
      BY <1>7, <2>2, <3>1, <3>2
  <2> QED
    BY <1>4, <2>1, <2>2 DEF AnsweredIsAcked
<1>13. HostSettlesWithHome'
  BY <1>1, <1>2 DEF RelayInv, HostSettlesWithHome
<1> QED
  BY <1>8, <1>9, <1>10, <1>11, <1>12, <1>13 DEF RelayInv

LEMMA HostDiesInAckInv ==
  ASSUME RelayConstants, RelayInv, NEW request \in wire, HostDiesInAck(request)
  PROVE  RelayInv'
<1>1. /\ wire' = {}
      /\ hostEpoch' = hostEpoch + 1 /\ hostEpoch < MaxEpoch
      /\ UNCHANGED <<outbox, replaced, imported, report, reopened, homeAcked, knownEpoch,
                     capability, sync>>
  BY DEF HostDiesInAck, homeVars
<1>2. /\ hostAcked' \in 0 .. MaxItems
      /\ hostAcked <= hostAcked' /\ hostAcked' <= Len(imported)
      /\ attachment' \in Reports \cup {"ready", "stopped"}
      /\ attachment' # attachment => attachment' = report
  <2>1. CASE Acknowledge(request.payload)
    BY <2>1, AcknowledgeFacts
  <2>2. CASE UNCHANGED <<hostAcked, attachment>>
    BY <2>2 DEF RelayInv, TypeOK, AckedIsImported
  <2> QED
    BY <2>1, <2>2 DEF HostDiesInAck
<1>3. /\ receipts' \in [0 .. MaxItems -> Receipt]
      /\ \A c \in 0 .. MaxItems :
           receipts'[c].state = "completed" => receipts[c] = receipts'[c]
  <2>1. receipts' = [receipts EXCEPT ![request.cursor] =
                       [state |-> "pending", payload |-> request.payload]]
    BY DEF HostDiesInAck
  <2>2. /\ receipts' \in [0 .. MaxItems -> Receipt]
        /\ \A c \in 0 .. MaxItems :
             receipts'[c] = IF c = request.cursor
                            THEN [state |-> "pending", payload |-> request.payload]
                            ELSE receipts[c]
    BY <2>1, ReceiptStored
  <2> QED
    BY <2>2
<1>4. TypeOK'
  BY <1>1, <1>2, <1>3 DEF RelayInv, TypeOK, Epochs, RelayConstants
<1>5. AckedIsImported' /\ ImportsAreQueued' /\ PageInRange' /\ PageIsQueued'
  BY <1>1, <1>2 DEF RelayInv, TypeOK, AckedIsImported, ImportsAreQueued, PageInRange,
                    PageIsQueued, RelayConstants
<1>6. AnsweredIsAcked'
  <2>1. ASSUME NEW x \in 0 .. MaxItems, x <= hostAcked
        PROVE  x <= hostAcked'
    BY <1>2, <2>1 DEF RelayInv, TypeOK, RelayConstants
  <2>2. ASSUME sync.answered
        PROVE  sync.phase = "ack" /\ sync.request.payload.through <= hostAcked'
    <3>1. /\ sync.phase = "ack" /\ sync.request \in Request
          /\ sync.request.payload.through <= hostAcked
      BY <2>2 DEF RelayInv, AnsweredIsAcked
    <3> QED
      BY <2>1, <3>1, RequestFields
  <2>3. ASSUME NEW c \in 0 .. MaxItems, receipts'[c].state = "completed"
        PROVE  receipts'[c].payload.through <= hostAcked'
    <3>1. /\ receipts'[c] = receipts[c] /\ receipts[c] \in Receipt
          /\ receipts[c].state = "completed"
      BY <1>3, <2>3 DEF RelayInv, TypeOK
    <3>2. receipts[c].payload.through \in 0 .. MaxItems
      BY <3>1 DEF Receipt, Payload
    <3> QED
      BY <2>1, <3>1, <3>2 DEF RelayInv, AnsweredIsAcked
  <2> QED
    BY <1>1, <2>2, <2>3 DEF RelayInv, AnsweredIsAcked
<1>7. HostSettlesWithHome' /\ \A q \in wire' : Honest(q)'
  BY <1>1, <1>2 DEF RelayInv, HostSettlesWithHome
<1> QED
  BY <1>4, <1>5, <1>6, <1>7 DEF RelayInv

(* Steps of the host that touch neither queue nor imports. *)
LEMMA HostControlInv ==
  ASSUME RelayConstants, RelayInv,
         HostRestart \/ HostStop \/ (\E request \in wire : LoseAck(request))
  PROVE  RelayInv'
<1>1. /\ UNCHANGED <<outbox, replaced, hostAcked, receipts, imported, report, reopened,
                     homeAcked, knownEpoch, capability, sync>>
      /\ wire' \subseteq wire
      /\ hostEpoch' \in Epochs
      /\ attachment' \in {attachment, "stopped"}
  <2>1. hostEpoch \in Epochs
    BY DEF RelayInv, TypeOK
  <2>2. CASE HostRestart
    BY <2>1, <2>2 DEF HostRestart, homeVars, Epochs, RelayConstants
  <2>3. CASE HostStop
    BY <2>1, <2>3 DEF HostStop, homeVars
  <2>4. CASE \E request \in wire : LoseAck(request)
    BY <2>1, <2>4 DEF LoseAck, hostVars, homeVars
  <2> QED
    BY <2>2, <2>3, <2>4
<1>2. TypeOK'
  BY <1>1 DEF RelayInv, TypeOK
<1>3. AckedIsImported' /\ ImportsAreQueued' /\ PageInRange' /\ PageIsQueued' /\ AnsweredIsAcked'
  BY <1>1 DEF RelayInv, AckedIsImported, ImportsAreQueued, PageInRange, PageIsQueued, AnsweredIsAcked
<1>4. HostSettlesWithHome' /\ \A q \in wire' : Honest(q)'
  BY <1>1 DEF RelayInv, HostSettlesWithHome, Honest, Reports
<1> QED
  BY <1>2, <1>3, <1>4 DEF RelayInv

(* A sync without a page satisfies what the invariant asks of a sync. *)
LEMMA EmptySyncInv ==
  ASSUME RelayConstants, RelayInv, sync' \in SyncState, NoPage(sync'),
         UNCHANGED <<hostVars, wire, imported, report, reopened, homeAcked, knownEpoch>>,
         capability' \in Epochs \cup {None}
  PROVE  RelayInv'
<1> USE DEF hostVars
<1>1. TypeOK'
  BY DEF RelayInv, TypeOK, SyncState
<1>2. AckedIsImported' /\ ImportsAreQueued' /\ HostSettlesWithHome'
  BY DEF RelayInv, AckedIsImported, ImportsAreQueued, HostSettlesWithHome
<1>3. PageInRange' /\ PageIsQueued' /\ AnsweredIsAcked'
  BY DEF RelayInv, PageInRange, PageIsQueued, AnsweredIsAcked, NoPage
<1>4. \A q \in wire' : Honest(q)'
  BY DEF RelayInv, Honest
<1> QED
  BY <1>1, <1>2, <1>3, <1>4 DEF RelayInv

LEMMA HomeControlInv ==
  ASSUME RelayConstants, RelayInv, BeginSync \/ Probe
  PROVE  RelayInv'
<1>1. CASE BeginSync
  <2>1. capability \in Epochs \cup {None} /\ MaxPages \in 0 .. MaxPages
    BY DEF RelayInv, TypeOK, RelayConstants
  <2>2. sync' \in SyncState /\ NoPage(sync')
    BY <1>1, <2>1, FreshSync DEF BeginSync
  <2> QED
    BY <1>1, <2>1, <2>2, EmptySyncInv DEF BeginSync
<1>2. CASE Probe
  <2>1. hostEpoch \in Epochs /\ sync \in SyncState
    BY DEF RelayInv, TypeOK, SyncState
  <2>2. sync.page = <<>> /\ sync.first = 0 /\ ~sync.answered
    BY <1>2 DEF Probe, RelayInv, PageInRange, AnsweredIsAcked
  <2>3. sync' \in SyncState /\ NoPage(sync')
    BY <1>2, <2>1, <2>2 DEF Probe, SyncState, NoPage, Phases
  <2> QED
    BY <1>2, <2>1, <2>3, EmptySyncInv DEF Probe
<1> QED
  BY <1>1, <1>2

(* Steps that change the dispatch or its task on the Run home only.         *)
LEMMA HomeRecordInv ==
  ASSUME RelayConstants, RelayInv, BeginStop \/ EndStop \/ Reopen
  PROVE  RelayInv'
<1>1. /\ UNCHANGED <<hostVars, wire, imported, homeAcked, knownEpoch, capability, sync>>
      /\ report' \in Reports \cup {"open", "stopping", "stopped"} /\ reopened' \in BOOLEAN
      /\ report' # report => report \notin Reports
  BY DEF BeginStop, EndStop, Reopen, RelayInv, TypeOK, Reports
<1>2. TypeOK'
  BY <1>1 DEF RelayInv, TypeOK, hostVars
<1>3. AckedIsImported' /\ ImportsAreQueued' /\ PageInRange' /\ PageIsQueued' /\ AnsweredIsAcked'
  BY <1>1 DEF RelayInv, AckedIsImported, ImportsAreQueued, PageInRange, PageIsQueued,
              AnsweredIsAcked, hostVars
<1>4. HostSettlesWithHome' /\ \A q \in wire' : Honest(q)'
  BY <1>1 DEF RelayInv, HostSettlesWithHome, Honest, hostVars
<1> QED
  BY <1>2, <1>3, <1>4 DEF RelayInv

(* The pulled page is the queue after what the host has acknowledged. *)
LEMMA PullInv ==
  ASSUME RelayConstants, RelayInv, Pull
  PROVE  RelayInv'
<1> DEFINE m == hostAcked + 1
           n == Min2(Len(outbox), hostAcked + PageSize)
           page == SubSeq(outbox, m, n)
           first == IF Unacked = {} THEN Len(imported) ELSE hostAcked
<1>1. /\ outbox \in Seq(Kinds) /\ Len(outbox) \in Nat /\ Len(outbox) <= MaxItems
      /\ DOMAIN outbox = 1 .. Len(outbox) /\ \A i \in 1 .. Len(outbox) : outbox[i] \in Kinds
      /\ Len(imported) \in Nat /\ Len(imported) <= Len(outbox)
      /\ hostAcked \in Nat /\ hostAcked <= Len(imported)
  BY LenProperties DEF RelayInv, TypeOK, AckedIsImported, ImportsAreQueued, RelayConstants
<1>2. m \in Nat /\ n \in Nat /\ n <= Len(outbox) /\ n <= hostAcked + PageSize
  BY <1>1 DEF Min2, RelayConstants
<1>3. /\ page \in Seq(Kinds)
      /\ Len(page) = IF m <= n THEN n - m + 1 ELSE 0
      /\ \A i \in 1 .. n - m + 1 : page[i] = outbox[m + i - 1]
  <2>1. \A i \in m .. n : outbox[i] \in Kinds
    BY <1>1, <1>2
  <2>2. m \in Int /\ n \in Int
    BY <1>2
  <2> HIDE DEF m, n
  <2> QED
    BY <1>1, <2>1, <2>2, SubSeqProperties
<1>4. /\ first \in 0 .. MaxItems /\ first <= Len(imported)
      /\ first + Len(page) <= Len(outbox)
      /\ \A k \in 1 .. Len(page) : page[k] = outbox[first + k]
      /\ DOMAIN page = 1 .. Len(page)
  <2>1. CASE Unacked = {}
    <3>1. ~(hostAcked + 1 <= Len(outbox))
      BY <1>1, <2>1 DEF Unacked
    <3>2. hostAcked = Len(outbox) /\ Len(imported) = Len(outbox)
      <4>1. ASSUME NEW a \in Nat, NEW b \in Nat, NEW c \in Nat, a <= b, b <= c, ~(a + 1 <= c)
            PROVE  a = c /\ b = c
        BY <4>1
      <4> QED
        BY <1>1, <3>1, <4>1
    <3>3. Len(page) = 0
      BY <1>1, <1>2, <1>3, <3>2
    <3>4. first = Len(imported)
      BY <2>1
    <3> HIDE DEF page, first
    <3> QED
      BY <1>1, <1>3, <3>2, <3>3, <3>4, LenProperties
  <2>2. CASE Unacked # {}
    <3>1. hostAcked + 1 <= Len(outbox) /\ first = hostAcked
      BY <1>1, <2>2 DEF Unacked
    <3>2. Len(page) = n - m + 1 /\ m <= n
      BY <1>1, <1>2, <1>3, <3>1 DEF Min2, RelayConstants
    <3>3. first + Len(page) <= Len(outbox)
      BY <1>1, <1>2, <3>1, <3>2
    <3>4. ASSUME NEW k \in 1 .. Len(page)
          PROVE  page[k] = outbox[first + k]
      <4>1. k \in 1 .. n - m + 1 /\ m + k - 1 = hostAcked + k
        BY <1>1, <1>2, <3>2
      <4> HIDE DEF page, first
      <4> QED
        BY <1>3, <3>1, <4>1
    <3> QED
      BY <1>1, <1>3, <3>1, <3>3, <3>4, LenProperties
  <2> QED
    BY <2>1, <2>2
<1>5. sync' = [sync EXCEPT !.phase = "import", !.epoch = hostEpoch, !.page = page, !.first = first]
  BY DEF Pull
<1>6. UNCHANGED <<hostVars, wire, imported, report, reopened, homeAcked, knownEpoch, capability>>
  BY DEF Pull
<1> HIDE DEF page, first, m, n
<1>7. /\ sync' \in SyncState /\ sync'.phase = "import"
      /\ sync'.page = page /\ sync'.first = first /\ sync'.answered = sync.answered
  BY <1>3, <1>4, <1>5 DEF RelayInv, TypeOK, SyncState, Phases
<1>8. ~sync.answered
  BY DEF Pull, RelayInv, AnsweredIsAcked
<1>9. TypeOK'
  BY <1>6, <1>7 DEF RelayInv, TypeOK, SyncState, hostVars
<1>10. AckedIsImported' /\ ImportsAreQueued' /\ HostSettlesWithHome'
  BY <1>6 DEF RelayInv, AckedIsImported, ImportsAreQueued, HostSettlesWithHome, hostVars
<1>11. PageInRange' /\ PageIsQueued'
  BY <1>4, <1>6, <1>7 DEF PageInRange, PageIsQueued, hostVars
<1>12. AnsweredIsAcked' /\ \A q \in wire' : Honest(q)'
  BY <1>6, <1>7, <1>8 DEF RelayInv, AnsweredIsAcked, Honest, hostVars
<1> QED
  BY <1>9, <1>10, <1>11, <1>12 DEF RelayInv

(* A nonempty set of numbers has a least one. *)
LEMMA Least ==
  ASSUME NEW S \in SUBSET Nat, S # {}
  PROVE  \E x \in S : \A y \in S : x <= y
<1>1. IsWellFoundedOn(OpToRel(<, Nat), Nat)
  BY NatLessThanWellFounded
<1>2. PICK x \in S : \A y \in S : ~(<<y, x>> \in OpToRel(<, Nat))
  BY <1>1, WFMin
<1>3. ASSUME NEW y \in S
      PROVE  x <= y
  <2>1. x \in Nat /\ y \in Nat
    OBVIOUS
  <2>2. ~(y < x)
    BY <1>2, <2>1 DEF OpToRel
  <2> QED
    BY <2>1, <2>2
<1> QED
  BY <1>3

LEMMA FirstReport ==
  ASSUME RelayConstants, RelayInv, NEW n \in Nat, PageReports \cap 1 .. n # {}
  PROVE  LET k == CHOOSE k \in PageReports \cap 1 .. n : \A j \in PageReports \cap 1 .. n : k <= j
         IN k \in 1 .. Len(sync.page) /\ sync.page[k] \in Reports
<1> DEFINE S == PageReports \cap 1 .. n
<1>1. S \in SUBSET Nat /\ S # {}
  BY PageFacts DEF PageReports
<1>2. \E k \in S : \A j \in S : k <= j
  BY <1>1, Least
<1>3. (CHOOSE k \in S : \A j \in S : k <= j) \in S
  BY <1>2
<1> QED
  BY <1>3, PageFacts DEF PageReports

(* What the import of the first n items of the page does. *)
LEMMA ImportFacts ==
  ASSUME RelayConstants, RelayInv, NEW n \in 0 .. Len(sync.page)
  PROVE  /\ ImportedWith(n) \in Seq(Kinds)
         /\ Len(ImportedWith(n)) = IF sync.first + n <= Len(imported)
                                   THEN Len(imported) ELSE sync.first + n
         /\ Len(ImportedWith(n)) \in Nat
         /\ Len(imported) <= Len(ImportedWith(n)) /\ Len(ImportedWith(n)) <= Len(outbox)
         /\ sync.first + n <= Len(ImportedWith(n))
         /\ \A k \in 1 .. Len(ImportedWith(n)) :
              ImportedWith(n)[k] = IF k <= Len(imported) THEN imported[k]
                                   ELSE sync.page[k - sync.first]
         /\ ReportWith(n) \in Reports \cup {"open", "stopping", "stopped"}
         /\ report \in Reports => ReportWith(n) = report
<1>1. n \in Nat /\ n <= Len(sync.page)
  BY PageFacts
<1>2. LET t == ImportedWith(n)
      IN /\ t \in Seq(Kinds)
         /\ Len(t) = IF sync.first + n <= Len(imported) THEN Len(imported) ELSE sync.first + n
         /\ \A k \in 1 .. Len(t) :
              t[k] = IF k <= Len(imported) THEN imported[k] ELSE sync.page[k - sync.first]
  <2> DEFINE t == imported \o SubSeq(sync.page, Len(imported) - sync.first + 1, n)
  <2>1. /\ t \in Seq(Kinds)
        /\ Len(t) = IF sync.first + n <= Len(imported) THEN Len(imported) ELSE sync.first + n
        /\ \A k \in 1 .. Len(t) :
             t[k] = IF k <= Len(imported) THEN imported[k] ELSE sync.page[k - sync.first]
    <3> HIDE DEF t
    <3>1. /\ imported \in Seq(Kinds) /\ sync.page \in Seq(Kinds) /\ sync.first \in Nat
          /\ sync.first <= Len(imported)
      BY PageFacts
    <3>2. t = imported \o SubSeq(sync.page, Len(imported) - sync.first + 1, n)
      BY DEF t
    <3> QED
      <4>1. PICK s \in Seq(Kinds), p \in Seq(Kinds), f \in Nat :
              s = imported /\ p = sync.page /\ f = sync.first
        BY <3>1
      <4>2. f <= Len(s) /\ n <= Len(p) /\ t = s \o SubSeq(p, Len(s) - f + 1, n)
        BY <1>1, <3>1, <3>2, <4>1
      <4>3. /\ t \in Seq(Kinds)
            /\ Len(t) = IF f + n <= Len(s) THEN Len(s) ELSE f + n
            /\ \A k \in 1 .. Len(t) : t[k] = IF k <= Len(s) THEN s[k] ELSE p[k - f]
        BY <1>1, <4>2, ContinuedImports
      <4> QED
        BY <4>1, <4>3
  <2>2. ImportedWith(n) = t
    BY DEF ImportedWith
  <2> HIDE DEF t
  <2> QED
    BY <2>1, <2>2
<1>3. /\ Len(ImportedWith(n)) \in Nat
      /\ Len(imported) <= Len(ImportedWith(n)) /\ Len(ImportedWith(n)) <= Len(outbox)
      /\ sync.first + n <= Len(ImportedWith(n))
  BY <1>1, <1>2, PageFacts
<1>4. /\ ReportWith(n) \in Reports \cup {"open", "stopping", "stopped"}
      /\ report \in Reports => ReportWith(n) = report
  <2>1. report \in Reports \cup {"open", "stopping", "stopped"}
    BY DEF RelayInv, TypeOK
  <2>2. CASE report = "open" /\ PageReports \cap 1 .. n # {}
    <3> DEFINE k == CHOOSE k \in PageReports \cap 1 .. n :
                      \A j \in PageReports \cap 1 .. n : k <= j
    <3>1. ReportWith(n) = sync.page[k]
      BY <2>2 DEF ReportWith
    <3>2. sync.page[k] \in Reports
      BY <1>1, <2>2, FirstReport
    <3> QED
      BY <2>2, <3>1, <3>2 DEF Reports
  <2>3. CASE ~(report = "open" /\ PageReports \cap 1 .. n # {})
    BY <2>1, <2>3 DEF ReportWith
  <2> QED
    BY <2>2, <2>3
<1> QED
  BY <1>2, <1>3, <1>4

(* Imports that grow, and a report that is settled once, keep what does not *)
(* depend on the sync.                                                      *)
LEMMA GrowingImportsInv ==
  ASSUME RelayConstants, RelayInv, NEW n \in 0 .. Len(sync.page),
         imported' = ImportedWith(n), report' = ReportWith(n),
         UNCHANGED <<hostVars, reopened, homeAcked>>
  PROVE  /\ AckedIsImported' /\ ImportsAreQueued' /\ HostSettlesWithHome'
         /\ imported' \in Seq(Kinds)
         /\ report' \in Reports \cup {"open", "stopping", "stopped"}
         /\ \A q \in wire : Honest(q)'
<1> USE DEF hostVars
<1>1. AckedIsImported'
  BY ImportFacts, PageFacts DEF RelayInv, TypeOK, AckedIsImported, RelayConstants
<1>2. ImportsAreQueued' /\ HostSettlesWithHome'
  BY ImportFacts DEF RelayInv, ImportsAreQueued, HostSettlesWithHome
<1>3. ASSUME NEW q \in wire
      PROVE  Honest(q)'
  <2>1. q \in Request /\ Honest(q)
    BY DEF RelayInv, TypeOK
  <2>2. q.payload.through <= Len(imported')
    <3>1. q.payload.through \in 0 .. MaxItems /\ q.payload.through <= Len(imported)
      BY <2>1, RequestFields DEF Honest
    <3>2. Len(imported) <= Len(imported') /\ Len(imported) \in Nat /\ Len(imported') \in Nat
      BY ImportFacts, PageFacts
    <3> QED
      BY <3>1, <3>2
  <2>3. \A k \in DOMAIN q.payload.verdicts :
          q.payload.verdicts[k] \in Reports => report' = q.payload.verdicts[k]
    BY <2>1, ImportFacts DEF Honest
  <2> QED
    BY <2>2, <2>3 DEF Honest
<1> QED
  BY <1>1, <1>2, <1>3, ImportFacts

(* The page is over. *)
LEMMA FinishPageFacts ==
  ASSUME RelayConstants, RelayInv, FinishPage
  PROVE  /\ capability' \in Epochs \cup {None}
         /\ knownEpoch' \in Epochs
         /\ sync' \in SyncState /\ NoPage(sync')
<1>1. /\ capability \in Epochs \cup {None} /\ sync.epoch \in Epochs
      /\ sync.left \in 0 .. MaxPages /\ MaxPages \in Nat \ {0}
  BY SyncFields DEF RelayInv, TypeOK, RelayConstants
<1>2. Seen(sync.epoch) \in Epochs \cup {None}
  BY <1>1 DEF Seen
<1>3. CASE FullPage /\ sync.left > 1 /\ ~Barred
  <2>1. sync.left - 1 \in 0 .. MaxPages
    BY <1>1, <1>3
  <2>2. sync' = Page(Seen(sync.epoch), sync.left - 1)
    BY <1>3 DEF FinishPage
  <2> QED
    BY <1>1, <1>2, <2>1, <2>2, FreshSync DEF FinishPage
<1>4. CASE ~(FullPage /\ sync.left > 1 /\ ~Barred)
  <2>1. sync' = Idle /\ 0 \in 0 .. MaxPages
    BY <1>1, <1>4 DEF FinishPage
  <2> QED
    BY <1>1, <1>2, <2>1, FreshSync DEF FinishPage
<1> QED
  BY <1>3, <1>4

(* The acknowledgement of an imported page is a request, and an honest one. *)
LEMMA AckRequestFacts ==
  ASSUME RelayConstants, RelayInv, NEW r \in Reports \cup {"open", "stopping", "stopped"}
  PROVE  /\ AckRequest(r) \in Request
         /\ AckRequest(r).payload.through <= sync.first + Len(sync.page)
         /\ \A k \in DOMAIN AckRequest(r).payload.verdicts :
              AckRequest(r).payload.verdicts[k] \in Reports => r = AckRequest(r).payload.verdicts[k]
<1> DEFINE S == {sync.first + k : k \in PageReports}
           V == AckRequest(r).payload.verdicts
<1>1. sync.first + Len(sync.page) \in 0 .. MaxItems
  BY PageFacts DEF RelayConstants
<1>2. Through \in 0 .. MaxItems /\ Through <= sync.first + Len(sync.page)
  <2>1. CASE Barred
    <3>1. \E k \in PageReports : \A j \in PageReports : k <= j
      <4>1. PageReports \in SUBSET Nat /\ PageReports # {}
        BY <2>1, PageFacts DEF PageReports, Barred
      <4> QED
        BY <4>1, Least
    <3>2. PICK k \in PageReports : Through = sync.first + (k - 1)
      <4> DEFINE k == CHOOSE k \in PageReports : \A j \in PageReports : k <= j
      <4>1. k \in PageReports
        BY <3>1
      <4>2. Through = sync.first + (k - 1)
        BY <2>1 DEF Through
      <4> QED
        BY <4>1, <4>2
    <3>3. k \in 1 .. Len(sync.page)
      BY PageFacts DEF PageReports
    <3> QED
      BY <1>1, <3>2, <3>3, PageFacts
  <2>2. CASE ~Barred
    <3>1. Through = sync.first + Len(sync.page)
      BY <2>2 DEF Through
    <3> QED
      BY <1>1, <3>1
  <2> QED
    BY <2>1, <2>2
<1>3. S \in SUBSET Sequences
  BY PageFacts DEF PageReports, Sequences
<1>4. VerdictsWith(r) \in [S -> Verdict]
  <2>1. ASSUME NEW s \in S
        PROVE  (IF sync.page[s - sync.first] = r /\ ~reopened THEN r ELSE "rejected") \in Verdict
    <3>1. PICK k \in PageReports : s = sync.first + k
      OBVIOUS
    <3>2. s - sync.first = k /\ sync.page[k] \in Reports
      BY <3>1, PageFacts DEF PageReports
    <3> QED
      BY <3>2 DEF Verdict
  <2> QED
    BY <2>1 DEF VerdictsWith
<1>5. NoVerdicts \in [{} -> Verdict]
  BY DEF NoVerdicts
<1>6. V \in [S -> Verdict] \/ V \in [{} -> Verdict]
  BY <1>4, <1>5 DEF AckRequest
<1>7. V \in UNION {[T -> Verdict] : T \in SUBSET Sequences}
  BY <1>3, <1>6
<1>8. AckRequest(r) = [cursor |-> sync.first + Len(sync.page),
                       payload |-> [through |-> Through, verdicts |-> V]]
  BY DEF AckRequest
<1>9. ASSUME NEW k \in DOMAIN V, V[k] \in Reports
      PROVE  r = V[k]
  <2>1. CASE Current
    <3>1. V = VerdictsWith(r)
      BY <2>1 DEF AckRequest
    <3>2. V[k] \in {r, "rejected"}
      BY <1>9, <3>1 DEF VerdictsWith
    <3> QED
      BY <1>9, <3>2 DEF Reports
  <2>2. CASE ~Current
    <3>1. V = NoVerdicts
      BY <2>2 DEF AckRequest
    <3> QED
      BY <1>9, <3>1 DEF NoVerdicts
  <2> QED
    BY <2>1, <2>2
<1>10. AckRequest(r) \in Request /\ AckRequest(r).payload.through = Through
  <2> HIDE DEF V
  <2> QED
    BY <1>1, <1>2, <1>7, <1>8 DEF Request, Payload
<1> QED
  BY <1>2, <1>9, <1>10

LEMMA ImportPageInv ==
  ASSUME RelayConstants, RelayInv, ImportPage
  PROVE  RelayInv'
<1> DEFINE n == Len(sync.page)
<1>1. n \in 0 .. Len(sync.page)
  BY PageFacts
<1>2. /\ imported' = ImportedWith(n) /\ report' = ReportWith(n)
      /\ UNCHANGED <<hostVars, reopened, homeAcked>>
      /\ sync.phase = "import"
  BY DEF ImportPage
<1>3. /\ AckedIsImported' /\ ImportsAreQueued' /\ HostSettlesWithHome'
      /\ imported' \in Seq(Kinds)
      /\ report' \in Reports \cup {"open", "stopping", "stopped"}
      /\ \A q \in wire : Honest(q)'
  BY <1>1, <1>2, GrowingImportsInv
<1>4. ~sync.answered
  BY <1>2 DEF RelayInv, AnsweredIsAcked
<1>5. CASE Through > AckedBefore
  <2>0. PICK request \in Request : request = AckRequest(report')
    BY <1>3, AckRequestFacts
  <2>1. /\ request \in Request
        /\ request.payload.through <= sync.first + n
        /\ \A k \in DOMAIN request.payload.verdicts :
             request.payload.verdicts[k] \in Reports => report' = request.payload.verdicts[k]
    BY <1>3, <2>0, AckRequestFacts
  <2>2. /\ wire' = wire \cup {request}
        /\ sync' = [sync EXCEPT !.phase = "ack", !.request = request]
        /\ UNCHANGED <<knownEpoch, capability>>
    BY <1>5, <2>0 DEF ImportPage
  <2>3. /\ sync' \in SyncState
        /\ sync'.phase = "ack" /\ sync'.request = request
        /\ sync'.page = sync.page /\ sync'.first = sync.first /\ sync'.answered = sync.answered
    BY <2>1, <2>2 DEF RelayInv, TypeOK, SyncState, Phases
  <2>4. sync.first + n <= Len(imported') /\ Len(imported') \in Nat /\ Len(imported) <= Len(imported')
    BY <1>1, <1>2, ImportFacts
  <2>5. Honest(request)'
    <3>1. request.payload.through <= Len(imported')
      BY <2>1, <2>4, RequestFields, PageFacts
    <3> QED
      BY <2>1, <3>1 DEF Honest
  <2>6. TypeOK'
    BY <1>2, <1>3, <2>1, <2>2, <2>3 DEF RelayInv, TypeOK, SyncState, hostVars
  <2>7. PageInRange' /\ PageIsQueued'
    BY <1>2, <2>3, <2>4, PageFacts DEF PageInRange, PageIsQueued, hostVars
  <2>8. AnsweredIsAcked'
    BY <1>2, <1>4, <2>1, <2>3 DEF RelayInv, AnsweredIsAcked, hostVars
  <2>9. \A q \in wire' : Honest(q)'
    BY <1>3, <2>2, <2>5
  <2> QED
    BY <1>3, <2>6, <2>7, <2>8, <2>9 DEF RelayInv
<1>6. CASE ~(Through > AckedBefore)
  <2>1. FinishPage /\ wire' = wire
    BY <1>6 DEF ImportPage
  <2>2. /\ capability' \in Epochs \cup {None} /\ knownEpoch' \in Epochs
        /\ sync' \in SyncState /\ NoPage(sync')
    BY <2>1, FinishPageFacts
  <2>3. TypeOK'
    BY <1>2, <1>3, <2>1, <2>2 DEF RelayInv, TypeOK, SyncState, hostVars
  <2>4. PageInRange' /\ PageIsQueued' /\ AnsweredIsAcked'
    BY <1>2, <2>2 DEF RelayInv, PageInRange, PageIsQueued, AnsweredIsAcked, NoPage, hostVars
  <2> QED
    BY <1>3, <2>1, <2>3, <2>4 DEF RelayInv
<1> QED
  BY <1>5, <1>6

LEMMA RecordAckInv ==
  ASSUME RelayConstants, RelayInv, RecordAck
  PROVE  RelayInv'
<1>1. /\ FinishPage
      /\ UNCHANGED <<hostVars, wire, imported, report, reopened>>
  BY DEF RecordAck
<1>2. /\ sync.request.payload.through \in 0 .. MaxItems
      /\ sync.request.payload.through <= hostAcked
  <2>1. sync.request \in Request /\ sync.request.payload.through <= hostAcked
    BY DEF RecordAck, RelayInv, AnsweredIsAcked
  <2> QED
    BY <2>1, RequestFields
<1>3. homeAcked' \in 0 .. MaxItems /\ homeAcked' <= hostAcked
  <2>1. Recorded \in 0 .. MaxItems /\ Recorded <= hostAcked
    BY <1>2 DEF Recorded, Max2, RelayInv, TypeOK, RelayConstants
  <2> QED
    BY <2>1 DEF RecordAck, Max2, RelayInv, TypeOK, AckedIsImported
<1>4. /\ capability' \in Epochs \cup {None} /\ knownEpoch' \in Epochs
      /\ sync' \in SyncState /\ NoPage(sync')
  BY <1>1, FinishPageFacts
<1>5. TypeOK'
  BY <1>1, <1>3, <1>4 DEF RelayInv, TypeOK, SyncState, hostVars
<1>6. AckedIsImported'
  BY <1>1, <1>3 DEF RelayInv, AckedIsImported, hostVars
<1>7. ImportsAreQueued' /\ HostSettlesWithHome' /\ \A q \in wire' : Honest(q)'
  BY <1>1 DEF RelayInv, ImportsAreQueued, HostSettlesWithHome, Honest, hostVars
<1>8. PageInRange' /\ PageIsQueued' /\ AnsweredIsAcked'
  BY <1>1, <1>4 DEF RelayInv, PageInRange, PageIsQueued, AnsweredIsAcked, NoPage, hostVars
<1> QED
  BY <1>5, <1>6, <1>7, <1>8 DEF RelayInv

LEMMA CutShortInv ==
  ASSUME RelayConstants, RelayInv, CutShort, capability' \in Epochs \cup {None}
  PROVE  RelayInv'
<1>1. PICK n \in 0 .. Len(sync.page) : imported' = ImportedWith(n) /\ report' = ReportWith(n)
  BY DEF CutShort
<1>2. /\ UNCHANGED <<hostVars, wire, reopened, homeAcked, knownEpoch>>
      /\ sync' = Idle
  BY DEF CutShort
<1>3. /\ AckedIsImported' /\ ImportsAreQueued' /\ HostSettlesWithHome'
      /\ imported' \in Seq(Kinds)
      /\ report' \in Reports \cup {"open", "stopping", "stopped"}
      /\ \A q \in wire : Honest(q)'
  BY <1>1, <1>2, GrowingImportsInv
<1>4. sync' \in SyncState /\ NoPage(sync')
  <2>1. None \in Epochs \cup {None} /\ 0 \in 0 .. MaxPages
    BY DEF RelayConstants
  <2> QED
    BY <1>2, <2>1, FreshSync
<1>5. TypeOK'
  BY <1>2, <1>3, <1>4 DEF RelayInv, TypeOK, SyncState, hostVars
<1>6. PageInRange' /\ PageIsQueued' /\ AnsweredIsAcked'
  BY <1>2, <1>4 DEF RelayInv, PageInRange, PageIsQueued, AnsweredIsAcked, NoPage, hostVars
<1> QED
  BY <1>2, <1>3, <1>5, <1>6 DEF RelayInv

-----------------------------------------------------------------------------
(* Theorems *)

LEMMA RelayInvInit ==
  ASSUME RelayConstants, Init
  PROVE  RelayInv
<1>1. <<>> \in Seq(Kinds) /\ Len(<<>>) = 0 /\ 0 \in Epochs /\ 0 \in 0 .. MaxPages
      /\ 0 \in 0 .. MaxItems
  BY EmptySeq DEF RelayConstants, Epochs
<1>2. sync \in SyncState /\ NoPage(sync)
  BY <1>1, FreshSync DEF Init
<1>3. receipts \in [0 .. MaxItems -> Receipt]
  BY DEF Init, Receipt
<1>4. TypeOK
  <2>1. /\ outbox \in Seq(Kinds) /\ imported \in Seq(Kinds)
        /\ Len(outbox) <= MaxItems /\ Len(imported) = 0
    BY <1>1 DEF Init, RelayConstants
  <2>2. /\ replaced \subseteq Sequences /\ wire \subseteq Request
        /\ hostAcked \in 0 .. MaxItems /\ homeAcked \in 0 .. MaxItems
        /\ attachment \in Reports \cup {"ready", "stopped"}
        /\ hostEpoch \in Epochs /\ knownEpoch \in Epochs
        /\ report \in Reports \cup {"open", "stopping", "stopped"}
        /\ reopened \in BOOLEAN /\ capability \in Epochs \cup {None}
    BY <1>1 DEF Init
  <2> QED
    BY <1>2, <1>3, <2>1, <2>2 DEF TypeOK, SyncState
<1>5. AckedIsImported /\ ImportsAreQueued /\ HostSettlesWithHome
  BY <1>1 DEF Init, AckedIsImported, ImportsAreQueued, HostSettlesWithHome, Reports
<1>6. PageInRange /\ PageIsQueued /\ AnsweredIsAcked
  BY <1>2 DEF Init, PageInRange, PageIsQueued, AnsweredIsAcked, NoPage
<1>7. \A q \in wire : Honest(q)
  BY DEF Init
<1> QED
  BY <1>4, <1>5, <1>6, <1>7 DEF RelayInv

LEMMA RelayInvNext ==
  ASSUME RelayConstants, RelayInv, [Next]_vars
  PROVE  RelayInv'
<1>1. CASE UNCHANGED vars
  BY <1>1 DEF vars, hostVars, homeVars, RelayInv, TypeOK, AckedIsImported, ImportsAreQueued,
              PageInRange, PageIsQueued, Honest, AnsweredIsAcked, HostSettlesWithHome
<1>2. CASE \E kind \in Kinds : Enqueue(kind)
  BY <1>2, EnqueueInv
<1>3. CASE \E kind \in Reports, k \in DOMAIN outbox : EnqueueInPlace(kind, k)
  BY <1>3, EnqueueInPlaceInv
<1>4. CASE \E request \in wire : HostAck(request)
  BY <1>4, HostAckInv
<1>5. CASE \E request \in wire : HostDiesInAck(request)
  BY <1>5, HostDiesInAckInv
<1>6. CASE HostRestart \/ HostStop \/ (\E request \in wire : LoseAck(request))
  BY <1>6, HostControlInv
<1>7. CASE BeginSync \/ Probe
  BY <1>7, HomeControlInv
<1>8. CASE Pull
  BY <1>8, PullInv
<1>9. CASE ImportPage
  BY <1>9, ImportPageInv
<1>10. CASE RecordAck
  BY <1>10, RecordAckInv
<1>11. CASE SyncFails \/ HomeRestart
  <2>1. CutShort
    BY <1>11 DEF SyncFails, HomeRestart
  <2>2. capability' \in Epochs \cup {None}
    BY <1>11 DEF SyncFails, HomeRestart, RelayInv, TypeOK
  <2> QED
    BY <2>1, <2>2, CutShortInv
<1>12. CASE BeginStop \/ EndStop \/ Reopen
  BY <1>12, HomeRecordInv
<1> QED
  BY <1>1, <1>2, <1>3, <1>4, <1>5, <1>6, <1>7, <1>8, <1>9, <1>10, <1>11, <1>12 DEF Next

(* The inductive invariant holds in every state of the relay. *)
THEOREM RelayInvariant == Spec => []RelayInv
<1>1. RelayConstants
  BY RelayConstants
<1>2. Init => RelayInv
  BY <1>1, RelayInvInit
<1>3. RelayInv /\ [Next]_vars => RelayInv'
  BY <1>1, RelayInvNext
<1> QED
  BY <1>2, <1>3, PTL DEF Spec

(* Every variable of the two servers and the wire stays in its type. *)
THEOREM RelayTyped == Spec => []TypeOK
<1>1. RelayInv => TypeOK
  BY DEF RelayInv
<1> QED
  BY <1>1, RelayInvariant, PTL

(* The host drops an item from its queue only after the Run home imported   *)
(* it, and the Run home never believes more acknowledged than is.           *)
THEOREM NothingAcknowledgedUnimported == Spec => []AckedIsImported
<1>1. RelayInv => AckedIsImported
  BY DEF RelayInv
<1> QED
  BY <1>1, RelayInvariant, PTL

(* The execution host settles a worker only as the Run home did. *)
THEOREM ServersAgree == Spec => []HostSettlesWithHome
<1>1. RelayInv => HostSettlesWithHome
  BY DEF RelayInv
<1> QED
  BY <1>1, RelayInvariant, PTL

-----------------------------------------------------------------------------
(* Refinement of the relay log *)

(* Importing items of the page in hand is a step of the log, or none: what  *)
(* is new continues the imports with what is queued there, or with the      *)
(* heartbeat a report has replaced since.                                   *)
LEMMA ImportRefines ==
  ASSUME RelayConstants, RelayInv, NEW n \in 0 .. Len(sync.page),
         n > 0 => sync.phase = "import",
         imported' = ImportedWith(n), UNCHANGED <<outbox, replaced>>
  PROVE  [Log!LogNext]_<<outbox, replaced, imported>>
<1> DEFINE m == Len(imported')
<1>1. /\ imported' \in Seq(Kinds) /\ imported \in Seq(Kinds)
      /\ m \in Nat /\ Len(imported) \in Nat
      /\ Len(imported) <= m /\ m <= Len(outbox)
      /\ m = IF sync.first + n <= Len(imported) THEN Len(imported) ELSE sync.first + n
      /\ \A k \in 1 .. m :
           imported'[k] = IF k <= Len(imported) THEN imported[k] ELSE sync.page[k - sync.first]
  BY ImportFacts, PageFacts
<1>2. /\ DOMAIN imported' = 1 .. m /\ imported' = [k \in 1 .. m |-> imported'[k]]
      /\ DOMAIN imported = 1 .. Len(imported)
      /\ imported = [k \in 1 .. Len(imported) |-> imported[k]]
  BY <1>1, LenProperties
<1> HIDE DEF m
<1>3. CASE m = Len(imported)
  <2>1. \A k \in 1 .. m : imported'[k] = imported[k]
    BY <1>1, <1>3
  <2>2. imported' = imported
    BY <1>2, <1>3, <2>1
  <2> QED
    BY <2>2
<1>4. CASE m # Len(imported)
  <2> DEFINE stale == {k \in replaced \cap Len(imported) + 1 .. m : imported'[k] = "heartbeat"}
  <2>1. m = sync.first + n /\ n > 0 /\ sync.phase = "import"
    BY <1>1, <1>4, PageFacts
  <2>2. ASSUME NEW k \in 1 .. m
        PROVE  imported'[k] = IF k <= Len(imported) THEN imported[k]
                              ELSE IF k \in stale THEN "heartbeat" ELSE outbox[k]
    <3>1. CASE k <= Len(imported)
      BY <1>1, <3>1
    <3>2. CASE ~(k <= Len(imported))
      <4>1. k - sync.first \in DOMAIN sync.page /\ sync.first + (k - sync.first) = k
        BY <1>1, <2>1, <3>2, PageFacts
      <4>2. \/ sync.page[k - sync.first] = outbox[k]
            \/ k \in replaced /\ sync.page[k - sync.first] = "heartbeat"
        BY <2>1, <4>1 DEF RelayInv, PageIsQueued
      <4>3. imported'[k] = sync.page[k - sync.first] /\ k \in Len(imported) + 1 .. m
        BY <1>1, <3>2
      <4> QED
        BY <3>2, <4>2, <4>3
    <3> QED
      BY <3>1, <3>2
  <2> HIDE DEF stale
  <2>3. imported' = [k \in 1 .. m |-> IF k <= Len(imported) THEN imported[k]
                                     ELSE IF k \in stale THEN "heartbeat" ELSE outbox[k]]
    BY <1>2, <2>2
  <2>4. stale \in SUBSET (replaced \cap Len(imported) + 1 .. m)
    BY DEF stale
  <2>5. Log!Apply(m)
    BY <2>3, <2>4 DEF Log!Apply
  <2>6. m \in Len(imported) + 1 .. Len(outbox)
    BY <1>1, <1>4, PageFacts
  <2> QED
    BY <2>5, <2>6 DEF Log!LogNext
<1> QED
  BY <1>3, <1>4

LEMMA StepRefines ==
  ASSUME RelayConstants, RelayInv, [Next]_vars
  PROVE  [Log!LogNext]_<<outbox, replaced, imported>>
<1>1. CASE \E kind \in Kinds : Enqueue(kind)
  BY <1>1 DEF Enqueue, homeVars, Log!LogNext, Log!Send
<1>2. CASE \E kind \in Reports, k \in DOMAIN outbox : EnqueueInPlace(kind, k)
  <2>1. PICK kind \in Kinds, k \in DOMAIN outbox :
          /\ outbox[k] = "heartbeat"
          /\ outbox' = [outbox EXCEPT ![k] = kind]
          /\ replaced' = replaced \cup {k}
          /\ imported' = imported
    BY <1>2 DEF EnqueueInPlace, homeVars, Kinds
  <2>2. Log!Supersede(k)
    BY <2>1 DEF Log!Supersede
  <2> QED
    BY <2>2 DEF Log!LogNext
<1>3. CASE ImportPage
  <2>1. /\ Len(sync.page) \in 0 .. Len(sync.page) /\ sync.phase = "import"
        /\ imported' = ImportedWith(Len(sync.page)) /\ UNCHANGED <<outbox, replaced>>
    BY <1>3, PageFacts DEF ImportPage, hostVars
  <2> QED
    BY <2>1, ImportRefines
<1>4. CASE SyncFails \/ HomeRestart
  <2>1. PICK n \in 0 .. Len(sync.page) :
          (n > 0 => sync.phase = "import") /\ imported' = ImportedWith(n)
    BY <1>4 DEF SyncFails, HomeRestart, CutShort
  <2>2. UNCHANGED <<outbox, replaced>>
    BY <1>4 DEF SyncFails, HomeRestart, CutShort, hostVars
  <2> QED
    BY <2>1, <2>2, ImportRefines
<1>5. CASE UNCHANGED vars
  BY <1>5 DEF vars, hostVars, homeVars
<1>6. CASE \E request \in wire : HostAck(request) \/ HostDiesInAck(request) \/ LoseAck(request)
  BY <1>6 DEF HostAck, HostDiesInAck, LoseAck, hostVars, homeVars
<1>7. CASE HostRestart \/ HostStop \/ BeginSync \/ Probe \/ Pull \/ RecordAck
             \/ BeginStop \/ EndStop \/ Reopen
  BY <1>7 DEF HostRestart, HostStop, BeginSync, Probe, Pull, RecordAck, BeginStop,
              EndStop, Reopen, hostVars, homeVars
<1> QED
  BY <1>1, <1>2, <1>3, <1>4, <1>5, <1>6, <1>7 DEF Next

(* The relay implements the log: what is lost, repeated or cut short on the *)
(* way, the Run home takes each queued message once and in order.           *)
THEOREM RelayImplementsLog == Spec => RelaysInOrder
<1>1. RelayConstants
  BY RelayConstants
<1>2. Init => Log!LogInit
  BY DEF Init, Log!LogInit
<1>3. RelayInv /\ [Next]_vars => [Log!LogNext]_<<outbox, replaced, imported>>
  BY <1>1, StepRefines
<1>4. [Log!LogNext]_<<outbox, replaced, imported>> <=> [Log!LogNext]_(Log!logVars)
  BY DEF Log!logVars
<1> QED
  BY <1>2, <1>3, <1>4, RelayInvariant, PTL DEF Spec, RelaysInOrder, Log!LogSpec
-----------------------------------------------------------------------------
(* Settlement: what the host is told fits, and no accepted report is lost   *)

(* What is imported is what was queued, or the heartbeat that a report has  *)
(* replaced in the queue since.                                             *)
ImportsMatch ==
  \A k \in 1 .. Len(imported) :
    \/ imported[k] = outbox[k]
    \/ k \in replaced /\ imported[k] = "heartbeat"

(* An imported report leaves no dispatch open. *)
ImportsSettle ==
  report = "open" => \A k \in 1 .. Len(imported) : imported[k] \notin Reports

(* The host stops a worker only while the Run home takes no more reports. *)
StopsTogether == attachment = "stopped" => report \in {"stopping", "stopped"}

(* A report that replaced a heartbeat is not acknowledged in its place. *)
AckedWasImported ==
  \A k \in 1 .. hostAcked : outbox[k] \in Reports => imported[k] = outbox[k]

PageIsNext == sync.phase = "import" => sync.first <= hostAcked

(* A verdict is about an imported report, and accepts the one that settled  *)
(* the dispatch.                                                            *)
Judges(request) ==
  \A k \in DOMAIN request.payload.verdicts :
    /\ k \in 1 .. Len(imported)
    /\ outbox[k] \in Reports /\ imported[k] = outbox[k]
    /\ request.payload.verdicts[k] \in {outbox[k], "rejected"}
    /\ report # "open"
    /\ report = outbox[k] /\ ~reopened => request.payload.verdicts[k] = outbox[k]

(* No report is acknowledged without a verdict, but for one that replaced   *)
(* an imported heartbeat.                                                   *)
Covers(request) ==
  \A k \in 1 .. Len(imported) :
    hostAcked < k /\ k <= request.payload.through /\ outbox[k] \in Reports =>
      \/ k \in DOMAIN request.payload.verdicts
      \/ k \in replaced /\ imported[k] = "heartbeat"

SettlementInv ==
  /\ RelayInv
  /\ ImportsMatch
  /\ ImportsSettle
  /\ StopsTogether
  /\ AckedWasImported
  /\ PageIsNext
  /\ \A request \in wire : Judges(request) /\ Covers(request)
  /\ AcceptedReportSettles

(* The counters the invariant compares are numbers in order. *)
LEMMA Counters ==
  ASSUME RelayConstants, SettlementInv
  PROVE  /\ Len(imported) \in Nat /\ Len(outbox) \in Nat /\ hostAcked \in Nat
         /\ hostAcked <= Len(imported) /\ Len(imported) <= Len(outbox)
         /\ DOMAIN outbox = 1 .. Len(outbox)
         /\ \A q \in wire : q \in Request /\ q.payload.through \in Nat
                              /\ q.payload.through <= Len(imported)
<1>1. RelayInv
  BY DEF SettlementInv
<1>2. /\ Len(imported) \in Nat /\ Len(outbox) \in Nat /\ Len(imported) <= Len(outbox)
  BY <1>1, PageFacts
<1>3. outbox \in Seq(Kinds) /\ hostAcked \in Nat /\ hostAcked <= Len(imported)
  BY <1>1 DEF RelayInv, TypeOK, AckedIsImported, RelayConstants
<1>4. \A q \in wire : q \in Request /\ q.payload.through \in Nat
                        /\ q.payload.through <= Len(imported)
  BY <1>1, RequestFields DEF RelayInv, TypeOK, Honest, RelayConstants
<1> QED
  BY <1>2, <1>3, <1>4, LenProperties

LEMMA EnqueueSettles ==
  ASSUME RelayConstants, SettlementInv, RelayInv', NEW kind \in Kinds, Enqueue(kind)
  PROVE  SettlementInv'
<1> USE DEF hostVars, homeVars
<1>1. \A k \in 1 .. Len(outbox) : outbox'[k] = outbox[k]
  BY AppendProperties DEF Enqueue, SettlementInv, RelayInv, TypeOK
<1>2. \A k \in 1 .. Len(imported) : outbox'[k] = outbox[k]
  BY <1>1, Counters
<1>3. \A k \in 1 .. hostAcked : outbox'[k] = outbox[k]
  BY <1>1, Counters
<1>4. UNCHANGED <<replaced, hostAcked, attachment, wire, imported, report, reopened, sync>>
  BY DEF Enqueue
<1>5. ImportsMatch' /\ ImportsSettle' /\ StopsTogether' /\ PageIsNext'
  BY <1>2, <1>4 DEF SettlementInv, ImportsMatch, ImportsSettle, StopsTogether, PageIsNext
<1>6. AckedWasImported'
  BY <1>3, <1>4 DEF SettlementInv, AckedWasImported
<1>7. \A q \in wire' : Judges(q)' /\ Covers(q)'
  BY <1>2, <1>4 DEF SettlementInv, Judges, Covers
<1>8. AcceptedReportSettles'
  <2>1. DOMAIN outbox' = 1 .. Len(outbox') /\ Len(outbox') \in Nat
    BY LenProperties DEF RelayInv, TypeOK
  <2>2. \A k \in DOMAIN outbox' : k <= hostAcked => k \in DOMAIN outbox /\ outbox'[k] = outbox[k]
    BY <1>3, <2>1, Counters
  <2> QED
    BY <1>4, <2>2 DEF SettlementInv, AcceptedReportSettles
<1> QED
  BY <1>5, <1>6, <1>7, <1>8 DEF SettlementInv

LEMMA EnqueueInPlaceSettles ==
  ASSUME RelayConstants, SettlementInv, RelayInv', NEW kind \in Reports, NEW k \in DOMAIN outbox,
         EnqueueInPlace(kind, k)
  PROVE  SettlementInv'
<1> USE DEF hostVars, homeVars
<1>1. /\ outbox' = [outbox EXCEPT ![k] = kind] /\ replaced' = replaced \cup {k}
      /\ outbox[k] = "heartbeat" /\ k \in Unacked
      /\ UNCHANGED <<hostAcked, attachment, wire, imported, report, reopened, sync>>
  BY DEF EnqueueInPlace
<1>2. /\ DOMAIN outbox' = DOMAIN outbox /\ outbox'[k] = kind
      /\ \A j \in DOMAIN outbox : j # k => outbox'[j] = outbox[j]
      /\ hostAcked < k
  BY <1>1, Counters DEF Unacked
<1>3. \A j \in 1 .. Len(imported) : j \in DOMAIN outbox
  BY Counters
<1>4. \A j \in 1 .. hostAcked : j \in DOMAIN outbox /\ j # k
  BY <1>2, Counters
<1>5. k \in 1 .. Len(imported) => imported[k] = "heartbeat"
  BY <1>1 DEF SettlementInv, ImportsMatch
<1>6. ImportsMatch' /\ ImportsSettle' /\ StopsTogether' /\ PageIsNext'
  BY <1>1, <1>2, <1>3, <1>5
     DEF SettlementInv, ImportsMatch, ImportsSettle, StopsTogether, PageIsNext
<1>7. AckedWasImported'
  BY <1>1, <1>2, <1>4 DEF SettlementInv, AckedWasImported
<1>8. ASSUME NEW q \in wire
      PROVE  Judges(q)' /\ Covers(q)'
  <2>1. Judges(q) /\ Covers(q)
    BY DEF SettlementInv
  <2>2. k \notin DOMAIN q.payload.verdicts
    BY <1>1, <2>1 DEF Judges, Reports
  <2>3. Judges(q)'
    BY <1>1, <1>2, <1>3, <2>1, <2>2 DEF Judges
  <2>4. Covers(q)'
    BY <1>1, <1>2, <1>3, <1>5, <2>1 DEF Covers
  <2> QED
    BY <2>3, <2>4
<1>9. AcceptedReportSettles'
  BY <1>1, <1>2, Counters DEF SettlementInv, AcceptedReportSettles
<1> QED
  BY <1>1, <1>6, <1>7, <1>8, <1>9 DEF SettlementInv

(* A step that changes neither the items nor the report and makes no        *)
(* request: only what it settles and acknowledges has to be shown.          *)
LEMMA QuietSettles ==
  ASSUME RelayConstants, SettlementInv, RelayInv',
         wire' \subseteq wire,
         UNCHANGED <<outbox, replaced, imported, report, reopened>>,
         hostAcked <= hostAcked',
         sync'.phase = "import" => sync.phase = "import" /\ sync'.first = sync.first,
         StopsTogether', AckedWasImported', AcceptedReportSettles'
  PROVE  SettlementInv'
<1>1. hostAcked' \in Nat
  BY DEF RelayInv, TypeOK, RelayConstants
<1>2. ImportsMatch' /\ ImportsSettle'
  BY DEF SettlementInv, ImportsMatch, ImportsSettle
<1>3. PageIsNext'
  <2>1. sync.first \in Nat
    BY SyncFields DEF SettlementInv, RelayInv, RelayConstants
  <2> QED
    BY <1>1, <2>1, Counters DEF SettlementInv, PageIsNext
<1>4. ASSUME NEW q \in wire
      PROVE  Judges(q)' /\ Covers(q)'
  <2>1. Judges(q) /\ Covers(q)
    BY DEF SettlementInv
  <2>2. \A k \in 1 .. Len(imported) : hostAcked' < k => hostAcked < k
    BY <1>1, Counters
  <2> QED
    BY <2>1, <2>2 DEF Judges, Covers
<1> QED
  BY <1>2, <1>3, <1>4 DEF SettlementInv

(* An acknowledgement that fits leaves no accepted report unsettled. *)
LEMMA AcknowledgeSettles ==
  ASSUME RelayConstants, SettlementInv, NEW request \in wire,
         Fits(request.payload), Acknowledge(request.payload),
         UNCHANGED <<outbox, imported, report, reopened>>
  PROVE  StopsTogether' /\ AckedWasImported' /\ AcceptedReportSettles'
<1> DEFINE payload == request.payload
<1>1. /\ Judges(request) /\ Honest(request) /\ payload.through \in Nat
      /\ hostAcked' \in Nat /\ hostAcked' <= Len(imported)
      /\ attachment' # attachment => attachment' = report
  BY Counters, AcknowledgeFacts DEF SettlementInv, RelayInv, RelayConstants
<1>2. ASSUME NEW k \in DOMAIN outbox, hostAcked < k, k <= hostAcked', outbox[k] \in Reports
      PROVE  k \in Judged(payload)
  <2>1. k <= payload.through /\ k \in Unacked
    BY <1>1, <1>2, Counters DEF Acknowledge, Max2, Unacked
  <2> QED
    BY <1>2, <2>1 DEF Fits
<1>3. \A k \in 1 .. hostAcked' : k \in DOMAIN outbox
  BY <1>1, Counters
<1>4. StopsTogether'
  BY <1>1 DEF SettlementInv, StopsTogether
<1>5. AckedWasImported'
  <2> SUFFICES ASSUME NEW k \in 1 .. hostAcked', outbox[k] \in Reports
               PROVE  imported[k] = outbox[k]
    BY DEF AckedWasImported
  <2>1. CASE k <= hostAcked
    BY <1>1, <2>1, Counters DEF SettlementInv, AckedWasImported
  <2>2. CASE ~(k <= hostAcked)
    <3>1. hostAcked < k
      BY <1>1, <2>2, Counters
    <3>2. k \in Judged(payload)
      BY <1>1, <1>2, <1>3, <3>1
    <3> QED
      BY <1>1, <3>2 DEF Judges, Judged
  <2> QED
    BY <2>1, <2>2
<1>6. AcceptedReportSettles'
  <2> SUFFICES ASSUME report \in Reports, ~reopened, NEW k \in DOMAIN outbox,
                      k <= hostAcked', outbox[k] = report
               PROVE  attachment' = report
    BY DEF AcceptedReportSettles
  <2>1. CASE k <= hostAcked
    BY <1>1, <2>1 DEF SettlementInv, AcceptedReportSettles
  <2>2. CASE ~(k <= hostAcked)
    <3>1. k \in Judged(payload)
      BY <1>2, <2>2, Counters
    <3>2. payload.verdicts[k] = report
      BY <1>1, <3>1 DEF Judges, Judged
    <3>3. report \in Accepted(payload)
      BY <3>1, <3>2 DEF Accepted
    <3>4. \A r \in Reports : r \in Accepted(payload) => r = report
      BY <1>1 DEF Honest, Accepted, Judged
    <3>5. attachment' = CHOOSE r \in Reports : r \in Accepted(payload)
      BY <3>3 DEF Acknowledge
    <3> HIDE DEF payload
    <3>6. (CHOOSE r \in Reports : r \in Accepted(payload)) = report
      BY <3>3, <3>4
    <3> QED
      BY <3>5, <3>6
  <2> QED
    BY <2>1, <2>2
<1> QED
  BY <1>4, <1>5, <1>6

(* Nothing is acknowledged and the attachment stays. *)
LEMMA NothingSettles ==
  ASSUME SettlementInv,
         UNCHANGED <<outbox, imported, report, reopened, hostAcked, attachment>>
  PROVE  StopsTogether' /\ AckedWasImported' /\ AcceptedReportSettles'
BY DEF SettlementInv, StopsTogether, AckedWasImported, AcceptedReportSettles

LEMMA HostSettles ==
  ASSUME RelayConstants, SettlementInv, RelayInv',
         \/ \E request \in wire : HostAck(request) \/ HostDiesInAck(request) \/ LoseAck(request)
         \/ HostRestart \/ HostStop
  PROVE  SettlementInv'
<1> USE DEF hostVars, homeVars
<1>0. hostAcked \in Nat
  BY Counters
<1>1. ASSUME NEW request \in wire, HostAck(request)
      PROVE  SettlementInv'
  <2>1. /\ wire' \subseteq wire /\ UNCHANGED <<outbox, replaced, imported, report, reopened>>
        /\ sync'.phase = sync.phase /\ sync'.first = sync.first
    BY <1>1 DEF HostAck, Answer, SettlementInv, RelayInv, TypeOK
  <2>2. hostAcked <= hostAcked' /\ StopsTogether' /\ AckedWasImported' /\ AcceptedReportSettles'
    <3>1. CASE Fresh(request) /\ Fits(request.payload)
      BY <1>1, <2>1, <3>1, AcknowledgeFacts, AcknowledgeSettles DEF HostAck, SettlementInv
    <3>2. CASE ~(Fresh(request) /\ Fits(request.payload))
      BY <1>0, <1>1, <2>1, <3>2, NothingSettles DEF HostAck
    <3> QED
      BY <3>1, <3>2
  <2> QED
    BY <2>1, <2>2, QuietSettles
<1>2. ASSUME NEW request \in wire, HostDiesInAck(request)
      PROVE  SettlementInv'
  <2>1. /\ wire' \subseteq wire /\ UNCHANGED <<outbox, replaced, imported, report, reopened, sync>>
    BY <1>2 DEF HostDiesInAck
  <2>2. hostAcked <= hostAcked' /\ StopsTogether' /\ AckedWasImported' /\ AcceptedReportSettles'
    <3>1. CASE Acknowledge(request.payload)
      BY <1>2, <2>1, <3>1, AcknowledgeFacts, AcknowledgeSettles DEF HostDiesInAck, SettlementInv
    <3>2. CASE UNCHANGED <<hostAcked, attachment>>
      BY <1>0, <2>1, <3>2, NothingSettles
    <3> QED
      BY <1>2, <3>1, <3>2 DEF HostDiesInAck
  <2> QED
    BY <2>1, <2>2, QuietSettles
<1>3. ASSUME HostRestart \/ \E request \in wire : LoseAck(request)
      PROVE  SettlementInv'
  <2>1. /\ wire' \subseteq wire
        /\ UNCHANGED <<outbox, replaced, imported, report, reopened, sync, hostAcked, attachment>>
    BY <1>3 DEF HostRestart, LoseAck
  <2> QED
    BY <1>0, <2>1, NothingSettles, QuietSettles
<1>4. ASSUME HostStop
      PROVE  SettlementInv'
  <2>1. /\ report = "stopping" /\ attachment' = "stopped" /\ wire' = wire
        /\ UNCHANGED <<outbox, replaced, imported, report, reopened, sync, hostAcked>>
    BY <1>4 DEF HostStop
  <2>2. StopsTogether' /\ AckedWasImported' /\ AcceptedReportSettles'
    BY <2>1 DEF SettlementInv, StopsTogether, AckedWasImported, AcceptedReportSettles, Reports
  <2> QED
    BY <1>0, <2>1, <2>2, QuietSettles
<1> QED
  BY <1>1, <1>2, <1>3, <1>4

LEMMA PollSettles ==
  ASSUME RelayConstants, SettlementInv, RelayInv', BeginSync \/ Probe \/ RecordAck
  PROVE  SettlementInv'
<1>1. /\ UNCHANGED <<hostVars, wire, imported, report, reopened>>
      /\ sync'.phase # "import"
  <2>1. CASE BeginSync
    <3>1. sync'.phase \in {"probe", "pull"}
      BY <2>1 DEF BeginSync, Page, Idle
    <3> QED
      BY <2>1, <3>1 DEF BeginSync
  <2>2. CASE Probe
    BY <2>2 DEF Probe, SettlementInv, RelayInv, TypeOK
  <2>3. CASE RecordAck
    <3>1. NoPage(sync')
      BY <2>3, FinishPageFacts DEF RecordAck, SettlementInv
    <3> QED
      BY <2>3, <3>1 DEF RecordAck, NoPage
  <2> QED
    BY <2>1, <2>2, <2>3
<1>2. UNCHANGED <<outbox, replaced, hostAcked, attachment>> /\ hostAcked <= hostAcked'
  BY <1>1, Counters DEF hostVars
<1> QED
  BY <1>1, <1>2, NothingSettles, QuietSettles

LEMMA PullSettles ==
  ASSUME RelayConstants, SettlementInv, RelayInv', Pull
  PROVE  SettlementInv'
<1>1. UNCHANGED <<outbox, replaced, hostAcked, attachment, wire, imported, report, reopened>>
  BY DEF Pull, hostVars
<1>2. sync'.first = IF Unacked = {} THEN Len(imported) ELSE hostAcked
  BY DEF Pull, SettlementInv, RelayInv, TypeOK
<1>3. PageIsNext'
  <2>1. CASE Unacked = {}
    <3>1. ~(hostAcked + 1 <= Len(outbox))
      BY <2>1, Counters DEF Unacked
    <3> QED
      BY <1>1, <1>2, <2>1, <3>1, Counters DEF PageIsNext
  <2>2. CASE Unacked # {}
    BY <1>1, <1>2, <2>2, Counters DEF PageIsNext
  <2> QED
    BY <2>1, <2>2
<1>4. ImportsMatch' /\ ImportsSettle' /\ \A q \in wire' : Judges(q)' /\ Covers(q)'
  BY <1>1 DEF SettlementInv, ImportsMatch, ImportsSettle, Judges, Covers
<1> QED
  BY <1>1, <1>3, <1>4, NothingSettles DEF SettlementInv

LEMMA HomeRecordSettles ==
  ASSUME RelayConstants, SettlementInv, RelayInv', BeginStop \/ EndStop \/ Reopen
  PROVE  SettlementInv'
<1>1. /\ UNCHANGED <<outbox, replaced, hostAcked, attachment, wire, imported, sync>>
      /\ report' # "open" \/ report' = report
      /\ report' \in Reports => report' = report
      /\ report \in {"stopping", "stopped"} => report' \in {"stopping", "stopped"}
      /\ reopened => reopened'
      /\ report # "open" => report' # "open"
  BY DEF BeginStop, EndStop, Reopen, hostVars, Reports
<1>2. ImportsMatch' /\ ImportsSettle' /\ StopsTogether' /\ AckedWasImported' /\ PageIsNext'
  BY <1>1 DEF SettlementInv, ImportsMatch, ImportsSettle, StopsTogether, AckedWasImported,
              PageIsNext
<1>3. ASSUME NEW q \in wire
      PROVE  Judges(q)' /\ Covers(q)'
  <2>1. Judges(q) /\ Covers(q)
    BY DEF SettlementInv
  <2> QED
    BY <1>1, <2>1 DEF Judges, Covers
<1>4. AcceptedReportSettles'
  BY <1>1 DEF SettlementInv, AcceptedReportSettles
<1> QED
  BY <1>1, <1>2, <1>3, <1>4 DEF SettlementInv

(* How an import settles the dispatch. *)
LEMMA ReportFacts ==
  ASSUME RelayConstants, RelayInv, NEW n \in 0 .. Len(sync.page)
  PROVE  /\ report # "open" => ReportWith(n) = report
         /\ ReportWith(n) = "open" => PageReports \cap 1 .. n = {}
         /\ ReportWith(n) # report => ReportWith(n) \in Reports /\ report = "open"
<1>1. CASE report = "open" /\ PageReports \cap 1 .. n # {}
  <2> DEFINE k == CHOOSE k \in PageReports \cap 1 .. n :
                    \A j \in PageReports \cap 1 .. n : k <= j
  <2>1. ReportWith(n) = sync.page[k]
    BY <1>1 DEF ReportWith
  <2>2. sync.page[k] \in Reports
    <3>1. n \in Nat
      BY PageFacts
    <3> QED
      BY <1>1, <3>1, FirstReport
  <2> QED
    BY <1>1, <2>1, <2>2 DEF Reports
<1>2. CASE ~(report = "open" /\ PageReports \cap 1 .. n # {})
  BY <1>2 DEF ReportWith
<1> QED
  BY <1>1, <1>2

(* After the import of the first n items of the page, they are where the    *)
(* page has them, and the queue agrees but for replaced heartbeats.         *)
LEMMA ImportedItems ==
  ASSUME RelayConstants, RelayInv, NEW n \in 0 .. Len(sync.page),
         Importable(n), n > 0 => sync.phase = "import",
         NEW j \in 1 .. n
  PROVE  /\ sync.first + j \in 1 .. Len(ImportedWith(n))
         /\ ImportedWith(n)[sync.first + j] = sync.page[j]
         /\ \/ sync.page[j] = outbox[sync.first + j]
            \/ sync.first + j \in replaced /\ sync.page[j] = "heartbeat"
<1>1. /\ sync.first \in Nat /\ n \in Nat /\ j \in Nat /\ j \in DOMAIN sync.page
      /\ Len(imported) \in Nat /\ n > 0
  BY PageFacts
<1>2. sync.first + j \in 1 .. Len(ImportedWith(n))
  BY <1>1, ImportFacts
<1>3. ImportedWith(n)[sync.first + j] = sync.page[j]
  <2>1. CASE sync.first + j <= Len(imported)
    BY <1>2, <2>1, ImportFacts DEF Importable
  <2>2. CASE ~(sync.first + j <= Len(imported))
    <3>1. PICK k \in 1 .. Len(ImportedWith(n)) : k = sync.first + j
      BY <1>2
    <3>2. ImportedWith(n)[k] = sync.page[k - sync.first]
      BY <2>2, <3>1, ImportFacts
    <3>3. k - sync.first = j
      BY <1>1, <3>1
    <3> QED
      BY <3>1, <3>2, <3>3
  <2> QED
    BY <2>1, <2>2
<1> QED
  BY <1>1, <1>2, <1>3 DEF RelayInv, PageIsQueued

LEMMA GrowingSettles ==
  ASSUME RelayConstants, SettlementInv, NEW n \in 0 .. Len(sync.page),
         Importable(n), n > 0 => sync.phase = "import",
         imported' = ImportedWith(n), report' = ReportWith(n),
         UNCHANGED <<hostVars, reopened>>
  PROVE  /\ ImportsMatch' /\ ImportsSettle' /\ StopsTogether'
         /\ AckedWasImported' /\ AcceptedReportSettles'
         /\ \A q \in wire : Judges(q)' /\ Covers(q)'
<1>0. RelayInv /\ UNCHANGED <<outbox, replaced, hostAcked, attachment, reopened>>
  BY DEF SettlementInv, hostVars
<1>1. /\ Len(imported') \in Nat /\ Len(imported) \in Nat /\ Len(imported) <= Len(imported')
      /\ \A k \in 1 .. Len(imported) : imported'[k] = imported[k] /\ k \in 1 .. Len(imported')
  BY <1>0, ImportFacts, PageFacts
<1>2. /\ report # "open" => report' = report
      /\ report' = "open" => PageReports \cap 1 .. n = {}
      /\ report' # report => report' \in Reports /\ report = "open"
  BY <1>0, ReportFacts
<1>3. ASSUME NEW k \in 1 .. Len(imported'), k \notin 1 .. Len(imported)
      PROVE  \E j \in 1 .. n : /\ k = sync.first + j /\ imported'[k] = sync.page[j]
                               /\ \/ imported'[k] = outbox[k]
                                  \/ k \in replaced /\ imported'[k] = "heartbeat"
  <2> DEFINE j == k - sync.first
  <2>1. j \in 1 .. n /\ k = sync.first + j
    <3>1. Len(imported') = IF sync.first + n <= Len(imported) THEN Len(imported) ELSE sync.first + n
      BY <1>0, ImportFacts
    <3>2. sync.first \in Nat /\ sync.first <= Len(imported) /\ n \in Nat
      BY <1>0, PageFacts
    <3> QED
      BY <1>1, <1>3, <3>1, <3>2
  <2> HIDE DEF j
  <2>2. /\ imported'[k] = sync.page[j]
        /\ \/ sync.page[j] = outbox[k]
           \/ k \in replaced /\ sync.page[j] = "heartbeat"
    BY <1>0, <2>1, ImportedItems
  <2> QED
    BY <2>1, <2>2
<1>4. ImportsMatch'
  BY <1>0, <1>1, <1>3 DEF SettlementInv, ImportsMatch
<1>5. ImportsSettle'
  <2> SUFFICES ASSUME report' = "open", NEW k \in 1 .. Len(imported')
               PROVE  imported'[k] \notin Reports
    BY DEF ImportsSettle
  <2>1. CASE k \in 1 .. Len(imported)
    BY <1>1, <1>2, <2>1 DEF SettlementInv, ImportsSettle
  <2>2. CASE k \notin 1 .. Len(imported)
    <3>1. PICK j \in 1 .. n : imported'[k] = sync.page[j]
      BY <1>3, <2>2
    <3>2. j \in DOMAIN sync.page
      BY <1>0, PageFacts
    <3> QED
      BY <1>2, <3>1, <3>2 DEF PageReports
  <2> QED
    BY <2>1, <2>2
<1>6. StopsTogether'
  BY <1>0, <1>2 DEF SettlementInv, StopsTogether
<1>7. \A k \in 1 .. hostAcked : k \in 1 .. Len(imported)
  BY Counters
<1>8. AckedWasImported'
  BY <1>0, <1>1, <1>7 DEF SettlementInv, AckedWasImported
<1>9. AcceptedReportSettles'
  <2>1. CASE report' = report
    BY <1>0, <2>1 DEF SettlementInv, AcceptedReportSettles
  <2>2. CASE report' # report
    <3>1. \A k \in 1 .. hostAcked : outbox[k] \notin Reports
      BY <1>2, <1>7, <2>2 DEF SettlementInv, ImportsSettle, AckedWasImported
    <3>2. \A k \in DOMAIN outbox : k <= hostAcked => k \in 1 .. hostAcked
      BY Counters
    <3> QED
      BY <1>0, <1>2, <2>2, <3>1, <3>2 DEF AcceptedReportSettles
  <2> QED
    BY <2>1, <2>2
<1>10. ASSUME NEW q \in wire
       PROVE  Judges(q)' /\ Covers(q)'
  <2>1. Judges(q) /\ Covers(q)
    BY DEF SettlementInv
  <2>2. Judges(q)'
    BY <1>0, <1>1, <1>2, <2>1 DEF Judges
  <2>3. \A k \in 1 .. Len(imported') : k <= q.payload.through => k \in 1 .. Len(imported)
    BY <1>1, Counters
  <2>4. Covers(q)'
    BY <1>0, <1>1, <2>1, <2>3 DEF Covers
  <2> QED
    BY <2>2, <2>4
<1> QED
  BY <1>4, <1>5, <1>6, <1>8, <1>9, <1>10

(* The page below a report that may not be acknowledged is acknowledged. *)
LEMMA ThroughFacts ==
  ASSUME RelayConstants, RelayInv
  PROVE  /\ Through <= sync.first + Len(sync.page)
         /\ ~Current => \A j \in PageReports : Through < sync.first + j
<1>1. CASE Barred
  <2>1. \E k \in PageReports : \A j \in PageReports : k <= j
    <3>1. PageReports \in SUBSET Nat /\ PageReports # {}
      BY <1>1, PageFacts DEF PageReports, Barred
    <3> QED
      BY <3>1, Least
  <2>2. PICK k \in PageReports : Through = sync.first + (k - 1) /\ \A j \in PageReports : k <= j
    <3> DEFINE k == CHOOSE k \in PageReports : \A j \in PageReports : k <= j
    <3>1. k \in PageReports /\ \A j \in PageReports : k <= j
      BY <2>1
    <3>2. Through = sync.first + (k - 1)
      BY <1>1 DEF Through
    <3> QED
      BY <3>1, <3>2
  <2>3. \A j \in PageReports : j \in 1 .. Len(sync.page)
    BY PageFacts DEF PageReports
  <2> QED
    BY <2>2, <2>3, PageFacts
<1>2. CASE ~Barred
  <2>1. Through = sync.first + Len(sync.page) /\ Through <= sync.first + Len(sync.page)
    BY <1>2, PageFacts DEF Through
  <2> QED
    BY <1>2, <2>1 DEF Barred
<1> QED
  BY <1>1, <1>2

(* The acknowledgement of an imported page judges and covers its reports. *)
LEMMA AckRequestSettles ==
  ASSUME RelayConstants, SettlementInv, RelayInv', ImportPage,
         NEW request, request = AckRequest(report')
  PROVE  Judges(request)' /\ Covers(request)'
<1> DEFINE n == Len(sync.page)
           V == request.payload.verdicts
           S == {sync.first + k : k \in PageReports}
<1>0. /\ RelayInv /\ n \in 0 .. Len(sync.page) /\ Importable(n) /\ sync.phase = "import"
      /\ imported' = ImportedWith(n) /\ report' = ReportWith(n)
      /\ UNCHANGED <<outbox, replaced, hostAcked, reopened>>
  BY PageFacts DEF SettlementInv, ImportPage, hostVars
<1>1. /\ sync.first \in Nat /\ n \in Nat /\ sync.first <= hostAcked /\ hostAcked \in Nat
      /\ \A j \in PageReports : j \in 1 .. n /\ sync.page[j] \in Reports
      /\ \A j \in 1 .. n : sync.page[j] \in Reports => j \in PageReports
  BY <1>0, PageFacts, Counters DEF SettlementInv, PageIsNext, PageReports
<1>2. ASSUME NEW j \in 1 .. n
      PROVE  /\ sync.first + j \in 1 .. Len(imported')
             /\ imported'[sync.first + j] = sync.page[j]
             /\ \/ sync.page[j] = outbox[sync.first + j]
                \/ sync.first + j \in replaced /\ sync.page[j] = "heartbeat"
  BY <1>0, ImportedItems
<1>3. /\ request.payload.through = Through
      /\ V = IF Current THEN VerdictsWith(report') ELSE NoVerdicts
  BY DEF AckRequest
<1>4. Judges(request)'
  <2> SUFFICES ASSUME NEW k \in DOMAIN V
               PROVE  /\ k \in 1 .. Len(imported')
                      /\ outbox[k] \in Reports /\ imported'[k] = outbox[k]
                      /\ V[k] \in {outbox[k], "rejected"}
                      /\ report' # "open"
                      /\ report' = outbox[k] /\ ~reopened => V[k] = outbox[k]
    BY <1>0 DEF Judges
  <2>1. Current /\ V = VerdictsWith(report')
    BY <1>3 DEF NoVerdicts
  <2>2. /\ k \in S
        /\ V[k] = IF sync.page[k - sync.first] = report' /\ ~reopened
                  THEN report' ELSE "rejected"
    BY <2>1 DEF VerdictsWith
  <2>3. PICK j \in PageReports : k = sync.first + j
    BY <2>2
  <2>4. k - sync.first = j /\ j \in 1 .. n /\ sync.page[j] \in Reports
    BY <1>1, <2>3
  <2>5. sync.page[j] = outbox[k] /\ imported'[k] = outbox[k] /\ k \in 1 .. Len(imported')
    BY <1>2, <2>3, <2>4 DEF Reports
  <2>6. report' # "open"
    BY <1>0, <2>3, <2>4, ReportFacts
  <2> HIDE DEF V, S
  <2> QED
    BY <2>2, <2>4, <2>5, <2>6
<1>5. Covers(request)'
  <2> SUFFICES ASSUME NEW k \in 1 .. Len(imported'), hostAcked < k, k <= Through,
                      outbox[k] \in Reports
               PROVE  k \in DOMAIN V \/ (k \in replaced /\ imported'[k] = "heartbeat")
    BY <1>0, <1>3 DEF Covers
  <2> DEFINE j == k - sync.first
  <2>1. j \in 1 .. n /\ k = sync.first + j
    <3>1. Through <= sync.first + n /\ Through \in Int
      BY <1>0, <1>1, ThroughFacts, AckRequestFacts, ImportFacts, RequestFields, <1>3
    <3>2. k \in Nat
      BY <1>0, ImportFacts
    <3> QED
      BY <1>1, <3>1, <3>2
  <2> HIDE DEF j
  <2>2. CASE sync.page[j] = outbox[k]
    <3>1. j \in PageReports
      BY <1>1, <2>1, <2>2
    <3>2. Current
      <4>1. ~Current => Through < sync.first + j
        BY <1>0, <3>1, ThroughFacts
      <4>2. Through \in Int /\ k \in Int
        BY <1>0, <2>1, AckRequestFacts, ImportFacts, RequestFields, <1>3, <1>1
      <4> QED
        BY <2>1, <4>1, <4>2
    <3>3. k \in S
      BY <2>1, <3>1
    <3>4. DOMAIN V = S
      BY <1>3, <3>2 DEF VerdictsWith
    <3> HIDE DEF V, S
    <3> QED
      BY <3>3, <3>4
  <2>3. CASE k \in replaced /\ sync.page[j] = "heartbeat"
    BY <1>2, <2>1, <2>3
  <2> QED
    BY <1>2, <2>1, <2>2, <2>3
<1> QED
  BY <1>4, <1>5

LEMMA ImportPageSettles ==
  ASSUME RelayConstants, SettlementInv, RelayInv', ImportPage
  PROVE  SettlementInv'
<1> DEFINE n == Len(sync.page)
<1>1. /\ RelayInv /\ n \in 0 .. Len(sync.page) /\ Importable(n) /\ sync.phase = "import"
      /\ imported' = ImportedWith(n) /\ report' = ReportWith(n)
      /\ UNCHANGED <<hostVars, reopened>>
  BY PageFacts DEF SettlementInv, ImportPage
<1> HIDE DEF n
<1>2. /\ ImportsMatch' /\ ImportsSettle' /\ StopsTogether'
      /\ AckedWasImported' /\ AcceptedReportSettles'
      /\ \A q \in wire : Judges(q)' /\ Covers(q)'
  BY <1>1, GrowingSettles
<1>3. sync'.phase # "import" /\ \A q \in wire' : q \in wire \/ q = AckRequest(report')
  <2>1. CASE Through > AckedBefore
    <3>1. /\ wire' = wire \cup {AckRequest(report')}
          /\ sync' = [sync EXCEPT !.phase = "ack", !.request = AckRequest(report')]
      BY <2>1 DEF ImportPage
    <3>2. sync'.phase = "ack"
      BY <1>1, <3>1 DEF RelayInv, TypeOK
    <3> QED
      BY <3>1, <3>2
  <2>2. CASE ~(Through > AckedBefore)
    BY <1>1, <2>2, FinishPageFacts DEF ImportPage, NoPage
  <2> QED
    BY <2>1, <2>2
<1>4. \A q \in wire' : Judges(q)' /\ Covers(q)'
  BY <1>2, <1>3, AckRequestSettles
<1> QED
  BY <1>2, <1>3, <1>4 DEF SettlementInv, PageIsNext

LEMMA CutShortSettles ==
  ASSUME RelayConstants, SettlementInv, RelayInv', CutShort
  PROVE  SettlementInv'
<1>1. PICK n \in 0 .. Len(sync.page) :
        /\ n > 0 => sync.phase = "import"
        /\ Importable(n) /\ imported' = ImportedWith(n) /\ report' = ReportWith(n)
  BY DEF CutShort
<1>2. UNCHANGED <<hostVars, wire, reopened>> /\ sync'.phase # "import"
  BY DEF CutShort, Idle
<1>3. /\ ImportsMatch' /\ ImportsSettle' /\ StopsTogether'
      /\ AckedWasImported' /\ AcceptedReportSettles'
      /\ \A q \in wire : Judges(q)' /\ Covers(q)'
  BY <1>1, <1>2, GrowingSettles
<1> QED
  BY <1>2, <1>3 DEF SettlementInv, PageIsNext

LEMMA SettlementNext ==
  ASSUME SettlementInv, [Next]_vars
  PROVE  SettlementInv'
<1>0. RelayConstants /\ RelayInv'
  BY RelayConstants, RelayInvNext DEF SettlementInv
<1>1. CASE UNCHANGED vars
  <2>1. UNCHANGED <<outbox, replaced, hostAcked, attachment, wire, imported, report, reopened, sync>>
    BY <1>1 DEF vars, hostVars, homeVars
  <2>2. hostAcked <= hostAcked'
    BY <1>0, <2>1, Counters
  <2> QED
    BY <1>0, <2>1, <2>2, NothingSettles, QuietSettles
<1>2. CASE Next
  BY <1>0, <1>2, EnqueueSettles, EnqueueInPlaceSettles, HostSettles, PollSettles, PullSettles,
     ImportPageSettles, CutShortSettles, HomeRecordSettles DEF Next, SyncFails, HomeRestart
<1> QED
  BY <1>1, <1>2

LEMMA SettlementInit == Init => SettlementInv
<1> SUFFICES ASSUME Init
             PROVE  SettlementInv
  OBVIOUS
<1>1. RelayInv
  BY RelayConstants, RelayInvInit
<1>2. Len(imported) = 0 /\ hostAcked = 0 /\ outbox = <<>> /\ DOMAIN outbox = {}
  BY EmptySeq DEF Init
<1>3. attachment = "ready" /\ wire = {} /\ sync.phase = "idle" /\ report = "open"
  BY DEF Init, Idle
<1> QED
  BY <1>1, <1>2, <1>3 DEF SettlementInv, ImportsMatch, ImportsSettle, StopsTogether,
     AckedWasImported, PageIsNext, AcceptedReportSettles, Reports

(* The invariant of the settlement holds in every state of the relay. *)
THEOREM SettlementInvariant == Spec => []SettlementInv
BY SettlementInit, SettlementNext, PTL DEF Spec

(* No acknowledgement takes an accepted report off the host's queue without *)
(* settling the attachment.                                                 *)
THEOREM AcceptedReportsSettle == Spec => []AcceptedReportSettles
<1>1. SettlementInv => AcceptedReportSettles
  BY DEF SettlementInv
<1> QED
  BY <1>1, SettlementInvariant, PTL

(* The host can take every acknowledgement it is sent, unless a report took *)
(* the place of a heartbeat the Run home had imported.                      *)
THEOREM AcknowledgementsFit == Spec => []AcksFit
<1>1. ASSUME SettlementInv, ~Overtaken, NEW request \in wire
      PROVE  Fits(request.payload)
  <2> DEFINE payload == request.payload
  <2>1. /\ Judges(request) /\ Covers(request) /\ Honest(request)
        /\ TypeOK /\ HostSettlesWithHome /\ StopsTogether
        /\ payload.through \in Nat /\ payload.through <= Len(imported)
    BY <1>1, RelayConstants, Counters DEF SettlementInv, RelayInv
  <2>2. \A k \in 1 .. Len(imported) : k \in DOMAIN outbox
    BY <1>1, RelayConstants, Counters
  <2>3. ASSUME NEW k \in Judged(payload)
        PROVE  /\ k \in DOMAIN outbox
               /\ outbox[k] \in Reports
               /\ payload.verdicts[k] \in {outbox[k], "rejected"}
    BY <2>1, <2>2 DEF Judges, Judged
  <2>4. ASSUME NEW k \in Unacked, k <= payload.through, outbox[k] \in Reports
        PROVE  k \in Judged(payload)
    <3>1. k \in 1 .. Len(imported) /\ hostAcked < k
      BY <1>1, <2>1, <2>4, RelayConstants, Counters DEF Unacked
    <3>2. ~(k \in replaced /\ imported[k] = "heartbeat")
      BY <1>1, <3>1 DEF Overtaken
    <3> QED
      BY <2>1, <2>4, <3>1, <3>2 DEF Covers, Judged
  <2>5. \A r \in Accepted(payload) : r \in Reports /\ report = r
    BY <2>1 DEF Accepted, Judged, Honest
  <2>6. ASSUME NEW r \in Accepted(payload)
        PROVE  Accepted(payload) = {r} /\ attachment \in {"ready", r}
    <3>1. attachment \in Reports => attachment = r
      BY <2>1, <2>5 DEF HostSettlesWithHome
    <3>2. attachment # "stopped"
      BY <2>1, <2>5 DEF StopsTogether, Reports
    <3> QED
      BY <2>1, <2>5, <3>1, <3>2 DEF TypeOK
  <2> QED
    BY <2>3, <2>4, <2>6 DEF Fits
<1>2. SettlementInv => AcksFit
  BY <1>1 DEF AcksFit
<1> QED
  BY <1>2, SettlementInvariant, PTL
=============================================================================
