------------------------- MODULE RoleMailboxesProofs -------------------------
(***************************************************************************)
(* Proofs about the mailboxes of runs and dispatches: who a Delivery was   *)
(* handed to, who reads it, that a message stays in its run and that those *)
(* who wait hear of it, for any runs, terminals, panes, check calls and    *)
(* bounds.                                                                 *)
(***************************************************************************)
EXTENDS RoleMailboxes, SequenceTheorems, TLAPS

-----------------------------------------------------------------------------
(* The inductive invariant *)

RunRow == [coord : Handles \cup {None}, gen : 0 .. MaxGeneration]
DispatchRow == [state : DispatchStates, handle : Handles \cup {None},
                pane : Panes \cup {None}, gen : 0 .. MaxGeneration]
Message == [run : Runs, box : Boxes \cup Handles, reader : Handles \cup {None, Replied}]
DeliveryRow == [box : Boxes, gen : 0 .. MaxGeneration, items : SUBSET (1 .. MaxMail),
                pane : Panes, status : DeliveryStates]
CallRow == [pc : {"idle", "routing", "waiting", "woken"}, who : Handles \cup {None},
            box : Boxes \cup Handles \cup {None}, gen : 0 .. MaxGeneration,
            ack : Nat, peek : BOOLEAN, wait : BOOLEAN, todo : SUBSET (1 .. MaxMail),
            why : {None, "notified", "timed_out", "cancelled"}]

(* TypeOK, with messages and Deliveries as sequences. *)
RolesTyped ==
  /\ run \in [Runs -> RunRow]
  /\ known \in [Runs -> SUBSET Handles]
  /\ disp \in [Dispatches -> DispatchRow]

Typed ==
  /\ RolesTyped
  /\ mail \in Seq(Message) /\ Len(mail) <= MaxMail
  /\ deliveries \in Seq(DeliveryRow)
  /\ call \in [Calls -> CallRow]

(* A Delivery carries messages there are, for a role there was. *)
CarriesMail(ms, ds) ==
  \A n \in DOMAIN ds :
    /\ ds[n].items \subseteq DOMAIN ms
    /\ ds[n].box \in Dispatches => disp[ds[n].box].state # "none"

(* A Delivery that can still be acknowledged, as long as its worker works. *)
Live(d) == d.status = "outstanding" /\ (d.box \in Runs \/ Active(d.box))
Acked(d) == d.status = "acknowledged"

ConsumerPane(b) == IF b \in Runs THEN PaneOf[run[b].coord] ELSE disp[b].pane

(* It was handed to the consumer the mailbox has now, and its messages are  *)
(* still there and read by nobody, replies aside.                           *)
ForConsumer(ms, ds) ==
  \A n \in DOMAIN ds : Live(ds[n]) =>
    /\ ds[n].gen = LiveGen(ds[n].box)
    /\ ds[n].box \in Runs => run[ds[n].box].coord # None
    /\ ds[n].pane = ConsumerPane(ds[n].box)
    /\ \A i \in ds[n].items : ms[i].box = ds[n].box /\ ms[i].reader \in {None, Replied}

OnePerMailbox(ds) ==
  \A m, n \in DOMAIN ds : Live(ds[m]) /\ Live(ds[n]) /\ ds[m].box = ds[n].box => m = n

(* What was acknowledged is read, by the terminal it was handed to. *)
ReadWhenAcked(ms, ds) ==
  \A n \in DOMAIN ds : Acked(ds[n]) =>
    \A i \in ds[n].items :
      /\ ms[i].reader # None
      /\ ms[i].reader = Replied \/ PaneOf[ms[i].reader] = ds[n].pane

Apart(ds) ==
  \A m, n \in DOMAIN ds :
    m # n /\ Acked(ds[m]) /\ (Acked(ds[n]) \/ Live(ds[n])) => ds[m].items \cap ds[n].items = {}

HandedOut(ms, ds) ==
  /\ CarriesMail(ms, ds)
  /\ ForConsumer(ms, ds)
  /\ OnePerMailbox(ds)
  /\ ReadWhenAcked(ms, ds)
  /\ Apart(ds)

(* A check in progress is by a terminal for a mailbox.  While the run is at *)
(* the generation the check started at, its pane is still the coordinator's.*)
CallNamed(c) ==
  /\ call[c].who \in Handles
  /\ call[c].box \in Boxes \cup Handles
  /\ call[c].pc = "routing" => call[c].box \in Boxes
  /\ call[c].ack \in {0} \cup DOMAIN deliveries
  /\ call[c].todo \subseteq DOMAIN mail

CallCurrent(c) ==
  call[c].box \in Runs =>
    LET r == call[c].box
    IN /\ call[c].gen <= run[r].gen
       /\ call[c].gen = run[r].gen =>
            run[r].coord # None /\ PaneOf[run[r].coord] = PaneOf[call[c].who]

(* What it has yet to route belongs to the run of its mailbox. *)
TodoInRun(c) == \A i \in call[c].todo : mail[i].run = RunOfBox(call[c].box)

CallOK(c) == call[c].pc # "idle" => CallNamed(c) /\ CallCurrent(c) /\ TodoInRun(c)

IInv ==
  /\ Typed
  /\ HandedOut(mail, deliveries)
  /\ \A c \in Calls : CallOK(c)
  /\ MailStaysInItsRun

-----------------------------------------------------------------------------
(* Lemmas about sequences and rows *)

LEMMA SeqOfFunction ==
  ASSUME NEW S, NEW n \in Nat, NEW f \in [1 .. n -> S]
  PROVE  f \in Seq(S) /\ Len(f) = n
PROOF
<1>1. f \in Seq(S)
  BY SeqDef
<1>2. Len(f) \in Nat /\ DOMAIN f = 1 .. Len(f)
  BY <1>1, LenProperties
<1>3. 1 .. Len(f) = 1 .. n
  BY <1>2
<1>4. Len(f) <= n
  <2>1. CASE Len(f) = 0
    BY <2>1
  <2>2. CASE Len(f) # 0
    <3>1. Len(f) \in 1 .. Len(f)
      BY <1>2, <2>2
    <3> QED
      BY <3>1, <1>3
  <2> QED
    BY <2>1, <2>2
<1>5. n <= Len(f)
  <2>1. CASE n = 0
    BY <2>1, <1>2
  <2>2. CASE n # 0
    <3>1. n \in 1 .. n
      BY <2>2
    <3> QED
      BY <3>1, <1>3
  <2> QED
    BY <2>1, <2>2
<1> QED
  BY <1>1, <1>2, <1>4, <1>5

(* Rows of messages and of Deliveries, field by field. *)
LEMMA MessageFields ==
  ASSUME NEW ms \in Seq(Message), NEW i \in DOMAIN ms
  PROVE  /\ ms[i] \in Message
         /\ ms[i].run \in Runs
         /\ ms[i].box \in Boxes \cup Handles
         /\ ms[i].reader \in Handles \cup {None, Replied}
PROOF
<1>1. i \in 1 .. Len(ms)
  BY LenProperties
<1>2. ms[i] \in Message
  BY <1>1, ElementOfSeq
<1> QED
  BY <1>2 DEF Message

LEMMA DeliveryFields ==
  ASSUME NEW ds \in Seq(DeliveryRow), NEW n \in DOMAIN ds
  PROVE  /\ ds[n] \in DeliveryRow
         /\ ds[n].box \in Boxes
         /\ ds[n].gen \in 0 .. MaxGeneration
         /\ ds[n].items \subseteq 1 .. MaxMail
         /\ ds[n].pane \in Panes
         /\ ds[n].status \in DeliveryStates
PROOF
<1>1. n \in 1 .. Len(ds)
  BY LenProperties
<1>2. ds[n] \in DeliveryRow
  BY <1>1, ElementOfSeq
<1> QED
  BY <1>2 DEF DeliveryRow

(* A message whose mailbox or reader is overwritten. *)
LEMMA Readdressed ==
  ASSUME NEW m \in Message, NEW b \in Boxes \cup Handles
  PROVE  /\ [m EXCEPT !.box = b] \in Message
         /\ [m EXCEPT !.box = b].run = m.run
         /\ [m EXCEPT !.box = b].box = b
         /\ [m EXCEPT !.box = b].reader = m.reader
BY DEF Message

LEMMA ReadBy ==
  ASSUME NEW m \in Message, NEW h \in Handles \cup {None, Replied}
  PROVE  /\ [m EXCEPT !.reader = h] \in Message
         /\ [m EXCEPT !.reader = h].run = m.run
         /\ [m EXCEPT !.reader = h].box = m.box
         /\ [m EXCEPT !.reader = h].reader = h
BY DEF Message

(* A queue of messages each of which is replaced by a message. *)
LEMMA Rewritten ==
  ASSUME NEW S, NEW ms \in Seq(S), NEW new \in [DOMAIN ms -> S]
  PROVE  /\ new \in Seq(S)
         /\ Len(new) = Len(ms)
         /\ DOMAIN new = DOMAIN ms
BY LenProperties, SeqOfFunction

LEMMA Moved ==
  ASSUME NEW ms \in Seq(Message), NEW I, NEW b \in Boxes \cup Handles
  PROVE  /\ Move(ms, I, b) \in Seq(Message)
         /\ Len(Move(ms, I, b)) = Len(ms)
         /\ DOMAIN Move(ms, I, b) = DOMAIN ms
         /\ \A i \in DOMAIN ms :
              /\ Move(ms, I, b)[i].run = ms[i].run
              /\ Move(ms, I, b)[i].box = IF i \in I THEN b ELSE ms[i].box
              /\ Move(ms, I, b)[i].reader = ms[i].reader
PROOF
<1> DEFINE new == Move(ms, I, b)
<1>1. \A i \in DOMAIN ms : new[i] = IF i \in I THEN [ms[i] EXCEPT !.box = b] ELSE ms[i]
  BY DEF Move
<1>2. ASSUME NEW i \in DOMAIN ms
      PROVE  /\ new[i] \in Message
             /\ new[i].run = ms[i].run
             /\ new[i].box = IF i \in I THEN b ELSE ms[i].box
             /\ new[i].reader = ms[i].reader
  <2>1. ms[i] \in Message
    BY MessageFields
  <2>2. /\ [ms[i] EXCEPT !.box = b] \in Message
        /\ [ms[i] EXCEPT !.box = b].run = ms[i].run
        /\ [ms[i] EXCEPT !.box = b].box = b
        /\ [ms[i] EXCEPT !.box = b].reader = ms[i].reader
    BY <2>1, Readdressed
  <2>3. new[i] = IF i \in I THEN [ms[i] EXCEPT !.box = b] ELSE ms[i]
    BY <1>1
  <2> HIDE DEF new
  <2>4. CASE i \in I
    BY <2>2, <2>3, <2>4
  <2>5. CASE ~(i \in I)
    BY <2>1, <2>3, <2>5
  <2> QED
    BY <2>4, <2>5
<1>3. \A i \in DOMAIN ms :
        (IF i \in I THEN [ms[i] EXCEPT !.box = b] ELSE ms[i]) \in Message
  BY MessageFields, Readdressed
<1>4. new \in [DOMAIN ms -> Message]
  BY <1>3 DEF Move
<1>5. /\ new \in Seq(Message)
      /\ Len(new) = Len(ms)
      /\ DOMAIN new = DOMAIN ms
  BY <1>4, Rewritten
<1> QED
  BY <1>2, <1>5 DEF new

LEMMA Marked ==
  ASSUME NEW ms \in Seq(Message), NEW I, NEW h \in Handles \cup {None, Replied}
  PROVE  /\ MarkRead(ms, I, h) \in Seq(Message)
         /\ Len(MarkRead(ms, I, h)) = Len(ms)
         /\ DOMAIN MarkRead(ms, I, h) = DOMAIN ms
         /\ \A i \in DOMAIN ms :
              /\ MarkRead(ms, I, h)[i].run = ms[i].run
              /\ MarkRead(ms, I, h)[i].box = ms[i].box
              /\ MarkRead(ms, I, h)[i].reader =
                   IF i \in I /\ ms[i].reader = None THEN h ELSE ms[i].reader
PROOF
<1> DEFINE new == MarkRead(ms, I, h)
<1>1. \A i \in DOMAIN ms :
        new[i] = IF i \in I /\ ms[i].reader = None THEN [ms[i] EXCEPT !.reader = h] ELSE ms[i]
  BY DEF MarkRead
<1>2. ASSUME NEW i \in DOMAIN ms
      PROVE  /\ new[i] \in Message
             /\ new[i].run = ms[i].run
             /\ new[i].box = ms[i].box
             /\ new[i].reader = IF i \in I /\ ms[i].reader = None THEN h ELSE ms[i].reader
  <2>1. ms[i] \in Message
    BY MessageFields
  <2> DEFINE m == [ms[i] EXCEPT !.reader = h]
  <2>2. /\ m \in Message
        /\ m.run = ms[i].run
        /\ m.box = ms[i].box
        /\ m.reader = h
    BY <2>1, ReadBy
  <2>3. new[i] = IF i \in I /\ ms[i].reader = None THEN m ELSE ms[i]
    BY <1>1
  <2> HIDE DEF new, m
  <2>4. CASE i \in I /\ ms[i].reader = None
    BY <2>2, <2>3, <2>4
  <2>5. CASE ~(i \in I /\ ms[i].reader = None)
    BY <2>1, <2>3, <2>5
  <2> QED
    BY <2>4, <2>5
<1>3. \A i \in DOMAIN ms :
        (IF i \in I /\ ms[i].reader = None THEN [ms[i] EXCEPT !.reader = h] ELSE ms[i]) \in Message
  BY MessageFields, ReadBy
<1>4. new \in [DOMAIN ms -> Message]
  BY <1>3 DEF MarkRead
<1>5. /\ new \in Seq(Message)
      /\ Len(new) = Len(ms)
      /\ DOMAIN new = DOMAIN ms
  BY <1>4, Rewritten
<1> QED
  BY <1>2, <1>5 DEF new

LEMMA Unread ==
  ASSUME NEW ms \in Seq(Message), NEW b
  PROVE  /\ UnreadIn(ms, b) \subseteq DOMAIN ms
         /\ \A i \in UnreadIn(ms, b) : ms[i].box = b /\ ms[i].reader = None
         /\ UnreadIn(ms, b) # {} => b \in Boxes \cup Handles
BY MessageFields DEF UnreadIn

-----------------------------------------------------------------------------
(* Lemmas about roles and Deliveries *)

LEMMA OneOfIn ==
  ASSUME NEW S, OneOf(S) # None
  PROVE  OneOf(S) \in S
BY DEF OneOf

LEMMA BoundRunOf ==
  ASSUME NEW h, BoundRun(h) # None
  PROVE  /\ BoundRun(h) \in Runs
         /\ run[BoundRun(h)].coord # None
         /\ PaneOf[run[BoundRun(h)].coord] = PaneOf[h]
PROOF
<1>1. BoundRun(h) \in BoundRuns(h)
  BY OneOfIn DEF BoundRun
<1> QED
  BY <1>1 DEF BoundRuns

LEMMA DispatchOf ==
  ASSUME NEW D \in SUBSET Dispatches, NEW h, DispatchAmong(D, h) # None
  PROVE  DispatchAmong(D, h) \in D /\ Active(DispatchAmong(D, h))
PROOF
<1> DEFINE H == {d \in D : Active(d) /\ disp[d].handle = h}
           P == {d \in D : Active(d) /\ disp[d].pane = PaneOf[h]}
           S == IF H # {} THEN H ELSE P
<1>1. DispatchAmong(D, h) = OneOf(S)
  BY DEF DispatchAmong
<1>2. \A d \in S : d \in D /\ Active(d)
  OBVIOUS
<1> HIDE DEF S
<1>3. OneOf(S) \in S
  BY <1>1, OneOfIn
<1> QED
  BY <1>1, <1>2, <1>3

LEMMA ActiveDispatchOf ==
  ASSUME NEW h, ActiveDispatch(h) # None
  PROVE  ActiveDispatch(h) \in Dispatches /\ Active(ActiveDispatch(h))
BY DispatchOf DEF ActiveDispatch

LEMMA DispatchInOf ==
  ASSUME NEW r, NEW h, DispatchIn(r, h) # None
  PROVE  /\ DispatchIn(r, h) \in Dispatches
         /\ RunOf[DispatchIn(r, h)] = r
         /\ Active(DispatchIn(r, h))
BY DispatchOf DEF DispatchIn

LEMMA RoleFields ==
  ASSUME RolesTyped
  PROVE  /\ \A r \in Runs : /\ run[r].coord \in Handles \cup {None}
                            /\ run[r].gen \in 0 .. MaxGeneration
                            /\ known[r] \subseteq Handles
         /\ \A d \in Dispatches : /\ disp[d].state \in DispatchStates
                                  /\ disp[d].handle \in Handles \cup {None}
                                  /\ disp[d].pane \in Panes \cup {None}
                                  /\ disp[d].gen \in 0 .. MaxGeneration
                                  /\ RunOf[d] \in Runs
BY MailboxConstants DEF RolesTyped, RunRow, DispatchRow

LEMMA BoxKinds ==
  /\ \A b \in Boxes : b \in Runs \/ b \in Dispatches
  /\ \A b \in Boxes \cup Handles : b # None
  /\ \A b \in Boxes : b \notin Handles /\ (b \in Runs => b \notin Dispatches)
  /\ \A b \in Boxes : RunOfBox(b) \in Runs
BY MailboxConstants DEF Boxes, RunOfBox

(* A fence ends what is outstanding in the mailboxes given, and no more. *)
LEMMA Fenced ==
  ASSUME NEW ds \in Seq(DeliveryRow), NEW B
  PROVE  /\ Fence(ds, B) \in Seq(DeliveryRow)
         /\ DOMAIN Fence(ds, B) = DOMAIN ds
         /\ \A n \in DOMAIN ds :
              /\ Fence(ds, B)[n].box = ds[n].box
              /\ Fence(ds, B)[n].gen = ds[n].gen
              /\ Fence(ds, B)[n].items = ds[n].items
              /\ Fence(ds, B)[n].pane = ds[n].pane
              /\ Fence(ds, B)[n].status = IF ds[n].box \in B /\ ds[n].status = "outstanding"
                                          THEN "fenced" ELSE ds[n].status
PROOF
<1> DEFINE new == Fence(ds, B)
           out(n) == ds[n].box \in B /\ ds[n].status = "outstanding"
<1>1. ASSUME NEW n \in DOMAIN ds
      PROVE  /\ [ds[n] EXCEPT !.status = "fenced"] \in DeliveryRow
             /\ ds[n] \in DeliveryRow
  BY DeliveryFields DEF DeliveryRow, DeliveryStates
<1>2. \A n \in DOMAIN ds : (IF out(n) THEN [ds[n] EXCEPT !.status = "fenced"] ELSE ds[n]) \in DeliveryRow
  BY <1>1
<1>3. new \in [DOMAIN ds -> DeliveryRow]
  BY <1>2 DEF Fence
<1>4. new \in Seq(DeliveryRow) /\ DOMAIN new = DOMAIN ds
  BY <1>3, Rewritten
<1>5. ASSUME NEW n \in DOMAIN ds
      PROVE  /\ new[n].box = ds[n].box
             /\ new[n].gen = ds[n].gen
             /\ new[n].items = ds[n].items
             /\ new[n].pane = ds[n].pane
             /\ new[n].status = IF out(n) THEN "fenced" ELSE ds[n].status
  <2>1. new[n] = IF out(n) THEN [ds[n] EXCEPT !.status = "fenced"] ELSE ds[n]
    BY DEF Fence
  <2>2. ds[n] \in DeliveryRow
    BY <1>1
  <2> HIDE DEF new, out
  <2> QED
    BY <2>1, <2>2 DEF DeliveryRow
<1> QED
  BY <1>4, <1>5

(* What a step may do to messages that are not its own to read. *)
MailKept ==
  \A i \in DOMAIN mail :
    /\ i \in DOMAIN mail'
    /\ mail'[i].run = mail[i].run
    /\ \/ mail'[i].box = mail[i].box
       \/ mail[i].box \in Handles
       \/ mail[i].box \in Dispatches /\ ~Active(mail[i].box)
    /\ \/ mail'[i].reader = mail[i].reader
       \/ mail[i].reader = None /\ (mail'[i].reader = Replied \/ mail[i].box \in Handles)

(* Deliveries that stay or are fenced; who has a live one keeps its role. *)
DeliveriesKept ==
  /\ DOMAIN deliveries' = DOMAIN deliveries
  /\ \A n \in DOMAIN deliveries :
       /\ deliveries'[n].box = deliveries[n].box
       /\ deliveries'[n].gen = deliveries[n].gen
       /\ deliveries'[n].items = deliveries[n].items
       /\ deliveries'[n].pane = deliveries[n].pane
       /\ deliveries'[n].status \in {deliveries[n].status, "fenced"}
       /\ Live(deliveries[n])' =>
            /\ Live(deliveries[n])
            /\ deliveries[n].box \in Runs => run'[deliveries[n].box] = run[deliveries[n].box]
            /\ deliveries[n].box \in Dispatches => disp'[deliveries[n].box] = disp[deliveries[n].box]

DispatchesStay == \A d \in Dispatches : disp[d].state # "none" => disp'[d].state # "none"

LEMMA HandedOutKept ==
  ASSUME Typed, HandedOut(mail, deliveries), MailKept, DeliveriesKept, DispatchesStay
  PROVE  HandedOut(mail, deliveries)'
PROOF
<1> USE DEF HandedOut
<1>0. \A n \in DOMAIN deliveries : deliveries[n].box \in Boxes /\ deliveries[n].items \subseteq DOMAIN mail
  BY DeliveryFields DEF Typed, CarriesMail
<1>1. CarriesMail(mail, deliveries)'
  BY <1>0 DEF CarriesMail, MailKept, DeliveriesKept, DispatchesStay
<1>2. ASSUME NEW n \in DOMAIN deliveries, Live(deliveries[n])'
      PROVE  /\ Live(deliveries[n])
             /\ LiveGen(deliveries[n].box)' = LiveGen(deliveries[n].box)
             /\ ConsumerPane(deliveries[n].box)' = ConsumerPane(deliveries[n].box)
             /\ deliveries[n].box \in Runs =>
                  run'[deliveries[n].box].coord = run[deliveries[n].box].coord
             /\ deliveries[n].box \in Boxes
             /\ deliveries'[n].box = deliveries[n].box
  <2>1. /\ Live(deliveries[n])
        /\ deliveries[n].box \in Runs => run'[deliveries[n].box] = run[deliveries[n].box]
        /\ deliveries[n].box \in Dispatches => disp'[deliveries[n].box] = disp[deliveries[n].box]
        /\ deliveries'[n].box = deliveries[n].box
    BY <1>2 DEF DeliveriesKept
  <2>2. CASE deliveries[n].box \in Runs
    BY <1>0, <2>1, <2>2 DEF LiveGen, ConsumerPane
  <2>3. CASE deliveries[n].box \in Dispatches
    BY <1>0, <2>1, <2>3, BoxKinds DEF LiveGen, ConsumerPane
  <2> QED
    BY <1>0, <2>1, <2>2, <2>3, BoxKinds
<1>3. ForConsumer(mail, deliveries)'
  <2>1. ASSUME NEW n \in DOMAIN deliveries, Live(deliveries[n])', NEW i \in deliveries[n].items
        PROVE  mail'[i].box = deliveries[n].box /\ mail'[i].reader \in {None, Replied}
    <3>1. /\ mail[i].box = deliveries[n].box
          /\ mail[i].reader \in {None, Replied}
          /\ i \in DOMAIN mail
      BY <1>0, <1>2, <2>1 DEF ForConsumer
    <3>2. ~(mail[i].box \in Handles) /\ (mail[i].box \in Dispatches => Active(mail[i].box))
      BY <1>0, <1>2, <2>1, <3>1, BoxKinds DEF Live
    <3> QED
      BY <3>1, <3>2 DEF MailKept
  <2>2. ASSUME NEW n \in DOMAIN deliveries', Live(deliveries[n])'
        PROVE  /\ deliveries'[n].gen = LiveGen(deliveries[n].box)'
               /\ deliveries'[n].box \in Runs => run'[deliveries'[n].box].coord # None
               /\ deliveries'[n].pane = ConsumerPane(deliveries[n].box)'
               /\ \A i \in deliveries'[n].items :
                    mail'[i].box = deliveries'[n].box /\ mail'[i].reader \in {None, Replied}
    <3>1. /\ n \in DOMAIN deliveries
          /\ deliveries'[n].box = deliveries[n].box
          /\ deliveries'[n].gen = deliveries[n].gen
          /\ deliveries'[n].items = deliveries[n].items
          /\ deliveries'[n].pane = deliveries[n].pane
      BY <2>2 DEF DeliveriesKept
    <3>2. /\ deliveries[n].gen = LiveGen(deliveries[n].box)
          /\ deliveries[n].box \in Runs => run[deliveries[n].box].coord # None
          /\ deliveries[n].pane = ConsumerPane(deliveries[n].box)
      BY <1>2, <2>2, <3>1 DEF ForConsumer
    <3>3. /\ LiveGen(deliveries[n].box)' = LiveGen(deliveries[n].box)
          /\ ConsumerPane(deliveries[n].box)' = ConsumerPane(deliveries[n].box)
      BY <1>2, <2>2, <3>1
    <3>4. /\ deliveries'[n].gen = LiveGen(deliveries[n].box)'
          /\ deliveries'[n].pane = ConsumerPane(deliveries[n].box)'
      BY <3>1, <3>2, <3>3
    <3>5. deliveries'[n].box \in Runs => run'[deliveries'[n].box].coord # None
      BY <1>2, <2>2, <3>1, <3>2
    <3> QED
      BY <2>1, <2>2, <3>1, <3>4, <3>5
  <2> QED
    BY <2>2 DEF ForConsumer
<1>4. OnePerMailbox(deliveries)'
  BY <1>2 DEF OnePerMailbox, DeliveriesKept
<1>5. ASSUME NEW n \in DOMAIN deliveries, Acked(deliveries[n])'
      PROVE  Acked(deliveries[n])
  BY <1>5 DEF Acked, DeliveriesKept
<1>6. ReadWhenAcked(mail, deliveries)'
  BY <1>0, <1>5 DEF ReadWhenAcked, DeliveriesKept, MailKept
<1>7. Apart(deliveries)'
  BY <1>2, <1>5 DEF Apart, DeliveriesKept
<1> QED
  BY <1>1, <1>3, <1>4, <1>6, <1>7

(* The messages that a check hands out are unread ones of its mailbox.      *)
LEMMA FirstOf ==
  ASSUME NEW I
  PROVE  First(I) \subseteq I
BY DEF First

(* A check hands out mail to the consumer of the mailbox only. *)
LEMMA Taken ==
  ASSUME NEW ms \in Seq(Message), Len(ms) <= MaxMail, NEW ds \in Seq(DeliveryRow),
         HandedOut(ms, ds),
         NEW b \in Boxes, NEW g \in 0 .. MaxGeneration, NEW h \in Handles,
         LiveGen(b) = g => /\ b \in Runs => run[b].coord # None
                           /\ b \in Dispatches => Active(b)
                           /\ PaneOf[h] = ConsumerPane(b)
  PROVE  /\ Take(ds, ms, b, g, h) \in Seq(DeliveryRow)
         /\ DOMAIN ds \subseteq DOMAIN Take(ds, ms, b, g, h)
         /\ HandedOut(ms, Take(ds, ms, b, g, h))
PROOF
<1> DEFINE taken == Take(ds, ms, b, g, h)
           d == [box |-> b, gen |-> g, items |-> First(UnreadIn(ms, b)),
                 pane |-> PaneOf[h], status |-> "outstanding"]
<1>0. b \in Runs \/ b \in Dispatches
  BY BoxKinds
<1>1. CASE ~(LiveGen(b) = g /\ Outstanding(ds, b) = {} /\ UnreadIn(ms, b) # {})
  BY <1>1 DEF Take
<1>2. CASE LiveGen(b) = g /\ Outstanding(ds, b) = {} /\ UnreadIn(ms, b) # {}
  <2>1. taken = Append(ds, d)
    BY <1>2 DEF Take
  <2>2. DOMAIN ms = 1 .. Len(ms) /\ Len(ms) \in Nat /\ Len(ds) \in Nat /\ DOMAIN ds = 1 .. Len(ds)
    BY LenProperties
  <2>3. /\ d.items \subseteq DOMAIN ms
        /\ \A i \in d.items : ms[i].box = b /\ ms[i].reader = None
    BY FirstOf, Unread
  <2>4. d.items \subseteq 1 .. MaxMail
    BY <2>2, <2>3, MailboxConstants
  <2>5. d.box = b /\ d.gen = g /\ d.pane = PaneOf[h] /\ d.status = "outstanding"
    OBVIOUS
  <2>6. d \in DeliveryRow
    BY <2>4 DEF DeliveryRow, Panes, DeliveryStates
  <2> HIDE DEF d
  <2>7. /\ Append(ds, d) \in Seq(DeliveryRow)
        /\ Len(Append(ds, d)) = Len(ds) + 1
        /\ \A i \in 1 .. Len(ds) : Append(ds, d)[i] = ds[i]
        /\ Append(ds, d)[Len(ds) + 1] = d
    BY <2>6, AppendProperties
  <2>8. DOMAIN Append(ds, d) = 1 .. Len(ds) + 1
    BY <2>7, LenProperties
  <2> DEFINE last == Len(ds) + 1
  <2>9. /\ taken \in Seq(DeliveryRow)
        /\ DOMAIN taken = DOMAIN ds \cup {last}
        /\ last \notin DOMAIN ds
        /\ taken[last] = d
        /\ \A n \in DOMAIN ds : taken[n] = ds[n]
    BY <2>1, <2>2, <2>7, <2>8
  <2> HIDE DEF taken, last
  <2>10. /\ b \in Runs => run[b].coord # None
         /\ b \in Dispatches => Active(b)
         /\ PaneOf[h] = ConsumerPane(b)
    BY <1>2
  <2>11. \A n \in DOMAIN ds : ~(Live(ds[n]) /\ ds[n].box = b)
    BY <1>2 DEF Outstanding, Live
  <2>12. CarriesMail(ms, taken)
    BY <2>3, <2>5, <2>9, <2>10 DEF CarriesMail, HandedOut, Active
  <2>13. ForConsumer(ms, taken)
    BY <1>2, <2>3, <2>5, <2>9, <2>10 DEF ForConsumer, HandedOut
  <2>14. OnePerMailbox(taken)
    BY <2>5, <2>9, <2>11 DEF OnePerMailbox, HandedOut
  <2>15. ~Acked(d)
    BY <2>5 DEF Acked
  <2>16. ReadWhenAcked(ms, taken)
    BY <2>9, <2>15 DEF ReadWhenAcked, HandedOut
  <2>17. Apart(taken)
    <3>1. ASSUME NEW m \in DOMAIN ds, Acked(ds[m])
          PROVE  ds[m].items \cap d.items = {}
      BY <3>1, <2>3 DEF HandedOut, ReadWhenAcked
    <3> QED
      BY <2>9, <2>15, <3>1 DEF Apart, HandedOut
  <2> QED
    BY <2>9, <2>12, <2>13, <2>14, <2>16, <2>17 DEF HandedOut, taken
<1> QED
  BY <1>1, <1>2

(* The consumer of a mailbox acknowledges: what it was handed is read.      *)
LEMMA Acknowledged ==
  ASSUME Typed, HandedOut(mail, deliveries),
         NEW n \in {0} \cup DOMAIN deliveries, NEW b \in Boxes, NEW g, NEW h \in Handles,
         AckAllowed(n, b, g),
         b \in Dispatches => Active(b),
         PaneOf[h] = ConsumerPane(b)
  PROVE  /\ AckedDeliveries(n) \in Seq(DeliveryRow)
         /\ DOMAIN AckedDeliveries(n) = DOMAIN deliveries
         /\ HandedOut(MarkRead(mail, AckedItems(n), h), AckedDeliveries(n))
PROOF
<1> DEFINE ms == MarkRead(mail, AckedItems(n), h)
           ds == AckedDeliveries(n)
<1>0. /\ mail \in Seq(Message) /\ deliveries \in Seq(DeliveryRow)
      /\ h \in Handles \cup {None, Replied}
      /\ h # None
  BY BoxKinds DEF Typed
<1>1. /\ DOMAIN ms = DOMAIN mail
      /\ \A i \in DOMAIN mail :
           /\ ms[i].box = mail[i].box
           /\ ms[i].reader = IF i \in AckedItems(n) /\ mail[i].reader = None
                             THEN h ELSE mail[i].reader
  BY <1>0, Marked
<1>2. \A m \in DOMAIN deliveries : deliveries[m].items \subseteq DOMAIN mail
  BY DEF HandedOut, CarriesMail
<1>3. CASE AckedItems(n) = {}
  <2>1. ds = deliveries
    BY <1>3 DEF AckedDeliveries
  <2>2. \A i \in DOMAIN mail : ms[i].box = mail[i].box /\ ms[i].reader = mail[i].reader
    BY <1>1, <1>3
  <2> HIDE DEF ms, ds
  <2>3. CarriesMail(ms, ds) /\ OnePerMailbox(ds) /\ Apart(ds)
    BY <1>1, <2>1 DEF HandedOut, CarriesMail
  <2>4. ForConsumer(ms, ds) /\ ReadWhenAcked(ms, ds)
    BY <1>2, <2>1, <2>2 DEF HandedOut, ForConsumer, ReadWhenAcked
  <2> QED
    BY <1>0, <2>1, <2>3, <2>4 DEF HandedOut, ms, ds
<1>4. CASE AckedItems(n) # {}
  <2>1. n # 0 /\ n \in DOMAIN deliveries /\ deliveries[n].status # "acknowledged"
    BY <1>4 DEF AckedItems
  <2>2. /\ deliveries[n] \in DeliveryRow
        /\ deliveries[n].status = "outstanding"
        /\ deliveries[n].box = b
    BY <1>0, <2>1, DeliveryFields DEF AckAllowed, DeliveryStates
  <2>3. AckedItems(n) = deliveries[n].items
    BY <2>1 DEF AckedItems
  <2>4. Live(deliveries[n])
    BY <2>2, BoxKinds DEF Live
  <2>5. ds = [deliveries EXCEPT ![n].status = "acknowledged"]
    BY <1>4 DEF AckedDeliveries
  <2>6. /\ DOMAIN ds = DOMAIN deliveries
        /\ \A m \in DOMAIN deliveries : m # n => ds[m] = deliveries[m]
        /\ ds[n] = [deliveries[n] EXCEPT !.status = "acknowledged"]
    BY <2>1, <2>5
  <2>7. /\ ds[n] \in DeliveryRow
        /\ ds[n].box = b
        /\ ds[n].items = deliveries[n].items
        /\ ds[n].pane = deliveries[n].pane
        /\ ds[n].status = "acknowledged"
    BY <2>2, <2>6 DEF DeliveryRow, DeliveryStates
  <2>8. \A m \in DOMAIN deliveries : deliveries[m] \in DeliveryRow
    BY <1>0, DeliveryFields
  <2>9. ds \in Seq(DeliveryRow)
    <3>1. ds \in [DOMAIN deliveries -> DeliveryRow]
      BY <2>5, <2>6, <2>7, <2>8
    <3> QED
      BY <1>0, <3>1, Rewritten
  <2>10. /\ deliveries[n].pane = PaneOf[h]
         /\ \A i \in deliveries[n].items : mail[i].box = b /\ mail[i].reader \in {None, Replied}
    BY <2>1, <2>2, <2>4 DEF HandedOut, ForConsumer
  <2> HIDE DEF ms, ds
  <2>11. ~Live(ds[n]) /\ Acked(ds[n])
    BY <2>7 DEF Live, Acked
  <2>12. CarriesMail(ms, ds)
    <3>1. \A m \in DOMAIN deliveries :
            ds[m].box = deliveries[m].box /\ ds[m].items = deliveries[m].items
      BY <2>2, <2>6, <2>7
    <3> QED
      BY <1>1, <2>6, <3>1 DEF CarriesMail, HandedOut
  <2>13. ASSUME NEW m \in DOMAIN deliveries, m # n, Live(deliveries[m])
         PROVE  \A i \in deliveries[m].items : i \notin AckedItems(n)
    <3>1. deliveries[m].box # b
      BY <2>1, <2>2, <2>4, <2>13 DEF HandedOut, OnePerMailbox
    <3>2. \A i \in deliveries[m].items : mail[i].box = deliveries[m].box
      BY <2>13 DEF HandedOut, ForConsumer
    <3> QED
      BY <3>1, <3>2, <2>3, <2>10
  <2>14. ForConsumer(ms, ds)
    <3>1. ASSUME NEW m \in DOMAIN deliveries, m # n, Live(deliveries[m]),
                 NEW i \in deliveries[m].items
          PROVE  ms[i].box = deliveries[m].box /\ ms[i].reader \in {None, Replied}
      <4>1. mail[i].box = deliveries[m].box /\ mail[i].reader \in {None, Replied}
        BY <3>1 DEF HandedOut, ForConsumer
      <4>2. i \notin AckedItems(n) /\ i \in DOMAIN mail
        BY <1>2, <2>13, <3>1
      <4> QED
        BY <1>1, <4>1, <4>2
    <3>2. \A m \in DOMAIN ds : Live(ds[m]) => m # n /\ ds[m] = deliveries[m]
      BY <2>6, <2>11
    <3> QED
      BY <2>6, <3>1, <3>2 DEF ForConsumer, HandedOut
  <2>15. OnePerMailbox(ds)
    BY <2>6, <2>11 DEF OnePerMailbox, HandedOut
  <2>16. ReadWhenAcked(ms, ds)
    <3>1. ASSUME NEW m \in DOMAIN deliveries, m # n, Acked(deliveries[m]),
                 NEW i \in deliveries[m].items
          PROVE  ms[i].reader = mail[i].reader
      BY <1>1, <1>2, <3>1 DEF ReadWhenAcked, HandedOut
    <3>2. ASSUME NEW i \in deliveries[n].items
          PROVE  ms[i].reader # None /\ (ms[i].reader = Replied \/ PaneOf[ms[i].reader] = ds[n].pane)
      <4>1. i \in DOMAIN mail /\ mail[i].reader \in {None, Replied} /\ deliveries[n].pane = PaneOf[h]
        BY <1>2, <2>1, <2>10
      <4>2. ms[i].reader = IF mail[i].reader = None THEN h ELSE mail[i].reader
        BY <1>1, <2>3, <4>1
      <4> QED
        BY <1>0, <2>7, <4>1, <4>2
    <3>3. ASSUME NEW m \in DOMAIN deliveries, m # n, Acked(ds[m]), NEW i \in ds[m].items
          PROVE  ms[i].reader # None /\ (ms[i].reader = Replied \/ PaneOf[ms[i].reader] = ds[m].pane)
      <4>1. ds[m] = deliveries[m]
        BY <2>6, <3>3
      <4>2. mail[i].reader # None /\ (mail[i].reader = Replied \/ PaneOf[mail[i].reader] = ds[m].pane)
        BY <3>3, <4>1 DEF ReadWhenAcked, HandedOut
      <4> QED
        BY <3>1, <3>3, <4>1, <4>2
    <3> QED
      BY <2>6, <2>7, <3>2, <3>3 DEF ReadWhenAcked
  <2>17. Apart(ds)
    <3>1. \A m \in DOMAIN deliveries : m # n /\ Acked(deliveries[m]) =>
            deliveries[m].items \cap deliveries[n].items = {}
      BY <2>1, <2>4 DEF Apart, HandedOut
    <3>2. \A m \in DOMAIN deliveries : m # n /\ Live(deliveries[m]) =>
            deliveries[m].items \cap deliveries[n].items = {}
      BY <2>3, <2>13
    <3>3. ASSUME NEW k \in DOMAIN ds, NEW m \in DOMAIN ds,
                 k # m, Acked(ds[k]), Acked(ds[m]) \/ Live(ds[m])
          PROVE  ds[k].items \cap ds[m].items = {}
      <4>1. CASE k = n
        BY <2>6, <2>7, <3>1, <3>2, <3>3, <4>1
      <4>2. CASE m = n
        BY <2>6, <2>7, <3>1, <3>3, <4>2
      <4>3. CASE k # n /\ m # n
        BY <2>6, <3>3, <4>3 DEF Apart, HandedOut
      <4> QED
        BY <4>1, <4>2, <4>3
    <3> QED
      BY <3>3 DEF Apart
  <2> QED
    BY <2>6, <2>9, <2>12, <2>14, <2>15, <2>16, <2>17 DEF HandedOut, ms, ds
<1> QED
  BY <1>3, <1>4

-----------------------------------------------------------------------------
(* Lemmas about check calls *)

RunsAdvance == \A r \in Runs : run'[r] = run[r] \/ run'[r].gen = run[r].gen + 1

RowsGrow ==
  /\ \A i \in DOMAIN mail : i \in DOMAIN mail' /\ mail'[i].run = mail[i].run
  /\ DOMAIN deliveries \subseteq DOMAIN deliveries'

(* A check ends, or goes on for the caller and the mailbox it is for. *)
CallKept(c) ==
  \/ call'[c].pc = "idle"
  \/ /\ call[c].pc # "idle"
     /\ call'[c].who = call[c].who /\ call'[c].box = call[c].box /\ call'[c].gen = call[c].gen
     /\ call'[c].ack \in {0, call[c].ack}
     /\ call'[c].todo \subseteq call[c].todo
     /\ call'[c].pc = "routing" => call[c].pc = "routing"

LEMMA CallOKKept ==
  ASSUME Typed, NEW c \in Calls, CallOK(c), RunsAdvance, RowsGrow, CallKept(c)
  PROVE  CallOK(c)'
PROOF
<1>1. CASE call'[c].pc = "idle"
  BY <1>1 DEF CallOK
<1>2. CASE call'[c].pc # "idle"
  <2>1. /\ CallNamed(c) /\ CallCurrent(c) /\ TodoInRun(c)
        /\ call'[c].who = call[c].who /\ call'[c].box = call[c].box /\ call'[c].gen = call[c].gen
        /\ call'[c].ack \in {0, call[c].ack}
        /\ call'[c].todo \subseteq call[c].todo
        /\ call'[c].pc = "routing" => call[c].pc = "routing"
    BY <1>2 DEF CallOK, CallKept
  <2>2. CallNamed(c)'
    BY <2>1 DEF CallNamed, RowsGrow
  <2>3. CallCurrent(c)'
    <3>1. CASE call[c].box \in Runs
      <4> DEFINE r == call[c].box
      <4>1. /\ call[c].gen <= run[r].gen
            /\ call[c].gen = run[r].gen =>
                 run[r].coord # None /\ PaneOf[run[r].coord] = PaneOf[call[c].who]
        BY <2>1, <3>1 DEF CallCurrent
      <4>2. run'[r] = run[r] \/ run'[r].gen = run[r].gen + 1
        BY <3>1 DEF RunsAdvance
      <4>3. run[r].gen \in Nat /\ call[c].gen \in Nat
        BY <3>1, RoleFields, MailboxConstants DEF Typed, CallRow
      <4>4. CASE run'[r] = run[r]
        BY <2>1, <4>1, <4>4 DEF CallCurrent
      <4>5. CASE run'[r].gen = run[r].gen + 1
        <5>1. call'[c].gen < run'[r].gen
          BY <2>1, <4>1, <4>3, <4>5
        <5> QED
          BY <2>1, <4>3, <4>5, <5>1 DEF CallCurrent
      <4> QED
        BY <4>2, <4>4, <4>5
    <3>2. CASE call[c].box \notin Runs
      BY <2>1, <3>2 DEF CallCurrent
    <3> QED
      BY <3>1, <3>2
  <2>4. TodoInRun(c)'
    BY <2>1 DEF TodoInRun, CallNamed, RowsGrow, RunOfBox
  <2> QED
    BY <2>2, <2>3, <2>4 DEF CallOK
<1> QED
  BY <1>1, <1>2

LEMMA CallFields ==
  ASSUME Typed, NEW c \in Calls
  PROVE  /\ call[c] \in CallRow
         /\ call[c].pc \in {"idle", "routing", "waiting", "woken"}
         /\ call[c].gen \in 0 .. MaxGeneration
         /\ call[c].todo \subseteq 1 .. MaxMail
         /\ call[c].peek \in BOOLEAN
         /\ call[c].wait \in BOOLEAN
BY DEF Typed, CallRow

LEMMA IdleRow ==
  /\ Idle \in CallRow
  /\ Idle.pc = "idle"
BY MailboxConstants DEF Idle, CallRow

(* Those who wait are woken; nothing else of their checks changes. *)
LEMMA Woken ==
  ASSUME Typed, NEW C, \A c \in C \cap Calls : call[c].pc = "waiting",
         NEW why \in {"notified", "timed_out", "cancelled"}
  PROVE  /\ Wake(C, why) \in [Calls -> CallRow]
         /\ \A c \in Calls :
              LET new == Wake(C, why)[c]
              IN /\ c \in C => new.pc = "woken"
                 /\ c \notin C => new = call[c]
                 /\ new.who = call[c].who /\ new.box = call[c].box /\ new.gen = call[c].gen
                 /\ new.ack = call[c].ack /\ new.todo = call[c].todo
                 /\ new.pc # "idle" => call[c].pc # "idle"
                 /\ new.pc = "routing" => call[c].pc = "routing"
PROOF
<1> DEFINE new == Wake(C, why)
           w(c) == [call[c] EXCEPT !.pc = "woken", !.why = why]
<1>1. ASSUME NEW c \in Calls
      PROVE  /\ w(c) \in CallRow /\ w(c).pc = "woken"
             /\ w(c).who = call[c].who /\ w(c).box = call[c].box /\ w(c).gen = call[c].gen
             /\ w(c).ack = call[c].ack /\ w(c).todo = call[c].todo
  BY CallFields DEF CallRow
<1>2. \A c \in Calls : (IF c \in C THEN w(c) ELSE call[c]) \in CallRow
  BY <1>1, CallFields
<1>3. new \in [Calls -> CallRow]
  BY <1>2 DEF Wake
<1>4. \A c \in Calls : new[c] = IF c \in C THEN w(c) ELSE call[c]
  BY DEF Wake
<1> HIDE DEF new, w
<1>5. ASSUME NEW c \in Calls
      PROVE  /\ c \in C => new[c].pc = "woken"
             /\ c \notin C => new[c] = call[c]
             /\ new[c].who = call[c].who /\ new[c].box = call[c].box /\ new[c].gen = call[c].gen
             /\ new[c].ack = call[c].ack /\ new[c].todo = call[c].todo
             /\ new[c].pc # "idle" => call[c].pc # "idle"
             /\ new[c].pc = "routing" => call[c].pc = "routing"
  BY <1>1, <1>4
<1> QED
  BY <1>3, <1>5 DEF new

LEMMA WokenCalls ==
  ASSUME Typed, NEW C, \A c \in C \cap Calls : call[c].pc = "waiting",
         NEW why \in {"notified", "timed_out", "cancelled"}, call' = Wake(C, why)
  PROVE  /\ call' \in [Calls -> CallRow]
         /\ \A c \in Calls : CallKept(c)
         /\ \A c \in Calls \cap C : call'[c].pc = "woken"
PROOF
<1>1. call' \in [Calls -> CallRow]
  BY Woken
<1>2. ASSUME NEW c \in Calls
      PROVE  CallKept(c) /\ (c \in C => call'[c].pc = "woken")
  <2>1. /\ c \in C => call'[c].pc = "woken"
        /\ call'[c].who = call[c].who /\ call'[c].box = call[c].box /\ call'[c].gen = call[c].gen
        /\ call'[c].ack = call[c].ack /\ call'[c].todo = call[c].todo
        /\ call'[c].pc # "idle" => call[c].pc # "idle"
        /\ call'[c].pc = "routing" => call[c].pc = "routing"
    BY Woken
  <2> QED
    BY <2>1 DEF CallKept
<1> QED
  BY <1>1, <1>2

-----------------------------------------------------------------------------
(* Lemmas about mail *)

(* The step of WaitersHear. *)
Heard ==
  \A c \in Calls : LET b == call[c].box IN
    call[c].pc = "waiting" /\ call'[c].pc = "waiting"
    => \A i \in UnreadIn(mail', b) \ UnreadIn(mail, b) :
         Len(mail') = Len(mail) /\ mail[i].box \in Handles

MailStep ==
  /\ mail' \in Seq(Message)
  /\ Len(mail') <= MaxMail
  /\ MailKept
  /\ MailStaysInItsRun'

(* Mail that moves out of terminals' mailboxes only wakes nobody. *)
LEMMA HeardRouted ==
  ASSUME mail \in Seq(Message),
         Len(mail') = Len(mail), DOMAIN mail' = DOMAIN mail,
         \A i \in DOMAIN mail :
           /\ mail'[i].box = mail[i].box \/ mail[i].box \in Handles
           /\ mail'[i].reader = None => mail[i].reader = None
  PROVE  Heard
BY DEF Heard, UnreadIn

LEMMA RoutedMail ==
  ASSUME Typed, MailStaysInItsRun, NEW b \in Boxes, NEW I,
         \A i \in I : mail[i].box \in Handles /\ mail[i].run = RunOfBox(b),
         mail' = Move(mail, I, b)
  PROVE  MailStep /\ Heard /\ DOMAIN mail' = DOMAIN mail
PROOF
<1>1. mail \in Seq(Message) /\ Len(mail) <= MaxMail /\ b \in Boxes \cup Handles
  BY DEF Typed
<1>2. /\ mail' \in Seq(Message)
      /\ Len(mail') = Len(mail)
      /\ DOMAIN mail' = DOMAIN mail
      /\ \A i \in DOMAIN mail :
           /\ mail'[i].run = mail[i].run
           /\ mail'[i].box = IF i \in I THEN b ELSE mail[i].box
           /\ mail'[i].reader = mail[i].reader
  BY <1>1, Moved
<1>3. MailStaysInItsRun'
  BY <1>2 DEF MailStaysInItsRun, RunOfBox
<1>4. MailKept
  BY <1>2 DEF MailKept
<1>5. Heard
  <2>1. \A i \in DOMAIN mail :
          /\ mail'[i].box = mail[i].box \/ mail[i].box \in Handles
          /\ mail'[i].reader = None => mail[i].reader = None
    BY <1>2
  <2> QED
    BY <1>1, <1>2, <2>1, HeardRouted
<1> QED
  BY <1>1, <1>2, <1>3, <1>4, <1>5 DEF MailStep

LEMMA ReadMail ==
  ASSUME Typed, MailStaysInItsRun, NEW b \in Handles, NEW h \in Handles,
         mail' = MarkRead(mail, UnreadIn(mail, b), h)
  PROVE  MailStep /\ Heard /\ DOMAIN mail' = DOMAIN mail
PROOF
<1>1. mail \in Seq(Message) /\ Len(mail) <= MaxMail /\ h \in Handles \cup {None, Replied} /\ h # None
  BY BoxKinds DEF Typed
<1>2. /\ mail' \in Seq(Message)
      /\ Len(mail') = Len(mail)
      /\ DOMAIN mail' = DOMAIN mail
      /\ \A i \in DOMAIN mail :
           /\ mail'[i].run = mail[i].run
           /\ mail'[i].box = mail[i].box
           /\ mail'[i].reader = IF i \in UnreadIn(mail, b) /\ mail[i].reader = None
                                THEN h ELSE mail[i].reader
  BY <1>1, Marked
<1>3. MailStaysInItsRun'
  BY <1>2 DEF MailStaysInItsRun, RunOfBox
<1>4. MailKept
  BY <1>2 DEF MailKept, UnreadIn
<1>5. Heard
  <2>1. \A i \in DOMAIN mail :
          /\ mail'[i].box = mail[i].box \/ mail[i].box \in Handles
          /\ mail'[i].reader = None => mail[i].reader = None
    BY <1>1, <1>2
  <2> QED
    BY <1>1, <1>2, <2>1, HeardRouted
<1> QED
  BY <1>1, <1>2, <1>3, <1>4, <1>5 DEF MailStep

LEMMA SameMail ==
  ASSUME Typed, MailStaysInItsRun, mail' = mail
  PROVE  MailStep /\ Heard /\ DOMAIN mail' = DOMAIN mail
BY DEF Typed, MailStaysInItsRun, RunOfBox, MailStep, MailKept, Heard, UnreadIn

(* The role of a terminal is a run or a dispatch. *)
LEMMA OwnerIsRole ==
  ASSUME NEW h, Owner(h) # None
  PROVE  Owner(h) \in Boxes
BY BoundRunOf, ActiveDispatchOf DEF Owner, Boxes

LEMMA HomeInRun ==
  ASSUME NEW r \in Runs, NEW h \in Handles, NEW live
  PROVE  /\ Home(r, h, live) \in Boxes \cup Handles
         /\ Home(r, h, live) \in Boxes => RunOfBox(Home(r, h, live)) = r
PROOF
<1> DEFINE own == Owner(h)
           foreign == IF DispatchIn(r, h) # None THEN DispatchIn(r, h)
                      ELSE IF h \in known[r] THEN r ELSE h
           home == Home(r, h, live)
           inRun(b) == b \in Boxes \cup Handles /\ (b \in Boxes => RunOfBox(b) = r)
<1>1. inRun(h)
  BY BoxKinds
<1>2. inRun(r)
  BY BoxKinds DEF Boxes, RunOfBox
<1>3. DispatchIn(r, h) # None => inRun(DispatchIn(r, h))
  BY DispatchInOf DEF Boxes, RunOfBox
<1>4. inRun(foreign)
  BY <1>1, <1>2, <1>3
<1>5. own # None /\ RunOfBox(own) = r => inRun(own)
  BY OwnerIsRole
<1>6. home \in {h, own, foreign} /\ (home = own => home \in {h, foreign} \/ (own # None /\ RunOfBox(own) = r))
  BY DEF Home
<1> HIDE DEF home, foreign, own
<1>7. inRun(home)
  BY <1>1, <1>4, <1>5, <1>6
<1> QED
  BY <1>7 DEF home

LEMMA RoutedInRun ==
  ASSUME NEW r \in Runs, NEW b \in Boxes \cup Handles, b \in Boxes => RunOfBox(b) = r
  PROVE  /\ Routed(r, b) \in Boxes \cup Handles
         /\ Routed(r, b) \in Boxes => RunOfBox(Routed(r, b)) = r
BY BoxKinds DEF Routed, Boxes, RunOfBox

(* A step that reads at most by a reply leaves the rest of what was sent.   *)
SentBefore(ms) ==
  /\ ms \in Seq(Message)
  /\ Len(ms) = Len(mail) /\ DOMAIN ms = DOMAIN mail
  /\ \A i \in DOMAIN mail :
       /\ ms[i].run = mail[i].run
       /\ ms[i].box = mail[i].box
       /\ ms[i].reader = mail[i].reader \/ (mail[i].reader = None /\ ms[i].reader = Replied)

LEMMA ArrivedMail ==
  ASSUME Typed, MailStaysInItsRun, NEW ms, SentBefore(ms),
         NEW r \in Runs, NEW b \in Boxes \cup Handles, b \in Boxes => RunOfBox(b) = r,
         NEW live, Arrive(ms, r, b, live)
  PROVE  /\ MailStep /\ Heard
         /\ call' \in [Calls -> CallRow]
         /\ \A c \in Calls : CallKept(c)
PROOF
<1> DEFINE to == Routed(r, b)
           new == [run |-> r, box |-> to, reader |-> None]
           all == Append(ms, new)
           here == UnreadIn(all, to)
           last == Len(ms) + 1
           filed == [i \in DOMAIN all |->
                       IF to \in Handles /\ i \in here
                       THEN [all[i] EXCEPT !.box = Home(all[i].run, to, live)] ELSE all[i]]
           woken == WaitersOn({filed[i].box : i \in here})
<1>1. /\ Len(ms) < MaxMail /\ mail' = filed /\ call' = Wake(woken, "notified")
  BY DEF Arrive
<1>2. to \in Boxes \cup Handles /\ (to \in Boxes => RunOfBox(to) = r)
  BY RoutedInRun
<1> HIDE DEF to
<1>3. /\ new \in Message
      /\ new.run = r /\ new.box = to /\ new.reader = None
  BY <1>2 DEF Message
<1> HIDE DEF new
<1>4. /\ ms \in Seq(Message)
      /\ all \in Seq(Message) /\ Len(all) = last
      /\ Len(ms) \in Nat /\ DOMAIN ms = 1 .. Len(ms)
      /\ \A i \in 1 .. Len(ms) : all[i] = ms[i]
      /\ all[last] = new
  BY <1>3, AppendProperties, LenProperties DEF SentBefore
<1>5. DOMAIN all = DOMAIN ms \cup {last} /\ last \notin DOMAIN ms
  <2>1. DOMAIN all = 1 .. last
    BY <1>4, LenProperties
  <2> QED
    BY <1>4, <2>1
<1> HIDE DEF all
<1>6. \A i \in DOMAIN all : all[i] \in Message /\ all[i].run \in Runs
  BY <1>4, MessageFields
<1>7. here = {i \in DOMAIN all : all[i].box = to /\ all[i].reader = None}
  BY DEF UnreadIn
<1> HIDE DEF here
<1> DEFINE moved(i) == to \in Handles /\ i \in here
           home(i) == Home(all[i].run, to, live)
<1>8. ASSUME NEW i \in DOMAIN all
      PROVE  /\ filed[i] \in Message
             /\ filed[i].run = all[i].run
             /\ filed[i].box = IF moved(i) THEN home(i) ELSE all[i].box
             /\ filed[i].reader = all[i].reader
  <2>1. filed[i] = IF moved(i) THEN [all[i] EXCEPT !.box = home(i)] ELSE all[i]
    OBVIOUS
  <2>2. all[i] \in Message
    BY <1>6
  <2> HIDE DEF filed
  <2>3. CASE moved(i)
    <3>1. home(i) \in Boxes \cup Handles
      BY <1>6, <2>3, HomeInRun
    <3> HIDE DEF home
    <3>2. /\ [all[i] EXCEPT !.box = home(i)] \in Message
          /\ [all[i] EXCEPT !.box = home(i)].run = all[i].run
          /\ [all[i] EXCEPT !.box = home(i)].box = home(i)
          /\ [all[i] EXCEPT !.box = home(i)].reader = all[i].reader
      BY <2>2, <3>1, Readdressed
    <3> QED
      BY <2>1, <2>3, <3>2
  <2>4. CASE ~moved(i)
    BY <2>1, <2>2, <2>4
  <2> QED
    BY <2>3, <2>4
<1>9. filed \in Seq(Message) /\ Len(filed) = last /\ DOMAIN filed = DOMAIN all
  <2>1. DOMAIN filed = DOMAIN all
    OBVIOUS
  <2>2. filed = [i \in DOMAIN all |-> filed[i]]
    BY <2>1
  <2>3. filed \in [DOMAIN all -> Message]
    <3> HIDE DEF filed
    <3> QED
      BY <1>8, <2>2
  <2> HIDE DEF filed
  <2> QED
    BY <1>4, <2>3, Rewritten
<1> HIDE DEF filed
<1>10. \A i \in DOMAIN mail :
         /\ i \in DOMAIN all /\ i \in DOMAIN ms
         /\ all[i].run = mail[i].run
         /\ all[i].box = mail[i].box
         /\ all[i].reader = mail[i].reader \/ (mail[i].reader = None /\ all[i].reader = Replied)
  BY <1>4, <1>5 DEF SentBefore
<1>11. MailKept
  <2>1. ASSUME NEW i \in DOMAIN mail
        PROVE  /\ i \in DOMAIN mail'
               /\ mail'[i].run = mail[i].run
               /\ mail'[i].box = mail[i].box \/ mail[i].box \in Handles
               /\ \/ mail'[i].reader = mail[i].reader
                  \/ mail[i].reader = None /\ mail'[i].reader = Replied
    <3>1. /\ filed[i].run = all[i].run
          /\ filed[i].box = IF moved(i) THEN home(i) ELSE all[i].box
          /\ filed[i].reader = all[i].reader
          /\ i \in DOMAIN filed
      BY <1>8, <1>9, <1>10
    <3>2. moved(i) => all[i].box \in Handles
      BY <1>7
    <3> HIDE DEF moved, home
    <3> QED
      BY <1>1, <1>10, <3>1, <3>2
  <2> QED
    BY <2>1 DEF MailKept
<1>12. MailStaysInItsRun'
  <2>1. ASSUME NEW i \in DOMAIN all, filed[i].box \in Boxes
        PROVE  RunOfBox(filed[i].box) = filed[i].run
    <3>1. CASE moved(i)
      <4>1. filed[i].box = home(i) /\ filed[i].run = all[i].run
        BY <1>8, <3>1
      <4>2. home(i) \in Boxes => RunOfBox(home(i)) = all[i].run
        BY <1>6, <3>1, HomeInRun
      <4> QED
        BY <2>1, <4>1, <4>2
    <3>2. CASE ~moved(i) /\ i = last
      BY <1>2, <1>3, <1>4, <1>8, <2>1, <3>2
    <3>3. CASE ~moved(i) /\ i # last
      <4>1. i \in DOMAIN mail
        BY <1>5, <3>3 DEF SentBefore
      <4>2. filed[i].box = mail[i].box /\ filed[i].run = mail[i].run
        BY <1>8, <1>10, <3>3, <4>1
      <4> QED
        BY <2>1, <4>1, <4>2 DEF MailStaysInItsRun
    <3> QED
      BY <3>1, <3>2, <3>3
  <2> QED
    BY <1>1, <1>9, <2>1 DEF MailStaysInItsRun, RunOfBox
<1>13. MailStep
  <2>1. Len(filed) <= MaxMail
    BY <1>1, <1>4, <1>9, MailboxConstants
  <2> QED
    BY <1>1, <1>9, <1>11, <1>12, <2>1 DEF MailStep
<1>14. \A c \in woken : call[c].pc = "waiting"
  BY DEF WaitersOn
<1>15. /\ call' \in [Calls -> CallRow]
       /\ \A c \in Calls : CallKept(c)
       /\ \A c \in Calls : c \in woken => call'[c].pc = "woken"
  <2>1. PICK C : C = woken
    OBVIOUS
  <2>2. call' = Wake(C, "notified") /\ \A c \in C \cap Calls : call[c].pc = "waiting"
    BY <1>1, <1>14, <2>1
  <2> HIDE DEF woken
  <2> QED
    BY <2>1, <2>2, WokenCalls
<1>16. Heard
  <2> SUFFICES ASSUME NEW c \in Calls, call[c].pc = "waiting", call'[c].pc = "waiting",
                      NEW i \in UnreadIn(mail', call[c].box) \ UnreadIn(mail, call[c].box)
               PROVE  FALSE
    BY DEF Heard
  <2>1. \A j \in here : filed[j].box # call[c].box
    BY <1>15 DEF WaitersOn
  <2>2. i \in DOMAIN all /\ filed[i].box = call[c].box /\ filed[i].reader = None
    BY <1>1, <1>9 DEF UnreadIn
  <2>3. i \notin here
    BY <2>1, <2>2
  <2>4. all[i].box = call[c].box /\ all[i].reader = None
    BY <1>8, <2>2, <2>3
  <2>5. i # last
    BY <1>3, <1>4, <1>7, <2>2, <2>3
  <2>6. i \in DOMAIN mail
    BY <1>5, <2>2, <2>5 DEF SentBefore
  <2>7. mail[i].box = call[c].box /\ mail[i].reader = None
    BY <1>10, <2>4, <2>6
  <2> QED
    BY <2>6, <2>7 DEF UnreadIn
<1> QED
  BY <1>13, <1>15, <1>16

-----------------------------------------------------------------------------
(* How the parts of a step make up a step of the invariant *)

LEMMA RolesUnchanged ==
  ASSUME Typed, UNCHANGED <<run, known, disp>>
  PROVE  RolesTyped' /\ RunsAdvance /\ DispatchesStay
BY DEF Typed, RolesTyped, RunsAdvance, DispatchesStay

LEMMA SameDeliveries ==
  ASSUME Typed, UNCHANGED <<run, disp, deliveries>>
  PROVE  deliveries' \in Seq(DeliveryRow) /\ DeliveriesKept
PROOF
<1>1. ASSUME NEW n \in DOMAIN deliveries, Live(deliveries[n])'
      PROVE  Live(deliveries[n])
  BY <1>1 DEF Live, Active
<1> QED
  BY <1>1 DEF Typed, DeliveriesKept

LEMMA SameCalls ==
  ASSUME Typed, UNCHANGED call
  PROVE  call' \in [Calls -> CallRow] /\ \A c \in Calls : CallKept(c)
BY DEF Typed, CallKept

LEMMA OneCall ==
  ASSUME Typed, NEW c \in Calls, NEW x \in CallRow, call' = [call EXCEPT ![c] = x],
         \/ x.pc = "idle"
         \/ /\ call[c].pc # "idle"
            /\ x.who = call[c].who /\ x.box = call[c].box /\ x.gen = call[c].gen
            /\ x.ack \in {0, call[c].ack}
            /\ x.todo \subseteq call[c].todo
            /\ x.pc = "routing" => call[c].pc = "routing"
  PROVE  call' \in [Calls -> CallRow] /\ \A e \in Calls : CallKept(e)
PROOF
<1>1. call \in [Calls -> CallRow]
  BY DEF Typed
<1>2. call' \in [Calls -> CallRow] /\ call'[c] = x /\ \A e \in Calls : e # c => call'[e] = call[e]
  BY <1>1
<1>3. CallKept(c)
  BY <1>2 DEF CallKept
<1>4. \A e \in Calls : e # c => CallKept(e)
  BY <1>2 DEF CallKept
<1> QED
  BY <1>2, <1>3, <1>4

LEMMA EndedCall ==
  ASSUME Typed, NEW c \in Calls, End(c)
  PROVE  call' \in [Calls -> CallRow] /\ \A e \in Calls : CallKept(e)
BY OneCall, IdleRow DEF End

(* Each check goes on, or is one that begins. *)
LEMMA StepKeeps ==
  ASSUME IInv, RolesTyped', RunsAdvance, DispatchesStay, MailStep,
         deliveries' \in Seq(DeliveryRow), DeliveriesKept,
         call' \in [Calls -> CallRow],
         \A c \in Calls : CallKept(c) \/ CallOK(c)'
  PROVE  IInv'
PROOF
<1>1. Typed /\ HandedOut(mail, deliveries) /\ MailStaysInItsRun /\ \A c \in Calls : CallOK(c)
  BY DEF IInv
<1>2. Typed'
  BY DEF Typed, MailStep
<1>3. HandedOut(mail, deliveries)'
  BY <1>1, HandedOutKept DEF MailStep
<1>4. RowsGrow
  BY DEF MailStep, MailKept, DeliveriesKept, RowsGrow
<1>5. \A c \in Calls : CallOK(c)'
  BY <1>1, <1>4, CallOKKept
<1> QED
  BY <1>2, <1>3, <1>5 DEF IInv, MailStep

(* A step of a check that acknowledges or hands out. *)
LEMMA HandStep ==
  ASSUME IInv, UNCHANGED <<run, known, disp>>,
         mail' \in Seq(Message), Len(mail') <= MaxMail, RowsGrow, MailStaysInItsRun',
         deliveries' \in Seq(DeliveryRow), HandedOut(mail', deliveries'),
         call' \in [Calls -> CallRow], \A c \in Calls : CallKept(c)
  PROVE  IInv'
PROOF
<1>1. Typed /\ \A c \in Calls : CallOK(c)
  BY DEF IInv
<1>2. RolesTyped' /\ RunsAdvance
  BY <1>1, RolesUnchanged
<1>3. Typed'
  BY <1>2 DEF Typed
<1>4. /\ \A n \in DOMAIN deliveries' : Live(deliveries[n])' = Live(deliveries'[n])
      /\ \A n \in DOMAIN deliveries' : Acked(deliveries[n])' = Acked(deliveries'[n])
      /\ \A n \in DOMAIN deliveries' : LiveGen(deliveries[n].box)' = LiveGen(deliveries'[n].box)
      /\ \A n \in DOMAIN deliveries' : ConsumerPane(deliveries[n].box)' = ConsumerPane(deliveries'[n].box)
  BY DEF Live, Acked, Active, LiveGen, ConsumerPane
<1>5. CarriesMail(mail, deliveries)' /\ ForConsumer(mail, deliveries)'
  BY <1>4 DEF HandedOut, CarriesMail, ForConsumer
<1>6. OnePerMailbox(deliveries)' /\ ReadWhenAcked(mail, deliveries)' /\ Apart(deliveries)'
  BY <1>4 DEF HandedOut, OnePerMailbox, ReadWhenAcked, Apart
<1>7. HandedOut(mail, deliveries)'
  BY <1>5, <1>6 DEF HandedOut
<1>8. \A c \in Calls : CallOK(c)'
  BY <1>1, <1>2, CallOKKept
<1> QED
  BY <1>3, <1>7, <1>8 DEF IInv

(* A step that only moves or sends mail. *)
LEMMA MailOnly ==
  ASSUME IInv, UNCHANGED <<run, known, disp, deliveries>>, MailStep,
         call' \in [Calls -> CallRow],
         \A c \in Calls : CallKept(c) \/ CallOK(c)'
  PROVE  IInv'
BY StepKeeps, RolesUnchanged, SameDeliveries DEF IInv

-----------------------------------------------------------------------------
(* The steps *)

LEMMA TypeInit ==
  ASSUME Init
  PROVE  Typed
PROOF
<1>1. \A r \in Runs : [coord |-> None, gen |-> 0] \in RunRow
  BY MailboxConstants DEF RunRow
<1>2. [state |-> "none", handle |-> None, pane |-> None, gen |-> 0] \in DispatchRow
  BY MailboxConstants DEF DispatchRow, DispatchStates
<1>3. RolesTyped
  BY <1>1, <1>2 DEF Init, RolesTyped
<1>4. mail \in Seq(Message) /\ Len(mail) = 0 /\ deliveries \in Seq(DeliveryRow)
  BY EmptySeq DEF Init
<1>5. call \in [Calls -> CallRow]
  BY IdleRow DEF Init
<1> QED
  BY <1>3, <1>4, <1>5, MailboxConstants DEF Typed

LEMMA InitIInv ==
  ASSUME Init
  PROVE  IInv
PROOF
<1>1. Typed
  BY TypeInit
<1>2. DOMAIN mail = {} /\ DOMAIN deliveries = {}
  BY DEF Init
<1>3. HandedOut(mail, deliveries)
  BY <1>2 DEF HandedOut, CarriesMail, ForConsumer, OnePerMailbox, ReadWhenAcked, Apart
<1>4. \A c \in Calls : CallOK(c)
  BY IdleRow DEF Init, CallOK
<1>5. MailStaysInItsRun
  BY <1>2 DEF MailStaysInItsRun
<1> QED
  BY <1>1, <1>3, <1>4, <1>5 DEF IInv

LEMMA UseRunStep ==
  ASSUME IInv, NEW r \in Runs, NEW h \in Handles, UseRun(r, h)
  PROVE  IInv' /\ Heard
PROOF
<1> DEFINE left == BoundRuns(h) \ {r}
           changed == IF run[r].coord = h THEN left ELSE left \cup {r}
           toRun(q) == UNION {CoordinatorMail(mail, q, g) :
                                g \in {run[q].coord} \cup (IF q = r THEN {h} ELSE {})}
           taken(i) == mail[i].run \in left \cup {r} /\ i \in toRun(mail[i].run)
           woken == WaitersOn({h, r} \cup left)
<1>1. /\ \A q \in changed : run[q].gen < MaxGeneration
      /\ run' = [q \in Runs |->
                   IF q \in changed
                   THEN [coord |-> IF q = r THEN h ELSE None, gen |-> run[q].gen + 1]
                   ELSE run[q]]
      /\ known' = [known EXCEPT ![r] = @ \cup {h}]
      /\ mail' = [i \in DOMAIN mail |->
                    IF taken(i) THEN [mail[i] EXCEPT !.box = mail[i].run] ELSE mail[i]]
      /\ deliveries' = Fence(deliveries, changed)
      /\ call' = Wake(woken, "cancelled")
      /\ disp' = disp
  BY DEF UseRun
<1>2. /\ Typed /\ RolesTyped /\ MailStaysInItsRun
      /\ mail \in Seq(Message) /\ Len(mail) <= MaxMail
      /\ deliveries \in Seq(DeliveryRow)
  BY DEF IInv, Typed
<1>3. left \subseteq Runs /\ changed \subseteq Runs
  BY DEF BoundRuns
<1>4. \A q \in Runs : \A i \in toRun(q) : mail[i].box \in Handles
  <2>1. \A q \in Runs, g \in Handles \cup {None} : \A i \in CoordinatorMail(mail, q, g) :
          mail[i].box \in Handles
    <3>1. ASSUME NEW q \in Runs, NEW g \in Handles \cup {None}, NEW i \in CoordinatorMail(mail, q, g)
          PROVE  mail[i].box \in Handles
      <4>1. i \in UnreadIn(mail, g)
        BY <3>1 DEF CoordinatorMail, DirectMail
      <4>2. mail[i].box = g /\ g \in Boxes \cup Handles
        BY <1>2, <4>1, Unread
      <4> QED
        BY <4>2, BoxKinds
    <3> QED
      BY <3>1
  <2>2. \A q \in Runs : {run[q].coord} \cup (IF q = r THEN {h} ELSE {}) \subseteq Handles \cup {None}
    BY <1>2, RoleFields
  <2> QED
    BY <2>1, <2>2
<1> HIDE DEF left, changed, toRun, woken
<1>5. ASSUME NEW i \in DOMAIN mail
      PROVE  /\ mail'[i] \in Message
             /\ mail'[i].run = mail[i].run
             /\ mail'[i].reader = mail[i].reader
             /\ mail'[i].box = IF taken(i) THEN mail[i].run ELSE mail[i].box
             /\ taken(i) => mail[i].box \in Handles
  <2>1. mail[i] \in Message /\ mail[i].run \in Runs
    BY <1>2, MessageFields
  <2>2. mail'[i] = IF taken(i) THEN [mail[i] EXCEPT !.box = mail[i].run] ELSE mail[i]
    BY <1>1
  <2>3. taken(i) => mail[i].box \in Handles
    BY <1>4, <2>1
  <2> HIDE DEF taken
  <2>4. mail[i].run \in Boxes \cup Handles
    BY <2>1 DEF Boxes
  <2>5. /\ [mail[i] EXCEPT !.box = mail[i].run] \in Message
        /\ [mail[i] EXCEPT !.box = mail[i].run].run = mail[i].run
        /\ [mail[i] EXCEPT !.box = mail[i].run].box = mail[i].run
        /\ [mail[i] EXCEPT !.box = mail[i].run].reader = mail[i].reader
    BY <2>1, <2>4, Readdressed
  <2>6. CASE taken(i)
    BY <2>2, <2>3, <2>5, <2>6
  <2>7. CASE ~taken(i)
    BY <2>1, <2>2, <2>7
  <2> QED
    BY <2>6, <2>7
<1>6. /\ mail' \in Seq(Message) /\ Len(mail') = Len(mail) /\ DOMAIN mail' = DOMAIN mail
  <2>1. DOMAIN mail' = DOMAIN mail
    BY <1>1
  <2>2. mail' = [i \in DOMAIN mail |-> mail'[i]]
    BY <1>1
  <2>3. mail' \in [DOMAIN mail -> Message]
    BY <1>5, <2>2
  <2> QED
    BY <1>2, <2>3, Rewritten
<1>7. MailStep
  <2>1. MailKept
    BY <1>5, <1>6 DEF MailKept
  <2>2. MailStaysInItsRun'
    <3>1. ASSUME NEW i \in DOMAIN mail', mail'[i].box \in Boxes
          PROVE  RunOfBox(mail'[i].box) = mail'[i].run
      <4>1. i \in DOMAIN mail /\ mail[i].run \in Runs
        BY <1>2, <1>6, MessageFields
      <4>2. RunOfBox(mail[i].run) = mail[i].run
        BY <4>1, BoxKinds DEF RunOfBox, Boxes
      <4>3. /\ mail'[i].run = mail[i].run
            /\ mail'[i].box = IF taken(i) THEN mail[i].run ELSE mail[i].box
        BY <1>5, <4>1
      <4> HIDE DEF taken
      <4>4. CASE taken(i)
        BY <4>2, <4>3, <4>4
      <4>5. CASE ~taken(i)
        BY <1>2, <3>1, <4>1, <4>3, <4>5 DEF MailStaysInItsRun
      <4> QED
        BY <4>4, <4>5
    <3> QED
      BY <3>1 DEF MailStaysInItsRun, RunOfBox
  <2> QED
    BY <1>2, <1>6, <2>1, <2>2 DEF MailStep
<1>8. Heard
  <2>1. \A i \in DOMAIN mail :
          /\ mail'[i].box = mail[i].box \/ mail[i].box \in Handles
          /\ mail'[i].reader = None => mail[i].reader = None
    BY <1>5
  <2> QED
    BY <1>2, <1>6, <2>1, HeardRouted
<1>9. \A q \in Runs : /\ run'[q] \in RunRow
                      /\ q \in changed => run'[q].gen = run[q].gen + 1
                      /\ q \notin changed => run'[q] = run[q]
  <2>1. ASSUME NEW q \in Runs
        PROVE  /\ run'[q] \in RunRow
               /\ q \in changed => run'[q].gen = run[q].gen + 1
               /\ q \notin changed => run'[q] = run[q]
    <3>1. CASE q \in changed
      <4>1. run'[q] = [coord |-> IF q = r THEN h ELSE None, gen |-> run[q].gen + 1]
        BY <1>1, <3>1
      <4>2. run[q].gen + 1 \in 0 .. MaxGeneration
        BY <1>1, <1>2, <3>1, RoleFields, MailboxConstants
      <4> QED
        BY <3>1, <4>1, <4>2 DEF RunRow
    <3>2. CASE q \notin changed
      BY <1>1, <1>2, <3>2 DEF RolesTyped
    <3> QED
      BY <3>1, <3>2
  <2> QED
    BY <2>1
<1>10. RolesTyped' /\ RunsAdvance /\ DispatchesStay
  <2>1. run' \in [Runs -> RunRow]
    BY <1>1, <1>9
  <2>2. known' \in [Runs -> SUBSET Handles]
    BY <1>1, <1>2 DEF RolesTyped
  <2> QED
    BY <1>1, <1>2, <1>9, <2>1, <2>2 DEF RolesTyped, RunsAdvance, DispatchesStay
<1>11. deliveries' \in Seq(DeliveryRow) /\ DeliveriesKept
  <2>1. PICK B : B = changed
    OBVIOUS
  <2>2. /\ deliveries' \in Seq(DeliveryRow)
        /\ DOMAIN deliveries' = DOMAIN deliveries
        /\ \A n \in DOMAIN deliveries :
             /\ deliveries'[n].box = deliveries[n].box
             /\ deliveries'[n].gen = deliveries[n].gen
             /\ deliveries'[n].items = deliveries[n].items
             /\ deliveries'[n].pane = deliveries[n].pane
             /\ deliveries'[n].status =
                  IF deliveries[n].box \in changed /\ deliveries[n].status = "outstanding"
                  THEN "fenced" ELSE deliveries[n].status
    BY <1>1, <1>2, Fenced
  <2>3. ASSUME NEW n \in DOMAIN deliveries, Live(deliveries[n])'
        PROVE  /\ Live(deliveries[n])
               /\ deliveries[n].box \in Runs => run'[deliveries[n].box] = run[deliveries[n].box]
               /\ disp' = disp
    <3>1. deliveries[n].status = "outstanding" /\ deliveries[n].box \notin changed
      BY <2>2, <2>3 DEF Live
    <3> QED
      BY <1>1, <1>9, <2>2, <2>3, <3>1 DEF Live, Active
  <2> QED
    BY <2>2, <2>3 DEF DeliveriesKept
<1>12. call' \in [Calls -> CallRow] /\ \A c \in Calls : CallKept(c)
  <2>1. PICK C : C = woken
    OBVIOUS
  <2>2. call' = Wake(C, "cancelled") /\ \A c \in C \cap Calls : call[c].pc = "waiting"
    BY <1>1, <2>1 DEF woken, WaitersOn
  <2> QED
    BY <1>2, <2>2, WokenCalls
<1> QED
  BY <1>7, <1>8, <1>10, <1>11, <1>12, StepKeeps

LEMMA StartDispatchStep ==
  ASSUME IInv, NEW d \in Dispatches, NEW h \in Handles, StartDispatch(d, h)
  PROVE  IInv' /\ Heard
PROOF
<1> DEFINE new == [state |-> "active", handle |-> h, pane |-> PaneOf[h], gen |-> 1]
<1>1. /\ disp[d].state = "none"
      /\ disp' = [disp EXCEPT ![d] = new]
      /\ run[RunOf[d]].gen > 0
      /\ UNCHANGED <<run, known, mail, deliveries, call>>
  BY DEF StartDispatch
<1>2. /\ Typed /\ RolesTyped /\ MailStaysInItsRun
      /\ deliveries \in Seq(DeliveryRow) /\ CarriesMail(mail, deliveries)
  BY DEF IInv, Typed, HandedOut
<1>3. MailStep /\ Heard
  BY <1>1, <1>2, SameMail
<1>4. /\ disp \in [Dispatches -> DispatchRow]
      /\ disp'[d] = new
      /\ \A e \in Dispatches : e # d => disp'[e] = disp[e]
  BY <1>1, <1>2 DEF RolesTyped
<1>5. new \in DispatchRow /\ new.state # "none"
  <2>1. run[RunOf[d]].gen \in 0 .. MaxGeneration
    BY <1>2, RoleFields
  <2>2. 1 \in 0 .. MaxGeneration
    BY <1>1, <2>1, MailboxConstants
  <2> QED
    BY <2>2 DEF DispatchRow, DispatchStates, Panes
<1>6. RolesTyped' /\ RunsAdvance /\ DispatchesStay
  BY <1>1, <1>2, <1>4, <1>5 DEF RolesTyped, RunsAdvance, DispatchesStay
<1>7. DeliveriesKept
  <2>1. ASSUME NEW n \in DOMAIN deliveries, Live(deliveries[n])'
        PROVE  /\ Live(deliveries[n])
               /\ deliveries[n].box \in Dispatches => disp'[deliveries[n].box] = disp[deliveries[n].box]
    <3>1. deliveries[n].box \in Boxes /\ deliveries[n].box # d
      BY <1>1, <1>2, DeliveryFields DEF CarriesMail
    <3>2. CASE deliveries[n].box \in Runs
      BY <1>1, <2>1, <3>2, BoxKinds, <3>1 DEF Live
    <3>3. CASE deliveries[n].box \in Dispatches
      BY <1>1, <1>4, <2>1, <3>1, <3>3 DEF Live, Active
    <3> QED
      BY <3>1, <3>2, <3>3, BoxKinds
  <2> QED
    BY <1>1, <2>1 DEF DeliveriesKept
<1>8. call' \in [Calls -> CallRow] /\ \A c \in Calls : CallKept(c)
  BY <1>1, <1>2, SameCalls
<1> QED
  BY <1>1, <1>2, <1>3, <1>6, <1>7, <1>8, StepKeeps

LEMMA ReattachStep ==
  ASSUME IInv, NEW d \in Dispatches, NEW h \in Handles, NEW newHandle \in BOOLEAN,
         Reattach(d, h, newHandle)
  PROVE  IInv' /\ Heard
PROOF
<1>1. /\ Active(d) /\ disp[d].gen < MaxGeneration
      /\ disp' = [disp EXCEPT ![d].pane = PaneOf[h],
                              ![d].handle = IF newHandle THEN h ELSE disp[d].handle,
                              ![d].gen = disp[d].gen + 1]
      /\ deliveries' = Fence(deliveries, {d})
      /\ UNCHANGED <<run, known, mail, call>>
  BY DEF Reattach
<1>2. /\ Typed /\ RolesTyped /\ MailStaysInItsRun
      /\ deliveries \in Seq(DeliveryRow)
  BY DEF IInv, Typed
<1>3. MailStep /\ Heard
  BY <1>1, <1>2, SameMail
<1>4. disp \in [Dispatches -> DispatchRow] /\ disp[d] \in DispatchRow
  BY <1>2 DEF RolesTyped
<1>5. \A e \in Dispatches : e # d => disp'[e] = disp[e]
  BY <1>1, <1>4
<1>6. /\ disp'[d].state = disp[d].state
      /\ disp'[d] \in DispatchRow
  <2>1. disp'[d] = [disp[d] EXCEPT !.pane = PaneOf[h],
                                   !.handle = IF newHandle THEN h ELSE disp[d].handle,
                                   !.gen = disp[d].gen + 1]
    BY <1>1, <1>4
  <2>2. /\ disp[d].gen + 1 \in 0 .. MaxGeneration
        /\ (IF newHandle THEN h ELSE disp[d].handle) \in Handles \cup {None}
        /\ PaneOf[h] \in Panes \cup {None}
    BY <1>1, <1>2, RoleFields, MailboxConstants DEF Panes
  <2> QED
    BY <1>4, <2>1, <2>2 DEF DispatchRow
<1>7. RolesTyped' /\ RunsAdvance /\ DispatchesStay
  <2>1. disp' \in [Dispatches -> DispatchRow]
    BY <1>1, <1>4, <1>5, <1>6
  <2> QED
    BY <1>1, <1>2, <1>5, <1>6, <2>1 DEF RolesTyped, RunsAdvance, DispatchesStay
<1>8. /\ deliveries' \in Seq(DeliveryRow)
      /\ DOMAIN deliveries' = DOMAIN deliveries
      /\ \A n \in DOMAIN deliveries :
           /\ deliveries'[n].box = deliveries[n].box
           /\ deliveries'[n].gen = deliveries[n].gen
           /\ deliveries'[n].items = deliveries[n].items
           /\ deliveries'[n].pane = deliveries[n].pane
           /\ deliveries'[n].status =
                IF deliveries[n].box \in {d} /\ deliveries[n].status = "outstanding"
                THEN "fenced" ELSE deliveries[n].status
  BY <1>1, <1>2, Fenced
<1>9. DeliveriesKept
  <2>1. ASSUME NEW n \in DOMAIN deliveries, Live(deliveries[n])'
        PROVE  /\ Live(deliveries[n])
               /\ deliveries[n].box \in Dispatches => disp'[deliveries[n].box] = disp[deliveries[n].box]
    <3>1. deliveries[n].status = "outstanding" /\ deliveries[n].box # d
      BY <1>8, <2>1 DEF Live
    <3>2. deliveries[n].box \in Boxes
      BY <1>2, DeliveryFields
    <3>3. CASE deliveries[n].box \in Runs
      BY <3>1, <3>2, <3>3, BoxKinds DEF Live
    <3>4. CASE deliveries[n].box \in Dispatches
      BY <1>5, <1>8, <2>1, <3>1, <3>2, <3>4, BoxKinds DEF Live, Active
    <3> QED
      BY <3>2, <3>3, <3>4, BoxKinds
  <2> QED
    BY <1>1, <1>8, <2>1 DEF DeliveriesKept
<1>10. call' \in [Calls -> CallRow] /\ \A c \in Calls : CallKept(c)
  BY <1>1, <1>2, SameCalls
<1> QED
  BY <1>1, <1>2, <1>3, <1>7, <1>8, <1>9, <1>10, StepKeeps

LEMMA SettleDispatchStep ==
  ASSUME IInv, NEW d \in Dispatches, SettleDispatch(d)
  PROVE  IInv' /\ Heard
PROOF
<1>1. PICK outcome \in {"completed", "failed"} :
        /\ disp' = [disp EXCEPT ![d].state = outcome]
        /\ UNCHANGED <<run, known, mail, deliveries, call>>
  BY DEF SettleDispatch
<1>2. /\ Typed /\ RolesTyped /\ MailStaysInItsRun
      /\ deliveries \in Seq(DeliveryRow)
      /\ disp \in [Dispatches -> DispatchRow]
  BY DEF IInv, Typed, RolesTyped
<1>3. MailStep /\ Heard
  BY <1>1, <1>2, SameMail
<1>4. /\ \A e \in Dispatches : e # d => disp'[e] = disp[e]
      /\ disp'[d] = [disp[d] EXCEPT !.state = outcome]
  BY <1>1, <1>2
<1>5. /\ disp'[d] \in DispatchRow
      /\ disp'[d].state = outcome
  BY <1>2, <1>4 DEF DispatchRow, DispatchStates
<1>6. RolesTyped' /\ RunsAdvance /\ DispatchesStay
  <2>1. disp' \in [Dispatches -> DispatchRow]
    BY <1>1, <1>2, <1>4, <1>5
  <2> QED
    BY <1>1, <1>2, <1>4, <1>5, <2>1 DEF RolesTyped, RunsAdvance, DispatchesStay
<1>7. DeliveriesKept
  <2>1. ASSUME NEW n \in DOMAIN deliveries, Live(deliveries[n])'
        PROVE  /\ Live(deliveries[n])
               /\ deliveries[n].box \in Dispatches => disp'[deliveries[n].box] = disp[deliveries[n].box]
    <3>1. deliveries[n].box \in Boxes
      BY <1>2, DeliveryFields
    <3>2. CASE deliveries[n].box \in Runs
      BY <1>1, <2>1, <3>1, <3>2, BoxKinds DEF Live
    <3>3. CASE deliveries[n].box \in Dispatches
      BY <1>1, <1>4, <1>5, <2>1, <3>1, <3>3, BoxKinds DEF Live, Active
    <3> QED
      BY <3>1, <3>2, <3>3, BoxKinds
  <2> QED
    BY <1>1, <2>1 DEF DeliveriesKept
<1>8. call' \in [Calls -> CallRow] /\ \A c \in Calls : CallKept(c)
  BY <1>1, <1>2, SameCalls
<1> QED
  BY <1>1, <1>2, <1>3, <1>6, <1>7, <1>8, StepKeeps

(* Where a terminal's mail goes when it is addressed by its handle. *)
LEMMA ResolvedBox ==
  ASSUME NEW r, NEW h \in Handles, Resolved(r, h) # None
  PROVE  Resolved(r, h) \in Boxes \cup Handles
PROOF
<1> DEFINE past == {q \in Runs : h \in known[q]}
           to == Resolved(r, h)
<1>1. to \in {Owner(h), h, OneOf(past)} \/ (to = r /\ r \in past)
  BY DEF Resolved
<1>2. CASE to = OneOf(past)
  <2>1. OneOf(past) \in past
    BY <1>2, OneOfIn
  <2> QED
    BY <1>2, <2>1 DEF Boxes
<1>3. CASE to = Owner(h)
  BY <1>3, OwnerIsRole
<1> QED
  BY <1>1, <1>2, <1>3 DEF Boxes

LEMMA SendStep ==
  ASSUME IInv, NEW r \in Runs, NEW to \in Boxes \cup Handles, Send(r, to)
  PROVE  IInv' /\ Heard
PROOF
<1>1. PICK b : b = IF to \in Handles THEN Resolved(r, to) ELSE to
  OBVIOUS
<1>2. PICK q : q = IF b \in Boxes THEN RunOfBox(b) ELSE r
  OBVIOUS
<1>3. b # None /\ Arrive(mail, q, b, TRUE)
  BY <1>1, <1>2 DEF Send
<1>4. b \in Boxes \cup Handles
  BY <1>1, <1>3, ResolvedBox
<1>5. q \in Runs /\ (b \in Boxes => RunOfBox(b) = q)
  BY <1>2, <1>4, BoxKinds
<1>6. PICK ms : ms = mail
  OBVIOUS
<1>7. Typed /\ MailStaysInItsRun
  BY DEF IInv
<1>8. SentBefore(ms) /\ Arrive(ms, q, b, TRUE)
  BY <1>3, <1>6, <1>7 DEF SentBefore, Typed
<1>9. /\ MailStep /\ Heard
      /\ call' \in [Calls -> CallRow]
      /\ \A c \in Calls : CallKept(c)
  BY <1>4, <1>5, <1>7, <1>8, ArrivedMail
<1>10. UNCHANGED <<run, known, disp, deliveries>>
  BY <1>3 DEF Arrive
<1> QED
  BY <1>9, <1>10, MailOnly

LEMMA ReplyStep ==
  ASSUME IInv, NEW i \in DOMAIN mail, NEW h \in Handles, NEW live \in BOOLEAN, Reply(i, h, live)
  PROVE  IInv' /\ Heard
PROOF
<1>1. PICK ms : ms = MarkRead(mail, {i}, Replied)
  OBVIOUS
<1>2. PICK r : r = mail[i].run
  OBVIOUS
<1>3. Arrive(ms, r, h, live)
  BY <1>1, <1>2 DEF Reply
<1>4. Typed /\ MailStaysInItsRun /\ mail \in Seq(Message)
  BY DEF IInv, Typed
<1>5. SentBefore(ms)
  BY <1>1, <1>4, Marked DEF SentBefore
<1>6. r \in Runs /\ h \in Boxes \cup Handles /\ (h \in Boxes => RunOfBox(h) = r)
  BY <1>2, <1>4, MessageFields, BoxKinds
<1>7. /\ MailStep /\ Heard
      /\ call' \in [Calls -> CallRow]
      /\ \A c \in Calls : CallKept(c)
  BY <1>3, <1>4, <1>5, <1>6, ArrivedMail
<1>8. UNCHANGED <<run, known, disp, deliveries>>
  BY <1>3 DEF Arrive
<1> QED
  BY <1>7, <1>8, MailOnly

-----------------------------------------------------------------------------
(* The steps of a check *)

LEMMA DirectMailOf ==
  ASSUME mail \in Seq(Message), NEW r, NEW h \in Handles \cup {None},
         NEW i \in DirectMail(mail, r, h)
  PROVE  i \in DOMAIN mail /\ mail[i].box \in Handles /\ mail[i].run = r
PROOF
<1>1. i \in UnreadIn(mail, h) /\ mail[i].run = r
  BY DEF DirectMail
<1>2. i \in DOMAIN mail /\ mail[i].box = h /\ h \in Boxes \cup Handles
  BY <1>1, Unread
<1> QED
  BY <1>1, <1>2, BoxKinds

LEMMA StartStep ==
  ASSUME IInv, NEW c \in Calls, NEW h \in Handles, NEW b \in Boxes,
         NEW ack \in {0} \cup DOMAIN deliveries, NEW peek \in BOOLEAN, NEW wait \in BOOLEAN,
         NEW todo,
         \A i \in todo : i \in DOMAIN mail /\ mail[i].box \in Handles /\ mail[i].run = RunOfBox(b),
         b \in Runs => run[b].coord # None /\ PaneOf[run[b].coord] = PaneOf[h],
         Start(c, h, b, ack, peek, wait, todo)
  PROVE  IInv' /\ Heard
PROOF
<1> DEFINE new == [pc |-> "routing", who |-> h, box |-> b, gen |-> LiveGen(b), ack |-> ack,
                   peek |-> peek, wait |-> wait, todo |-> todo \ First(todo), why |-> None]
<1>1. /\ mail' = Move(mail, First(todo), b)
      /\ call' = [call EXCEPT ![c] = new]
      /\ UNCHANGED <<run, known, disp, deliveries>>
  BY DEF Start
<1>2. /\ Typed /\ RolesTyped /\ MailStaysInItsRun
      /\ mail \in Seq(Message) /\ Len(mail) <= MaxMail
      /\ deliveries \in Seq(DeliveryRow)
      /\ call \in [Calls -> CallRow]
  BY DEF IInv, Typed
<1>3. MailStep /\ Heard /\ DOMAIN mail' = DOMAIN mail
  <2>1. \A i \in First(todo) : mail[i].box \in Handles /\ mail[i].run = RunOfBox(b)
    BY FirstOf
  <2>2. PICK I : I = First(todo)
    OBVIOUS
  <2> QED
    BY <1>1, <1>2, <2>1, <2>2, RoutedMail
<1>4. LiveGen(b) \in 0 .. MaxGeneration
  BY <1>2, RoleFields, BoxKinds DEF LiveGen
<1>5. DOMAIN mail \subseteq 1 .. MaxMail /\ DOMAIN deliveries \subseteq Nat
  BY <1>2, LenProperties, MailboxConstants
<1>6. /\ new.pc = "routing" /\ new.who = h /\ new.box = b /\ new.gen = LiveGen(b)
      /\ new.ack = ack /\ new.todo \subseteq todo
  OBVIOUS
<1>7. new \in CallRow
  <2>1. todo \ First(todo) \in SUBSET (1 .. MaxMail) /\ ack \in Nat
    BY <1>5
  <2> QED
    BY <1>4, <2>1 DEF CallRow
<1> HIDE DEF new
<1>8. call' \in [Calls -> CallRow] /\ call'[c] = new /\ \A e \in Calls : e # c => call'[e] = call[e]
  BY <1>1, <1>2, <1>7
<1>9. CallOK(c)'
  <2>1. CallNamed(c)'
    BY <1>1, <1>3, <1>6, <1>8 DEF CallNamed
  <2>2. CallCurrent(c)'
    <3>1. CASE b \in Runs
      <4>1. call'[c].gen = run[b].gen /\ run[b].gen \in Nat
        BY <1>2, <1>6, <1>8, <3>1, RoleFields, MailboxConstants DEF LiveGen
      <4> QED
        BY <1>1, <1>6, <1>8, <3>1, <4>1 DEF CallCurrent
    <3>2. CASE b \notin Runs
      BY <1>6, <1>8, <3>2 DEF CallCurrent
    <3> QED
      BY <3>1, <3>2
  <2>3. TodoInRun(c)'
    <3>1. \A i \in todo : mail'[i].run = RunOfBox(b)
      BY <1>3 DEF MailStep, MailKept
    <3> QED
      BY <1>6, <1>8, <3>1 DEF TodoInRun, RunOfBox
  <2> QED
    BY <2>1, <2>2, <2>3 DEF CallOK
<1>10. \A e \in Calls : CallKept(e) \/ CallOK(e)'
  BY <1>8, <1>9 DEF CallKept
<1> QED
  BY <1>1, <1>3, <1>8, <1>10, MailOnly

LEMMA CheckRunStep ==
  ASSUME IInv, NEW c \in Calls, NEW h \in Handles, NEW ack \in {0} \cup DOMAIN deliveries,
         NEW peek \in BOOLEAN, NEW wait \in BOOLEAN, CheckRun(c, h, ack, peek, wait)
  PROVE  IInv' /\ Heard
PROOF
<1>1. PICK r : r = BoundRun(h)
  OBVIOUS
<1>2. PICK todo : todo = CoordinatorMail(mail, r, h) \cup CoordinatorMail(mail, r, run[r].coord)
  OBVIOUS
<1>3. r # None /\ Start(c, h, r, ack, peek, wait, todo)
  BY <1>1, <1>2 DEF CheckRun
<1>4. r \in Runs /\ run[r].coord # None /\ PaneOf[run[r].coord] = PaneOf[h]
  BY <1>1, <1>3, BoundRunOf
<1>5. mail \in Seq(Message) /\ run[r].coord \in Handles \cup {None}
  BY <1>4, RoleFields DEF IInv, Typed
<1>6. ASSUME NEW i \in todo
      PROVE  i \in DOMAIN mail /\ mail[i].box \in Handles /\ mail[i].run = r
  <2>1. PICK g \in Handles \cup {None} : i \in DirectMail(mail, r, g)
    BY <1>2, <1>5, <1>6 DEF CoordinatorMail
  <2> QED
    BY <1>5, <2>1, DirectMailOf
<1>7. r \in Boxes /\ RunOfBox(r) = r
  BY <1>4, BoxKinds DEF Boxes, RunOfBox
<1> QED
  BY <1>3, <1>4, <1>6, <1>7, StartStep

LEMMA CheckWorkerStep ==
  ASSUME IInv, NEW c \in Calls, NEW h \in Handles, NEW ack \in {0} \cup DOMAIN deliveries,
         NEW peek \in BOOLEAN, NEW wait \in BOOLEAN, CheckWorker(c, h, ack, peek, wait)
  PROVE  IInv' /\ Heard
PROOF
<1>1. PICK d : d = ActiveDispatch(h)
  OBVIOUS
<1>2. PICK todo : todo = DirectMail(mail, RunOf[d], h) \cup DirectMail(mail, RunOf[d], disp[d].handle)
  OBVIOUS
<1>3. d # None /\ Start(c, h, d, ack, peek, wait, todo)
  BY <1>1, <1>2 DEF CheckWorker
<1>4. d \in Dispatches
  BY <1>1, <1>3, ActiveDispatchOf
<1>5. mail \in Seq(Message) /\ disp[d].handle \in Handles \cup {None}
  BY <1>4, RoleFields DEF IInv, Typed
<1>6. ASSUME NEW i \in todo
      PROVE  i \in DOMAIN mail /\ mail[i].box \in Handles /\ mail[i].run = RunOf[d]
  BY <1>2, <1>5, <1>6, DirectMailOf
<1>7. d \in Boxes /\ RunOfBox(d) = RunOf[d] /\ d \notin Runs
  BY <1>4, BoxKinds DEF Boxes, RunOfBox
<1> QED
  BY <1>3, <1>6, <1>7, StartStep

LEMMA CheckDirectStep ==
  ASSUME IInv, NEW c \in Calls, NEW h \in Handles,
         NEW peek \in BOOLEAN, NEW wait \in BOOLEAN, CheckDirect(c, h, peek, wait)
  PROVE  IInv' /\ Heard
PROOF
<1> DEFINE new == [Idle EXCEPT !.pc = "waiting", !.who = h, !.box = h, !.peek = peek, !.wait = TRUE]
<1>1. /\ UNCHANGED <<run, known, disp, deliveries>>
      /\ \/ call' = [call EXCEPT ![c] = new] /\ mail' = mail
         \/ mail' = MarkRead(mail, UnreadIn(mail, h), h) /\ call' = call
  BY DEF CheckDirect
<1>2. /\ Typed /\ MailStaysInItsRun
      /\ call \in [Calls -> CallRow]
  BY DEF IInv, Typed
<1>3. CASE call' = [call EXCEPT ![c] = new] /\ mail' = mail
  <2>1. MailStep /\ Heard
    BY <1>2, <1>3, SameMail
  <2>2. /\ new \in CallRow
        /\ new.pc = "waiting" /\ new.who = h /\ new.box = h /\ new.ack = 0 /\ new.todo = {}
    BY IdleRow DEF Idle, CallRow
  <2> HIDE DEF new
  <2>3. /\ call' \in [Calls -> CallRow] /\ call'[c] = new
        /\ \A e \in Calls : e # c => call'[e] = call[e]
    BY <1>2, <1>3, <2>2
  <2>4. CallOK(c)'
    <3>1. h \notin Runs
      BY BoxKinds DEF Boxes
    <3> QED
      BY <2>2, <2>3, <3>1 DEF CallOK, CallNamed, CallCurrent, TodoInRun
  <2>5. \A e \in Calls : CallKept(e) \/ CallOK(e)'
    BY <2>3, <2>4 DEF CallKept
  <2> QED
    BY <1>1, <2>1, <2>3, <2>5, MailOnly
<1>4. CASE mail' = MarkRead(mail, UnreadIn(mail, h), h) /\ call' = call
  <2>1. MailStep /\ Heard
    BY <1>2, <1>4, ReadMail
  <2>2. call' \in [Calls -> CallRow] /\ \A e \in Calls : CallKept(e)
    BY <1>2, <1>4, SameCalls
  <2> QED
    BY <1>1, <2>1, <2>2, MailOnly
<1> QED
  BY <1>1, <1>3, <1>4

LEMMA RoutePageStep ==
  ASSUME IInv, NEW c \in Calls, RoutePage(c)
  PROVE  IInv' /\ Heard
PROOF
<1>1. PICK b : b = call[c].box
  OBVIOUS
<1>2. PICK page : page = {i \in First(call[c].todo) :
                            /\ mail[i].box \in Handles /\ mail[i].reader = None
                            /\ b \in Runs => ~WorksFor(b, mail[i].box)}
  OBVIOUS
<1>3. PICK new : new = [call[c] EXCEPT !.todo = call[c].todo \ First(call[c].todo)]
  OBVIOUS
<1>4. /\ call[c].pc = "routing"
      /\ mail' = Move(mail, page, b)
      /\ call' = [call EXCEPT ![c] = new]
      /\ UNCHANGED <<run, known, disp, deliveries>>
  BY <1>1, <1>2, <1>3 DEF RoutePage
<1>5. Typed /\ MailStaysInItsRun /\ CallNamed(c) /\ TodoInRun(c)
  BY <1>4 DEF IInv, CallOK
<1>6. b \in Boxes /\ \A i \in page : mail[i].box \in Handles /\ mail[i].run = RunOfBox(b)
  BY <1>1, <1>2, <1>4, <1>5, FirstOf DEF CallNamed, TodoInRun
<1>7. MailStep /\ Heard
  BY <1>4, <1>5, <1>6, RoutedMail
<1>8. /\ new \in CallRow
      /\ new.pc = "routing" /\ new.who = call[c].who /\ new.box = call[c].box
      /\ new.gen = call[c].gen /\ new.ack = call[c].ack /\ new.todo \subseteq call[c].todo
  <2>1. call[c] \in CallRow
    BY <1>5, CallFields
  <2> QED
    BY <1>3, <1>4, <2>1 DEF CallRow
<1>9. call' \in [Calls -> CallRow] /\ \A e \in Calls : CallKept(e)
  BY <1>4, <1>5, <1>8, OneCall
<1> QED
  BY <1>4, <1>7, <1>9, MailOnly

(* A caller that is still the consumer of its mailbox has the pane that the *)
(* mailbox hands mail to.                                                   *)
LEMMA ConsumerOf ==
  ASSUME NEW c \in Calls, call[c].box \in Boxes, StillConsumer(c)
  PROVE  /\ call[c].box \in Runs => run[call[c].box].coord # None
         /\ call[c].box \in Dispatches => Active(call[c].box)
         /\ PaneOf[call[c].who] = ConsumerPane(call[c].box)
PROOF
<1>1. CASE call[c].box \in Runs
  <2>1. BoundRun(call[c].who) = call[c].box
    BY <1>1 DEF StillConsumer
  <2>2. BoundRun(call[c].who) # None
    BY <2>1, BoxKinds
  <2> QED
    BY <1>1, <2>1, <2>2, BoundRunOf, BoxKinds DEF ConsumerPane
<1>2. CASE call[c].box \notin Runs
  <2>1. ActiveDispatch(call[c].who) = call[c].box /\ HoldsPane(call[c].who, call[c].box)
    BY <1>2 DEF StillConsumer
  <2>2. ActiveDispatch(call[c].who) # None
    BY <2>1, BoxKinds
  <2> QED
    BY <1>2, <2>1, <2>2, ActiveDispatchOf DEF ConsumerPane, HoldsPane
<1> QED
  BY <1>1, <1>2

LEMMA ServeStep ==
  ASSUME IInv, NEW c \in Calls, Serve(c)
  PROVE  IInv' /\ Heard
PROOF
<1>1. PICK b : b = call[c].box
  OBVIOUS
<1>2. PICK g : g = call[c].gen
  OBVIOUS
<1>3. PICK n : n = call[c].ack
  OBVIOUS
<1>4. PICK h : h = call[c].who
  OBVIOUS
<1>5. PICK ms : ms = MarkRead(mail, AckedItems(n), h)
  OBVIOUS
<1>6. PICK ds : ds = AckedDeliveries(n)
  OBVIOUS
<1>7. PICK waits \in BOOLEAN :
        call' = [call EXCEPT ![c] = IF waits THEN [call[c] EXCEPT !.pc = "waiting", !.ack = 0]
                                             ELSE Idle]
  BY DEF Serve
<1>8. /\ call[c].pc = "routing"
      /\ StillConsumer(c)
      /\ mail' = IF AckAllowed(n, b, g) THEN ms ELSE mail
      /\ deliveries' = IF ~AckAllowed(n, b, g) THEN deliveries
                       ELSE IF call[c].peek THEN ds ELSE Take(ds, ms, b, g, h)
      /\ UNCHANGED <<run, known, disp>>
  BY <1>1, <1>2, <1>3, <1>4, <1>5, <1>6 DEF Serve
<1>9. /\ Typed /\ RolesTyped /\ MailStaysInItsRun /\ HandedOut(mail, deliveries) /\ CallNamed(c)
      /\ mail \in Seq(Message) /\ Len(mail) <= MaxMail
      /\ deliveries \in Seq(DeliveryRow)
  BY <1>8 DEF IInv, CallOK, Typed
<1>10. b \in Boxes /\ h \in Handles /\ n \in {0} \cup DOMAIN deliveries /\ g \in 0 .. MaxGeneration
  BY <1>1, <1>2, <1>3, <1>4, <1>8, <1>9, CallFields DEF CallNamed
<1>11. /\ b \in Runs => run[b].coord # None
       /\ b \in Dispatches => Active(b)
       /\ PaneOf[h] = ConsumerPane(b)
  BY <1>1, <1>4, <1>8, <1>10, ConsumerOf
<1>12. call' \in [Calls -> CallRow] /\ \A e \in Calls : CallKept(e)
  <2>1. PICK x : x = IF waits THEN [call[c] EXCEPT !.pc = "waiting", !.ack = 0] ELSE Idle
    OBVIOUS
  <2>2. call[c] \in CallRow
    BY <1>9, CallFields
  <2>3. CASE waits
    <3>1. /\ x \in CallRow
          /\ x.pc = "waiting" /\ x.who = call[c].who /\ x.box = call[c].box
          /\ x.gen = call[c].gen /\ x.ack = 0 /\ x.todo = call[c].todo
      BY <2>1, <2>2, <2>3 DEF CallRow
    <3> QED
      BY <1>7, <1>8, <1>9, <2>1, <3>1, OneCall
  <2>4. CASE ~waits
    BY <1>7, <1>9, <2>1, <2>4, IdleRow, OneCall
  <2> QED
    BY <2>3, <2>4
<1>13. CASE ~AckAllowed(n, b, g)
  <2>1. MailStep /\ Heard
    BY <1>8, <1>9, <1>13, SameMail
  <2> QED
    BY <1>8, <1>12, <1>13, <2>1, MailOnly
<1>14. CASE AckAllowed(n, b, g)
  <2>1. /\ ms \in Seq(Message) /\ Len(ms) = Len(mail) /\ DOMAIN ms = DOMAIN mail
        /\ \A i \in DOMAIN mail :
             /\ ms[i].run = mail[i].run
             /\ ms[i].box = mail[i].box
             /\ ms[i].reader = IF i \in AckedItems(n) /\ mail[i].reader = None
                               THEN h ELSE mail[i].reader
    BY <1>5, <1>9, <1>10, Marked
  <2>2. ds \in Seq(DeliveryRow) /\ DOMAIN ds = DOMAIN deliveries /\ HandedOut(ms, ds)
    BY <1>5, <1>6, <1>9, <1>10, <1>11, <1>14, Acknowledged
  <2>3. /\ Take(ds, ms, b, g, h) \in Seq(DeliveryRow)
        /\ DOMAIN ds \subseteq DOMAIN Take(ds, ms, b, g, h)
        /\ HandedOut(ms, Take(ds, ms, b, g, h))
    BY <1>9, <1>10, <1>11, <2>1, <2>2, Taken
  <2>4. mail' = ms /\ deliveries' \in {ds, Take(ds, ms, b, g, h)}
    BY <1>8, <1>14
  <2>5. /\ deliveries' \in Seq(DeliveryRow)
        /\ DOMAIN deliveries \subseteq DOMAIN deliveries'
        /\ HandedOut(mail', deliveries')
    BY <2>2, <2>3, <2>4
  <2>6. RowsGrow
    BY <2>1, <2>4, <2>5 DEF RowsGrow
  <2>7. MailStaysInItsRun'
    BY <1>9, <2>1, <2>4 DEF MailStaysInItsRun, RunOfBox
  <2>8. Heard
    <3>1. \A i \in DOMAIN mail :
            /\ mail'[i].box = mail[i].box \/ mail[i].box \in Handles
            /\ mail'[i].reader = None => mail[i].reader = None
      BY <1>10, <2>1, <2>4, BoxKinds
    <3> QED
      BY <1>9, <2>1, <2>4, <3>1, HeardRouted
  <2>9. mail' \in Seq(Message) /\ Len(mail') <= MaxMail
    BY <1>9, <2>1, <2>4
  <2> QED
    BY <1>8, <1>12, <2>5, <2>6, <2>7, <2>8, <2>9, HandStep
<1> QED
  BY <1>13, <1>14

LEMMA LeaveMailStep ==
  ASSUME IInv, NEW c \in Calls, call[c].box \in Boxes, LeaveMail(c)
  PROVE  IInv' /\ Heard
PROOF
<1>1. PICK d : d = call[c].box
  OBVIOUS
<1>2. PICK left : left = IF d \in Dispatches /\ ~Active(d) THEN UnreadIn(mail, d) ELSE {}
  OBVIOUS
<1>3. PICK woken : woken = IF left = {} THEN {} ELSE WaitersOn({RunOf[d]})
  OBVIOUS
<1>4. /\ mail' = IF left = {} THEN mail ELSE Move(mail, left, RunOf[d])
      /\ call' = [Wake(woken, "notified") EXCEPT ![c] = Idle]
      /\ UNCHANGED <<run, known, disp, deliveries>>
  BY <1>1, <1>2, <1>3 DEF LeaveMail
<1>5. /\ Typed /\ MailStaysInItsRun
      /\ mail \in Seq(Message) /\ Len(mail) <= MaxMail
  BY DEF IInv, Typed
<1>6. \A e \in woken : call[e].pc = "waiting"
  BY <1>3 DEF WaitersOn
<1>7. /\ Wake(woken, "notified") \in [Calls -> CallRow]
      /\ \A e \in Calls :
           LET new == Wake(woken, "notified")[e]
           IN /\ e \in woken => new.pc = "woken"
              /\ e \notin woken => new = call[e]
              /\ new.who = call[e].who /\ new.box = call[e].box /\ new.gen = call[e].gen
              /\ new.ack = call[e].ack /\ new.todo = call[e].todo
              /\ new.pc # "idle" => call[e].pc # "idle"
              /\ new.pc = "routing" => call[e].pc = "routing"
  BY <1>5, <1>6, Woken
<1>8. /\ call' \in [Calls -> CallRow]
      /\ call'[c] = Idle
      /\ \A e \in Calls : e # c => call'[e] = Wake(woken, "notified")[e]
  BY <1>4, <1>7, IdleRow
<1>9. \A e \in Calls : CallKept(e)
  BY <1>7, <1>8, IdleRow DEF CallKept
<1>10. CASE left = {}
  <2>1. MailStep /\ Heard
    BY <1>4, <1>5, <1>10, SameMail
  <2> QED
    BY <1>4, <1>8, <1>9, <2>1, MailOnly
<1>11. CASE left # {}
  <2>1. d \in Dispatches /\ ~Active(d) /\ left = UnreadIn(mail, d) /\ d \in Boxes
    BY <1>1, <1>2, <1>11
  <2>2. RunOf[d] \in Runs /\ RunOf[d] \in Boxes /\ RunOfBox(RunOf[d]) = RunOf[d] /\ RunOfBox(d) = RunOf[d]
    BY <2>1, MailboxConstants DEF Boxes, RunOfBox
  <2>3. /\ mail' \in Seq(Message) /\ Len(mail') = Len(mail) /\ DOMAIN mail' = DOMAIN mail
        /\ \A i \in DOMAIN mail :
             /\ mail'[i].run = mail[i].run
             /\ mail'[i].box = IF i \in left THEN RunOf[d] ELSE mail[i].box
             /\ mail'[i].reader = mail[i].reader
    BY <1>4, <1>5, <1>11, <2>2, Moved
  <2>4. \A i \in left : i \in DOMAIN mail /\ mail[i].box = d
    BY <1>5, <2>1, Unread
  <2>5. MailKept
    BY <2>1, <2>3, <2>4 DEF MailKept
  <2>6. MailStaysInItsRun'
    <3>1. ASSUME NEW i \in DOMAIN mail, mail'[i].box \in Boxes
          PROVE  RunOfBox(mail'[i].box) = mail'[i].run
      <4>1. CASE i \in left
        BY <1>5, <2>1, <2>2, <2>3, <2>4, <4>1 DEF MailStaysInItsRun
      <4>2. CASE i \notin left
        BY <1>5, <2>3, <3>1, <4>2 DEF MailStaysInItsRun
      <4> QED
        BY <4>1, <4>2
    <3> QED
      BY <2>3, <3>1 DEF MailStaysInItsRun, RunOfBox
  <2>7. MailStep
    BY <1>5, <2>3, <2>5, <2>6 DEF MailStep
  <2>8. Heard
    <3> SUFFICES ASSUME NEW e \in Calls, call[e].pc = "waiting", call'[e].pc = "waiting",
                        NEW i \in UnreadIn(mail', call[e].box) \ UnreadIn(mail, call[e].box)
                 PROVE  FALSE
      BY DEF Heard
    <3>1. e \notin woken
      BY <1>7, <1>8, IdleRow
    <3>2. call[e].box # RunOf[d]
      BY <1>3, <1>11, <3>1 DEF WaitersOn
    <3>3. i \in DOMAIN mail /\ mail'[i].box = call[e].box /\ mail'[i].reader = None
      BY <2>3 DEF UnreadIn
    <3>4. mail[i].box = call[e].box /\ mail[i].reader = None
      BY <2>3, <3>2, <3>3
    <3> QED
      BY <3>3, <3>4 DEF UnreadIn
  <2> QED
    BY <1>4, <1>8, <1>9, <2>7, <2>8, MailOnly
<1> QED
  BY <1>10, <1>11

LEMMA RefuseStep ==
  ASSUME IInv, NEW c \in Calls, Refuse(c)
  PROVE  IInv' /\ Heard
PROOF
<1>1. call[c].box \in Boxes /\ LeaveMail(c)
  BY DEF Refuse, IInv, CallOK, CallNamed
<1> QED
  BY <1>1, LeaveMailStep

LEMMA ResumeStep ==
  ASSUME IInv, NEW c \in Calls, Resume(c)
  PROVE  IInv' /\ Heard
PROOF
<1>1. PICK b : b = call[c].box
  OBVIOUS
<1>2. PICK g : g = call[c].gen
  OBVIOUS
<1>3. PICK h : h = call[c].who
  OBVIOUS
<1>4. call[c].pc = "woken" /\ b \in Boxes
  BY <1>1 DEF Resume
<1>5. CASE LeaveMail(c)
  BY <1>1, <1>4, <1>5, LeaveMailStep
<1>6. CASE ~LeaveMail(c)
  <2>1. /\ IF b \in Runs THEN run[b].gen = g ELSE StillConsumer(c)
        /\ deliveries' \in {deliveries, Take(deliveries, mail, b, g, h)}
        /\ End(c)
        /\ UNCHANGED <<run, known, disp, mail>>
    BY <1>1, <1>2, <1>3, <1>6 DEF Resume
  <2>2. /\ Typed /\ RolesTyped /\ MailStaysInItsRun /\ HandedOut(mail, deliveries)
        /\ CallNamed(c) /\ CallCurrent(c)
        /\ mail \in Seq(Message) /\ Len(mail) <= MaxMail
        /\ deliveries \in Seq(DeliveryRow)
    BY <1>4 DEF IInv, CallOK, Typed
  <2>3. h \in Handles /\ g \in 0 .. MaxGeneration
    BY <1>2, <1>3, <2>2, CallFields DEF CallNamed
  <2>4. /\ b \in Runs => run[b].coord # None
        /\ b \in Dispatches => Active(b)
        /\ PaneOf[h] = ConsumerPane(b)
    <3>1. CASE b \in Runs
      BY <1>1, <1>2, <1>3, <1>4, <2>1, <2>2, <3>1, BoxKinds DEF CallCurrent, ConsumerPane
    <3>2. CASE b \notin Runs
      BY <1>1, <1>3, <1>4, <2>1, <3>2, ConsumerOf
    <3> QED
      BY <3>1, <3>2
  <2>5. PICK ms : ms = mail
    OBVIOUS
  <2>6. PICK ds : ds = deliveries
    OBVIOUS
  <2>7. /\ Take(ds, ms, b, g, h) \in Seq(DeliveryRow)
        /\ DOMAIN ds \subseteq DOMAIN Take(ds, ms, b, g, h)
        /\ HandedOut(ms, Take(ds, ms, b, g, h))
    BY <1>4, <2>2, <2>3, <2>4, <2>5, <2>6, Taken
  <2>8. mail' = ms /\ deliveries' \in {ds, Take(ds, ms, b, g, h)} /\ HandedOut(ms, ds)
    BY <2>1, <2>2, <2>5, <2>6
  <2>9. /\ deliveries' \in Seq(DeliveryRow)
        /\ DOMAIN deliveries \subseteq DOMAIN deliveries'
        /\ HandedOut(mail', deliveries')
    BY <2>2, <2>6, <2>7, <2>8
  <2>10. RowsGrow
    BY <2>1, <2>9 DEF RowsGrow
  <2>11. MailStep /\ Heard
    BY <2>1, <2>2, SameMail
  <2>12. call' \in [Calls -> CallRow] /\ \A e \in Calls : CallKept(e)
    BY <2>1, <2>2, EndedCall
  <2> QED
    BY <2>1, <2>9, <2>10, <2>11, <2>12, HandStep DEF MailStep
<1> QED
  BY <1>5, <1>6

LEMMA ResumeDirectStep ==
  ASSUME IInv, NEW c \in Calls, ResumeDirect(c)
  PROVE  IInv' /\ Heard
PROOF
<1>1. PICK b : b = call[c].box
  OBVIOUS
<1>2. PICK h : h = call[c].who
  OBVIOUS
<1>3. /\ call[c].pc = "woken" /\ b \in Handles
      /\ mail' \in {mail, MarkRead(mail, UnreadIn(mail, b), h)}
      /\ End(c)
      /\ UNCHANGED <<run, known, disp, deliveries>>
  BY <1>1, <1>2 DEF ResumeDirect
<1>4. Typed /\ MailStaysInItsRun /\ CallNamed(c)
  BY <1>3 DEF IInv, CallOK
<1>5. h \in Handles
  BY <1>2, <1>4 DEF CallNamed
<1>6. MailStep /\ Heard
  BY <1>3, <1>4, <1>5, SameMail, ReadMail
<1>7. call' \in [Calls -> CallRow] /\ \A e \in Calls : CallKept(e)
  BY <1>3, <1>4, EndedCall
<1> QED
  BY <1>3, <1>6, <1>7, MailOnly

(* The wait ends, the client hangs up, the runtime restarts. *)
LEMMA CutOffStep ==
  ASSUME IInv, (\E c \in Calls : GiveUp(c) \/ Abort(c)) \/ Restart
  PROVE  IInv' /\ Heard
PROOF
<1>1. UNCHANGED <<run, known, disp, mail, deliveries>>
  BY DEF GiveUp, Abort, Restart
<1>2. Typed /\ MailStaysInItsRun
  BY DEF IInv
<1>3. MailStep /\ Heard
  BY <1>1, <1>2, SameMail
<1>4. ASSUME NEW c \in Calls, GiveUp(c)
      PROVE  call' \in [Calls -> CallRow] /\ \A e \in Calls : CallKept(e)
  <2>1. PICK why \in {"timed_out", "cancelled"} : call' = Wake({c}, why)
    BY <1>4 DEF GiveUp
  <2>2. \A e \in {c} \cap Calls : call[e].pc = "waiting"
    BY <1>4 DEF GiveUp
  <2> QED
    BY <1>2, <2>1, <2>2, WokenCalls
<1>5. ASSUME NEW c \in Calls, Abort(c)
      PROVE  call' \in [Calls -> CallRow] /\ \A e \in Calls : CallKept(e)
  BY <1>2, <1>5, EndedCall DEF Abort
<1>6. call' \in [Calls -> CallRow] /\ \A e \in Calls : CallKept(e)
  <2>1. CASE Restart
    BY <2>1, IdleRow DEF Restart, CallKept
  <2> QED
    BY <1>4, <1>5, <2>1
<1> QED
  BY <1>1, <1>3, <1>6, MailOnly

LEMMA NextStep ==
  ASSUME IInv, Next
  PROVE  IInv' /\ Heard
PROOF
<1>1. ASSUME NEW r \in Runs, NEW h \in Handles, UseRun(r, h)
      PROVE  IInv' /\ Heard
  BY <1>1, UseRunStep
<1>2. ASSUME NEW d \in Dispatches, NEW h \in Handles,
             StartDispatch(d, h) \/ (\E newHandle \in BOOLEAN : Reattach(d, h, newHandle))
      PROVE  IInv' /\ Heard
  BY <1>2, StartDispatchStep, ReattachStep
<1>3. ASSUME NEW d \in Dispatches, SettleDispatch(d)
      PROVE  IInv' /\ Heard
  BY <1>3, SettleDispatchStep
<1>4. ASSUME NEW r \in Runs, NEW to \in Boxes \cup Handles, Send(r, to)
      PROVE  IInv' /\ Heard
  BY <1>4, SendStep
<1>5. ASSUME NEW i \in DOMAIN mail, NEW h \in Handles, NEW live \in BOOLEAN, Reply(i, h, live)
      PROVE  IInv' /\ Heard
  BY <1>5, ReplyStep
<1>6. ASSUME NEW c \in Calls, Check(c)
      PROVE  IInv' /\ Heard
  <2>1. PICK h \in Handles, peek \in BOOLEAN, wait \in BOOLEAN :
          \/ CheckDirect(c, h, peek, wait)
          \/ \E ack \in {0} \cup DOMAIN deliveries :
               CheckRun(c, h, ack, peek, wait) \/ CheckWorker(c, h, ack, peek, wait)
    BY <1>6 DEF Check
  <2> QED
    BY <2>1, CheckDirectStep, CheckRunStep, CheckWorkerStep
<1>7. ASSUME NEW c \in Calls, Step(c)
      PROVE  IInv' /\ Heard
  BY <1>7, RoutePageStep, ServeStep, RefuseStep, ResumeStep, ResumeDirectStep DEF Step
<1>8. CASE (\E c \in Calls : GiveUp(c) \/ Abort(c)) \/ Restart
  BY <1>8, CutOffStep
<1> QED
  BY <1>1, <1>2, <1>3, <1>4, <1>5, <1>6, <1>7, <1>8 DEF Next

LEMMA StutterStep ==
  ASSUME IInv, UNCHANGED vars
  PROVE  IInv'
PROOF
<1>1. UNCHANGED <<run, known, disp, mail, deliveries, call>>
  BY DEF vars
<1>2. Typed /\ MailStaysInItsRun
  BY DEF IInv
<1>3. MailStep
  BY <1>1, <1>2, SameMail
<1>4. call' \in [Calls -> CallRow] /\ \A e \in Calls : CallKept(e)
  BY <1>1, <1>2, SameCalls
<1> QED
  BY <1>1, <1>3, <1>4, MailOnly

(* Deliveries are handed out to the mailbox's consumer and share no message  *)
(* once acknowledged, what a check in progress remembers of its mailbox is   *)
(* still true of it, and mail is in mailboxes of its own run.                *)
THEOREM Invariance == Spec => []IInv
PROOF
<1>1. Init => IInv
  BY InitIInv
<1>2. IInv /\ [Next]_vars => IInv'
  BY NextStep, StutterStep
<1> QED
  BY <1>1, <1>2, PTL DEF Spec

-----------------------------------------------------------------------------
(* The theorems *)

(* Every row of the mailboxes keeps its shape, and a check waits for a       *)
(* mailbox of a role or of a terminal: TypeOK.                               *)
THEOREM TypeCorrect == Spec => []TypeOK
PROOF
<1>1. IInv => TypeOK
  <2> SUFFICES ASSUME IInv
               PROVE  TypeOK
    OBVIOUS
  <2>1. Typed
    BY DEF IInv
  <2>2. \A i \in DOMAIN mail : mail[i] \in Message
    BY <2>1, MessageFields DEF Typed
  <2>3. \A n \in DOMAIN deliveries : deliveries[n] \in DeliveryRow
    BY <2>1, DeliveryFields DEF Typed
  <2> QED
    BY <2>1, <2>2, <2>3
    DEF TypeOK, Typed, RolesTyped, RunRow, DispatchRow, Message, DeliveryRow, CallRow
<1> QED
  BY <1>1, Invariance, PTL

(* The Delivery that a live mailbox has outstanding was handed out at the    *)
(* generation the mailbox is at: a change of coordinator or of a worker's    *)
(* terminal fences it, and a read that awaited meanwhile creates none        *)
(* (getOrCreateMailboxDelivery, fenceOutstandingMailboxDelivery).            *)
THEOREM OutstandingDeliveriesAreCurrent == Spec => []OutstandingIsCurrent
PROOF
<1>1. IInv => OutstandingIsCurrent
  BY DEF IInv, HandedOut, ForConsumer, Live, OutstandingIsCurrent, Outstanding
<1> QED
  BY <1>1, Invariance, PTL

(* Whatever coordinators and workers were handed a message over time, at     *)
(* most one acknowledged Delivery has it (acknowledgeMailboxDelivery).       *)
THEOREM MessagesAreFinishedOnce == Spec => []AcknowledgedOnce
PROOF
<1>1. IInv => AcknowledgedOnce
  BY DEF IInv, HandedOut, Apart, Acked, AcknowledgedOnce
<1> QED
  BY <1>1, Invariance, PTL

(* An acknowledgement, however late, marks read only what its own terminal's *)
(* pane was handed.                                                          *)
THEOREM ReceiversRead == Spec => []ReadByItsReceiver
PROOF
<1>1. IInv => ReadByItsReceiver
  BY DEF IInv, HandedOut, ReadWhenAcked, Acked, ReadByItsReceiver
<1> QED
  BY <1>1, Invariance, PTL

(* A message never reaches a mailbox of another run, by whatever handles,    *)
(* panes and roles it is routed while terminals change runs                  *)
(* (routeUnreadDirectMessagesToRunMailbox, notifyMessageArrived).            *)
THEOREM RunsKeepTheirMail == Spec => []MailStaysInItsRun
PROOF
<1>1. IInv => MailStaysInItsRun
  BY DEF IInv
<1> QED
  BY <1>1, Invariance, PTL

(* A step that puts mail into the mailbox a check waits for wakes it, unless *)
(* another check or a change of coordinator routes it there from a terminal  *)
(* (RuntimeMessageWaiters).                                                  *)
THEOREM WaitersAreWoken == Spec => WaitersHear
PROOF
<1>1. IInv /\ [Next]_vars => [Heard]_vars
  BY NextStep
<1>2. [Heard]_vars =>
        [\A c \in Calls : LET b == call[c].box IN
           call[c].pc = "waiting" /\ call'[c].pc = "waiting"
           => \A i \in UnreadIn(mail', b) \ UnreadIn(mail, b) :
                Len(mail') = Len(mail) /\ mail[i].box \in Handles]_vars
  BY DEF Heard
<1> QED
  BY <1>1, <1>2, Invariance, PTL DEF Spec, WaitersHear

=============================================================================
