---------------------------- MODULE RoleMailboxes ----------------------------
(***************************************************************************)
(* Mail for the roles of a run.  A run and each of its dispatches has a    *)
(* mailbox that outlives terminals; the terminal that now plays the role   *)
(* reads it with `orchestration check`.  A read hands out a Delivery, the  *)
(* messages become read when that Delivery is acknowledged, and giving the *)
(* role to another terminal raises the consumer generation, which fences   *)
(* the Delivery of the one before.  A check is a long call: it routes mail *)
(* in pages and waits, and anything can happen at each of its awaits.  The *)
(* runtime restarts at any point and then forgets its calls and waiters.   *)
(***************************************************************************)
EXTENDS Integers, Sequences, FiniteSets

CONSTANTS
  None,           \* no value
  Runs,
  Dispatches,
  RunOf,          \* the run of each dispatch
  Handles,        \* terminal handles; one pane may have had several
  PaneOf,         \* the pane behind each handle
  Calls,          \* check calls in progress at once
  Batch,          \* ORCHESTRATION_DELIVERY_BATCH_LIMIT: messages of a Delivery and of a routing page
  MaxMail,        \* bound: messages sent
  MaxGeneration   \* bound: consumer generations of a mailbox

Boxes == Runs \cup Dispatches

ASSUME MailboxConstants ==
  /\ None \notin Boxes \cup Handles
  /\ Runs \cap Dispatches = {} /\ Boxes \cap Handles = {}
  /\ RunOf \in [Dispatches -> Runs]
  /\ DOMAIN PaneOf = Handles
  /\ Batch \in Nat \ {0}
  /\ MaxMail \in Nat
  /\ MaxGeneration \in Nat

VARIABLES
  run,            \* runs: coordinator_handle and consumer_generation (0: not created)
  known,          \* run_coordinator_handles
  disp,           \* dispatch_contexts: state, assignee handle and pane, consumer_generation
  mail,           \* messages, in sequence order
  deliveries,     \* deliveries, in the order of their creation
  call            \* the check calls in progress

vars == <<run, known, disp, mail, deliveries, call>>

Panes == {PaneOf[h] : h \in Handles}
DispatchStates == {"none", "active", "completed", "failed"}
DeliveryStates == {"outstanding", "acknowledged", "fenced"}
Replied == "replied"     \* what reader says of a message that a reply marked read

Idle == [pc |-> "idle", who |-> None, box |-> None, gen |-> 0, ack |-> 0,
         peek |-> FALSE, wait |-> FALSE, todo |-> {}, why |-> None]

TypeOK ==
  /\ run \in [Runs -> [coord : Handles \cup {None}, gen : 0 .. MaxGeneration]]
  /\ known \in [Runs -> SUBSET Handles]
  /\ disp \in [Dispatches -> [state : DispatchStates, handle : Handles \cup {None},
                              pane : Panes \cup {None}, gen : 0 .. MaxGeneration]]
  /\ Len(mail) <= MaxMail
  /\ \A i \in DOMAIN mail :
       mail[i] \in [run : Runs, box : Boxes \cup Handles, reader : Handles \cup {None, Replied}]
  /\ \A n \in DOMAIN deliveries :
       deliveries[n] \in [box : Boxes, gen : 0 .. MaxGeneration,
                          items : SUBSET (1 .. MaxMail), pane : Panes, status : DeliveryStates]
  /\ call \in [Calls -> [pc : {"idle", "routing", "waiting", "woken"}, who : Handles \cup {None},
                         box : Boxes \cup Handles \cup {None}, gen : 0 .. MaxGeneration,
                         ack : Nat, peek : BOOLEAN, wait : BOOLEAN, todo : SUBSET (1 .. MaxMail),
                         why : {None, "notified", "timed_out", "cancelled"}]]

Init ==
  /\ run = [r \in Runs |-> [coord |-> None, gen |-> 0]]
  /\ known = [r \in Runs |-> {}]
  /\ disp = [d \in Dispatches |-> [state |-> "none", handle |-> None, pane |-> None, gen |-> 0]]
  /\ mail = <<>>
  /\ deliveries = <<>>
  /\ call = [c \in Calls |-> Idle]

-----------------------------------------------------------------------------
(* Who owns a mailbox *)

OneOf(S) == IF S = {} THEN None ELSE CHOOSE x \in S : TRUE

BoundRuns(h) == {r \in Runs : run[r].coord # None /\ PaneOf[run[r].coord] = PaneOf[h]}

(* getCurrentRunForPane *)
BoundRun(h) == OneOf(BoundRuns(h))

Active(d) == disp[d].state = "active"

(* findActiveDispatchForAssignee: by handle first, then by pane.            *)
DispatchAmong(D, h) ==
  LET byHandle == {d \in D : Active(d) /\ disp[d].handle = h}
      byPane == {d \in D : Active(d) /\ disp[d].pane = PaneOf[h]}
  IN OneOf(IF byHandle # {} THEN byHandle ELSE byPane)

ActiveDispatch(h) == DispatchAmong(Dispatches, h)

DispatchIn(r, h) == DispatchAmong({d \in Dispatches : RunOf[d] = r}, h)

(* callerHoldsDispatchPane *)
HoldsPane(h, d) == disp[d].pane = PaneOf[h]

Owner(h) == IF BoundRun(h) # None THEN BoundRun(h) ELSE ActiveDispatch(h)

RunOfBox(b) == IF b \in Dispatches THEN RunOf[b] ELSE b

LiveGen(b) == IF b \in Runs THEN run[b].gen ELSE disp[b].gen

(* The active dispatch clause of the routing statements: mail for a handle  *)
(* that works on a dispatch of the run is not the coordinator's.            *)
WorksFor(r, h) == \E d \in Dispatches : Active(d) /\ RunOf[d] = r /\ disp[d].handle = h

-----------------------------------------------------------------------------
(* Messages and Deliveries *)

UnreadIn(ms, b) == {i \in DOMAIN ms : ms[i].box = b /\ ms[i].reader = None}

(* Mutation of DirectMail: the run of the message is not compared. *)
DirectMailOfAnyRun(ms, r, h) == UnreadIn(ms, h)

DirectMail(ms, r, h) == {i \in UnreadIn(ms, h) : ms[i].run = r}

(* routeUnreadDirectMessagesToRunMailbox takes these. *)
CoordinatorMail(ms, r, h) == IF WorksFor(r, h) THEN {} ELSE DirectMail(ms, r, h)

Move(ms, I, b) == [i \in DOMAIN ms |-> IF i \in I THEN [ms[i] EXCEPT !.box = b] ELSE ms[i]]

MarkRead(ms, I, who) ==
  [i \in DOMAIN ms |-> IF i \in I /\ ms[i].reader = None THEN [ms[i] EXCEPT !.reader = who]
                                                         ELSE ms[i]]

First(I) == {i \in I : Cardinality({j \in I : j < i}) < Batch}

Outstanding(ds, b) == {n \in DOMAIN ds : ds[n].box = b /\ ds[n].status = "outstanding"}

(* Mutation of Fence: the Delivery of the former consumer stays. *)
FenceNothing(ds, B) == ds

(* fenceOutstandingMailboxDelivery *)
Fence(ds, B) ==
  [n \in DOMAIN ds |-> IF ds[n].box \in B /\ ds[n].status = "outstanding"
                       THEN [ds[n] EXCEPT !.status = "fenced"] ELSE ds[n]]

(* Mutation of Take: the generation captured at the start is not compared.  *)
TakeAtCapturedGeneration(ds, ms, b, g, h) ==
  IF Outstanding(ds, b) = {} /\ UnreadIn(ms, b) # {}
  THEN Append(ds, [box |-> b, gen |-> g, items |-> First(UnreadIn(ms, b)),
                   pane |-> PaneOf[h], status |-> "outstanding"])
  ELSE ds

(* getOrCreateMailboxDelivery: an outstanding Delivery is handed out again, *)
(* a new one takes the oldest unread messages.                              *)
Take(ds, ms, b, g, h) ==
  IF LiveGen(b) = g /\ Outstanding(ds, b) = {} /\ UnreadIn(ms, b) # {}
  THEN Append(ds, [box |-> b, gen |-> g, items |-> First(UnreadIn(ms, b)),
                   pane |-> PaneOf[h], status |-> "outstanding"])
  ELSE ds

(* Mutation of AckAllowed: a fenced Delivery is still acknowledged. *)
AckAllowedToFenced(n, b, g) ==
  n = 0 \/ (deliveries[n].box = b /\ deliveries[n].gen <= g)

(* acknowledgeMailboxDelivery's refusals; n = 0 when the call acknowledges  *)
(* nothing.                                                                 *)
AckAllowed(n, b, g) ==
  n = 0 \/ (/\ deliveries[n].box = b
            /\ deliveries[n].gen = g
            /\ deliveries[n].status # "fenced")

AckedItems(n) == IF n = 0 \/ deliveries[n].status = "acknowledged" THEN {} ELSE deliveries[n].items

AckedDeliveries(n) ==
  IF AckedItems(n) = {} THEN deliveries ELSE [deliveries EXCEPT ![n].status = "acknowledged"]

(* RuntimeMessageWaiters *)
WaitersOn(B) == {c \in Calls : call[c].pc = "waiting" /\ call[c].box \in B}

Wake(C, why) ==
  [c \in Calls |-> IF c \in C THEN [call[c] EXCEPT !.pc = "woken", !.why = why] ELSE call[c]]

End(c) == call' = [call EXCEPT ![c] = Idle]

-----------------------------------------------------------------------------
(* Roles change hands *)

(* runCreate and runUse by the terminal h: the other run of its pane is     *)
(* unbound, mail still addressed to the old and the new coordinator is      *)
(* moved into the run's mailbox, and a binding that differs is a new        *)
(* consumer generation.                                                     *)
UseRun(r, h) ==
  LET left == BoundRuns(h) \ {r}
      changed == IF run[r].coord = h THEN left ELSE left \cup {r}
      toRun(q) == UNION {CoordinatorMail(mail, q, g) :
                           g \in {run[q].coord} \cup (IF q = r THEN {h} ELSE {})}
  IN /\ \A q \in changed : run[q].gen < MaxGeneration
     /\ run' = [q \in Runs |->
                  IF q \in changed
                  THEN [coord |-> IF q = r THEN h ELSE None, gen |-> run[q].gen + 1]
                  ELSE run[q]]
     /\ known' = [known EXCEPT ![r] = @ \cup {h}]
     /\ mail' = [i \in DOMAIN mail |->
                   IF mail[i].run \in left \cup {r} /\ i \in toRun(mail[i].run)
                   THEN [mail[i] EXCEPT !.box = mail[i].run] ELSE mail[i]]
     /\ deliveries' = Fence(deliveries, changed)
     /\ call' = Wake(WaitersOn({h, r} \cup left), "cancelled")
     /\ UNCHANGED disp

(* A task of the run is dispatched to the terminal h. *)
StartDispatch(d, h) ==
  /\ disp[d].state = "none"
  /\ run[RunOf[d]].gen > 0
  /\ ActiveDispatch(h) = None
  /\ disp' = [disp EXCEPT ![d] = [state |-> "active", handle |-> h, pane |-> PaneOf[h], gen |-> 1]]
  /\ UNCHANGED <<run, known, mail, deliveries, call>>

(* mintDispatchCapability re-points the pane; attachWorkerDispatchAuthority *)
(* also the handle, unless another dispatch has that terminal.              *)
Reattach(d, h, newHandle) ==
  /\ Active(d)
  /\ disp[d].gen < MaxGeneration
  /\ newHandle => ActiveDispatch(h) \in {None, d}
  /\ disp' = [disp EXCEPT ![d].pane = PaneOf[h],
                          ![d].handle = IF newHandle THEN h ELSE @,
                          ![d].gen = @ + 1]
  /\ deliveries' = Fence(deliveries, {d})
  /\ UNCHANGED <<run, known, mail, call>>

SettleDispatch(d) ==
  /\ Active(d)
  /\ \E outcome \in {"completed", "failed"} : disp' = [disp EXCEPT ![d].state = outcome]
  /\ UNCHANGED <<run, known, mail, deliveries, call>>

-----------------------------------------------------------------------------
(* Mail arrives *)

(* resolveBareOrchestrationRecipient: the role the terminal plays, else the *)
(* run it once coordinated, else the terminal itself.  None is ambiguous.   *)
Resolved(r, h) ==
  LET past == {q \in Runs : h \in known[q]}
  IN CASE Owner(h) # None -> Owner(h)
       [] Owner(h) = None /\ past = {} -> h
       [] Owner(h) = None /\ r \in past -> r
       [] OTHER -> IF Cardinality(past) = 1 THEN OneOf(past) ELSE None

(* trg_messages_route_coordinator_mail, for what is inserted for a handle.  *)
Routed(r, b) == IF b \in Handles /\ b \in known[r] /\ ~WorksFor(r, b) THEN r ELSE b

(* Mutation of Home: a terminal without a role is not told apart. *)
HomeAtOwner(r, h, live) == IF live THEN Owner(h) ELSE h

(* Where notifyMessageArrived files a message of run r still addressed to   *)
(* the handle h: in the mailbox of the terminal's role, or in one of the    *)
(* message's own run.                                                       *)
Home(r, h, live) ==
  LET own == Owner(h)
      foreign == IF DispatchIn(r, h) # None THEN DispatchIn(r, h)
                 ELSE IF h \in known[r] THEN r ELSE h
  IN CASE live /\ own = None -> h
       [] live /\ own # None /\ RunOfBox(own) = r ->
            IF own \in Runs /\ WorksFor(r, h) THEN h ELSE own
       [] OTHER -> foreign

(* Mutation of Arrive: those who wait on the mailbox addressed are woken.   *)
ArriveForAddressee(ms, r, b, live) ==
  LET to == Routed(r, b)
      all == Append(ms, [run |-> r, box |-> to, reader |-> None])
      here == UnreadIn(all, to)
  IN /\ Len(ms) < MaxMail
     /\ mail' = [i \in DOMAIN all |->
                   IF to \in Handles /\ i \in here
                   THEN [all[i] EXCEPT !.box = Home(all[i].run, to, live)] ELSE all[i]]
     /\ call' = Wake(WaitersOn({to}), "notified")
     /\ UNCHANGED <<run, known, disp, deliveries>>

(* The message is inserted for b and its readers are notified.  A terminal  *)
(* that is not live has its mail filed as far as its roles are recorded.    *)
Arrive(ms, r, b, live) ==
  LET to == Routed(r, b)
      all == Append(ms, [run |-> r, box |-> to, reader |-> None])
      here == UnreadIn(all, to)
      filed == [i \in DOMAIN all |->
                  IF to \in Handles /\ i \in here
                  THEN [all[i] EXCEPT !.box = Home(all[i].run, to, live)] ELSE all[i]]
  IN /\ Len(ms) < MaxMail
     /\ mail' = filed
     /\ call' = Wake(WaitersOn({filed[i].box : i \in here}), "notified")
     /\ UNCHANGED <<run, known, disp, deliveries>>

(* orchestration.send from a terminal of run r to a mailbox or a terminal.  *)
Send(r, to) ==
  LET b == IF to \in Handles THEN Resolved(r, to) ELSE to
  IN /\ run[r].gen > 0
     /\ to \in Runs => run[to].gen > 0
     /\ to \in Dispatches => Active(to)
     /\ b # None
     /\ Arrive(mail, IF b \in Boxes THEN RunOfBox(b) ELSE r, b, TRUE)

(* orchestration.reply to a message that was handed out, which goes to its  *)
(* sender's handle; who sent a message is left open.                        *)
Reply(i, h, live) ==
  /\ \E n \in DOMAIN deliveries : i \in deliveries[n].items
  /\ Arrive(MarkRead(mail, {i}, Replied), mail[i].run, h, live)

-----------------------------------------------------------------------------
(* orchestration.check.  Each action runs from one await to the next.       *)

Start(c, h, b, ack, peek, wait, todo) ==
  /\ mail' = Move(mail, First(todo), b)
  /\ call' = [call EXCEPT ![c] =
       [pc |-> "routing", who |-> h, box |-> b, gen |-> LiveGen(b), ack |-> ack,
        peek |-> peek, wait |-> wait, todo |-> todo \ First(todo), why |-> None]]
  /\ UNCHANGED <<run, known, disp, deliveries>>

(* checkRunMailbox: direct mail of the caller and of the recorded           *)
(* coordinator is routed first, in pages, through the newest message there. *)
CheckRun(c, h, ack, peek, wait) ==
  LET r == BoundRun(h)
  IN /\ call[c].pc = "idle"
     /\ r # None
     /\ Start(c, h, r, ack, peek, wait,
              CoordinatorMail(mail, r, h) \cup CoordinatorMail(mail, r, run[r].coord))

(* checkWorkerMailbox *)
CheckWorker(c, h, ack, peek, wait) ==
  LET d == ActiveDispatch(h)
  IN /\ call[c].pc = "idle"
     /\ BoundRun(h) = None
     /\ d # None
     /\ HoldsPane(h, d)
     /\ Start(c, h, d, ack, peek, wait,
              DirectMail(mail, RunOf[d], h) \cup DirectMail(mail, RunOf[d], disp[d].handle))

(* checkDirectMailbox, for a terminal without a role that did not lose one: *)
(* what it returns is read at once.                                         *)
CheckDirect(c, h, peek, wait) ==
  LET here == UnreadIn(mail, h)
  IN /\ call[c].pc = "idle"
     /\ Owner(h) = None
     /\ peek \/ \A d \in Dispatches : disp[d].handle = h => disp[d].state # "failed"
     /\ IF here = {}
        THEN /\ wait
             /\ call' = [call EXCEPT ![c] =
                  [Idle EXCEPT !.pc = "waiting", !.who = h, !.box = h, !.peek = peek, !.wait = TRUE]]
             /\ UNCHANGED mail
        ELSE /\ ~peek
             /\ mail' = MarkRead(mail, here, h)
             /\ UNCHANGED call
     /\ UNCHANGED <<run, known, disp, deliveries>>

RoutePage(c) ==
  LET b == call[c].box
      page == {i \in First(call[c].todo) :
                 /\ mail[i].box \in Handles /\ mail[i].reader = None
                 /\ b \in Runs => ~WorksFor(b, mail[i].box)}
  IN /\ call[c].pc = "routing"
     /\ call[c].todo # {}
     /\ mail' = Move(mail, page, b)
     /\ call' = [call EXCEPT ![c].todo = @ \ First(@)]
     /\ UNCHANGED <<run, known, disp, deliveries>>

(* The role is resolved again after the awaits of the routing, and after    *)
(* the wait of a worker.                                                    *)
StillConsumer(c) ==
  LET b == call[c].box
      h == call[c].who
  IN IF b \in Runs THEN BoundRun(h) = b /\ run[b].gen = call[c].gen
                   ELSE ActiveDispatch(h) = b /\ HoldsPane(h, b)

(* The acknowledgement and the read that follows it, in one go.  A call     *)
(* that finds nothing waits if it asked to; a run has one waiter.           *)
Serve(c) ==
  LET b == call[c].box
      g == call[c].gen
      n == call[c].ack
      ms == MarkRead(mail, AckedItems(n), call[c].who)
      ds == AckedDeliveries(n)
      empty == /\ UnreadIn(ms, b) = {}
               /\ call[c].peek \/ Outstanding(ds, b) = {}
      waits == /\ AckAllowed(n, b, g) /\ empty /\ call[c].wait
               /\ call[c].peek \/ LiveGen(b) = g
               /\ b \in Runs => WaitersOn({b}) = {}
  IN /\ call[c].pc = "routing"
     /\ call[c].todo = {}
     /\ StillConsumer(c)
     /\ mail' = IF AckAllowed(n, b, g) THEN ms ELSE mail
     /\ deliveries' = IF ~AckAllowed(n, b, g) THEN deliveries
                      ELSE IF call[c].peek THEN ds ELSE Take(ds, ms, b, g, call[c].who)
     /\ call' = [call EXCEPT ![c] = IF waits THEN [@ EXCEPT !.pc = "waiting", !.ack = 0] ELSE Idle]
     /\ UNCHANGED <<run, known, disp>>

(* A worker whose dispatch is settled leaves its unread mail to the run,    *)
(* which is notified; any other caller is told that it was fenced.          *)
LeaveMail(c) ==
  LET d == call[c].box
      left == IF d \in Dispatches /\ ~Active(d) THEN UnreadIn(mail, d) ELSE {}
      woken == IF left = {} THEN {} ELSE WaitersOn({RunOf[d]})
  IN /\ mail' = IF left = {} THEN mail ELSE Move(mail, left, RunOf[d])
     /\ call' = [Wake(woken, "notified") EXCEPT ![c] = Idle]
     /\ UNCHANGED <<run, known, disp, deliveries>>

Refuse(c) ==
  /\ call[c].pc = "routing"
  /\ call[c].todo = {}
  /\ ~StillConsumer(c)
  /\ LeaveMail(c)

(* The wait times out, or the client hangs up. *)
GiveUp(c) ==
  /\ call[c].pc = "waiting"
  /\ \E why \in {"timed_out", "cancelled"} : call' = Wake({c}, why)
  /\ UNCHANGED <<run, known, disp, mail, deliveries>>

(* After the wait.  The run's generation alone is compared; a worker is     *)
(* looked up again; a direct check reads unless it was cancelled.           *)
Resume(c) ==
  LET b == call[c].box
      current == IF b \in Runs THEN run[b].gen = call[c].gen ELSE StillConsumer(c)
      reads == call[c].why = "notified" /\ ~call[c].peek
  IN /\ call[c].pc = "woken"
     /\ b \in Boxes
     /\ IF current
        THEN /\ deliveries' = IF reads THEN Take(deliveries, mail, b, call[c].gen, call[c].who) ELSE deliveries
             /\ End(c)
             /\ UNCHANGED <<run, known, disp, mail>>
        ELSE LeaveMail(c)

ResumeDirect(c) ==
  /\ call[c].pc = "woken"
  /\ call[c].box \in Handles
  /\ mail' = IF call[c].why = "cancelled" \/ call[c].peek THEN mail
             ELSE MarkRead(mail, UnreadIn(mail, call[c].box), call[c].who)
  /\ End(c)
  /\ UNCHANGED <<run, known, disp, deliveries>>

(* A client that hangs up stops the routing between two pages. *)
Abort(c) ==
  /\ call[c].pc = "routing"
  /\ call[c].todo # {}
  /\ End(c)
  /\ UNCHANGED <<run, known, disp, mail, deliveries>>

Restart ==
  /\ \E c \in Calls : call[c].pc # "idle"
  /\ call' = [c \in Calls |-> Idle]
  /\ UNCHANGED <<run, known, disp, mail, deliveries>>

-----------------------------------------------------------------------------
Check(c) ==
  \E h \in Handles, peek \in BOOLEAN, wait \in BOOLEAN :
    \/ CheckDirect(c, h, peek, wait)
    \/ \E ack \in {0} \cup DOMAIN deliveries :
         CheckRun(c, h, ack, peek, wait) \/ CheckWorker(c, h, ack, peek, wait)

Step(c) == RoutePage(c) \/ Serve(c) \/ Refuse(c) \/ Resume(c) \/ ResumeDirect(c)

Next ==
  \/ \E r \in Runs, h \in Handles : UseRun(r, h)
  \/ \E d \in Dispatches, h \in Handles :
       StartDispatch(d, h) \/ (\E newHandle \in BOOLEAN : Reattach(d, h, newHandle))
  \/ \E d \in Dispatches : SettleDispatch(d)
  \/ \E r \in Runs, to \in Boxes \cup Handles : Send(r, to)
  \/ \E i \in DOMAIN mail, h \in Handles, live \in BOOLEAN : Reply(i, h, live)
  \/ \E c \in Calls : Check(c) \/ Step(c) \/ GiveUp(c) \/ Abort(c)
  \/ Restart

Spec == Init /\ [][Next]_vars

(* A coordinator's agent keeps checking and acknowledges the Delivery it    *)
(* was handed.  The runtime finishes what it began and every wait ends;     *)
(* restarts and changes of coordinator do not cut short every such check.   *)
Acks(n, r) == IF Outstanding(deliveries, r) = {} THEN n = 0 ELSE n \in Outstanding(deliveries, r)

Poll(c, r) ==
  \E h \in Handles, wait \in BOOLEAN, ack \in {0} \cup DOMAIN deliveries :
    /\ BoundRun(h) = r
    /\ Acks(ack, r)
    /\ CheckRun(c, h, ack, FALSE, wait)

Polled(c, r) == call[c].box = r /\ ~call[c].peek /\ Acks(call[c].ack, r)

FairSpec ==
  /\ Spec
  /\ \A c \in Calls : WF_vars(Step(c)) /\ WF_vars(GiveUp(c))
  /\ \A r \in Runs :
       /\ SF_vars(\E c \in Calls : Poll(c, r))
       /\ SF_vars(\E c \in Calls : Polled(c, r) /\ Serve(c))

-----------------------------------------------------------------------------
(* Properties *)


(* The Delivery a live mailbox has outstanding was handed to the consumer   *)
(* generation the mailbox is at: a coordinator or worker that lost its role *)
(* during an await neither leaves one behind nor gets one of its own        *)
(* (getOrCreateMailboxDelivery, fenceOutstandingMailboxDelivery).           *)
OutstandingIsCurrent ==
  \A b \in Boxes : \A n \in Outstanding(deliveries, b) :
    b \in Runs \/ Active(b) => deliveries[n].gen = LiveGen(b)

(* Mail follows a terminal from role to role by its handle and its pane,    *)
(* yet a message of one run never reaches a mailbox of another, also when   *)
(* its reader has changed runs between two pages of the routing.            *)
MailStaysInItsRun ==
  \A i \in DOMAIN mail : mail[i].box \in Boxes => RunOfBox(mail[i].box) = mail[i].run

(* No message is in two acknowledged Deliveries: of the coordinators and    *)
(* workers that were handed a message over time, one finishes it.           *)
AcknowledgedOnce ==
  \A m, n \in DOMAIN deliveries :
    m # n /\ deliveries[m].status = "acknowledged" /\ deliveries[n].status = "acknowledged"
    => deliveries[m].items \cap deliveries[n].items = {}

(* What a Delivery carried was marked read by the terminal the Delivery was *)
(* handed to (or by a reply): an acknowledgement that arrives late, from a  *)
(* former consumer or after a restart, consumes nobody else's mail.         *)
ReadByItsReceiver ==
  \A n \in DOMAIN deliveries : deliveries[n].status = "acknowledged" =>
    \A i \in deliveries[n].items :
      mail[i].reader = Replied \/ PaneOf[mail[i].reader] = deliveries[n].pane

(* A check that waits is woken by the step that puts mail into its mailbox: *)
(* a message that arrives, mail refiled by that arrival, mail a settled     *)
(* worker leaves to the run.  Mail another check routes there is that       *)
(* check's to hand out.                                                     *)
WaitersHear ==
  [][\A c \in Calls : LET b == call[c].box IN
       call[c].pc = "waiting" /\ call'[c].pc = "waiting"
       => \A i \in UnreadIn(mail', b) \ UnreadIn(mail, b) :
            Len(mail') = Len(mail) /\ mail[i].box \in Handles]_vars

(* Mail in a run's mailbox is read or the run is left without coordinator:  *)
(* changes of coordinator, fenced Deliveries, aborted checks and restarts   *)
(* lose none of it, as long as some coordinator keeps checking.             *)
MailIsRead ==
  \A r \in Runs, i \in 1 .. MaxMail :
    LET waits == i \in UnreadIn(mail, r)
    IN waits ~> (~waits \/ run[r].coord = None)

=============================================================================
