---------------------------- MODULE MailboxPointer ----------------------------
(***************************************************************************)
(* Telling an idle agent that it has mail.  The runtime types a pointer    *)
(* ("you have mail, run check") into the agent's terminal and, half a      *)
(* second later, presses Enter.  Between the two the agent may start to    *)
(* work, read the mail, lose its role, exit or be replaced by another      *)
(* process under the same terminal id, and the runtime may restart.  What  *)
(* was attempted is written to the message rows before it is attempted, so *)
(* that neither a restart nor a lost answer makes the runtime submit the   *)
(* same pointer twice; a flight per terminal and a watermark per mailbox,  *)
(* in memory, keep deliveries from overlapping and park the ones that come *)
(* meanwhile.  Mail is read by checks: RoleMailboxes has them in full.     *)
(***************************************************************************)
EXTENDS Integers, Sequences, FiniteSetsExt

CONSTANTS
  None,           \* no value
  Terms,          \* terminals (pty ids)
  Boxes,          \* mailboxes of runs and dispatches
  RunBoxes,       \* those of runs, repointed two seconds after mail arrives
  MaxFlights,     \* bound: deliveries in progress, the superseded ones included
  MaxMail,        \* bound: messages
  MaxInc,         \* bound: processes of one terminal
  MaxRestarts     \* bound: restarts of the runtime

ASSUME PointerConstants ==
  /\ None \notin Terms \cup Boxes
  /\ RunBoxes \subseteq Boxes
  /\ MaxFlights \in Nat \ {0}
  /\ MaxMail \in Nat /\ MaxInc \in Nat \ {0} /\ MaxRestarts \in Nat

VARIABLES
  term,           \* terminals: the process behind each and what the runtime saw of it
  owner,          \* the terminal whose agent plays the role of each mailbox
  mail,           \* message rows, in sequence order
  held,           \* the messages of each mailbox's outstanding Delivery
  waiting,        \* mailboxes whose reader waits in a check
  flight,         \* flightsByPtyId, 0: none
  job,            \* the deliveries in progress; a superseded one still ends
  mark,           \* watermarkByMailbox
  parked,         \* parkedDeliveriesByPtyId
  again,          \* parkedTypesByMailbox: mailboxes to redrive when the watermark goes
  due,            \* mailboxes with a delivery queued (microtask or repoint timer)
  restarts,
  typed,          \* history: unread messages whose pointer text a process took
  pressed         \* history: those it was sent Enter for while it kept the role, unless
                  \* a later answer said that a pointer to them was never written

pointers == <<mail, flight, job, mark, parked, again, due>>
vars == <<term, owner, held, waiting, restarts, typed, pressed, pointers>>

\* The status shown by the last title; after a start or an exit there is none.
Shown == {"idle", "working", "permission", "neutral"}
Statuses == Shown \cup {"unseen"}

\* pointer_enter_pending of a row
Reserved == 1
WriteAttempted == 2
EnterAttempted == 3
Unpointed == [phase |-> 0, pty |-> None, inc |-> 0]

NoJob == [pc |-> "none", pty |-> None, box |-> None, msgs |-> {}, inc |-> 0,
          defer |-> FALSE, seen |-> FALSE, doubt |-> FALSE]

Flights == 1 .. MaxFlights
Incs == 1 .. MaxInc
Marks == [pty : Terms, seq : 1 .. MaxMail, active : BOOLEAN]
Inputs == (1 .. MaxMail) \X Terms \X Incs

TypeOK ==
  /\ term \in [Terms -> [inc : Incs, alive : BOOLEAN, up : BOOLEAN, status : Statuses]]
  /\ owner \in [Boxes -> Terms]
  /\ Len(mail) <= MaxMail
  /\ \A i \in DOMAIN mail :
        /\ mail[i] \in [box : Boxes, state : {"new", "told", "read"},
                        at : [phase : 0 .. 3, pty : Terms \cup {None}, inc : {0} \cup Incs]]
        /\ mail[i].at = Unpointed <=> mail[i].at.phase = 0
        /\ mail[i].at # Unpointed => mail[i].state = "new"
  /\ held \in [Boxes -> SUBSET DOMAIN mail]
  /\ waiting \subseteq Boxes
  /\ flight \in [Terms -> {0} \cup Flights]
  /\ job \in [Flights -> [pc : {"none", "writing", "armed", "deferred", "probing", "entering"},
                          pty : Terms \cup {None}, box : Boxes \cup {None},
                          msgs : SUBSET DOMAIN mail, inc : {0} \cup Incs,
                          defer : BOOLEAN, seen : BOOLEAN, doubt : BOOLEAN]]
  /\ mark \in [Boxes -> Marks \cup {None}]
  /\ parked \in [Terms -> SUBSET Boxes]
  /\ again \subseteq Boxes /\ due \subseteq Boxes
  /\ restarts \in 0 .. MaxRestarts
  /\ typed \subseteq Inputs /\ pressed \subseteq Inputs

Init ==
  /\ term = [p \in Terms |-> [inc |-> 1, alive |-> TRUE, up |-> TRUE, status |-> "working"]]
  /\ owner \in [Boxes -> Terms] /\ IsInjective(owner)
  /\ mail = <<>>
  /\ held = [b \in Boxes |-> {}]
  /\ waiting = {}
  /\ flight = [p \in Terms |-> 0]
  /\ job = [f \in Flights |-> NoJob]
  /\ mark = [b \in Boxes |-> None]
  /\ parked = [p \in Terms |-> {}]
  /\ again = {} /\ due = {}
  /\ restarts = 0
  /\ typed = {} /\ pressed = {}

-----------------------------------------------------------------------------
(* The pointer state as a value: a handler is a chain of changes to it. *)

Now == [mail |-> mail, flight |-> flight, job |-> job, mark |-> mark,
        parked |-> parked, again |-> again, due |-> due]

Become(s) ==
  /\ mail' = s.mail /\ flight' = s.flight /\ job' = s.job /\ mark' = s.mark
  /\ parked' = s.parked /\ again' = s.again /\ due' = s.due

Unread(s, b) == {i \in DOMAIN s.mail : s.mail[i].box = b /\ s.mail[i].state # "read"}
Pending(s, b) == {i \in Unread(s, b) : s.mail[i].at.phase > 0}
Fresh(s, b) == {i \in Unread(s, b) : s.mail[i].state = "new" /\ s.mail[i].at.phase = 0}

\* The rows of I reserved for process inc of terminal p, in one of the phases.
At(s, I, p, inc, phases) ==
  {i \in I : s.mail[i].at.pty = p /\ s.mail[i].at.inc = inc /\ s.mail[i].at.phase \in phases}

Point(s, I, at) ==
  [s EXCEPT !.mail = [i \in DOMAIN s.mail |->
                        IF i \in I THEN [s.mail[i] EXCEPT !.at = at] ELSE s.mail[i]]]

\* Rows to be pointed at again; the rows of a read message are left alone.
Undeliver(s, I) ==
  [s EXCEPT !.mail = [i \in DOMAIN s.mail |->
     IF i \in I /\ s.mail[i].state # "read" THEN [s.mail[i] EXCEPT !.state = "new", !.at = Unpointed]
     ELSE s.mail[i]]]

\* Mutation: rows told keep their reservation.
TellReserved(s, I) ==
  [s EXCEPT !.mail = [i \in DOMAIN s.mail |->
     IF i \in I THEN [s.mail[i] EXCEPT !.state = "told"] ELSE s.mail[i]]]

\* Rows whose pointer counts as delivered.
Tell(s, I) ==
  [s EXCEPT !.mail = [i \in DOMAIN s.mail |->
     IF i \in I THEN [s.mail[i] EXCEPT !.state = "told", !.at = Unpointed] ELSE s.mail[i]]]

\* The watermark a delivery set, if it is still there.
Marked(s, j) ==
  s.mark[j.box] # None /\ s.mark[j.box].pty = j.pty /\ s.mark[j.box].seq = Max(j.msgs)

ClearMark(s, j) == IF Marked(s, j) THEN [s EXCEPT !.mark[j.box] = None] ELSE s
DimMark(s, j) == IF Marked(s, j) THEN [s EXCEPT !.mark[j.box].active = FALSE] ELSE s

\* Queue a delivery of b: if forced, or if one was parked for it.
Redrive(s, b, force) ==
  IF force \/ b \in s.again THEN [s EXCEPT !.again = @ \ {b}, !.due = @ \cup {b}] ELSE s

-----------------------------------------------------------------------------
(* Delivering a mailbox into a terminal. *)

Free(s) == {f \in Flights : s.job[f].pc = "none"}

\* Reserve the rows, record that the write is attempted, write the text.  Mail
\* older than an unverified pointer of the same terminal is not pointed at.
Stage(s, p, b) ==
  LET new == Fresh(s, b)
      old == s.mark[b]
      f == Min(Free(s))
  IN IF new = {} \/ ~term[p].up THEN s
     ELSE IF old # None /\ Max(new) <= old.seq /\ old.pty = p THEN s
     ELSE Point([s EXCEPT !.flight[p] = f,
                          !.job[f] = [NoJob EXCEPT !.pc = "writing", !.pty = p, !.box = b,
                                                   !.msgs = new, !.inc = term[p].inc],
                          !.mark[b] = [pty |-> p, seq |-> Max(new), active |-> TRUE]],
                new, [phase |-> WriteAttempted, pty |-> p, inc |-> term[p].inc])

\* Mutation: whatever an earlier delivery left is sent anew.
ResumeAnew(s, p, b) == Stage(Undeliver(s, Pending(s, b)), p, b)

\* Rows left by an earlier delivery.  What another process was sent is sent anew;
\* what this process may have been sent counts as delivered.
Resume(s, p, b) ==
  LET left == Pending(s, b)
      here == At(s, left, p, term[p].inc, {Reserved, WriteAttempted, EnterAttempted})
      tried == At(s, left, p, term[p].inc, {WriteAttempted, EnterAttempted})
  IN IF left # {} /\ here = left /\ tried # {} THEN Tell(s, tried)
     ELSE Stage(Undeliver(s, left), p, b)

Submit(s, f) ==
  [s EXCEPT !.job[f].pc = "probing", !.job[f].defer = FALSE, !.job[f].seen = FALSE,
            !.job[f].doubt = ~term[s.job[f].pty].alive]

\* Mutation: an idle agent is noticed only while the text is being written.
TakeDeferredWriting(s, p) ==
  LET f == s.flight[p]
  IN IF f # 0 /\ s.job[f].pc = "writing" /\ s.job[f].defer THEN [s EXCEPT !.job[f].seen = TRUE]
     ELSE s

\* takeDeferredEnter: an Enter held back until the agent is idle goes now.
TakeDeferred(s, p) ==
  LET f == s.flight[p]
  IN IF f = 0 THEN s
     ELSE IF s.job[f].pc = "deferred" THEN Submit(s, f)
     ELSE IF s.job[f].pc = "writing" /\ s.job[f].defer THEN [s EXCEPT !.job[f].seen = TRUE]
     ELSE s

Deliver(s, p, b) ==
  IF held[b] # {} THEN s
  ELSE IF s.flight[p] # 0 THEN TakeDeferred([s EXCEPT !.parked[p] = @ \cup {b}], p)
  ELSE IF s.mark[b] # None /\ s.mark[b].active THEN [s EXCEPT !.again = @ \cup {b}]
  ELSE IF b \in waiting THEN s
  ELSE Resume(s, p, b)

\* The end of a delivery.  A superseded one changes nothing; the current one frees
\* its terminal and delivers what was parked behind it.
Settle(s, f) ==
  LET p == s.job[f].pty
      over == [s EXCEPT !.job[f] = NoJob]
      mine == {b \in s.parked[p] : owner[b] = p}
      away == s.parked[p] \ mine
      open == [over EXCEPT !.flight[p] = 0, !.parked[p] = {},
                           !.again = @ \ away, !.due = @ \cup away]
  IN IF s.flight[p] # f THEN over
     ELSE IF mine = {} THEN open
     ELSE Deliver(open, p, CHOOSE b \in mine : TRUE)

Current(f) == flight[job[f].pty] = f

\* An agent that reads its mail, or waits for it, needs no pointer.
Superseded(j) ==
  \/ held[j.box] # {}
  \/ j.box \in waiting
  \/ ~(j.msgs \subseteq Unread(Now, j.box))

\* The ways a delivery ends.
GiveBack(s, f, phase) ==
  LET j == s.job[f]
      back == Undeliver(s, At(s, j.msgs, j.pty, j.inc, {phase}))
      done == Settle(ClearMark(back, j), f)
  IN IF Marked(s, j) THEN Redrive(done, j.box, TRUE) ELSE done

LetBe(s, f, phase) ==
  LET j == s.job[f]
  IN Settle(ClearMark(Tell(s, At(s, j.msgs, j.pty, j.inc, {phase})), j), f)

Submitted(s, f) ==
  LET j == s.job[f] IN
  IF Marked(s, j) THEN Redrive(LetBe(s, f, EnterAttempted), j.box, FALSE)
  ELSE LetBe(s, f, EnterAttempted)

LeaveOpen(s, f) ==
  LET j == s.job[f]
      done == Settle(DimMark(s, j), f)
  IN IF Marked(s, j) THEN Redrive(done, j.box, FALSE) ELSE done

-----------------------------------------------------------------------------
(* The steps of a delivery. *)

Outside == <<term, owner, held, waiting, restarts>>

\* The answer to the write of the text.
WriteSettles(f, outcome) ==
  LET j == job[f]
      past == ClearMark(Now, j)
  IN
  /\ j.pc = "writing"
  /\ typed' = IF outcome = "accepted" THEN typed \cup (j.msgs \X {j.pty} \X {j.inc}) ELSE typed
  /\ pressed' = IF outcome = "refused" /\ Current(f) THEN {x \in pressed : x[1] \notin j.msgs} ELSE pressed
  /\ IF ~Current(f) THEN Become(Settle(Now, f))
     ELSE CASE outcome = "unverifiable" -> Become(Settle(DimMark(Now, j), f))
            [] outcome = "refused" ->
                 LET back == Undeliver(past, j.msgs)
                 IN Become(Settle(IF Marked(Now, j) THEN Redrive(back, j.box, FALSE) ELSE back, f))
            [] outcome = "accepted" /\ Superseded(j) ->
                 Become(Settle(IF Marked(Now, j) THEN Redrive(past, j.box, FALSE) ELSE past, f))
            [] outcome = "accepted" /\ ~Superseded(j) ->
                 \/ Become(Settle(Redrive(Tell(past, j.msgs), j.box, FALSE), f))  \* Cursor submits by itself
                 \/ Become(IF j.defer /\ j.seen THEN Submit(Now, f)
                           ELSE [Now EXCEPT !.job[f].pc = IF j.defer THEN "deferred" ELSE "armed"])
  /\ UNCHANGED Outside

\* The Enter timer.
TimerFires(f) ==
  /\ job[f].pc = "armed"
  /\ Become(Submit(Now, f))
  /\ UNCHANGED <<Outside, typed, pressed>>

SameTarget(j) == term[j.pty].up /\ term[j.pty].inc = j.inc /\ owner[j.box] = j.pty

QueueSafe(p) == term[p].status \in {"idle", "working"}

\* The absence probe before the Enter has answered: send it, hold it or drop it.
PressEnter(f) ==
  LET j == job[f] IN
  /\ j.pc = "probing" /\ Current(f) /\ SameTarget(j) /\ QueueSafe(j.pty) /\ ~Superseded(j)
  /\ At(Now, j.msgs, j.pty, j.inc, {WriteAttempted}) = j.msgs
  /\ Become([Point(Now, j.msgs, [phase |-> EnterAttempted, pty |-> j.pty, inc |-> j.inc])
               EXCEPT !.job[f].pc = "entering"])
  /\ pressed' = pressed \cup (j.msgs \X {j.pty} \X {term[j.pty].inc})
  /\ UNCHANGED <<Outside, typed>>

WithholdEnter(f) ==
  LET j == job[f] IN
  /\ job[f].pc = "probing" /\ Current(f)
  /\ IF ~SameTarget(j) THEN Become(GiveBack(Now, f, WriteAttempted))
     ELSE IF term[j.pty].status = "neutral"
       THEN Become([Now EXCEPT !.job[f].pc = "deferred", !.job[f].defer = TRUE])
     ELSE IF ~QueueSafe(j.pty) \/ Superseded(j) THEN Become(LetBe(Now, f, WriteAttempted))
     ELSE /\ At(Now, j.msgs, j.pty, j.inc, {WriteAttempted}) # j.msgs
          /\ Become(LeaveOpen(Now, f))
  /\ UNCHANGED <<Outside, typed, pressed>>

ProvenAbsent(f) ==
  /\ job[f].pc = "probing" /\ job[f].doubt
  /\ Become(GiveBack(Now, f, WriteAttempted))
  /\ UNCHANGED <<Outside, typed, pressed>>

DropSuperseded(f) ==
  /\ job[f].pc = "probing" /\ ~Current(f)
  /\ Become(Settle(Now, f))
  /\ UNCHANGED <<Outside, typed, pressed>>

\* The answer to the Enter.
EnterSettles(f, outcome) ==
  /\ job[f].pc = "entering"
  /\ Become(IF ~Current(f) THEN Settle(Now, f)
            ELSE CASE outcome = "accepted" -> Submitted(Now, f)
                   [] outcome = "refused" -> LetBe(Now, f, EnterAttempted)
                   [] outcome = "unverifiable" -> LeaveOpen(Now, f))
  /\ UNCHANGED <<Outside, typed, pressed>>

CanDeliver(p) == flight[p] # 0 \/ Free(Now) # {}

\* A queued delivery: only into a terminal last seen idle, and seen by this runtime.
DeliverDue(b) ==
  LET p == owner[b]
      s == [Now EXCEPT !.due = @ \ {b}]
  IN
  /\ b \in due /\ CanDeliver(p)
  /\ Become(IF term[p].status = "idle" THEN Deliver(s, p, b) ELSE s)
  /\ UNCHANGED <<Outside, typed, pressed>>

-----------------------------------------------------------------------------
(* What happens to the terminal. *)

\* Drop the flight of a terminal and what was parked behind it: the timer and the
\* deferred Enter go with it, and a pointer whose Enter was not attempted is given back.
RetireFlight(s, p) ==
  LET f == s.flight[p]
      kept == IF f # 0 /\ s.job[f].pc \in {"armed", "deferred"}
              THEN [s EXCEPT !.job[f] = NoJob] ELSE s
      given == IF f = 0 THEN kept
               ELSE Undeliver(kept, At(s, s.job[f].msgs, p, s.job[f].inc,
                                       {Reserved, WriteAttempted}))
  IN [given EXCEPT !.flight[p] = 0, !.parked[p] = {}]

\* The watermarks of the terminal go too, and their mailboxes are delivered anew.
Retire(s, p) ==
  LET freed == {b \in Boxes : s.mark[b] # None /\ s.mark[b].pty = p}
  IN [RetireFlight(s, p) EXCEPT
        !.mark = [b \in Boxes |-> IF b \in freed THEN None ELSE s.mark[b]],
        !.again = @ \ freed, !.due = @ \cup freed]

\* deferFlightUntilIdle
Defer(s, p) ==
  LET f == s.flight[p]
  IN IF f # 0 /\ s.job[f].pc = "armed" THEN [s EXCEPT !.job[f].pc = "deferred", !.job[f].defer = TRUE]
     ELSE IF f # 0 /\ s.job[f].pc = "writing"
       THEN [s EXCEPT !.job[f].defer = TRUE, !.job[f].seen = FALSE]
     ELSE s

\* observeAgentWorking: with no flight, what this terminal was sent is settled.
AgentBusy(s, p, cold) ==
  LET r == Retire(s, p)
      sent == {i \in DOMAIN r.mail : r.mail[i].at.pty = p}
      kept == {i \in sent : r.mail[i].at.phase = Reserved}
  IN IF s.flight[p] # 0 THEN IF cold THEN Defer(s, p) ELSE s
     ELSE Tell(Undeliver(r, kept), sent \ kept)

DeliverOwned(s, p) ==
  IF \E b \in Boxes : owner[b] = p THEN Deliver(s, p, CHOOSE b \in Boxes : owner[b] = p) ELSE s

\* A title frame shows the agent's status; mail is delivered on the edge to a live idle.
\* cold: the pane is parked (coldParkedPtys), which may change between any two titles.
Title(p, status, cold) ==
  LET edge == status = "idle" /\ term[p].status # "idle"
      seen == CASE status \in {"working", "permission"} -> AgentBusy(Now, p, cold)
                [] status = "idle" -> TakeDeferred(IF cold THEN Defer(Now, p) ELSE Now, p)
                [] status = "neutral" -> Now
  IN
  /\ term[p].alive /\ term[p].up /\ CanDeliver(p)
  /\ term' = [term EXCEPT ![p].status = status]
  /\ Become(IF edge THEN DeliverOwned(seen, p) ELSE seen)
  /\ UNCHANGED <<owner, held, waiting, restarts, typed, pressed>>

\* The foreground process shows that a neutral title did not mean the agent left.
StatusRestored(p, status) ==
  /\ term[p].alive /\ term[p].up /\ term[p].status = "neutral" /\ CanDeliver(p)
  /\ term' = [term EXCEPT ![p].status = status]
  /\ Become(IF status = "idle" THEN DeliverOwned(Now, p) ELSE Now)
  /\ UNCHANGED <<owner, held, waiting, restarts, typed, pressed>>

\* The process dies; the runtime hears of it later, if at all.
Die(p) ==
  /\ term[p].alive
  /\ term' = [term EXCEPT ![p].alive = FALSE]
  /\ UNCHANGED <<owner, held, waiting, restarts, typed, pressed, pointers>>

\* The runtime hears of an exit: the process died, or only the relay to it was lost.
Exit(p) ==
  LET s == Retire(Now, p) IN
  /\ term[p].up
  /\ term' = [term EXCEPT ![p].up = FALSE, ![p].status = "unseen"]
  /\ Become([s EXCEPT !.due = @ \cup {b \in RunBoxes : owner[b] = p}])
  /\ UNCHANGED <<owner, held, waiting, restarts, typed, pressed>>

\* A new process under the same terminal id, after a reported exit or without one.
Respawn(p) ==
  /\ ~term[p].alive /\ term[p].inc < MaxInc
  /\ term' = [term EXCEPT ![p] = [inc |-> term[p].inc + 1, alive |-> TRUE, up |-> TRUE,
                                  status |-> "unseen"]]
  /\ typed' = {x \in typed : x[2] # p} /\ pressed' = {x \in pressed : x[2] # p}
  /\ UNCHANGED <<owner, held, waiting, restarts, pointers>>

\* The process was not gone: the terminal is attached again.
Reattach(p) ==
  /\ term[p].alive /\ ~term[p].up
  /\ term' = [term EXCEPT ![p].up = TRUE]
  /\ UNCHANGED <<owner, held, waiting, restarts, typed, pressed, pointers>>

\* The runtime restarts.  It forgets its deliveries; the rows are kept, and mailboxes with
\* rows to point at or to settle are queued.  It may stop between the two updates of Stage.
Restart(cut) ==
  LET p == owner[cut]
      s == IF cut # None /\ Fresh(Now, cut) # {} /\ flight[p] = 0 /\ Pending(Now, cut) = {}
              /\ term[p].up /\ held[cut] = {}
           THEN Point(Now, Fresh(Now, cut), [phase |-> Reserved, pty |-> p, inc |-> term[p].inc])
           ELSE Now
  IN
  /\ restarts < MaxRestarts
  /\ restarts' = restarts + 1
  /\ mail' = s.mail
  /\ due' = {b \in Boxes : Fresh(s, b) \cup Pending(s, b) # {}}
  /\ term' = [p2 \in Terms |-> [term[p2] EXCEPT !.up = FALSE, !.status = "unseen"]]
  /\ parked' = [p2 \in Terms |-> {}] /\ again' = {}
  /\ flight' = [p2 \in Terms |-> 0] /\ job' = [f \in Flights |-> NoJob]
  /\ mark' = [b \in Boxes |-> None] /\ waiting' = {}
  /\ UNCHANGED <<owner, held, typed, pressed>>

-----------------------------------------------------------------------------
(* Mail and its readers. *)

\* A message arrives: it wakes the waiting check or queues a delivery.
Arrive(b) ==
  /\ Len(mail) < MaxMail
  /\ mail' = Append(mail, [box |-> b, state |-> "new", at |-> Unpointed])
  /\ waiting' = waiting \ {b}
  /\ due' = IF b \notin waiting \/ b \in RunBoxes THEN due \cup {b} ELSE due
  /\ UNCHANGED <<term, owner, held, restarts, typed, pressed,
                 flight, job, mark, parked, again>>

\* The agent checks its mail: it acknowledges what it holds and takes the rest, or waits.
Check(b, wait) ==
  LET p == owner[b]
      rest == Unread(Now, b) \ held[b]
  IN
  /\ term[p].alive /\ term[p].up /\ term[p].status = "working" /\ b \notin waiting
  /\ mail' = [i \in DOMAIN mail |-> IF i \in held[b]
                THEN [mail[i] EXCEPT !.state = "read", !.at = Unpointed] ELSE mail[i]]
  /\ held' = [held EXCEPT ![b] = rest]
  /\ waiting' = IF rest = {} /\ wait THEN waiting \cup {b} ELSE waiting
  /\ typed' = {x \in typed : x[1] \notin held[b]}
  /\ pressed' = {x \in pressed : x[1] \notin held[b]}
  /\ UNCHANGED <<term, owner, restarts, flight, job, mark, parked, again, due>>

\* A check times out or is cut off.
CheckEnds(b) ==
  /\ b \in waiting
  /\ waiting' = waiting \ {b}
  /\ UNCHANGED <<term, owner, held, restarts, typed, pressed, pointers>>

\* Another terminal takes over the role: its agent is at work, taking it over.
Move(b, p) ==
  /\ \A c \in Boxes : owner[c] # p
  /\ term[p].alive /\ term[p].up /\ term[p].status = "working"
  /\ owner' = [owner EXCEPT ![b] = p]
  /\ held' = [held EXCEPT ![b] = {}]
  /\ waiting' = waiting \ {b}
  /\ pressed' = {x \in pressed : mail[x[1]].box # b}
  /\ UNCHANGED <<term, restarts, typed, pointers>>

Step(f) ==
  \/ \E o \in {"accepted", "refused", "unverifiable"} : WriteSettles(f, o) \/ EnterSettles(f, o)
  \/ TimerFires(f) \/ PressEnter(f) \/ WithholdEnter(f) \/ ProvenAbsent(f) \/ DropSuperseded(f)

Next ==
  \/ \E f \in Flights : Step(f)
  \/ \E b \in Boxes : DeliverDue(b) \/ Arrive(b) \/ CheckEnds(b)
  \/ \E b \in Boxes, w \in BOOLEAN : Check(b, w)
  \/ \E b \in Boxes, p \in Terms : Move(b, p)
  \/ \E p \in Terms, st \in Shown, cold \in BOOLEAN : Title(p, st, cold)
  \/ \E p \in Terms, st \in {"idle", "working"} : StatusRestored(p, st)
  \/ \E p \in Terms : Die(p) \/ Exit(p) \/ Respawn(p) \/ Reattach(p)
  \/ \E b \in Boxes \cup {None} : Restart(b)

Spec == Init /\ [][Next]_vars

\* The guards of the steps assumed fair, in place of ENABLED.  A delivery takes its steps, a
\* write is not refused or lost every time, the title is not neutral at every answer of the
\* absence probe, and an attached agent goes on working and becoming idle.
MayStep(f) == job[f].pc \notin {"none", "deferred"}
Answerable(f) == job[f].pc = "probing" /\ term[job[f].pty].status # "neutral"
Decides(f) == job[f].pc = "probing" /\ job'[f].pc \notin {"probing", "deferred"}
Seen(p) == term[p].alive /\ term[p].up /\ CanDeliver(p)

Fairness ==
  /\ \A f \in Flights :
        /\ <>[]MayStep(f) => []<><<Step(f)>>_vars
        /\ []<>(job[f].pc = "writing") => []<><<WriteSettles(f, "accepted")>>_vars
        /\ []<>Answerable(f) => []<><<Decides(f)>>_vars
  /\ \A p \in Terms, st \in {"idle", "working"} :
        []<>Seen(p) => []<><<Title(p, st, FALSE)>>_vars

FairSpec == Spec /\ Fairness

-----------------------------------------------------------------------------
(* Properties *)

\* A watermark that parks deliveries belongs to a delivery in progress that lifts it when it
\* ends: no answer, exit or new process leaves a mailbox parked for ever.
NoLeakedWatermark ==
  \A b \in Boxes : mark[b] # None /\ mark[b].active =>
     LET f == flight[mark[b].pty] IN f # 0 /\ job[f].pc # "none" /\ job[f].box = b

Presses(f) == job[f].pc = "probing" /\ job'[f].pc = "entering"

\* Enter is pressed only in a process that took the text of the pointer, never in the one that
\* replaced it under the same terminal id, whose prompt would be submitted.
EnterFollowsText ==
  [][\A f \in Flights : Presses(f) =>
       \A i \in job[f].msgs : <<i, job[f].pty, term[job[f].pty].inc>> \in typed]_vars

\* While an agent keeps its role, Enter is pressed once for each message: lost answers,
\* superseded deliveries, lost relays and restarts of the runtime do not repeat it.  Only a
\* refused write of another pointer to the same message makes it due again.
EnterPressedOnce ==
  [][\A f \in Flights : Presses(f) =>
       \A i \in job[f].msgs : <<i, job[f].pty, term[job[f].pty].inc>> \notin pressed]_vars

\* Text and Enter, sent half a second apart, meet in one process, once.
EnterMatchesText == EnterFollowsText /\ EnterPressedOnce

\* The delivery in progress of a terminal holds the watermark of its mailbox, so that no other
\* delivers the same mail: "keeps the watermark for the flight that owns the reservation"
\* (mailbox-pointer-stage.test.ts:118).  An absence proved too late takes it away.
FlightHoldsWatermark ==
  \A p \in Terms : flight[p] # 0 =>
     LET j == job[flight[p]]
     IN mark[j.box] = [pty |-> p, seq |-> Max(j.msgs), active |-> TRUE]

\* Mail is pointed at, read or held in a Delivery in the end, when the terminals stay attached
\* and the role stays where it is: nothing parked or deferred is forgotten.
MailIsPointed ==
  (/\ <>[](\A p \in Terms : term[p].alive /\ term[p].up)
   /\ <>[][UNCHANGED owner]_owner) =>
    \A i \in 1 .. MaxMail :
       (i \in DOMAIN mail) ~>
         (i \in DOMAIN mail /\ (mail[i].state # "new" \/ held[mail[i].box] # {}))
=============================================================================
