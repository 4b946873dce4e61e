------------------------ MODULE MailboxPointerProofs ------------------------
(***************************************************************************)
(* Proofs about the pointers typed into terminals: Enter is pressed in the *)
(* process that took the text and not repeated, and no mailbox is parked   *)
(* behind a watermark nobody will lift, for any terminals, mailboxes,      *)
(* processes and bounds.  A handler is a chain of changes to the pointer   *)
(* state s; each lemma carries the invariant over one change.              *)
(***************************************************************************)
EXTENDS MailboxPointer, SequenceTheorems, FiniteSetTheorems, WellFoundedInduction, TLAPS

-----------------------------------------------------------------------------
(* The inductive invariant *)

Place == [phase : 0 .. 3, pty : Terms \cup {None}, inc : {0} \cup Incs]
Row == [box : Boxes, state : {"new", "told", "read"}, at : Place]
Job == [pc : {"none", "writing", "armed", "deferred", "probing", "entering"},
        pty : Terms \cup {None}, box : Boxes \cup {None},
        msgs : SUBSET (1 .. MaxMail), inc : {0} \cup Incs,
        defer : BOOLEAN, seen : BOOLEAN, doubt : BOOLEAN]

Sound(r) ==
  /\ r \in Row
  /\ r.at = Unpointed <=> r.at.phase = 0
  /\ r.at # Unpointed => r.state = "new"

(* TypeOK, with the message rows as a sequence. *)
OutsideTyped ==
  /\ term \in [Terms -> [inc : Incs, alive : BOOLEAN, up : BOOLEAN, status : Statuses]]
  /\ owner \in [Boxes -> Terms]
  /\ waiting \subseteq Boxes
  /\ restarts \in 0 .. MaxRestarts
  /\ typed \subseteq Inputs /\ pressed \subseteq Inputs

Fields == {"mail", "flight", "job", "mark", "parked", "again", "due"}
Shape(s) == DOMAIN s = Fields

Queued(s) ==
  /\ s.parked \in [Terms -> SUBSET Boxes]
  /\ s.again \subseteq Boxes
  /\ s.due \subseteq Boxes

RowsOK(ms) ==
  /\ ms \in Seq(Row) /\ Len(ms) <= MaxMail
  /\ \A i \in DOMAIN ms : Sound(ms[i])

(* What a reader holds are rows. *)
HeldRows(ms) == held \in [Boxes -> SUBSET DOMAIN ms]

(* The rows reserved in one mailbox are reserved for one process. *)
OnePointing(ms) ==
  \A i, k \in DOMAIN ms :
    ms[i].box = ms[k].box /\ ms[i].at.phase > 0 /\ ms[k].at.phase > 0 =>
      ms[i].at.pty = ms[k].at.pty /\ ms[i].at.inc = ms[k].at.inc

(* What was sent Enter for is known to be sent or to have been tried. *)
PressedStays(ms, P) ==
  \A x \in P :
    /\ x[1] \in DOMAIN ms
    /\ owner[ms[x[1]].box] = x[2]
    /\ term[x[2]].inc = x[3]
    /\ \/ ms[x[1]].state # "new"
       \/ ms[x[1]].at = [phase |-> EnterAttempted, pty |-> x[2], inc |-> x[3]]

(* A delivery in progress is of messages of its mailbox, into a process     *)
(* that is or was the terminal's.                                           *)
JobOK(ms, j) ==
  /\ j.msgs \subseteq DOMAIN ms
  /\ j.pc # "none" =>
       /\ j.pty \in Terms /\ j.box \in Boxes /\ j.inc \in Incs
       /\ j.inc <= term[j.pty].inc
       /\ j.msgs # {}
       /\ \A i \in j.msgs : ms[i].box = j.box

(* Once the write was accepted, that process has the text.  *)
Written == {"armed", "deferred", "probing", "entering"}

TextTaken(ms, j, T) ==
  j.pc \in Written /\ j.inc = term[j.pty].inc =>
    \A i \in j.msgs : ms[i].state # "read" => <<i, j.pty, j.inc>> \in T

FlightOK(s, p) ==
  s.flight[p] # 0 => s.job[s.flight[p]].pc # "none" /\ s.job[s.flight[p]].pty = p

(* An active watermark was set by the delivery its terminal has in progress.*)
MarkOK(s, b) ==
  s.mark[b] # None /\ s.mark[b].active =>
    LET f == s.flight[s.mark[b].pty]
    IN f # 0 /\ s.job[f].box = b /\ s.mark[b].seq = Max(s.job[f].msgs)

Deliveries(s) ==
  /\ s.flight \in [Terms -> {0} \cup Flights]
  /\ s.job \in [Flights -> Job]
  /\ s.mark \in [Boxes -> Marks \cup {None}]
  /\ \A p \in Terms : FlightOK(s, p)
  /\ \A b \in Boxes : MarkOK(s, b)

Good(s, P, T) ==
  /\ Shape(s)
  /\ Queued(s)
  /\ RowsOK(s.mail)
  /\ HeldRows(s.mail)
  /\ OnePointing(s.mail)
  /\ PressedStays(s.mail, P)
  /\ Deliveries(s)
  /\ \A f \in Flights : JobOK(s.mail, s.job[f]) /\ TextTaken(s.mail, s.job[f], T)

IInv == OutsideTyped /\ Good(Now, pressed, typed)

-----------------------------------------------------------------------------
(* Lemmas about numbers *)

(* A set of numbers up to a bound has a greatest and a least element.       *)
LEMMA Extremes ==
  ASSUME NEW N \in Nat, NEW S \in SUBSET (1 .. N), S # {}
  PROVE  /\ Max(S) \in S /\ \A x \in S : x <= Max(S)
         /\ Min(S) \in S /\ \A x \in S : Min(S) <= x
PROOF
<1> DEFINE I == 1 .. N
<1>1. IsFiniteSet(I)
  BY FS_Interval
<1>2. IsWellFoundedOn(StrictSubsetOrdering(I), SUBSET I)
  BY <1>1, FS_FiniteSubsetsOfFinite, FS_StrictSubsetOrderingWellFounded
<1>3. \E x \in S : \A y \in S : x >= y
  <2> DEFINE above(x) == {y \in I : y > x}
             T == {above(x) : x \in S}
  <2>1. T \subseteq SUBSET I /\ T # {}
    OBVIOUS
  <2>2. PICK t \in T : \A u \in T : ~(<<u, t>> \in StrictSubsetOrdering(I))
    <3> HIDE DEF T, I
    <3> QED
      BY <1>2, <2>1, WFMin
  <2>3. PICK x \in S : t = above(x)
    BY <2>2
  <2>4. ASSUME NEW y \in S, y > x
        PROVE  FALSE
    <3>1. above(y) \in T
      OBVIOUS
    <3>2. above(y) \subseteq above(x) /\ y \in above(x) /\ y \notin above(y)
      BY <2>4
    <3>3. <<above(y), above(x)>> \in StrictSubsetOrdering(I)
      BY <3>2 DEF StrictSubsetOrdering
    <3> QED
      BY <3>1, <3>3, <2>2, <2>3
  <2>5. \A y \in S : x >= y
    BY <2>4
  <2> QED
    BY <2>5
<1>4. \E x \in S : \A y \in S : x =< y
  <2> DEFINE below(x) == {y \in I : y < x}
             T == {below(x) : x \in S}
  <2>1. T \subseteq SUBSET I /\ T # {}
    OBVIOUS
  <2>2. PICK t \in T : \A u \in T : ~(<<u, t>> \in StrictSubsetOrdering(I))
    <3> HIDE DEF T, I
    <3> QED
      BY <1>2, <2>1, WFMin
  <2>3. PICK x \in S : t = below(x)
    BY <2>2
  <2>4. ASSUME NEW y \in S, y < x
        PROVE  FALSE
    <3>1. below(y) \in T
      OBVIOUS
    <3>2. below(y) \subseteq below(x) /\ y \in below(x) /\ y \notin below(y)
      BY <2>4
    <3>3. <<below(y), below(x)>> \in StrictSubsetOrdering(I)
      BY <3>2 DEF StrictSubsetOrdering
    <3> QED
      BY <3>1, <3>3, <2>2, <2>3
  <2>5. \A y \in S : x =< y
    BY <2>4
  <2> QED
    BY <2>5
<1>5. Max(S) \in S /\ \A y \in S : Max(S) >= y
  BY <1>3 DEF Max
<1>6. Min(S) \in S /\ \A y \in S : Min(S) =< y
  BY <1>4 DEF Min
<1> QED
  BY <1>5, <1>6

-----------------------------------------------------------------------------
(* Lemmas about the pointer state: a change of one field leaves the others  *)

LEMMA NewMail ==
  ASSUME NEW s, Shape(s), NEW ms
  PROVE  LET t == [s EXCEPT !.mail = ms]
         IN /\ Shape(t) /\ t.mail = ms
            /\ t.flight = s.flight /\ t.job = s.job /\ t.mark = s.mark
            /\ t.parked = s.parked /\ t.again = s.again /\ t.due = s.due
BY DEF Shape, Fields

LEMMA NewMarks ==
  ASSUME NEW s, Shape(s), NEW ws
  PROVE  LET t == [s EXCEPT !.mark = ws]
         IN /\ Shape(t) /\ t.mark = ws
            /\ t.mail = s.mail /\ t.flight = s.flight /\ t.job = s.job
            /\ t.parked = s.parked /\ t.again = s.again /\ t.due = s.due
BY DEF Shape, Fields

-----------------------------------------------------------------------------
(* Lemmas about message rows *)

LEMMA SeqOfFunction ==
  ASSUME NEW S, NEW n \in Nat, NEW f \in [1 .. n -> S]
  PROVE  f \in Seq(S) /\ Len(f) = n
PROOF
<1>1. f \in Seq(S)
  BY SeqDef
<1>2. Len(f) \in Nat /\ DOMAIN f = 1 .. Len(f)
  BY <1>1, LenProperties
<1>3. 1 .. Len(f) = 1 .. n
  BY <1>2
<1>4. Len(f) <= n
  <2>1. CASE Len(f) = 0
    BY <2>1
  <2>2. CASE Len(f) # 0
    <3>1. Len(f) \in 1 .. Len(f)
      BY <1>2, <2>2
    <3> QED
      BY <3>1, <1>3
  <2> QED
    BY <2>1, <2>2
<1>5. n <= Len(f)
  <2>1. CASE n = 0
    BY <2>1, <1>2
  <2>2. CASE n # 0
    <3>1. n \in 1 .. n
      BY <2>2
    <3> QED
      BY <3>1, <1>3
  <2> QED
    BY <2>1, <2>2
<1> QED
  BY <1>1, <1>2, <1>4, <1>5

(* Rows each of which is replaced by a sound row are sound. *)
LEMMA Rewritten ==
  ASSUME NEW ms, RowsOK(ms), NEW new, new = [i \in DOMAIN ms |-> new[i]],
         \A i \in DOMAIN ms : Sound(new[i])
  PROVE  RowsOK(new) /\ DOMAIN new = DOMAIN ms
PROOF
<1>1. ms \in Seq(Row) /\ Len(ms) \in Nat /\ DOMAIN ms = 1 .. Len(ms) /\ Len(ms) <= MaxMail
  BY LenProperties DEF RowsOK
<1>2. \A i \in DOMAIN ms : new[i] \in Row
  BY DEF Sound
<1>3. new \in [1 .. Len(ms) -> Row]
  BY <1>1, <1>2
<1>4. new \in Seq(Row) /\ Len(new) = Len(ms)
  BY <1>1, <1>3, SeqOfFunction
<1> QED
  BY <1>1, <1>4 DEF RowsOK

LEMMA RowDomain ==
  ASSUME NEW ms, RowsOK(ms)
  PROVE  DOMAIN ms = 1 .. Len(ms) /\ DOMAIN ms \subseteq 1 .. MaxMail /\ Len(ms) \in Nat
BY LenProperties, PointerConstants DEF RowsOK

LEMMA RowFields ==
  ASSUME NEW r, Sound(r)
  PROVE  /\ r.box \in Boxes /\ r.state \in {"new", "told", "read"} /\ r.at \in Place
         /\ r.at.phase \in 0 .. 3
         /\ r.at.pty \in Terms \cup {None}
         /\ r.at.inc \in {0} \cup Incs
         /\ r.at.phase > 0 => r.state = "new" /\ r.at # Unpointed
         /\ r.at.phase = 0 => r.at = Unpointed
BY DEF Sound, Row, Place

LEMMA UnpointedPlace ==
  Unpointed \in Place /\ Unpointed.phase = 0
BY DEF Unpointed, Place

LEMMA Renewed ==
  ASSUME NEW r, Sound(r)
  PROVE  LET q == [r EXCEPT !.state = "new", !.at = Unpointed]
         IN Sound(q) /\ q.box = r.box /\ q.state = "new" /\ q.at = Unpointed
BY UnpointedPlace DEF Sound, Row

LEMMA Told ==
  ASSUME NEW r, Sound(r)
  PROVE  LET q == [r EXCEPT !.state = "told", !.at = Unpointed]
         IN Sound(q) /\ q.box = r.box /\ q.state = "told" /\ q.at = Unpointed
BY UnpointedPlace DEF Sound, Row

LEMMA WasRead ==
  ASSUME NEW r, Sound(r)
  PROVE  LET q == [r EXCEPT !.state = "read", !.at = Unpointed]
         IN Sound(q) /\ q.box = r.box /\ q.state = "read" /\ q.at = Unpointed
BY UnpointedPlace DEF Sound, Row

LEMMA Placed ==
  ASSUME NEW r, Sound(r), r.state = "new", NEW a \in Place, a.phase > 0
  PROVE  LET q == [r EXCEPT !.at = a]
         IN Sound(q) /\ q.box = r.box /\ q.state = "new" /\ q.at = a
PROOF
<1>1. a # Unpointed /\ a.phase # 0
  BY UnpointedPlace DEF Place
<1> QED
  BY <1>1 DEF Sound, Row

(* The three rewrites of rows a delivery makes. *)
LEMMA UndeliverRows ==
  ASSUME NEW s, Shape(s), RowsOK(s.mail), NEW I
  PROVE  LET t == Undeliver(s, I)
         IN /\ Shape(t)
            /\ RowsOK(t.mail) /\ DOMAIN t.mail = DOMAIN s.mail
            /\ t.flight = s.flight /\ t.job = s.job /\ t.mark = s.mark
            /\ t.parked = s.parked /\ t.again = s.again /\ t.due = s.due
            /\ \A i \in DOMAIN s.mail :
                 /\ t.mail[i].box = s.mail[i].box
                 /\ i \in I /\ s.mail[i].state # "read" =>
                      t.mail[i].state = "new" /\ t.mail[i].at = Unpointed
                 /\ ~(i \in I /\ s.mail[i].state # "read") => t.mail[i] = s.mail[i]
PROOF
<1> DEFINE hit(i) == i \in I /\ s.mail[i].state # "read"
           renewed(i) == [s.mail[i] EXCEPT !.state = "new", !.at = Unpointed]
           new == [i \in DOMAIN s.mail |-> IF hit(i) THEN renewed(i) ELSE s.mail[i]]
<1>1. Undeliver(s, I) = [s EXCEPT !.mail = new]
  BY DEF Undeliver
<1>2. ASSUME NEW i \in DOMAIN s.mail
      PROVE  /\ Sound(new[i])
             /\ new[i].box = s.mail[i].box
             /\ hit(i) => new[i].state = "new" /\ new[i].at = Unpointed
             /\ ~hit(i) => new[i] = s.mail[i]
  <2>1. new[i] = IF hit(i) THEN renewed(i) ELSE s.mail[i]
    OBVIOUS
  <2>2. Sound(s.mail[i])
    BY DEF RowsOK
  <2>3. /\ Sound(renewed(i)) /\ renewed(i).box = s.mail[i].box
        /\ renewed(i).state = "new" /\ renewed(i).at = Unpointed
    BY <2>2, Renewed
  <2> HIDE DEF new, hit, renewed
  <2>4. CASE hit(i)
    BY <2>1, <2>3, <2>4
  <2>5. CASE ~hit(i)
    BY <2>1, <2>2, <2>5
  <2> QED
    BY <2>4, <2>5
<1>3. new = [i \in DOMAIN s.mail |-> new[i]]
  OBVIOUS
<1> HIDE DEF new
<1>4. RowsOK(new) /\ DOMAIN new = DOMAIN s.mail
  BY <1>2, <1>3, Rewritten
<1> QED
  BY <1>1, <1>2, <1>4, NewMail

LEMMA TellRows ==
  ASSUME NEW s, Shape(s), RowsOK(s.mail), NEW I
  PROVE  LET t == Tell(s, I)
         IN /\ Shape(t)
            /\ RowsOK(t.mail) /\ DOMAIN t.mail = DOMAIN s.mail
            /\ t.flight = s.flight /\ t.job = s.job /\ t.mark = s.mark
            /\ t.parked = s.parked /\ t.again = s.again /\ t.due = s.due
            /\ \A i \in DOMAIN s.mail :
                 /\ t.mail[i].box = s.mail[i].box
                 /\ i \in I => t.mail[i].state = "told" /\ t.mail[i].at = Unpointed
                 /\ i \notin I => t.mail[i] = s.mail[i]
PROOF
<1> DEFINE told(i) == [s.mail[i] EXCEPT !.state = "told", !.at = Unpointed]
           new == [i \in DOMAIN s.mail |-> IF i \in I THEN told(i) ELSE s.mail[i]]
<1>1. Tell(s, I) = [s EXCEPT !.mail = new]
  BY DEF Tell
<1>2. ASSUME NEW i \in DOMAIN s.mail
      PROVE  /\ Sound(new[i])
             /\ new[i].box = s.mail[i].box
             /\ i \in I => new[i].state = "told" /\ new[i].at = Unpointed
             /\ i \notin I => new[i] = s.mail[i]
  <2>1. new[i] = IF i \in I THEN told(i) ELSE s.mail[i]
    OBVIOUS
  <2>2. Sound(s.mail[i])
    BY DEF RowsOK
  <2>3. /\ Sound(told(i)) /\ told(i).box = s.mail[i].box
        /\ told(i).state = "told" /\ told(i).at = Unpointed
    BY <2>2, Told
  <2> HIDE DEF new, told
  <2>4. CASE i \in I
    BY <2>1, <2>3, <2>4
  <2>5. CASE i \notin I
    BY <2>1, <2>2, <2>5
  <2> QED
    BY <2>4, <2>5
<1>3. new = [i \in DOMAIN s.mail |-> new[i]]
  OBVIOUS
<1> HIDE DEF new
<1>4. RowsOK(new) /\ DOMAIN new = DOMAIN s.mail
  BY <1>2, <1>3, Rewritten
<1> QED
  BY <1>1, <1>2, <1>4, NewMail

LEMMA PointRows ==
  ASSUME NEW s, Shape(s), RowsOK(s.mail), NEW I, NEW a \in Place, a.phase > 0,
         \A i \in I : i \in DOMAIN s.mail => s.mail[i].state = "new"
  PROVE  LET t == Point(s, I, a)
         IN /\ Shape(t)
            /\ RowsOK(t.mail) /\ DOMAIN t.mail = DOMAIN s.mail
            /\ t.flight = s.flight /\ t.job = s.job /\ t.mark = s.mark
            /\ t.parked = s.parked /\ t.again = s.again /\ t.due = s.due
            /\ \A i \in DOMAIN s.mail :
                 /\ t.mail[i].box = s.mail[i].box
                 /\ t.mail[i].state = s.mail[i].state
                 /\ i \in I => t.mail[i].at = a
                 /\ i \notin I => t.mail[i] = s.mail[i]
PROOF
<1> DEFINE placed(i) == [s.mail[i] EXCEPT !.at = a]
           new == [i \in DOMAIN s.mail |-> IF i \in I THEN placed(i) ELSE s.mail[i]]
<1>1. Point(s, I, a) = [s EXCEPT !.mail = new]
  BY DEF Point
<1>2. ASSUME NEW i \in DOMAIN s.mail
      PROVE  /\ Sound(new[i])
             /\ new[i].box = s.mail[i].box
             /\ new[i].state = s.mail[i].state
             /\ i \in I => new[i].at = a
             /\ i \notin I => new[i] = s.mail[i]
  <2>1. new[i] = IF i \in I THEN placed(i) ELSE s.mail[i]
    OBVIOUS
  <2>2. Sound(s.mail[i])
    BY DEF RowsOK
  <2>3. i \in I => /\ Sound(placed(i)) /\ placed(i).box = s.mail[i].box
                   /\ placed(i).state = s.mail[i].state /\ placed(i).at = a
    BY <2>2, Placed
  <2> HIDE DEF new, placed
  <2>4. CASE i \in I
    BY <2>1, <2>3, <2>4
  <2>5. CASE i \notin I
    BY <2>1, <2>2, <2>5
  <2> QED
    BY <2>4, <2>5
<1>3. new = [i \in DOMAIN s.mail |-> new[i]]
  OBVIOUS
<1> HIDE DEF new
<1>4. RowsOK(new) /\ DOMAIN new = DOMAIN s.mail
  BY <1>2, <1>3, Rewritten
<1> QED
  BY <1>1, <1>2, <1>4, NewMail

-----------------------------------------------------------------------------
(* The invariant across one change *)

LEMMA GoodFields ==
  ASSUME NEW s, NEW P, NEW T, Good(s, P, T)
  PROVE  /\ Shape(s) /\ Queued(s) /\ RowsOK(s.mail) /\ Deliveries(s)
         /\ \A p \in Terms : s.flight[p] \in {0} \cup Flights
         /\ \A f \in Flights : s.job[f] \in Job /\ JobOK(s.mail, s.job[f])
         /\ \A b \in Boxes : s.mark[b] \in Marks \cup {None}
         /\ \A p \in Terms : FlightOK(s, p)
         /\ \A b \in Boxes : MarkOK(s, b)
BY DEF Good, Deliveries

(* Queues alone. *)
LEMMA GoodQueues ==
  ASSUME NEW s, NEW P, NEW T, Good(s, P, T),
         NEW t, Shape(t), Queued(t),
         t.mail = s.mail, t.flight = s.flight, t.job = s.job, t.mark = s.mark
  PROVE  Good(t, P, T)
BY DEF Good, Deliveries, FlightOK, MarkOK

(* The rows: mailboxes stay and what is read stays read. *)
LEMMA GoodRows ==
  ASSUME NEW s, NEW P, NEW T, Good(s, P, T),
         NEW t, NEW Q, Shape(t), Queued(t), RowsOK(t.mail), DOMAIN t.mail = DOMAIN s.mail,
         t.flight = s.flight, t.job = s.job, t.mark = s.mark,
         \A i \in DOMAIN s.mail :
           t.mail[i].box = s.mail[i].box /\ (s.mail[i].state = "read" => t.mail[i].state = "read"),
         OnePointing(t.mail), PressedStays(t.mail, Q)
  PROVE  Good(t, Q, T)
PROOF
<1>1. Deliveries(t)
  <2>1. Deliveries(s)
    BY DEF Good
  <2> QED
    BY <2>1 DEF Deliveries, FlightOK, MarkOK
<1>2. ASSUME NEW f \in Flights
      PROVE  JobOK(t.mail, t.job[f]) /\ TextTaken(t.mail, t.job[f], T)
  <2>1. JobOK(s.mail, s.job[f]) /\ TextTaken(s.mail, s.job[f], T)
    BY DEF Good
  <2>2. JobOK(t.mail, s.job[f])
    BY <2>1 DEF JobOK
  <2>3. s.job[f].msgs \subseteq DOMAIN s.mail
    BY <2>1 DEF JobOK
  <2>4. TextTaken(t.mail, s.job[f], T)
    BY <2>1, <2>3 DEF TextTaken
  <2> QED
    BY <2>2, <2>4
<1>3. HeldRows(t.mail)
  BY DEF Good, HeldRows
<1> QED
  BY <1>1, <1>2, <1>3 DEF Good

LEMMA GoodUndeliver ==
  ASSUME NEW s, NEW P, NEW T, Good(s, P, T), NEW I,
         \A x \in P : x[1] \in I => s.mail[x[1]].state = "read"
  PROVE  Good(Undeliver(s, I), P, T)
PROOF
<1> DEFINE t == Undeliver(s, I)
<1>1. Shape(s) /\ Queued(s) /\ RowsOK(s.mail) /\ OnePointing(s.mail) /\ PressedStays(s.mail, P)
  BY DEF Good
<1>2. /\ Shape(t)
      /\ RowsOK(t.mail) /\ DOMAIN t.mail = DOMAIN s.mail
      /\ t.flight = s.flight /\ t.job = s.job /\ t.mark = s.mark
      /\ t.parked = s.parked /\ t.again = s.again /\ t.due = s.due
      /\ \A i \in DOMAIN s.mail :
           /\ t.mail[i].box = s.mail[i].box
           /\ i \in I /\ s.mail[i].state # "read" =>
                t.mail[i].state = "new" /\ t.mail[i].at = Unpointed
           /\ ~(i \in I /\ s.mail[i].state # "read") => t.mail[i] = s.mail[i]
  BY <1>1, UndeliverRows
<1> HIDE DEF t
<1>3. \A i \in DOMAIN s.mail : t.mail[i] = s.mail[i] \/ t.mail[i].at.phase = 0
  BY <1>2, UnpointedPlace
<1>4. OnePointing(t.mail)
  <2> SUFFICES ASSUME NEW i \in DOMAIN s.mail, NEW k \in DOMAIN s.mail,
                      t.mail[i].box = t.mail[k].box, t.mail[i].at.phase > 0, t.mail[k].at.phase > 0
               PROVE  t.mail[i].at.pty = t.mail[k].at.pty /\ t.mail[i].at.inc = t.mail[k].at.inc
    BY <1>2 DEF OnePointing
  <2>1. t.mail[i] = s.mail[i] /\ t.mail[k] = s.mail[k]
    BY <1>3
  <2> QED
    BY <2>1, <1>1 DEF OnePointing
<1>5. PressedStays(t.mail, P)
  <2> SUFFICES ASSUME NEW x \in P
               PROVE  /\ x[1] \in DOMAIN t.mail
                      /\ owner[t.mail[x[1]].box] = x[2]
                      /\ term[x[2]].inc = x[3]
                      /\ \/ t.mail[x[1]].state # "new"
                         \/ t.mail[x[1]].at = [phase |-> EnterAttempted, pty |-> x[2], inc |-> x[3]]
    BY DEF PressedStays
  <2>1. t.mail[x[1]] = s.mail[x[1]] /\ x[1] \in DOMAIN s.mail
    BY <1>1, <1>2 DEF PressedStays
  <2> QED
    BY <1>1, <1>2, <2>1 DEF PressedStays
<1>6. Queued(t)
  BY <1>1, <1>2 DEF Queued
<1>7. \A i \in DOMAIN s.mail : s.mail[i].state = "read" => t.mail[i].state = "read"
  BY <1>2
<1>8. Good(t, P, T)
  BY <1>2, <1>4, <1>5, <1>6, <1>7, GoodRows
<1> QED
  BY <1>8 DEF t

LEMMA GoodTell ==
  ASSUME NEW s, NEW P, NEW T, Good(s, P, T), NEW I,
         \A i \in I : i \in DOMAIN s.mail => s.mail[i].state # "read"
  PROVE  Good(Tell(s, I), P, T)
PROOF
<1> DEFINE t == Tell(s, I)
<1>1. Shape(s) /\ Queued(s) /\ RowsOK(s.mail) /\ OnePointing(s.mail) /\ PressedStays(s.mail, P)
  BY DEF Good
<1>2. /\ Shape(t)
      /\ RowsOK(t.mail) /\ DOMAIN t.mail = DOMAIN s.mail
      /\ t.flight = s.flight /\ t.job = s.job /\ t.mark = s.mark
      /\ t.parked = s.parked /\ t.again = s.again /\ t.due = s.due
      /\ \A i \in DOMAIN s.mail :
           /\ t.mail[i].box = s.mail[i].box
           /\ i \in I => t.mail[i].state = "told" /\ t.mail[i].at = Unpointed
           /\ i \notin I => t.mail[i] = s.mail[i]
  BY <1>1, TellRows
<1> HIDE DEF t
<1>3. \A i \in DOMAIN s.mail : t.mail[i] = s.mail[i] \/ t.mail[i].at.phase = 0
  BY <1>2, UnpointedPlace
<1>4. OnePointing(t.mail)
  <2> SUFFICES ASSUME NEW i \in DOMAIN s.mail, NEW k \in DOMAIN s.mail,
                      t.mail[i].box = t.mail[k].box, t.mail[i].at.phase > 0, t.mail[k].at.phase > 0
               PROVE  t.mail[i].at.pty = t.mail[k].at.pty /\ t.mail[i].at.inc = t.mail[k].at.inc
    BY <1>2 DEF OnePointing
  <2>1. t.mail[i] = s.mail[i] /\ t.mail[k] = s.mail[k]
    BY <1>3
  <2> QED
    BY <2>1, <1>1 DEF OnePointing
<1>5. PressedStays(t.mail, P)
  <2> SUFFICES ASSUME NEW x \in P
               PROVE  /\ x[1] \in DOMAIN t.mail
                      /\ owner[t.mail[x[1]].box] = x[2]
                      /\ term[x[2]].inc = x[3]
                      /\ \/ t.mail[x[1]].state # "new"
                         \/ t.mail[x[1]].at = [phase |-> EnterAttempted, pty |-> x[2], inc |-> x[3]]
    BY DEF PressedStays
  <2>1. /\ t.mail[x[1]] = s.mail[x[1]] \/ t.mail[x[1]].state = "told"
        /\ t.mail[x[1]].box = s.mail[x[1]].box
        /\ x[1] \in DOMAIN s.mail
    BY <1>1, <1>2 DEF PressedStays
  <2> QED
    BY <1>1, <1>2, <2>1 DEF PressedStays
<1>6. Queued(t)
  BY <1>1, <1>2 DEF Queued
<1>7. \A i \in DOMAIN s.mail : s.mail[i].state = "read" => t.mail[i].state = "read"
  BY <1>2
<1>8. Good(t, P, T)
  BY <1>2, <1>4, <1>5, <1>6, <1>7, GoodRows
<1> QED
  BY <1>8 DEF t

(* One delivery goes on with the same pointer. *)
LEMMA GoodJob ==
  ASSUME NEW s, NEW P, NEW T, NEW U, Good(s, P, T), T \subseteq U,
         NEW f \in Flights, s.job[f].pc # "none",
         NEW t, Shape(t), Queued(t), t.mail = s.mail, t.flight = s.flight, t.mark = s.mark,
         t.job \in [Flights -> Job], \A g \in Flights : g # f => t.job[g] = s.job[g],
         t.job[f].pc # "none", t.job[f].pty = s.job[f].pty, t.job[f].box = s.job[f].box,
         t.job[f].msgs = s.job[f].msgs, t.job[f].inc = s.job[f].inc,
         TextTaken(s.mail, t.job[f], U)
  PROVE  Good(t, P, U)
PROOF
<1>1. s.job \in [Flights -> Job] /\ s.flight \in [Terms -> {0} \cup Flights]
  BY DEF Good, Deliveries
<1>3. \A g \in Flights : /\ t.job[g].box = s.job[g].box /\ t.job[g].msgs = s.job[g].msgs
                         /\ t.job[g].pty = s.job[g].pty
                         /\ (s.job[g].pc # "none" => t.job[g].pc # "none")
  OBVIOUS
<1>4. Deliveries(t)
  <2>1. \A p \in Terms : FlightOK(t, p)
    BY <1>1, <1>3 DEF Good, Deliveries, FlightOK
  <2>2. ASSUME NEW b \in Boxes
        PROVE  MarkOK(t, b)
    <3>1. MarkOK(s, b) /\ (s.mark[b] # None => s.mark[b].pty \in Terms)
      BY DEF Good, Deliveries, Marks
    <3> QED
      BY <3>1, <1>1, <1>3 DEF MarkOK
  <2> QED
    BY <2>1, <2>2 DEF Good, Deliveries
<1>5. ASSUME NEW g \in Flights
      PROVE  JobOK(t.mail, t.job[g]) /\ TextTaken(t.mail, t.job[g], U)
  <2>1. JobOK(s.mail, s.job[g]) /\ TextTaken(s.mail, s.job[g], T) /\ JobOK(s.mail, s.job[f])
    BY DEF Good
  <2>2. CASE g = f
    <3>1. JobOK(s.mail, t.job[f])
      BY <2>1 DEF JobOK
    <3> QED
      BY <3>1, <2>2
  <2>3. CASE g # f
    <3>1. TextTaken(s.mail, s.job[g], U)
      BY <2>1 DEF TextTaken
    <3> QED
      BY <3>1, <2>1, <2>3
  <2> QED
    BY <2>2, <2>3
<1> QED
  BY <1>4, <1>5 DEF Good

(* A watermark is lifted or no longer parks deliveries. *)
LEMMA GoodMarks ==
  ASSUME NEW s, NEW P, NEW T, Good(s, P, T),
         NEW t, Shape(t), Queued(t), t.mail = s.mail, t.flight = s.flight, t.job = s.job,
         t.mark \in [Boxes -> Marks \cup {None}],
         \A b \in Boxes : t.mark[b] = s.mark[b] \/ t.mark[b] = None \/ ~t.mark[b].active
  PROVE  Good(t, P, T)
PROOF
<1>1. \A b \in Boxes : MarkOK(t, b)
  BY DEF Good, Deliveries, MarkOK
<1>2. Deliveries(t)
  BY <1>1 DEF Good, Deliveries, FlightOK
<1> QED
  BY <1>2 DEF Good

-----------------------------------------------------------------------------
(* The invariant across the operations of a delivery *)

(* No delivery of terminal p is parked upon. *)
Quiet(s, p) == \A b \in Boxes : s.mark[b] # None /\ s.mark[b].active => s.mark[b].pty # p

LEMMA GoodClearMark ==
  ASSUME NEW s, NEW P, NEW T, Good(s, P, T), NEW f \in Flights, s.job[f].pc # "none"
  PROVE  LET t == ClearMark(s, s.job[f])
         IN /\ Good(t, P, T)
            /\ t.mail = s.mail /\ t.flight = s.flight /\ t.job = s.job
            /\ t.parked = s.parked /\ t.again = s.again /\ t.due = s.due
            /\ s.flight[s.job[f].pty] = f => Quiet(t, s.job[f].pty)
PROOF
<1> DEFINE j == s.job[f]
           t == ClearMark(s, j)
<1>1. /\ Shape(s) /\ Queued(s) /\ Deliveries(s) /\ JobOK(s.mail, j)
      /\ s.mark \in [Boxes -> Marks \cup {None}] /\ \A b \in Boxes : MarkOK(s, b)
  BY DEF Good, Deliveries
<1>2. j.pty \in Terms /\ j.box \in Boxes
  BY <1>1 DEF JobOK
<1>3. CASE Marked(s, j)
  <2>1. t = [s EXCEPT !.mark = [s.mark EXCEPT ![j.box] = None]]
    BY <1>3 DEF ClearMark
  <2>2. /\ Shape(t) /\ t.mark = [s.mark EXCEPT ![j.box] = None]
        /\ t.mail = s.mail /\ t.flight = s.flight /\ t.job = s.job
        /\ t.parked = s.parked /\ t.again = s.again /\ t.due = s.due
    BY <2>1, <1>1, NewMarks
  <2> HIDE DEF t
  <2>3. t.mark \in [Boxes -> Marks \cup {None}]
    BY <2>2, <1>1
  <2>4. \A b \in Boxes : t.mark[b] = s.mark[b] \/ t.mark[b] = None
    BY <2>2, <1>1
  <2>5. Queued(t)
    BY <1>1, <2>2 DEF Queued
  <2>6. Good(t, P, T)
    BY <2>2, <2>3, <2>4, <2>5, GoodMarks
  <2>7. ASSUME s.flight[j.pty] = f
        PROVE  Quiet(t, j.pty)
    <3> SUFFICES ASSUME NEW b \in Boxes, t.mark[b] # None, t.mark[b].active, t.mark[b].pty = j.pty
                 PROVE  FALSE
      BY DEF Quiet
    <3>1. t.mark[b] = s.mark[b]
      BY <2>4
    <3>2. j.box = b
      BY <3>1, <2>7, <1>1 DEF MarkOK
    <3> QED
      BY <3>2, <2>2, <1>1
  <2> QED
    BY <2>2, <2>6, <2>7 DEF t
<1>4. CASE ~Marked(s, j)
  <2>1. t = s
    BY <1>4 DEF ClearMark
  <2> HIDE DEF t
  <2>2. ASSUME s.flight[j.pty] = f
        PROVE  Quiet(t, j.pty)
    <3> SUFFICES ASSUME NEW b \in Boxes, s.mark[b] # None, s.mark[b].active, s.mark[b].pty = j.pty
                 PROVE  FALSE
      BY <2>1 DEF Quiet
    <3>1. j.box = b /\ s.mark[b].seq = Max(j.msgs)
      BY <2>2, <1>1 DEF MarkOK
    <3> QED
      BY <3>1, <1>4 DEF Marked
  <2> QED
    BY <2>1, <2>2 DEF t
<1> QED
  BY <1>3, <1>4

LEMMA GoodDimMark ==
  ASSUME NEW s, NEW P, NEW T, Good(s, P, T), NEW f \in Flights, s.job[f].pc # "none"
  PROVE  LET t == DimMark(s, s.job[f])
         IN /\ Good(t, P, T)
            /\ t.mail = s.mail /\ t.flight = s.flight /\ t.job = s.job
            /\ t.parked = s.parked /\ t.again = s.again /\ t.due = s.due
            /\ s.flight[s.job[f].pty] = f => Quiet(t, s.job[f].pty)
PROOF
<1> DEFINE j == s.job[f]
           t == DimMark(s, j)
<1>1. /\ Shape(s) /\ Queued(s) /\ Deliveries(s) /\ JobOK(s.mail, j)
      /\ s.mark \in [Boxes -> Marks \cup {None}] /\ \A b \in Boxes : MarkOK(s, b)
  BY DEF Good, Deliveries
<1>2. j.pty \in Terms /\ j.box \in Boxes
  BY <1>1 DEF JobOK
<1>3. CASE Marked(s, j)
  <2> DEFINE dim == [s.mark[j.box] EXCEPT !.active = FALSE]
  <2>1. t = [s EXCEPT !.mark = [s.mark EXCEPT ![j.box] = dim]]
    BY <1>3 DEF DimMark
  <2>2. /\ Shape(t) /\ t.mark = [s.mark EXCEPT ![j.box] = dim]
        /\ t.mail = s.mail /\ t.flight = s.flight /\ t.job = s.job
        /\ t.parked = s.parked /\ t.again = s.again /\ t.due = s.due
    BY <2>1, <1>1, NewMarks
  <2>3. s.mark[j.box] \in Marks
    BY <1>1, <1>2, <1>3 DEF Marked
  <2>4. dim \in Marks /\ ~dim.active
    BY <2>3 DEF Marks
  <2> HIDE DEF t, dim
  <2>5. t.mark \in [Boxes -> Marks \cup {None}]
    BY <2>2, <2>4, <1>1
  <2>6. \A b \in Boxes : (t.mark[b] = s.mark[b] /\ b # j.box) \/ ~t.mark[b].active
    BY <2>2, <2>4, <1>1
  <2>7. Queued(t)
    BY <1>1, <2>2 DEF Queued
  <2>8. Good(t, P, T)
    BY <2>2, <2>5, <2>6, <2>7, GoodMarks
  <2>9. ASSUME s.flight[j.pty] = f
        PROVE  Quiet(t, j.pty)
    <3> SUFFICES ASSUME NEW b \in Boxes, t.mark[b] # None, t.mark[b].active, t.mark[b].pty = j.pty
                 PROVE  FALSE
      BY DEF Quiet
    <3>1. t.mark[b] = s.mark[b] /\ b # j.box
      BY <2>6
    <3> QED
      BY <3>1, <2>9, <1>1 DEF MarkOK
  <2> QED
    BY <2>2, <2>8, <2>9 DEF t
<1>4. CASE ~Marked(s, j)
  <2>1. t = s
    BY <1>4 DEF DimMark
  <2> HIDE DEF t
  <2>2. ASSUME s.flight[j.pty] = f
        PROVE  Quiet(t, j.pty)
    <3> SUFFICES ASSUME NEW b \in Boxes, s.mark[b] # None, s.mark[b].active, s.mark[b].pty = j.pty
                 PROVE  FALSE
      BY <2>1 DEF Quiet
    <3>1. j.box = b /\ s.mark[b].seq = Max(j.msgs)
      BY <2>2, <1>1 DEF MarkOK
    <3> QED
      BY <3>1, <1>4 DEF Marked
  <2> QED
    BY <2>1, <2>2 DEF t
<1> QED
  BY <1>3, <1>4

LEMMA GoodRedrive ==
  ASSUME NEW s, NEW P, NEW T, Good(s, P, T), NEW b \in Boxes, NEW force
  PROVE  LET t == Redrive(s, b, force)
         IN /\ Good(t, P, T)
            /\ t.mail = s.mail /\ t.flight = s.flight /\ t.job = s.job /\ t.mark = s.mark
PROOF
<1> DEFINE t == Redrive(s, b, force)
           u == [s EXCEPT !.again = s.again \ {b}, !.due = s.due \cup {b}]
<1>1. Shape(s) /\ Queued(s)
  BY DEF Good
<1>2. /\ Shape(u) /\ u.again = s.again \ {b} /\ u.due = s.due \cup {b}
      /\ u.mail = s.mail /\ u.flight = s.flight /\ u.job = s.job
      /\ u.mark = s.mark /\ u.parked = s.parked
  BY <1>1 DEF Shape, Fields
<1>3. t = u \/ t = s
  BY DEF Redrive
<1> HIDE DEF t, u
<1>4. Queued(u)
  BY <1>1, <1>2 DEF Queued
<1>5. Good(u, P, T)
  BY <1>2, <1>4, GoodQueues
<1> QED
  BY <1>2, <1>3, <1>5 DEF t

(* A delivery that goes on: its Enter is sent, held back or noticed. *)
LEMMA GoodSubmit ==
  ASSUME NEW s, NEW P, NEW T, NEW U, Good(s, P, T), T \subseteq U,
         NEW f \in Flights, s.job[f].pc # "none",
         s.job[f].pc \in Written \/ (s.job[f].msgs \X {s.job[f].pty} \X {s.job[f].inc}) \subseteq U,
         term[s.job[f].pty].alive \in BOOLEAN
  PROVE  LET t == Submit(s, f)
         IN /\ Good(t, P, U)
            /\ t.flight = s.flight /\ t.parked = s.parked /\ t.mail = s.mail /\ t.mark = s.mark
            /\ Free(t) = Free(s)
PROOF
<1> DEFINE d == ~term[s.job[f].pty].alive
           j == [s.job[f] EXCEPT !.pc = "probing", !.defer = FALSE, !.seen = FALSE, !.doubt = d]
           t == Submit(s, f)
<1>1. /\ Shape(s) /\ Queued(s) /\ s.job \in [Flights -> Job] /\ s.job[f] \in Job
      /\ JobOK(s.mail, s.job[f]) /\ TextTaken(s.mail, s.job[f], T)
  BY DEF Good, Deliveries
<1>2. /\ j \in Job /\ j.pc = "probing" /\ j.pty = s.job[f].pty /\ j.box = s.job[f].box
      /\ j.msgs = s.job[f].msgs /\ j.inc = s.job[f].inc
  BY <1>1 DEF Job
<1>3. t.job = [s.job EXCEPT ![f] = j]
  BY <1>1 DEF Submit, Shape, Fields
<1>4. /\ Shape(t) /\ t.mail = s.mail /\ t.flight = s.flight /\ t.mark = s.mark
      /\ t.parked = s.parked /\ t.again = s.again /\ t.due = s.due
  BY <1>1 DEF Submit, Shape, Fields
<1> HIDE DEF t, j
<1>5. TextTaken(s.mail, j, U)
  BY <1>1, <1>2 DEF TextTaken
<1>6. Queued(t)
  BY <1>1, <1>4 DEF Queued
<1>7. t.job \in [Flights -> Job] /\ t.job[f] = j /\ \A g \in Flights : g # f => t.job[g] = s.job[g]
  BY <1>1, <1>2, <1>3
<1>10. /\ t.job[f].pc # "none" /\ t.job[f].pty = s.job[f].pty /\ t.job[f].box = s.job[f].box
       /\ t.job[f].msgs = s.job[f].msgs /\ t.job[f].inc = s.job[f].inc
       /\ TextTaken(s.mail, t.job[f], U)
  BY <1>2, <1>5, <1>7
<1>9. Good(t, P, U)
  BY <1>4, <1>6, <1>7, <1>10, GoodJob
<1>8. Free(t) = Free(s)
  BY <1>1, <1>2, <1>3 DEF Free
<1> QED
  BY <1>4, <1>8, <1>9 DEF t

LEMMA SameFree ==
  ASSUME NEW s, NEW t, NEW f \in Flights, s.job[f].pc # "none", t.job[f].pc # "none",
         \A g \in Flights : g # f => t.job[g] = s.job[g]
  PROVE  Free(t) = Free(s)
BY DEF Free

(* The delivery in progress of a terminal. *)
LEMMA InFlight ==
  ASSUME NEW s, NEW P, NEW T, Good(s, P, T), NEW p \in Terms, s.flight[p] # 0
  PROVE  /\ s.flight[p] \in Flights /\ s.job[s.flight[p]] \in Job
         /\ s.job[s.flight[p]].pc # "none" /\ s.job[s.flight[p]].pty = p
BY DEF Good, Deliveries, FlightOK

LEMMA TermFields ==
  ASSUME OutsideTyped, NEW p \in Terms
  PROVE  /\ term[p].inc \in Incs /\ term[p].alive \in BOOLEAN
         /\ term[p].up \in BOOLEAN /\ term[p].status \in Statuses
BY DEF OutsideTyped

LEMMA GoodTakeDeferred ==
  ASSUME OutsideTyped, NEW s, NEW P, NEW T, Good(s, P, T), NEW p \in Terms
  PROVE  LET t == TakeDeferred(s, p)
         IN /\ Good(t, P, T)
            /\ t.flight = s.flight /\ t.mail = s.mail /\ t.mark = s.mark /\ Free(t) = Free(s)
PROOF
<1> DEFINE t == TakeDeferred(s, p)
           f == s.flight[p]
<1>1. CASE t = s
  BY <1>1
<1>2. CASE f # 0 /\ s.job[f].pc = "deferred" /\ t = Submit(s, f)
  <2>1. f \in Flights /\ s.job[f].pc # "none" /\ s.job[f].pc \in Written /\ s.job[f].pty \in Terms
    BY <1>2, InFlight DEF Written
  <2>2. term[s.job[f].pty].alive \in BOOLEAN
    BY <2>1, TermFields
  <2> HIDE DEF f
  <2>3. LET u == Submit(s, f)
        IN /\ Good(u, P, T)
           /\ u.flight = s.flight /\ u.parked = s.parked /\ u.mail = s.mail /\ u.mark = s.mark
           /\ Free(u) = Free(s)
    BY <2>1, <2>2, GoodSubmit
  <2> QED
    BY <2>3, <1>2
<1>3. CASE f # 0 /\ s.job[f].pc = "writing" /\ t = [s EXCEPT !.job[f].seen = TRUE]
  <2>1. f \in Flights /\ s.job[f] \in Job
    BY <1>3, InFlight
  <2>2. Shape(s) /\ Queued(s) /\ s.job \in [Flights -> Job]
    BY DEF Good, Deliveries
  <2> DEFINE j == [s.job[f] EXCEPT !.seen = TRUE]
  <2>3. /\ Shape(t) /\ t.mail = s.mail /\ t.flight = s.flight /\ t.mark = s.mark
        /\ t.parked = s.parked /\ t.again = s.again /\ t.due = s.due
        /\ t.job = [s.job EXCEPT ![f] = j]
    BY <1>3, <2>2 DEF Shape, Fields
  <2>4. /\ j \in Job /\ j.pc = "writing" /\ j.pty = s.job[f].pty /\ j.box = s.job[f].box
        /\ j.msgs = s.job[f].msgs /\ j.inc = s.job[f].inc
    BY <2>1, <1>3 DEF Job
  <2> HIDE DEF t, f, j
  <2>5. t.job \in [Flights -> Job] /\ t.job[f] = j /\ \A g \in Flights : g # f => t.job[g] = s.job[g]
    BY <2>1, <2>2, <2>3, <2>4
  <2>6. Queued(t)
    BY <2>2, <2>3 DEF Queued
  <2>7. TextTaken(s.mail, t.job[f], T)
    BY <2>4, <2>5 DEF TextTaken, Written
  <2>8. s.job[f].pc # "none" /\ t.job[f].pc # "none"
    BY <1>3, <2>4, <2>5
  <2>9. Good(t, P, T)
    BY <2>1, <2>3, <2>4, <2>5, <2>6, <2>7, <2>8, GoodJob
  <2>10. Free(t) = Free(s)
    BY <2>1, <2>5, <2>8, SameFree
  <2> QED
    BY <2>3, <2>9, <2>10 DEF t
<1> QED
  BY <1>1, <1>2, <1>3 DEF TakeDeferred

LEMMA GoodDefer ==
  ASSUME OutsideTyped, NEW s, NEW P, NEW T, Good(s, P, T), NEW p \in Terms
  PROVE  LET t == Defer(s, p)
         IN /\ Good(t, P, T)
            /\ t.flight = s.flight /\ t.mail = s.mail /\ t.mark = s.mark /\ Free(t) = Free(s)
PROOF
<1> DEFINE t == Defer(s, p)
           f == s.flight[p]
<1>1. CASE t = s
  BY <1>1
<1>2. CASE f # 0 /\ s.job[f].pc \in {"armed", "writing"} /\ t # s
  <2>1. f \in Flights /\ s.job[f] \in Job
    BY <1>2, InFlight
  <2>2. Shape(s) /\ Queued(s) /\ s.job \in [Flights -> Job] /\ TextTaken(s.mail, s.job[f], T)
    BY <2>1 DEF Good, Deliveries
  <2>3. PICK j : /\ \/ (s.job[f].pc = "armed" /\ j = [s.job[f] EXCEPT !.pc = "deferred", !.defer = TRUE])
                    \/ (s.job[f].pc = "writing" /\ j = [s.job[f] EXCEPT !.defer = TRUE, !.seen = FALSE])
                 /\ /\ Shape(t) /\ t.mail = s.mail /\ t.flight = s.flight /\ t.mark = s.mark
                    /\ t.parked = s.parked /\ t.again = s.again /\ t.due = s.due
                    /\ t.job = [s.job EXCEPT ![f] = j]
    <3>1. CASE s.job[f].pc = "armed"
      <4>1. t = [s EXCEPT !.job[f].pc = "deferred", !.job[f].defer = TRUE]
        BY <3>1, <1>2 DEF Defer
      <4>2. /\ Shape(t) /\ t.mail = s.mail /\ t.flight = s.flight /\ t.mark = s.mark
            /\ t.parked = s.parked /\ t.again = s.again /\ t.due = s.due
            /\ t.job = [s.job EXCEPT ![f] = [s.job[f] EXCEPT !.pc = "deferred", !.defer = TRUE]]
        BY <4>1, <2>1, <2>2 DEF Shape, Fields
      <4> QED
        BY <4>2, <3>1
    <3>2. CASE s.job[f].pc = "writing"
      <4>1. t = [s EXCEPT !.job[f].defer = TRUE, !.job[f].seen = FALSE]
        BY <3>2, <1>2 DEF Defer
      <4>2. /\ Shape(t) /\ t.mail = s.mail /\ t.flight = s.flight /\ t.mark = s.mark
            /\ t.parked = s.parked /\ t.again = s.again /\ t.due = s.due
            /\ t.job = [s.job EXCEPT ![f] = [s.job[f] EXCEPT !.defer = TRUE, !.seen = FALSE]]
        BY <4>1, <2>1, <2>2 DEF Shape, Fields
      <4> QED
        BY <4>2, <3>2
    <3> QED
      BY <3>1, <3>2, <1>2
  <2>4. /\ j \in Job /\ j.pc # "none" /\ j.pty = s.job[f].pty /\ j.box = s.job[f].box
        /\ j.msgs = s.job[f].msgs /\ j.inc = s.job[f].inc
        /\ j.pc \in Written => s.job[f].pc \in Written
    BY <2>1, <2>3 DEF Job, Written
  <2> HIDE DEF t, f
  <2>5. t.job \in [Flights -> Job] /\ t.job[f] = j /\ \A g \in Flights : g # f => t.job[g] = s.job[g]
    BY <2>1, <2>2, <2>3, <2>4
  <2>6. Queued(t)
    BY <2>2, <2>3 DEF Queued
  <2>7. TextTaken(s.mail, t.job[f], T)
    BY <2>2, <2>4, <2>5 DEF TextTaken
  <2>8. s.job[f].pc # "none" /\ t.job[f].pc # "none"
    BY <1>2, <2>4, <2>5
  <2>9. Good(t, P, T)
    BY <2>1, <2>3, <2>4, <2>5, <2>6, <2>7, <2>8, GoodJob
  <2>10. Free(t) = Free(s)
    BY <2>1, <2>5, <2>8, SameFree
  <2> QED
    BY <2>3, <2>9, <2>10 DEF t
<1> QED
  BY <1>1, <1>2 DEF Defer

-----------------------------------------------------------------------------
(* Delivering into a terminal that has no delivery in progress *)

LEMMA GoodStage ==
  ASSUME OutsideTyped, NEW s, NEW P, NEW T, Good(s, P, T), NEW p \in Terms, NEW b \in Boxes,
         s.flight[p] = 0, ~(s.mark[b] # None /\ s.mark[b].active), Free(s) # {},
         \A i \in DOMAIN s.mail : s.mail[i].box = b => s.mail[i].at.phase = 0
  PROVE  Good(Stage(s, p, b), P, T)
PROOF
<1> DEFINE new == Fresh(s, b)
           f == Min(Free(s))
           j == [NoJob EXCEPT !.pc = "writing", !.pty = p, !.box = b,
                              !.msgs = new, !.inc = term[p].inc]
           m == [pty |-> p, seq |-> Max(new), active |-> TRUE]
           u == [s EXCEPT !.flight[p] = f, !.job[f] = j, !.mark[b] = m]
           a == [phase |-> WriteAttempted, pty |-> p, inc |-> term[p].inc]
<1>1. CASE Stage(s, p, b) = s
  BY <1>1
<1>2. CASE new # {} /\ Stage(s, p, b) = Point(u, new, a)
  <2>1. /\ Shape(s) /\ Queued(s) /\ RowsOK(s.mail) /\ OnePointing(s.mail)
        /\ PressedStays(s.mail, P) /\ Deliveries(s)
    BY DEF Good
  <2>2. /\ s.flight \in [Terms -> {0} \cup Flights] /\ s.job \in [Flights -> Job]
        /\ s.mark \in [Boxes -> Marks \cup {None}]
        /\ \A q \in Terms : FlightOK(s, q)
        /\ \A c \in Boxes : MarkOK(s, c)
    BY <2>1 DEF Deliveries
  <2>3. new \subseteq DOMAIN s.mail /\ new \subseteq 1 .. MaxMail
    BY <2>1, RowDomain DEF Fresh, Unread
  <2>4. \A i \in new : s.mail[i].box = b /\ s.mail[i].state = "new" /\ s.mail[i].at.phase = 0
    BY DEF Fresh, Unread
  <2>5. f \in Flights /\ s.job[f].pc = "none"
    <3>1. Free(s) \in SUBSET (1 .. MaxFlights) /\ MaxFlights \in Nat
      BY PointerConstants DEF Free, Flights
    <3>2. f \in Free(s)
      BY <3>1, Extremes
    <3> QED
      BY <3>2 DEF Free
  <2>6. Max(new) \in 1 .. MaxMail
    <3>1. new \in SUBSET (1 .. MaxMail) /\ MaxMail \in Nat
      BY <2>3, PointerConstants
    <3> HIDE DEF new
    <3>2. Max(new) \in new
      BY <3>1, <1>2, Extremes
    <3> QED
      BY <3>1, <3>2
  <2>7. m \in Marks /\ m.pty = p /\ m.seq = Max(new)
    BY <2>6 DEF Marks
  <2>8. term[p].inc \in Incs
    BY TermFields
  <2>9. /\ j \in Job /\ j.pc = "writing" /\ j.pty = p /\ j.box = b
        /\ j.msgs = new /\ j.inc = term[p].inc
    BY <2>3, <2>8 DEF Job, NoJob
  <2>10. a \in Place /\ a.phase = 2 /\ a.pty = p /\ a.inc = term[p].inc
    BY <2>8 DEF Place, WriteAttempted
  <2>11. /\ Shape(u) /\ u.mail = s.mail
         /\ u.flight = [s.flight EXCEPT ![p] = f]
         /\ u.job = [s.job EXCEPT ![f] = j]
         /\ u.mark = [s.mark EXCEPT ![b] = m]
         /\ u.parked = s.parked /\ u.again = s.again /\ u.due = s.due
    BY <2>1 DEF Shape, Fields
  <2> HIDE DEF new, f, j, m, u, a
  <2>12. /\ u.flight \in [Terms -> {0} \cup Flights] /\ u.flight[p] = f
         /\ \A q \in Terms : q # p => u.flight[q] = s.flight[q]
    BY <2>2, <2>5, <2>11
  <2>13. /\ u.job \in [Flights -> Job] /\ u.job[f] = j
         /\ \A g \in Flights : g # f => u.job[g] = s.job[g]
    BY <2>2, <2>5, <2>9, <2>11
  <2>14. /\ u.mark \in [Boxes -> Marks \cup {None}] /\ u.mark[b] = m
         /\ \A c \in Boxes : c # b => u.mark[c] = s.mark[c]
    BY <2>2, <2>7, <2>11
  <2>15. f # 0
    BY <2>5 DEF Flights
  <2>16. ASSUME NEW q \in Terms
         PROVE  FlightOK(u, q)
    <3>1. CASE q = p
      BY <3>1, <2>9, <2>12, <2>13 DEF FlightOK
    <3>2. CASE q # p /\ s.flight[q] # 0
      <4>1. s.job[s.flight[q]].pc # "none" /\ s.job[s.flight[q]].pty = q /\ s.flight[q] \in Flights
        BY <3>2, <2>2 DEF FlightOK
      <4>2. s.flight[q] # f
        BY <4>1, <2>5
      <4> QED
        BY <4>1, <4>2, <3>2, <2>12, <2>13 DEF FlightOK
    <3>3. CASE q # p /\ s.flight[q] = 0
      BY <3>3, <2>12 DEF FlightOK
    <3> QED
      BY <3>1, <3>2, <3>3
  <2>17. ASSUME NEW c \in Boxes
         PROVE  MarkOK(u, c)
    <3>1. CASE c = b
      BY <3>1, <2>7, <2>9, <2>12, <2>13, <2>14, <2>15 DEF MarkOK
    <3>2. CASE c # b /\ s.mark[c] # None /\ s.mark[c].active
      <4> DEFINE q == s.mark[c].pty
                 g == s.flight[q]
      <4>1. q \in Terms
        BY <3>2, <2>2 DEF Marks
      <4>2. g # 0 /\ s.job[g].box = c /\ s.mark[c].seq = Max(s.job[g].msgs)
        BY <3>2, <2>2 DEF MarkOK
      <4>3. q # p /\ g \in Flights /\ s.job[g].pc # "none"
        BY <4>1, <4>2, <2>2 DEF FlightOK
      <4>4. g # f
        BY <4>3, <2>5
      <4>5. u.flight[q] = g /\ u.job[g] = s.job[g] /\ u.mark[c] = s.mark[c]
        BY <4>1, <4>3, <4>4, <3>2, <2>12, <2>13, <2>14
      <4> QED
        BY <4>2, <4>5 DEF MarkOK
    <3>3. CASE c # b /\ ~(s.mark[c] # None /\ s.mark[c].active)
      BY <3>3, <2>14 DEF MarkOK
    <3> QED
      BY <3>1, <3>2, <3>3
  <2>18. ASSUME NEW g \in Flights
         PROVE  JobOK(u.mail, u.job[g]) /\ TextTaken(u.mail, u.job[g], T)
    <3>1. CASE g = f
      <4>1. term[p].inc <= term[p].inc
        BY <2>8 DEF Incs
      <4>2. JobOK(s.mail, j)
        BY <4>1, <2>3, <2>4, <2>8, <2>9, <1>2 DEF JobOK
      <4>3. TextTaken(s.mail, j, T)
        BY <2>9 DEF TextTaken, Written
      <4> QED
        BY <4>2, <4>3, <3>1, <2>11, <2>13
    <3>2. CASE g # f
      BY <3>2, <2>11, <2>13 DEF Good
    <3> QED
      BY <3>1, <3>2
  <2>19. Queued(u)
    BY <2>1, <2>11 DEF Queued
  <2>20. Good(u, P, T)
    <3>1. Deliveries(u)
      BY <2>12, <2>13, <2>14, <2>16, <2>17 DEF Deliveries
    <3> QED
      BY <3>1, <2>1, <2>11, <2>18, <2>19 DEF Good
  <2> DEFINE t == Point(u, new, a)
  <2>21. /\ Shape(t)
         /\ RowsOK(t.mail) /\ DOMAIN t.mail = DOMAIN u.mail
         /\ t.flight = u.flight /\ t.job = u.job /\ t.mark = u.mark
         /\ t.parked = u.parked /\ t.again = u.again /\ t.due = u.due
         /\ \A i \in DOMAIN u.mail :
              /\ t.mail[i].box = u.mail[i].box
              /\ t.mail[i].state = u.mail[i].state
              /\ i \in new => t.mail[i].at = a
              /\ i \notin new => t.mail[i] = u.mail[i]
    BY <2>1, <2>4, <2>10, <2>11, PointRows
  <2> HIDE DEF t
  <2>22. OnePointing(t.mail)
    <3> SUFFICES ASSUME NEW i \in DOMAIN s.mail, NEW k \in DOMAIN s.mail,
                        t.mail[i].box = t.mail[k].box, t.mail[i].at.phase > 0, t.mail[k].at.phase > 0
                 PROVE  t.mail[i].at.pty = t.mail[k].at.pty /\ t.mail[i].at.inc = t.mail[k].at.inc
      BY <2>11, <2>21 DEF OnePointing
    <3>1. CASE s.mail[i].box = b
      <4>1. s.mail[k].box = b
        BY <3>1, <2>11, <2>21
      <4>2. i \in new /\ k \in new
        BY <3>1, <4>1, <2>11, <2>21
      <4> QED
        BY <4>2, <2>11, <2>21
    <3>2. CASE s.mail[i].box # b
      <4>1. i \notin new /\ k \notin new
        BY <3>2, <2>4, <2>11, <2>21
      <4> QED
        BY <4>1, <2>1, <2>11, <2>21 DEF OnePointing
    <3> QED
      BY <3>1, <3>2
  <2>23. PressedStays(t.mail, P)
    <3> SUFFICES ASSUME NEW x \in P
                 PROVE  /\ x[1] \in DOMAIN t.mail
                        /\ owner[t.mail[x[1]].box] = x[2]
                        /\ term[x[2]].inc = x[3]
                        /\ \/ t.mail[x[1]].state # "new"
                           \/ t.mail[x[1]].at = [phase |-> EnterAttempted, pty |-> x[2], inc |-> x[3]]
      BY DEF PressedStays
    <3>1. /\ x[1] \in DOMAIN s.mail
          /\ owner[s.mail[x[1]].box] = x[2] /\ term[x[2]].inc = x[3]
          /\ \/ s.mail[x[1]].state # "new"
             \/ s.mail[x[1]].at = [phase |-> EnterAttempted, pty |-> x[2], inc |-> x[3]]
      BY <2>1 DEF PressedStays
    <3>2. x[1] \notin new
      BY <3>1, <2>4 DEF EnterAttempted
    <3> QED
      BY <3>1, <3>2, <2>11, <2>21
  <2>24. Queued(t)
    BY <2>1, <2>11, <2>21 DEF Queued
  <2>25. \A i \in DOMAIN u.mail : u.mail[i].state = "read" => t.mail[i].state = "read"
    BY <2>21
  <2>26. Good(t, P, T)
    BY <2>20, <2>21, <2>22, <2>23, <2>24, <2>25, GoodRows
  <2> QED
    BY <2>26, <1>2 DEF t
<1> QED
  BY <1>1, <1>2 DEF Stage

LEMMA GoodResume ==
  ASSUME OutsideTyped, NEW s, NEW P, NEW T, Good(s, P, T), NEW p \in Terms, NEW b \in Boxes,
         owner[b] = p,
         s.flight[p] = 0, ~(s.mark[b] # None /\ s.mark[b].active), Free(s) # {}
  PROVE  Good(Resume(s, p, b), P, T)
PROOF
<1> DEFINE left == Pending(s, b)
           here == At(s, left, p, term[p].inc, {Reserved, WriteAttempted, EnterAttempted})
           tried == At(s, left, p, term[p].inc, {WriteAttempted, EnterAttempted})
<1>1. Shape(s) /\ RowsOK(s.mail) /\ OnePointing(s.mail) /\ PressedStays(s.mail, P)
  BY DEF Good
<1>2. ASSUME NEW i \in left
      PROVE  /\ i \in DOMAIN s.mail /\ s.mail[i].box = b /\ s.mail[i].at.phase > 0
             /\ s.mail[i].state = "new" /\ s.mail[i].at.phase \in 1 .. 3
  <2>1. i \in DOMAIN s.mail /\ s.mail[i].box = b /\ s.mail[i].at.phase > 0
    BY DEF Pending, Unread
  <2>2. Sound(s.mail[i])
    BY <2>1, <1>1 DEF RowsOK
  <2> QED
    BY <2>1, <2>2, RowFields
<1>3. CASE left # {} /\ here = left /\ tried # {}
  <2>1. \A i \in tried : i \in left
    BY DEF At
  <2>2. Resume(s, p, b) = Tell(s, tried)
    BY <1>3 DEF Resume
  <2>3. \A i \in tried : i \in DOMAIN s.mail => s.mail[i].state # "read"
    BY <2>1, <1>2
  <2> HIDE DEF tried
  <2> QED
    BY <2>2, <2>3, GoodTell
<1>4. CASE ~(left # {} /\ here = left /\ tried # {})
  <2> DEFINE u == Undeliver(s, left)
  <2>1. Resume(s, p, b) = Stage(u, p, b)
    BY <1>4 DEF Resume
  <2>2. \A x \in P : x[1] \notin left
    <3> SUFFICES ASSUME NEW x \in P, x[1] \in left
                 PROVE  FALSE
      OBVIOUS
    <3>1. /\ s.mail[x[1]].box = b /\ s.mail[x[1]].state = "new" /\ x[1] \in DOMAIN s.mail
          /\ s.mail[x[1]].at.phase > 0
      BY <1>2
    <3>2. owner[s.mail[x[1]].box] = x[2] /\ term[x[2]].inc = x[3]
      BY <1>1 DEF PressedStays
    <3>3. s.mail[x[1]].at = [phase |-> EnterAttempted, pty |-> x[2], inc |-> x[3]]
      BY <3>1, <1>1 DEF PressedStays
    <3>4. /\ s.mail[x[1]].at.phase = EnterAttempted /\ s.mail[x[1]].at.pty = p
          /\ s.mail[x[1]].at.inc = term[p].inc
      BY <3>1, <3>2, <3>3
    <3>5. \A i \in left : s.mail[i].at.pty = p /\ s.mail[i].at.inc = term[p].inc
      BY <3>1, <3>4, <1>1, <1>2 DEF OnePointing
    <3>6. here = left
      BY <3>5, <1>2 DEF At, Reserved, WriteAttempted, EnterAttempted
    <3>7. x[1] \in tried
      BY <3>4 DEF At
    <3> QED
      BY <3>6, <3>7, <1>4
  <2>3. Good(u, P, T)
    BY <2>2, GoodUndeliver
  <2>4. /\ DOMAIN u.mail = DOMAIN s.mail
        /\ u.flight = s.flight /\ u.job = s.job /\ u.mark = s.mark
        /\ \A i \in DOMAIN s.mail :
             /\ u.mail[i].box = s.mail[i].box
             /\ i \in left /\ s.mail[i].state # "read" =>
                  u.mail[i].state = "new" /\ u.mail[i].at = Unpointed
             /\ ~(i \in left /\ s.mail[i].state # "read") => u.mail[i] = s.mail[i]
    BY <1>1, UndeliverRows
  <2>5. ASSUME NEW i \in DOMAIN u.mail, u.mail[i].box = b
        PROVE  u.mail[i].at.phase = 0
    <3>1. Sound(s.mail[i]) /\ s.mail[i].box = b
      BY <2>4, <2>5, <1>1 DEF RowsOK
    <3>2. s.mail[i].at.phase \in 0 .. 3 /\ (s.mail[i].at.phase > 0 => s.mail[i].state = "new")
      BY <3>1, RowFields
    <3>3. CASE s.mail[i].at.phase > 0
      <4>1. i \in left /\ s.mail[i].state # "read"
        BY <3>1, <3>2, <3>3, <2>4 DEF Pending, Unread
      <4> QED
        BY <4>1, <2>4, UnpointedPlace
    <3>4. CASE s.mail[i].at.phase = 0
      <4>1. i \notin left
        BY <3>4, <1>2
      <4> QED
        BY <4>1, <3>4, <2>4
    <3> QED
      BY <3>2, <3>3, <3>4
  <2>6. Free(u) # {}
    BY <2>4 DEF Free
  <2> HIDE DEF u
  <2>7. Good(Stage(u, p, b), P, T)
    BY <2>3, <2>4, <2>5, <2>6, GoodStage
  <2> QED
    BY <2>1, <2>7
<1> QED
  BY <1>3, <1>4

LEMMA GoodDeliver ==
  ASSUME OutsideTyped, NEW s, NEW P, NEW T, Good(s, P, T), NEW p \in Terms, NEW b \in Boxes,
         owner[b] = p, s.flight[p] # 0 \/ Free(s) # {}
  PROVE  Good(Deliver(s, p, b), P, T)
PROOF
<1>1. CASE s.flight[p] # 0
  <2> DEFINE u == [s EXCEPT !.parked[p] = @ \cup {b}]
  <2>1. Shape(s) /\ Queued(s)
    BY DEF Good
  <2>2. /\ Shape(u) /\ u.mail = s.mail /\ u.flight = s.flight /\ u.job = s.job
        /\ u.mark = s.mark /\ u.again = s.again /\ u.due = s.due
        /\ u.parked = [s.parked EXCEPT ![p] = s.parked[p] \cup {b}]
    BY <2>1 DEF Shape, Fields
  <2>3. Queued(u)
    BY <2>1, <2>2 DEF Queued
  <2> HIDE DEF u
  <2>4. Good(u, P, T)
    BY <2>2, <2>3, GoodQueues
  <2>5. Good(TakeDeferred(u, p), P, T)
    BY <2>4, GoodTakeDeferred
  <2>6. Deliver(s, p, b) = TakeDeferred(u, p) \/ Deliver(s, p, b) = s
    BY <1>1 DEF Deliver, u
  <2> QED
    BY <2>5, <2>6
<1>2. CASE s.flight[p] = 0 /\ s.mark[b] # None /\ s.mark[b].active
  <2> DEFINE u == [s EXCEPT !.again = @ \cup {b}]
  <2>1. Shape(s) /\ Queued(s)
    BY DEF Good
  <2>2. /\ Shape(u) /\ u.mail = s.mail /\ u.flight = s.flight /\ u.job = s.job
        /\ u.mark = s.mark /\ u.again = s.again \cup {b} /\ u.due = s.due
        /\ u.parked = s.parked
    BY <2>1 DEF Shape, Fields
  <2>3. Queued(u)
    BY <2>1, <2>2 DEF Queued
  <2> HIDE DEF u
  <2>4. Good(u, P, T)
    BY <2>2, <2>3, GoodQueues
  <2>6. Deliver(s, p, b) = u \/ Deliver(s, p, b) = s
    BY <1>2 DEF Deliver, u
  <2> QED
    BY <2>4, <2>6
<1>3. CASE s.flight[p] = 0 /\ ~(s.mark[b] # None /\ s.mark[b].active)
  <2>1. Good(Resume(s, p, b), P, T)
    BY <1>3, GoodResume
  <2>2. Deliver(s, p, b) = Resume(s, p, b) \/ Deliver(s, p, b) = s
    BY <1>3 DEF Deliver
  <2> QED
    BY <2>1, <2>2
<1> QED
  BY <1>1, <1>2, <1>3

(* A delivery ends: it is not the terminal's, or its watermark is lifted. *)
LEMMA GoodSettle ==
  ASSUME OutsideTyped, NEW s, NEW P, NEW T, Good(s, P, T), NEW f \in Flights, s.job[f].pc # "none",
         s.flight[s.job[f].pty] = f => Quiet(s, s.job[f].pty)
  PROVE  Good(Settle(s, f), P, T)
PROOF
<1> DEFINE p == s.job[f].pty
           over == [s EXCEPT !.job[f] = NoJob]
           mine == {b \in s.parked[p] : owner[b] = p}
           away == s.parked[p] \ mine
           open == [over EXCEPT !.flight[p] = 0, !.parked[p] = {},
                                !.again = @ \ away, !.due = @ \cup away]
<1>1. /\ Shape(s) /\ Queued(s) /\ Deliveries(s) /\ JobOK(s.mail, s.job[f])
      /\ s.flight \in [Terms -> {0} \cup Flights] /\ s.job \in [Flights -> Job]
      /\ s.mark \in [Boxes -> Marks \cup {None}]
      /\ \A q \in Terms : FlightOK(s, q)
      /\ \A b \in Boxes : MarkOK(s, b)
  BY DEF Good, Deliveries
<1>2. p \in Terms
  BY <1>1 DEF JobOK
<1>3. /\ Shape(over) /\ over.mail = s.mail /\ over.flight = s.flight /\ over.mark = s.mark
      /\ over.parked = s.parked /\ over.again = s.again /\ over.due = s.due
      /\ over.job = [s.job EXCEPT ![f] = NoJob]
  BY <1>1 DEF Shape, Fields
<1>4. NoJob \in Job /\ NoJob.pc = "none" /\ NoJob.msgs = {}
  BY DEF NoJob, Job
<1>5. /\ over.job \in [Flights -> Job] /\ over.job[f] = NoJob
      /\ \A g \in Flights : g # f => over.job[g] = s.job[g]
  BY <1>1, <1>3, <1>4
<1>6. ASSUME NEW q \in Terms, s.flight[q] = f
      PROVE  q = p
  BY <1>6, <1>1 DEF FlightOK, Flights
<1>7. 0 \notin Flights
  BY DEF Flights
<1> HIDE DEF over
<1>8. ASSUME NEW t, Shape(t), Queued(t), t.mail = s.mail, t.job = over.job, t.mark = s.mark,
             \/ t.flight = s.flight /\ s.flight[p] # f
             \/ t.flight = [s.flight EXCEPT ![p] = 0] /\ Quiet(s, p)
      PROVE  Good(t, P, T)
  <2>1. /\ t.flight \in [Terms -> {0} \cup Flights]
        /\ \A q \in Terms : t.flight[q] # 0 => t.flight[q] = s.flight[q] /\ t.flight[q] # f
    BY <1>1, <1>6, <1>8, <1>2, <1>7
  <2>2. \A q \in Terms : FlightOK(t, q)
    BY <2>1, <1>1, <1>5, <1>8 DEF FlightOK
  <2>3. ASSUME NEW b \in Boxes, t.mark[b] # None, t.mark[b].active
        PROVE  LET g == t.flight[t.mark[b].pty]
               IN g # 0 /\ t.job[g].box = b /\ t.mark[b].seq = Max(t.job[g].msgs)
    <3> DEFINE q == s.mark[b].pty
               g == s.flight[q]
    <3>1. q \in Terms /\ s.mark[b] = t.mark[b]
      BY <2>3, <1>1, <1>8 DEF Marks
    <3>2. g # 0 /\ s.job[g].box = b /\ s.mark[b].seq = Max(s.job[g].msgs)
      BY <2>3, <3>1, <1>1 DEF MarkOK
    <3>3. t.flight[q] = g
      BY <3>1, <2>3, <1>1, <1>8 DEF Quiet
    <3>4. g # f /\ g \in Flights
      BY <3>1, <3>2, <3>3, <2>1
    <3>5. t.job[g] = s.job[g]
      BY <3>4, <1>5, <1>8
    <3> QED
      BY <3>1, <3>2, <3>3, <3>5
  <2>4. \A b \in Boxes : MarkOK(t, b)
    BY <2>3 DEF MarkOK
  <2>5. Deliveries(t)
    BY <2>1, <2>2, <2>4, <1>1, <1>5, <1>8 DEF Deliveries
  <2>6. ASSUME NEW g \in Flights
        PROVE  JobOK(t.mail, t.job[g]) /\ TextTaken(t.mail, t.job[g], T)
    <3>1. CASE g = f
      <4>1. JobOK(s.mail, NoJob) /\ TextTaken(s.mail, NoJob, T)
        BY <1>4 DEF JobOK, TextTaken, Written
      <4> QED
        BY <4>1, <3>1, <1>5, <1>8
    <3>2. CASE g # f
      BY <3>2, <1>5, <1>8 DEF Good
    <3> QED
      BY <3>1, <3>2
  <2> QED
    BY <2>5, <2>6, <1>8 DEF Good
<1>9. CASE s.flight[p] # f
  <2>1. Settle(s, f) = over
    BY <1>9 DEF Settle, over
  <2>2. Queued(over)
    BY <1>1, <1>3 DEF Queued
  <2>3. Good(over, P, T)
    BY <2>2, <1>3, <1>8, <1>9
  <2> QED
    BY <2>1, <2>3
<1>10. CASE s.flight[p] = f
  <2>1. /\ Shape(open) /\ open.mail = s.mail /\ open.job = over.job /\ open.mark = s.mark
        /\ open.flight = [s.flight EXCEPT ![p] = 0]
        /\ open.parked = [s.parked EXCEPT ![p] = {}]
        /\ open.again = s.again \ away /\ open.due = s.due \cup away
    <3> HIDE DEF p, away, mine, open
    <3>0. Shape(over)
      BY <1>3
    <3>1. LET t == [over EXCEPT !.flight[p] = 0, !.parked[p] = {},
                                !.again = @ \ away, !.due = @ \cup away]
          IN /\ Shape(t)
             /\ t.flight = [over.flight EXCEPT ![p] = 0]
             /\ t.parked = [over.parked EXCEPT ![p] = {}]
             /\ t.again = over.again \ away /\ t.due = over.due \cup away
             /\ t.mail = over.mail /\ t.job = over.job /\ t.mark = over.mark
      BY <3>0 DEF Shape, Fields
    <3>2. /\ Shape(open)
          /\ open.flight = [over.flight EXCEPT ![p] = 0]
          /\ open.parked = [over.parked EXCEPT ![p] = {}]
          /\ open.again = over.again \ away /\ open.due = over.due \cup away
          /\ open.mail = over.mail /\ open.job = over.job /\ open.mark = over.mark
      BY <3>1 DEF open
    <3> QED
      BY <3>2, <1>3
  <2>2. s.parked[p] \subseteq Boxes
    BY <1>1, <1>2 DEF Queued
  <2>4. Settle(s, f) = IF mine = {} THEN open ELSE Deliver(open, p, CHOOSE b \in mine : TRUE)
    BY <1>10 DEF Settle, over
  <2> HIDE DEF open
  <2>3. open.flight[p] = 0 /\ f \in Free(open)
    BY <2>1, <1>1, <1>2, <1>4, <1>5 DEF Free
  <2>5. Queued(open)
    BY <2>1, <2>2, <1>1, <1>2 DEF Queued
  <2>6. Good(open, P, T)
    BY <2>1, <2>5, <1>8, <1>10
  <2>7. CASE mine = {}
    BY <2>4, <2>6, <2>7
  <2>8. CASE mine # {}
    <3> DEFINE b == CHOOSE b \in mine : TRUE
    <3>1. b \in mine
      BY <2>8
    <3>2. b \in Boxes /\ owner[b] = p
      BY <3>1, <2>2
    <3> HIDE DEF b, mine
    <3>3. Good(Deliver(open, p, b), P, T)
      BY <3>2, <2>3, <2>6, <1>2, GoodDeliver
    <3> QED
      BY <3>3, <2>4, <2>8 DEF b
  <2> QED
    BY <2>7, <2>8
<1> QED
  BY <1>9, <1>10

-----------------------------------------------------------------------------
(* The ways a delivery ends *)

(* Rows reserved, but not sent Enter for, were not sent Enter for. *)
LEMMA NotPressed ==
  ASSUME NEW s, NEW P, NEW T, Good(s, P, T), NEW x \in P
  PROVE  /\ x[1] \in DOMAIN s.mail
         /\ s.mail[x[1]].at.phase \notin {Reserved, WriteAttempted}
PROOF
<1>1. /\ x[1] \in DOMAIN s.mail
      /\ \/ s.mail[x[1]].state # "new"
         \/ s.mail[x[1]].at = [phase |-> EnterAttempted, pty |-> x[2], inc |-> x[3]]
      /\ Sound(s.mail[x[1]])
  BY DEF Good, PressedStays, RowsOK
<1>2. CASE s.mail[x[1]].state # "new"
  BY <1>1, <1>2, RowFields DEF Reserved, WriteAttempted
<1>3. CASE s.mail[x[1]].at = [phase |-> EnterAttempted, pty |-> x[2], inc |-> x[3]]
  BY <1>1, <1>3 DEF Reserved, WriteAttempted, EnterAttempted
<1> QED
  BY <1>1, <1>2, <1>3

LEMMA PendingIsNew ==
  ASSUME NEW s, NEW P, NEW T, Good(s, P, T), NEW i \in DOMAIN s.mail, s.mail[i].at.phase > 0
  PROVE  s.mail[i].state = "new"
BY RowFields DEF Good, RowsOK

LEMMA GoodSettleCleared ==
  ASSUME OutsideTyped, NEW s, NEW P, NEW T, Good(s, P, T), NEW f \in Flights, s.job[f].pc # "none"
  PROVE  Good(Settle(ClearMark(s, s.job[f]), f), P, T)
PROOF
<1> DEFINE t == ClearMark(s, s.job[f])
<1>1. /\ Good(t, P, T) /\ t.flight = s.flight /\ t.job = s.job
      /\ s.flight[s.job[f].pty] = f => Quiet(t, s.job[f].pty)
  BY GoodClearMark
<1> HIDE DEF t
<1>2. Good(Settle(t, f), P, T)
  BY <1>1, GoodSettle
<1> QED
  BY <1>2 DEF t

LEMMA GoodSettleDimmed ==
  ASSUME OutsideTyped, NEW s, NEW P, NEW T, Good(s, P, T), NEW f \in Flights, s.job[f].pc # "none"
  PROVE  Good(Settle(DimMark(s, s.job[f]), f), P, T)
PROOF
<1> DEFINE t == DimMark(s, s.job[f])
<1>1. /\ Good(t, P, T) /\ t.flight = s.flight /\ t.job = s.job
      /\ s.flight[s.job[f].pty] = f => Quiet(t, s.job[f].pty)
  BY GoodDimMark
<1> HIDE DEF t
<1>2. Good(Settle(t, f), P, T)
  BY <1>1, GoodSettle
<1> QED
  BY <1>2 DEF t

(* The ways out that let the mailbox be delivered again. *)
LEMMA GoodThenRedrive ==
  ASSUME NEW s, NEW P, NEW T, Good(s, P, T), NEW f \in Flights, s.job[f].pc # "none",
         NEW t, Good(t, P, T), NEW force
  PROVE  Good(Redrive(t, s.job[f].box, force), P, T)
PROOF
<1>1. s.job[f].box \in Boxes
  BY DEF Good, JobOK
<1> QED
  BY <1>1, GoodRedrive

LEMMA GoodGiveBack ==
  ASSUME OutsideTyped, NEW s, NEW P, NEW T, Good(s, P, T), NEW f \in Flights, s.job[f].pc # "none"
  PROVE  Good(GiveBack(s, f, WriteAttempted), P, T)
PROOF
<1> DEFINE j == s.job[f]
           I == At(s, j.msgs, j.pty, j.inc, {WriteAttempted})
           u == Undeliver(s, I)
           t == Settle(ClearMark(u, j), f)
<1>1. \A x \in P : x[1] \notin I
  BY NotPressed DEF At
<1>2. Good(u, P, T)
  BY <1>1, GoodUndeliver
<1>3. u.job = s.job
  BY UndeliverRows DEF Good
<1> HIDE DEF u, I
<1>4. Good(t, P, T)
  BY <1>2, <1>3, GoodSettleCleared
<1> HIDE DEF t
<1>5. Good(Redrive(t, j.box, TRUE), P, T)
  BY <1>4, GoodThenRedrive
<1>6. GiveBack(s, f, WriteAttempted) \in {Redrive(t, j.box, TRUE), t}
  BY DEF GiveBack, t, u, I
<1> QED
  BY <1>4, <1>5, <1>6

LEMMA GoodLetBe ==
  ASSUME OutsideTyped, NEW s, NEW P, NEW T, Good(s, P, T), NEW f \in Flights, s.job[f].pc # "none",
         NEW phase \in {WriteAttempted, EnterAttempted}
  PROVE  Good(LetBe(s, f, phase), P, T)
PROOF
<1> DEFINE j == s.job[f]
           I == At(s, j.msgs, j.pty, j.inc, {phase})
           u == Tell(s, I)
           t == Settle(ClearMark(u, j), f)
<1>1. \A i \in I : i \in DOMAIN s.mail => s.mail[i].state # "read"
  BY PendingIsNew DEF At, WriteAttempted, EnterAttempted
<1>2. Good(u, P, T)
  BY <1>1, GoodTell
<1>3. u.job = s.job
  BY TellRows DEF Good
<1> HIDE DEF u, I
<1>4. Good(t, P, T)
  BY <1>2, <1>3, GoodSettleCleared
<1>5. LetBe(s, f, phase) = t
  BY DEF LetBe, u, I
<1> QED
  BY <1>4, <1>5

LEMMA GoodSubmitted ==
  ASSUME OutsideTyped, NEW s, NEW P, NEW T, Good(s, P, T), NEW f \in Flights, s.job[f].pc # "none"
  PROVE  Good(Submitted(s, f), P, T)
PROOF
<1> DEFINE t == LetBe(s, f, EnterAttempted)
<1>1. Good(t, P, T)
  BY GoodLetBe
<1> HIDE DEF t
<1>2. Good(Redrive(t, s.job[f].box, FALSE), P, T)
  BY <1>1, GoodThenRedrive
<1>3. Submitted(s, f) \in {Redrive(t, s.job[f].box, FALSE), t}
  BY DEF Submitted, t
<1> QED
  BY <1>1, <1>2, <1>3

LEMMA GoodLeaveOpen ==
  ASSUME OutsideTyped, NEW s, NEW P, NEW T, Good(s, P, T), NEW f \in Flights, s.job[f].pc # "none"
  PROVE  Good(LeaveOpen(s, f), P, T)
PROOF
<1> DEFINE t == Settle(DimMark(s, s.job[f]), f)
<1>1. Good(t, P, T)
  BY GoodSettleDimmed
<1> HIDE DEF t
<1>2. Good(Redrive(t, s.job[f].box, FALSE), P, T)
  BY <1>1, GoodThenRedrive
<1>3. LeaveOpen(s, f) \in {Redrive(t, s.job[f].box, FALSE), t}
  BY DEF LeaveOpen, t
<1> QED
  BY <1>1, <1>2, <1>3

-----------------------------------------------------------------------------
(* What happens to the terminal *)

(* A terminal gives up its delivery and the watermarks that name it. *)
LEMMA GoodRetired ==
  ASSUME NEW s, NEW P, NEW T, Good(s, P, T), NEW p \in Terms,
         NEW t, Shape(t), Queued(t), t.mail = s.mail, t.flight = [s.flight EXCEPT ![p] = 0],
         t.mark \in [Boxes -> Marks \cup {None}],
         \A b \in Boxes : \/ t.mark[b] = None
                          \/ t.mark[b] = s.mark[b] /\ t.mark[b].pty # p,
         t.job \in [Flights -> Job],
         \A g \in Flights : t.job[g] = s.job[g] \/ (g = s.flight[p] /\ t.job[g] = NoJob)
  PROVE  Good(t, P, T)
PROOF
<1>1. /\ s.flight \in [Terms -> {0} \cup Flights]
      /\ \A q \in Terms : FlightOK(s, q)
      /\ \A b \in Boxes : MarkOK(s, b)
  BY DEF Good, Deliveries
<1>2. \A q \in Terms : q # p => t.flight[q] = s.flight[q]
  BY <1>1
<1>3. t.flight[p] = 0 /\ t.flight \in [Terms -> {0} \cup Flights]
  BY <1>1
<1>4. ASSUME NEW q \in Terms, t.flight[q] # 0
      PROVE  /\ q # p /\ t.flight[q] = s.flight[q] /\ t.flight[q] \in Flights
             /\ s.job[t.flight[q]].pc # "none" /\ s.job[t.flight[q]].pty = q
             /\ t.job[t.flight[q]] = s.job[t.flight[q]]
  <2>1. q # p /\ t.flight[q] = s.flight[q] /\ t.flight[q] \in Flights
    BY <1>2, <1>3, <1>4
  <2>2. s.job[t.flight[q]].pc # "none" /\ s.job[t.flight[q]].pty = q
    BY <2>1, <1>1, <1>4 DEF FlightOK
  <2>3. t.flight[q] # s.flight[p] \/ s.flight[p] = 0
    BY <2>1, <2>2, <1>1 DEF FlightOK
  <2> QED
    BY <2>1, <2>2, <2>3, <1>4
<1>5. \A q \in Terms : FlightOK(t, q)
  BY <1>4 DEF FlightOK
<1>6. ASSUME NEW b \in Boxes, t.mark[b] # None, t.mark[b].active
      PROVE  LET g == t.flight[t.mark[b].pty]
             IN g # 0 /\ t.job[g].box = b /\ t.mark[b].seq = Max(t.job[g].msgs)
  <2> DEFINE q == s.mark[b].pty
  <2>1. t.mark[b] = s.mark[b] /\ q # p /\ q \in Terms
    BY <1>6 DEF Marks
  <2>2. s.flight[q] # 0 /\ s.job[s.flight[q]].box = b /\ s.mark[b].seq = Max(s.job[s.flight[q]].msgs)
    BY <2>1, <1>1, <1>6 DEF MarkOK
  <2>3. t.flight[q] = s.flight[q]
    BY <2>1, <1>2
  <2>4. t.job[t.flight[q]] = s.job[t.flight[q]]
    BY <2>1, <2>2, <2>3, <1>4
  <2> QED
    BY <2>1, <2>2, <2>3, <2>4
<1>7. \A b \in Boxes : MarkOK(t, b)
  BY <1>6 DEF MarkOK
<1>8. Deliveries(t)
  BY <1>3, <1>5, <1>7 DEF Deliveries
<1>9. ASSUME NEW g \in Flights
      PROVE  JobOK(t.mail, t.job[g]) /\ TextTaken(t.mail, t.job[g], T)
  <2>1. CASE t.job[g] = s.job[g]
    BY <2>1 DEF Good
  <2>2. CASE t.job[g] = NoJob
    BY <2>2 DEF JobOK, TextTaken, Written, NoJob
  <2> QED
    BY <2>1, <2>2
<1> QED
  BY <1>8, <1>9 DEF Good

LEMMA GoodRetire ==
  ASSUME NEW s, NEW P, NEW T, Good(s, P, T), NEW p \in Terms
  PROVE  Good(Retire(s, p), P, T)
PROOF
<1> DEFINE f == s.flight[p]
           rows == At(s, s.job[f].msgs, p, s.job[f].inc, {Reserved, WriteAttempted})
           u == IF f = 0 THEN s ELSE Undeliver(s, rows)
           k == IF f # 0 /\ s.job[f].pc \in {"armed", "deferred"}
                THEN [s EXCEPT !.job[f] = NoJob] ELSE s
           g == IF f = 0 THEN k ELSE Undeliver(k, rows)
           h == [g EXCEPT !.flight[p] = 0, !.parked[p] = {}]
           freed == {b \in Boxes : s.mark[b] # None /\ s.mark[b].pty = p}
           m == [b \in Boxes |-> IF b \in freed THEN None ELSE s.mark[b]]
           r == [h EXCEPT !.mark = m, !.again = @ \ freed, !.due = @ \cup freed]
<1>1. /\ Shape(s) /\ Queued(s) /\ RowsOK(s.mail) /\ s.job \in [Flights -> Job]
      /\ s.flight \in [Terms -> {0} \cup Flights]
      /\ s.mark \in [Boxes -> Marks \cup {None}]
  BY DEF Good, Deliveries
<1>2. Retire(s, p) = r
  BY DEF Retire, RetireFlight
<1>3. /\ m \in [Boxes -> Marks \cup {None}]
      /\ \A b \in Boxes : m[b] = None \/ (m[b] = s.mark[b] /\ m[b].pty # p)
      /\ freed \subseteq Boxes
  BY <1>1
<1>4. /\ Shape(k) /\ k.mail = s.mail /\ k.flight = s.flight /\ k.mark = s.mark
      /\ k.parked = s.parked /\ k.again = s.again /\ k.due = s.due
      /\ (k.job = s.job \/ (f # 0 /\ k.job = [s.job EXCEPT ![f] = NoJob]))
  BY <1>1 DEF Shape, Fields
<1>5. Good(u, P, T)
  <2>1. \A x \in P : x[1] \notin rows
    BY NotPressed DEF At
  <2> HIDE DEF rows
  <2> QED
    BY <2>1, GoodUndeliver
<1> HIDE DEF k, m, freed, rows, f
<1>6. /\ Shape(g) /\ g.mail = u.mail /\ g.flight = s.flight /\ g.mark = s.mark
      /\ g.parked = s.parked /\ g.again = s.again /\ g.due = s.due /\ g.job = k.job
      /\ u.flight = s.flight /\ u.job = s.job /\ u.mark = s.mark
  <2>1. CASE f = 0
    <3>1. g = k /\ u = s
      BY <2>1
    <3> QED
      BY <3>1, <1>4
  <2>2. CASE f # 0
    <3> DEFINE v == Undeliver(k, rows)
               w == Undeliver(s, rows)
    <3>1. /\ Shape(v) /\ v.flight = k.flight /\ v.job = k.job /\ v.mark = k.mark
          /\ v.parked = k.parked /\ v.again = k.again /\ v.due = k.due
      BY <1>1, <1>4, UndeliverRows
    <3>2. w.flight = s.flight /\ w.job = s.job /\ w.mark = s.mark
      BY <1>1, UndeliverRows
    <3>3. v.mail = [i \in DOMAIN s.mail |->
              IF i \in rows /\ s.mail[i].state # "read"
              THEN [s.mail[i] EXCEPT !.state = "new", !.at = Unpointed] ELSE s.mail[i]]
      <4>1. v.mail = [i \in DOMAIN k.mail |->
                IF i \in rows /\ k.mail[i].state # "read"
                THEN [k.mail[i] EXCEPT !.state = "new", !.at = Unpointed] ELSE k.mail[i]]
        BY <1>4 DEF Undeliver, Shape, Fields
      <4> HIDE DEF v
      <4> QED
        BY <4>1, <1>4
    <3>4. w.mail = [i \in DOMAIN s.mail |->
              IF i \in rows /\ s.mail[i].state # "read"
              THEN [s.mail[i] EXCEPT !.state = "new", !.at = Unpointed] ELSE s.mail[i]]
      BY <1>1 DEF Undeliver, Shape, Fields
    <3>5. v.mail = w.mail
      <4> HIDE DEF v, w
      <4> QED
        BY <3>3, <3>4
    <3>6. g = v /\ u = w
      BY <2>2
    <3> HIDE DEF v, w, g, u
    <3> QED
      BY <3>1, <3>2, <3>5, <3>6, <1>4
  <2> QED
    BY <2>1, <2>2
<1> HIDE DEF g, u
<1>7. /\ Shape(h) /\ h.mail = g.mail /\ h.job = g.job /\ h.again = g.again /\ h.due = g.due
      /\ h.flight = [g.flight EXCEPT ![p] = 0]
      /\ h.parked = [g.parked EXCEPT ![p] = {}]
  BY <1>6 DEF Shape, Fields
<1> HIDE DEF h
<1>8. /\ Shape(r) /\ r.mail = h.mail /\ r.job = h.job /\ r.flight = h.flight /\ r.parked = h.parked
      /\ r.mark = m /\ r.again = h.again \ freed /\ r.due = h.due \cup freed
  BY <1>7 DEF Shape, Fields
<1> HIDE DEF r
<1>9. Queued(r)
  BY <1>1, <1>3, <1>6, <1>7, <1>8 DEF Queued
<1>10. /\ r.job \in [Flights -> Job]
       /\ \A i \in Flights : r.job[i] = s.job[i] \/ (i = f /\ r.job[i] = NoJob)
  <2>1. NoJob \in Job
    BY DEF NoJob, Job
  <2> QED
    BY <2>1, <1>1, <1>4, <1>6, <1>7, <1>8
<1>11. \A i \in Flights : r.job[i] = u.job[i] \/ (i = u.flight[p] /\ r.job[i] = NoJob)
  BY <1>6, <1>10 DEF f
<1>12. r.mail = u.mail /\ r.flight = [u.flight EXCEPT ![p] = 0]
  BY <1>6, <1>7, <1>8
<1>13. /\ \A b \in Boxes : r.mark[b] = None \/ (r.mark[b] = u.mark[b] /\ r.mark[b].pty # p)
       /\ r.mark \in [Boxes -> Marks \cup {None}]
  BY <1>3, <1>6, <1>8
<1>14. Good(r, P, T)
  BY <1>5, <1>8, <1>9, <1>10, <1>11, <1>12, <1>13, GoodRetired
<1> QED
  BY <1>2, <1>14

(* An agent at work settles what its terminal was sent. *)
LEMMA GoodAgentBusy ==
  ASSUME OutsideTyped, NEW s, NEW P, NEW T, Good(s, P, T), NEW p \in Terms, NEW cold
  PROVE  Good(AgentBusy(s, p, cold), P, T)
PROOF
<1> DEFINE r == Retire(s, p)
           sent == {i \in DOMAIN r.mail : r.mail[i].at.pty = p}
           kept == {i \in sent : r.mail[i].at.phase = Reserved}
           u == Undeliver(r, kept)
<1>1. AgentBusy(s, p, cold) \in {s, Defer(s, p), Tell(u, sent \ kept)}
  BY DEF AgentBusy
<1>2. Good(r, P, T)
  BY GoodRetire
<1>3. Shape(r) /\ RowsOK(r.mail)
  BY <1>2, GoodFields
<1> HIDE DEF r
<1>4. \A x \in P : x[1] \notin kept
  BY <1>2, NotPressed
<1>5. \A i \in sent : i \in DOMAIN r.mail /\ r.mail[i].at.phase > 0
  <2> SUFFICES ASSUME NEW i \in DOMAIN r.mail, r.mail[i].at.pty = p
               PROVE  r.mail[i].at.phase > 0
    OBVIOUS
  <2>1. Sound(r.mail[i])
    BY <1>3 DEF RowsOK
  <2>2. r.mail[i].at.phase \in 0 .. 3 /\ (r.mail[i].at.phase = 0 => r.mail[i].at = Unpointed)
    BY <2>1, RowFields
  <2>3. r.mail[i].at # Unpointed
    BY PointerConstants DEF Unpointed
  <2> QED
    BY <2>2, <2>3
<1> HIDE DEF sent, kept
<1>6. Good(u, P, T)
  BY <1>2, <1>4, GoodUndeliver
<1>7. \A i \in sent \ kept : u.mail[i].state # "read"
  <2> SUFFICES ASSUME NEW i \in sent, i \notin kept
               PROVE  u.mail[i].state # "read"
    OBVIOUS
  <2>1. r.mail[i].state = "new"
    BY <1>2, <1>5, PendingIsNew
  <2>2. u.mail[i] = r.mail[i]
    BY <1>3, <1>5, UndeliverRows
  <2> QED
    BY <2>1, <2>2
<1> HIDE DEF u
<1>8. Good(Tell(u, sent \ kept), P, T)
  BY <1>6, <1>7, GoodTell
<1>9. Good(Defer(s, p), P, T)
  BY GoodDefer
<1> QED
  BY <1>1, <1>8, <1>9

LEMMA GoodDeliverOwned ==
  ASSUME OutsideTyped, NEW s, NEW P, NEW T, Good(s, P, T), NEW p \in Terms,
         s.flight[p] # 0 \/ Free(s) # {}
  PROVE  Good(DeliverOwned(s, p), P, T)
PROOF
<1>1. CASE \E b \in Boxes : owner[b] = p
  <2> DEFINE b == CHOOSE c \in Boxes : owner[c] = p
  <2>1. b \in Boxes /\ owner[b] = p
    BY <1>1
  <2>2. DeliverOwned(s, p) = Deliver(s, p, b)
    BY <1>1 DEF DeliverOwned
  <2> HIDE DEF b
  <2> QED
    BY <2>1, <2>2, GoodDeliver
<1>2. CASE ~\E b \in Boxes : owner[b] = p
  BY <1>2 DEF DeliverOwned
<1> QED
  BY <1>1, <1>2

-----------------------------------------------------------------------------
(* From a change of the pointer state to a step *)

(* The invariant of a state s that a step leaves behind, when the processes *)
(* and the roles stay as they are.                                          *)
LEMMA Became ==
  ASSUME OutsideTyped, NEW s, NEW P, NEW T, Good(s, P, T), Become(s),
         pressed' = P, typed' = T, held' = held, owner' = owner,
         \A p \in Terms : term'[p].inc = term[p].inc
  PROVE  Good(Now, pressed, typed)'
PROOF
<1>1. /\ Now'.mail = s.mail /\ Now'.flight = s.flight /\ Now'.job = s.job /\ Now'.mark = s.mark
      /\ Now'.parked = s.parked /\ Now'.again = s.again /\ Now'.due = s.due
  BY DEF Become, Now
<1>2. Shape(Now)'
  BY DEF Shape, Fields, Now
<1> HIDE DEF Now
<1>3. Queued(Now)'
  BY <1>1 DEF Good, Queued
<1>4. (RowsOK(Now.mail) /\ HeldRows(Now.mail) /\ OnePointing(Now.mail))'
  BY <1>1 DEF Good, RowsOK, HeldRows, OnePointing, Sound, Row, Place, Incs
<1>5. Deliveries(Now)'
  <2>1. /\ s.flight \in [Terms -> {0} \cup Flights]
        /\ s.job \in [Flights -> Job]
        /\ s.mark \in [Boxes -> Marks \cup {None}]
        /\ \A p \in Terms : FlightOK(s, p)
        /\ \A b \in Boxes : MarkOK(s, b)
    BY DEF Good, Deliveries
  <2>2. (Now.job \in [Flights -> Job])'
    BY <2>1, <1>1 DEF Flights, Job, Incs
  <2>3. (Now.flight \in [Terms -> {0} \cup Flights])' /\ (Now.mark \in [Boxes -> Marks \cup {None}])'
    BY <2>1, <1>1 DEF Flights, Marks
  <2>4. (\A p \in Terms : FlightOK(Now, p))' /\ (\A b \in Boxes : MarkOK(Now, b))'
    BY <2>1, <1>1 DEF FlightOK, MarkOK
  <2> QED
    BY <2>2, <2>3, <2>4 DEF Deliveries
<1>6. PressedStays(Now.mail, pressed)'
  <2>1. PressedStays(s.mail, P) /\ \A i \in DOMAIN s.mail : Sound(s.mail[i])
    BY DEF Good, RowsOK
  <2>2. ASSUME NEW x \in P
        PROVE  /\ x[1] \in DOMAIN s.mail
               /\ owner[s.mail[x[1]].box] = x[2]
               /\ term'[x[2]].inc = x[3]
               /\ \/ s.mail[x[1]].state # "new"
                  \/ s.mail[x[1]].at = [phase |-> EnterAttempted, pty |-> x[2], inc |-> x[3]]
    <3>1. /\ x[1] \in DOMAIN s.mail
          /\ owner[s.mail[x[1]].box] = x[2]
          /\ term[x[2]].inc = x[3]
          /\ \/ s.mail[x[1]].state # "new"
             \/ s.mail[x[1]].at = [phase |-> EnterAttempted, pty |-> x[2], inc |-> x[3]]
      BY <2>1 DEF PressedStays
    <3>2. s.mail[x[1]].box \in Boxes
      BY <2>1, <3>1, RowFields
    <3>3. x[2] \in Terms
      BY <3>1, <3>2 DEF OutsideTyped
    <3> QED
      BY <3>1, <3>3
  <2> QED
    BY <2>2, <1>1 DEF PressedStays, EnterAttempted
<1>7. (\A f \in Flights : JobOK(Now.mail, Now.job[f]) /\ TextTaken(Now.mail, Now.job[f], typed))'
  <2>1. ASSUME NEW f \in Flights
        PROVE  (JobOK(Now.mail, Now.job[f]) /\ TextTaken(Now.mail, Now.job[f], typed))'
    <3> DEFINE j == s.job[f]
    <3>1. JobOK(s.mail, j) /\ TextTaken(s.mail, j, T)
      BY DEF Good
    <3>2. j.pc # "none" => j.pty \in Terms /\ term'[j.pty].inc = term[j.pty].inc
      BY <3>1 DEF JobOK
    <3>3. Now'.mail = s.mail /\ (Now.job[f])' = j
      BY <1>1
    <3> HIDE DEF j
    <3>4. JobOK(Now.mail, Now.job[f])'
      BY <3>1, <3>2, <3>3 DEF JobOK, Incs
    <3>5. TextTaken(Now.mail, Now.job[f], typed)'
      BY <3>1, <3>2, <3>3 DEF TextTaken, Written
    <3> QED
      BY <3>4, <3>5
  <2> QED
    BY <2>1 DEF Flights
<1> QED
  BY <1>2, <1>3, <1>4, <1>5, <1>6, <1>7 DEF Good
(* Less is known to be pressed and more to be typed.                        *)
LEMMA GoodLess ==
  ASSUME NEW s, NEW P, NEW Q, NEW T, NEW U, Good(s, P, T), Q \subseteq P, T \subseteq U
  PROVE  Good(s, Q, U)
PROOF
<1>1. PressedStays(s.mail, Q)
  BY DEF Good, PressedStays
<1>2. \A f \in Flights : TextTaken(s.mail, s.job[f], U)
  BY DEF Good, TextTaken
<1> QED
  BY <1>1, <1>2 DEF Good

(* A step of a delivery leaves the processes, the roles and the readers.    *)
LEMMA Stepped ==
  ASSUME IInv, NEW s, NEW P, NEW T, Good(s, P, T), Become(s), UNCHANGED Outside,
         pressed' = P, typed' = T, P \subseteq Inputs, T \subseteq Inputs
  PROVE  IInv'
PROOF
<1>1. term' = term /\ owner' = owner /\ held' = held /\ waiting' = waiting /\ restarts' = restarts
  BY DEF Outside
<1>2. Good(Now, pressed, typed)'
  BY <1>1, Became DEF IInv
<1>3. OutsideTyped'
  BY <1>1 DEF IInv, OutsideTyped, Incs, Inputs, Statuses, Shown
<1> QED
  BY <1>2, <1>3 DEF IInv

(* What is known of a delivery in progress.                                 *)
LEMMA Progressing ==
  ASSUME IInv, NEW f \in Flights, job[f].pc # "none"
  PROVE  /\ OutsideTyped /\ Good(Now, pressed, typed)
         /\ Now.mail = mail /\ Now.flight = flight /\ Now.job = job /\ Now.mark = mark
         /\ job[f] \in Job
         /\ job[f].pty \in Terms /\ job[f].box \in Boxes /\ job[f].inc \in Incs
         /\ job[f].msgs \subseteq DOMAIN mail /\ DOMAIN mail \subseteq 1 .. MaxMail
         /\ \A i \in job[f].msgs : mail[i].box = job[f].box
         /\ job[f].msgs \X {job[f].pty} \X {job[f].inc} \subseteq Inputs
         /\ typed \subseteq Inputs /\ pressed \subseteq Inputs
PROOF
<1>1. OutsideTyped /\ Good(Now, pressed, typed)
  BY DEF IInv
<1>2. Now.mail = mail /\ Now.flight = flight /\ Now.job = job /\ Now.mark = mark
  BY DEF Now
<1>3. job[f] \in Job /\ JobOK(mail, job[f]) /\ RowsOK(mail)
  BY <1>1, <1>2, GoodFields
<1>4. DOMAIN mail \subseteq 1 .. MaxMail
  BY <1>3, RowDomain
<1>5. /\ job[f].pty \in Terms /\ job[f].box \in Boxes /\ job[f].inc \in Incs
      /\ job[f].msgs \subseteq DOMAIN mail
      /\ \A i \in job[f].msgs : mail[i].box = job[f].box
  BY <1>3 DEF JobOK
<1>6. job[f].msgs \X {job[f].pty} \X {job[f].inc} \subseteq Inputs
  BY <1>4, <1>5 DEF Inputs
<1> QED
  BY <1>1, <1>2, <1>3, <1>4, <1>5, <1>6 DEF OutsideTyped

(* The end of a delivery, its watermark lifted and perhaps a mailbox queued.*)
LEMMA GoodEnd ==
  ASSUME OutsideTyped, NEW s, NEW P, NEW T, Good(s, P, T), NEW f \in Flights, s.job[f].pc # "none",
         NEW t, NEW Q, NEW U, Good(t, Q, U), t.job = s.job, t.flight = s.flight,
         s.flight[s.job[f].pty] = f => Quiet(t, s.job[f].pty), NEW force
  PROVE  /\ Good(Settle(t, f), Q, U)
         /\ Good(Settle(Redrive(t, s.job[f].box, force), f), Q, U)
PROOF
<1> DEFINE r == Redrive(t, s.job[f].box, force)
<1>1. s.job[f].box \in Boxes
  BY GoodFields DEF JobOK
<1>2. Good(r, Q, U) /\ r.flight = t.flight /\ r.job = t.job /\ r.mark = t.mark
  BY <1>1, GoodRedrive
<1> HIDE DEF r
<1>3. s.flight[s.job[f].pty] = f => Quiet(r, s.job[f].pty)
  BY <1>2 DEF Quiet
<1>4. Good(Settle(r, f), Q, U)
  BY <1>2, <1>3, GoodSettle
<1>5. Good(Settle(t, f), Q, U)
  BY GoodSettle
<1> QED
  BY <1>4, <1>5 DEF r

-----------------------------------------------------------------------------
(* The steps of a delivery *)

LEMMA StepsTimerFires ==
  ASSUME IInv, NEW f \in Flights, TimerFires(f)
  PROVE  IInv'
PROOF
<1>1. job[f].pc = "armed" /\ Become(Submit(Now, f)) /\ UNCHANGED Outside
      /\ typed' = typed /\ pressed' = pressed
  BY DEF TimerFires
<1>2. /\ OutsideTyped /\ Good(Now, pressed, typed) /\ Now.job = job /\ job[f].pty \in Terms
      /\ typed \subseteq Inputs /\ pressed \subseteq Inputs
  BY <1>1, Progressing
<1>3. term[job[f].pty].alive \in BOOLEAN
  BY <1>2, TermFields
<1>4. Good(Submit(Now, f), pressed, typed)
  BY <1>1, <1>2, <1>3, GoodSubmit DEF Written
<1> QED
  BY <1>1, <1>2, <1>4, Stepped
LEMMA StepsWriteSettles ==
  ASSUME IInv, NEW f \in Flights, NEW outcome \in {"accepted", "refused", "unverifiable"},
         WriteSettles(f, outcome)
  PROVE  IInv'
PROOF
<1> DEFINE j == job[f]
           text == j.msgs \X {j.pty} \X {j.inc}
           past == ClearMark(Now, j)
           T == IF outcome = "accepted" THEN typed \cup text ELSE typed
           P == IF outcome = "refused" /\ Current(f) THEN {x \in pressed : x[1] \notin j.msgs}
                ELSE pressed
<1>1. j.pc = "writing" /\ typed' = T /\ pressed' = P /\ UNCHANGED Outside
  BY DEF WriteSettles
<1>2. /\ OutsideTyped /\ Good(Now, pressed, typed)
      /\ Now.mail = mail /\ Now.flight = flight /\ Now.job = job
      /\ j \in Job /\ j.pty \in Terms /\ j.box \in Boxes /\ j.inc \in Incs
      /\ j.msgs \subseteq DOMAIN mail
      /\ text \subseteq Inputs /\ typed \subseteq Inputs /\ pressed \subseteq Inputs
  BY <1>1, Progressing
<1>3. /\ typed \subseteq T /\ T \subseteq Inputs /\ (outcome = "accepted" => text \subseteq T)
      /\ P \subseteq pressed /\ P \subseteq Inputs
  BY <1>2
<1>4. Now.job[f] = j /\ Now.job[f].pc # "none" /\ Shape(Now) /\ Queued(Now)
  BY <1>1, <1>2, GoodFields
<1>5. /\ Good(past, pressed, typed)
      /\ past.mail = mail /\ past.flight = flight /\ past.job = job
      /\ flight[j.pty] = f => Quiet(past, j.pty)
  BY <1>2, <1>4, GoodClearMark
<1>6. Good(Now, P, T) /\ Good(past, P, T)
  BY <1>2, <1>3, <1>5, GoodLess
<1>7. CASE ~Current(f)
  <2>1. Become(Settle(Now, f))
    BY <1>7 DEF WriteSettles
  <2>2. Good(Settle(Now, f), P, T)
    BY <1>2, <1>4, <1>6, <1>7, GoodSettle DEF Current
  <2> QED
    BY <1>1, <1>3, <2>1, <2>2, Stepped
<1>8. CASE Current(f) /\ outcome = "unverifiable"
  <2>1. Become(Settle(DimMark(Now, j), f))
    BY <1>8 DEF WriteSettles
  <2>2. Good(Settle(DimMark(Now, j), f), P, T)
    BY <1>2, <1>4, <1>6, GoodSettleDimmed
  <2> QED
    BY <1>1, <1>3, <2>1, <2>2, Stepped
<1>9. CASE Current(f) /\ outcome = "refused"
  <2> DEFINE back == Undeliver(past, j.msgs)
  <2>1. \/ Become(Settle(Redrive(back, j.box, FALSE), f))
        \/ Become(Settle(back, f))
    BY <1>9 DEF WriteSettles
  <2>2. \A x \in P : x[1] \notin j.msgs
    BY <1>9
  <2>3. Good(back, P, T)
    BY <1>6, <2>2, GoodUndeliver
  <2>4. back.job = job /\ back.flight = flight /\ back.mark = past.mark
    BY <1>5, UndeliverRows, GoodFields
  <2> HIDE DEF back, past
  <2>5. flight[j.pty] = f => Quiet(back, j.pty)
    BY <1>5, <2>4 DEF Quiet
  <2>6. Good(Settle(Redrive(back, j.box, FALSE), f), P, T) /\ Good(Settle(back, f), P, T)
    BY <1>2, <1>4, <2>3, <2>4, <2>5, GoodEnd
  <2> QED
    BY <1>1, <1>3, <2>1, <2>6, Stepped
<1>10. CASE Current(f) /\ outcome = "accepted" /\ Superseded(j)
  <2>1. \/ Become(Settle(Redrive(past, j.box, FALSE), f))
        \/ Become(Settle(past, f))
    BY <1>10 DEF WriteSettles
  <2> HIDE DEF past
  <2>2. Good(Settle(Redrive(past, j.box, FALSE), f), P, T) /\ Good(Settle(past, f), P, T)
    BY <1>2, <1>4, <1>5, <1>6, GoodEnd
  <2> QED
    BY <1>1, <1>3, <2>1, <2>2, Stepped
<1>11. CASE Current(f) /\ outcome = "accepted" /\ ~Superseded(j)
  <2> DEFINE told == Tell(past, j.msgs)
             on == [Now EXCEPT !.job[f].pc = IF j.defer THEN "deferred" ELSE "armed"]
  <2>1. \/ Become(Settle(Redrive(told, j.box, FALSE), f))
        \/ Become(Submit(Now, f))
        \/ Become(on)
    BY <1>11 DEF WriteSettles
  <2>2. \A i \in j.msgs : mail[i].state # "read"
    BY <1>2, <1>11 DEF Superseded, Unread
  <2>3. Good(told, P, T)
    BY <1>5, <1>6, <2>2, GoodTell
  <2>4. told.job = job /\ told.flight = flight /\ told.mark = past.mark
    BY <1>5, TellRows, GoodFields
  <2>5. Shape(on) /\ Queued(on) /\ on.mail = Now.mail /\ on.flight = Now.flight /\ on.mark = Now.mark
        /\ on.job = [Now.job EXCEPT ![f].pc = IF j.defer THEN "deferred" ELSE "armed"]
    BY <1>4 DEF Shape, Fields, Queued
  <2> HIDE DEF told, past, on, T, P
  <2>6. flight[j.pty] = f => Quiet(told, j.pty)
    BY <1>5, <2>4 DEF Quiet
  <2>7. Good(Settle(Redrive(told, j.box, FALSE), f), P, T)
    BY <1>2, <1>4, <2>3, <2>4, <2>6, GoodEnd
  <2>8. Good(Submit(Now, f), P, T)
    <3>1. term[j.pty].alive \in BOOLEAN
      BY <1>2, TermFields
    <3> QED
      BY <1>2, <1>3, <1>4, <1>6, <1>11, <3>1, GoodSubmit
  <2>9. Good(on, P, T)
    <3>1. /\ on.job \in [Flights -> Job]
          /\ on.job[f].pc \in {"deferred", "armed"}
          /\ on.job[f].pty = j.pty /\ on.job[f].box = j.box
          /\ on.job[f].msgs = j.msgs /\ on.job[f].inc = j.inc
          /\ \A g \in Flights : g # f => on.job[g] = Now.job[g]
      <4>1. Now.job \in [Flights -> Job]
        BY <1>2 DEF Good, Deliveries
      <4>2. [j EXCEPT !.pc = IF j.defer THEN "deferred" ELSE "armed"] \in Job
        BY <1>2 DEF Job
      <4>3. on.job = [Now.job EXCEPT ![f] = [j EXCEPT !.pc = IF j.defer THEN "deferred" ELSE "armed"]]
        BY <2>5, <1>4
      <4>4. on.job[f] = [j EXCEPT !.pc = IF j.defer THEN "deferred" ELSE "armed"]
        BY <4>1, <4>3
      <4> QED
        BY <4>1, <4>2, <4>3, <4>4, <1>2 DEF Job
    <3>2. TextTaken(Now.mail, on.job[f], T)
      <4>1. \A i \in j.msgs : <<i, j.pty, j.inc>> \in text
        OBVIOUS
      <4>2. text \subseteq T
        BY <1>3, <1>11
      <4> HIDE DEF text
      <4>3. \A i \in j.msgs : <<i, j.pty, j.inc>> \in T
        BY <4>1, <4>2
      <4> QED
        BY <3>1, <4>3 DEF TextTaken
    <3>3. /\ Good(Now, P, T) /\ T \subseteq T /\ Now.job[f].pc # "none"
          /\ Shape(on) /\ Queued(on)
          /\ on.mail = Now.mail /\ on.flight = Now.flight /\ on.mark = Now.mark
          /\ on.job[f].pc # "none"
          /\ on.job[f].pty = Now.job[f].pty /\ on.job[f].box = Now.job[f].box
          /\ on.job[f].msgs = Now.job[f].msgs /\ on.job[f].inc = Now.job[f].inc
      BY <1>4, <1>6, <2>5, <3>1
    <3> HIDE DEF j, text
    <3> QED
      BY <3>1, <3>2, <3>3, GoodJob
  <2> QED
    BY <1>1, <1>3, <2>1, <2>7, <2>8, <2>9, Stepped
<1> QED
  BY <1>7, <1>8, <1>9, <1>10, <1>11
LEMMA StepsPressEnter ==
  ASSUME IInv, NEW f \in Flights, PressEnter(f)
  PROVE  IInv'
PROOF
<1> DEFINE j == job[f]
           p == j.pty
           a == [phase |-> EnterAttempted, pty |-> p, inc |-> j.inc]
           t == Point(Now, j.msgs, a)
           u == [t EXCEPT !.job[f].pc = "entering"]
           text == j.msgs \X {p} \X {term[p].inc}
           P == pressed \cup text
<1>1. /\ j.pc = "probing" /\ SameTarget(j)
      /\ At(Now, j.msgs, p, j.inc, {WriteAttempted}) = j.msgs
      /\ Become(u) /\ pressed' = P /\ typed' = typed /\ UNCHANGED Outside
  BY DEF PressEnter
<1>2. /\ OutsideTyped /\ Good(Now, pressed, typed)
      /\ Now.mail = mail /\ Now.flight = flight /\ Now.job = job
      /\ j \in Job /\ p \in Terms /\ j.box \in Boxes /\ j.inc \in Incs
      /\ j.msgs \subseteq DOMAIN mail
      /\ \A i \in j.msgs : mail[i].box = j.box
      /\ j.msgs \X {p} \X {j.inc} \subseteq Inputs
      /\ typed \subseteq Inputs /\ pressed \subseteq Inputs
  BY <1>1, Progressing
<1>3. term[p].inc = j.inc /\ owner[j.box] = p
  BY <1>1 DEF SameTarget
<1>4. P \subseteq Inputs
  BY <1>2, <1>3
<1>5. /\ Shape(Now) /\ Queued(Now) /\ RowsOK(mail) /\ OnePointing(mail)
      /\ PressedStays(mail, pressed) /\ Now.job \in [Flights -> Job]
  BY <1>2 DEF Good, Deliveries
<1>6. \A i \in j.msgs : /\ mail[i].at.pty = p /\ mail[i].at.inc = j.inc
                        /\ mail[i].at.phase = WriteAttempted
  BY <1>1, <1>2 DEF At
<1>7. \A i \in j.msgs : mail[i].state = "new"
  BY <1>2, <1>6, PendingIsNew DEF WriteAttempted
<1>8. a \in Place /\ a.phase = EnterAttempted /\ a.pty = p /\ a.inc = j.inc /\ a.phase > 0
  BY <1>2 DEF Place, EnterAttempted
<1>9. /\ Shape(t) /\ RowsOK(t.mail) /\ DOMAIN t.mail = DOMAIN mail
      /\ t.flight = Now.flight /\ t.job = job /\ t.mark = Now.mark
      /\ t.parked = Now.parked /\ t.again = Now.again /\ t.due = Now.due
      /\ \A i \in DOMAIN mail :
           /\ t.mail[i].box = mail[i].box
           /\ t.mail[i].state = mail[i].state
           /\ i \in j.msgs => t.mail[i].at = a
           /\ i \notin j.msgs => t.mail[i] = mail[i]
  BY <1>2, <1>5, <1>7, <1>8, PointRows
<1> HIDE DEF t
<1>10. OnePointing(t.mail)
  <2>1. ASSUME NEW i \in DOMAIN mail, t.mail[i].at.phase > 0
        PROVE  /\ mail[i].at.phase > 0
               /\ t.mail[i].at.pty = mail[i].at.pty /\ t.mail[i].at.inc = mail[i].at.inc
    BY <2>1, <1>6, <1>8, <1>9 DEF WriteAttempted
  <2> QED
    BY <2>1, <1>5, <1>9 DEF OnePointing
<1>11. PressedStays(t.mail, P)
  <2>1. ASSUME NEW x \in pressed
        PROVE  /\ x[1] \in DOMAIN t.mail
               /\ owner[t.mail[x[1]].box] = x[2]
               /\ term[x[2]].inc = x[3]
               /\ \/ t.mail[x[1]].state # "new"
                  \/ t.mail[x[1]].at = [phase |-> EnterAttempted, pty |-> x[2], inc |-> x[3]]
    <3>1. /\ x[1] \in DOMAIN mail
          /\ owner[mail[x[1]].box] = x[2]
          /\ term[x[2]].inc = x[3]
          /\ \/ mail[x[1]].state # "new"
             \/ mail[x[1]].at = [phase |-> EnterAttempted, pty |-> x[2], inc |-> x[3]]
      BY <1>5 DEF PressedStays
    <3>2. x[1] \notin j.msgs
      BY <3>1, <1>6, <1>7 DEF WriteAttempted, EnterAttempted
    <3> QED
      BY <3>1, <3>2, <1>9
  <2>2. ASSUME NEW x \in text
        PROVE  /\ x[1] \in DOMAIN t.mail
               /\ owner[t.mail[x[1]].box] = x[2]
               /\ term[x[2]].inc = x[3]
               /\ \/ t.mail[x[1]].state # "new"
                  \/ t.mail[x[1]].at = [phase |-> EnterAttempted, pty |-> x[2], inc |-> x[3]]
    <3>1. x[1] \in j.msgs /\ x[2] = p /\ x[3] = term[p].inc
      OBVIOUS
    <3>2. x[1] \in DOMAIN mail /\ t.mail[x[1]].box = j.box /\ t.mail[x[1]].at = a
      BY <3>1, <1>2, <1>9
    <3> QED
      BY <3>1, <3>2, <1>3, <1>9
  <2> QED
    BY <2>1, <2>2 DEF PressedStays
<1>12. Queued(t)
  BY <1>5, <1>9 DEF Queued
<1>13. Good(t, P, typed)
  <2>1. /\ DOMAIN t.mail = DOMAIN Now.mail
        /\ \A i \in DOMAIN Now.mail :
             t.mail[i].box = Now.mail[i].box
             /\ (Now.mail[i].state = "read" => t.mail[i].state = "read")
    BY <1>2, <1>9
  <2> HIDE DEF P
  <2> QED
    BY <2>1, <1>2, <1>9, <1>10, <1>11, <1>12, GoodRows
<1>14. /\ Shape(u) /\ u.mail = t.mail /\ u.flight = t.flight /\ u.mark = t.mark
       /\ u.parked = t.parked /\ u.again = t.again /\ u.due = t.due
       /\ u.job = [t.job EXCEPT ![f].pc = "entering"]
  BY <1>9 DEF Shape, Fields
<1> HIDE DEF u, P
<1>15. Queued(u)
  BY <1>12, <1>14 DEF Queued
<1>16. /\ u.job \in [Flights -> Job]
       /\ u.job[f].pc = "entering"
       /\ u.job[f].pty = j.pty /\ u.job[f].box = j.box
       /\ u.job[f].msgs = j.msgs /\ u.job[f].inc = j.inc
       /\ \A g \in Flights : g # f => u.job[g] = t.job[g]
  <2>1. [j EXCEPT !.pc = "entering"] \in Job
    BY <1>2 DEF Job
  <2>2. u.job = [t.job EXCEPT ![f] = [j EXCEPT !.pc = "entering"]] /\ t.job \in [Flights -> Job]
    BY <1>2, <1>5, <1>9, <1>14
  <2>3. u.job[f] = [j EXCEPT !.pc = "entering"]
    BY <2>2
  <2> QED
    BY <2>1, <2>2, <2>3, <1>2 DEF Job
<1>17. TextTaken(t.mail, u.job[f], typed)
  <2>1. TextTaken(t.mail, j, typed)
    BY <1>9, <1>13 DEF Good
  <2> QED
    BY <2>1, <1>1, <1>16 DEF TextTaken, Written
<1>18. Good(u, P, typed)
  <2>1. t.job[f].pc # "none" /\ t.job[f] = j
    BY <1>1, <1>9
  <2>2. /\ u.job[f].pc # "none"
        /\ u.job[f].pty = t.job[f].pty /\ u.job[f].box = t.job[f].box
        /\ u.job[f].msgs = t.job[f].msgs /\ u.job[f].inc = t.job[f].inc
        /\ typed \subseteq typed
    BY <2>1, <1>16
  <2>3. /\ Good(t, P, typed) /\ t.job[f].pc # "none"
        /\ Shape(u) /\ Queued(u) /\ u.mail = t.mail /\ u.flight = t.flight
        /\ u.mark = t.mark /\ u.job \in [Flights -> Job]
        /\ \A g \in Flights : g # f => u.job[g] = t.job[g]
    BY <2>1, <1>13, <1>14, <1>15, <1>16
  <2> HIDE DEF j
  <2> QED
    BY <2>2, <2>3, <1>17, GoodJob
<1> QED
  BY <1>1, <1>2, <1>4, <1>18, Stepped

LEMMA StepsWithholdEnter ==
  ASSUME IInv, NEW f \in Flights, WithholdEnter(f)
  PROVE  IInv'
PROOF
<1> DEFINE wait == [Now EXCEPT !.job[f].pc = "deferred", !.job[f].defer = TRUE]
<1>1. job[f].pc = "probing" /\ UNCHANGED Outside /\ typed' = typed /\ pressed' = pressed
  BY DEF WithholdEnter
<1>2. \/ Become(GiveBack(Now, f, WriteAttempted)) \/ Become(wait)
      \/ Become(LetBe(Now, f, WriteAttempted)) \/ Become(LeaveOpen(Now, f))
  BY DEF WithholdEnter
<1>3. /\ OutsideTyped /\ Good(Now, pressed, typed)
      /\ Now.mail = mail /\ Now.flight = flight /\ Now.job = job
      /\ typed \subseteq Inputs /\ pressed \subseteq Inputs
  BY <1>1, Progressing
<1>4. Now.job[f].pc # "none" /\ Now.job[f] \in Job
  BY <1>1, <1>3, GoodFields
<1>5. /\ Good(GiveBack(Now, f, WriteAttempted), pressed, typed)
      /\ Good(LetBe(Now, f, WriteAttempted), pressed, typed)
      /\ Good(LeaveOpen(Now, f), pressed, typed)
  BY <1>3, <1>4, GoodGiveBack, GoodLetBe, GoodLeaveOpen
<1>6. Good(wait, pressed, typed)
  <2> DEFINE j == job[f]
             k == [j EXCEPT !.pc = "deferred", !.defer = TRUE]
  <2>1. Shape(Now) /\ Queued(Now) /\ job \in [Flights -> Job] /\ TextTaken(mail, j, typed)
    BY <1>3 DEF Good, Deliveries
  <2>2. /\ Shape(wait) /\ Queued(wait) /\ wait.mail = mail /\ wait.flight = flight
        /\ wait.mark = Now.mark /\ wait.job = [job EXCEPT ![f] = k]
    BY <2>1, <1>3 DEF Shape, Fields, Queued
  <2>3. k \in Job /\ k.pc = "deferred" /\ k.pty = j.pty /\ k.box = j.box /\ k.msgs = j.msgs
        /\ k.inc = j.inc
    BY <1>3, <1>4 DEF Job
  <2> HIDE DEF k, wait
  <2>4. /\ wait.job \in [Flights -> Job] /\ wait.job[f] = k
        /\ \A g \in Flights : g # f => wait.job[g] = job[g]
    BY <2>1, <2>2, <2>3
  <2>5. TextTaken(mail, k, typed)
    BY <2>1, <2>3, <1>1 DEF TextTaken, Written
  <2>6. wait.job[f].pc # "none" /\ wait.job[f].pty = Now.job[f].pty
        /\ wait.job[f].box = Now.job[f].box
        /\ wait.job[f].msgs = Now.job[f].msgs /\ wait.job[f].inc = Now.job[f].inc
        /\ TextTaken(Now.mail, wait.job[f], typed) /\ typed \subseteq typed
        /\ wait.mail = Now.mail /\ wait.flight = Now.flight
        /\ \A g \in Flights : g # f => wait.job[g] = Now.job[g]
    BY <2>2, <2>3, <2>4, <2>5, <1>3
  <2>7. /\ Good(Now, pressed, typed) /\ Now.job[f].pc # "none"
        /\ Shape(wait) /\ Queued(wait) /\ wait.mail = Now.mail /\ wait.flight = Now.flight
        /\ wait.mark = Now.mark /\ wait.job \in [Flights -> Job]
        /\ \A g \in Flights : g # f => wait.job[g] = Now.job[g]
    BY <2>2, <2>4, <2>6, <1>3, <1>4
  <2> HIDE DEF j
  <2> QED
    BY <2>6, <2>7, GoodJob
<1> QED
  BY <1>1, <1>2, <1>3, <1>5, <1>6, Stepped

LEMMA StepsProvenAbsent ==
  ASSUME IInv, NEW f \in Flights, ProvenAbsent(f)
  PROVE  IInv'
PROOF
<1>1. /\ job[f].pc = "probing" /\ Become(GiveBack(Now, f, WriteAttempted))
      /\ UNCHANGED Outside /\ typed' = typed /\ pressed' = pressed
  BY DEF ProvenAbsent
<1>2. /\ OutsideTyped /\ Good(Now, pressed, typed) /\ Now.job = job
      /\ typed \subseteq Inputs /\ pressed \subseteq Inputs
  BY <1>1, Progressing
<1>3. Good(GiveBack(Now, f, WriteAttempted), pressed, typed)
  BY <1>1, <1>2, GoodGiveBack
<1> QED
  BY <1>1, <1>2, <1>3, Stepped

LEMMA StepsDropSuperseded ==
  ASSUME IInv, NEW f \in Flights, DropSuperseded(f)
  PROVE  IInv'
PROOF
<1>1. /\ job[f].pc = "probing" /\ ~Current(f) /\ Become(Settle(Now, f))
      /\ UNCHANGED Outside /\ typed' = typed /\ pressed' = pressed
  BY DEF DropSuperseded
<1>2. /\ OutsideTyped /\ Good(Now, pressed, typed) /\ Now.job = job /\ Now.flight = flight
      /\ typed \subseteq Inputs /\ pressed \subseteq Inputs
  BY <1>1, Progressing
<1>3. Good(Settle(Now, f), pressed, typed)
  BY <1>1, <1>2, GoodSettle DEF Current
<1> QED
  BY <1>1, <1>2, <1>3, Stepped

LEMMA StepsEnterSettles ==
  ASSUME IInv, NEW f \in Flights, NEW outcome \in {"accepted", "refused", "unverifiable"},
         EnterSettles(f, outcome)
  PROVE  IInv'
PROOF
<1>1. job[f].pc = "entering" /\ UNCHANGED Outside /\ typed' = typed /\ pressed' = pressed
  BY DEF EnterSettles
<1>2. \/ ~Current(f) /\ Become(Settle(Now, f))
      \/ Become(Submitted(Now, f))
      \/ Become(LetBe(Now, f, EnterAttempted))
      \/ Become(LeaveOpen(Now, f))
  BY DEF EnterSettles
<1>3. /\ OutsideTyped /\ Good(Now, pressed, typed) /\ Now.job = job /\ Now.flight = flight
      /\ typed \subseteq Inputs /\ pressed \subseteq Inputs
  BY <1>1, Progressing
<1>4. ~Current(f) => Good(Settle(Now, f), pressed, typed)
  BY <1>1, <1>3, GoodSettle DEF Current
<1>5. /\ Good(Submitted(Now, f), pressed, typed)
      /\ Good(LetBe(Now, f, EnterAttempted), pressed, typed)
      /\ Good(LeaveOpen(Now, f), pressed, typed)
  BY <1>1, <1>3, GoodSubmitted, GoodLetBe, GoodLeaveOpen
<1> QED
  BY <1>1, <1>2, <1>3, <1>4, <1>5, Stepped

LEMMA StepsDeliverDue ==
  ASSUME IInv, NEW b \in Boxes, DeliverDue(b)
  PROVE  IInv'
PROOF
<1> DEFINE p == owner[b]
           s == [Now EXCEPT !.due = @ \ {b}]
<1>1. /\ CanDeliver(p) /\ UNCHANGED Outside /\ typed' = typed /\ pressed' = pressed
      /\ Become(s) \/ Become(Deliver(s, p, b))
  BY DEF DeliverDue
<1>2. /\ OutsideTyped /\ Good(Now, pressed, typed) /\ p \in Terms
      /\ typed \subseteq Inputs /\ pressed \subseteq Inputs
  BY DEF IInv, OutsideTyped
<1>3. /\ Shape(s) /\ s.mail = Now.mail /\ s.flight = Now.flight /\ s.job = Now.job
      /\ s.mark = Now.mark /\ s.parked = Now.parked /\ s.again = Now.again
      /\ s.due = Now.due \ {b} /\ Queued(Now) /\ Now.flight = flight
  BY <1>2 DEF Now, Shape, Fields, Good
<1> HIDE DEF s
<1>4. Queued(s)
  BY <1>3 DEF Queued
<1>5. Good(s, pressed, typed)
  BY <1>2, <1>3, <1>4, GoodQueues
<1>6. s.flight[p] # 0 \/ Free(s) # {}
  BY <1>1, <1>3 DEF CanDeliver, Free
<1>7. Good(Deliver(s, p, b), pressed, typed)
  BY <1>2, <1>5, <1>6, GoodDeliver
<1> QED
  BY <1>1, <1>2, <1>5, <1>7, Stepped

-----------------------------------------------------------------------------
(* What happens to the terminal *)

LEMMA Observed ==
  ASSUME IInv, NEW s, Good(s, pressed, typed), Become(s),
         term' \in [Terms -> [inc : Incs, alive : BOOLEAN, up : BOOLEAN, status : Statuses]],
         \A p \in Terms : term'[p].inc = term[p].inc,
         UNCHANGED <<owner, held, waiting, restarts, typed, pressed>>
  PROVE  IInv'
PROOF
<1>1. Good(Now, pressed, typed)'
  BY Became DEF IInv
<1>2. OutsideTyped'
  BY DEF IInv, OutsideTyped, Incs, Inputs, Statuses, Shown
<1> QED
  BY <1>1, <1>2 DEF IInv

(* The pointer state stays as it is. *)
LEMMA Stays ==
  ASSUME IInv, UNCHANGED pointers
  PROVE  /\ OutsideTyped /\ Good(Now, pressed, typed) /\ Become(Now)
BY DEF IInv, Become, Now, pointers

LEMMA StepsTitle ==
  ASSUME IInv, NEW p \in Terms, NEW status \in Shown, NEW cold \in BOOLEAN, Title(p, status, cold)
  PROVE  IInv'
PROOF
<1> DEFINE seen == CASE status \in {"working", "permission"} -> AgentBusy(Now, p, cold)
                     [] status = "idle" -> TakeDeferred(IF cold THEN Defer(Now, p) ELSE Now, p)
                     [] status = "neutral" -> Now
<1>1. /\ CanDeliver(p) /\ term' = [term EXCEPT ![p].status = status]
      /\ UNCHANGED <<owner, held, waiting, restarts, typed, pressed>>
      /\ Become(seen) \/ (status = "idle" /\ Become(DeliverOwned(seen, p)))
  BY DEF Title
<1>2. OutsideTyped /\ Good(Now, pressed, typed) /\ Now.flight = flight
  BY DEF IInv, Now
<1>3. CASE status = "idle"
  <2> DEFINE d == IF cold THEN Defer(Now, p) ELSE Now
  <2>1. Good(d, pressed, typed) /\ d.flight = flight /\ Free(d) = Free(Now)
    BY <1>2, GoodDefer
  <2>2. seen = TakeDeferred(d, p)
    BY <1>3
  <2> HIDE DEF d, seen
  <2>3. Good(seen, pressed, typed) /\ seen.flight = flight /\ Free(seen) = Free(Now)
    BY <1>2, <2>1, <2>2, GoodTakeDeferred
  <2>4. Good(DeliverOwned(seen, p), pressed, typed)
    BY <1>1, <1>2, <2>3, GoodDeliverOwned DEF CanDeliver
  <2>5. term' \in [Terms -> [inc : Incs, alive : BOOLEAN, up : BOOLEAN, status : Statuses]]
    BY <1>1, <1>2 DEF OutsideTyped, Statuses, Shown
  <2>6. \A q \in Terms : term'[q].inc = term[q].inc
    BY <1>1, <1>2 DEF OutsideTyped
  <2> QED
    BY <1>1, <2>3, <2>4, <2>5, <2>6, Observed
<1>4. CASE status # "idle"
  <2>1. seen = AgentBusy(Now, p, cold) \/ seen = Now
    BY <1>4 DEF Shown
  <2> HIDE DEF seen
  <2>2. Good(seen, pressed, typed)
    BY <1>2, <2>1, GoodAgentBusy
  <2>3. term' \in [Terms -> [inc : Incs, alive : BOOLEAN, up : BOOLEAN, status : Statuses]]
    BY <1>1, <1>2 DEF OutsideTyped, Statuses, Shown
  <2>4. \A q \in Terms : term'[q].inc = term[q].inc
    BY <1>1, <1>2 DEF OutsideTyped
  <2> QED
    BY <1>1, <1>4, <2>2, <2>3, <2>4, Observed
<1> QED
  BY <1>3, <1>4

LEMMA StepsStatusRestored ==
  ASSUME IInv, NEW p \in Terms, NEW status \in {"idle", "working"}, StatusRestored(p, status)
  PROVE  IInv'
PROOF
<1>1. /\ CanDeliver(p) /\ term' = [term EXCEPT ![p].status = status]
      /\ UNCHANGED <<owner, held, waiting, restarts, typed, pressed>>
      /\ Become(Now) \/ Become(DeliverOwned(Now, p))
  BY DEF StatusRestored
<1>2. OutsideTyped /\ Good(Now, pressed, typed) /\ Now.flight = flight
  BY DEF IInv, Now
<1>3. Good(DeliverOwned(Now, p), pressed, typed)
  BY <1>1, <1>2, GoodDeliverOwned DEF CanDeliver
<1>4. term' \in [Terms -> [inc : Incs, alive : BOOLEAN, up : BOOLEAN, status : Statuses]]
  BY <1>1, <1>2 DEF OutsideTyped, Statuses, Shown
<1>5. \A q \in Terms : term'[q].inc = term[q].inc
  BY <1>1, <1>2 DEF OutsideTyped
<1> QED
  BY <1>1, <1>2, <1>3, <1>4, <1>5, Observed

LEMMA StepsDie ==
  ASSUME IInv, NEW p \in Terms, Die(p)
  PROVE  IInv'
PROOF
<1>1. /\ term' = [term EXCEPT ![p].alive = FALSE] /\ UNCHANGED pointers
      /\ UNCHANGED <<owner, held, waiting, restarts, typed, pressed>>
  BY DEF Die
<1>2. OutsideTyped /\ Good(Now, pressed, typed) /\ Become(Now)
  BY <1>1, Stays
<1>3. term' \in [Terms -> [inc : Incs, alive : BOOLEAN, up : BOOLEAN, status : Statuses]]
  BY <1>1, <1>2 DEF OutsideTyped
<1>4. \A q \in Terms : term'[q].inc = term[q].inc
  BY <1>1, <1>2 DEF OutsideTyped
<1> QED
  BY <1>1, <1>2, <1>3, <1>4, Observed

LEMMA StepsReattach ==
  ASSUME IInv, NEW p \in Terms, Reattach(p)
  PROVE  IInv'
PROOF
<1>1. /\ term' = [term EXCEPT ![p].up = TRUE] /\ UNCHANGED pointers
      /\ UNCHANGED <<owner, held, waiting, restarts, typed, pressed>>
  BY DEF Reattach
<1>2. OutsideTyped /\ Good(Now, pressed, typed) /\ Become(Now)
  BY <1>1, Stays
<1>3. term' \in [Terms -> [inc : Incs, alive : BOOLEAN, up : BOOLEAN, status : Statuses]]
  BY <1>1, <1>2 DEF OutsideTyped
<1>4. \A q \in Terms : term'[q].inc = term[q].inc
  BY <1>1, <1>2 DEF OutsideTyped
<1> QED
  BY <1>1, <1>2, <1>3, <1>4, Observed

LEMMA StepsExit ==
  ASSUME IInv, NEW p \in Terms, Exit(p)
  PROVE  IInv'
PROOF
<1> DEFINE s == Retire(Now, p)
           more == {b \in RunBoxes : owner[b] = p}
           t == [s EXCEPT !.due = @ \cup more]
<1>1. /\ term' = [term EXCEPT ![p].up = FALSE, ![p].status = "unseen"] /\ Become(t)
      /\ UNCHANGED <<owner, held, waiting, restarts, typed, pressed>>
  BY DEF Exit
<1>2. OutsideTyped /\ Good(Now, pressed, typed)
  BY DEF IInv
<1>3. Good(s, pressed, typed)
  BY <1>2, GoodRetire
<1>4. Shape(s) /\ Queued(s)
  BY <1>3, GoodFields
<1>5. more \subseteq Boxes
  BY PointerConstants
<1> HIDE DEF s, more
<1>6. /\ Shape(t) /\ t.mail = s.mail /\ t.flight = s.flight /\ t.job = s.job /\ t.mark = s.mark
      /\ t.parked = s.parked /\ t.again = s.again /\ t.due = s.due \cup more
  BY <1>4 DEF Shape, Fields
<1> HIDE DEF t
<1>7. Queued(t)
  BY <1>4, <1>5, <1>6 DEF Queued
<1>8. Good(t, pressed, typed)
  BY <1>3, <1>6, <1>7, GoodQueues
<1>9. term' \in [Terms -> [inc : Incs, alive : BOOLEAN, up : BOOLEAN, status : Statuses]]
  BY <1>1, <1>2 DEF OutsideTyped, Statuses
<1>10. \A q \in Terms : term'[q].inc = term[q].inc
  BY <1>1, <1>2 DEF OutsideTyped
<1> QED
  BY <1>1, <1>8, <1>9, <1>10, Observed

(* What a step has to keep when it leaves the deliveries and the watermarks *)
(* as they are.                                                             *)
LEMMA Rebuilt ==
  ASSUME Good(Now, pressed, typed), UNCHANGED <<flight, job, mark, parked, again>>,
         due' \subseteq Boxes,
         RowsOK(mail)', HeldRows(mail)', OnePointing(mail)', PressedStays(mail, pressed)',
         \A f \in Flights : JobOK(mail, job[f])' /\ TextTaken(mail, job[f], typed)'
  PROVE  Good(Now, pressed, typed)'
PROOF
<1>1. /\ Now.flight = flight /\ Now.job = job /\ Now.mark = mark
      /\ Now.parked = parked /\ Now.again = again /\ Now.due = due /\ Now.mail = mail
  BY DEF Now
<1>2. /\ Now'.mail = mail' /\ Now'.flight = flight /\ Now'.job = job /\ Now'.mark = mark
      /\ Now'.parked = parked /\ Now'.again = again /\ Now'.due = due'
  BY DEF Now
<1>3. Shape(Now)'
  BY DEF Shape, Fields, Now
<1> HIDE DEF Now
<1>4. Queued(Now)'
  BY <1>1, <1>2 DEF Good, Queued
<1>5. /\ flight \in [Terms -> {0} \cup Flights]
      /\ job \in [Flights -> Job]
      /\ mark \in [Boxes -> Marks \cup {None}]
      /\ \A p \in Terms : FlightOK(Now, p)
      /\ \A b \in Boxes : MarkOK(Now, b)
  BY <1>1 DEF Good, Deliveries
<1>6. (Now.job \in [Flights -> Job])'
  BY <1>2, <1>5 DEF Flights, Job, Incs
<1>7. (Now.flight \in [Terms -> {0} \cup Flights])' /\ (Now.mark \in [Boxes -> Marks \cup {None}])'
  BY <1>2, <1>5 DEF Flights, Marks
<1>8. (\A p \in Terms : FlightOK(Now, p))' /\ (\A b \in Boxes : MarkOK(Now, b))'
  BY <1>1, <1>2, <1>5 DEF FlightOK, MarkOK
<1>9. (RowsOK(Now.mail) /\ HeldRows(Now.mail) /\ OnePointing(Now.mail)
       /\ PressedStays(Now.mail, pressed))'
  BY <1>2
<1>10. (\A f \in Flights : JobOK(Now.mail, Now.job[f]) /\ TextTaken(Now.mail, Now.job[f], typed))'
  BY <1>2 DEF Flights
<1> QED
  BY <1>3, <1>4, <1>6, <1>7, <1>8, <1>9, <1>10 DEF Good, Deliveries
LEMMA StepsRespawn ==
  ASSUME IInv, NEW p \in Terms, Respawn(p)
  PROVE  IInv'
PROOF
<1>1. /\ term[p].inc < MaxInc
      /\ term' = [term EXCEPT ![p] = [inc |-> term[p].inc + 1, alive |-> TRUE, up |-> TRUE,
                                      status |-> "unseen"]]
      /\ typed' = {x \in typed : x[2] # p} /\ pressed' = {x \in pressed : x[2] # p}
      /\ UNCHANGED <<owner, held, waiting, restarts>> /\ UNCHANGED pointers
  BY DEF Respawn
<1>2. OutsideTyped /\ Good(Now, pressed, typed)
  BY DEF IInv
<1>3. RowsOK(mail) /\ HeldRows(mail) /\ OnePointing(mail) /\ PressedStays(mail, pressed)
      /\ due \subseteq Boxes /\ \A f \in Flights : JobOK(mail, job[f]) /\ TextTaken(mail, job[f], typed)
  BY <1>2 DEF Good, Queued, Now
<1>4. UNCHANGED <<mail, flight, job, mark, parked, again, due>>
  BY <1>1 DEF pointers
<1>5. /\ term \in [Terms -> [inc : Incs, alive : BOOLEAN, up : BOOLEAN, status : Statuses]]
      /\ term[p].inc \in Incs /\ term[p].inc + 1 \in Incs
  BY <1>1, <1>2, PointerConstants DEF OutsideTyped, Incs
<1>6. /\ term' \in [Terms -> [inc : Incs, alive : BOOLEAN, up : BOOLEAN, status : Statuses]]
      /\ term'[p].inc = term[p].inc + 1
      /\ \A q \in Terms : q # p => term'[q] = term[q]
  BY <1>1, <1>5 DEF Statuses
<1>7. OutsideTyped'
  BY <1>1, <1>2, <1>6 DEF OutsideTyped, Incs, Inputs, Statuses, Shown
<1>8. PressedStays(mail, pressed)'
  <2>1. ASSUME NEW x \in pressed, x[2] # p
        PROVE  /\ x[1] \in DOMAIN mail
               /\ owner[mail[x[1]].box] = x[2]
               /\ term'[x[2]].inc = x[3]
               /\ \/ mail[x[1]].state # "new"
                  \/ mail[x[1]].at = [phase |-> EnterAttempted, pty |-> x[2], inc |-> x[3]]
    <3>1. /\ x[1] \in DOMAIN mail
          /\ owner[mail[x[1]].box] = x[2]
          /\ term[x[2]].inc = x[3]
          /\ \/ mail[x[1]].state # "new"
             \/ mail[x[1]].at = [phase |-> EnterAttempted, pty |-> x[2], inc |-> x[3]]
      BY <1>3 DEF PressedStays
    <3>2. mail[x[1]].box \in Boxes
      BY <1>3, <3>1, RowFields DEF RowsOK
    <3>3. x[2] \in Terms
      BY <3>1, <3>2, <1>2 DEF OutsideTyped
    <3> QED
      BY <3>1, <3>3, <2>1, <1>6
  <2> QED
    BY <2>1, <1>1, <1>4 DEF PressedStays, EnterAttempted
<1>9. ASSUME NEW f \in Flights
      PROVE  JobOK(mail, job[f])' /\ TextTaken(mail, job[f], typed)'
  <2> DEFINE j == job[f]
  <2>1. JobOK(mail, j) /\ TextTaken(mail, j, typed)
    BY <1>3
  <2>2. CASE j.pc = "none"
    BY <2>1, <2>2, <1>4 DEF JobOK, TextTaken, Written, Incs
  <2>3. CASE j.pc # "none"
    <3>1. j.pty \in Terms /\ j.inc \in Incs /\ j.inc <= term[j.pty].inc
      BY <2>1, <2>3 DEF JobOK
    <3>2. j.inc <= term'[j.pty].inc /\ (j.inc = term'[j.pty].inc => j.pty # p /\ term'[j.pty] = term[j.pty])
      BY <3>1, <1>5, <1>6 DEF Incs
    <3>3. job' = job /\ mail' = mail
      BY <1>4
    <3>4. JobOK(mail, job[f])'
      BY <2>1, <2>3, <3>1, <3>2, <3>3 DEF JobOK, Incs
    <3>5. TextTaken(mail, job[f], typed)'
      BY <2>1, <3>2, <3>3, <1>1 DEF TextTaken, Written
    <3> QED
      BY <3>4, <3>5
  <2> QED
    BY <2>2, <2>3
<1>10. (RowsOK(mail) /\ HeldRows(mail) /\ OnePointing(mail))'
  BY <1>1, <1>3, <1>4 DEF RowsOK, HeldRows, OnePointing, Sound, Row, Place, Incs
<1>11. Good(Now, pressed, typed)'
  BY <1>2, <1>3, <1>4, <1>8, <1>9, <1>10, Rebuilt
<1> QED
  BY <1>7, <1>11 DEF IInv

(* A restart between the two updates of Stage leaves rows reserved.         *)
LEMMA GoodReserve ==
  ASSUME OutsideTyped, NEW s, NEW P, NEW T, Good(s, P, T), NEW b \in Boxes, NEW p \in Terms,
         Pending(s, b) = {}
  PROVE  Good(Point(s, Fresh(s, b), [phase |-> Reserved, pty |-> p, inc |-> term[p].inc]), P, T)
PROOF
<1> DEFINE a == [phase |-> Reserved, pty |-> p, inc |-> term[p].inc]
           new == Fresh(s, b)
           t == Point(s, new, a)
<1>1. /\ Shape(s) /\ Queued(s) /\ RowsOK(s.mail) /\ OnePointing(s.mail)
      /\ PressedStays(s.mail, P)
  BY DEF Good
<1>2. \A i \in new : i \in DOMAIN s.mail /\ s.mail[i].box = b /\ s.mail[i].state = "new"
                     /\ s.mail[i].at.phase = 0
  BY DEF Fresh, Unread
<1>3. term[p].inc \in Incs
  BY TermFields
<1>4. a \in Place /\ a.phase = Reserved /\ a.pty = p /\ a.inc = term[p].inc /\ a.phase > 0
  BY <1>3 DEF Place, Reserved
<1>5. ASSUME NEW i \in DOMAIN s.mail, s.mail[i].box = b
      PROVE  s.mail[i].at.phase = 0
  <2>1. Sound(s.mail[i])
    BY <1>1 DEF RowsOK
  <2>2. s.mail[i].at.phase \in 0 .. 3 /\ (s.mail[i].at.phase > 0 => s.mail[i].state = "new")
    BY <2>1, RowFields
  <2>3. i \notin Pending(s, b)
    OBVIOUS
  <2> QED
    BY <1>5, <2>2, <2>3 DEF Pending, Unread
<1> HIDE DEF new, a
<1>6. /\ Shape(t) /\ RowsOK(t.mail) /\ DOMAIN t.mail = DOMAIN s.mail
      /\ t.flight = s.flight /\ t.job = s.job /\ t.mark = s.mark
      /\ t.parked = s.parked /\ t.again = s.again /\ t.due = s.due
      /\ \A i \in DOMAIN s.mail :
           /\ t.mail[i].box = s.mail[i].box
           /\ t.mail[i].state = s.mail[i].state
           /\ i \in new => t.mail[i].at = a
           /\ i \notin new => t.mail[i] = s.mail[i]
  BY <1>1, <1>2, <1>4, PointRows
<1> HIDE DEF t
<1>7. Queued(t)
  BY <1>1, <1>6 DEF Queued
<1>8. OnePointing(t.mail)
  <2>1. ASSUME NEW i \in DOMAIN s.mail, t.mail[i].at.phase > 0
        PROVE  \/ s.mail[i].box = b /\ t.mail[i].at = a
               \/ s.mail[i].box # b /\ t.mail[i] = s.mail[i]
    <3>1. CASE i \in new
      BY <3>1, <1>2, <1>6
    <3>2. CASE i \notin new
      BY <2>1, <3>2, <1>5, <1>6
    <3> QED
      BY <3>1, <3>2
  <2> QED
    BY <2>1, <1>1, <1>6 DEF OnePointing
<1>9. PressedStays(t.mail, P)
  <2>1. ASSUME NEW x \in P
        PROVE  x[1] \in DOMAIN s.mail /\ t.mail[x[1]] = s.mail[x[1]]
    <3>1. /\ x[1] \in DOMAIN s.mail
          /\ \/ s.mail[x[1]].state # "new"
             \/ s.mail[x[1]].at = [phase |-> EnterAttempted, pty |-> x[2], inc |-> x[3]]
      BY <1>1 DEF PressedStays
    <3>2. x[1] \notin new
      BY <3>1, <1>2 DEF EnterAttempted
    <3> QED
      BY <3>1, <3>2, <1>6
  <2> QED
    BY <2>1, <1>1, <1>6 DEF PressedStays
<1>10. Good(t, P, T)
  BY <1>6, <1>7, <1>8, <1>9, GoodRows
<1> QED
  BY <1>10 DEF t, new, a

LEMMA StepsRestart ==
  ASSUME IInv, NEW cut \in Boxes \cup {None}, Restart(cut)
  PROVE  IInv'
PROOF
<1> DEFINE p == owner[cut]
           s == IF cut # None /\ Fresh(Now, cut) # {} /\ flight[p] = 0 /\ Pending(Now, cut) = {}
                   /\ term[p].up /\ held[cut] = {}
                THEN Point(Now, Fresh(Now, cut), [phase |-> Reserved, pty |-> p, inc |-> term[p].inc])
                ELSE Now
<1>1. /\ restarts < MaxRestarts /\ restarts' = restarts + 1 /\ mail' = s.mail
      /\ due' \subseteq Boxes
      /\ term' = [p2 \in Terms |-> [term[p2] EXCEPT !.up = FALSE, !.status = "unseen"]]
      /\ parked' = [p2 \in Terms |-> {}] /\ again' = {}
      /\ flight' = [p2 \in Terms |-> 0] /\ job' = [f \in Flights |-> NoJob]
      /\ mark' = [b \in Boxes |-> None] /\ waiting' = {}
      /\ owner' = owner /\ held' = held /\ typed' = typed /\ pressed' = pressed
  BY DEF Restart
<1>2. OutsideTyped /\ Good(Now, pressed, typed)
  BY DEF IInv
<1>3. Good(s, pressed, typed)
  <2>1. CASE s = Now
    BY <2>1, <1>2
  <2>2. CASE cut # None /\ Pending(Now, cut) = {} /\
             s = Point(Now, Fresh(Now, cut), [phase |-> Reserved, pty |-> p, inc |-> term[p].inc])
    <3>1. cut \in Boxes /\ p \in Terms
      BY <2>2, <1>2 DEF OutsideTyped
    <3> HIDE DEF p
    <3> QED
      BY <2>2, <3>1, <1>2, GoodReserve
  <2> QED
    BY <2>1, <2>2
<1> HIDE DEF s
<1>4. /\ term' \in [Terms -> [inc : Incs, alive : BOOLEAN, up : BOOLEAN, status : Statuses]]
      /\ \A q \in Terms : term'[q].inc = term[q].inc
  BY <1>1, <1>2 DEF OutsideTyped, Statuses
<1>5. OutsideTyped'
  <2>1. restarts' \in 0 .. MaxRestarts
    <3>1. restarts \in 0 .. MaxRestarts /\ restarts < MaxRestarts /\ restarts' = restarts + 1
      BY <1>1, <1>2 DEF OutsideTyped
    <3>2. MaxRestarts \in Nat
      BY PointerConstants
    <3> QED
      BY <3>1, <3>2
  <2> QED
    BY <2>1, <1>1, <1>2, <1>4 DEF OutsideTyped, Incs, Inputs, Statuses, Shown
<1>6. RowsOK(s.mail) /\ HeldRows(s.mail) /\ OnePointing(s.mail) /\ PressedStays(s.mail, pressed)
  BY <1>3 DEF Good
<1>7. (RowsOK(mail) /\ HeldRows(mail) /\ OnePointing(mail))'
  BY <1>1, <1>6 DEF RowsOK, HeldRows, OnePointing, Sound, Row, Place, Incs
<1>8. PressedStays(mail, pressed)'
  <2>1. ASSUME NEW x \in pressed
        PROVE  /\ x[1] \in DOMAIN s.mail
               /\ owner[s.mail[x[1]].box] = x[2]
               /\ term'[x[2]].inc = x[3]
               /\ \/ s.mail[x[1]].state # "new"
                  \/ s.mail[x[1]].at = [phase |-> EnterAttempted, pty |-> x[2], inc |-> x[3]]
    <3>1. /\ x[1] \in DOMAIN s.mail
          /\ owner[s.mail[x[1]].box] = x[2]
          /\ term[x[2]].inc = x[3]
          /\ \/ s.mail[x[1]].state # "new"
             \/ s.mail[x[1]].at = [phase |-> EnterAttempted, pty |-> x[2], inc |-> x[3]]
      BY <1>6 DEF PressedStays
    <3>2. s.mail[x[1]].box \in Boxes
      BY <1>6, <3>1, RowFields DEF RowsOK
    <3>3. x[2] \in Terms
      BY <3>1, <3>2, <1>2 DEF OutsideTyped
    <3> QED
      BY <3>1, <3>3, <1>4
  <2> QED
    BY <2>1, <1>1 DEF PressedStays, EnterAttempted
<1>9. Queued(Now)'
  BY <1>1 DEF Queued, Now
<1>10. Deliveries(Now)'
  <2>1. NoJob \in Job /\ NoJob.pc = "none"
    BY DEF NoJob, Job
  <2>2. (Now.job \in [Flights -> Job])'
    BY <2>1, <1>1 DEF Now, Flights, Job, Incs
  <2>3. (Now.flight \in [Terms -> {0} \cup Flights])' /\ (Now.mark \in [Boxes -> Marks \cup {None}])'
    BY <1>1 DEF Now
  <2>4. (\A q \in Terms : FlightOK(Now, q))' /\ (\A b \in Boxes : MarkOK(Now, b))'
    BY <1>1 DEF Now, FlightOK, MarkOK
  <2> QED
    BY <2>2, <2>3, <2>4 DEF Deliveries
<1>11. (\A f \in Flights : JobOK(Now.mail, Now.job[f]) /\ TextTaken(Now.mail, Now.job[f], typed))'
  <2>1. NoJob.pc = "none" /\ NoJob.msgs = {}
    BY DEF NoJob
  <2> QED
    BY <2>1, <1>1 DEF Now, JobOK, TextTaken, Written, Flights
<1>12. Shape(Now)'
  BY DEF Shape, Fields, Now
<1>13. Good(Now, pressed, typed)'
  <2>1. Now'.mail = mail'
    BY DEF Now
  <2> HIDE DEF Now
  <2>2. (RowsOK(Now.mail) /\ HeldRows(Now.mail) /\ OnePointing(Now.mail)
         /\ PressedStays(Now.mail, pressed))'
    BY <2>1, <1>7, <1>8
  <2> QED
    BY <2>2, <1>9, <1>10, <1>11, <1>12 DEF Good
<1> QED
  BY <1>5, <1>13 DEF IInv
-----------------------------------------------------------------------------
(* Mail and its readers *)

LEMMA Appended ==
  ASSUME NEW ms, RowsOK(ms), Len(ms) < MaxMail, NEW r, Sound(r)
  PROVE  LET new == Append(ms, r)
         IN /\ RowsOK(new) /\ DOMAIN ms \subseteq DOMAIN new
            /\ \A i \in DOMAIN ms : new[i] = ms[i]
            /\ \A i \in DOMAIN new : i \in DOMAIN ms \/ new[i] = r
PROOF
<1> DEFINE new == Append(ms, r)
<1>1. ms \in Seq(Row) /\ r \in Row /\ Len(ms) \in Nat /\ DOMAIN ms = 1 .. Len(ms)
  BY LenProperties DEF RowsOK, Sound
<1>2. /\ new \in Seq(Row) /\ Len(new) = Len(ms) + 1
      /\ \A i \in 1 .. Len(ms) : new[i] = ms[i]
      /\ new[Len(ms) + 1] = r
  BY <1>1, AppendProperties
<1>3. DOMAIN new = 1 .. Len(ms) + 1
  BY <1>2, LenProperties
<1> HIDE DEF new
<1>4. Len(new) <= MaxMail
  BY <1>1, <1>2, PointerConstants
<1>5. \A i \in DOMAIN new : i \in DOMAIN ms \/ new[i] = r
  BY <1>1, <1>2, <1>3
<1>6. \A i \in DOMAIN new : Sound(new[i])
  BY <1>1, <1>2, <1>5 DEF RowsOK
<1>7. DOMAIN ms \subseteq DOMAIN new /\ \A i \in DOMAIN ms : new[i] = ms[i]
  BY <1>1, <1>2, <1>3
<1>8. RowsOK(new)
  BY <1>2, <1>4, <1>6 DEF RowsOK
<1> QED
  BY <1>5, <1>7, <1>8 DEF new

LEMMA StepsArrive ==
  ASSUME IInv, NEW b \in Boxes, Arrive(b)
  PROVE  IInv'
PROOF
<1> DEFINE r == [box |-> b, state |-> "new", at |-> Unpointed]
<1>1. /\ Len(mail) < MaxMail /\ mail' = Append(mail, r)
      /\ waiting' \subseteq waiting /\ due' \subseteq due \cup {b}
      /\ UNCHANGED <<term, owner, held, restarts, typed, pressed,
                     flight, job, mark, parked, again>>
  BY DEF Arrive
<1>2. OutsideTyped /\ Good(Now, pressed, typed)
  BY DEF IInv
<1>3. RowsOK(mail) /\ HeldRows(mail) /\ OnePointing(mail) /\ PressedStays(mail, pressed)
      /\ due \subseteq Boxes /\ \A f \in Flights : JobOK(mail, job[f]) /\ TextTaken(mail, job[f], typed)
  BY <1>2 DEF Good, Queued, Now
<1>4. Sound(r) /\ r.at.phase = 0
  BY UnpointedPlace DEF Sound, Row
<1> HIDE DEF r
<1>5. /\ RowsOK(mail') /\ DOMAIN mail \subseteq DOMAIN mail'
      /\ \A i \in DOMAIN mail : mail'[i] = mail[i]
      /\ \A i \in DOMAIN mail' : i \in DOMAIN mail \/ mail'[i] = r
  BY <1>1, <1>3, <1>4, Appended
<1>6. RowsOK(mail)'
  BY <1>5 DEF RowsOK, Sound, Row, Place, Incs
<1>7. HeldRows(mail)'
  BY <1>1, <1>3, <1>5 DEF HeldRows
<1>8. OnePointing(mail)'
  <2>1. \A i \in DOMAIN mail' : mail'[i].at.phase > 0 => i \in DOMAIN mail /\ mail'[i] = mail[i]
    BY <1>4, <1>5
  <2> QED
    BY <2>1, <1>3 DEF OnePointing
<1>9. PressedStays(mail, pressed)'
  BY <1>1, <1>3, <1>5 DEF PressedStays, EnterAttempted
<1>10. ASSUME NEW f \in Flights
       PROVE  JobOK(mail, job[f])' /\ TextTaken(mail, job[f], typed)'
  <2>1. JobOK(mail, job[f]) /\ TextTaken(mail, job[f], typed)
    BY <1>3
  <2>2. JobOK(mail, job[f])'
    BY <2>1, <1>1, <1>5 DEF JobOK, Incs
  <2>3. TextTaken(mail, job[f], typed)'
    <3>1. job[f].msgs \subseteq DOMAIN mail
      BY <2>1 DEF JobOK
    <3> QED
      BY <2>1, <3>1, <1>1, <1>5 DEF TextTaken, Written
  <2> QED
    BY <2>2, <2>3
<1>11. Good(Now, pressed, typed)'
  BY <1>1, <1>2, <1>3, <1>6, <1>7, <1>8, <1>9, <1>10, Rebuilt
<1>12. OutsideTyped'
  BY <1>1, <1>2 DEF OutsideTyped, Incs, Inputs, Statuses, Shown
<1> QED
  BY <1>11, <1>12 DEF IInv

LEMMA StepsCheck ==
  ASSUME IInv, NEW b \in Boxes, NEW wait \in BOOLEAN, Check(b, wait)
  PROVE  IInv'
PROOF
<1> DEFINE old == held[b]
           rest == Unread(Now, b) \ held[b]
           read(i) == [mail[i] EXCEPT !.state = "read", !.at = Unpointed]
           new == [i \in DOMAIN mail |-> IF i \in old THEN read(i) ELSE mail[i]]
<1>1. /\ mail' = new /\ held' = [held EXCEPT ![b] = rest]
      /\ waiting' \subseteq waiting \cup {b}
      /\ typed' = {x \in typed : x[1] \notin old}
      /\ pressed' = {x \in pressed : x[1] \notin old}
      /\ UNCHANGED <<term, owner, restarts, flight, job, mark, parked, again, due>>
  BY DEF Check
<1>2. OutsideTyped /\ Good(Now, pressed, typed) /\ Now.mail = mail
  BY DEF IInv, Now
<1>3. RowsOK(mail) /\ HeldRows(mail) /\ OnePointing(mail) /\ PressedStays(mail, pressed)
      /\ due \subseteq Boxes /\ \A f \in Flights : JobOK(mail, job[f]) /\ TextTaken(mail, job[f], typed)
  BY <1>2 DEF Good, Queued, Now
<1>4. rest \subseteq DOMAIN mail
  BY <1>2 DEF Unread
<1>5. ASSUME NEW i \in DOMAIN mail
      PROVE  /\ Sound(new[i]) /\ new[i].box = mail[i].box
             /\ i \in old => new[i].state = "read" /\ new[i].at = Unpointed
             /\ i \notin old => new[i] = mail[i]
  <2>1. new[i] = IF i \in old THEN read(i) ELSE mail[i]
    OBVIOUS
  <2>2. Sound(mail[i])
    BY <1>3 DEF RowsOK
  <2>3. /\ Sound(read(i)) /\ read(i).box = mail[i].box
        /\ read(i).state = "read" /\ read(i).at = Unpointed
    BY <2>2, WasRead
  <2> HIDE DEF new, read, old
  <2>4. CASE i \in old
    BY <2>1, <2>3, <2>4
  <2>5. CASE i \notin old
    BY <2>1, <2>2, <2>5
  <2> QED
    BY <2>4, <2>5
<1>6. new = [i \in DOMAIN mail |-> new[i]]
  OBVIOUS
<1> HIDE DEF new, old, rest
<1>7. RowsOK(new) /\ DOMAIN new = DOMAIN mail
  BY <1>3, <1>5, <1>6, Rewritten
<1>8. RowsOK(mail)'
  BY <1>1, <1>7 DEF RowsOK, Sound, Row, Place, Incs
<1>9. HeldRows(mail)'
  BY <1>1, <1>3, <1>4, <1>7 DEF HeldRows
<1>10. OnePointing(mail)'
  <2>1. \A i \in DOMAIN mail : new[i].at.phase > 0 => new[i] = mail[i]
    BY <1>5, UnpointedPlace
  <2> QED
    BY <2>1, <1>1, <1>3, <1>7 DEF OnePointing
<1>11. PressedStays(mail, pressed)'
  <2>1. ASSUME NEW x \in pressed, x[1] \notin old
        PROVE  /\ x[1] \in DOMAIN new
               /\ owner[new[x[1]].box] = x[2]
               /\ term[x[2]].inc = x[3]
               /\ \/ new[x[1]].state # "new"
                  \/ new[x[1]].at = [phase |-> EnterAttempted, pty |-> x[2], inc |-> x[3]]
    <3>1. x[1] \in DOMAIN mail
      BY <1>3 DEF PressedStays
    <3>2. new[x[1]] = mail[x[1]]
      BY <3>1, <2>1, <1>5
    <3> QED
      BY <3>1, <3>2, <1>3, <1>7 DEF PressedStays
  <2> QED
    BY <2>1, <1>1 DEF PressedStays, EnterAttempted
<1>12. ASSUME NEW f \in Flights
       PROVE  JobOK(mail, job[f])' /\ TextTaken(mail, job[f], typed)'
  <2>1. JobOK(mail, job[f]) /\ TextTaken(mail, job[f], typed)
    BY <1>3
  <2>2. JobOK(mail, job[f])'
    BY <2>1, <1>1, <1>5, <1>7 DEF JobOK, Incs
  <2>3. TextTaken(mail, job[f], typed)'
    <3>1. job[f].msgs \subseteq DOMAIN mail
      BY <2>1 DEF JobOK
    <3>2. \A i \in job[f].msgs : new[i].state # "read" => i \notin old /\ new[i] = mail[i]
      BY <3>1, <1>5
    <3> QED
      BY <2>1, <3>2, <1>1 DEF TextTaken, Written
  <2> QED
    BY <2>2, <2>3
<1>13. Good(Now, pressed, typed)'
  BY <1>1, <1>2, <1>3, <1>8, <1>9, <1>10, <1>11, <1>12, Rebuilt
<1>14. OutsideTyped'
  BY <1>1, <1>2 DEF OutsideTyped, Incs, Inputs, Statuses, Shown
<1> QED
  BY <1>13, <1>14 DEF IInv

LEMMA StepsCheckEnds ==
  ASSUME IInv, NEW b \in Boxes, CheckEnds(b)
  PROVE  IInv'
PROOF
<1>1. /\ waiting' = waiting \ {b} /\ UNCHANGED pointers
      /\ UNCHANGED <<term, owner, held, restarts, typed, pressed>>
  BY DEF CheckEnds
<1>2. OutsideTyped /\ Good(Now, pressed, typed) /\ Become(Now)
  BY <1>1, Stays
<1>3. Good(Now, pressed, typed)'
  BY <1>1, <1>2, Became
<1>4. OutsideTyped'
  BY <1>1, <1>2 DEF OutsideTyped, Incs, Inputs, Statuses, Shown
<1> QED
  BY <1>3, <1>4 DEF IInv

LEMMA StepsMove ==
  ASSUME IInv, NEW b \in Boxes, NEW p \in Terms, Move(b, p)
  PROVE  IInv'
PROOF
<1>1. /\ owner' = [owner EXCEPT ![b] = p] /\ held' = [held EXCEPT ![b] = {}]
      /\ waiting' = waiting \ {b}
      /\ pressed' = {x \in pressed : mail[x[1]].box # b}
      /\ UNCHANGED <<term, restarts, typed>> /\ UNCHANGED pointers
  BY DEF Move
<1>2. OutsideTyped /\ Good(Now, pressed, typed)
  BY DEF IInv
<1>3. RowsOK(mail) /\ HeldRows(mail) /\ OnePointing(mail) /\ PressedStays(mail, pressed)
      /\ due \subseteq Boxes /\ \A f \in Flights : JobOK(mail, job[f]) /\ TextTaken(mail, job[f], typed)
  BY <1>2 DEF Good, Queued, Now
<1>4. UNCHANGED <<mail, flight, job, mark, parked, again, due>>
  BY <1>1 DEF pointers
<1>5. /\ owner' \in [Boxes -> Terms]
      /\ \A c \in Boxes : c # b => owner'[c] = owner[c]
  BY <1>1, <1>2 DEF OutsideTyped
<1>6. (RowsOK(mail) /\ OnePointing(mail))'
  BY <1>3, <1>4 DEF RowsOK, OnePointing, Sound, Row, Place, Incs
<1>7. HeldRows(mail)'
  BY <1>1, <1>3, <1>4 DEF HeldRows
<1>8. PressedStays(mail, pressed)'
  <2>1. ASSUME NEW x \in pressed, mail[x[1]].box # b
        PROVE  /\ x[1] \in DOMAIN mail
               /\ owner'[mail[x[1]].box] = x[2]
               /\ term[x[2]].inc = x[3]
               /\ \/ mail[x[1]].state # "new"
                  \/ mail[x[1]].at = [phase |-> EnterAttempted, pty |-> x[2], inc |-> x[3]]
    <3>1. /\ x[1] \in DOMAIN mail
          /\ owner[mail[x[1]].box] = x[2]
          /\ term[x[2]].inc = x[3]
          /\ \/ mail[x[1]].state # "new"
             \/ mail[x[1]].at = [phase |-> EnterAttempted, pty |-> x[2], inc |-> x[3]]
      BY <1>3 DEF PressedStays
    <3>2. mail[x[1]].box \in Boxes
      BY <1>3, <3>1, RowFields DEF RowsOK
    <3> QED
      BY <3>1, <3>2, <2>1, <1>5
  <2> QED
    BY <2>1, <1>1, <1>4 DEF PressedStays, EnterAttempted
<1>9. ASSUME NEW f \in Flights
      PROVE  JobOK(mail, job[f])' /\ TextTaken(mail, job[f], typed)'
  BY <1>1, <1>3, <1>4 DEF JobOK, TextTaken, Written, Incs
<1>10. Good(Now, pressed, typed)'
  BY <1>2, <1>3, <1>4, <1>6, <1>7, <1>8, <1>9, Rebuilt
<1>11. OutsideTyped'
  BY <1>1, <1>2, <1>5 DEF OutsideTyped, Incs, Inputs, Statuses, Shown
<1> QED
  BY <1>10, <1>11 DEF IInv
-----------------------------------------------------------------------------
(* No change of the pointer state but the one of PressEnter makes a         *)
(* delivery one that is entering.                                           *)

Calm(s, E) ==
  /\ Shape(s)
  /\ DOMAIN s.job = Flights
  /\ \A f \in Flights : "pc" \in DOMAIN s.job[f] /\ (s.job[f].pc = "entering" => f \in E)

LEMMA CalmSame ==
  ASSUME NEW E, NEW s, Calm(s, E), NEW t, Shape(t), t.job = s.job
  PROVE  Calm(t, E)
BY DEF Calm

LEMMA CalmJob ==
  ASSUME NEW E, NEW s, Calm(s, E), NEW f, NEW j,
         f \in Flights => "pc" \in DOMAIN j /\ j.pc # "entering",
         NEW t, Shape(t), t.job = [s.job EXCEPT ![f] = j]
  PROVE  Calm(t, E)
BY DEF Calm

LEMMA CalmRows ==
  ASSUME NEW E, NEW s, Calm(s, E), NEW I, NEW a
  PROVE  Calm(Point(s, I, a), E) /\ Calm(Undeliver(s, I), E) /\ Calm(Tell(s, I), E)
PROOF
<1>1. Shape(s)
  BY DEF Calm
<1>2. \A t : Shape(t) /\ t.job = s.job => Calm(t, E)
  BY CalmSame
<1>3. Calm(Point(s, I, a), E)
  BY <1>1, <1>2, NewMail DEF Point
<1>4. Calm(Undeliver(s, I), E)
  BY <1>1, <1>2, NewMail DEF Undeliver
<1>5. Calm(Tell(s, I), E)
  BY <1>1, <1>2, NewMail DEF Tell
<1> QED
  BY <1>3, <1>4, <1>5

LEMMA CalmMarks ==
  ASSUME NEW E, NEW s, Calm(s, E), NEW j
  PROVE  Calm(ClearMark(s, j), E) /\ Calm(DimMark(s, j), E)
PROOF
<1>1. \A ws : LET t == [s EXCEPT !.mark = ws] IN Shape(t) /\ t.job = s.job
  BY DEF Calm, Shape, Fields
<1>2. \A ws : Calm([s EXCEPT !.mark = ws], E)
  BY <1>1, CalmSame
<1>3. Calm(ClearMark(s, j), E)
  BY <1>2 DEF ClearMark
<1>4. Calm(DimMark(s, j), E)
  BY <1>2 DEF DimMark
<1> QED
  BY <1>3, <1>4

LEMMA CalmRedrive ==
  ASSUME NEW E, NEW s, Calm(s, E), NEW b, NEW force
  PROVE  Calm(Redrive(s, b, force), E)
PROOF
<1> DEFINE t == [s EXCEPT !.again = @ \ {b}, !.due = @ \cup {b}]
<1>1. Shape(t) /\ t.job = s.job
  BY DEF Calm, Shape, Fields
<1>2. Calm(t, E)
  BY <1>1, CalmSame
<1> QED
  BY <1>2 DEF Redrive

LEMMA CalmSubmit ==
  ASSUME NEW E, NEW s, Calm(s, E), NEW f
  PROVE  Calm(Submit(s, f), E)
PROOF
<1> DEFINE j == [s.job[f] EXCEPT !.pc = "probing", !.defer = FALSE, !.seen = FALSE,
                                 !.doubt = ~term[s.job[f].pty].alive]
           t == Submit(s, f)
<1>1. Shape(t) /\ DOMAIN t.job = Flights
  BY DEF Calm, Shape, Fields, Submit
<1>2. ASSUME NEW g \in Flights
      PROVE  t.job[g] = IF g = f THEN j ELSE s.job[g]
  BY DEF Calm, Shape, Fields, Submit
<1>3. f \in Flights => "pc" \in DOMAIN j /\ j.pc # "entering"
  BY DEF Calm
<1> HIDE DEF t, j
<1>4. Calm(t, E)
  BY <1>1, <1>2, <1>3 DEF Calm
<1> QED
  BY <1>4 DEF t

LEMMA CalmDeferred ==
  ASSUME NEW E, NEW s, Calm(s, E), NEW p
  PROVE  Calm(TakeDeferred(s, p), E) /\ Calm(Defer(s, p), E)
PROOF
<1> DEFINE f == s.flight[p]
           seen == [s.job[f] EXCEPT !.seen = TRUE]
           later == [s.job[f] EXCEPT !.pc = "deferred", !.defer = TRUE]
           busy == [s.job[f] EXCEPT !.defer = TRUE, !.seen = FALSE]
           t1 == [s EXCEPT !.job[f].seen = TRUE]
           t2 == [s EXCEPT !.job[f].pc = "deferred", !.job[f].defer = TRUE]
           t3 == [s EXCEPT !.job[f].defer = TRUE, !.job[f].seen = FALSE]
<1>1. \/ TakeDeferred(s, p) = s
      \/ s.job[f].pc = "writing" /\ TakeDeferred(s, p) = t1
      \/ TakeDeferred(s, p) = Submit(s, f)
  BY DEF TakeDeferred
<1>2. \/ Defer(s, p) = s
      \/ Defer(s, p) = t2
      \/ s.job[f].pc = "writing" /\ Defer(s, p) = t3
  BY DEF Defer
<1>3. Calm(Submit(s, f), E)
  BY CalmSubmit
<1>4. f \in Flights =>
        /\ "pc" \in DOMAIN seen /\ seen.pc = s.job[f].pc
        /\ "pc" \in DOMAIN later /\ later.pc = "deferred"
        /\ "pc" \in DOMAIN busy /\ busy.pc = s.job[f].pc
  BY DEF Calm
<1>5. /\ Shape(t1) /\ t1.job = [s.job EXCEPT ![f] = seen]
      /\ Shape(t2) /\ t2.job = [s.job EXCEPT ![f] = later]
      /\ Shape(t3) /\ t3.job = [s.job EXCEPT ![f] = busy]
  BY DEF Calm, Shape, Fields
<1> HIDE DEF t1, t2, t3, f, seen, later, busy
<1>6. s.job[f].pc = "writing" => Calm(t1, E) /\ Calm(t3, E)
  BY <1>4, <1>5, CalmJob
<1>7. Calm(t2, E)
  BY <1>4, <1>5, CalmJob
<1> QED
  BY <1>1, <1>2, <1>3, <1>6, <1>7

LEMMA CalmStage ==
  ASSUME NEW E, NEW s, Calm(s, E), NEW p, NEW b
  PROVE  Calm(Stage(s, p, b), E)
PROOF
<1> DEFINE new == Fresh(s, b)
           f == Min(Free(s))
           j == [NoJob EXCEPT !.pc = "writing", !.pty = p, !.box = b,
                              !.msgs = new, !.inc = term[p].inc]
           m == [pty |-> p, seq |-> Max(new), active |-> TRUE]
           u == [s EXCEPT !.flight[p] = f, !.job[f] = j, !.mark[b] = m]
           a == [phase |-> WriteAttempted, pty |-> p, inc |-> term[p].inc]
<1>1. Stage(s, p, b) = s \/ Stage(s, p, b) = Point(u, new, a)
  BY DEF Stage
<1>2. "pc" \in DOMAIN j /\ j.pc = "writing"
  BY DEF NoJob
<1> HIDE DEF j, m, f, new, a
<1>3. Shape(u) /\ u.job = [s.job EXCEPT ![f] = j]
  BY DEF Calm, Shape, Fields
<1> HIDE DEF u
<1>4. Calm(u, E)
  BY <1>2, <1>3, CalmJob
<1> QED
  BY <1>1, <1>4, CalmRows

LEMMA CalmDeliver ==
  ASSUME NEW E, NEW s, Calm(s, E), NEW p, NEW b
  PROVE  Calm(Deliver(s, p, b), E)
PROOF
<1> DEFINE behind == [s EXCEPT !.parked[p] = @ \cup {b}]
           later == [s EXCEPT !.again = @ \cup {b}]
<1>1. \/ Deliver(s, p, b) \in {s, later, TakeDeferred(behind, p)}
      \/ Deliver(s, p, b) = Resume(s, p, b)
  BY DEF Deliver
<1>2. Shape(behind) /\ behind.job = s.job /\ behind.flight = s.flight
      /\ Shape(later) /\ later.job = s.job
  BY DEF Calm, Shape, Fields
<1> HIDE DEF behind, later
<1>3. Calm(behind, E) /\ Calm(later, E)
  BY <1>2, CalmSame
<1>4. Calm(TakeDeferred(behind, p), E)
  BY <1>2, <1>3, CalmDeferred
<1>5. Calm(Resume(s, p, b), E)
  <2>1. \E I : \/ Resume(s, p, b) = Tell(s, I)
               \/ Resume(s, p, b) = Stage(Undeliver(s, I), p, b)
    BY DEF Resume
  <2>2. \A I : Calm(Tell(s, I), E) /\ Calm(Undeliver(s, I), E)
    BY CalmRows
  <2>3. \A I : Calm(Stage(Undeliver(s, I), p, b), E)
    BY <2>2, CalmStage
  <2> QED
    BY <2>1, <2>2, <2>3
<1> QED
  BY <1>1, <1>3, <1>4, <1>5

LEMMA CalmSettle ==
  ASSUME NEW E, NEW s, Calm(s, E), NEW f
  PROVE  Calm(Settle(s, f), E)
PROOF
<1> DEFINE p == s.job[f].pty
           over == [s EXCEPT !.job[f] = NoJob]
           mine == {b \in s.parked[p] : owner[b] = p}
           away == s.parked[p] \ mine
           open == [over EXCEPT !.flight[p] = 0, !.parked[p] = {},
                                !.again = @ \ away, !.due = @ \cup away]
<1>1. Settle(s, f) \in {over, open} \/ \E b : s.flight[p] = f /\ Settle(s, f) = Deliver(open, p, b)
  BY DEF Settle
<1>2. Shape(over) /\ over.job = [s.job EXCEPT ![f] = NoJob] /\ over.flight = s.flight
  BY DEF Calm, Shape, Fields
<1>3. "pc" \in DOMAIN NoJob /\ NoJob.pc = "none"
  BY DEF NoJob
<1> HIDE DEF over, mine, away
<1>4. Calm(over, E)
  BY <1>2, <1>3, CalmJob
<1>5. Shape(open) /\ open.job = over.job 
  BY <1>2 DEF Shape, Fields
<1> HIDE DEF open
<1>6. Calm(open, E)
  BY <1>4, <1>5, CalmSame
<1> QED
  BY <1>1, <1>2, <1>4, <1>5, <1>6, CalmDeliver
LEMMA CalmEnds ==
  ASSUME NEW E, NEW s, Calm(s, E), NEW f, NEW phase
  PROVE  /\ Calm(GiveBack(s, f, phase), E)
         /\ Calm(LetBe(s, f, phase), E)
         /\ Calm(Submitted(s, f), E)
         /\ Calm(LeaveOpen(s, f), E)
PROOF
<1>1. \A t : Calm(t, E) =>
        \A j, I, b, force :
          /\ Calm(Undeliver(t, I), E) /\ Calm(Tell(t, I), E)
          /\ Calm(ClearMark(t, j), E) /\ Calm(DimMark(t, j), E)
          /\ Calm(Redrive(t, b, force), E)
          /\ Calm(Settle(t, f), E)
  BY CalmRows, CalmMarks, CalmRedrive, CalmSettle
<1>2. Calm(GiveBack(s, f, phase), E)
  <2> DEFINE j == s.job[f]
             back == Undeliver(s, At(s, j.msgs, j.pty, j.inc, {phase}))
             done == Settle(ClearMark(back, j), f)
  <2>1. Calm(back, E)
    BY <1>1
  <2>2. Calm(ClearMark(back, j), E)
    BY <2>1, <1>1
  <2>3. Calm(done, E)
    BY <2>2, <1>1
  <2>4. GiveBack(s, f, phase) = done \/ GiveBack(s, f, phase) = Redrive(done, j.box, TRUE)
    BY DEF GiveBack
  <2> HIDE DEF done
  <2> QED
    BY <2>3, <2>4, <1>1
<1>3. ASSUME NEW ph
      PROVE  Calm(LetBe(s, f, ph), E)
  <2> DEFINE j == s.job[f]
             back == Tell(s, At(s, j.msgs, j.pty, j.inc, {ph}))
  <2>1. Calm(back, E)
    BY <1>1
  <2>2. Calm(ClearMark(back, j), E)
    BY <2>1, <1>1
  <2>3. LetBe(s, f, ph) = Settle(ClearMark(back, j), f)
    BY DEF LetBe
  <2> QED
    BY <2>2, <2>3, <1>1
<1>4. Calm(Submitted(s, f), E)
  BY <1>1, <1>3 DEF Submitted
<1>5. Calm(LeaveOpen(s, f), E)
  <2> DEFINE j == s.job[f]
             done == Settle(DimMark(s, j), f)
  <2>1. Calm(done, E)
    BY <1>1
  <2>2. LeaveOpen(s, f) = done \/ LeaveOpen(s, f) = Redrive(done, j.box, FALSE)
    BY DEF LeaveOpen
  <2> HIDE DEF done
  <2> QED
    BY <2>1, <2>2, <1>1
<1> QED
  BY <1>2, <1>3, <1>4, <1>5

LEMMA CalmRetire ==
  ASSUME NEW E, NEW s, Calm(s, E), NEW p
  PROVE  Calm(Retire(s, p), E)
PROOF
<1> DEFINE f == s.flight[p]
           rows == At(s, s.job[f].msgs, p, s.job[f].inc, {Reserved, WriteAttempted})
           gone == [s EXCEPT !.job[f] = NoJob]
           k == IF f # 0 /\ s.job[f].pc \in {"armed", "deferred"} THEN gone ELSE s
           g == IF f = 0 THEN k ELSE Undeliver(k, rows)
           h == [g EXCEPT !.flight[p] = 0, !.parked[p] = {}]
           freed == {b \in Boxes : s.mark[b] # None /\ s.mark[b].pty = p}
           m == [b \in Boxes |-> IF b \in freed THEN None ELSE s.mark[b]]
           r == [h EXCEPT !.mark = m, !.again = @ \ freed, !.due = @ \cup freed]
<1>1. Retire(s, p) = r
  BY DEF Retire, RetireFlight
<1>2. Shape(gone) /\ gone.job = [s.job EXCEPT ![f] = NoJob]
  BY DEF Calm, Shape, Fields
<1>3. "pc" \in DOMAIN NoJob /\ NoJob.pc = "none"
  BY DEF NoJob
<1> HIDE DEF gone, rows, freed, m
<1>4. Calm(gone, E)
  BY <1>2, <1>3, CalmJob
<1>5. Calm(k, E)
  BY <1>4
<1> HIDE DEF k
<1>6. Calm(g, E)
  BY <1>5, CalmRows
<1> HIDE DEF g
<1>7. Shape(h) /\ h.job = g.job
  BY <1>6 DEF Calm, Shape, Fields
<1> HIDE DEF h
<1>8. Shape(r) /\ r.job = h.job
  BY <1>7 DEF Shape, Fields
<1> HIDE DEF r
<1> QED
  BY <1>1, <1>6, <1>7, <1>8, CalmSame

LEMMA CalmAgentBusy ==
  ASSUME NEW E, NEW s, Calm(s, E), NEW p, NEW cold
  PROVE  Calm(AgentBusy(s, p, cold), E)
PROOF
<1> DEFINE r == Retire(s, p)
           sent == {i \in DOMAIN r.mail : r.mail[i].at.pty = p}
           kept == {i \in sent : r.mail[i].at.phase = Reserved}
           u == Undeliver(r, kept)
<1>1. AgentBusy(s, p, cold) \in {s, Defer(s, p), Tell(u, sent \ kept)}
  BY DEF AgentBusy
<1>2. Calm(r, E)
  BY CalmRetire
<1> HIDE DEF r, sent, kept
<1>3. Calm(u, E)
  BY <1>2, CalmRows
<1> HIDE DEF u
<1>4. Calm(Tell(u, sent \ kept), E)
  BY <1>3, CalmRows
<1>5. Calm(Defer(s, p), E)
  BY CalmDeferred
<1> QED
  BY <1>1, <1>4, <1>5

-----------------------------------------------------------------------------
(* Which step presses Enter *)

LEMMA OnlyPressEnter ==
  ASSUME IInv, [Next]_vars, NEW f \in Flights, Presses(f)
  PROVE  PressEnter(f)
PROOF
<1> DEFINE E == {g \in Flights : job[g].pc = "entering"}
<1>1. job[f].pc = "probing" /\ job'[f].pc = "entering" /\ f \notin E
  BY DEF Presses
<1>2. Calm(Now, E) /\ Now.job = job /\ Shape(Now)
  <2>1. Shape(Now) /\ Now.job = job
    BY DEF Shape, Fields, Now
  <2>2. job \in [Flights -> Job]
    BY <2>1 DEF IInv, Good, Deliveries
  <2>3. \A g \in Flights : "pc" \in DOMAIN job[g]
    BY <2>2 DEF Job
  <2> QED
    BY <2>1, <2>2, <2>3 DEF Calm
<1>3. ASSUME NEW s, Calm(s, E), Become(s)
      PROVE  FALSE
  BY <1>1, <1>3 DEF Calm, Become
<1>4. job' # job
  BY <1>1
<1> HIDE DEF E
<1>5. \A t : Calm(t, E) =>
        \A g, j, I, a, b, p, force, phase :
          /\ Calm(Undeliver(t, I), E) /\ Calm(Tell(t, I), E) /\ Calm(Point(t, I, a), E)
          /\ Calm(ClearMark(t, j), E) /\ Calm(DimMark(t, j), E)
          /\ Calm(Redrive(t, b, force), E)
          /\ Calm(Settle(t, g), E)
          /\ Calm(Submit(t, g), E)
          /\ Calm(GiveBack(t, g, phase), E) /\ Calm(LetBe(t, g, phase), E)
          /\ Calm(Submitted(t, g), E) /\ Calm(LeaveOpen(t, g), E)
  BY CalmRows, CalmMarks, CalmRedrive, CalmSettle, CalmSubmit, CalmEnds
<1>6. \A t : Calm(t, E) =>
        \A b, p, cold :
          /\ Calm(Deliver(t, p, b), E) /\ Calm(DeliverOwned(t, p), E)
          /\ Calm(TakeDeferred(t, p), E) /\ Calm(Defer(t, p), E)
          /\ Calm(AgentBusy(t, p, cold), E) /\ Calm(Retire(t, p), E)
  BY CalmDeliver, CalmDeferred, CalmAgentBusy, CalmRetire DEF DeliverOwned
<1>7. ASSUME NEW g \in Flights, NEW pc, pc # "entering",
             NEW t, Shape(t), t.job = [Now.job EXCEPT ![g].pc = pc]
      PROVE  Calm(t, E)
  BY <1>2, <1>7 DEF Calm
<1>8. ASSUME NEW g \in Flights, NEW o \in {"accepted", "refused", "unverifiable"}
      PROVE  ~WriteSettles(g, o) /\ ~EnterSettles(g, o)
  <2>1. ~WriteSettles(g, o)
    <3> SUFFICES ASSUME WriteSettles(g, o)
                 PROVE  FALSE
      OBVIOUS
    <3> DEFINE j == job[g]
               past == ClearMark(Now, j)
               back == Undeliver(past, j.msgs)
               told == Tell(past, j.msgs)
               on == [Now EXCEPT !.job[g].pc = IF j.defer THEN "deferred" ELSE "armed"]
    <3>1. \/ Become(Settle(Now, g)) \/ Become(Settle(DimMark(Now, j), g))
          \/ Become(Settle(Redrive(back, j.box, FALSE), g)) \/ Become(Settle(back, g))
          \/ Become(Settle(Redrive(past, j.box, FALSE), g)) \/ Become(Settle(past, g))
          \/ Become(Settle(Redrive(told, j.box, FALSE), g))
          \/ Become(Submit(Now, g)) \/ Become(on)
      BY DEF WriteSettles
    <3>2. Shape(on) /\ on.job = [Now.job EXCEPT ![g].pc = IF j.defer THEN "deferred" ELSE "armed"]
      BY <1>2 DEF Shape, Fields
    <3>3. Calm(on, E)
      BY <1>7, <3>2
    <3>4. Calm(past, E)
      BY <1>2, <1>5
    <3> HIDE DEF past, on, j
    <3>5. Calm(back, E) /\ Calm(told, E)
      BY <3>4, <1>5
    <3> HIDE DEF back, told
    <3>6. /\ Calm(Redrive(back, j.box, FALSE), E) /\ Calm(Redrive(past, j.box, FALSE), E)
          /\ Calm(Redrive(told, j.box, FALSE), E) /\ Calm(DimMark(Now, j), E)
      BY <1>2, <3>4, <3>5, <1>5
    <3>7. /\ Calm(Settle(Now, g), E) /\ Calm(Settle(DimMark(Now, j), g), E)
          /\ Calm(Settle(Redrive(back, j.box, FALSE), g), E) /\ Calm(Settle(back, g), E)
          /\ Calm(Settle(Redrive(past, j.box, FALSE), g), E) /\ Calm(Settle(past, g), E)
          /\ Calm(Settle(Redrive(told, j.box, FALSE), g), E)
          /\ Calm(Submit(Now, g), E)
      BY <1>2, <3>4, <3>5, <3>6, <1>5
    <3> QED
      BY <3>1, <3>3, <3>7, <1>3
  <2>2. ~EnterSettles(g, o)
    <3> SUFFICES ASSUME EnterSettles(g, o)
                 PROVE  FALSE
      OBVIOUS
    <3>1. \/ Become(Settle(Now, g)) \/ Become(Submitted(Now, g))
          \/ Become(LetBe(Now, g, EnterAttempted)) \/ Become(LeaveOpen(Now, g))
      BY DEF EnterSettles
    <3>2. /\ Calm(Settle(Now, g), E) /\ Calm(Submitted(Now, g), E)
          /\ Calm(LetBe(Now, g, EnterAttempted), E) /\ Calm(LeaveOpen(Now, g), E)
      BY <1>2, <1>5
    <3> QED
      BY <3>1, <3>2, <1>3
  <2> QED
    BY <2>1, <2>2
<1>9. ASSUME NEW g \in Flights
      PROVE  ~TimerFires(g) /\ ~WithholdEnter(g) /\ ~ProvenAbsent(g) /\ ~DropSuperseded(g)
  <2> DEFINE wait == [Now EXCEPT !.job[g].pc = "deferred", !.job[g].defer = TRUE]
  <2>1. /\ Calm(Submit(Now, g), E) /\ Calm(GiveBack(Now, g, WriteAttempted), E)
        /\ Calm(LetBe(Now, g, WriteAttempted), E) /\ Calm(LeaveOpen(Now, g), E)
        /\ Calm(Settle(Now, g), E)
    BY <1>2, <1>5
  <2>2. Calm(wait, E)
    <3> DEFINE k == [Now.job[g] EXCEPT !.pc = "deferred", !.defer = TRUE]
    <3>1. Shape(wait) /\ wait.job = [Now.job EXCEPT ![g] = k]
      BY <1>2 DEF Shape, Fields
    <3>2. "pc" \in DOMAIN k /\ k.pc = "deferred"
      BY <1>2 DEF Calm
    <3> HIDE DEF k, wait
    <3> QED
      BY <1>2, <3>1, <3>2, CalmJob
  <2>3. WithholdEnter(g) =>
          \/ Become(GiveBack(Now, g, WriteAttempted)) \/ Become(wait)
          \/ Become(LetBe(Now, g, WriteAttempted)) \/ Become(LeaveOpen(Now, g))
    BY DEF WithholdEnter
  <2> HIDE DEF wait
  <2> QED
    BY <2>1, <2>2, <2>3, <1>3 DEF TimerFires, ProvenAbsent, DropSuperseded
<1>10. ASSUME NEW b \in Boxes
       PROVE  ~DeliverDue(b) /\ ~Arrive(b) /\ ~CheckEnds(b)
  <2> DEFINE s == [Now EXCEPT !.due = @ \ {b}]
  <2>1. Shape(s) /\ s.job = Now.job
    BY <1>2 DEF Shape, Fields
  <2>2. DeliverDue(b) => Become(s) \/ Become(Deliver(s, owner[b], b))
    BY DEF DeliverDue
  <2> HIDE DEF s
  <2>3. Calm(s, E)
    BY <2>1, <1>2, CalmSame
  <2>4. Calm(Deliver(s, owner[b], b), E)
    BY <2>3, <1>6
  <2> QED
    BY <2>2, <2>3, <2>4, <1>3, <1>4 DEF Arrive, CheckEnds, pointers
<1>11. ASSUME NEW p \in Terms, NEW st \in Shown, NEW cold \in BOOLEAN
       PROVE  ~Title(p, st, cold)
  <2> DEFINE d == IF cold THEN Defer(Now, p) ELSE Now
             seen == CASE st \in {"working", "permission"} -> AgentBusy(Now, p, cold)
                       [] st = "idle" -> TakeDeferred(d, p)
                       [] st = "neutral" -> Now
  <2>1. Title(p, st, cold) => Become(seen) \/ Become(DeliverOwned(seen, p))
    BY DEF Title
  <2>2. Calm(d, E)
    BY <1>2, <1>6
  <2>3. seen = AgentBusy(Now, p, cold) \/ seen = TakeDeferred(d, p) \/ seen = Now
    BY DEF Shown
  <2> HIDE DEF d, seen
  <2>4. Calm(seen, E)
    BY <2>2, <2>3, <1>2, <1>6
  <2>5. Calm(DeliverOwned(seen, p), E)
    BY <2>4, <1>6
  <2> QED
    BY <2>1, <2>4, <2>5, <1>3
<1>12. ASSUME NEW p \in Terms
       PROVE  /\ ~Die(p) /\ ~Exit(p) /\ ~Respawn(p) /\ ~Reattach(p)
              /\ \A st \in {"idle", "working"} : ~StatusRestored(p, st)
  <2> DEFINE s == Retire(Now, p)
             t == [s EXCEPT !.due = @ \cup {b \in RunBoxes : owner[b] = p}]
  <2>1. Calm(s, E)
    BY <1>2, <1>6
  <2>2. Exit(p) => Become(t)
    BY DEF Exit
  <2> HIDE DEF s
  <2>3. Shape(t) /\ t.job = s.job
    BY <2>1 DEF Calm, Shape, Fields
  <2>4. Calm(t, E)
    BY <2>1, <2>3, CalmSame
  <2>5. Calm(DeliverOwned(Now, p), E)
    BY <1>2, <1>6
  <2> HIDE DEF t
  <2>6. ~Exit(p)
    BY <2>2, <2>4, <1>3
  <2>7. \A st \in {"idle", "working"} : ~StatusRestored(p, st)
    BY <1>2, <2>5, <1>3 DEF StatusRestored
  <2> QED
    BY <2>6, <2>7, <1>4 DEF Die, Respawn, Reattach, pointers
<1>13. \A b \in Boxes \cup {None} : ~Restart(b)
  <2>1. \A b \in Boxes \cup {None} : Restart(b) => job'[f] = NoJob
    BY DEF Restart
  <2> QED
    BY <2>1, <1>1 DEF NoJob
<1>14. \A b \in Boxes, w \in BOOLEAN : ~Check(b, w)
  BY <1>4 DEF Check
<1>15. \A b \in Boxes, p \in Terms : ~Move(b, p)
  BY <1>4 DEF Move, pointers
<1>16. \A g \in Flights : PressEnter(g) => g = f
  <2> SUFFICES ASSUME NEW g \in Flights, PressEnter(g), g # f
               PROVE  FALSE
    OBVIOUS
  <2> DEFINE a == [phase |-> EnterAttempted, pty |-> job[g].pty, inc |-> job[g].inc]
             t == Point(Now, job[g].msgs, a)
             u == [t EXCEPT !.job[g].pc = "entering"]
  <2>1. Become(u)
    BY DEF PressEnter
  <2>2. Calm(t, E)
    BY <1>2, <1>5
  <2> HIDE DEF t
  <2>3. u.job = [t.job EXCEPT ![g].pc = "entering"]
    BY <2>2 DEF Calm, Shape, Fields
  <2> HIDE DEF u
  <2>4. u.job[f].pc = t.job[f].pc
    BY <2>2, <2>3 DEF Calm
  <2> QED
    BY <2>1, <2>2, <2>4, <1>1 DEF Become, Calm
<1>17. ~UNCHANGED vars
  BY <1>4 DEF vars, pointers
<1> QED
  BY <1>8, <1>9, <1>10, <1>11, <1>12, <1>13, <1>14, <1>15, <1>16, <1>17 DEF Next, Step
-----------------------------------------------------------------------------
(* The theorems *)

LEMMA Starts ==
  ASSUME Init
  PROVE  IInv
PROOF
<1>1. /\ NoJob \in Job /\ NoJob.pc = "none" /\ NoJob.msgs = {}
      /\ 1 \in Incs
  BY PointerConstants DEF NoJob, Job, Incs
<1>2. OutsideTyped
  BY <1>1, PointerConstants DEF Init, OutsideTyped, Statuses, Shown
<1>3. Shape(Now) /\ Now.mail = <<>> /\ Now.flight = flight /\ Now.job = job /\ Now.mark = mark
      /\ Now.parked = parked /\ Now.again = again /\ Now.due = due
  BY DEF Init, Shape, Fields, Now
<1> HIDE DEF Now
<1>4. Queued(Now)
  BY <1>3 DEF Init, Queued
<1>5. RowsOK(<<>>) /\ DOMAIN <<>> = {}
  BY PointerConstants, EmptySeq DEF RowsOK
<1>6. HeldRows(<<>>) /\ OnePointing(<<>>) /\ PressedStays(<<>>, pressed)
  BY <1>5 DEF Init, HeldRows, OnePointing, PressedStays
<1>7. Deliveries(Now)
  BY <1>1, <1>3 DEF Init, Deliveries, FlightOK, MarkOK
<1>8. \A f \in Flights : JobOK(Now.mail, Now.job[f]) /\ TextTaken(Now.mail, Now.job[f], typed)
  BY <1>1, <1>3 DEF Init, JobOK, TextTaken, Written
<1>9. Good(Now, pressed, typed)
  BY <1>3, <1>4, <1>5, <1>6, <1>7, <1>8 DEF Good
<1> QED
  BY <1>2, <1>9 DEF IInv

LEMMA Unstirred ==
  ASSUME IInv, UNCHANGED vars
  PROVE  IInv'
PROOF
<1>1. UNCHANGED <<term, owner, held, waiting, restarts, typed, pressed>> /\ UNCHANGED pointers
  BY DEF vars
<1>2. OutsideTyped /\ Good(Now, pressed, typed) /\ Become(Now)
  BY <1>1, Stays
<1>3. Good(Now, pressed, typed)'
  BY <1>1, <1>2, Became
<1>4. OutsideTyped'
  BY <1>1, <1>2 DEF OutsideTyped, Incs, Inputs, Statuses, Shown
<1> QED
  BY <1>3, <1>4 DEF IInv

LEMMA Inductive ==
  ASSUME IInv, [Next]_vars
  PROVE  IInv'
PROOF
<1>1. CASE \E f \in Flights : Step(f)
  <2>1. PICK f \in Flights : Step(f)
    BY <1>1
  <2>2. CASE \E o \in {"accepted", "refused", "unverifiable"} : WriteSettles(f, o) \/ EnterSettles(f, o)
    BY <2>2, StepsWriteSettles, StepsEnterSettles
  <2>3. CASE TimerFires(f) \/ PressEnter(f) \/ WithholdEnter(f) \/ ProvenAbsent(f)
             \/ DropSuperseded(f)
    BY <2>3, StepsTimerFires, StepsPressEnter, StepsWithholdEnter, StepsProvenAbsent,
       StepsDropSuperseded
  <2> QED
    BY <2>1, <2>2, <2>3 DEF Step
<1>2. CASE \E b \in Boxes : DeliverDue(b) \/ Arrive(b) \/ CheckEnds(b)
  BY <1>2, StepsDeliverDue, StepsArrive, StepsCheckEnds
<1>3. CASE \E b \in Boxes, w \in BOOLEAN : Check(b, w)
  BY <1>3, StepsCheck
<1>4. CASE \E b \in Boxes, p \in Terms : Move(b, p)
  BY <1>4, StepsMove
<1>5. CASE \E p \in Terms, st \in Shown, cold \in BOOLEAN : Title(p, st, cold)
  BY <1>5, StepsTitle
<1>6. CASE \E p \in Terms, st \in {"idle", "working"} : StatusRestored(p, st)
  BY <1>6, StepsStatusRestored
<1>7. CASE \E p \in Terms : Die(p) \/ Exit(p) \/ Respawn(p) \/ Reattach(p)
  BY <1>7, StepsDie, StepsExit, StepsRespawn, StepsReattach
<1>8. CASE \E b \in Boxes \cup {None} : Restart(b)
  BY <1>8, StepsRestart
<1>9. CASE UNCHANGED vars
  BY <1>9, Unstirred
<1> QED
  BY <1>1, <1>2, <1>3, <1>4, <1>5, <1>6, <1>7, <1>8, <1>9 DEF Next

(* The rows reserved in a mailbox are reserved for one process, what an     *)
(* agent was sent Enter for stays marked as tried until it is read, a       *)
(* delivery past its write is of text its process has, and an active        *)
(* watermark is that of the delivery its terminal has in progress, whatever *)
(* answers are lost, processes replaced or restarts come between.           *)
THEOREM Invariance == Spec => []IInv
PROOF
<1>1. Init => IInv
  BY Starts
<1>2. IInv /\ [Next]_vars => IInv'
  BY Inductive
<1> QED
  BY <1>1, <1>2, PTL DEF Spec

(* Rows, deliveries, watermarks and parked mailboxes keep their types, and  *)
(* a reserved row is one not yet told or read.                              *)
THEOREM TypeCorrect == Spec => []TypeOK
PROOF
<1>1. IInv => TypeOK
  <2> SUFFICES ASSUME IInv
               PROVE  TypeOK
    OBVIOUS
  <2>1. OutsideTyped /\ Queued(Now) /\ RowsOK(mail) /\ HeldRows(mail)
        /\ flight \in [Terms -> {0} \cup Flights]
        /\ job \in [Flights -> Job]
        /\ mark \in [Boxes -> Marks \cup {None}]
        /\ \A f \in Flights : JobOK(mail, job[f])
    BY DEF IInv, Good, Deliveries, Now
  <2>2. parked \in [Terms -> SUBSET Boxes] /\ again \subseteq Boxes /\ due \subseteq Boxes
    BY <2>1 DEF Queued, Now
  <2>3. job \in [Flights -> [pc : {"none", "writing", "armed", "deferred", "probing", "entering"},
                             pty : Terms \cup {None}, box : Boxes \cup {None},
                             msgs : SUBSET DOMAIN mail, inc : {0} \cup Incs,
                             defer : BOOLEAN, seen : BOOLEAN, doubt : BOOLEAN]]
    BY <2>1 DEF Job, JobOK
  <2>4. Len(mail) <= MaxMail /\ \A i \in DOMAIN mail : Sound(mail[i])
    BY <2>1 DEF RowsOK
  <2>5. \A i \in DOMAIN mail :
          /\ mail[i] \in [box : Boxes, state : {"new", "told", "read"},
                          at : [phase : 0 .. 3, pty : Terms \cup {None}, inc : {0} \cup Incs]]
          /\ mail[i].at = Unpointed <=> mail[i].at.phase = 0
          /\ mail[i].at # Unpointed => mail[i].state = "new"
    BY <2>4 DEF Sound, Row, Place
  <2> QED
    BY <2>1, <2>2, <2>3, <2>4, <2>5 DEF TypeOK, OutsideTyped, HeldRows
<1> QED
  BY <1>1, Invariance, PTL

(* No mailbox stays parked behind a watermark that nobody will lift: an     *)
(* active one is of a delivery in progress, and of that mailbox.            *)
THEOREM NoMailboxParkedForEver == Spec => []NoLeakedWatermark
PROOF
<1>1. IInv => NoLeakedWatermark
  <2> SUFFICES ASSUME IInv, NEW b \in Boxes, mark[b] # None, mark[b].active
               PROVE  LET f == flight[mark[b].pty]
                      IN f # 0 /\ job[f].pc # "none" /\ job[f].box = b
    BY DEF NoLeakedWatermark
  <2>1. /\ mark \in [Boxes -> Marks \cup {None}]
        /\ \A p \in Terms : FlightOK(Now, p)
        /\ MarkOK(Now, b)
        /\ Now.flight = flight /\ Now.job = job /\ Now.mark = mark
    BY DEF IInv, Good, Deliveries, Now
  <2>2. mark[b].pty \in Terms
    BY <2>1 DEF Marks
  <2> QED
    BY <2>1, <2>2 DEF FlightOK, MarkOK
<1> QED
  BY <1>1, Invariance, PTL

(* Enter goes to the process that took the text of the pointer, never to    *)
(* one that replaced it under the same terminal id.                         *)
THEOREM EnterFollowsItsText == Spec => EnterFollowsText
PROOF
<1>1. ASSUME IInv, [Next]_vars, NEW f \in Flights, Presses(f)
      PROVE  \A i \in job[f].msgs : <<i, job[f].pty, term[job[f].pty].inc>> \in typed
  <2>1. PressEnter(f)
    BY <1>1, OnlyPressEnter
  <2>2. job[f].pc = "probing" /\ SameTarget(job[f]) /\ ~Superseded(job[f])
    BY <2>1 DEF PressEnter
  <2>3. TextTaken(mail, job[f], typed)
    BY <1>1 DEF IInv, Good, Now
  <2>4. \A i \in job[f].msgs : mail[i].state # "read"
    BY <2>2 DEF Superseded, Unread, Now
  <2> QED
    BY <2>2, <2>3, <2>4 DEF TextTaken, Written, SameTarget
<1>2. IInv /\ [Next]_vars =>
        [\A f \in Flights : Presses(f) =>
           \A i \in job[f].msgs : <<i, job[f].pty, term[job[f].pty].inc>> \in typed]_vars
  BY <1>1
<1> QED
  BY <1>2, Invariance, PTL DEF Spec, EnterFollowsText

(* While an agent keeps its role, Enter is pressed once for each message,   *)
(* whatever deliveries are superseded or answers lost.                      *)
THEOREM EnterIsNotRepeated == Spec => EnterPressedOnce
PROOF
<1>1. ASSUME IInv, [Next]_vars, NEW f \in Flights, Presses(f)
      PROVE  \A i \in job[f].msgs : <<i, job[f].pty, term[job[f].pty].inc>> \notin pressed
  <2>1. PressEnter(f)
    BY <1>1, OnlyPressEnter
  <2>2. At(Now, job[f].msgs, job[f].pty, job[f].inc, {WriteAttempted}) = job[f].msgs
    BY <2>1 DEF PressEnter
  <2>3. \A i \in job[f].msgs : Now.mail[i].at.phase = WriteAttempted
    BY <2>2 DEF At
  <2>4. Good(Now, pressed, typed)
    BY <1>1 DEF IInv
  <2>5. \A x \in pressed : x[1] \notin job[f].msgs
    BY <2>3, <2>4, NotPressed
  <2> QED
    BY <2>5
<1>2. IInv /\ [Next]_vars =>
        [\A f \in Flights : Presses(f) =>
           \A i \in job[f].msgs : <<i, job[f].pty, term[job[f].pty].inc>> \notin pressed]_vars
  BY <1>1
<1> QED
  BY <1>2, Invariance, PTL DEF Spec, EnterPressedOnce

(* Text and Enter meet in one process, and Enter comes once.                *)
THEOREM TextAndEnterMeet == Spec => EnterMatchesText
BY EnterFollowsItsText, EnterIsNotRepeated DEF EnterMatchesText
=============================================================================
