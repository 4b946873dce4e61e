------------------------ MODULE WorkerTerminalProofs ------------------------
(* Proofs about the custody of workers' terminals: what a release and a     *)
(* stop close, what is archived before, and what is recorded as released,   *)
(* for any dispatches, panes and bounds.                                    *)
EXTENDS WorkerTerminal, TLAPS

-----------------------------------------------------------------------------
(* The inductive invariant *)

IsRow(r) == row[r].own # "none"

(* Processes are counted from 1, and a row names an owner and a process     *)
(* that its pane has had.                                                   *)
RowsNamed ==
  /\ \A p \in Panes : term[p].alive => term[p].inc # 0
  /\ \A r \in Dispatches : IsRow(r) =>
       /\ row[r].owner \in Dispatches
       /\ row[r].pane \in Panes
       /\ row[r].proc \in 1 .. term[row[r].pane].inc

(* A dispatch creates its row while it starts, and has no other. *)
Slots ==
  \A d \in Dispatches :
    /\ worker[d].state # "absent" => worker[d].pane \in Panes
    /\ worker[d].state = "absent" =>
         /\ worker[d].proc = 0
         /\ boot[d] = 0
         /\ ~IsRow(d)
         /\ \A r \in Dispatches : IsRow(r) => row[r].owner # d
    /\ worker[d].state = "starting" => ~IsRow(d) \/ row[d].owner = d

RowsApart ==
  \A r, s \in Dispatches :
    IsRow(r) /\ IsRow(s) /\ row[r].owner = row[s].owner => r = s

(* A row and the dispatch that owns it name the same process, also while    *)
(* the start that will bind it waits for the agent.                         *)
OwnerMatches ==
  \A r \in Dispatches : IsRow(r) =>
    LET d == row[r].owner
    IN /\ worker[d].pane = row[r].pane
       /\ worker[d].proc \in {0, row[r].proc}
       /\ boot[d] \in {0, row[r].proc}

(* Only a settled worker's own terminal comes under release. *)
ReleaseSettled ==
  \A r \in Dispatches :
    /\ row[r].release \in Pending =>
         /\ row[r].own = "owned"
         /\ row[r].reason = None
         /\ worker[row[r].owner].state = "settled"
    /\ row[r].own = "released" => worker[row[r].owner].state \in Settled

(* A release job runs for a settled dispatch; once the release is           *)
(* committed, for the owner, whose process it closes.                       *)
JobsMatch ==
  \A r \in Dispatches : job[r].step # "none" =>
    /\ job[r].by \in Dispatches
    /\ worker[job[r].by].state = "settled"
    /\ row[r].release = "releasing" => job[r].by = row[r].owner
    /\ job[r].step = "close" =>
         /\ job[r].by = row[r].owner
         /\ row[r].release \in {"releasing", "released"}
         /\ worker[job[r].by].pane = row[r].pane
         /\ worker[job[r].by].proc = row[r].proc

(* A dispatch that works in a terminal is the only one bound to the pane    *)
(* and has a row on its process.                                            *)
BoundAlone ==
  \A d, e \in Dispatches :
    Bound(d) /\ Bound(e) /\ worker[d].pane = worker[e].pane => d = e

BoundOwns ==
  \A d \in Dispatches : Bound(d) =>
    \E r \in Dispatches : /\ IsRow(r)
                          /\ row[r].owner = d
                          /\ row[r].proc = worker[d].proc

(* What the user has taken over is owned by no dispatch any more. *)
TakenLost ==
  /\ \A p \in Panes, n \in Nat : <<p, n>> \in taken => n <= term[p].inc
  /\ \A r \in Dispatches : row[r].own = "owned" => <<row[r].pane, row[r].proc>> \notin taken

Kept ==
  \A r \in Dispatches :
    IsRow(r) /\ (row[r].release = "releasing" \/ job[r].step = "close")
      => archive[row[r].owner] = r

Gone ==
  \A r \in Dispatches : row[r].own = "released" => ~Running(row[r].pane, row[r].proc)

Custody ==
  /\ RowsNamed
  /\ Slots
  /\ RowsApart
  /\ OwnerMatches
  /\ ReleaseSettled
  /\ JobsMatch
  /\ BoundAlone
  /\ BoundOwns
  /\ TakenLost
  /\ Kept
  /\ Gone

IInv == TypeOK /\ Custody

-----------------------------------------------------------------------------
(* Types *)

TermRec == [inc: 0 .. MaxInc, alive: BOOLEAN, known: BOOLEAN]
WorkerRec == [state: {"absent"} \cup Active \cup Settled,
              pane: Panes \cup {None}, proc: 0 .. MaxInc]
Owns == {"none", "owned", "user_owned", "external", "released"}
Releases == {"not_requested", "retained", "released"} \cup Pending
Reasons == {None, "user_takeover", "user_requested", "identity_unproven", "external_terminal"}
RowRec == [own: Owns, release: Releases, reason: Reasons,
           owner: Dispatches \cup {None}, former: SUBSET Dispatches,
           pane: Panes \cup {None}, proc: 0 .. MaxInc]
JobRec == [step: {"none", "inspect", "probe", "capture", "close"},
           by: Dispatches \cup {None}, recovery: BOOLEAN]

RowsTyped ==
  /\ row \in [Dispatches -> RowRec]
  /\ \A r \in Dispatches : row[r].own = "released" <=> row[r].release = "released"

(* TypeOK, with names for the records. *)
Typed ==
  /\ term \in [Panes -> TermRec]
  /\ worker \in [Dispatches -> WorkerRec]
  /\ RowsTyped
  /\ archive \in [Dispatches -> Dispatches \cup {None}]
  /\ job \in [Dispatches -> JobRec]
  /\ asked \in [Dispatches -> Dispatches \cup {None}]
  /\ boot \in [Dispatches -> 0 .. MaxInc]
  /\ stopper \in [Dispatches -> {"none", "inspect", "close"}]
  /\ taken \subseteq Panes \X (1 .. MaxInc)
  /\ restarts \in 0 .. MaxRestarts

LEMMA TypedIff == TypeOK <=> Typed
BY DEF TypeOK, Typed, TermRec, WorkerRec, RowsTyped, RowRec, JobRec, Owns, Releases, Reasons

LEMMA TypedNext == TypeOK' <=> Typed'
BY DEF TypeOK, Typed, TermRec, WorkerRec, RowsTyped, RowRec, JobRec, Owns, Releases, Reasons

(* What a change of state leaves alone. *)
LEMMA WorkerUpdate ==
  ASSUME NEW w \in WorkerRec, NEW state \in {"absent"} \cup Active \cup Settled,
         NEW v, v = [w EXCEPT !.state = state]
  PROVE v \in WorkerRec /\ v.state = state /\ v.pane = w.pane /\ v.proc = w.proc
BY DEF WorkerRec

(* The updates of a row, and what they leave alone. *)
Update(v, w, own, release, reason) ==
  \/ v = [w EXCEPT !.own = own, !.release = release, !.reason = reason]
  \/ v = [w EXCEPT !.release = release, !.reason = reason] /\ own = w.own
  \/ v = [w EXCEPT !.release = release] /\ own = w.own /\ reason = w.reason

LEMMA RowUpdate ==
  ASSUME NEW w \in RowRec, NEW own \in Owns, NEW release \in Releases, NEW reason \in Reasons,
         NEW v, Update(v, w, own, release, reason)
  PROVE /\ v \in RowRec
        /\ v.own = own /\ v.release = release /\ v.reason = reason
        /\ v.owner = w.owner /\ v.pane = w.pane /\ v.proc = w.proc /\ v.former = w.former
BY DEF RowRec, Update

(* A row is as it was but for these three columns. *)
Written(r, own, release, reason) ==
  /\ row'[r].own = own
  /\ row'[r].release = release
  /\ row'[r].reason = reason
  /\ row'[r].owner = row[r].owner
  /\ row'[r].former = row[r].former
  /\ row'[r].pane = row[r].pane
  /\ row'[r].proc = row[r].proc

Others(r) == \A x \in Dispatches \ {r} : row'[x] = row[x]

(* No process comes back, and the processes of a pane are counted up. *)
TermsGrow ==
  \A p \in Panes :
    /\ term'[p].inc \in Nat
    /\ term[p].inc <= term'[p].inc
    /\ \A n \in 0 .. term[p].inc : Running(p, n)' => Running(p, n)

-----------------------------------------------------------------------------
(* Steps that keep the identities of rows and workers *)

KeepsIdentity ==
  /\ worker' = worker
  /\ \A d \in Dispatches : boot'[d] \in {boot[d], 0}
  /\ TermsGrow
  /\ \A r \in Dispatches :
       /\ IsRow(r)' <=> IsRow(r)
       /\ row'[r].owner = row[r].owner
       /\ row'[r].pane = row[r].pane
       /\ row'[r].proc = row[r].proc

Identities ==
  /\ RowsNamed
  /\ Slots
  /\ RowsApart
  /\ OwnerMatches
  /\ BoundAlone
  /\ BoundOwns

LEMMA IdentitiesKept ==
  ASSUME IInv, KeepsIdentity
  PROVE Identities'
<1>. USE TypedIff DEF IInv, Custody, KeepsIdentity
<1>1. \A p \in Panes : term[p].inc \in Nat
  BY DEF Typed, TermRec
<1>2. RowsNamed' BY <1>1 DEF RowsNamed, TermsGrow, Running
<1>3. Slots' BY DEF Slots
<1>4. RowsApart' BY DEF RowsApart
<1>5. OwnerMatches' BY DEF OwnerMatches, RowsNamed
<1>6. BoundAlone' BY DEF BoundAlone, Bound
<1>7. BoundOwns' BY DEF BoundOwns, Bound
<1>. QED BY <1>2, <1>3, <1>4, <1>5, <1>6, <1>7 DEF Identities

(* Workers are moved on, without a change of their terminals or of any row; *)
(* handlers may be forgotten.                                               *)
WorkersMove ==
  /\ \A d \in Dispatches :
       \/ worker'[d] = worker[d]
       \/ /\ worker[d].state \in Active
          /\ worker'[d].state \in {"working", "stopping", "stop_unknown"} \cup Settled
          /\ worker'[d].pane = worker[d].pane
          /\ worker'[d].proc = worker[d].proc
  /\ \A d \in Dispatches : boot'[d] \in {boot[d], 0}
  /\ \A r \in Dispatches : job'[r] \in {job[r], NoJob}
  /\ TermsGrow
  /\ UNCHANGED <<row, archive, taken>>

LEMMA CustodyKept ==
  ASSUME IInv, WorkersMove
  PROVE Custody'
<1>. USE TypedIff DEF IInv, Custody, WorkersMove, Active, Settled
<1>1. \A p \in Panes : term[p].inc \in Nat
  BY DEF Typed, TermRec
<1>2. RowsNamed' BY <1>1 DEF RowsNamed, TermsGrow, IsRow, Running
<1>3. Slots' BY DEF Slots, IsRow
<1>4. RowsApart' BY DEF RowsApart, IsRow
<1>5. OwnerMatches' BY DEF OwnerMatches, RowsNamed, IsRow
<1>6. ReleaseSettled' BY DEF ReleaseSettled, RowsNamed, IsRow
<1>7. JobsMatch' BY DEF JobsMatch, NoJob
<1>8. BoundAlone' BY DEF BoundAlone, Bound
<1>9. BoundOwns' BY DEF BoundOwns, Bound, IsRow
<1>10. TakenLost' BY <1>1 DEF TakenLost, TermsGrow
<1>11. Kept' BY DEF Kept, IsRow, NoJob
<1>12. Gone' BY <1>1 DEF Gone, TermsGrow, RowsNamed, IsRow
<1>. QED
  BY <1>2, <1>3, <1>4, <1>5, <1>6, <1>7, <1>8, <1>9, <1>10, <1>11, <1>12

(* A kill that has been tried. *)
LEMMA KillKeeps ==
  ASSUME Typed, NEW p, NEW n, term' \in {term, Killed(p, n)}
  PROVE term' \in [Panes -> TermRec] /\ TermsGrow
<1>1. \A q \in Panes :
        \/ term'[q] = term[q]
        \/ term'[q] = [term[q] EXCEPT !.alive = FALSE]
  BY DEF Killed, Typed
<1>2. \A q \in Panes :
        /\ term'[q] \in TermRec
        /\ term'[q].inc = term[q].inc
        /\ term'[q].alive => term[q].alive
  BY <1>1 DEF Typed, TermRec
<1>3. term' = [q \in Panes |-> term'[q]]
  BY DEF Killed, Typed
<1>4. term' \in [Panes -> TermRec]
  BY <1>2, <1>3
<1>. QED BY <1>2, <1>4 DEF TermsGrow, Running, Typed, TermRec

LEMMA RestartKeeps ==
  ASSUME IInv, Restart PROVE TypeOK' /\ Custody'
<1>1. term' \in [Panes -> TermRec]
  BY TypedIff DEF IInv, Restart, Typed, TermRec
<1>2. NoJob \in JobRec
  BY DEF NoJob, JobRec
<1>3. Typed'
  BY <1>1, <1>2, TypedIff, CustodyConstants DEF IInv, Restart, Typed, RowsTyped
<1>4. WorkersMove
  BY TypedIff DEF IInv, Restart, WorkersMove, TermsGrow, Running, Typed, TermRec, JobRec
<1>. QED BY <1>3, <1>4, TypedNext, CustodyKept

LEMMA TerminalsKeep ==
  ASSUME IInv, NEW p \in Panes,
         OpenTerminal(p) \/ Discover(p) \/ Exit(p)
  PROVE TypeOK' /\ Custody'
<1>. USE TypedIff, CustodyConstants DEF IInv
<1>1. CASE OpenTerminal(p)
  <2>1. Typed' BY <1>1 DEF OpenTerminal, Spawned, Typed, RowsTyped, TermRec
  <2>2. WorkersMove
    BY <1>1 DEF OpenTerminal, Spawned, WorkersMove, TermsGrow, Running, Typed, TermRec
  <2>. QED BY <2>1, <2>2, TypedNext, CustodyKept
<1>2. CASE Discover(p)
  <2>1. Typed' BY <1>2 DEF Discover, Typed, RowsTyped, TermRec
  <2>2. WorkersMove
    BY <1>2 DEF Discover, WorkersMove, TermsGrow, Running, Typed, TermRec
  <2>. QED BY <2>1, <2>2, TypedNext, CustodyKept
<1>3. CASE Exit(p)
  <2>1. PICK known \in {term[p].known, FALSE} :
          term' = [term EXCEPT ![p] = [@ EXCEPT !.alive = FALSE, !.known = known]]
    BY <1>3 DEF Exit
  <2>2. [term[p] EXCEPT !.alive = FALSE, !.known = known] \in TermRec
    BY DEF Typed, TermRec
  <2>3. term' \in [Panes -> TermRec] BY <2>1, <2>2 DEF Typed
  <2>4. TermsGrow BY <2>1 DEF TermsGrow, Running, Typed, TermRec
  <2>5. \A d \in Dispatches :
          \/ worker'[d] = worker[d]
          \/ /\ worker[d].state \in Active
             /\ worker'[d] \in WorkerRec
             /\ worker'[d].state \in Settled
             /\ worker'[d].pane = worker[d].pane
             /\ worker'[d].proc = worker[d].proc
    <3>1. \A d \in Dispatches :
            \/ worker'[d] = worker[d]
            \/ /\ worker[d].state \in Active
               /\ \E state \in Settled : worker'[d] = [worker[d] EXCEPT !.state = state]
      BY <1>3 DEF Exit, Typed, Bound, Settled
    <3>2. \A d \in Dispatches : worker[d] \in WorkerRec BY DEF Typed
    <3>3. ASSUME NEW d \in Dispatches, NEW state \in Settled,
                 worker'[d] = [worker[d] EXCEPT !.state = state]
          PROVE /\ worker'[d] \in WorkerRec
                /\ worker'[d].state = state
                /\ worker'[d].pane = worker[d].pane
                /\ worker'[d].proc = worker[d].proc
      BY <3>2, <3>3, WorkerUpdate
    <3>. QED BY <3>1, <3>3
  <2>6. worker' \in [Dispatches -> WorkerRec]
    <3>1. worker' = [d \in Dispatches |-> worker'[d]] BY <1>3 DEF Exit, Typed
    <3>2. \A d \in Dispatches : worker'[d] \in WorkerRec BY <2>5 DEF Typed
    <3>. QED BY <3>1, <3>2
  <2>7. Typed' BY <1>3, <2>3, <2>6 DEF Exit, Typed, RowsTyped
  <2>8. WorkersMove
    BY <1>3, <2>4, <2>5 DEF Exit, WorkersMove
  <2>. QED BY <2>7, <2>8, TypedNext, CustodyKept
<1>. QED BY <1>1, <1>2, <1>3

LEMMA WorkersKeep ==
  ASSUME IInv, NEW d \in Dispatches,
         \/ \E state \in Settled : FinishWorker(d, state)
         \/ BeginStop(d)
         \/ InspectStop(d)
         \/ CloseStopped(d)
         \/ DeclineRelease(d)
  PROVE TypeOK' /\ Custody'
<1>. USE TypedIff DEF IInv
<1>1. ASSUME NEW state \in Settled, FinishWorker(d, state) PROVE TypeOK' /\ Custody'
  <2>1. Typed' BY <1>1 DEF FinishWorker, Typed, RowsTyped, WorkerRec
  <2>2. WorkersMove
    BY <1>1 DEF FinishWorker, WorkersMove, TermsGrow, Running, Typed, TermRec, WorkerRec, Active
  <2>. QED BY <2>1, <2>2, TypedNext, CustodyKept
<1>2. CASE BeginStop(d)
  <2>1. Typed' BY <1>2 DEF BeginStop, Typed, RowsTyped, WorkerRec, Active
  <2>2. WorkersMove
    BY <1>2 DEF BeginStop, WorkersMove, TermsGrow, Running, Typed, TermRec, WorkerRec
  <2>. QED BY <2>1, <2>2, TypedNext, CustodyKept
<1>3. CASE InspectStop(d)
  <2>1. worker' \in [Dispatches -> WorkerRec]
    <3>1. worker' = worker \/ worker' = [worker EXCEPT ![d] = [@ EXCEPT !.state = "stop_unknown"]]
      BY <1>3 DEF InspectStop
    <3>2. [worker[d] EXCEPT !.state = "stop_unknown"] \in WorkerRec
      BY DEF Typed, WorkerRec, Active
    <3>. QED BY <3>1, <3>2 DEF Typed
  <2>2. Typed' BY <1>3, <2>1 DEF InspectStop, Typed, RowsTyped
  <2>3. \A e \in Dispatches :
          \/ worker'[e] = worker[e]
          \/ /\ worker[e].state = "stopping" /\ worker'[e].state = "stop_unknown"
             /\ worker'[e].pane = worker[e].pane /\ worker'[e].proc = worker[e].proc
    BY <1>3 DEF InspectStop, Typed, WorkerRec
  <2>4. WorkersMove
    BY <1>3, <2>3 DEF InspectStop, WorkersMove, TermsGrow, Running, Typed, TermRec, Active
  <2>. QED BY <2>2, <2>4, TypedNext, CustodyKept
<1>4. CASE CloseStopped(d)
  <2>1. term' \in {term, Killed(worker[d].pane, worker[d].proc)} BY <1>4 DEF CloseStopped
  <2>2. term' \in [Panes -> TermRec] /\ TermsGrow
    BY <2>1, KillKeeps
  <2>3. worker' \in [Dispatches -> WorkerRec]
    <3>1. worker' = worker \/ \E s \in {"stopped", "stop_unknown"} :
                                worker' = [worker EXCEPT ![d] = [@ EXCEPT !.state = s]]
      BY <1>4 DEF CloseStopped
    <3>2. \A s \in {"stopped", "stop_unknown"} : [worker[d] EXCEPT !.state = s] \in WorkerRec
      BY DEF Typed, WorkerRec, Active, Settled
    <3>. QED BY <3>1, <3>2 DEF Typed
  <2>4. Typed' BY <1>4, <2>2, <2>3 DEF CloseStopped, Typed, RowsTyped
  <2>5. \A e \in Dispatches :
          \/ worker'[e] = worker[e]
          \/ /\ worker[e].state = "stopping" /\ worker'[e].state \in {"stopped", "stop_unknown"}
             /\ worker'[e].pane = worker[e].pane /\ worker'[e].proc = worker[e].proc
    BY <1>4 DEF CloseStopped, Typed, WorkerRec
  <2>6. WorkersMove
    BY <1>4, <2>2, <2>5 DEF CloseStopped, WorkersMove, Active, Settled
  <2>. QED BY <2>4, <2>6, TypedNext, CustodyKept
<1>5. CASE DeclineRelease(d)
  <2>1. Typed' BY <1>5 DEF DeclineRelease, Rows, Typed, RowsTyped
  <2>2. WorkersMove
    BY <1>5 DEF DeclineRelease, WorkersMove, TermsGrow, Running, Typed, TermRec
  <2>. QED BY <2>1, <2>2, TypedNext, CustodyKept
<1>. QED BY <1>1, <1>2, <1>3, <1>4, <1>5

-----------------------------------------------------------------------------
(* Steps that write one row *)

LEMMA OneRow ==
  ASSUME Typed, NEW r \in Dispatches, NEW own \in Owns, NEW release \in Releases,
         NEW reason \in Reasons, own = "released" <=> release = "released",
         NEW v, row' = [row EXCEPT ![r] = v],
         Update(v, row[r], own, release, reason)
  PROVE RowsTyped' /\ Written(r, own, release, reason) /\ Others(r)
<1>1. row[r] \in RowRec
  BY DEF Typed, RowsTyped
<1>2. /\ v \in RowRec
      /\ v.own = own /\ v.release = release /\ v.reason = reason
      /\ v.owner = row[r].owner /\ v.pane = row[r].pane
      /\ v.proc = row[r].proc /\ v.former = row[r].former
  BY <1>1, RowUpdate
<1>3. row'[r] = v /\ Others(r)
  BY DEF Typed, RowsTyped, Others
<1>4. RowsTyped'
  BY <1>2, <1>3 DEF Typed, RowsTyped, Others
<1>. QED BY <1>2, <1>3, <1>4 DEF Written

LEMMA OneRowIdentities ==
  ASSUME IInv, NEW r \in Dispatches, NEW own, NEW release, NEW reason,
         IsRow(r), own # "none", Written(r, own, release, reason), Others(r),
         worker' = worker, boot' = boot, TermsGrow
  PROVE Identities'
<1>1. KeepsIdentity
  BY DEF KeepsIdentity, Written, Others, IsRow
<1>. QED BY <1>1, IdentitiesKept

(* A terminal found or made dead is released. *)
LEMMA ReleasedKeeps ==
  ASSUME IInv, NEW r \in Dispatches,
         IsRow(r), worker[row[r].owner].state \in Settled,
         ~Running(row[r].pane, row[r].proc)',
         Written(r, "released", "released", None), Others(r),
         TermsGrow, UNCHANGED <<worker, boot, taken, archive>>,
         \A x \in Dispatches : job'[x] \in {job[x], NoJob}
  PROVE Custody'
<1>. USE TypedIff DEF IInv, Custody
<1>1. Identities' BY OneRowIdentities
<1>2. \A p \in Panes : term[p].inc \in Nat BY DEF Typed, TermRec
<1>3. ReleaseSettled' BY DEF ReleaseSettled, Written, Others, Pending
<1>4. JobsMatch' BY DEF JobsMatch, Written, Others, NoJob
<1>5. TakenLost' BY <1>2 DEF TakenLost, Written, Others, TermsGrow
<1>6. Kept' BY DEF Kept, Written, Others, NoJob, IsRow
<1>7. Gone' BY <1>2 DEF Gone, Written, Others, TermsGrow, RowsNamed, IsRow
<1>. QED BY <1>1, <1>3, <1>4, <1>5, <1>6, <1>7 DEF Identities

(* A release is called back, or in doubt, and its job is over. *)
LEMMA CalledBackKeeps ==
  ASSUME IInv, NEW r \in Dispatches, row[r].release \in Pending,
         NEW release \in {"retained", "unknown"}, NEW reason,
         release = "unknown" => reason = None,
         Written(r, row[r].own, release, reason), Others(r),
         TermsGrow, UNCHANGED <<worker, boot, taken>>,
         job' = [job EXCEPT ![r] = NoJob],
         \A x \in Dispatches : archive'[x] = archive[x] \/ x = row[r].owner
  PROVE Custody'
<1>. USE TypedIff DEF IInv, Custody
<1>1. IsRow(r) /\ row[r].own = "owned" /\ worker[row[r].owner].state = "settled"
  BY DEF ReleaseSettled, IsRow
<1>2. Identities' BY <1>1, OneRowIdentities
<1>3. \A p \in Panes : term[p].inc \in Nat BY DEF Typed, TermRec
<1>4. job'[r].step = "none" /\ \A x \in Dispatches \ {r} : job'[x] = job[x]
  BY DEF Typed, NoJob
<1>5. ReleaseSettled' BY <1>1 DEF ReleaseSettled, Written, Others, Pending, Settled
<1>6. JobsMatch' BY <1>4 DEF JobsMatch, Written, Others
<1>7. TakenLost' BY <1>3 DEF TakenLost, Written, Others, TermsGrow
<1>8. Kept' BY <1>1, <1>4 DEF Kept, Written, Others, IsRow, RowsApart, RowsNamed
<1>9. Gone' BY <1>1, <1>3 DEF Gone, Written, Others, TermsGrow, RowsNamed, IsRow
<1>. QED BY <1>2, <1>5, <1>6, <1>7, <1>8, <1>9 DEF Identities

-----------------------------------------------------------------------------
(* Asking for a release, or against it *)

(* A process proved gone. *)
LEMMA DeadSettled ==
  ASSUME IInv, NEW d \in Dispatches, NEW r \in Dispatches, SettleDead(d, r)
  PROVE /\ RowsTyped'
        /\ \/ row' = row
           \/ /\ IsRow(r)
              /\ worker[row[r].owner].state \in Settled
              /\ ~Running(row[r].pane, row[r].proc)
              /\ Written(r, "released", "released", None)
              /\ Others(r)
<1>. USE TypedIff DEF IInv
<1>1. CASE row' = row
  BY <1>1 DEF Typed, RowsTyped
<1>2. CASE /\ ~Running(row[r].pane, row[r].proc)
           /\ MaySettleDead(d, r)
           /\ row' = [row EXCEPT ![r] = ReleasedRow(r)]
  <2>1. Update(ReleasedRow(r), row[r], "released", "released", None)
    BY DEF Update, ReleasedRow
  <2>2. "released" \in Owns /\ "released" \in Releases /\ None \in Reasons
    BY DEF Owns, Releases, Reasons
  <2>3. RowsTyped' /\ Written(r, "released", "released", None) /\ Others(r)
    BY <1>2, <2>1, <2>2, OneRow
  <2>. QED BY <1>2, <2>3 DEF MaySettleDead, IsRow
<1>. QED BY <1>1, <1>2 DEF SettleDead

LEMMA AnswerKeeps ==
  ASSUME IInv, NEW d \in Dispatches, AnswerDeclined(d) PROVE TypeOK' /\ Custody'
<1>. USE TypedIff DEF IInv
<1>1. asked[d] \in Dispatches
  BY DEF AnswerDeclined, Typed
<1>2. TermsGrow
  BY DEF AnswerDeclined, TermsGrow, Running, Typed, TermRec
<1>3. CASE row' = row
  <2>1. Typed' BY <1>3 DEF AnswerDeclined, Typed, RowsTyped
  <2>2. WorkersMove BY <1>2, <1>3 DEF AnswerDeclined, WorkersMove
  <2>. QED BY <2>1, <2>2, TypedNext, CustodyKept
<1>4. CASE row' # row
  <2>1. SettleDead(d, asked[d]) BY <1>4 DEF AnswerDeclined
  <2>2. PICK r \in Dispatches : r = asked[d] BY <1>1
  <2>3. /\ RowsTyped'
        /\ IsRow(r) /\ worker[row[r].owner].state \in Settled
        /\ ~Running(row[r].pane, row[r].proc)
        /\ Written(r, "released", "released", None) /\ Others(r)
    BY <1>4, <2>1, <2>2, DeadSettled
  <2>4. Typed' BY <2>3 DEF AnswerDeclined, Typed
  <2>5. ~Running(row[r].pane, row[r].proc)' BY <2>3 DEF AnswerDeclined, Running, Written
  <2>6. Custody' BY <2>3, <2>5, <1>2, ReleasedKeeps DEF AnswerDeclined
  <2>. QED BY <2>4, <2>6, TypedNext
<1>. QED BY <1>3, <1>4

LEMMA RequestKeeps ==
  ASSUME IInv, NEW d \in Dispatches, RequestRelease(d) PROVE TypeOK' /\ Custody'
<1>. USE TypedIff DEF IInv
<1>1. PICK r \in OwnedBy(d) \cap Unreleased :
        /\ MayRelease(d, r)
        /\ row' = [row EXCEPT ![r] = [@ EXCEPT
                    !.release = IF row[r].release = "releasing" THEN "releasing"
                                ELSE "requested",
                    !.reason = None]]
        /\ archive' = IF row[r].reason = "user_requested"
                      THEN [archive EXCEPT ![d] = None] ELSE archive
        /\ job' = IF job[r].step # "none" THEN job
                  ELSE [job EXCEPT ![r] = [step |-> "inspect", by |-> d, recovery |-> FALSE]]
  BY DEF RequestRelease
<1>0. UNCHANGED <<term, worker, asked, boot, stopper, taken, restarts>>
  BY DEF RequestRelease
<1>2. /\ r \in Dispatches /\ IsRow(r) /\ row[r].owner = d
      /\ row[r].own = "owned" /\ worker[d].state = "settled"
  BY <1>1 DEF OwnedBy, Unreleased, Rows, MayRelease, IsRow
<1>3. PICK release \in {"releasing", "requested"} :
        /\ release = "releasing" <=> row[r].release = "releasing"
        /\ row' = [row EXCEPT ![r] = [row[r] EXCEPT !.release = release, !.reason = None]]
  <2>. DEFINE next == IF row[r].release = "releasing" THEN "releasing" ELSE "requested"
  <2>1. row' = [row EXCEPT ![r] = [row[r] EXCEPT !.release = next, !.reason = None]]
    BY <1>1, <1>2 DEF Typed, RowsTyped
  <2>2. next \in {"releasing", "requested"} /\ (next = "releasing" <=> row[r].release = "releasing")
    OBVIOUS
  <2>. QED BY <2>1, <2>2
<1>4. Update([row[r] EXCEPT !.release = release, !.reason = None], row[r], row[r].own, release, None)
  BY DEF Update
<1>5. row[r].own \in Owns /\ release \in Releases /\ None \in Reasons
  BY <1>2 DEF Owns, Releases, Reasons, Pending
<1>6. RowsTyped' /\ Written(r, row[r].own, release, None) /\ Others(r)
  BY <1>2, <1>3, <1>4, <1>5, OneRow
<1>7. \A x \in Dispatches :
        \/ job'[x] = job[x] /\ (x = r => job[r].step # "none")
        \/ x = r /\ job'[x].step = "inspect" /\ job'[x].by = d
  BY <1>1, <1>2 DEF Typed
<1>8. Typed'
  <2>1. job' \in [Dispatches -> JobRec] BY <1>1 DEF Typed, JobRec
  <2>2. archive' \in [Dispatches -> Dispatches \cup {None}] BY <1>1 DEF Typed
  <2>. QED BY <1>0, <1>6, <2>1, <2>2 DEF Typed
<1>9. TermsGrow
  BY <1>0 DEF TermsGrow, Running, Typed, TermRec
<1>10. Identities'
  BY <1>0, <1>2, <1>6, <1>9, OneRowIdentities
<1>11. ReleaseSettled'
  <2>1. ASSUME NEW x \in Dispatches
        PROVE  /\ row'[x].release \in Pending =>
                   /\ row'[x].own = "owned"
                   /\ row'[x].reason = None
                   /\ worker[row'[x].owner].state = "settled"
               /\ row'[x].own = "released" => worker[row'[x].owner].state \in Settled
    <3>1. CASE x = r BY <3>1, <1>2, <1>6 DEF Written
    <3>2. CASE x # r BY <3>2, <1>6 DEF Others, Custody, ReleaseSettled
    <3>. QED BY <3>1, <3>2
  <2>. QED BY <1>0, <2>1 DEF ReleaseSettled
<1>12. JobsMatch'
  <2>1. ASSUME NEW x \in Dispatches, job'[x].step # "none"
        PROVE  /\ job'[x].by \in Dispatches
               /\ worker[job'[x].by].state = "settled"
               /\ row'[x].release = "releasing" => job'[x].by = row'[x].owner
               /\ job'[x].step = "close" =>
                    /\ job'[x].by = row'[x].owner
                    /\ row'[x].release \in {"releasing", "released"}
                    /\ worker[job'[x].by].pane = row'[x].pane
                    /\ worker[job'[x].by].proc = row'[x].proc
    <3>1. CASE x # r BY <2>1, <3>1, <1>6, <1>7 DEF Others, Custody, JobsMatch
    <3>2. CASE x = r /\ job'[x].step = "inspect" /\ job'[x].by = d
      BY <3>2, <1>2, <1>6 DEF Written
    <3>3. CASE x = r /\ job'[x] = job[x]
      <4>1. row[r].release # "released" BY <1>2 DEF Typed, RowsTyped
      <4>. QED BY <2>1, <3>3, <4>1, <1>2, <1>3, <1>6 DEF Written, Custody, JobsMatch
    <3>. QED BY <3>1, <3>2, <3>3, <1>7
  <2>. QED BY <1>0, <2>1 DEF JobsMatch
<1>13. TakenLost'
  BY <1>0, <1>2, <1>6, <1>9 DEF Custody, TakenLost, Written, Others, TermsGrow
<1>14. Kept'
  <2>1. row[r].release = "releasing" \/ job[r].step = "close" => row[r].reason = None
    <3>1. row[r].release # "released" BY <1>2 DEF Typed, RowsTyped
    <3>2. job[r].step = "close" => row[r].release = "releasing"
      BY <1>2, <3>1 DEF Custody, JobsMatch
    <3>. QED BY <1>2, <3>2 DEF Custody, ReleaseSettled, Pending
  <2>2. \A x \in Dispatches : archive'[x] = archive[x]
                                \/ (x = d /\ row[r].reason = "user_requested")
    BY <1>1 DEF Typed
  <2>3. ASSUME NEW x \in Dispatches, IsRow(x)',
               row'[x].release = "releasing" \/ job'[x].step = "close"
        PROVE  archive'[row'[x].owner] = x
    <3>1. IsRow(x) /\ row'[x].owner = row[x].owner /\ row[x].owner \in Dispatches
      BY <1>2, <1>6, <2>3 DEF Custody, RowsNamed, IsRow, Written, Others
    <3>2. row[x].release = "releasing" \/ job[x].step = "close"
      BY <1>3, <1>6, <1>7, <2>3 DEF Written, Others
    <3>3. archive[row[x].owner] = x BY <3>1, <3>2 DEF Custody, Kept
    <3>4. row[x].owner = d => x = r BY <3>1, <1>2 DEF Custody, RowsApart
    <3>. QED BY <2>1, <2>2, <3>1, <3>2, <3>3, <3>4, CustodyConstants
  <2>. QED BY <2>3 DEF Kept
<1>15. Gone'
  BY <1>0, <1>2, <1>6 DEF Custody, Gone, Running, Written, Others
<1>. QED
  BY <1>8, <1>10, <1>11, <1>12, <1>13, <1>14, <1>15, TypedNext DEF Custody, Identities

(* A row whose terminal is kept, for the worker or for the user, before its *)
(* release is committed.                                                    *)
SetAside(r) ==
  /\ IsRow(r)
  /\ row[r].own # "released"
  /\ row[r].release \in Retainable
  /\ row'[r].own \in {row[r].own, "user_owned"}
  /\ row'[r].release = "retained"
  /\ row'[r].owner = row[r].owner
  /\ row'[r].pane = row[r].pane
  /\ row'[r].proc = row[r].proc

LEMMA SetAsideKeeps ==
  ASSUME IInv, UNCHANGED <<worker, boot, job>>, TermsGrow, TakenLost',
         \A r \in Dispatches : row'[r] = row[r] \/ SetAside(r),
         \A d \in Dispatches : \/ archive'[d] = archive[d]
                               \/ \E r \in Dispatches : SetAside(r) /\ row[r].owner = d
  PROVE Custody'
<1>. USE TypedIff DEF IInv
<1>1. Identities'
  <2>1. KeepsIdentity BY DEF KeepsIdentity, SetAside, IsRow
  <2>. QED BY <2>1, IdentitiesKept
<1>2. ReleaseSettled' BY DEF Custody, ReleaseSettled, SetAside, Pending
<1>3. \A r \in Dispatches : SetAside(r) => job[r].step # "close"
  BY DEF SetAside, Custody, JobsMatch, Retainable
<1>4. JobsMatch'
  <2>1. ASSUME NEW x \in Dispatches, job[x].step # "none"
        PROVE  /\ job[x].by \in Dispatches
               /\ worker[job[x].by].state = "settled"
               /\ row'[x].release = "releasing" => job[x].by = row'[x].owner
               /\ job[x].step = "close" =>
                    /\ job[x].by = row'[x].owner
                    /\ row'[x].release \in {"releasing", "released"}
                    /\ worker[job[x].by].pane = row'[x].pane
                    /\ worker[job[x].by].proc = row'[x].proc
    <3>1. CASE row'[x] = row[x] BY <2>1, <3>1 DEF Custody, JobsMatch
    <3>2. CASE SetAside(x) BY <2>1, <3>2, <1>3 DEF SetAside, Custody, JobsMatch
    <3>. QED BY <3>1, <3>2
  <2>. QED BY <2>1 DEF JobsMatch
<1>5. Kept'
  <2>1. ASSUME NEW x \in Dispatches, IsRow(x)',
               row'[x].release = "releasing" \/ job[x].step = "close"
        PROVE  archive'[row'[x].owner] = x
    <3>1. row'[x] = row[x] /\ ~SetAside(x)
      BY <2>1, <1>3 DEF SetAside, Retainable
    <3>2. IsRow(x) /\ row[x].owner \in Dispatches /\ archive[row[x].owner] = x
      BY <2>1, <3>1 DEF Custody, Kept, RowsNamed, IsRow
    <3>3. ~\E r \in Dispatches : SetAside(r) /\ row[r].owner = row[x].owner
      BY <3>1, <3>2 DEF SetAside, Custody, RowsApart
    <3>. QED BY <3>1, <3>2, <3>3
  <2>. QED BY <2>1 DEF Kept
<1>6. Gone'
  <2>1. ASSUME NEW x \in Dispatches, row'[x].own = "released"
        PROVE  ~Running(row[x].pane, row[x].proc)' /\ row'[x] = row[x]
    <3>1. row'[x] = row[x] BY <2>1 DEF SetAside
    <3>2. IsRow(x) /\ ~Running(row[x].pane, row[x].proc) BY <2>1, <3>1 DEF Custody, Gone, IsRow
    <3>3. row[x].pane \in Panes /\ row[x].proc \in 0 .. term[row[x].pane].inc
      BY <3>2 DEF Custody, RowsNamed, Typed, TermRec
    <3>4. ~Running(row[x].pane, row[x].proc)'
      BY <2>1, <3>1, <3>2, <3>3 DEF TermsGrow
    <3>. QED BY <3>1, <3>4
  <2>. QED BY <2>1 DEF Gone, Running
<1>. QED
  BY <1>1, <1>2, <1>4, <1>5, <1>6 DEF Custody, Identities

LEMMA RetainKeeps ==
  ASSUME IInv, NEW d \in Dispatches, RetainTerminal(d) PROVE TypeOK' /\ Custody'
<1>. USE TypedIff DEF IInv
<1>1. PICK r \in OwnedBy(d) :
        /\ row[r].release \in Retainable
        /\ row' = [row EXCEPT ![r] = [@ EXCEPT !.release = "retained", !.reason = "user_requested"]]
  BY DEF RetainTerminal
<1>2. r \in Dispatches /\ IsRow(r) /\ row[r].owner = d
  BY DEF OwnedBy, Rows, IsRow
<1>3. Update([row[r] EXCEPT !.release = "retained", !.reason = "user_requested"],
             row[r], row[r].own, "retained", "user_requested")
  BY DEF Update
<1>4. row[r].own \in Owns /\ row[r].own # "released"
  BY <1>1, <1>2 DEF Typed, RowsTyped, RowRec, Retainable
<1>5. "retained" \in Releases /\ "user_requested" \in Reasons
  BY DEF Releases, Reasons
<1>6. RowsTyped' /\ Written(r, row[r].own, "retained", "user_requested") /\ Others(r)
  BY <1>1, <1>2, <1>3, <1>4, <1>5, OneRow
<1>7. archive' = [archive EXCEPT ![d] = None]
  BY DEF RetainTerminal
<1>8. Typed'
  BY <1>6, <1>7 DEF RetainTerminal, Typed
<1>9. TermsGrow
  BY DEF RetainTerminal, TermsGrow, Running, Typed, TermRec
<1>10. SetAside(r)
  BY <1>1, <1>2, <1>4, <1>6 DEF SetAside, Written
<1>11. \A x \in Dispatches : row'[x] = row[x] \/ SetAside(x)
  BY <1>6, <1>10 DEF Others
<1>12. \A e \in Dispatches : \/ archive'[e] = archive[e]
                             \/ \E x \in Dispatches : SetAside(x) /\ row[x].owner = e
  BY <1>2, <1>7, <1>10 DEF Typed
<1>13. TakenLost'
  BY <1>6 DEF RetainTerminal, Custody, TakenLost, Written, Others
<1>14. Custody'
  BY <1>9, <1>11, <1>12, <1>13, SetAsideKeeps DEF RetainTerminal
<1>. QED BY <1>8, <1>14, TypedNext

(* Several rows of workers are written in the same way. *)
LEMMA SomeRows ==
  ASSUME Typed, NEW rs \in SUBSET Dispatches, NEW reason \in Reasons,
         NEW own \in {"owned", "user_owned"},
         row' = [r \in Dispatches |-> row'[r]],
         \A r \in rs : /\ row[r].own = "owned"
                       /\ row[r].release \in Retainable
                       /\ Update(row'[r], row[r], own, "retained", reason),
         \A r \in Dispatches \ rs : row'[r] = row[r]
  PROVE /\ RowsTyped'
        /\ \A r \in rs : SetAside(r) /\ row'[r].own = own
<1>1. own \in Owns /\ "retained" \in Releases
  BY DEF Owns, Releases
<1>2. ASSUME NEW r \in rs
      PROVE  row'[r] \in RowRec /\ SetAside(r) /\ row'[r].own = own /\ row'[r].release = "retained"
  <2>1. row[r] \in RowRec BY DEF Typed, RowsTyped
  <2>2. Update(row'[r], row[r], own, "retained", reason) BY <1>2
  <2>3. /\ row'[r] \in RowRec
        /\ row'[r].own = own /\ row'[r].release = "retained"
        /\ row'[r].owner = row[r].owner /\ row'[r].pane = row[r].pane
        /\ row'[r].proc = row[r].proc
    BY <1>1, <2>1, <2>2, RowUpdate
  <2>. QED BY <1>2, <2>3 DEF SetAside, IsRow
<1>3. RowsTyped'
  <2>1. \A r \in Dispatches : row'[r] \in RowRec BY <1>2 DEF Typed, RowsTyped
  <2>2. row' \in [Dispatches -> RowRec] BY <2>1
  <2>3. \A r \in Dispatches : row'[r].own = "released" <=> row'[r].release = "released"
    BY <1>2 DEF Typed, RowsTyped
  <2>. QED BY <2>2, <2>3 DEF RowsTyped
<1>. QED BY <1>2, <1>3

LEMMA ReplaceKeeps ==
  ASSUME IInv, NEW p \in Panes, Replace(p) PROVE TypeOK' /\ Custody'
<1>. USE TypedIff DEF IInv
<1>0. UNCHANGED <<worker, archive, job, asked, boot, stopper, taken, restarts>>
  BY DEF Replace
<1>. DEFINE rs == {r \in Dispatches : /\ row[r].pane = p
                                      /\ row[r].own = "owned"
                                      /\ row[r].release = "not_requested"
                                      /\ worker[row[r].owner].state \in Settled}
<1>1. row' = [r \in Dispatches |->
         IF r \in rs
         THEN [row[r] EXCEPT !.release = "retained", !.reason = "identity_unproven"]
         ELSE row[r]]
  BY DEF Replace
<1>2. \A r \in rs : Update(row'[r], row[r], "owned", "retained", "identity_unproven")
  BY <1>1 DEF Update
<1>3. rs \in SUBSET Dispatches /\ "identity_unproven" \in Reasons
  BY DEF Reasons
<1>4. \A r \in rs : row[r].own = "owned" /\ row[r].release \in Retainable
  BY DEF Retainable
<1>5. (\A r \in Dispatches \ rs : row'[r] = row[r]) /\ row' = [r \in Dispatches |-> row'[r]]
  BY <1>1
<1>6. RowsTyped' /\ \A r \in rs : SetAside(r) /\ row'[r].own = "owned"
  <2>. HIDE DEF rs
  <2>. QED BY <1>2, <1>3, <1>4, <1>5, SomeRows
<1>7. term' \in [Panes -> TermRec] /\ TermsGrow
  <2>1. /\ term \in [Panes -> TermRec]
        /\ term[p].inc \in 1 .. MaxInc - 1
        /\ term' = [term EXCEPT ![p] = [inc |-> term[p].inc + 1, alive |-> TRUE, known |-> TRUE]]
    BY DEF Replace, Spawned, Typed
  <2>2. \A q \in Panes : \/ term'[q] = term[q]
                         \/ q = p /\ term'[q].inc = term[p].inc + 1
    BY <2>1
  <2>3. [inc |-> term[p].inc + 1, alive |-> TRUE, known |-> TRUE] \in TermRec
    BY <2>1, CustodyConstants DEF TermRec
  <2>4. term' \in [Panes -> TermRec] BY <2>1, <2>3
  <2>. QED BY <2>1, <2>2, <2>4, CustodyConstants DEF TermsGrow, Running, TermRec
<1>8. Typed' BY <1>0, <1>6, <1>7 DEF Typed
<1>9. TakenLost'
  <2>1. \A r \in Dispatches : row'[r].own = "owned" =>
          row[r].own = "owned" /\ row'[r].pane = row[r].pane /\ row'[r].proc = row[r].proc
    BY <1>4, <1>5, <1>6 DEF SetAside
  <2>2. \A q \in Panes : term[q].inc \in Nat /\ term'[q].inc \in Nat
                         /\ term[q].inc <= term'[q].inc
    BY <1>7 DEF TermsGrow, Typed, TermRec
  <2>. QED BY <1>0, <2>1, <2>2 DEF Custody, TakenLost
<1>10. Custody'
  BY <1>0, <1>5, <1>6, <1>7, <1>9, SetAsideKeeps
<1>. QED BY <1>8, <1>10, TypedNext

LEMMA UserInputKeeps ==
  ASSUME IInv, NEW p \in Panes, UserInput(p) PROVE TypeOK' /\ Custody'
<1>. USE TypedIff DEF IInv
<1>0. UNCHANGED <<term, worker, job, asked, boot, stopper, restarts>>
  BY DEF UserInput
<1>. DEFINE rs == MarkUserOwned(p)
            late == \E r \in Unreleased :
                       /\ row[r].pane = p
                       /\ \/ row[r].release \in {"releasing", "unknown"}
                          \/ worker[row[r].owner].state = "stopping"
<1>1. row' = [r \in Dispatches |->
         IF r \in rs THEN [row[r] EXCEPT !.own = "user_owned", !.release = "retained",
                                         !.reason = "user_takeover"]
         ELSE row[r]]
  BY DEF UserInput
<1>2. \A r \in rs : /\ r \in Dispatches /\ row[r].own = "owned" /\ row[r].release \in Retainable
  BY DEF MarkUserOwned, Rows, Retainable
<1>3. \A r \in rs : Update(row'[r], row[r], "user_owned", "retained", "user_takeover")
  BY <1>1, <1>2 DEF Update
<1>4. rs \in SUBSET Dispatches /\ "user_takeover" \in Reasons
  BY <1>2 DEF Reasons
<1>5. (\A r \in Dispatches \ rs : row'[r] = row[r]) /\ row' = [r \in Dispatches |-> row'[r]]
  BY <1>1
<1>6. RowsTyped' /\ \A r \in rs : SetAside(r) /\ row'[r].own = "user_owned"
  <2>. HIDE DEF rs
  <2>. QED BY <1>2, <1>3, <1>4, <1>5, SomeRows
<1>7. archive' = [d \in Dispatches |->
        IF \E r \in rs : row[r].owner = d THEN None ELSE archive[d]]
  BY DEF UserInput
<1>8. taken' \in {taken, taken \cup {Process(p)}} /\ (taken' # taken => ~late)
  BY DEF UserInput
<1>9. term[p].inc \in 1 .. MaxInc
  <2>1. term[p].alive /\ term[p].inc # 0 BY DEF UserInput, Custody, RowsNamed
  <2>2. term[p].inc \in 0 .. MaxInc BY DEF Typed, TermRec
  <2>. QED BY <2>1, <2>2, CustodyConstants
<1>10. Typed'
  <2>1. taken' \subseteq Panes \X (1 .. MaxInc) BY <1>8, <1>9 DEF Process, Typed
  <2>2. archive' \in [Dispatches -> Dispatches \cup {None}] BY <1>7 DEF Typed
  <2>. QED BY <1>0, <1>6, <2>1, <2>2 DEF Typed
<1>11. TermsGrow
  BY <1>0 DEF TermsGrow, Running, Typed, TermRec
<1>12. TakenLost'
  <2>1. ASSUME NEW q \in Panes, NEW n \in Nat, <<q, n>> \in taken'
        PROVE  n <= term[q].inc
    <3>1. CASE <<q, n>> \in taken BY <3>1 DEF Custody, TakenLost
    <3>2. CASE <<q, n>> = Process(p) BY <3>2, <1>9 DEF Process
    <3>. QED BY <2>1, <3>1, <3>2, <1>8
  <2>2. ASSUME NEW r \in Dispatches, row'[r].own = "owned"
        PROVE  <<row'[r].pane, row'[r].proc>> \notin taken'
    <3>1. r \notin rs /\ row'[r] = row[r] BY <2>2, <1>5, <1>6
    <3>2. <<row[r].pane, row[r].proc>> \notin taken BY <2>2, <3>1 DEF Custody, TakenLost
    <3>3. ASSUME taken' # taken, row[r].pane = p PROVE FALSE
      <4>1. r \in Rows /\ row[r].own = "owned" BY <2>2, <3>1 DEF Rows
      <4>2. r \in Unreleased BY <4>1 DEF Unreleased
      <4>3. worker[row[r].owner].state # "stopping"
            /\ row[r].release \notin {"releasing", "unknown"}
        BY <1>8, <3>3, <4>2
      <4>4. row[r].release \in Releases /\ row[r].release # "released"
        BY <4>1 DEF Typed, RowsTyped, RowRec
      <4>5. row[r].release \in {"not_requested", "retained", "requested"}
        BY <4>3, <4>4 DEF Releases, Pending
      <4>. QED BY <3>1, <3>3, <4>1, <4>3, <4>5 DEF MarkUserOwned
    <3>. QED BY <1>8, <3>1, <3>2, <3>3 DEF Process
  <2>. QED BY <1>0, <2>1, <2>2 DEF TakenLost
<1>13. \A r \in Dispatches : row'[r] = row[r] \/ SetAside(r)
  BY <1>5, <1>6
<1>14. \A d \in Dispatches : \/ archive'[d] = archive[d]
                             \/ \E r \in Dispatches : SetAside(r) /\ row[r].owner = d
  BY <1>2, <1>6, <1>7
<1>15. Custody'
  BY <1>0, <1>11, <1>12, <1>13, <1>14, SetAsideKeeps
<1>. QED BY <1>10, <1>15, TypedNext

LEMMA RecoverKeeps ==
  ASSUME IInv, NEW r \in Dispatches, RecoverRelease(r) PROVE TypeOK' /\ Custody'
<1>. USE TypedIff DEF IInv
<1>1. IsRow(r) /\ row[r].owner \in Dispatches /\ worker[row[r].owner].state = "settled"
  BY DEF RecoverRelease, Unreleased, Rows, IsRow, Custody, RowsNamed, ReleaseSettled, Pending
<1>2. /\ job' \in [Dispatches -> JobRec]
      /\ job'[r].step = "inspect" /\ job'[r].by = row[r].owner
      /\ \A x \in Dispatches \ {r} : job'[x] = job[x]
  BY <1>1 DEF RecoverRelease, Typed, JobRec
<1>3. Typed' BY <1>2 DEF RecoverRelease, Typed, RowsTyped
<1>4. KeepsIdentity
  BY DEF RecoverRelease, KeepsIdentity, TermsGrow, Running, Typed, TermRec, IsRow
<1>5. Identities' BY <1>4, IdentitiesKept
<1>6. ReleaseSettled' BY DEF RecoverRelease, Custody, ReleaseSettled
<1>7. JobsMatch' BY <1>1, <1>2 DEF RecoverRelease, Custody, JobsMatch
<1>8. TakenLost' BY DEF RecoverRelease, Custody, TakenLost
<1>9. Kept' BY <1>2 DEF RecoverRelease, Custody, Kept, IsRow
<1>10. Gone' BY DEF RecoverRelease, Custody, Gone, Running
<1>. QED
  BY <1>3, <1>5, <1>6, <1>7, <1>8, <1>9, <1>10, TypedNext DEF Custody, Identities

-----------------------------------------------------------------------------
(* The job of a release *)

(* A job is over, and nothing else has changed but that a process may have  *)
(* gone.                                                                    *)
LEMMA EndedKeeps ==
  ASSUME IInv, NEW r \in Dispatches,
         term' \in [Panes -> TermRec], TermsGrow, job' = Ended(r),
         UNCHANGED <<worker, row, archive, asked, boot, stopper, taken, restarts>>
  PROVE TypeOK' /\ Custody'
<1>. USE TypedIff DEF IInv
<1>1. NoJob \in JobRec BY DEF NoJob, JobRec
<1>2. Typed' BY <1>1 DEF Ended, Typed, RowsTyped
<1>3. WorkersMove BY DEF Ended, WorkersMove, Typed
<1>. QED BY <1>2, <1>3, TypedNext, CustodyKept

LEMMA SameTerms ==
  ASSUME Typed, term' = term PROVE term' \in [Panes -> TermRec] /\ TermsGrow
BY DEF TermsGrow, Running, Typed, TermRec

(* A release is reverted, or left in doubt. *)
LEMMA UnlessKeeps ==
  ASSUME IInv, NEW r \in Dispatches, NEW release \in {"retained", "unknown"},
         NEW reason \in Reasons, release = "unknown" => reason = row[r].reason,
         row' = Unless(r, release, reason),
         term' \in [Panes -> TermRec], TermsGrow, job' = Ended(r),
         UNCHANGED <<worker, archive, asked, boot, stopper, taken, restarts>>
  PROVE TypeOK' /\ Custody'
<1>. USE TypedIff DEF IInv
<1>1. CASE row' = row BY <1>1, EndedKeeps
<1>2. CASE /\ row[r].release \in {"requested", "releasing"}
           /\ row' = [row EXCEPT ![r] = [@ EXCEPT !.release = release, !.reason = reason]]
  <2>1. row[r].own = "owned" /\ row[r].reason = None
    BY <1>2 DEF Custody, ReleaseSettled, Pending
  <2>2. Update([row[r] EXCEPT !.release = release, !.reason = reason],
               row[r], row[r].own, release, reason)
    BY DEF Update
  <2>3. row[r].own \in Owns /\ release \in Releases
    BY <2>1 DEF Owns, Releases, Pending
  <2>4. RowsTyped' /\ Written(r, row[r].own, release, reason) /\ Others(r)
    BY <1>2, <2>1, <2>2, <2>3, OneRow
  <2>5. NoJob \in JobRec BY DEF NoJob, JobRec
  <2>6. Typed' BY <2>4, <2>5 DEF Ended, Typed
  <2>7. Custody' BY <1>2, <2>1, <2>4, CalledBackKeeps DEF Ended, Pending
  <2>. QED BY <2>6, <2>7, TypedNext
<1>. QED BY <1>1, <1>2 DEF Unless

(* A job goes on to ask the hosts, or for the output. *)
LEMMA StepKeeps ==
  ASSUME IInv, NEW r \in Dispatches, job[r].step # "none",
         NEW s \in {"probe", "capture"}, job' = Step(r, s),
         UNCHANGED <<term, worker, row, archive, asked, boot, stopper, taken, restarts>>
  PROVE TypeOK' /\ Custody'
<1>. USE TypedIff DEF IInv
<1>1. [job[r] EXCEPT !.step = s] \in JobRec
  BY DEF Typed, JobRec
<1>2. job' = [job EXCEPT ![r] = [job[r] EXCEPT !.step = s]]
  BY DEF Step
<1>3. Typed' BY <1>1, <1>2 DEF Typed, RowsTyped
<1>4. job'[r].step = s /\ job'[r].by = job[r].by /\ \A x \in Dispatches \ {r} : job'[x] = job[x]
  BY <1>2 DEF Typed, JobRec
<1>5. Identities'
  <2>1. KeepsIdentity BY SameTerms DEF KeepsIdentity, IsRow
  <2>. QED BY <2>1, IdentitiesKept
<1>6. ReleaseSettled' BY DEF Custody, ReleaseSettled
<1>7. JobsMatch' BY <1>4 DEF Custody, JobsMatch
<1>8. TakenLost' BY DEF Custody, TakenLost
<1>9. Kept' BY <1>4 DEF Custody, Kept, IsRow
<1>10. Gone' BY DEF Custody, Gone, Running
<1>. QED
  BY <1>3, <1>5, <1>6, <1>7, <1>8, <1>9, <1>10, TypedNext DEF Custody, Identities

(* The release is committed and the terminal about to be closed. *)
LEMMA CommittedKeeps ==
  ASSUME IInv, NEW r \in Dispatches, job[r].step # "none",
         row[r].release \in {"requested", "releasing"}, job[r].by = row[r].owner,
         Written(r, row[r].own, "releasing", row[r].reason), Others(r), RowsTyped',
         LeaseIsCurrent(job[r].by, r), job' = Step(r, "close"),
         archive' \in [Dispatches -> Dispatches \cup {None}],
         archive'[row[r].owner] = r,
         \A d \in Dispatches : archive'[d] = archive[d] \/ d = row[r].owner,
         UNCHANGED <<term, worker, asked, boot, stopper, taken, restarts>>
  PROVE TypeOK' /\ Custody'
<1>. USE TypedIff DEF IInv
<1>1. /\ IsRow(r) /\ row[r].own = "owned" /\ row[r].reason = None
      /\ worker[row[r].owner].state = "settled" /\ row[r].owner \in Dispatches
  BY DEF Custody, ReleaseSettled, Pending, RowsNamed, IsRow
<1>2. [job[r] EXCEPT !.step = "close"] \in JobRec
  BY DEF Typed, JobRec
<1>3. job' = [job EXCEPT ![r] = [job[r] EXCEPT !.step = "close"]]
  BY DEF Step
<1>4. job'[r].step = "close" /\ job'[r].by = row[r].owner
      /\ \A x \in Dispatches \ {r} : job'[x] = job[x]
  BY <1>3 DEF Typed, JobRec
<1>5. Typed' BY <1>2, <1>3 DEF Typed
<1>6. Identities' BY <1>1, SameTerms, OneRowIdentities
<1>7. ReleaseSettled'
  <2>1. ASSUME NEW x \in Dispatches
        PROVE  /\ row'[x].release \in Pending =>
                   /\ row'[x].own = "owned"
                   /\ row'[x].reason = None
                   /\ worker[row'[x].owner].state = "settled"
               /\ row'[x].own = "released" => worker[row'[x].owner].state \in Settled
    <3>1. CASE x = r BY <3>1, <1>1 DEF Written
    <3>2. CASE x # r BY <3>2 DEF Others, Custody, ReleaseSettled
    <3>. QED BY <3>1, <3>2
  <2>. QED BY <2>1 DEF ReleaseSettled
<1>8. worker[row[r].owner].pane = row[r].pane /\ worker[row[r].owner].proc = row[r].proc
  BY <1>1 DEF LeaseIsCurrent, Exact, Custody, OwnerMatches
<1>9. JobsMatch'
  <2>1. ASSUME NEW x \in Dispatches, job'[x].step # "none"
        PROVE  /\ job'[x].by \in Dispatches
               /\ worker[job'[x].by].state = "settled"
               /\ row'[x].release = "releasing" => job'[x].by = row'[x].owner
               /\ job'[x].step = "close" =>
                    /\ job'[x].by = row'[x].owner
                    /\ row'[x].release \in {"releasing", "released"}
                    /\ worker[job'[x].by].pane = row'[x].pane
                    /\ worker[job'[x].by].proc = row'[x].proc
    <3>1. CASE x # r BY <2>1, <3>1, <1>4 DEF Others, Custody, JobsMatch
    <3>2. CASE x = r BY <3>2, <1>1, <1>4, <1>8 DEF Written
    <3>. QED BY <3>1, <3>2
  <2>. QED BY <2>1 DEF JobsMatch
<1>10. TakenLost' BY DEF Custody, TakenLost, Written, Others
<1>11. Kept'
  <2>1. ASSUME NEW x \in Dispatches, x # r, IsRow(x)',
               row'[x].release = "releasing" \/ job'[x].step = "close"
        PROVE  archive'[row'[x].owner] = x
    <3>1. IsRow(x) /\ row'[x] = row[x] /\ row[x].owner \in Dispatches
          /\ archive[row[x].owner] = x
      BY <2>1, <1>4 DEF Others, Custody, Kept, RowsNamed, IsRow
    <3>2. row[x].owner # row[r].owner
      BY <2>1, <3>1, <1>1 DEF Custody, RowsApart
    <3>. QED BY <3>1, <3>2
  <2>. QED BY <2>1 DEF Kept, Written
<1>12. Gone' BY <1>1 DEF Custody, Gone, Running, Written, Others
<1>. QED
  BY <1>5, <1>6, <1>7, <1>9, <1>10, <1>11, <1>12, TypedNext DEF Custody, Identities

LEMMA CommitKeeps ==
  ASSUME IInv, NEW r \in Dispatches, job[r].step # "none",
         NEW output \in Dispatches, Commit(r, output),
         UNCHANGED <<term, worker, asked, boot, stopper, taken, restarts>>
  PROVE TypeOK' /\ Custody'
<1>. USE TypedIff DEF IInv
<1>. DEFINE d == job[r].by
            next == IF MayCommit(d, r) THEN [row EXCEPT ![r].release = "releasing"] ELSE row
            go == next[r].own = "owned" /\ next[r].release = "releasing"
            lease == LeaseIsCurrent(d, r)
<1>1. row[r] \in RowRec /\ row \in [Dispatches -> RowRec]
  BY DEF Typed, RowsTyped
<1>2. term' \in [Panes -> TermRec] /\ TermsGrow
  BY SameTerms
<1>3. CASE MayCommit(d, r) /\ output # r
  <2>1. row' = row /\ archive' = archive /\ job' = Ended(r)
    BY <1>3 DEF Commit
  <2>. QED BY <1>2, <2>1, EndedKeeps
<1>4. CASE MayCommit(d, r) /\ output = r
  <2>1. /\ row[r].owner = d /\ row[r].own = "owned" /\ row[r].release = "requested"
        /\ row[r].reason = None
    BY <1>4 DEF MayCommit, Custody, ReleaseSettled, Pending
  <2>2. next = [row EXCEPT ![r] = [row[r] EXCEPT !.release = "releasing"]]
    BY <1>4
  <2>3. next[r] = [row[r] EXCEPT !.release = "releasing"]
    BY <1>1, <2>2
  <2>4. go
    BY <1>1, <2>1, <2>3 DEF RowRec
  <2>5. archive' = [archive EXCEPT ![d] = r]
    BY <1>4 DEF Commit
  <2>6. d \in Dispatches
    BY DEF Custody, JobsMatch
  <2>7. /\ archive' \in [Dispatches -> Dispatches \cup {None}]
        /\ archive'[row[r].owner] = r
        /\ \A x \in Dispatches : archive'[x] = archive[x] \/ x = row[r].owner
    BY <2>1, <2>5, <2>6 DEF Typed
  <2>8. {"owned"} \subseteq Owns /\ {"retained", "releasing"} \subseteq Releases
        /\ {None, "identity_unproven"} \subseteq Reasons
    BY DEF Owns, Releases, Pending, Reasons
  <2>9. CASE lease
    <3>1. row' = next /\ job' = Step(r, "close")
      BY <1>4, <2>4, <2>9 DEF Commit
    <3>2. Update([row[r] EXCEPT !.release = "releasing"], row[r], "owned", "releasing", None)
      BY <2>1 DEF Update
    <3>3. RowsTyped' /\ Written(r, "owned", "releasing", None) /\ Others(r)
      BY <2>2, <2>8, <3>1, <3>2, OneRow
    <3>. QED BY <2>1, <2>7, <2>9, <3>1, <3>3, CommittedKeeps
  <2>10. CASE ~lease
    <3>1. /\ row' = [next EXCEPT ![r] = [next[r] EXCEPT !.release = "retained",
                                                       !.reason = "identity_unproven"]]
          /\ job' = Ended(r)
      BY <1>1, <1>4, <2>2, <2>4, <2>10 DEF Commit
    <3>2. row' = [row EXCEPT ![r] = [row[r] EXCEPT !.release = "retained",
                                                   !.reason = "identity_unproven"]]
      BY <1>1, <2>2, <2>3, <3>1 DEF RowRec
    <3>3. Update([row[r] EXCEPT !.release = "retained", !.reason = "identity_unproven"],
                 row[r], "owned", "retained", "identity_unproven")
      BY <2>1 DEF Update
    <3>4. RowsTyped' /\ Written(r, "owned", "retained", "identity_unproven") /\ Others(r)
      BY <2>8, <3>2, <3>3, OneRow
    <3>5. NoJob \in JobRec BY DEF NoJob, JobRec
    <3>6. Typed' BY <2>7, <3>1, <3>4, <3>5 DEF Ended, Typed
    <3>7. Custody' BY <1>2, <2>1, <2>7, <3>1, <3>4, CalledBackKeeps DEF Ended, Pending
    <3>. QED BY <3>6, <3>7, TypedNext
  <2>. QED BY <2>9, <2>10
<1>5. CASE ~MayCommit(d, r)
  <2>1. next = row /\ archive' = archive BY <1>5 DEF Commit
  <2>2. CASE ~go
    <3>1. row' = row /\ job' = Ended(r) BY <1>5, <2>1, <2>2 DEF Commit
    <3>. QED BY <1>2, <2>1, <3>1, EndedKeeps
  <2>3. CASE go /\ lease
    <3>1. row' = row /\ job' = Step(r, "close") BY <1>5, <2>1, <2>3 DEF Commit
    <3>2. row[r].release = "releasing" /\ IsRow(r) BY <2>1, <2>3 DEF IsRow
    <3>3. d = row[r].owner BY <3>2 DEF Custody, JobsMatch
    <3>4. archive[row[r].owner] = r BY <3>2 DEF Custody, Kept
    <3>5. Written(r, row[r].own, "releasing", row[r].reason) /\ Others(r) /\ RowsTyped'
      BY <3>1, <3>2 DEF Written, Others, Typed, RowsTyped
    <3>. QED BY <2>1, <2>3, <3>1, <3>2, <3>3, <3>4, <3>5, CommittedKeeps DEF Typed
  <2>4. CASE go /\ ~lease
    <3>1. row' = [row EXCEPT ![r] = [@ EXCEPT !.release = "retained",
                                             !.reason = "identity_unproven"]]
          /\ job' = Ended(r)
      BY <1>5, <2>1, <2>4 DEF Commit
    <3>2. row' = Unless(r, "retained", "identity_unproven")
      BY <2>1, <2>4, <3>1 DEF Unless
    <3>3. "identity_unproven" \in Reasons BY DEF Reasons
    <3>. QED BY <1>2, <2>1, <3>1, <3>2, <3>3, UnlessKeeps
  <2>. QED BY <2>2, <2>3, <2>4
<1>. QED BY <1>3, <1>4, <1>5

LEMMA InspectKeeps ==
  ASSUME IInv, NEW r \in Dispatches, InspectRelease(r) PROVE TypeOK' /\ Custody'
<1>. USE TypedIff DEF IInv
<1>1. /\ UNCHANGED <<term, worker, asked, boot, stopper, taken, restarts>>
      /\ job[r].step # "none"
      /\ job[r].by \in Dispatches
  BY DEF InspectRelease, Custody, JobsMatch
<1>2. term' \in [Panes -> TermRec] /\ TermsGrow
  BY <1>1, SameTerms
<1>3. CASE job' \in {Step(r, "probe"), Step(r, "capture")} /\ UNCHANGED <<row, archive>>
  BY <1>1, <1>3, StepKeeps
<1>4. CASE job' = Ended(r) /\ row' = MarkUnknown(r) /\ archive' = archive
  <2>1. row[r].reason \in Reasons BY DEF Typed, RowsTyped, RowRec
  <2>. QED BY <1>1, <1>2, <1>4, <2>1, UnlessKeeps DEF MarkUnknown
<1>5. CASE job' = Ended(r) /\ row' = Revert(r) /\ archive' = archive
  <2>1. "identity_unproven" \in Reasons BY DEF Reasons
  <2>. QED BY <1>1, <1>2, <1>5, <2>1, UnlessKeeps DEF Revert
<1>6. CASE archive[job[r].by] # None /\ Commit(r, archive[job[r].by])
  <2>1. archive[job[r].by] \in Dispatches BY <1>1, <1>6 DEF Typed
  <2>. QED BY <1>1, <1>6, <2>1, CommitKeeps
<1>. QED BY <1>3, <1>4, <1>5, <1>6 DEF InspectRelease

LEMMA CaptureKeeps ==
  ASSUME IInv, NEW r \in Dispatches, CaptureOutput(r) PROVE TypeOK' /\ Custody'
<1>. USE TypedIff DEF IInv
<1>1. /\ UNCHANGED <<term, worker, asked, boot, stopper, taken, restarts>>
      /\ job[r].step # "none"
  BY DEF CaptureOutput
<1>2. CASE Commit(r, r) BY <1>1, <1>2, CommitKeeps
<1>3. CASE job' = Ended(r) /\ UNCHANGED <<row, archive>>
  BY <1>1, <1>3, SameTerms, EndedKeeps
<1>. QED BY <1>2, <1>3 DEF CaptureOutput

LEMMA ProbeKeeps ==
  ASSUME IInv, NEW r \in Dispatches, ProbeRelease(r) PROVE TypeOK' /\ Custody'
<1>. USE TypedIff DEF IInv
<1>1. /\ UNCHANGED <<term, worker, archive, asked, boot, stopper, taken, restarts>>
      /\ job' = Ended(r)
      /\ job[r].by \in Dispatches
  BY DEF ProbeRelease, Custody, JobsMatch
<1>2. term' \in [Panes -> TermRec] /\ TermsGrow
  BY <1>1, SameTerms
<1>3. CASE row' = row BY <1>1, <1>2, <1>3, EndedKeeps
<1>4. CASE row' # row
  <2>1. SettleDead(job[r].by, r) BY <1>4 DEF ProbeRelease
  <2>2. /\ RowsTyped'
        /\ IsRow(r) /\ worker[row[r].owner].state \in Settled
        /\ ~Running(row[r].pane, row[r].proc)
        /\ Written(r, "released", "released", None) /\ Others(r)
    BY <1>1, <1>4, <2>1, DeadSettled
  <2>3. NoJob \in JobRec BY DEF NoJob, JobRec
  <2>4. Typed' BY <1>1, <2>2, <2>3 DEF Ended, Typed
  <2>5. ~Running(row[r].pane, row[r].proc)' BY <1>1, <2>2 DEF Running, Written
  <2>6. \A x \in Dispatches : job'[x] \in {job[x], NoJob} BY <1>1 DEF Ended, Typed
  <2>7. Custody' BY <1>1, <1>2, <2>2, <2>5, <2>6, ReleasedKeeps
  <2>. QED BY <2>4, <2>7, TypedNext
<1>. QED BY <1>3, <1>4

LEMMA CloseKeeps ==
  ASSUME IInv, NEW r \in Dispatches, CloseTerminal(r) PROVE TypeOK' /\ Custody'
<1>. USE TypedIff DEF IInv
<1>. DEFINE d == job[r].by
<1>1. /\ UNCHANGED <<worker, archive, asked, boot, stopper, taken, restarts>>
      /\ job' = Ended(r)
  BY DEF CloseTerminal
<1>2. /\ d = row[r].owner
      /\ row[r].release \in {"releasing", "released"}
      /\ worker[d].pane = row[r].pane
      /\ worker[d].proc = row[r].proc
      /\ worker[d].state = "settled"
  BY DEF CloseTerminal, Custody, JobsMatch
<1>3. term' \in {term, Killed(worker[d].pane, worker[d].proc)}
  BY DEF CloseTerminal, SettleRelease
<1>4. term' \in [Panes -> TermRec] /\ TermsGrow
  BY <1>3, KillKeeps
<1>5. CASE row' = row BY <1>1, <1>4, <1>5, EndedKeeps
<1>6. CASE row' = MarkUnknown(r)
  <2>1. row[r].reason \in Reasons BY DEF Typed, RowsTyped, RowRec
  <2>. QED BY <1>1, <1>4, <1>6, <2>1, UnlessKeeps DEF MarkUnknown
<1>7. CASE SettleRelease(r) /\ row[r].release \in Pending
  <2>1. row' = [row EXCEPT ![r] = ReleasedRow(r)] BY <1>7 DEF SettleRelease
  <2>2. Update(ReleasedRow(r), row[r], "released", "released", None)
    BY DEF Update, ReleasedRow
  <2>3. "released" \in Owns /\ "released" \in Releases /\ None \in Reasons
    BY DEF Owns, Releases, Reasons
  <2>4. RowsTyped' /\ Written(r, "released", "released", None) /\ Others(r)
    BY <2>1, <2>2, <2>3, OneRow
  <2>5. IsRow(r) /\ row[r].pane \in Panes
    BY <1>7 DEF Custody, ReleaseSettled, RowsNamed, IsRow
  <2>6. ~Running(row[r].pane, row[r].proc)'
    BY <1>2, <1>7, <2>4, <2>5 DEF SettleRelease, Killed, Running, Written, Typed, TermRec
  <2>7. \A x \in Dispatches : job'[x] \in {job[x], NoJob} BY <1>1 DEF Ended, Typed
  <2>8. Custody'
    BY <1>1, <1>2, <1>4, <2>4, <2>5, <2>6, <2>7, ReleasedKeeps DEF Settled
  <2>9. NoJob \in JobRec BY DEF NoJob, JobRec
  <2>10. Typed' BY <1>1, <1>4, <2>4, <2>9 DEF Ended, Typed
  <2>. QED BY <2>8, <2>10, TypedNext
<1>8. CASE SettleRelease(r) /\ row[r].release \notin Pending
  <2>1. row' = row BY <1>8 DEF SettleRelease
  <2>. QED BY <2>1, <1>5
<1>. QED BY <1>5, <1>6, <1>7, <1>8 DEF CloseTerminal

-----------------------------------------------------------------------------
(* Starting a worker *)

(* A dispatch that starts or has started, and its one row.                  *)
LEMMA OwnRowKeeps ==
  ASSUME IInv, NEW d \in Dispatches, NEW r \in Dispatches, NEW p \in Panes, NEW n \in Nat,
         UNCHANGED <<archive, job, taken>>, TermsGrow,
         worker[d].state \in {"absent", "starting"},
         \A e \in Dispatches \ {d} : worker'[e] = worker[e] /\ boot'[e] = boot[e],
         worker'[d].state \in {"starting", "working"},
         worker'[d].pane = p, worker'[d].proc \in {0, n}, boot'[d] \in {0, n},
         worker'[d].state = "starting" => r = d,
         worker'[d].proc # 0 => \A e \in Dispatches : Bound(e) => worker[e].pane # p,
         Others(r),
         row'[r].own \in Owns \ {"none", "released"},
         row'[r].release \in {"not_requested", "retained"},
         row'[r].owner = d, row'[r].pane = p, row'[r].proc = n, n \in 1 .. term'[p].inc,
         row'[r].own = "owned" => <<p, n>> \notin taken,
         \A x \in Dispatches \ {r} : IsRow(x) => row[x].owner # d,
         IsRow(r) => row[r].owner = d \/ worker[row[r].owner].state \in Settled,
         ~IsRow(r) => r = d,
         job[r].step # "close"
  PROVE Custody'
<1>. USE TypedIff DEF IInv
<1>1. \A q \in Panes : term[q].inc \in Nat BY DEF Typed, TermRec
<1>2. IsRow(r)' /\ \A x \in Dispatches \ {r} : (IsRow(x)' <=> IsRow(x)) /\ row'[x] = row[x]
  BY DEF IsRow, Others
<1>3. \A x \in Dispatches \ {r} : IsRow(x) =>
        /\ row[x].owner \in Dispatches \ {d}
        /\ worker'[row[x].owner] = worker[row[x].owner]
        /\ boot'[row[x].owner] = boot[row[x].owner]
  BY DEF Custody, RowsNamed
<1>4. RowsNamed' BY <1>1, <1>2 DEF Custody, RowsNamed, TermsGrow, Running
<1>5. Slots' BY <1>2, <1>3 DEF Custody, Slots, Settled
<1>6. RowsApart' BY <1>2, <1>3 DEF Custody, RowsApart
<1>7. OwnerMatches' BY <1>2, <1>3 DEF Custody, OwnerMatches
<1>8. ReleaseSettled' BY <1>2, <1>3 DEF Custody, ReleaseSettled, Pending, IsRow
<1>9. JobsMatch' BY <1>2 DEF Custody, JobsMatch
<1>10. \A e \in Dispatches \ {d} : Bound(e)' <=> Bound(e) BY DEF Bound
<1>11. BoundAlone' BY <1>10 DEF Custody, BoundAlone, Bound
<1>12. BoundOwns'
  <2>1. ASSUME NEW e \in Dispatches \ {d}, Bound(e)
        PROVE  \E x \in Dispatches : /\ IsRow(x)'
                                     /\ row'[x].owner = e
                                     /\ row'[x].proc = worker'[e].proc
    <3>1. PICK x \in Dispatches : IsRow(x) /\ row[x].owner = e /\ row[x].proc = worker[e].proc
      BY <2>1 DEF Custody, BoundOwns
    <3>2. x # r BY <2>1, <3>1 DEF Bound, Active, Settled
    <3>. QED BY <1>2, <3>1, <3>2
  <2>2. Bound(d)' => worker'[d].proc = n BY DEF Bound
  <2>. QED BY <1>2, <1>10, <2>1, <2>2 DEF BoundOwns
<1>13. TakenLost'
  <2>1. ASSUME NEW q \in Panes, NEW m \in Nat, <<q, m>> \in taken PROVE m <= term'[q].inc
    <3>1. m <= term[q].inc BY <2>1 DEF Custody, TakenLost
    <3>2. term'[q].inc \in Nat /\ term[q].inc <= term'[q].inc BY DEF TermsGrow
    <3>. QED BY <1>1, <3>1, <3>2
  <2>2. ASSUME NEW x \in Dispatches, row'[x].own = "owned"
        PROVE  <<row'[x].pane, row'[x].proc>> \notin taken
    <3>1. CASE x = r BY <2>2, <3>1
    <3>2. CASE x # r BY <2>2, <3>2, <1>2 DEF Custody, TakenLost
    <3>. QED BY <3>1, <3>2
  <2>. QED BY <2>1, <2>2 DEF TakenLost
<1>14. Kept'
  <2>1. ASSUME NEW x \in Dispatches, IsRow(x)',
               row'[x].release = "releasing" \/ job[x].step = "close"
        PROVE  archive[row'[x].owner] = x
    <3>1. x # r BY <2>1
    <3>. QED BY <2>1, <3>1, <1>2 DEF Custody, Kept
  <2>. QED BY <2>1 DEF Kept
<1>15. Gone'
  <2>1. ASSUME NEW x \in Dispatches, row'[x].own = "released"
        PROVE  ~Running(row[x].pane, row[x].proc)'
    <3>1. x # r /\ row'[x] = row[x] BY <2>1, <1>2
    <3>2. IsRow(x) /\ ~Running(row[x].pane, row[x].proc) BY <2>1, <3>1 DEF Custody, Gone, IsRow
    <3>3. row[x].pane \in Panes /\ row[x].proc \in 0 .. term[row[x].pane].inc
      BY <1>1, <3>2 DEF Custody, RowsNamed
    <3>. QED BY <3>1, <3>2, <3>3 DEF TermsGrow, Running
  <2>. QED BY <2>1 DEF Gone, Running
<1>. QED
  BY <1>4, <1>5, <1>6, <1>7, <1>8, <1>9, <1>11, <1>12, <1>13, <1>14, <1>15 DEF Custody

(* A start that has no row of its own yet, or that ends before its          *)
(* authority.                                                               *)
LEMMA StartKeeps ==
  ASSUME IInv, NEW d \in Dispatches,
         UNCHANGED <<term, row, archive, job, taken>>,
         worker[d].state \in {"absent", "starting"},
         \A e \in Dispatches \ {d} : worker'[e] = worker[e] /\ boot'[e] = boot[e],
         worker'[d].state \in {"starting", "settled"},
         worker'[d].state = "starting" => worker'[d].proc = 0,
         worker'[d].pane \in Panes,
         \A r \in Dispatches : IsRow(r) /\ row[r].owner = d =>
           /\ worker'[d].pane = row[r].pane
           /\ worker'[d].proc \in {0, row[r].proc}
           /\ boot'[d] \in {0, row[r].proc}
  PROVE Custody'
<1>. USE TypedIff DEF IInv
<1>1. \A r \in Dispatches : IsRow(r)' <=> IsRow(r) BY DEF IsRow
<1>2. RowsNamed' BY <1>1 DEF Custody, RowsNamed
<1>3. Slots' BY <1>1 DEF Custody, Slots
<1>4. RowsApart' BY <1>1 DEF Custody, RowsApart
<1>5. OwnerMatches' BY <1>1 DEF Custody, OwnerMatches, RowsNamed
<1>6. ReleaseSettled' BY DEF Custody, ReleaseSettled, RowsNamed, IsRow, Settled
<1>7. JobsMatch' BY DEF Custody, JobsMatch
<1>8. \A e \in Dispatches : Bound(e)' <=> e # d /\ Bound(e)
  BY DEF Bound, Active, Custody, Slots
<1>9. BoundAlone' BY <1>8 DEF Custody, BoundAlone
<1>10. BoundOwns' BY <1>1, <1>8 DEF Custody, BoundOwns
<1>11. TakenLost' BY DEF Custody, TakenLost
<1>12. Kept' BY <1>1 DEF Custody, Kept
<1>13. Gone' BY DEF Custody, Gone, Running
<1>. QED
  BY <1>2, <1>3, <1>4, <1>5, <1>6, <1>7, <1>9, <1>10, <1>11, <1>12, <1>13 DEF Custody

LEMMA FreeOfRows ==
  ASSUME IInv, NEW d \in Dispatches, worker[d].state = "absent"
  PROVE /\ worker[d].proc = 0 /\ boot[d] = 0 /\ ~IsRow(d)
        /\ \A r \in Dispatches : IsRow(r) => row[r].owner # d
BY DEF IInv, Custody, Slots

LEMMA NoJobWithoutRow ==
  ASSUME IInv, NEW r \in Dispatches, ~IsRow(r) PROVE job[r].step # "close"
BY DEF IInv, Custody, JobsMatch, ReleaseSettled, IsRow, TypeOK, Pending

LEMMA StartInKeeps ==
  ASSUME IInv, NEW d \in Dispatches, NEW p \in Panes, StartWorkerIn(d, p)
  PROVE TypeOK' /\ Custody'
<1>. USE TypedIff DEF IInv
<1>1. /\ UNCHANGED <<term, row, archive, job, asked, stopper, taken, restarts>>
      /\ worker[d].state = "absent"
      /\ worker' = [worker EXCEPT ![d] = [worker[d] EXCEPT !.state = "starting", !.pane = p]]
      /\ boot' = [boot EXCEPT ![d] = term[p].inc]
  BY DEF StartWorkerIn, Typed
<1>2. [worker[d] EXCEPT !.state = "starting", !.pane = p] \in WorkerRec
  BY DEF Typed, WorkerRec, Active
<1>3. term[p].inc \in 0 .. MaxInc BY DEF Typed, TermRec
<1>4. Typed' BY <1>1, <1>2, <1>3 DEF Typed, RowsTyped
<1>5. /\ \A e \in Dispatches \ {d} : worker'[e] = worker[e] /\ boot'[e] = boot[e]
      /\ worker'[d].state = "starting" /\ worker'[d].pane = p
      /\ worker'[d].proc = worker[d].proc
  BY <1>1 DEF Typed, WorkerRec
<1>6. Custody' BY <1>1, <1>5, FreeOfRows, StartKeeps
<1>. QED BY <1>4, <1>6, TypedNext

LEMMA FailKeeps ==
  ASSUME IInv, NEW d \in Dispatches, FailStart(d) PROVE TypeOK' /\ Custody'
<1>. USE TypedIff DEF IInv
<1>. DEFINE n == IF OwnedBy(d) = {} THEN 0 ELSE row[CHOOSE r \in OwnedBy(d) : TRUE].proc
<1>1. /\ UNCHANGED <<term, row, archive, job, asked, stopper, taken, restarts>>
      /\ worker[d].state = "starting"
      /\ worker' = [worker EXCEPT ![d] = [worker[d] EXCEPT !.state = "settled", !.proc = n]]
      /\ boot' = [boot EXCEPT ![d] = 0]
  BY DEF FailStart, Typed
<1>2. ASSUME NEW r \in Dispatches, IsRow(r), row[r].owner = d PROVE n = row[r].proc
  <2>1. r \in OwnedBy(d) BY <1>2 DEF OwnedBy, Rows, IsRow
  <2>2. \A x \in OwnedBy(d) : x = r
    BY <1>2 DEF OwnedBy, Rows, IsRow, Custody, RowsApart
  <2>. QED BY <2>1, <2>2
<1>3. n \in 0 .. MaxInc
  <2>1. CASE OwnedBy(d) = {} BY <2>1, CustodyConstants
  <2>2. CASE OwnedBy(d) # {}
    <3>1. PICK r \in Dispatches : IsRow(r) /\ row[r].owner = d
      BY <2>2 DEF OwnedBy, Rows, IsRow
    <3>2. n = row[r].proc BY <3>1, <1>2
    <3>. QED BY <3>2 DEF Typed, RowsTyped, RowRec
  <2>. QED BY <2>1, <2>2
<1>. HIDE DEF n
<1>4. [worker[d] EXCEPT !.state = "settled", !.proc = n] \in WorkerRec
  BY <1>3 DEF Typed, WorkerRec, Settled
<1>5. Typed' BY <1>1, <1>4, CustodyConstants DEF Typed, RowsTyped
<1>6. /\ \A e \in Dispatches \ {d} : worker'[e] = worker[e] /\ boot'[e] = boot[e]
      /\ worker'[d].state = "settled" /\ worker'[d].proc = n
      /\ worker'[d].pane = worker[d].pane
      /\ boot'[d] = 0
  BY <1>1 DEF Typed, WorkerRec
<1>7. worker[d].pane \in Panes BY <1>1 DEF Custody, Slots
<1>8. \A r \in Dispatches : IsRow(r) /\ row[r].owner = d =>
        worker[d].pane = row[r].pane /\ n = row[r].proc
  BY <1>2 DEF Custody, OwnerMatches
<1>9. Custody' BY <1>1, <1>6, <1>7, <1>8, StartKeeps
<1>. QED BY <1>5, <1>9, TypedNext

LEMMA NewRowIs ==
  ASSUME NEW d \in Dispatches, NEW p \in Panes, NEW own \in {"owned", "external"},
         term'[p].inc \in 0 .. MaxInc
  PROVE \E v \in RowRec :
          /\ v = NewRow(d, p, own)
          /\ v.own = own /\ v.release = "not_requested"
          /\ v.owner = d /\ v.pane = p /\ v.proc = term'[p].inc
<1>. DEFINE reason == IF own = "external" THEN "external_terminal" ELSE None
            new == [own |-> own, release |-> "not_requested", reason |-> reason,
                    owner |-> d, former |-> {}, pane |-> p, proc |-> term'[p].inc]
<1>1. reason \in Reasons BY DEF Reasons
<1>2. NewRow(d, p, own) = new
  <2>. HIDE DEF reason
  <2>1. NewRow(d, p, own) =
          [[own |-> "none", release |-> "not_requested", reason |-> None,
            owner |-> None, former |-> {}, pane |-> None, proc |-> 0]
             EXCEPT !.own = own, !.owner = d, !.pane = p, !.proc = term'[p].inc,
                    !.reason = reason]
    BY DEF NewRow, NoRow, reason
  <2>. QED BY <2>1
<1>. HIDE DEF reason
<1>3. new \in RowRec BY <1>1 DEF RowRec, Owns, Releases
<1>. QED BY <1>2, <1>3

LEMMA RowPlaced ==
  ASSUME Typed, NEW r \in Dispatches, NEW v \in RowRec,
         v.own # "released", v.release # "released",
         row' = [row EXCEPT ![r] = v]
  PROVE RowsTyped' /\ Others(r) /\ row'[r] = v
<1>1. row'[r] = v /\ Others(r) BY DEF Typed, RowsTyped, Others
<1>2. RowsTyped' BY <1>1 DEF Typed, RowsTyped, Others
<1>. QED BY <1>1, <1>2

LEMMA StartWorkerKeeps ==
  ASSUME IInv, NEW d \in Dispatches, NEW p \in Panes, StartWorker(d, p)
  PROVE TypeOK' /\ Custody'
<1>. USE TypedIff DEF IInv
<1>1. /\ UNCHANGED <<archive, job, asked, stopper, taken, restarts>>
      /\ worker[d].state = "absent"
      /\ term[p].inc = 0
      /\ term' = [term EXCEPT ![p] = [inc |-> term[p].inc + 1, alive |-> TRUE, known |-> TRUE]]
      /\ worker' = [worker EXCEPT ![d] = [worker[d] EXCEPT !.state = "starting", !.pane = p]]
      /\ boot' = [boot EXCEPT ![d] = term'[p].inc]
      /\ row' = [row EXCEPT ![d] = NewRow(d, p, "owned")]
  BY DEF StartWorker, Spawned, Typed
<1>2. [worker[d] EXCEPT !.state = "starting", !.pane = p] \in WorkerRec
  BY DEF Typed, WorkerRec, Active
<1>3. term'[p].inc = 1 /\ 1 \in 0 .. MaxInc
  BY <1>1, CustodyConstants DEF Typed
<1>4. term' \in [Panes -> TermRec] /\ TermsGrow
  <2>1. [inc |-> term[p].inc + 1, alive |-> TRUE, known |-> TRUE] \in TermRec
    BY <1>1, CustodyConstants DEF TermRec
  <2>2. term' \in [Panes -> TermRec] BY <1>1, <2>1 DEF Typed
  <2>3. \A q \in Panes : term'[q] = term[q] \/ (q = p /\ term'[q].inc = 1)
    BY <1>1, <1>3 DEF Typed
  <2>. QED BY <1>1, <2>2, <2>3, CustodyConstants DEF TermsGrow, Running, Typed, TermRec
<1>5. /\ RowsTyped' /\ Others(d)
      /\ row'[d].own = "owned" /\ row'[d].release = "not_requested"
      /\ row'[d].owner = d /\ row'[d].pane = p /\ row'[d].proc = term'[p].inc
  <2>1. PICK v \in RowRec : /\ v = NewRow(d, p, "owned")
                           /\ v.own = "owned" /\ v.release = "not_requested"
                           /\ v.owner = d /\ v.pane = p /\ v.proc = term'[p].inc
    BY <1>3, NewRowIs
  <2>2. row' = [row EXCEPT ![d] = v] BY <1>1, <2>1
  <2>. QED BY <2>1, <2>2, RowPlaced
<1>6. Typed' BY <1>1, <1>2, <1>3, <1>4, <1>5 DEF Typed
<1>7. /\ \A e \in Dispatches \ {d} : worker'[e] = worker[e] /\ boot'[e] = boot[e]
      /\ worker'[d].state = "starting" /\ worker'[d].pane = p
      /\ worker'[d].proc = worker[d].proc /\ boot'[d] = term'[p].inc
  BY <1>1 DEF Typed, WorkerRec
<1>8. <<p, 1>> \notin taken BY <1>1 DEF Custody, TakenLost
<1>9. "owned" \in Owns \ {"none", "released"} /\ 1 \in Nat /\ 1 \in 1 .. 1 BY DEF Owns
<1>10. worker[d].proc = 0 /\ ~IsRow(d) /\ job[d].step # "close"
       /\ \A r \in Dispatches : IsRow(r) => row[r].owner # d
  BY <1>1, FreeOfRows, NoJobWithoutRow
<1>11. Custody'
  BY <1>1, <1>3, <1>4, <1>5, <1>7, <1>8, <1>9, <1>10, OwnRowKeeps
<1>. QED BY <1>6, <1>11, TypedNext

LEMMA PrepareKeeps ==
  ASSUME IInv, NEW d \in Dispatches, PrepareAuthority(d) PROVE TypeOK' /\ Custody'
<1>. USE TypedIff DEF IInv
<1>1. PICK p \in Panes : p = worker[d].pane
  BY DEF PrepareAuthority, Custody, Slots
<1>2. PICK n \in Nat : n = term[p].inc /\ n \in 0 .. MaxInc
  BY <1>1, CustodyConstants DEF Typed, TermRec
<1>3. /\ UNCHANGED <<term, archive, job, asked, stopper, taken, restarts>>
      /\ worker[d].state = "starting"
      /\ boot[d] # 0 /\ boot[d] = n
      /\ worker' = [worker EXCEPT ![d] = [worker[d] EXCEPT !.state = "working", !.proc = n]]
      /\ boot' = [boot EXCEPT ![d] = 0]
  BY <1>1, <1>2 DEF PrepareAuthority, Running, Typed
<1>4. [worker[d] EXCEPT !.state = "working", !.proc = n] \in WorkerRec
  BY <1>2 DEF Typed, WorkerRec, Active
<1>5. /\ \A e \in Dispatches \ {d} : worker'[e] = worker[e] /\ boot'[e] = boot[e]
      /\ worker'[d].state = "working" /\ worker'[d].pane = p
      /\ worker'[d].proc = n /\ boot'[d] = 0
  BY <1>3, <1>1 DEF Typed, WorkerRec
<1>6. \A e \in Dispatches : Bound(e) => worker[e].pane # p BY <1>1 DEF PrepareAuthority
<1>7. TermsGrow BY <1>3, SameTerms
<1>8. RowsTyped' => Typed' BY <1>3, <1>4, CustodyConstants DEF Typed
<1>9. term'[p].inc = n /\ n \in 1 .. n BY <1>3, <1>2
<1>10. CASE OwnedBy(d) # {}
  <2>1. row' = row BY <1>10 DEF PrepareAuthority
  <2>2. PICK r \in Dispatches : IsRow(r) /\ row[r].owner = d
    BY <1>10 DEF OwnedBy, Rows, IsRow
  <2>3. row[r].pane = p /\ row[r].proc = n
    BY <1>3, <1>1, <2>2 DEF Custody, OwnerMatches
  <2>4. row[r].own \notin {"none", "released"} /\ row[r].release \notin Pending
    BY <1>3, <2>2 DEF Custody, ReleaseSettled, IsRow, Settled
  <2>5. row[r].own \in Owns /\ row[r].release \in {"not_requested", "retained"}
    BY <2>4 DEF Typed, RowsTyped, RowRec, Releases
  <2>6. job[r].step # "close"
    BY <2>4, <2>5 DEF Custody, JobsMatch
  <2>7. \A x \in Dispatches \ {r} : IsRow(x) => row[x].owner # d
    BY <2>2 DEF Custody, RowsApart
  <2>8. row[r].own = "owned" => <<p, n>> \notin taken
    BY <2>3 DEF Custody, TakenLost
  <2>9. Custody'
    BY <1>3, <1>1, <1>2, <1>5, <1>6, <1>7, <2>1, <2>2, <2>3, <2>4, <2>5, <2>6, <2>7, <2>8,
       <1>9, OwnRowKeeps DEF Others
  <2>10. RowsTyped' BY <2>1 DEF Typed, RowsTyped
  <2>. QED BY <1>8, <2>9, <2>10, TypedNext
<1>11. CASE OwnedBy(d) = {}
  <2>1. \A x \in Dispatches : IsRow(x) => row[x].owner # d
    BY <1>11 DEF OwnedBy, Rows, IsRow
  <2>2. ~IsRow(d) BY <1>3, <2>1 DEF Custody, Slots
  <2>3. Adopt(d, p) BY <1>1, <1>11 DEF PrepareAuthority
  <2>4. CASE row' = [row EXCEPT ![d] = NewRow(d, p, "external")]
    <3>1. /\ RowsTyped' /\ Others(d)
          /\ row'[d].own = "external" /\ row'[d].release = "not_requested"
          /\ row'[d].owner = d /\ row'[d].pane = p /\ row'[d].proc = n
      <4>1. term'[p].inc \in 0 .. MaxInc BY <1>2, <1>9
      <4>2. PICK v \in RowRec : /\ v = NewRow(d, p, "external")
                               /\ v.own = "external" /\ v.release = "not_requested"
                               /\ v.owner = d /\ v.pane = p /\ v.proc = term'[p].inc
        BY <4>1, NewRowIs
      <4>3. row' = [row EXCEPT ![d] = v] BY <2>4, <4>2
      <4>. QED BY <1>9, <4>2, <4>3, RowPlaced
    <3>2. /\ row'[d].own \in Owns \ {"none", "released"} /\ row'[d].own # "owned"
          /\ row'[d].release \in {"not_requested", "retained"}
          /\ n \in 1 .. term'[p].inc
          /\ \A x \in Dispatches \ {d} : IsRow(x) => row[x].owner # d
      BY <1>9, <2>1, <3>1 DEF Owns
    <3>3. job[d].step # "close" BY <2>2, NoJobWithoutRow
    <3>4. Custody'
      BY <1>3, <1>1, <1>2, <1>5, <1>6, <1>7, <1>9, <2>1, <2>2, <3>1, <3>2, <3>3, OwnRowKeeps
    <3>. QED BY <1>8, <3>1, <3>4, TypedNext
  <2>5. ASSUME NEW r \in Transferable(On(p, n) \cap Unreleased),
               row' = [row EXCEPT ![r] =
                 [@ EXCEPT !.owner = d, !.former = row[r].former \cup {row[r].owner},
                           !.release = "not_requested", !.reason = None]]
        PROVE  TypeOK' /\ Custody'
    <3>1. /\ r \in Dispatches /\ IsRow(r)
          /\ row[r].pane = p /\ row[r].proc = n
          /\ row[r].own = "owned" /\ row[r].release \in {"not_requested", "retained"}
          /\ worker[row[r].owner].state \in Settled
      BY <2>5 DEF Transferable, On, Unreleased, Rows, IsRow
    <3>2. row[r].owner \in Dispatches BY <3>1 DEF Custody, RowsNamed
    <3>. DEFINE former == row[r].former \cup {row[r].owner}
                new == [row[r] EXCEPT !.owner = d, !.former = former,
                                      !.release = "not_requested", !.reason = None]
    <3>3. row[r] \in RowRec BY <3>1 DEF Typed, RowsTyped
    <3>4. former \in SUBSET Dispatches BY <3>2, <3>3 DEF RowRec
    <3>5. row' = [row EXCEPT ![r] = new]
      BY <2>5, <3>1 DEF Typed, RowsTyped
    <3>. HIDE DEF former
    <3>6. /\ new \in RowRec /\ new.own = "owned" /\ new.release = "not_requested"
          /\ new.owner = d /\ new.pane = p /\ new.proc = n
      BY <3>1, <3>3, <3>4 DEF RowRec, Releases, Reasons
    <3>. HIDE DEF new
    <3>7. row'[r] = new /\ Others(r)
      BY <3>1, <3>5 DEF Typed, RowsTyped, Others
    <3>8. RowsTyped'
      BY <3>1, <3>5, <3>6, <3>7 DEF Typed, RowsTyped, Others
    <3>9. "owned" \in Owns \ {"none", "released"} BY DEF Owns
    <3>10. job[r].step # "close" BY <3>1 DEF Custody, JobsMatch
    <3>11. <<p, n>> \notin taken BY <3>1 DEF Custody, TakenLost
    <3>12. Custody'
      BY <1>3, <1>1, <1>2, <1>5, <1>6, <1>7, <2>1, <3>1, <3>6, <3>7, <3>9, <3>10, <3>11,
         <1>9, OwnRowKeeps
    <3>. QED BY <1>8, <3>8, <3>12, TypedNext
  <2>. QED BY <1>2, <2>3, <2>4, <2>5 DEF Adopt
<1>. QED BY <1>10, <1>11

-----------------------------------------------------------------------------
(* The theorems *)

LEMMA InitCustody == Init => IInv
<1>. SUFFICES ASSUME Init PROVE IInv OBVIOUS
<1>1. NoRow \in RowRec /\ NoRow.own = "none" /\ NoRow.release = "not_requested"
  BY CustodyConstants DEF NoRow, RowRec, Owns, Releases, Reasons
<1>2. NoJob \in JobRec /\ NoJob.step = "none"
  BY DEF NoJob, JobRec
<1>3. Typed
  BY <1>1, <1>2, CustodyConstants DEF Init, Typed, RowsTyped, TermRec, WorkerRec
<1>4. \A r \in Dispatches : /\ ~IsRow(r)
                            /\ row[r].own = "none"
                            /\ row[r].release = "not_requested"
                            /\ job[r].step = "none"
                            /\ worker[r].state = "absent" /\ worker[r].proc = 0
                            /\ boot[r] = 0
  BY <1>1, <1>2 DEF Init, IsRow
<1>5. RowsNamed BY <1>4 DEF Init, RowsNamed
<1>6. Slots BY <1>4 DEF Slots
<1>7. RowsApart /\ OwnerMatches BY <1>4 DEF RowsApart, OwnerMatches
<1>8. ReleaseSettled BY <1>4 DEF ReleaseSettled, Pending
<1>9. JobsMatch BY <1>4 DEF JobsMatch
<1>10. BoundAlone /\ BoundOwns BY <1>4 DEF BoundAlone, BoundOwns, Bound, Active
<1>11. TakenLost BY <1>4 DEF Init, TakenLost
<1>12. Kept /\ Gone BY <1>4 DEF Kept, Gone
<1>. QED
  BY <1>3, <1>5, <1>6, <1>7, <1>8, <1>9, <1>10, <1>11, <1>12, TypedIff DEF IInv, Custody

LEMMA NextCustody == IInv /\ [Next]_vars => IInv'
<1>. SUFFICES ASSUME IInv, [Next]_vars PROVE TypeOK' /\ Custody'
  BY DEF IInv
<1>1. CASE UNCHANGED vars
  <2>1. TypeOK' BY <1>1 DEF IInv, TypeOK, vars
  <2>2. WorkersMove
    BY <1>1, TypedIff DEF IInv, vars, WorkersMove, TermsGrow, Running, Typed, TermRec
  <2>. QED BY <2>1, <2>2, CustodyKept
<1>2. CASE Restart BY <1>2, RestartKeeps
<1>3. ASSUME NEW p \in Panes, OpenTerminal(p) \/ Discover(p) \/ Exit(p)
      PROVE  TypeOK' /\ Custody'
  BY <1>3, TerminalsKeep
<1>4. ASSUME NEW p \in Panes, Replace(p) PROVE TypeOK' /\ Custody'
  BY <1>4, ReplaceKeeps
<1>5. ASSUME NEW p \in Panes, UserInput(p) PROVE TypeOK' /\ Custody'
  BY <1>5, UserInputKeeps
<1>6. ASSUME NEW p \in Panes, NEW d \in Dispatches, StartWorker(d, p)
      PROVE  TypeOK' /\ Custody'
  BY <1>6, StartWorkerKeeps
<1>7. ASSUME NEW p \in Panes, NEW d \in Dispatches, StartWorkerIn(d, p)
      PROVE  TypeOK' /\ Custody'
  BY <1>7, StartInKeeps
<1>8. ASSUME NEW d \in Dispatches, PrepareAuthority(d) PROVE TypeOK' /\ Custody'
  BY <1>8, PrepareKeeps
<1>9. ASSUME NEW d \in Dispatches, FailStart(d) PROVE TypeOK' /\ Custody'
  BY <1>9, FailKeeps
<1>10. ASSUME NEW d \in Dispatches,
              \/ \E state \in Settled : FinishWorker(d, state)
              \/ BeginStop(d)
              \/ InspectStop(d)
              \/ CloseStopped(d)
              \/ DeclineRelease(d)
       PROVE  TypeOK' /\ Custody'
  BY <1>10, WorkersKeep
<1>11. ASSUME NEW d \in Dispatches, RequestRelease(d) PROVE TypeOK' /\ Custody'
  BY <1>11, RequestKeeps
<1>12. ASSUME NEW d \in Dispatches, AnswerDeclined(d) PROVE TypeOK' /\ Custody'
  BY <1>12, AnswerKeeps
<1>13. ASSUME NEW d \in Dispatches, RetainTerminal(d) PROVE TypeOK' /\ Custody'
  BY <1>13, RetainKeeps
<1>14. ASSUME NEW d \in Dispatches, InspectRelease(d) PROVE TypeOK' /\ Custody'
  BY <1>14, InspectKeeps
<1>15. ASSUME NEW d \in Dispatches, ProbeRelease(d) PROVE TypeOK' /\ Custody'
  BY <1>15, ProbeKeeps
<1>16. ASSUME NEW d \in Dispatches, CaptureOutput(d) PROVE TypeOK' /\ Custody'
  BY <1>16, CaptureKeeps
<1>17. ASSUME NEW d \in Dispatches, CloseTerminal(d) PROVE TypeOK' /\ Custody'
  BY <1>17, CloseKeeps
<1>18. ASSUME NEW d \in Dispatches, RecoverRelease(d) PROVE TypeOK' /\ Custody'
  BY <1>18, RecoverKeeps
<1>. QED
  BY <1>1, <1>2, <1>3, <1>4, <1>5, <1>6, <1>7, <1>8, <1>9, <1>10, <1>11, <1>12, <1>13,
     <1>14, <1>15, <1>16, <1>17, <1>18 DEF Next

LEMMA CustodyHolds == Spec => []IInv
BY InitCustody, NextCustody, PTL DEF Spec

(* The tables and the memory of the runtime keep their types, and the two   *)
(* columns of a row that say it is released agree                           *)
(* (worker_terminal_resources).                                             *)
THEOREM CustodyTyped == Spec => []TypeOK
<1>1. IInv => TypeOK BY DEF IInv
<1>. QED BY <1>1, CustodyHolds, PTL

(* While a release is committed, and until its job ends, the output of the  *)
(* worker is archived under the owner of the row, for any number of         *)
(* workers, panes, takeovers, retries and restarts                          *)
(* (commitWorkerTerminalArchiveForRelease).                                 *)
THEOREM OutputStaysKept == Spec => []OutputIsKept
<1>1. IInv => OutputIsKept BY DEF IInv, Custody, Kept, OutputIsKept, Rows, IsRow
<1>. QED BY <1>1, CustodyHolds, PTL

(* A row recorded as released names a process that has gone, however the    *)
(* close, the process list and a restart answered                           *)
(* (settleWorkerTerminalRelease, settleDeadWorkerTerminalRelease).          *)
THEOREM ReleasedStaysGone == Spec => []ReleasedIsGone
<1>1. IInv => ReleasedIsGone BY DEF IInv, Custody, Gone, ReleasedIsGone, Rows
<1>. QED BY <1>1, CustodyHolds, PTL

(* A stop closes the dispatch's own process. *)
LEMMA StopIsMine ==
  ASSUME IInv, NEW d \in Dispatches, worker[d].state = "stopping", MayStop(d)
  PROVE Mine(d, worker[d].pane, term[worker[d].pane].inc)
<1>. USE DEF IInv
<1>1. PICK r \in Dispatches : IsRow(r) /\ row[r].owner = d /\ row[r].own = "owned"
  BY DEF MayStop, OwnedBy, Rows, IsRow
<1>2. /\ worker[d].proc # 0
      /\ worker[d].proc = term[worker[d].pane].inc
      /\ row[r].pane = worker[d].pane
      /\ row[r].proc = worker[d].proc
  BY <1>1 DEF MayStop, Running, Custody, OwnerMatches
<1>3. r \in OwnedBy(d) /\ r \in On(worker[d].pane, term[worker[d].pane].inc)
  BY <1>1, <1>2 DEF OwnedBy, On, Rows, IsRow
<1>4. \A e \in Dispatches \ {d} : Bound(e) => worker[e].pane # worker[d].pane
  BY <1>2 DEF Custody, BoundAlone, Bound, Active
<1>5. <<worker[d].pane, term[worker[d].pane].inc>> \notin taken
  BY <1>1, <1>2 DEF Custody, TakenLost
<1>. QED BY <1>1, <1>2, <1>3, <1>4, <1>5 DEF Mine

(* A release closes the process of its row's owner, who has settled. *)
LEMMA ReleaseIsMine ==
  ASSUME IInv, NEW r \in Dispatches, NEW o \in Dispatches, o = job[r].by,
         job[r].step # "none", row[r].owner = o, row[r].own = "owned",
         LeaseIsCurrent(o, r)
  PROVE Mine(o, row[r].pane, term[row[r].pane].inc) /\ worker[o].state = "settled"
<1>. USE DEF IInv
<1>1. IsRow(r) /\ worker[o].state = "settled"
  BY DEF Custody, JobsMatch, IsRow
<1>2. /\ worker[o].pane = row[r].pane
      /\ worker[o].proc = row[r].proc
      /\ term[row[r].pane].inc = row[r].proc
  BY <1>1 DEF LeaseIsCurrent, Exact, Custody, OwnerMatches
<1>3. r \in OwnedBy(o) /\ r \in On(row[r].pane, row[r].proc)
  BY <1>1 DEF OwnedBy, On, Rows, IsRow
<1>4. ASSUME NEW e \in Dispatches \ {o}, Bound(e),
             worker[e].pane = row[r].pane, worker[e].proc = row[r].proc
      PROVE  FALSE
  <2>1. PICK x \in Dispatches : IsRow(x) /\ row[x].owner = e /\ row[x].proc = row[r].proc
    BY <1>4 DEF Custody, BoundOwns
  <2>2. row[x].pane = row[r].pane BY <1>4, <2>1 DEF Custody, OwnerMatches
  <2>3. row[x].own # "released"
    BY <1>4, <2>1 DEF Custody, ReleaseSettled, Bound, Active, Settled
  <2>4. x \in On(row[r].pane, row[r].proc) \cap Unreleased
    BY <2>1, <2>2, <2>3 DEF On, Unreleased, Rows, IsRow
  <2>5. x = r BY <2>4 DEF LeaseIsCurrent, NoConflict
  <2>. QED BY <1>4, <2>1, <2>5
<1>5. <<row[r].pane, row[r].proc>> \notin taken
  BY DEF Custody, TakenLost
<1>. QED BY <1>1, <1>2, <1>3, <1>4, <1>5 DEF Mine

LEMMA CommitCloses ==
  ASSUME IInv, NEW r \in Dispatches, job[r].step \in {"inspect", "capture"},
         NEW output, Commit(r, output), job'[r].step = "close"
  PROVE LET o == job[r].by
        IN Mine(o, row[r].pane, term[row[r].pane].inc) /\ worker[o].state = "settled"
<1>. USE TypedIff DEF IInv
<1>. DEFINE d == job[r].by
            next == IF MayCommit(d, r) THEN [row EXCEPT ![r].release = "releasing"] ELSE row
            go == next[r].own = "owned" /\ next[r].release = "releasing"
<1>1. Ended(r)[r].step = "none" BY DEF Ended, NoJob, Typed
<1>2. job' # Ended(r) BY <1>1
<1>3. go /\ LeaseIsCurrent(d, r) BY <1>2 DEF Commit
<1>4. d \in Dispatches BY DEF Custody, JobsMatch
<1>5. CASE MayCommit(d, r)
  BY <1>3, <1>4, <1>5, ReleaseIsMine DEF MayCommit
<1>6. CASE ~MayCommit(d, r)
  <2>1. row[r].own = "owned" /\ row[r].release = "releasing" BY <1>3, <1>6
  <2>2. row[r].owner = d BY <2>1 DEF Custody, JobsMatch
  <2>. QED BY <1>3, <1>4, <2>1, <2>2, ReleaseIsMine
<1>. QED BY <1>5, <1>6

(* The steps that give the order to close a process. *)
LEMMA OnlyCommitCloses ==
  ASSUME IInv, [Next]_vars, NEW r \in Dispatches,
         job[r].step # "close", job'[r].step = "close"
  PROVE job[r].step \in {"inspect", "capture"} /\ \E output : Commit(r, output)
<1>. USE TypedIff DEF IInv
<1>1. job'[r] # job[r] /\ job'[r] # NoJob BY DEF NoJob
<1>2. \A x \in Dispatches : job' = Ended(x) => job'[r] \in {job[r], NoJob}
  BY DEF Ended, Typed
<1>3. \A x \in Dispatches : job' # Ended(x) BY <1>1, <1>2
<1>4. \A x \in Dispatches, st \in {"probe", "capture"} :
        job' = Step(x, st) => job'[r] = job[r] \/ job'[r].step = st
  BY DEF Step, Typed, JobRec
<1>5. \A x \in Dispatches, st \in {"probe", "capture"} : job' # Step(x, st)
  BY <1>1, <1>4
<1>6. ASSUME NEW x \in Dispatches, NEW output, Commit(x, output) PROVE x = r
  <2>1. job' = Step(x, "close") BY <1>3, <1>6 DEF Commit
  <2>. QED BY <1>1, <2>1 DEF Step, Typed
<1>7. \A p \in Panes : ~(OpenTerminal(p) \/ Replace(p) \/ Exit(p) \/ Discover(p) \/ UserInput(p))
  BY <1>1 DEF OpenTerminal, Replace, Exit, Discover, UserInput
<1>8. ~UNCHANGED vars /\ ~Restart
  BY <1>1 DEF vars, Restart
<1>9. \A p \in Panes, d \in Dispatches : ~(StartWorker(d, p) \/ StartWorkerIn(d, p))
  BY <1>1 DEF StartWorker, StartWorkerIn
<1>10. \A d \in Dispatches : ~(PrepareAuthority(d) \/ FailStart(d)
                               \/ (\E state \in Settled : FinishWorker(d, state)))
  BY <1>1 DEF PrepareAuthority, FailStart, FinishWorker
<1>11. \A d \in Dispatches : ~(BeginStop(d) \/ InspectStop(d) \/ CloseStopped(d))
  BY <1>1 DEF BeginStop, InspectStop, CloseStopped
<1>12. \A d \in Dispatches : ~(DeclineRelease(d) \/ AnswerDeclined(d) \/ RetainTerminal(d))
  BY <1>1 DEF DeclineRelease, AnswerDeclined, RetainTerminal
<1>13. \A d \in Dispatches : ~RequestRelease(d)
  <2>1. ASSUME NEW d \in Dispatches, NEW x \in Dispatches,
               job' = [job EXCEPT ![x] = [step |-> "inspect", by |-> d, recovery |-> FALSE]]
        PROVE  FALSE
    BY <1>1, <2>1 DEF Typed
  <2>2. \A d, x : x \in OwnedBy(d) => x \in Dispatches BY DEF OwnedBy, Rows
  <2>. QED BY <1>1, <2>1, <2>2 DEF RequestRelease
<1>14. \A x \in Dispatches : ~RecoverRelease(x)
  BY <1>1 DEF RecoverRelease, Typed
<1>15. \A x \in Dispatches : ~(ProbeRelease(x) \/ CloseTerminal(x))
  BY <1>3 DEF ProbeRelease, CloseTerminal
<1>16. ASSUME NEW x \in Dispatches, InspectRelease(x)
       PROVE  x = r /\ job[x].step = "inspect" /\ \E output : Commit(x, output)
  <2>1. \E output : Commit(x, output) BY <1>3, <1>5, <1>16 DEF InspectRelease
  <2>. QED BY <1>6, <1>16, <2>1 DEF InspectRelease
<1>17. ASSUME NEW x \in Dispatches, CaptureOutput(x)
       PROVE  x = r /\ job[x].step = "capture" /\ \E output : Commit(x, output)
  <2>1. Commit(x, x) BY <1>3, <1>17 DEF CaptureOutput
  <2>. QED BY <1>6, <1>17, <2>1 DEF CaptureOutput
<1>. QED
  BY <1>7, <1>8, <1>9, <1>10, <1>11, <1>12, <1>13, <1>14, <1>15, <1>16, <1>17 DEF Next

LEMMA OnlyInspectCloses ==
  ASSUME IInv, [Next]_vars, NEW d \in Dispatches,
         stopper[d] # "close", stopper'[d] = "close"
  PROVE worker[d].state = "stopping" /\ MayStop(d)
<1>. USE TypedIff DEF IInv
<1>1. stopper' # stopper BY DEF Typed
<1>2. \A p \in Panes : ~(OpenTerminal(p) \/ Replace(p) \/ Exit(p) \/ Discover(p) \/ UserInput(p))
  BY <1>1 DEF OpenTerminal, Replace, Exit, Discover, UserInput
<1>3. ~UNCHANGED vars /\ ~Restart
  BY <1>1 DEF vars, Restart
<1>4. \A p \in Panes, e \in Dispatches : ~(StartWorker(e, p) \/ StartWorkerIn(e, p))
  BY <1>1 DEF StartWorker, StartWorkerIn
<1>5. \A e \in Dispatches : ~(PrepareAuthority(e) \/ FailStart(e)
                              \/ (\E state \in Settled : FinishWorker(e, state)))
  BY <1>1 DEF PrepareAuthority, FailStart, FinishWorker
<1>6. \A e \in Dispatches : ~(DeclineRelease(e) \/ AnswerDeclined(e) \/ RetainTerminal(e)
                              \/ RequestRelease(e) \/ RecoverRelease(e))
  BY <1>1 DEF DeclineRelease, AnswerDeclined, RetainTerminal, RequestRelease, RecoverRelease
<1>7. \A e \in Dispatches : ~(InspectRelease(e) \/ ProbeRelease(e) \/ CaptureOutput(e)
                              \/ CloseTerminal(e))
  BY <1>1 DEF InspectRelease, ProbeRelease, CaptureOutput, CloseTerminal
<1>8. \A e \in Dispatches : ~(BeginStop(e) \/ CloseStopped(e))
  BY DEF BeginStop, CloseStopped, Typed
<1>9. ASSUME NEW e \in Dispatches, InspectStop(e)
      PROVE  worker[d].state = "stopping" /\ MayStop(d)
  <2>1. e = d BY <1>9 DEF InspectStop, Typed
  <2>2. ~(stopper' = [stopper EXCEPT ![d] = "none"]) BY DEF Typed
  <2>. QED BY <1>9, <2>1, <2>2 DEF InspectStop
<1>. QED BY <1>2, <1>3, <1>4, <1>5, <1>6, <1>7, <1>8, <1>9 DEF Next

(* A release and a stop close only a process that is the dispatch's own at  *)
(* the moment they close it, whoever typed, transferred, replaced or        *)
(* restarted since ownership was read (workerTerminalLeaseIsCurrent,        *)
(* worker-stop.ts).                                                         *)
THEOREM OnlyOwnClosed == Spec => OnlyItsOwnIsClosed
<1>. DEFINE P == \A d \in Dispatches :
       /\ (stopper[d] # "close" /\ stopper'[d] = "close")
            => Mine(d, worker[d].pane, term[worker[d].pane].inc)
       /\ (job[d].step # "close" /\ job'[d].step = "close")
            => LET o == job[d].by
               IN /\ Mine(o, row[d].pane, term[row[d].pane].inc)
                  /\ worker[o].state = "settled"
<1>1. ASSUME IInv, [Next]_vars PROVE P
  <2>1. ASSUME NEW d \in Dispatches, stopper[d] # "close", stopper'[d] = "close"
        PROVE  Mine(d, worker[d].pane, term[worker[d].pane].inc)
    BY <1>1, <2>1, OnlyInspectCloses, StopIsMine
  <2>2. ASSUME NEW r \in Dispatches, job[r].step # "close", job'[r].step = "close"
        PROVE  LET o == job[r].by
               IN /\ Mine(o, row[r].pane, term[row[r].pane].inc)
                  /\ worker[o].state = "settled"
    BY <1>1, <2>2, OnlyCommitCloses, CommitCloses
  <2>. QED BY <2>1, <2>2
<1>2. IInv /\ [Next]_vars => [P]_vars BY <1>1
<1>. HIDE DEF P
<1>3. Spec => [][P]_vars BY <1>2, CustodyHolds, PTL DEF Spec
<1>. QED BY <1>3 DEF P, OnlyItsOwnIsClosed

=============================================================================
