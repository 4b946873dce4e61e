--------------------------- MODULE WorkerTerminal ---------------------------
(* Custody of the terminals that workers run in: which dispatch owns a      *)
(* terminal, how ownership passes to the next worker or to the user, and    *)
(* the release of a settled worker's terminal, which archives its output,   *)
(* closes it and records that in separate steps (db/worker-terminal,        *)
(* worker-release.ts, worker-release-completion.ts, worker-stop.ts).        *)
(*                                                                          *)
(* A terminal is a pane that may see several processes, one after another;  *)
(* process n of pane p is <<p, n>>.  A row is named after the dispatch that *)
(* created it and may later be owned by another.                            *)
EXTENDS Naturals, FiniteSets

CONSTANTS
  Dispatches,   \* worker dispatches
  Panes,        \* terminal panes
  None,         \* NULL
  MaxInc,       \* bound: processes in a pane
  MaxRestarts   \* bound: restarts of the runtime

ASSUME CustodyConstants ==
  /\ None \notin Dispatches \cup Panes
  /\ None # "user_requested"
  /\ MaxInc \in Nat \ {0}
  /\ MaxRestarts \in Nat

VARIABLES
  term,     \* term[p]: the current process of pane p, and whether the runtime knows its handle
  worker,   \* worker[d]: state of the worker, its terminal, and the process it was bound to
  row,      \* row[d]: worker_terminal_resources
  archive,  \* archive[d]: worker_terminal_archives, the row the archived output is of
  job,      \* job[r]: the release job on row r, in memory
  asked,    \* asked[d]: the row whose process a declined release of d asks about, in memory
  boot,     \* boot[d]: the process the start handler of d waits for, in memory; 0 without one
  stopper,  \* stopper[d]: the worker-stop handler of d, in memory
  taken,    \* history: processes the user has taken over
  restarts

vars == <<term, worker, row, archive, job, asked, boot, stopper, taken, restarts>>

Settled == {"settled", "stopped"}     \* succeeded or failed; stopped or abandoned
Active  == {"starting", "working", "stopping", "stop_unknown"}
Pending == {"requested", "releasing", "unknown"}

NoRow == [own |-> "none", release |-> "not_requested", reason |-> None,
          owner |-> None, former |-> {}, pane |-> None, proc |-> 0]
NoJob == [step |-> "none", by |-> None, recovery |-> FALSE]

Process(p) == <<p, term[p].inc>>
Running(p, n) == term[p].alive /\ term[p].inc = n

Rows == {r \in Dispatches : row[r].own # "none"}
OwnedBy(d) == {r \in Rows : row[r].owner = d}
Unreleased == {r \in Rows : row[r].own # "released"}
On(p, n) == {r \in Rows : row[r].pane = p /\ row[r].proc = n}

(* The dispatch is active and names a process, as PrepareAuthority left it. *)
Bound(d) == worker[d].state \in Active /\ worker[d].proc # 0

TypeOK ==
  /\ term \in [Panes -> [inc: 0 .. MaxInc, alive: BOOLEAN, known: BOOLEAN]]
  /\ worker \in [Dispatches -> [state: {"absent"} \cup Active \cup Settled,
                                pane: Panes \cup {None}, proc: 0 .. MaxInc]]
  /\ row \in [Dispatches ->
       [own: {"none", "owned", "user_owned", "external", "released"},
        release: {"not_requested", "retained", "released"} \cup Pending,
        reason: {None, "user_takeover", "user_requested", "identity_unproven", "external_terminal"},
        owner: Dispatches \cup {None}, former: SUBSET Dispatches,
        pane: Panes \cup {None}, proc: 0 .. MaxInc]]
  /\ \A r \in Dispatches : row[r].own = "released" <=> row[r].release = "released"
  /\ archive \in [Dispatches -> Dispatches \cup {None}]
  /\ job \in [Dispatches -> [step: {"none", "inspect", "probe", "capture", "close"},
                             by: Dispatches \cup {None}, recovery: BOOLEAN]]
  /\ asked \in [Dispatches -> Dispatches \cup {None}]
  /\ boot \in [Dispatches -> 0 .. MaxInc]
  /\ stopper \in [Dispatches -> {"none", "inspect", "close"}]
  /\ taken \subseteq Panes \X (1 .. MaxInc)
  /\ restarts \in 0 .. MaxRestarts

Init ==
  /\ term = [p \in Panes |-> [inc |-> 0, alive |-> FALSE, known |-> FALSE]]
  /\ worker = [d \in Dispatches |-> [state |-> "absent", pane |-> None, proc |-> 0]]
  /\ row = [d \in Dispatches |-> NoRow]
  /\ archive = [d \in Dispatches |-> None]
  /\ job = [d \in Dispatches |-> NoJob]
  /\ asked = [d \in Dispatches |-> None]
  /\ boot = [d \in Dispatches |-> 0]
  /\ stopper = [d \in Dispatches |-> "none"]
  /\ taken = {}
  /\ restarts = 0

-----------------------------------------------------------------------------
(* Terminals *)

Spawned(p) == [term EXCEPT ![p] = [inc |-> @.inc + 1, alive |-> TRUE, known |-> TRUE]]

NewRow(d, p, own) ==
  [NoRow EXCEPT !.own = own, !.owner = d, !.pane = p, !.proc = term'[p].inc,
                !.reason = IF own = "external" THEN "external_terminal" ELSE None]

(* A terminal that is not a worker's. *)
OpenTerminal(p) ==
  /\ term[p].inc = 0
  /\ term' = Spawned(p)
  /\ UNCHANGED <<worker, row, archive, job, asked, boot, stopper, taken, restarts>>

(* registerPty: another process comes up in the pane.  Rows of settled      *)
(* workers on the old one keep the terminal (retainReplacedWorkerTerminal-  *)
(* Resources).                                                              *)
Replace(p) ==
  /\ term[p].inc \in 1 .. MaxInc - 1
  /\ ~term[p].alive
  /\ term' = Spawned(p)
  /\ row' = [r \in Dispatches |->
       IF /\ row[r].pane = p
          /\ row[r].own = "owned"
          /\ row[r].release = "not_requested"
          /\ worker[row[r].owner].state \in Settled
       THEN [row[r] EXCEPT !.release = "retained", !.reason = "identity_unproven"]
       ELSE row[r]]
  /\ UNCHANGED <<worker, archive, job, asked, boot, stopper, taken, restarts>>

(* The process of a pane exits.  A runtime that watches it settles the      *)
(* dispatches bound to it; the pane may go with it.                         *)
Exit(p) ==
  LET bound == {d \in Dispatches : Bound(d) /\ worker[d].pane = p
                                   /\ worker[d].proc = term[p].inc}
  IN /\ term[p].alive
     /\ \E known \in {term[p].known, FALSE} :
          term' = [term EXCEPT ![p] = [@ EXCEPT !.alive = FALSE, !.known = known]]
     /\ worker' = IF term[p].known
                  THEN [d \in Dispatches |->
                         IF d \notin bound THEN worker[d]
                         ELSE [worker[d] EXCEPT !.state =
                                IF @ = "stopping" /\ stopper[d] # "none"
                                THEN "stopped" ELSE "settled"]]
                  ELSE worker
     /\ UNCHANGED <<row, archive, job, asked, boot, stopper, taken, restarts>>

(* The inventory of terminals finds a running process again. *)
Discover(p) ==
  /\ term[p].alive
  /\ ~term[p].known
  /\ term' = [term EXCEPT ![p].known = TRUE]
  /\ UNCHANGED <<worker, row, archive, job, asked, boot, stopper, taken, restarts>>

(* Mutation of MarkUserOwned: a release that was asked for goes on. *)
MarkUntouched(p) ==
  {r \in Rows : /\ row[r].pane = p
                /\ row[r].own = "owned"
                /\ row[r].release \in {"not_requested", "retained"}
                /\ worker[row[r].owner].state # "stopping"}

(* The rows that markWorkerTerminalUserOwned gives to the user. *)
MarkUserOwned(p) ==
  {r \in Rows : /\ row[r].pane = p
                /\ row[r].own = "owned"
                /\ row[r].release \in {"not_requested", "retained", "requested"}
                /\ worker[row[r].owner].state # "stopping"}

(* orchestration.workerTerminalUserInput: the user types into a pane.  The  *)
(* history leaves out the input that comes while the close is already       *)
(* committed, in doubt, or ordered by a stop.                               *)
UserInput(p) ==
  LET mine == MarkUserOwned(p)
      late == \E r \in Unreleased :
                 /\ row[r].pane = p
                 /\ \/ row[r].release \in {"releasing", "unknown"}
                    \/ worker[row[r].owner].state = "stopping"
  IN /\ term[p].alive
     /\ term[p].known
     /\ row' = [r \in Dispatches |->
          IF r \in mine THEN [row[r] EXCEPT !.own = "user_owned", !.release = "retained",
                                            !.reason = "user_takeover"]
          ELSE row[r]]
     /\ archive' = [d \in Dispatches |->
          IF \E r \in mine : row[r].owner = d THEN None ELSE archive[d]]
     /\ taken' = IF late THEN taken ELSE taken \cup {Process(p)}
     /\ UNCHANGED <<term, worker, job, asked, boot, stopper, restarts>>

-----------------------------------------------------------------------------
(* Workers *)

(* worker-start in a terminal of its own: recordCreatedWorkerTerminalCustody*)
(* records the owner as soon as the terminal exists.                        *)
StartWorker(d, p) ==
  /\ worker[d].state = "absent"
  /\ term[p].inc = 0
  /\ term' = Spawned(p)
  /\ worker' = [worker EXCEPT ![d] = [@ EXCEPT !.state = "starting", !.pane = p]]
  /\ boot' = [boot EXCEPT ![d] = term'[p].inc]
  /\ row' = [row EXCEPT ![d] = NewRow(d, p, "owned")]
  /\ UNCHANGED <<archive, job, asked, stopper, taken, restarts>>

(* worker-start --terminal *)
StartWorkerIn(d, p) ==
  /\ worker[d].state = "absent"
  /\ term[p].alive
  /\ term[p].known
  /\ worker' = [worker EXCEPT ![d] = [@ EXCEPT !.state = "starting", !.pane = p]]
  /\ boot' = [boot EXCEPT ![d] = term[p].inc]
  /\ UNCHANGED <<term, row, archive, job, asked, stopper, taken, restarts>>

(* findTransferableWorkerTerminalResource, once no release is under way. *)
Transferable(exact) ==
  {r \in exact : /\ row[r].own = "owned"
                 /\ row[r].release \in {"not_requested", "retained"}
                 /\ worker[row[r].owner].state \in Settled}

(* Custody of a terminal that was there before: the row of a settled worker *)
(* passes to d, any other terminal stays external.                          *)
Adopt(d, p) ==
  LET exact == On(p, term[p].inc) \cap Unreleased
  IN /\ \A r \in exact : row[r].release \notin Pending
     /\ IF Transferable(exact) = {}
        THEN row' = [row EXCEPT ![d] = NewRow(d, p, "external")]
        ELSE \E r \in Transferable(exact) :
               row' = [row EXCEPT ![r] =
                 [@ EXCEPT !.owner = d, !.former = row[r].former \cup {row[r].owner},
                           !.release = "not_requested", !.reason = None]]

(* prepareStartingWorkerAuthority, when the agent is up.  The wait for it   *)
(* fails if the process exits.                                              *)
PrepareAuthority(d) ==
  LET p == worker[d].pane
  IN /\ worker[d].state = "starting"
     /\ boot[d] # 0
     /\ Running(p, boot[d])
     /\ term[p].known
     /\ \A e \in Dispatches : Bound(e) => worker[e].pane # p
     /\ worker' = [worker EXCEPT ![d] = [@ EXCEPT !.state = "working", !.proc = term[p].inc]]
     /\ term' = term
     /\ boot' = [boot EXCEPT ![d] = 0]
     /\ IF OwnedBy(d) = {} THEN Adopt(d, p) ELSE row' = row
     /\ UNCHANGED <<archive, job, asked, stopper, taken, restarts>>

(* failWorkerStart: a start that dies before its authority takes over the   *)
(* identity of the terminal it created (recordFailedStartDispatchIdentity). *)
FailStart(d) ==
  /\ worker[d].state = "starting"
  /\ boot[d] # 0
  /\ boot' = [boot EXCEPT ![d] = 0]
  /\ worker' = [worker EXCEPT ![d] =
       [@ EXCEPT !.state = "settled",
                 !.proc = IF OwnedBy(d) = {} THEN 0 ELSE row[CHOOSE r \in OwnedBy(d) : TRUE].proc]]
  /\ UNCHANGED <<term, row, archive, job, asked, stopper, taken, restarts>>

(* A report or a failure settles a running worker, worker-abandon leaves it,*)
(* and recovery settles the stop of one whose terminal is gone.             *)
FinishWorker(d, state) ==
  /\ \/ state = "settled" /\ worker[d].state = "working"
     \/ state = "stopped" /\ worker[d].state \in Active \ {"stopping"}
     \/ /\ state = "stopped"
        /\ worker[d].state = "stopping"
        /\ worker[d].pane # None
        /\ ~Running(worker[d].pane, worker[d].proc)
  /\ worker' = [worker EXCEPT ![d].state = state]
  /\ UNCHANGED <<term, row, archive, job, asked, boot, stopper, taken, restarts>>

(* beginWorkerStop; a stop that a dead runtime left behind may be repeated. *)
BeginStop(d) ==
  /\ worker[d].state \in Active
  /\ stopper[d] = "none"
  /\ worker' = [worker EXCEPT ![d].state = "stopping"]
  /\ stopper' = [stopper EXCEPT ![d] = "inspect"]
  /\ UNCHANGED <<term, row, archive, job, asked, boot, taken, restarts>>

(* worker-stop closes a running terminal only if it is exactly the worker's *)
(* and owned by its dispatch.                                               *)
MayStop(d) ==
  LET p == worker[d].pane
  IN /\ term[p].known
     /\ worker[d].proc # 0
     /\ Running(p, worker[d].proc)
     /\ \E r \in OwnedBy(d) : row[r].own = "owned"

(* The handler of worker-stop has observed the terminal. *)
InspectStop(d) ==
  /\ stopper[d] = "inspect"
  /\ IF worker[d].state = "stopping" /\ MayStop(d)
     THEN stopper' = [stopper EXCEPT ![d] = "close"] /\ worker' = worker
     ELSE /\ stopper' = [stopper EXCEPT ![d] = "none"]
          /\ worker' = IF worker[d].state = "stopping"
                       THEN [worker EXCEPT ![d].state = "stop_unknown"] ELSE worker
  /\ UNCHANGED <<term, row, archive, job, asked, boot, taken, restarts>>

Killed(p, n) == IF term[p].inc = n THEN [term EXCEPT ![p].alive = FALSE] ELSE term

(* closeTerminal has answered the stop: the process is proved gone or not. *)
CloseStopped(d) ==
  /\ stopper[d] = "close"
  /\ stopper' = [stopper EXCEPT ![d] = "none"]
  /\ \/ /\ term' = Killed(worker[d].pane, worker[d].proc)
        /\ worker' = IF worker[d].state = "stopping"
                     THEN [worker EXCEPT ![d].state = "stopped"] ELSE worker
     \/ /\ term' \in {term, Killed(worker[d].pane, worker[d].proc)}
        /\ worker' = IF worker[d].state = "stopping"
                     THEN [worker EXCEPT ![d].state = "stop_unknown"] ELSE worker
  /\ UNCHANGED <<row, archive, job, asked, boot, taken, restarts>>

-----------------------------------------------------------------------------
(* Asking for a release, or against it *)

(* decideWorkerTerminalRelease, with the refusal of stopped workers *)
MayRelease(d, r) == row[r].own = "owned" /\ worker[d].state = "settled"

(* requestWorkerTerminalRelease and the call of completeWorkerTerminalRelease in the *)
(* same turn: a row that is under release already is joined to its job.     *)
RequestRelease(d) ==
  /\ worker[d].state \in Settled
  /\ \E r \in OwnedBy(d) \cap Unreleased :
       /\ MayRelease(d, r)
       /\ row' = [row EXCEPT ![r] = [@ EXCEPT
                    !.release = IF row[r].release = "releasing" THEN "releasing"
                                ELSE "requested",
                    !.reason = None]]
       /\ archive' = IF row[r].reason = "user_requested"
                     THEN [archive EXCEPT ![d] = None] ELSE archive
       /\ job' = IF job[r].step # "none" THEN job
                 ELSE [job EXCEPT ![r] = [step |-> "inspect", by |-> d, recovery |-> FALSE]]
  /\ UNCHANGED <<term, worker, asked, boot, stopper, taken, restarts>>

(* workerRelease that is declined: the handler still asks whether the       *)
(* process is there at all.                                                 *)
DeclineRelease(d) ==
  /\ worker[d].state \in Settled
  /\ asked[d] = None
  /\ \E r \in Rows :
       /\ \/ r \in OwnedBy(d) \cap Unreleased /\ ~MayRelease(d, r)
          \/ OwnedBy(d) = {} /\ d \in row[r].former
       /\ asked' = [asked EXCEPT ![d] = r]
  /\ UNCHANGED <<term, worker, row, archive, job, boot, stopper, taken, restarts>>

(* settleDeadWorkerTerminalRelease: what it requires of a process that has  *)
(* been proved gone.                                                        *)
MaySettleDead(d, r) ==
  LET o == row[r].owner
      unreachable == o = d /\ row[r].release \in {"not_requested", "retained"}
  IN /\ d = o \/ d \in row[r].former
     /\ worker[d].state \in Settled
     /\ worker[o].state \in Settled
     /\ archive[o] = r \/ (archive[o] = None /\ unreachable)
     /\ row[r].own = "owned"

(* Mutation of ReleasedRow: only the release is recorded. *)
ReleasedRowStillOwned(r) == [row[r] EXCEPT !.release = "released", !.reason = None]

ReleasedRow(r) == [row[r] EXCEPT !.own = "released", !.release = "released", !.reason = None]

(* The hosts' process list answers d's question about row r: gone, or not   *)
(* proved gone.                                                             *)
SettleDead(d, r) ==
  row' = IF ~Running(row[r].pane, row[r].proc) /\ MaySettleDead(d, r)
         THEN [row EXCEPT ![r] = ReleasedRow(r)] ELSE row

AnswerDeclined(d) ==
  /\ asked[d] # None
  /\ SettleDead(d, asked[d]) \/ row' = row
  /\ asked' = [asked EXCEPT ![d] = None]
  /\ UNCHANGED <<term, worker, archive, job, boot, stopper, taken, restarts>>

(* Mutation of Retainable: a committed release can be called back. *)
RetainableLate == {"not_requested", "retained", "requested", "releasing"}

Retainable == {"not_requested", "retained", "requested"}

(* workerRetain *)
RetainTerminal(d) ==
  /\ worker[d].state # "absent"
  /\ \E r \in OwnedBy(d) :
       /\ row[r].release \in Retainable
       /\ row' = [row EXCEPT ![r] = [@ EXCEPT !.release = "retained", !.reason = "user_requested"]]
  /\ archive' = [archive EXCEPT ![d] = None]
  /\ UNCHANGED <<term, worker, job, asked, boot, stopper, taken, restarts>>

-----------------------------------------------------------------------------
(* The release job of a row (completeWorkerTerminalRelease) *)

Ended(r) == [job EXCEPT ![r] = NoJob]
Step(r, s) == [job EXCEPT ![r].step = s]

(* revertWorkerTerminalReleaseToRetained and markWorkerTerminalReleaseUnknown *)
Unless(r, release, reason) ==
  IF row[r].release \in {"requested", "releasing"}
  THEN [row EXCEPT ![r] = [@ EXCEPT !.release = release, !.reason = reason]] ELSE row
Revert(r) == Unless(r, "retained", "identity_unproven")
MarkUnknown(r) == Unless(r, "unknown", row[r].reason)

(* Mutation of NoConflict: other rows are not looked at. *)
NoConflictLookup(r) == TRUE

(* workerTerminalResourceHasIdentityConflict, negated *)
NoConflict(r) == On(row[r].pane, row[r].proc) \cap Unreleased \subseteq {r}

Exact(d) == worker[d].proc # 0 /\ term[worker[d].pane].inc = worker[d].proc

(* workerTerminalLeaseIsCurrent *)
LeaseIsCurrent(d, r) ==
  /\ worker[d].pane = row[r].pane
  /\ Exact(d)
  /\ NoConflict(r)

(* Mutation of MayCommit: whoever owns the row by now. *)
MayCommitForAny(d, r) == row[r].own = "owned" /\ row[r].release = "requested"

(* What commitWorkerTerminalArchiveForRelease commits for. *)
MayCommit(d, r) ==
  /\ row[r].owner = d
  /\ row[r].own = "owned"
  /\ row[r].release = "requested"

(* commitWorkerTerminalArchiveForRelease, the second look at the lease, and *)
(* the call of closeTerminal, in one turn.  An archive of another row makes *)
(* the commit throw.                                                        *)
Commit(r, output) ==
  LET d == job[r].by
      stored == IF MayCommit(d, r) THEN [archive EXCEPT ![d] = output] ELSE archive
      throws == MayCommit(d, r) /\ output # r
      next == IF MayCommit(d, r) THEN [row EXCEPT ![r].release = "releasing"] ELSE row
      go == next[r].own = "owned" /\ next[r].release = "releasing"
      lease == LeaseIsCurrent(d, r)
  IN IF throws
     THEN UNCHANGED <<row, archive>> /\ job' = Ended(r)
     ELSE /\ archive' = stored
          /\ row' = IF go /\ ~lease
                    THEN [next EXCEPT ![r] = [@ EXCEPT !.release = "retained",
                                                       !.reason = "identity_unproven"]]
                    ELSE next
          /\ job' = IF go /\ lease THEN Step(r, "close") ELSE Ended(r)

(* inspectWorkerTerminal has answered.  The lease of a process that is gone *)
(* needs the host's word for its exit.                                      *)
InspectRelease(r) ==
  LET d == job[r].by
      known == term[row[r].pane].known
  IN /\ job[r].step = "inspect"
     /\ \/ ~known /\ job[r].recovery /\ job' = Step(r, "probe") /\ UNCHANGED <<row, archive>>
        \/ ~known /\ ~job[r].recovery /\ job' = Ended(r) /\ row' = MarkUnknown(r)
              /\ UNCHANGED archive
        \/ /\ known
           /\ ~LeaseIsCurrent(d, r) \/ ~term[row[r].pane].alive
           /\ job' = Ended(r) /\ row' = Revert(r) /\ UNCHANGED archive
        \/ /\ known /\ LeaseIsCurrent(d, r)
           /\ IF archive[d] = None THEN job' = Step(r, "capture") /\ UNCHANGED <<row, archive>>
              ELSE Commit(r, archive[d])
     /\ UNCHANGED <<term, worker, asked, boot, stopper, taken, restarts>>

(* The process list answers a recovery that did not find the terminal. *)
ProbeRelease(r) ==
  /\ job[r].step = "probe"
  /\ SettleDead(job[r].by, r) \/ row' = row
  /\ job' = Ended(r)
  /\ UNCHANGED <<term, worker, archive, asked, boot, stopper, taken, restarts>>

(* captureWorkerOutputArchive returns the output or throws. *)
CaptureOutput(r) ==
  /\ job[r].step = "capture"
  /\ \/ Commit(r, r)
     \/ job' = Ended(r) /\ UNCHANGED <<row, archive>>
  /\ UNCHANGED <<term, worker, asked, boot, stopper, taken, restarts>>

(* Mutation of SettleRelease: an unconfirmed kill counts. *)
SettleReleaseHoping(r) ==
  /\ row' = IF row[r].release \in Pending THEN [row EXCEPT ![r] = ReleasedRow(r)] ELSE row
  /\ term' \in {term, Killed(worker[job[r].by].pane, worker[job[r].by].proc)}

(* settleWorkerTerminalRelease, when the kill is confirmed or there was     *)
(* nothing left to close.                                                   *)
SettleRelease(r) ==
  /\ row' = IF row[r].release \in Pending THEN [row EXCEPT ![r] = ReleasedRow(r)] ELSE row
  /\ term' = Killed(worker[job[r].by].pane, worker[job[r].by].proc)

(* closeTerminal has answered: closed, in doubt, or the endpoint is away    *)
(* for now, which leaves the row to recovery.                               *)
CloseTerminal(r) ==
  LET d == job[r].by
  IN /\ job[r].step = "close"
     /\ \/ SettleRelease(r)
        \/ row' = MarkUnknown(r) /\ term' \in {term, Killed(worker[d].pane, worker[d].proc)}
        \/ row' = row /\ term' = term
     /\ job' = Ended(r)
     /\ UNCHANGED <<worker, archive, asked, boot, stopper, taken, restarts>>

(* reconcileRequestedWorkerTerminalReleases, after the terminals have been  *)
(* discovered at startup or on reconnection                                 *)
RecoverRelease(r) ==
  /\ r \in Unreleased
  /\ row[r].release \in {"requested", "releasing"}
  /\ job[r].step = "none"
  /\ job' = [job EXCEPT ![r] = [step |-> "inspect", by |-> row[r].owner, recovery |-> TRUE]]
  /\ UNCHANGED <<term, worker, row, archive, asked, boot, stopper, taken, restarts>>

(* The runtime dies; terminals live on and have to be found again. *)
Restart ==
  /\ restarts < MaxRestarts
  /\ restarts' = restarts + 1
  /\ term' = [p \in Panes |-> [term[p] EXCEPT !.known = FALSE]]
  /\ job' = [r \in Dispatches |-> NoJob]
  /\ asked' = [d \in Dispatches |-> None]
  /\ boot' = [d \in Dispatches |-> 0]
  /\ stopper' = [d \in Dispatches |-> "none"]
  /\ UNCHANGED <<worker, row, archive, taken>>

Next ==
  \/ Restart
  \/ \E p \in Panes :
       \/ OpenTerminal(p)
       \/ Replace(p)
       \/ Exit(p)
       \/ Discover(p)
       \/ UserInput(p)
       \/ \E d \in Dispatches : StartWorker(d, p) \/ StartWorkerIn(d, p)
  \/ \E d \in Dispatches :
       \/ PrepareAuthority(d)
       \/ FailStart(d)
       \/ \E state \in Settled : FinishWorker(d, state)
       \/ BeginStop(d)
       \/ InspectStop(d)
       \/ CloseStopped(d)
       \/ RequestRelease(d)
       \/ DeclineRelease(d)
       \/ AnswerDeclined(d)
       \/ RetainTerminal(d)
       \/ InspectRelease(d)
       \/ ProbeRelease(d)
       \/ CaptureOutput(d)
       \/ CloseTerminal(d)
       \/ RecoverRelease(d)

Spec == Init /\ [][Next]_vars

-----------------------------------------------------------------------------
(* Properties *)

(* Process n of pane p is d's to close: d was bound to it and owns its row, *)
(* no other dispatch works in it, and the user has not taken it over.       *)
Mine(d, p, n) ==
  /\ worker[d].pane = p
  /\ worker[d].proc = n
  /\ \E r \in OwnedBy(d) : r \in On(p, n) /\ row[r].own = "owned"
  /\ \A e \in Dispatches \ {d} : Bound(e) => <<worker[e].pane, worker[e].proc>> # <<p, n>>
  /\ <<p, n>> \notin taken

(* Release and stop close only a terminal that is the dispatch's, at the    *)
(* moment they close it, although ownership was read before awaiting the    *)
(* terminal, its output and the process list.                               *)
OnlyItsOwnIsClosed ==
  [][\A d \in Dispatches :
       /\ (stopper[d] # "close" /\ stopper'[d] = "close")
            => Mine(d, worker[d].pane, term[worker[d].pane].inc)
       /\ (job[d].step # "close" /\ job'[d].step = "close")
            => LET o == job[d].by
               IN /\ Mine(o, row[d].pane, term[row[d].pane].inc)
                  /\ worker[o].state = "settled"]_vars

(* From the commit of a release on, the output of the worker is archived    *)
(* under the dispatch that owns the terminal, whatever retains, takeovers   *)
(* and retries follow; it is given up only for a process found dead.        *)
OutputIsKept ==
  \A r \in Rows :
    \/ row[r].release = "releasing"
    \/ job[r].step = "close"
    => archive[row[r].owner] = r

(* A terminal recorded as released is gone, and not merely lost sight of. *)
ReleasedIsGone ==
  \A r \in Rows : row[r].own = "released" => ~Running(row[r].pane, row[r].proc)

=============================================================================
