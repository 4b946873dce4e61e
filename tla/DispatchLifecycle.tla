-------------------------- MODULE DispatchLifecycle --------------------------
(***************************************************************************)
(* The orchestration database of the Orca runtime: tasks, the dispatches   *)
(* that hand a task to an agent terminal, the supervised worker behind a   *)
(* dispatch, decision gates and question threads.                          *)
(*                                                                         *)
(* Every method of OrchestrationDb runs in one SQLite write transaction,   *)
(* so each is one action here.  A method that throws rolls its transaction *)
(* back: the conditions it throws on are guards.  The RPC handlers that    *)
(* call these methods await terminals and remote servers in between; all   *)
(* of these interleavings are behaviours of Next.                          *)
(***************************************************************************)
EXTENDS Integers, FiniteSets

CONSTANTS
  Tasks,             \* task ids
  Deps,              \* [Tasks -> SUBSET Tasks], the dependencies a task is created with
  Terminals,         \* agent terminals a dispatch can be assigned to
  Gates,             \* decision gate ids
  None,              \* a column that is NULL
  MaxDispatches,     \* bound: dispatch rows ever inserted
  MaxEpoch,          \* bound: runtime restarts
  BreakAt,           \* DISPATCH_CIRCUIT_BREAK_FAILURES (3 in the code)
  OperatorStatuses   \* statuses the operator passes to taskUpdate

TaskStatus == {"pending", "ready", "dispatched", "completed", "failed", "blocked"}
ActiveStatus == {"pending", "dispatched"}
DispatchStatus == ActiveStatus \cup {"completed", "failed", "circuit_broken"}
LiveState == {"starting", "start_unknown", "ready", "stopping", "stop_unknown"}
SettledState == {"succeeded", "failed", "stopped", "abandoned"}

Dispatches == 1 .. MaxDispatches

ASSUME ConstantsOK ==
  /\ Deps \in [Tasks -> SUBSET Tasks]
  /\ MaxDispatches \in Nat \ {0}
  /\ MaxEpoch \in Nat
  /\ BreakAt \in Nat \ {0}
  /\ OperatorStatuses \subseteq TaskStatus
  /\ None \notin Tasks \cup Terminals \cup Dispatches
  /\ None \notin LiveState \cup SettledState \cup {"live", "revoked"}

VARIABLES
  task,    \* tasks.status; "absent" before createTask
  disp,    \* dispatch_contexts by rowid, joined with worker_dispatches
  rows,    \* the last rowid inserted
  gate,    \* decision_gates
  epoch    \* the runtime id of the running process

vars == <<task, disp, rows, gate, epoch>>

(* One dispatch.  stalled: last_failure is AGENT_PROMPT_STALLED_ERROR.      *)
(* capability: None while no hash is stored.  worker: None for a            *)
(* context-only dispatch.  asking: a pending question thread points here.   *)
Row == [task : Tasks \cup {None},
        status : DispatchStatus \cup {"absent"},
        failures : Nat,
        stalled : BOOLEAN,
        capability : {None, "live", "revoked"},
        assignee : Terminals \cup {None},
        worker : LiveState \cup SettledState \cup {None},
        epoch : 0 .. MaxEpoch,
        federated : BOOLEAN,
        asking : BOOLEAN]

NoRow == [task |-> None, status |-> "absent", failures |-> 0, stalled |-> FALSE,
          capability |-> None, assignee |-> None, worker |-> None, epoch |-> 0,
          federated |-> FALSE, asking |-> FALSE]

GateRow == [task : Tasks \cup {None}, status : {"absent", "pending", "resolved"}]

TypeOK ==
  /\ task \in [Tasks -> TaskStatus \cup {"absent"}]
  /\ disp \in [Dispatches -> Row]
  /\ rows \in 0 .. MaxDispatches
  /\ gate \in [Gates -> GateRow]
  /\ epoch \in 0 .. MaxEpoch

Init ==
  /\ task = [t \in Tasks |-> "absent"]
  /\ disp = [d \in Dispatches |-> NoRow]
  /\ rows = 0
  /\ gate = [g \in Gates |-> [task |-> None, status |-> "absent"]]
  /\ epoch = 0

-----------------------------------------------------------------------------
(* Queries *)

Active(d) == disp[d].status \in ActiveStatus

ActiveOn(t) == {d \in Dispatches : disp[d].task = t /\ Active(d)}

LiveWorker(d) == disp[d].worker \in LiveState

(* Another dispatch of d's task is active. *)
Contested(d) == ActiveOn(disp[d].task) \ {d} # {}

(* Mutation of Supervised: forgets the uncertain states. *)
SupervisedRunning(t) ==
  \E d \in ActiveOn(t) : disp[d].worker \in {"starting", "ready"}

(* The worker check of updateTaskStatus and createGate: a supervised worker *)
(* owns its task for as long as it is alive.                                *)
Supervised(t) == \E d \in ActiveOn(t) : LiveWorker(d)

LatestOf(t, d) ==
  /\ disp[d].task = t
  /\ \A e \in Dispatches : disp[e].task = t => e <= d

(* Mutation of TerminalFree: a start that has not been prompted yet does not count. *)
TerminalFreeOfDispatched(a, d) ==
  \A e \in Dispatches \ {d} : disp[e].assignee = a => disp[e].status # "dispatched"

(* No active dispatch other than d holds terminal a. *)
TerminalFree(a, d) == \A e \in Dispatches \ {d} : disp[e].assignee = a => ~Active(e)

(* n is MAX(failure_count) over the dispatches of t, 0 without any. *)
PriorFailures(t, n) ==
  /\ n = 0 \/ \E d \in Dispatches : disp[d].task = t /\ disp[d].failures = n
  /\ \A d \in Dispatches : disp[d].task = t => disp[d].failures <= n

-----------------------------------------------------------------------------
(* Row and task updates the methods share *)

Revoked(c) == IF c = "live" THEN "revoked" ELSE c

(* Mutation of Settle: leaves the questions of the dispatch open. *)
SettleKeepsQuestions(row, s) == [row EXCEPT !.status = s, !.capability = Revoked(@)]

(* A dispatch that settles loses its capability, and closeQuestionsForDispatch *)
(* closes its pending threads.                                                *)
Settle(row, s) ==
  [row EXCEPT !.status = s, !.capability = Revoked(@), !.asking = FALSE]

SettleActive(t, s) ==
  [d \in Dispatches |-> IF d \in ActiveOn(t) THEN Settle(disp[d], s) ELSE disp[d]]

SetTask(t, s) == [task EXCEPT ![t] = s]

(* promoteReadyTasks: a pending task depending on t whose dependencies are  *)
(* now all completed becomes ready.                                         *)
Promote(tk, t) ==
  [u \in Tasks |-> IF /\ tk[u] = "pending"
                      /\ t \in Deps[u]
                      /\ \A x \in Deps[u] : tk[x] = "completed"
                   THEN "ready" ELSE tk[u]]

(* Mutation of Finish: looks at the dependencies before t is completed. *)
FinishPromotesStale(t, s) ==
  IF s = "completed" THEN [Promote(task, t) EXCEPT ![t] = s] ELSE SetTask(t, s)

Finish(t, s) ==
  IF s = "completed" THEN Promote(SetTask(t, s), t) ELSE SetTask(t, s)

(* Mutation of Interrupt: leaves the task dispatched. *)
InterruptIgnoresTask(d) == task

(* reconcileTaskAfterDispatchInterruption for the task of d *)
Interrupt(d) ==
  IF task[disp[d].task] \in {"dispatched", "blocked"}
  THEN SetTask(disp[d].task, IF Contested(d) THEN "dispatched" ELSE "blocked")
  ELSE task

(* Mutation of FailureStatus: off by one. *)
FailureStatusLate(d) ==
  IF disp[d].failures >= BreakAt THEN "circuit_broken" ELSE "failed"

(* The count a failure leaves, and the status it settles the dispatch with. *)
FailureStatus(d) ==
  IF disp[d].failures + 1 >= BreakAt THEN "circuit_broken" ELSE "failed"

(* Mutation of RetryStatus: writes the dispatch's status into the task. *)
RetryStatusOfDispatch(d) ==
  IF disp[d].failures + 1 >= BreakAt THEN "circuit_broken" ELSE "ready"

RetryStatus(d) == IF FailureStatus(d) = "circuit_broken" THEN "failed" ELSE "ready"

-----------------------------------------------------------------------------
(* Tasks *)

(* createTask: its dependencies exist already. *)
CreateTask(t) ==
  /\ task[t] = "absent"
  /\ \A x \in Deps[t] : task[x] # "absent"
  /\ task' = SetTask(t, IF \A x \in Deps[t] : task[x] = "completed" THEN "ready" ELSE "pending")
  /\ UNCHANGED <<disp, rows, gate, epoch>>

(* The refusals of updateTaskStatus. *)
MayUpdate(t, s) ==
  /\ task[t] # "absent"
  /\ s \in {"completed", "failed"} \/ (s = "dispatched" /\ task[t] # s) => ~Supervised(t)
  /\ s = "dispatched" => ActiveOn(t) # {}
  /\ ActiveOn(t) # {} => s \in {"completed", "failed", "dispatched"}

(* updateTaskStatus: a terminal status settles the active dispatches. *)
UpdateTaskStatus(t, s) ==
  /\ MayUpdate(t, s)
  /\ task' = Finish(t, s)
  /\ disp' = IF s \in {"completed", "failed"} THEN SettleActive(t, s) ELSE disp

TaskUpdate(t, s) ==
  /\ UpdateTaskStatus(t, s)
  /\ UNCHANGED <<rows, gate, epoch>>

-----------------------------------------------------------------------------
(* Handing a task out *)

(* Insert the next dispatch row and mark its task dispatched. *)
Insert(row) ==
  /\ rows < MaxDispatches
  /\ rows' = rows + 1
  /\ disp' = [disp EXCEPT ![rows + 1] = row]
  /\ task' = SetTask(row.task, "dispatched")
  /\ UNCHANGED <<gate, epoch>>

(* createDispatchContext on a ready task and a free terminal, without a     *)
(* worker row.  c is "live" when the dispatch RPC mints a capability in the *)
(* same turn, None without injection and from the coordinator loop.         *)
CreateDispatchContext(t, a, c) ==
  /\ task[t] = "ready"
  /\ \A d \in Dispatches : disp[d].assignee = a => ~Active(d)
  /\ \E n \in 0 .. MaxDispatches :
       /\ PriorFailures(t, n)
       /\ Insert([NoRow EXCEPT !.task = t, !.status = "dispatched", !.failures = n,
                               !.capability = c, !.assignee = a, !.epoch = epoch])

StartingRow(t, fed) ==
  [NoRow EXCEPT !.task = t, !.status = "pending", !.worker = "starting",
                !.epoch = epoch, !.federated = fed]

(* createStartingWorkerDispatch without retryOf *)
StartWorker(t, fed) ==
  /\ task[t] = "ready"
  /\ Insert(StartingRow(t, fed))

(* Mutation of RetryWorker: does not ask whether the prior attempt settled. *)
RetryUnsettledWorker(d, fed) ==
  \E t \in Tasks :
    /\ LatestOf(t, d)
    /\ task[t] \in {"failed", "blocked"}
    /\ Insert(StartingRow(t, fed))

(* createStartingWorkerDispatch with retryOf: only from the latest dispatch *)
(* of the task, once it has settled.                                        *)
RetryWorker(d, fed) ==
  /\ \E t \in Tasks :
       /\ LatestOf(t, d)
       /\ task[t] \in {"failed", "blocked"}
       /\ Insert(StartingRow(t, fed))
  /\ \/ disp[d].worker \in {"failed", "stopped", "abandoned"}
     \/ disp[d].worker = None /\ disp[d].status = "failed"

-----------------------------------------------------------------------------
(* Worker start: steps of the worker-start handler of the current process,  *)
(* which awaits the terminal or the remote server between them.             *)

StartInFlight(d) == disp[d].worker = "starting" /\ disp[d].epoch = epoch

(* prepareStartingWorkerAuthority: bind the terminal, mint the capability. *)
PrepareAuthority(d, a) ==
  /\ StartInFlight(d)
  /\ disp[d].status = "pending"
  /\ ~disp[d].federated
  /\ disp[d].assignee = None
  /\ TerminalFree(a, d)
  /\ disp' = [disp EXCEPT ![d] = [disp[d] EXCEPT !.assignee = a, !.capability = "live"]]
  /\ UNCHANGED <<task, rows, gate, epoch>>

(* markWorkerDispatchReady *)
MarkReady(d) ==
  /\ StartInFlight(d)
  /\ disp[d].status = "pending"
  /\ disp[d].federated \/ disp[d].assignee # None
  /\ disp' = [disp EXCEPT ![d] = [disp[d] EXCEPT !.status = "dispatched", !.worker = "ready"]]
  /\ UNCHANGED <<task, rows, gate, epoch>>

(* failWorkerStart.  A stalled prompt may have reached the agent: the local *)
(* handler keeps the capability the worker's own report needs.              *)
FailStart(d, stalled) ==
  /\ StartInFlight(d)
  /\ stalled => disp[d].federated \/ disp[d].capability = "live"
  /\ disp' = [disp EXCEPT ![d] =
                [disp[d] EXCEPT !.status = "failed", !.worker = "failed", !.asking = FALSE,
                          !.stalled = stalled,
                          !.capability = IF stalled THEN @ ELSE Revoked(@)]]
  /\ task' = IF Contested(d) \/ task[disp[d].task] = "completed"
             THEN task ELSE SetTask(disp[d].task, "failed")
  /\ UNCHANGED <<rows, gate, epoch>>

(* Mutation of MarkStartUnknown: worker-show trusts a dead process. *)
MarkOwnStartUnknown(d) ==
  /\ StartInFlight(d)
  /\ task[disp[d].task] = "dispatched"
  /\ disp' = [disp EXCEPT ![d].worker = "start_unknown"]
  /\ task' = SetTask(disp[d].task, "blocked")
  /\ UNCHANGED <<rows, gate, epoch>>

(* markWorkerStartUnknown: by the handler, or by worker-show on a local     *)
(* start a dead process left behind.                                        *)
MarkStartUnknown(d) ==
  /\ disp[d].worker = "starting"
  /\ disp[d].federated => disp[d].epoch = epoch
  /\ task[disp[d].task] = "dispatched"
  /\ disp' = [disp EXCEPT ![d].worker = "start_unknown"]
  /\ task' = SetTask(disp[d].task, "blocked")
  /\ UNCHANGED <<rows, gate, epoch>>

(* reconcileFederatedWorkerStart: worker-show applies what the execution    *)
(* host says of the start.                                                  *)
ReconcileStart(d) == disp[d].federated /\ disp[d].worker \in {"starting", "start_unknown"}

ReconcileStartReady(d) ==
  /\ ReconcileStart(d)
  /\ disp' = [disp EXCEPT ![d] = [disp[d] EXCEPT !.status = IF @ = "pending" THEN "dispatched" ELSE @,
                                           !.worker = "ready"]]
  /\ task' = IF task[disp[d].task] = "blocked" THEN SetTask(disp[d].task, "dispatched") ELSE task
  /\ UNCHANGED <<rows, gate, epoch>>

ReconcileStartUnknown(d) ==
  /\ ReconcileStart(d)
  /\ disp' = [disp EXCEPT ![d].worker = "start_unknown"]
  /\ task' = IF task[disp[d].task] = "dispatched" THEN SetTask(disp[d].task, "blocked") ELSE task
  /\ UNCHANGED <<rows, gate, epoch>>

ReconcileStartSettled(d, state, stalled) ==
  /\ ReconcileStart(d)
  /\ state = "stopped" => ~stalled
  /\ disp' = [disp EXCEPT ![d] = [(IF Active(d) THEN Settle(disp[d], "failed") ELSE disp[d]) EXCEPT
                                    !.worker = state, !.stalled = stalled, !.asking = FALSE]]
  /\ task' = IF task[disp[d].task] \in {"dispatched", "blocked"} /\ ~Contested(d)
             THEN SetTask(disp[d].task, "failed") ELSE Interrupt(d)
  /\ UNCHANGED <<rows, gate, epoch>>

-----------------------------------------------------------------------------
(* Worker reports *)

(* Who may report on d: the assigned terminal, with the live capability of  *)
(* the dispatch when one was minted; for a federated dispatch, the relay.   *)
MayReport(d) ==
  \/ disp[d].federated
  \/ /\ disp[d].assignee # None
     /\ disp[d].capability # "revoked"

(* Mutations of StalledStart: any failed start may be corrected; whatever    *)
(* became of the task meanwhile.                                            *)
FailedStart(d) ==
  /\ disp[d].status = "failed"
  /\ task[disp[d].task] = "failed"

StalledStartAnyTask(d) ==
  /\ disp[d].status = "failed"
  /\ disp[d].stalled

(* settledByUnobservedPrompt *)
StalledStart(d) ==
  /\ disp[d].status = "failed"
  /\ disp[d].stalled
  /\ task[disp[d].task] = "failed"

ReconnectingStart(d) ==
  /\ Active(d)
  /\ task[disp[d].task] = "blocked"
  /\ disp[d].worker = "start_unknown"

ReportingStart(d) ==
  /\ disp[d].status = "pending"
  /\ task[disp[d].task] = "dispatched"
  /\ disp[d].worker = "starting"

(* A report on a running dispatch.  Without a worker row it has to be the   *)
(* current dispatch of the task; with one, the worker has to be ready.      *)
ReportingRun(d) ==
  /\ disp[d].status = "dispatched"
  /\ task[disp[d].task] = "dispatched"
  /\ \/ disp[d].worker = "ready"
     \/ /\ disp[d].worker = None
        /\ \A e \in ActiveOn(disp[d].task) : e <= d

(* settleWorkerReport; duplicates and rejected reports change nothing here. *)
WorkerReport(d, outcome) ==
  LET t == disp[d].task
      s == IF outcome = "succeeded" THEN "completed" ELSE "failed"
  IN /\ t # None
     /\ MayReport(d)
     /\ \/ StalledStart(d) /\ disp[d].worker = "failed"
        \/ ReconnectingStart(d)
        \/ ReportingStart(d)
        \/ ReportingRun(d)
     /\ \A e \in ActiveOn(t) \ {d} : ~LiveWorker(e)
     /\ disp' = [SettleActive(t, s) EXCEPT ![d] =
                   [Settle(disp[d], s) EXCEPT
                      !.stalled = @ /\ outcome = "succeeded",
                      !.worker = IF @ = None THEN None ELSE outcome]]
     /\ task' = Finish(t, s)
     /\ UNCHANGED <<rows, gate, epoch>>

-----------------------------------------------------------------------------
(* Failures *)

(* failDispatch once its checks have passed: count the failure, trip the    *)
(* circuit breaker, and give the task back unless something else owns it.   *)
Fail(d, worker) ==
  /\ Active(d)
  /\ disp' = [disp EXCEPT ![d] = [Settle(disp[d], FailureStatus(d)) EXCEPT
                                    !.failures = @ + 1, !.worker = worker]]
  /\ task' = IF task[disp[d].task] = "dispatched" /\ ~Contested(d)
             THEN SetTask(disp[d].task, RetryStatus(d)) ELSE task
  /\ UNCHANGED <<rows, gate, epoch>>

(* failDispatch from an escalation of the coordinator, or after the prompt  *)
(* could not be sent: refused while a supervised worker is alive.           *)
FailDispatch(d) == ~LiveWorker(d) /\ Fail(d, disp[d].worker)

(* What a proven stop leaves. *)
StoppedRow(d) ==
  [disp[d] EXCEPT !.worker = "stopped", !.status = IF Active(d) THEN "failed" ELSE @]

(* settleWorkerStop *)
StopSettled(d) ==
  /\ disp[d].worker = "stopping"
  /\ disp' = [disp EXCEPT ![d] = StoppedRow(d)]
  /\ task' = Interrupt(d)
  /\ UNCHANGED <<rows, gate, epoch>>

StopInFlight(d) == disp[d].worker = "stopping" /\ disp[d].epoch = epoch

(* failActiveDispatchOnExit: the terminal of an active dispatch exits.  An  *)
(* exit during a stop of this process is that stop succeeding; any other    *)
(* exit is a failure of the dispatch.                                       *)
WorkerExit(d) ==
  /\ Active(d)
  /\ disp[d].assignee # None
  /\ IF StopInFlight(d) THEN StopSettled(d)
     ELSE Fail(d, IF disp[d].worker = None THEN None ELSE "failed")

(* Mutation of ReconcileMissing: a pending stop is not told from a loss. *)
ReconcileMissingAsLoss(d) ==
  LET t == disp[d].task
  IN /\ Active(d)
     /\ LiveWorker(d)
     /\ disp[d].assignee # None
     /\ disp' = [disp EXCEPT ![d] = [Settle(disp[d], FailureStatus(d)) EXCEPT
                   !.failures = @ + 1, !.worker = "abandoned"]]
     /\ task' = IF ~Contested(d) /\ task[t] \in {"dispatched", "blocked"}
                THEN SetTask(t, RetryStatus(d)) ELSE Interrupt(d)
     /\ UNCHANGED <<rows, gate, epoch>>

(* reconcileMissingWorkerTerminal: recovery finds the terminal of a live    *)
(* worker gone.                                                             *)
ReconcileMissing(d) ==
  LET stopPending == disp[d].worker \in {"stopping", "stop_unknown"}
      t == disp[d].task
  IN /\ Active(d)
     /\ LiveWorker(d)
     /\ disp[d].assignee # None
     /\ disp' = [disp EXCEPT ![d] = [Settle(disp[d], FailureStatus(d)) EXCEPT
                   !.failures = @ + 1,
                   !.worker = IF stopPending THEN "stopped" ELSE "abandoned"]]
     /\ task' = CASE stopPending -> task
                  [] ~stopPending /\ ~Contested(d)
                       /\ task[t] \in {"dispatched", "blocked"} -> SetTask(t, RetryStatus(d))
                  [] OTHER -> Interrupt(d)
     /\ UNCHANGED <<rows, gate, epoch>>

-----------------------------------------------------------------------------
(* Stop and abandon *)

(* releaseContextOnlyDispatch: worker-stop and worker-abandon on a dispatch *)
(* without a worker row.                                                    *)
ReleaseContextOnly(d) ==
  /\ disp[d].worker = None
  /\ Active(d)
  /\ disp' = [disp EXCEPT ![d] = Settle(disp[d], "failed")]
  /\ task' = IF task[disp[d].task] = "dispatched" /\ ~Contested(d)
             THEN SetTask(disp[d].task, "blocked") ELSE task
  /\ UNCHANGED <<rows, gate, epoch>>

(* Mutation of BeginStop: the worker keeps its capability while it is stopped. *)
BeginStopKeepsCapability(d) ==
  /\ \/ disp[d].worker \in {"ready", "start_unknown"}
     \/ disp[d].worker = "stopping" /\ disp[d].epoch # epoch
  /\ disp' = [disp EXCEPT ![d] = [disp[d] EXCEPT !.worker = "stopping", !.epoch = epoch,
                                           !.asking = FALSE]]
  /\ task' = Interrupt(d)
  /\ UNCHANGED <<rows, gate, epoch>>

(* beginWorkerStop: from ready or start_unknown, or over a stop that a dead *)
(* process left behind.                                                     *)
BeginStop(d) ==
  /\ \/ disp[d].worker \in {"ready", "start_unknown"}
     \/ disp[d].worker = "stopping" /\ disp[d].epoch # epoch
  /\ disp' = [disp EXCEPT ![d] = [disp[d] EXCEPT !.worker = "stopping", !.epoch = epoch,
                                           !.capability = Revoked(@), !.asking = FALSE]]
  /\ task' = Interrupt(d)
  /\ UNCHANGED <<rows, gate, epoch>>

(* The local worker-stop handler proved the close. *)
SettleStop(d) == StopInFlight(d) /\ ~disp[d].federated /\ StopSettled(d)

(* markWorkerStopUnknown: by the stop handler, or by worker-show on a local *)
(* stop a dead process left behind.                                         *)
MarkStopUnknown(d) ==
  /\ disp[d].worker = "stopping"
  /\ disp[d].federated => disp[d].epoch = epoch
  /\ disp' = [disp EXCEPT ![d].worker = "stop_unknown"]
  /\ UNCHANGED <<task, rows, gate, epoch>>

(* reconcileFederatedWorkerStop: the execution host reports the stop, to    *)
(* the stop handler or to a later worker-show.                              *)
ReconcileStop(d) ==
  /\ disp[d].federated
  /\ disp[d].worker \in {"stopping", "stop_unknown"}
  /\ disp' = [disp EXCEPT ![d] = StoppedRow(d)]
  /\ task' = Interrupt(d)
  /\ UNCHANGED <<rows, gate, epoch>>

(* resumeFederatedWorkerForTerminalRelay: the execution host answers the    *)
(* stop with a worker that reported already; its report is in the relay.    *)
ResumeForReport(d) ==
  /\ disp[d].federated
  /\ StopInFlight(d)
  /\ disp' = [disp EXCEPT ![d].worker = "ready"]
  /\ task' = IF task[disp[d].task] = "blocked" THEN SetTask(disp[d].task, "dispatched") ELSE task
  /\ UNCHANGED <<rows, gate, epoch>>

(* abandonWorkerDispatch *)
Abandon(d) ==
  /\ disp[d].worker \in LiveState \ {"stopping"}
  /\ LatestOf(disp[d].task, d)
  /\ disp' = [disp EXCEPT ![d] = [(IF Active(d) THEN Settle(disp[d], "failed") ELSE disp[d]) EXCEPT
                                    !.worker = "abandoned", !.asking = FALSE]]
  /\ task' = Interrupt(d)
  /\ UNCHANGED <<rows, gate, epoch>>

-----------------------------------------------------------------------------
(* Decision gates *)

PendingGate(t) == \E g \in Gates : gate[g].task = t /\ gate[g].status = "pending"

(* createGate: completes the active dispatch and blocks the task, whatever  *)
(* its status was.                                                          *)
CreateGate(t, g) ==
  /\ task[t] # "absent"
  /\ gate[g].status = "absent"
  /\ ~Supervised(t)
  /\ gate' = [gate EXCEPT ![g] = [task |-> t, status |-> "pending"]]
  /\ disp' = SettleActive(t, "completed")
  /\ task' = SetTask(t, "blocked")
  /\ UNCHANGED <<rows, epoch>>

(* resolveGate: no check of the gate's status. *)
ResolveGate(g) ==
  /\ gate[g].status # "absent"
  /\ gate' = [gate EXCEPT ![g].status = "resolved"]
  /\ UpdateTaskStatus(gate[g].task, "ready")
  /\ UNCHANGED <<rows, epoch>>

(* reblockTasksWithPendingGates, one pass of the coordinator loop.  A task  *)
(* with an active dispatch refuses the update, which ends the pass: the     *)
(* gates after it keep their tasks as they are.                             *)
ReblockTasksWithPendingGates ==
  LET due == {t \in Tasks : PendingGate(t) /\ task[t] # "blocked"}
      refused == {t \in due : ActiveOn(t) # {}}
      passes == IF refused = {} THEN {due} ELSE SUBSET (due \ refused)
  IN \E done \in passes \ {{}} :
       /\ task' = [t \in Tasks |-> IF t \in done THEN "blocked" ELSE task[t]]
       /\ UNCHANGED <<disp, rows, gate, epoch>>

-----------------------------------------------------------------------------
(* Questions *)

(* createQuestion through the ask RPC, from the terminal of d *)
Ask(d) ==
  /\ Active(d)
  /\ disp[d].assignee # None
  /\ disp[d].capability # "revoked"
  /\ disp' = [disp EXCEPT ![d].asking = TRUE]
  /\ UNCHANGED <<task, rows, gate, epoch>>

(* registerFederatedQuestion: a question pulled from the execution host is  *)
(* imported whatever became of its dispatch.                                *)
ImportQuestion(d) ==
  /\ disp[d].federated
  /\ disp' = [disp EXCEPT ![d].asking = TRUE]
  /\ UNCHANGED <<task, rows, gate, epoch>>

(* answerQuestion on the last pending thread of d *)
Answer(d) ==
  /\ disp[d].asking
  /\ disp' = [disp EXCEPT ![d].asking = FALSE]
  /\ UNCHANGED <<task, rows, gate, epoch>>

-----------------------------------------------------------------------------
(* The runtime process dies and a new one opens the same database. *)
Restart ==
  /\ epoch < MaxEpoch
  /\ epoch' = epoch + 1
  /\ UNCHANGED <<task, disp, rows, gate>>

Next ==
  \/ \E t \in Tasks :
       \/ CreateTask(t)
       \/ \E s \in OperatorStatuses : TaskUpdate(t, s)
       \/ \E a \in Terminals, c \in {None, "live"} : CreateDispatchContext(t, a, c)
       \/ \E fed \in BOOLEAN : StartWorker(t, fed)
       \/ \E g \in Gates : CreateGate(t, g)
  \/ \E d \in Dispatches :
       \/ \E fed \in BOOLEAN : RetryWorker(d, fed)
       \/ \E a \in Terminals : PrepareAuthority(d, a)
       \/ MarkReady(d)
       \/ \E stalled \in BOOLEAN : FailStart(d, stalled)
       \/ MarkStartUnknown(d)
       \/ ReconcileStartReady(d)
       \/ ReconcileStartUnknown(d)
       \/ \E state \in {"failed", "stopped"}, stalled \in BOOLEAN :
            ReconcileStartSettled(d, state, stalled)
       \/ \E outcome \in {"succeeded", "failed"} : WorkerReport(d, outcome)
       \/ FailDispatch(d)
       \/ WorkerExit(d)
       \/ ReconcileMissing(d)
       \/ ReleaseContextOnly(d)
       \/ BeginStop(d)
       \/ SettleStop(d)
       \/ MarkStopUnknown(d)
       \/ ReconcileStop(d)
       \/ ResumeForReport(d)
       \/ Abandon(d)
       \/ Ask(d)
       \/ ImportQuestion(d)
       \/ Answer(d)
  \/ \E g \in Gates : ResolveGate(g)
  \/ ReblockTasksWithPendingGates
  \/ Restart

Spec == Init /\ [][Next]_vars
-----------------------------------------------------------------------------
(* Properties *)

(* A task is never handed out twice: at most one dispatch of a task is      *)
(* active and no later dispatch of the task exists.  Claims, retries, stops *)
(* and late reports all write dispatch rows in transactions of their own.   *)
OneActiveDispatch ==
  \A t \in Tasks : \A d \in ActiveOn(t) : LatestOf(t, d)

(* The task column and the dispatch rows agree although different methods   *)
(* write them: a dispatched task has an active dispatch, and a task with an *)
(* active dispatch is dispatched, or blocked while its worker is uncertain. *)
TaskMatchesDispatch ==
  \A t \in Tasks :
    /\ task[t] = "dispatched" => ActiveOn(t) # {}
    /\ \A d \in ActiveOn(t) :
         \/ /\ task[t] = "dispatched"
            /\ disp[d].worker \in {None, "starting", "ready"}
         \/ /\ task[t] = "blocked"
            /\ disp[d].worker \in {"start_unknown", "stopping", "stop_unknown"}

(* A supervised worker is alive exactly as long as its dispatch is active:  *)
(* no settled dispatch leaves a worker that still blocks updates of its     *)
(* task, and no active one has a worker that is gone.                       *)
WorkerMatchesDispatch ==
  \A d \in Dispatches :
    disp[d].worker # None =>
      /\ LiveWorker(d) <=> Active(d)
      /\ disp[d].worker = "succeeded" => disp[d].status = "completed"
      /\ disp[d].worker = "starting" => disp[d].status = "pending"

(* Two active dispatches never hold one terminal. *)
OneDispatchPerTerminal ==
  \A d, e \in Dispatches :
    /\ d # e
    /\ Active(d) /\ Active(e)
    /\ disp[d].assignee # None
    => disp[d].assignee # disp[e].assignee

(* What a dispatch leaves when it settles holds nothing open.  A terminal   *)
(* has authority over the database only through a dispatch that still wants *)
(* its report: active and not being stopped, or failed because its prompt   *)
(* was not seen to arrive.  And a question asked on a local dispatch closes *)
(* with it, so that none waits for an answer nobody will read.              *)
NothingOutlives ==
  \A d \in Dispatches :
    /\ disp[d].capability = "live" =>
         \/ Active(d) /\ disp[d].worker \notin {"stopping", "stop_unknown"}
         \/ disp[d].stalled
    /\ disp[d].asking /\ ~disp[d].federated => Active(d)

(* A dispatch that settled stays settled, and so does its worker, with one  *)
(* correction: the success of a worker whose prompt was taken for lost.     *)
(* And a completed task is reopened only by an operator or a gate, never as *)
(* a side effect of a late report, exit, stop or recovery that touches a    *)
(* dispatch row.                                                            *)
SettledStaysSettled ==
  [][/\ \A d \in Dispatches :
          disp[d].status \in DispatchStatus \ ActiveStatus =>
            \/ disp'[d].status = disp[d].status /\ disp'[d].worker = disp[d].worker
            \/ disp[d].stalled /\ disp'[d].status = "completed" /\ disp'[d].worker = "succeeded"
     /\ disp' # disp => \A t \in Tasks : task[t] = "completed" => task'[t] = "completed"]_vars

(* Work somebody asked to stop is not handed out again by itself: while the *)
(* stop is in doubt, and in the step that ends it, the task does not become *)
(* ready, whichever of the handler, the exit of the terminal, recovery, a   *)
(* report or a restarted process gets to it first.                          *)
StoppedWorkIsNotRedispatched ==
  [][\A d \in Dispatches :
       disp[d].worker \in {"stopping", "stop_unknown"} =>
         task'[disp[d].task] # "ready"]_vars

(* The failure that reaches the limit never gives the task back: of the     *)
(* failures that return a task to ready, whichever method counts them, none *)
(* is the BreakAt-th of its chain.                                          *)
BreakerLimitsRetries ==
  [][\A d \in Dispatches :
       disp[d].task # None /\ disp'[d].failures > disp[d].failures
         /\ disp'[d].failures >= BreakAt
         => task'[disp[d].task] # "ready"]_vars

(* A task waits exactly for its dependencies, unless an operator moves it   *)
(* to pending or ready by hand: it is left pending only while one of them   *)
(* is not completed, and turns from pending to ready only when all are.     *)
PromotionIsExact ==
  [][\A t \in Tasks :
       task[t] \in {"absent", "pending"} =>
         /\ task'[t] = "pending" => \E x \in Deps[t] : task'[x] # "completed"
         /\ task'[t] = "ready" => \A x \in Deps[t] : task'[x] = "completed"]_vars

(* The database implements the lease: a dispatch is the lease of its task   *)
(* while it is active, and spent once it has settled.                       *)
OwnerOf(t) == IF ActiveOn(t) = {} THEN None ELSE CHOOSE d \in ActiveOn(t) : TRUE

SeatOf(a) ==
  LET seated == {d \in Dispatches : Active(d) /\ disp[d].assignee = a}
  IN IF seated = {} THEN None ELSE CHOOSE d \in seated : TRUE

Lease == INSTANCE TaskLease WITH
  Leases <- Dispatches,
  owner <- [t \in Tasks |-> OwnerOf(t)],
  seat <- [a \in Terminals |-> SeatOf(a)],
  spent <- {d \in Dispatches : disp[d].status \in DispatchStatus \ ActiveStatus}

ImplementsTaskLease == Lease!LeaseSpec

(* The start and stop handlers of the running process end, because every    *)
(* wait in them has a timeout and every error path records an outcome; and  *)
(* somebody goes on asking worker-show about a local worker that a dead     *)
(* process left in doubt.                                                   *)
StartHandler(d) ==
  StartInFlight(d) /\ (MarkReady(d) \/ MarkStartUnknown(d) \/ \E b \in BOOLEAN : FailStart(d, b))

StopHandler(d) ==
  StopInFlight(d) /\ (SettleStop(d) \/ MarkStopUnknown(d) \/ ReconcileStop(d) \/ ResumeForReport(d))

WorkerShow(d) ==
  /\ ~disp[d].federated
  /\ disp[d].epoch # epoch
  /\ MarkStartUnknown(d) \/ MarkStopUnknown(d)

FairSpec ==
  /\ Spec
  /\ \A d \in Dispatches :
       WF_vars(StartHandler(d)) /\ WF_vars(StopHandler(d)) /\ WF_vars(WorkerShow(d))

(* No start or stop stays in flight for ever, across restarts: a worker of  *)
(* this process, or a local one of a dead process, leaves starting and      *)
(* stopping.  (A federated one of a dead process waits for its host.)       *)
Hanging(d) ==
  /\ disp[d].worker \in {"starting", "stopping"}
  /\ ~disp[d].federated \/ disp[d].epoch = epoch

NothingHangs == \A d \in Dispatches : Hanging(d) ~> ~Hanging(d)

-----------------------------------------------------------------------------
(* What the documentation and comments say that the code does not do *)

(* worker-stop resumes a federated worker whose host says it reported, so   *)
(* that the report waiting in the relay can settle it ("remote_report_      *)
(* pending").  A report settles a ready worker only if its dispatch is      *)
(* dispatched, and is refused as "already settled" otherwise.               *)
ResumedReportSettles ==
  \A d \in Dispatches : disp[d].worker = "ready" => disp[d].status = "dispatched"
=============================================================================
