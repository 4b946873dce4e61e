------------------------- MODULE DispatchLeaseProofs -------------------------
(***************************************************************************)
(* What DispatchLifecycle promises beyond one state: who holds a terminal, *)
(* what a settled dispatch leaves behind, how stops and failures end, when *)
(* a task is promoted, and that the database implements the task lease.    *)
(*                                                                         *)
(* Whatever the method, a step has one of four forms: it inserts a row for *)
(* a free task (Granted), moves the row of one dispatch (Moved), settles   *)
(* the dispatches of one task (Settled), or changes no row (TasksOnly).    *)
(* StepForm shows this; each property is then proved of the four forms.    *)
(***************************************************************************)
EXTENDS DispatchSafetyProofs

Stopping(row) == row.worker \in {"stopping", "stop_unknown"}

(* What a row leaves open.  The last two parts are what keeps the first two:*)
(* a bound worker without capability could ask while it is stopped, and a   *)
(* stalled row that runs could have a capability that a stop revoked.       *)
Clean(row) ==
  /\ row.capability = "live" =>
       \/ row.status \in ActiveStatus /\ ~Stopping(row)
       \/ row.stalled
  /\ row.asking /\ ~row.federated => row.status \in ActiveStatus /\ ~Stopping(row)
  /\ row.worker # None /\ row.assignee # None => row.capability # None
  /\ row.stalled => row.status \notin ActiveStatus

(* Inserted rows belong to a task, the others are untouched. *)
RowsFilled ==
  \A d \in Dispatches :
    IF d <= rows THEN disp[d].task # None /\ disp[d].status # "absent"
    ELSE disp[d] = NoRow

SInv ==
  /\ IInv
  /\ RowsFilled
  /\ OneDispatchPerTerminal
  /\ \A d \in Dispatches : Clean(disp[d])

-----------------------------------------------------------------------------
(* The forms of a step *)

Granted(t, row) ==
  /\ Insert(row)
  /\ row \in Row /\ Clean(row)
  /\ row.task = t /\ row.status \in ActiveStatus
  /\ ActiveOn(t) = {} /\ task[t] # "completed"
  /\ row.assignee # None => \A e \in Dispatches : disp[e].assignee = row.assignee => ~Active(e)

(* What a step on the row of d does to the row. *)
RowMoves(d, row) ==
  /\ row \in Row /\ Clean(row)
  /\ row.task = disp[d].task /\ row.status # "absent"
  /\ ~Active(d) => row.status = disp[d].status /\ row.worker = disp[d].worker
  /\ \/ row.assignee = disp[d].assignee
     \/ /\ disp[d].assignee = None /\ Active(d) /\ row.status \in ActiveStatus
        /\ row.assignee \in Terminals /\ TerminalFree(row.assignee, d)

(* What it does to the tasks. *)
TaskMoves(d, row) ==
  /\ \A u \in Tasks \ {disp[d].task} : task'[u] = task[u]
  /\ ~Active(d) => task' = task /\ row.failures = disp[d].failures
  /\ Active(d) /\ task'[disp[d].task] = "ready" =>
       ~Stopping(disp[d]) /\ row.failures < BreakAt

Moved(d, row) ==
  /\ disp[d].task \in Tasks
  /\ disp' = [disp EXCEPT ![d] = row] /\ rows' = rows
  /\ RowMoves(d, row)
  /\ TaskMoves(d, row)

(* What settling the dispatches of t leaves of the row of e. *)
RowSettles(t, e) ==
  /\ disp[e].task # t => disp'[e] = disp[e]
  /\ disp'[e].task = disp[e].task
  /\ disp'[e].assignee = disp[e].assignee
  /\ disp'[e].failures = disp[e].failures
  /\ Clean(disp'[e])
  /\ e \in ActiveOn(t) => disp'[e].status \in {"completed", "failed"}
  /\ e \notin ActiveOn(t) =>
       \/ disp'[e].status = disp[e].status /\ disp'[e].worker = disp[e].worker
       \/ /\ disp[e].status = "failed" /\ disp[e].stalled
          /\ disp'[e].status = "completed" /\ disp'[e].worker = "succeeded"

Settled(t) ==
  /\ rows' = rows
  /\ \A e \in Dispatches : RowSettles(t, e)
  /\ disp' # disp => task[t] # "completed"
  /\ task'[t] \in {"completed", "failed", "blocked"}
  /\ \A u \in Tasks \ {t} : task'[u] = task[u] \/ (task[u] = "pending" /\ task'[u] = "ready")

TasksOnly ==
  /\ UNCHANGED <<disp, rows>>
  /\ \A u \in Tasks : ActiveOn(u) # {} => task'[u] = task[u]

Form ==
  \/ \E t \in Tasks, row \in Row : Granted(t, row)
  \/ \E d \in Dispatches, row \in Row : Moved(d, row)
  \/ \E t \in Tasks : Settled(t)
  \/ TasksOnly

-----------------------------------------------------------------------------
(* Consequences of the invariant *)

(* A row that any method touches was inserted. *)
LEMMA InUse ==
  ASSUME SInv, NEW d \in Dispatches,
         \/ disp[d].status # "absent" \/ disp[d].worker # None
         \/ disp[d].federated \/ disp[d].asking
  PROVE  disp[d].task \in Tasks /\ disp[d].status # "absent" /\ d <= rows
<1>1. disp[d] # NoRow
  BY DEF NoRow
<1>2. disp[d] \in Row
  BY DEF SInv, IInv, TypeOK
<1> QED
  BY <1>1, <1>2 DEF SInv, RowsFilled, Row

(* The dispatch of d is the only active one of its task. *)
LEMMA ActiveFacts ==
  ASSUME SInv, NEW d \in Dispatches, Active(d)
  PROVE  /\ disp[d].task \in Tasks
         /\ ActiveOn(disp[d].task) = {d}
         /\ task[disp[d].task] \in {"dispatched", "blocked"}
         /\ Stopping(disp[d]) => task[disp[d].task] = "blocked"
         /\ ~Contested(d)
<1>1. disp[d].task \in Tasks
  BY InUse DEF Active, ActiveStatus
<1>2. Agrees(disp[d], task[disp[d].task]) /\ ~Contested(d)
  BY <1>1, RowFacts DEF SInv
<1>3. d \in ActiveOn(disp[d].task)
  BY <1>1 DEF ActiveOn
<1>4. ActiveOn(disp[d].task) = {d}
  BY <1>2, <1>3 DEF Contested
<1> QED
  BY <1>1, <1>2, <1>4, ConstantsOK DEF Agrees, Stopping, LiveState

LEMMA LiveFacts ==
  ASSUME SInv, NEW d \in Dispatches
  PROVE  /\ LiveWorker(d) => Active(d)
         /\ disp[d].worker \in LiveState => disp[d].worker # None
         /\ disp[d].worker = "starting" => disp[d].status = "pending"
         /\ Active(d) /\ disp[d].worker # None => disp[d].worker \in LiveState
         /\ disp[d] \in Row /\ Clean(disp[d])
<1>1. IInv
  BY DEF SInv
<1>2. disp[d] \in Row /\ Clean(disp[d])
  BY DEF SInv, IInv, TypeOK
<1>3. WorkerMatches(disp[d])
  BY <1>1, RowFacts
<1> QED
  BY <1>1, <1>2, <1>3, ConstantsOK, LiveIsActive DEF WorkerMatches, LiveWorker, Active, LiveState

-----------------------------------------------------------------------------
(* The row of a worker that starts, works or is stopped moves *)

(* An active row that stays active, its task dispatched or blocked. *)
LEMMA StaysActive ==
  ASSUME SInv, NEW d \in Dispatches, Active(d), NEW row \in Row,
         disp' = [disp EXCEPT ![d] = row], rows' = rows,
         Clean(row), row.task = disp[d].task, row.status \in ActiveStatus,
         row.assignee = disp[d].assignee,
         \A u \in Tasks \ {disp[d].task} : task'[u] = task[u],
         task'[disp[d].task] \in {"dispatched", "blocked"}
  PROVE  Form
<1>1. disp[d].task \in Tasks
  BY ActiveFacts
<1>2. RowMoves(d, row)
  BY DEF RowMoves, ActiveStatus
<1>3. TaskMoves(d, row)
  BY DEF TaskMoves
<1> QED
  BY <1>1, <1>2, <1>3 DEF Form, Moved

(* An active row that settles. *)
LEMMA RowEnds ==
  ASSUME SInv, NEW d \in Dispatches, Active(d), NEW row \in Row,
         disp' = [disp EXCEPT ![d] = row], rows' = rows,
         Clean(row), row.task = disp[d].task,
         row.status \in DispatchStatus \ ActiveStatus,
         row.assignee = disp[d].assignee,
         \A u \in Tasks \ {disp[d].task} : task'[u] = task[u],
         task'[disp[d].task] = "ready" => ~Stopping(disp[d]) /\ row.failures < BreakAt
  PROVE  Form
<1>1. disp[d].task \in Tasks
  BY ActiveFacts
<1>2. RowMoves(d, row)
  BY DEF RowMoves, DispatchStatus, ActiveStatus
<1>3. TaskMoves(d, row)
  BY DEF TaskMoves
<1> QED
  BY <1>1, <1>2, <1>3 DEF Form, Moved

(* SetTask and Interrupt touch the task of d only. *)
LEMMA TaskOfActive ==
  ASSUME SInv, NEW d \in Dispatches, Active(d)
  PROVE  /\ \A s : /\ \A u \in Tasks \ {disp[d].task} : SetTask(disp[d].task, s)[u] = task[u]
                   /\ SetTask(disp[d].task, s)[disp[d].task] = s
         /\ \A u \in Tasks \ {disp[d].task} : Interrupt(d)[u] = task[u]
         /\ Interrupt(d)[disp[d].task] = "blocked"
BY ActiveFacts, SetTaskIs, InterruptIs DEF SInv, IInv

-----------------------------------------------------------------------------
(* Each action has one of the forms *)

LEMMA StartForm ==
  ASSUME SInv, TypeOK', NEW d \in Dispatches
  PROVE  /\ \A a \in Terminals : PrepareAuthority(d, a) => Form
         /\ MarkReady(d) => Form
         /\ \A stalled \in BOOLEAN : FailStart(d, stalled) => Form
         /\ MarkStartUnknown(d) => Form
<1>0. /\ disp \in [Dispatches -> Row]
      /\ disp[d] \in Row /\ disp'[d] \in Row
      /\ Clean(disp[d])
  BY DEF SInv, IInv, TypeOK
<1>1. ASSUME disp[d].worker = "starting"
      PROVE  /\ Active(d) /\ disp[d].status = "pending"
             /\ ~disp[d].stalled
             /\ disp[d].task \in Tasks
             /\ task[disp[d].task] = "dispatched" /\ ~Contested(d)
  <2>1. Active(d) /\ disp[d].status = "pending"
    BY <1>1, LiveFacts DEF Active, ActiveStatus
  <2>2. Agrees(disp[d], task[disp[d].task])
    BY <2>1, ActiveFacts, RowFacts DEF SInv
  <2> QED
    BY <1>0, <1>1, <2>1, <2>2, ActiveFacts DEF Agrees, Clean, ActiveStatus
<1>2. ASSUME NEW a \in Terminals, PrepareAuthority(d, a)
      PROVE  Form
  <2> DEFINE row == [disp[d] EXCEPT !.assignee = a, !.capability = "live"]
  <2>1. disp' = [disp EXCEPT ![d] = row] /\ row \in Row
    BY <1>0, <1>2 DEF PrepareAuthority
  <2>2. /\ row.task = disp[d].task /\ row.status = "pending" /\ row.worker = "starting"
        /\ row.capability = "live" /\ row.assignee = a /\ ~row.stalled
    BY <1>0, <1>1, <1>2 DEF Row, PrepareAuthority, StartInFlight
  <2> HIDE DEF row
  <2>3. Clean(row)
    BY <2>2, ConstantsOK DEF Clean, Stopping, ActiveStatus
  <2>4. RowMoves(d, row)
    BY <1>1, <1>2, <2>1, <2>2, <2>3 DEF RowMoves, PrepareAuthority, StartInFlight, ActiveStatus
  <2>5. TaskMoves(d, row)
    BY <1>1, <1>2 DEF TaskMoves, PrepareAuthority, StartInFlight
  <2>6. rows' = rows /\ disp[d].task \in Tasks
    BY <1>1, <1>2 DEF PrepareAuthority, StartInFlight
  <2> QED
    BY <2>1, <2>4, <2>5, <2>6 DEF Form, Moved
<1>3. ASSUME MarkReady(d)
      PROVE  Form
  <2> DEFINE row == [disp[d] EXCEPT !.status = "dispatched", !.worker = "ready"]
  <2>0. disp[d].worker = "starting" /\ rows' = rows /\ task' = task
    BY <1>3 DEF MarkReady, StartInFlight
  <2>1. disp' = [disp EXCEPT ![d] = row] /\ row \in Row
    BY <1>0, <1>3 DEF MarkReady
  <2>2. /\ row.task = disp[d].task /\ row.status = "dispatched" /\ row.worker = "ready"
        /\ row.assignee = disp[d].assignee /\ ~row.stalled
        /\ row.capability = disp[d].capability
    BY <1>0, <1>1, <2>0 DEF Row
  <2> HIDE DEF row
  <2>3. Clean(row)
    BY <1>0, <2>0, <2>2, ConstantsOK DEF Clean, Stopping, ActiveStatus, LiveState
  <2> QED
    BY <1>1, <2>0, <2>1, <2>2, <2>3, StaysActive DEF ActiveStatus
<1>4. ASSUME NEW stalled \in BOOLEAN, FailStart(d, stalled)
      PROVE  Form
  <2> DEFINE row == [disp[d] EXCEPT
                       !.status = "failed", !.worker = "failed", !.asking = FALSE,
                       !.stalled = stalled,
                       !.capability = IF stalled THEN @ ELSE Revoked(@)]
  <2>0. disp[d].worker = "starting" /\ rows' = rows
    BY <1>4 DEF FailStart, StartInFlight
  <2>1. disp' = [disp EXCEPT ![d] = row] /\ row \in Row
    BY <1>0, <1>4 DEF FailStart
  <2>2. /\ row.task = disp[d].task /\ row.status = "failed" /\ row.worker = "failed"
        /\ row.assignee = disp[d].assignee /\ row.stalled = stalled /\ ~row.asking
        /\ row.capability = IF stalled THEN disp[d].capability ELSE Revoked(disp[d].capability)
    BY <1>0 DEF Row
  <2> HIDE DEF row
  <2>3. Clean(row)
    BY <1>0, <2>0, <2>2, ConstantsOK DEF Clean, Stopping, ActiveStatus, LiveState, Revoked
  <2>4. /\ \A u \in Tasks \ {disp[d].task} : task'[u] = task[u]
        /\ task'[disp[d].task] = "failed"
    BY <1>1, <1>4, <2>0, TaskOfActive DEF FailStart
  <2> QED
    BY <1>1, <2>0, <2>1, <2>2, <2>3, <2>4, RowEnds DEF ActiveStatus, DispatchStatus
<1>5. ASSUME MarkStartUnknown(d)
      PROVE  Form
  <2> DEFINE row == [disp[d] EXCEPT !.worker = "start_unknown"]
  <2>0. disp[d].worker = "starting" /\ rows' = rows
    BY <1>5 DEF MarkStartUnknown
  <2>1. disp' = [disp EXCEPT ![d] = row] /\ row \in Row
    BY <1>0, <1>5 DEF MarkStartUnknown
  <2>2. /\ row.task = disp[d].task /\ row.status = "pending" /\ row.worker = "start_unknown"
        /\ row.assignee = disp[d].assignee /\ ~row.stalled
        /\ row.capability = disp[d].capability
    BY <1>0, <1>1, <2>0 DEF Row
  <2> HIDE DEF row
  <2>3. Clean(row)
    BY <1>0, <2>0, <2>2, ConstantsOK DEF Clean, Stopping, ActiveStatus, LiveState
  <2>4. /\ \A u \in Tasks \ {disp[d].task} : task'[u] = task[u]
        /\ task'[disp[d].task] = "blocked"
    BY <1>1, <1>5, <2>0, TaskOfActive DEF MarkStartUnknown
  <2> QED
    BY <1>1, <2>0, <2>1, <2>2, <2>3, <2>4, StaysActive DEF ActiveStatus
<1> QED
  BY <1>2, <1>3, <1>4, <1>5

LEMMA ReconcileStartForm ==
  ASSUME SInv, TypeOK', NEW d \in Dispatches
  PROVE  /\ ReconcileStartReady(d) => Form
         /\ ReconcileStartUnknown(d) => Form
         /\ \A state \in {"failed", "stopped"}, stalled \in BOOLEAN :
              ReconcileStartSettled(d, state, stalled) => Form
<1>0. /\ disp \in [Dispatches -> Row]
      /\ disp[d] \in Row /\ disp'[d] \in Row
      /\ Clean(disp[d])
  BY DEF SInv, IInv, TypeOK
<1>1. ASSUME ReconcileStart(d)
      PROVE  /\ Active(d) /\ ~Stopping(disp[d]) /\ ~disp[d].stalled
             /\ disp[d].federated /\ disp[d].worker # None
             /\ task[disp[d].task] \in {"dispatched", "blocked"}
             /\ disp[d].task \in Tasks
  <2>1. Active(d) /\ disp[d].worker # None /\ ~Stopping(disp[d]) /\ disp[d].federated
    BY <1>1, LiveFacts DEF ReconcileStart, LiveWorker, LiveState, Stopping
  <2> QED
    BY <1>0, <2>1, ActiveFacts DEF Clean, Active
<1>2. ASSUME ReconcileStartReady(d)
      PROVE  Form
  <2> DEFINE row == [disp[d] EXCEPT !.status = IF @ = "pending" THEN "dispatched" ELSE @,
                                    !.worker = "ready"]
  <2>0. ReconcileStart(d) /\ rows' = rows
    BY <1>2 DEF ReconcileStartReady
  <2>1. disp' = [disp EXCEPT ![d] = row] /\ row \in Row
    BY <1>0, <1>2 DEF ReconcileStartReady
  <2>2. /\ row.task = disp[d].task /\ row.status = "dispatched" /\ row.worker = "ready"
        /\ row.assignee = disp[d].assignee /\ ~row.stalled
        /\ row.capability = disp[d].capability
    BY <1>0, <1>1, <2>0 DEF Row, Active, ActiveStatus
  <2> HIDE DEF row
  <2>3. Clean(row)
    BY <1>0, <1>1, <2>0, <2>2, ConstantsOK DEF Clean, Stopping, ActiveStatus
  <2>4. /\ \A u \in Tasks \ {disp[d].task} : task'[u] = task[u]
        /\ task'[disp[d].task] \in {"dispatched", "blocked"}
    BY <1>1, <1>2, <2>0, TaskOfActive DEF ReconcileStartReady
  <2> QED
    BY <1>1, <2>0, <2>1, <2>2, <2>3, <2>4, StaysActive DEF ActiveStatus
<1>3. ASSUME ReconcileStartUnknown(d)
      PROVE  Form
  <2> DEFINE row == [disp[d] EXCEPT !.worker = "start_unknown"]
  <2>0. ReconcileStart(d) /\ rows' = rows
    BY <1>3 DEF ReconcileStartUnknown
  <2>1. disp' = [disp EXCEPT ![d] = row] /\ row \in Row
    BY <1>0, <1>3 DEF ReconcileStartUnknown
  <2>2. /\ row.task = disp[d].task /\ row.status \in ActiveStatus
        /\ row.worker = "start_unknown"
        /\ row.assignee = disp[d].assignee /\ ~row.stalled
        /\ row.capability = disp[d].capability
    BY <1>0, <1>1, <2>0 DEF Row, Active
  <2> HIDE DEF row
  <2>3. Clean(row)
    BY <1>0, <1>1, <2>0, <2>2, ConstantsOK DEF Clean, Stopping
  <2>4. /\ \A u \in Tasks \ {disp[d].task} : task'[u] = task[u]
        /\ task'[disp[d].task] \in {"dispatched", "blocked"}
    BY <1>1, <1>3, <2>0, TaskOfActive DEF ReconcileStartUnknown
  <2> QED
    BY <1>1, <2>0, <2>1, <2>2, <2>3, <2>4, StaysActive
<1>4. ASSUME NEW state \in {"failed", "stopped"}, NEW stalled \in BOOLEAN,
             ReconcileStartSettled(d, state, stalled)
      PROVE  Form
  <2> DEFINE row == [Settle(disp[d], "failed") EXCEPT
                       !.worker = state, !.stalled = stalled, !.asking = FALSE]
  <2>0. ReconcileStart(d) /\ rows' = rows /\ Active(d)
    BY <1>1, <1>4 DEF ReconcileStartSettled
  <2>1. disp' = [disp EXCEPT ![d] = row] /\ row \in Row
    BY <1>0, <1>4, <2>0 DEF ReconcileStartSettled
  <2>2. /\ row.task = disp[d].task /\ row.status = "failed"
        /\ row.assignee = disp[d].assignee /\ ~row.asking
        /\ row.capability = Revoked(disp[d].capability)
    BY <1>0 DEF Row, Settle
  <2> HIDE DEF row
  <2>3. Clean(row)
    BY <1>0, <1>1, <2>0, <2>2, ConstantsOK DEF Clean, Stopping, ActiveStatus, Revoked
  <2>4. /\ \A u \in Tasks \ {disp[d].task} : task'[u] = task[u]
        /\ task'[disp[d].task] \in {"failed", "blocked"}
    BY <1>1, <1>4, <2>0, TaskOfActive DEF ReconcileStartSettled
  <2> QED
    BY <1>1, <2>0, <2>1, <2>2, <2>3, <2>4, RowEnds DEF ActiveStatus, DispatchStatus
<1> QED
  BY <1>2, <1>3, <1>4

(* A settled row without capability, question or pending correction is      *)
(* clean, whatever else it says.                                            *)
LEMMA SettleClean ==
  ASSUME NEW old \in Row, Clean(old), old.status \in ActiveStatus,
         NEW row \in Row, row.capability = Revoked(old.capability), ~row.asking,
         row.assignee = old.assignee, row.worker # None => old.worker # None,
         row.status \notin ActiveStatus
  PROVE  Clean(row)
BY ConstantsOK DEF Clean, Revoked

LEMMA FailForm ==
  ASSUME SInv, TypeOK', NEW d \in Dispatches, NEW worker,
         worker # None => disp[d].worker # None, Fail(d, worker)
  PROVE  Form
<1>0. /\ disp \in [Dispatches -> Row]
      /\ disp[d] \in Row /\ disp'[d] \in Row
      /\ Clean(disp[d])
  BY DEF SInv, IInv, TypeOK
<1> DEFINE row == [Settle(disp[d], FailureStatus(d)) EXCEPT
                     !.failures = @ + 1, !.worker = worker]
<1>1. disp' = [disp EXCEPT ![d] = row] /\ row \in Row
  BY <1>0 DEF Fail
<1>2. /\ row.task = disp[d].task /\ row.status = FailureStatus(d)
      /\ row.worker = worker /\ ~row.asking /\ row.assignee = disp[d].assignee
      /\ row.capability = Revoked(disp[d].capability)
      /\ row.failures = disp[d].failures + 1
  BY <1>0 DEF Row, Settle
<1> HIDE DEF row
<1>3. Active(d) /\ rows' = rows
  BY DEF Fail
<1>4. row.status \in DispatchStatus \ ActiveStatus
  BY <1>2, StatusTypes DEF ActiveStatus, DispatchStatus
<1>5. Clean(row)
  BY <1>0, <1>1, <1>2, <1>3, <1>4, SettleClean DEF Active
<1>6. \A u \in Tasks \ {disp[d].task} : task'[u] = task[u]
  BY <1>3, TaskOfActive DEF Fail
<1>7. task'[disp[d].task] = "ready" => ~Stopping(disp[d]) /\ row.failures < BreakAt
  <2>1. SUFFICES ASSUME task'[disp[d].task] = "ready"
                 PROVE  ~Stopping(disp[d]) /\ row.failures < BreakAt
    OBVIOUS
  <2>2. task[disp[d].task] = "dispatched" /\ RetryStatus(d) = "ready"
    BY <1>3, <2>1, ActiveFacts, TaskOfActive DEF Fail
  <2>3. disp[d].failures \in Nat
    BY <1>0 DEF Row
  <2> QED
    BY <1>2, <1>3, <2>2, <2>3, ConstantsOK, ActiveFacts DEF RetryStatus, FailureStatus
<1> QED
  BY <1>1, <1>2, <1>3, <1>4, <1>5, <1>6, <1>7, RowEnds

LEMMA StoppedForm ==
  ASSUME SInv, TypeOK', NEW d \in Dispatches, Stopping(disp[d]),
         disp' = [disp EXCEPT ![d] = StoppedRow(d)],
         task' = Interrupt(d),
         rows' = rows
  PROVE  Form
<1>0. /\ disp \in [Dispatches -> Row]
      /\ disp[d] \in Row /\ disp'[d] \in Row
      /\ Clean(disp[d])
  BY DEF SInv, IInv, TypeOK
<1>1. Active(d)
  BY LiveFacts DEF LiveWorker, LiveState, Stopping
<1> DEFINE row == StoppedRow(d)
<1>2. disp' = [disp EXCEPT ![d] = row] /\ row \in Row
  BY <1>0
<1>3. /\ row.task = disp[d].task /\ row.status = "failed" /\ row.worker = "stopped"
      /\ row.assignee = disp[d].assignee /\ row.asking = disp[d].asking
      /\ row.federated = disp[d].federated /\ row.stalled = disp[d].stalled
      /\ row.capability = disp[d].capability
  BY <1>0, <1>1 DEF Row, StoppedRow
<1> HIDE DEF row
<1>4. Clean(row)
  BY <1>0, <1>3, ConstantsOK DEF Clean, Stopping, ActiveStatus, LiveState
<1>5. /\ \A u \in Tasks \ {disp[d].task} : task'[u] = task[u]
      /\ task'[disp[d].task] = "blocked"
  BY <1>1, TaskOfActive
<1> QED
  BY <1>1, <1>2, <1>3, <1>4, <1>5, RowEnds DEF DispatchStatus, ActiveStatus

LEMMA FailureForm ==
  ASSUME SInv, TypeOK', NEW d \in Dispatches
  PROVE  /\ FailDispatch(d) => Form
         /\ WorkerExit(d) => Form
         /\ ReconcileMissing(d) => Form
         /\ ReleaseContextOnly(d) => Form
<1>0. /\ disp \in [Dispatches -> Row]
      /\ disp[d] \in Row /\ disp'[d] \in Row
      /\ Clean(disp[d])
  BY DEF SInv, IInv, TypeOK
<1>1. ASSUME FailDispatch(d)
      PROVE  Form
  BY <1>1, FailForm DEF FailDispatch
<1>2. ASSUME WorkerExit(d)
      PROVE  Form
  <2>1. CASE StopInFlight(d)
    BY <1>2, <2>1, StoppedForm DEF WorkerExit, StopSettled, Stopping
  <2>2. CASE ~StopInFlight(d)
    <3> DEFINE w == IF disp[d].worker = None THEN None ELSE "failed"
    <3>1. Fail(d, w) /\ (w # None => disp[d].worker # None)
      BY <1>2, <2>2 DEF WorkerExit
    <3> HIDE DEF w
    <3> QED
      BY <3>1, FailForm
  <2> QED
    BY <2>1, <2>2
<1>3. ASSUME ReconcileMissing(d)
      PROVE  Form
  <2> DEFINE row == [Settle(disp[d], FailureStatus(d)) EXCEPT
                       !.failures = @ + 1,
                       !.worker = IF Stopping(disp[d]) THEN "stopped" ELSE "abandoned"]
  <2>1. disp' = [disp EXCEPT ![d] = row] /\ row \in Row
    BY <1>0, <1>3 DEF ReconcileMissing, Stopping
  <2>2. /\ row.task = disp[d].task /\ row.status = FailureStatus(d)
        /\ ~row.asking /\ row.assignee = disp[d].assignee
        /\ row.capability = Revoked(disp[d].capability)
        /\ row.failures = disp[d].failures + 1
    BY <1>0 DEF Row, Settle
  <2> HIDE DEF row
  <2>3. Active(d) /\ rows' = rows /\ disp[d].worker # None
    BY <1>3, LiveFacts DEF ReconcileMissing, LiveWorker
  <2>4. row.status \in DispatchStatus \ ActiveStatus
    BY <2>2, StatusTypes DEF ActiveStatus, DispatchStatus
  <2>5. Clean(row)
    BY <1>0, <2>1, <2>2, <2>3, <2>4, SettleClean DEF Active
  <2>6. CASE Stopping(disp[d])
    <3>1. task' = task
      BY <1>3, <2>6 DEF ReconcileMissing, Stopping
    <3>2. task[disp[d].task] = "blocked"
      BY <2>3, <2>6, ActiveFacts
    <3> QED
      BY <2>1, <2>2, <2>3, <2>4, <2>5, <3>1, <3>2, RowEnds
  <2>7. CASE ~Stopping(disp[d])
    <3>1. task' = IF /\ ~Contested(d)
                     /\ task[disp[d].task] \in {"dispatched", "blocked"}
                  THEN SetTask(disp[d].task, RetryStatus(d)) ELSE Interrupt(d)
      BY <1>3, <2>7 DEF ReconcileMissing, Stopping
    <3>2. /\ \A u \in Tasks \ {disp[d].task} : task'[u] = task[u]
          /\ task'[disp[d].task] = RetryStatus(d)
      BY <2>3, <3>1, ActiveFacts, TaskOfActive
    <3>3. disp[d].failures \in Nat
      BY <1>0 DEF Row
    <3>4. RetryStatus(d) = "ready" => row.failures < BreakAt
      BY <2>2, <3>3, ConstantsOK DEF RetryStatus, FailureStatus
    <3> QED
      BY <2>1, <2>2, <2>3, <2>4, <2>5, <2>7, <3>2, <3>4, RowEnds
  <2> QED
    BY <2>6, <2>7
<1>4. ASSUME ReleaseContextOnly(d)
      PROVE  Form
  <2> DEFINE row == Settle(disp[d], "failed")
  <2>1. disp' = [disp EXCEPT ![d] = row] /\ row \in Row
    BY <1>0, <1>4 DEF ReleaseContextOnly
  <2>2. /\ row.task = disp[d].task /\ row.status = "failed"
        /\ row.worker = disp[d].worker /\ ~row.asking
        /\ row.assignee = disp[d].assignee
        /\ row.capability = Revoked(disp[d].capability)
    BY <1>0 DEF Row, Settle
  <2> HIDE DEF row
  <2>3. Active(d) /\ rows' = rows
    BY <1>4 DEF ReleaseContextOnly
  <2>4. row.status \in DispatchStatus \ ActiveStatus
    BY <2>2 DEF ActiveStatus, DispatchStatus
  <2>5. Clean(row)
    BY <1>0, <2>1, <2>2, <2>3, <2>4, SettleClean DEF Active
  <2>6. /\ \A u \in Tasks \ {disp[d].task} : task'[u] = task[u]
        /\ task'[disp[d].task] = "blocked"
    BY <1>4, <2>3, ActiveFacts, TaskOfActive DEF ReleaseContextOnly
  <2> QED
    BY <2>1, <2>2, <2>3, <2>4, <2>5, <2>6, RowEnds
<1> QED
  BY <1>1, <1>2, <1>3, <1>4

LEMMA StopForm ==
  ASSUME SInv, TypeOK', NEW d \in Dispatches
  PROVE  /\ BeginStop(d) => Form
         /\ SettleStop(d) => Form
         /\ MarkStopUnknown(d) => Form
         /\ ReconcileStop(d) => Form
         /\ ResumeForReport(d) => Form
         /\ Abandon(d) => Form
<1>0. /\ disp \in [Dispatches -> Row]
      /\ disp[d] \in Row /\ disp'[d] \in Row
      /\ Clean(disp[d])
  BY DEF SInv, IInv, TypeOK
<1>1. ASSUME LiveWorker(d)
      PROVE  /\ Active(d) /\ disp[d].worker # None /\ ~disp[d].stalled
             /\ task[disp[d].task] \in {"dispatched", "blocked"}
  BY <1>0, <1>1, LiveFacts, ActiveFacts DEF Clean, Active, LiveWorker
<1>2. ASSUME BeginStop(d)
      PROVE  Form
  <2> DEFINE row == [disp[d] EXCEPT !.worker = "stopping", !.epoch = epoch,
                                    !.capability = Revoked(@), !.asking = FALSE]
  <2>0. LiveWorker(d) /\ rows' = rows
    BY <1>2 DEF BeginStop, LiveWorker, LiveState
  <2>1. disp' = [disp EXCEPT ![d] = row] /\ row \in Row
    BY <1>0, <1>2 DEF BeginStop
  <2>2. /\ row.task = disp[d].task /\ row.status \in ActiveStatus
        /\ row.assignee = disp[d].assignee /\ ~row.asking
        /\ row.stalled = disp[d].stalled
        /\ row.capability = Revoked(disp[d].capability)
    BY <1>0, <1>1, <2>0 DEF Row, Active
  <2> HIDE DEF row
  <2>3. Clean(row)
    BY <1>0, <1>1, <2>0, <2>2, ConstantsOK DEF Clean, Revoked
  <2>4. /\ \A u \in Tasks \ {disp[d].task} : task'[u] = task[u]
        /\ task'[disp[d].task] = "blocked"
    BY <1>1, <1>2, <2>0, TaskOfActive DEF BeginStop
  <2> QED
    BY <1>1, <2>0, <2>1, <2>2, <2>3, <2>4, StaysActive
<1>3. ASSUME SettleStop(d)
      PROVE  Form
  BY <1>3, StoppedForm DEF SettleStop, StopSettled, Stopping
<1>4. ASSUME MarkStopUnknown(d)
      PROVE  Form
  <2> DEFINE row == [disp[d] EXCEPT !.worker = "stop_unknown"]
  <2>0. LiveWorker(d) /\ rows' = rows /\ task' = task /\ Stopping(disp[d])
    BY <1>4 DEF MarkStopUnknown, LiveWorker, LiveState, Stopping
  <2>1. disp' = [disp EXCEPT ![d] = row] /\ row \in Row
    BY <1>0, <1>4 DEF MarkStopUnknown
  <2>2. /\ row.task = disp[d].task /\ row.status \in ActiveStatus
        /\ row.assignee = disp[d].assignee /\ row.asking = disp[d].asking
        /\ row.stalled = disp[d].stalled /\ row.federated = disp[d].federated
        /\ row.capability = disp[d].capability
    BY <1>0, <1>1, <2>0 DEF Row, Active
  <2> HIDE DEF row
  <2>3. Clean(row)
    BY <1>0, <1>1, <2>0, <2>2 DEF Clean
  <2> QED
    BY <1>1, <2>0, <2>1, <2>2, <2>3, StaysActive
<1>5. ASSUME ReconcileStop(d)
      PROVE  Form
  BY <1>5, StoppedForm DEF ReconcileStop, Stopping
<1>6. ASSUME ResumeForReport(d)
      PROVE  Form
  <2> DEFINE row == [disp[d] EXCEPT !.worker = "ready"]
  <2>0. LiveWorker(d) /\ rows' = rows /\ Stopping(disp[d])
    BY <1>6 DEF ResumeForReport, StopInFlight, LiveWorker, LiveState, Stopping
  <2>1. disp' = [disp EXCEPT ![d] = row] /\ row \in Row
    BY <1>0, <1>6 DEF ResumeForReport
  <2>2. /\ row.task = disp[d].task /\ row.status \in ActiveStatus
        /\ row.assignee = disp[d].assignee /\ row.asking = disp[d].asking
        /\ row.stalled = disp[d].stalled /\ row.federated = disp[d].federated
        /\ row.capability = disp[d].capability
    BY <1>0, <1>1, <2>0 DEF Row, Active
  <2> HIDE DEF row
  <2>3. Clean(row)
    BY <1>0, <1>1, <2>0, <2>2 DEF Clean
  <2>4. /\ \A u \in Tasks \ {disp[d].task} : task'[u] = task[u]
        /\ task'[disp[d].task] \in {"dispatched", "blocked"}
    BY <1>1, <1>6, <2>0, TaskOfActive DEF ResumeForReport
  <2> QED
    BY <1>1, <2>0, <2>1, <2>2, <2>3, <2>4, StaysActive
<1>7. ASSUME Abandon(d)
      PROVE  Form
  <2> DEFINE row == [Settle(disp[d], "failed") EXCEPT !.worker = "abandoned", !.asking = FALSE]
  <2>0. LiveWorker(d) /\ Active(d) /\ rows' = rows
    BY <1>1, <1>7 DEF Abandon, LiveWorker
  <2>1. disp' = [disp EXCEPT ![d] = row] /\ row \in Row
    BY <1>0, <1>7, <2>0 DEF Abandon
  <2>2. /\ row.task = disp[d].task /\ row.status = "failed" /\ ~row.asking
        /\ row.assignee = disp[d].assignee
        /\ row.capability = Revoked(disp[d].capability)
    BY <1>0 DEF Row, Settle
  <2> HIDE DEF row
  <2>3. row.status \in DispatchStatus \ ActiveStatus
    BY <2>2 DEF ActiveStatus, DispatchStatus
  <2>4. Clean(row)
    BY <1>0, <1>1, <2>0, <2>1, <2>2, <2>3, SettleClean DEF Active
  <2>5. /\ \A u \in Tasks \ {disp[d].task} : task'[u] = task[u]
        /\ task'[disp[d].task] = "blocked"
    BY <1>7, <2>0, TaskOfActive DEF Abandon
  <2> QED
    BY <2>0, <2>1, <2>2, <2>3, <2>4, <2>5, RowEnds
<1> QED
  BY <1>2, <1>3, <1>4, <1>5, <1>6, <1>7

LEMMA QuestionForm ==
  ASSUME SInv, TypeOK', NEW d \in Dispatches, Ask(d) \/ ImportQuestion(d) \/ Answer(d)
  PROVE  Form
<1>0. /\ disp \in [Dispatches -> Row]
      /\ disp[d] \in Row /\ disp'[d] \in Row
      /\ Clean(disp[d])
  BY DEF SInv, IInv, TypeOK
<1>1. PICK b \in BOOLEAN : disp' = [disp EXCEPT ![d] = [disp[d] EXCEPT !.asking = b]]
                           /\ (b => Ask(d) \/ ImportQuestion(d))
  BY DEF Ask, ImportQuestion, Answer
<1> DEFINE row == [disp[d] EXCEPT !.asking = b]
<1>2. disp' = [disp EXCEPT ![d] = row] /\ row \in Row
  BY <1>0, <1>1
<1>3. /\ row.task = disp[d].task /\ row.status = disp[d].status
      /\ row.worker = disp[d].worker /\ row.assignee = disp[d].assignee
      /\ row.stalled = disp[d].stalled /\ row.federated = disp[d].federated
      /\ row.capability = disp[d].capability /\ row.asking = b
      /\ row.failures = disp[d].failures
  BY <1>0 DEF Row
<1> HIDE DEF row
<1>4. Stopping(row) = Stopping(disp[d])
  BY <1>3 DEF Stopping
<1>5. b /\ ~disp[d].federated => row.status \in ActiveStatus /\ ~Stopping(disp[d])
  <2> SUFFICES ASSUME b, ~disp[d].federated
               PROVE  row.status \in ActiveStatus /\ ~Stopping(disp[d])
    OBVIOUS
  <2>1. Ask(d)
    BY <1>1 DEF ImportQuestion
  <2>2. Active(d) /\ disp[d].assignee # None /\ disp[d].capability # "revoked"
    BY <2>1 DEF Ask
  <2>3. disp[d].worker # None => disp[d].capability = "live"
    BY <1>0, <2>2 DEF Clean, Row
  <2>4. Stopping(disp[d]) => disp[d].worker # None
    BY LiveFacts DEF Stopping, LiveState
  <2> QED
    BY <1>0, <1>3, <2>2, <2>3, <2>4 DEF Clean, Active
<1>6. Clean(row)
  BY <1>0, <1>3, <1>4, <1>5 DEF Clean
<1>7. disp[d].task \in Tasks /\ disp[d].status # "absent"
  BY InUse DEF Ask, ImportQuestion, Answer, Active, ActiveStatus
<1>8. task' = task /\ rows' = rows
  BY DEF Ask, ImportQuestion, Answer
<1>9. RowMoves(d, row)
  BY <1>2, <1>3, <1>6, <1>7 DEF RowMoves
<1>10. Active(d) => task[disp[d].task] # "ready"
  BY ActiveFacts
<1>11. TaskMoves(d, row)
  BY <1>3, <1>8, <1>10 DEF TaskMoves
<1> QED
  BY <1>2, <1>7, <1>8, <1>9, <1>11 DEF Form, Moved

LEMMA HandOutForm ==
  ASSUME SInv, TypeOK'
  PROVE  /\ \A t \in Tasks, a \in Terminals, c \in {None, "live"} :
              CreateDispatchContext(t, a, c) => Form
         /\ \A t \in Tasks, fed \in BOOLEAN : StartWorker(t, fed) => Form
         /\ \A d \in Dispatches, fed \in BOOLEAN : RetryWorker(d, fed) => Form
<1>1. \A t \in Tasks : task[t] = "ready" => ActiveOn(t) = {}
  BY DEF SInv, IInv, TaskMatchesDispatch
<1>2. epoch \in 0 .. MaxEpoch
  BY DEF SInv, IInv, TypeOK
<1>3. ASSUME NEW t \in Tasks, NEW a \in Terminals, NEW c \in {None, "live"},
             CreateDispatchContext(t, a, c)
      PROVE  Form
  <2>1. PICK n \in 0 .. MaxDispatches :
          Insert([NoRow EXCEPT !.task = t, !.status = "dispatched", !.failures = n,
                               !.capability = c, !.assignee = a, !.epoch = epoch])
    BY <1>3 DEF CreateDispatchContext
  <2> DEFINE row == [NoRow EXCEPT !.task = t, !.status = "dispatched", !.failures = n,
                                  !.capability = c, !.assignee = a, !.epoch = epoch]
  <2>2. row \in Row
    <3>1. n \in Nat
      BY ConstantsOK
    <3> QED
      BY <1>2, <3>1, NoRowType DEF Row, DispatchStatus, ActiveStatus
  <2>3. /\ row.task = t /\ row.status = "dispatched" /\ row.worker = None
        /\ row.assignee = a /\ ~row.stalled /\ ~row.asking
    BY DEF NoRow
  <2>4. Insert(row) /\ ActiveOn(t) = {} /\ task[t] # "completed"
    BY <1>1, <1>3, <2>1 DEF CreateDispatchContext
  <2> HIDE DEF row
  <2>5. Clean(row)
    BY <2>3, ConstantsOK DEF Clean, Stopping, ActiveStatus, LiveState
  <2>6. Granted(t, row)
    BY <1>3, <2>2, <2>3, <2>4, <2>5 DEF Granted, CreateDispatchContext, ActiveStatus
  <2> QED
    BY <2>2, <2>6 DEF Form
<1>4. ASSUME NEW t \in Tasks, NEW fed \in BOOLEAN, ActiveOn(t) = {}, task[t] # "completed",
             Insert(StartingRow(t, fed))
      PROVE  Form
  <2> DEFINE row == StartingRow(t, fed)
  <2>1. row \in Row
    BY <1>2, NoRowType DEF StartingRow, Row, DispatchStatus, ActiveStatus, LiveState
  <2>2. /\ row.task = t /\ row.status = "pending" /\ row.assignee = None
        /\ ~row.stalled /\ ~row.asking /\ row.capability = None
    BY DEF NoRow, StartingRow
  <2>3. Insert(row)
    BY <1>4
  <2> HIDE DEF row
  <2>4. Clean(row)
    BY <2>2, ConstantsOK DEF Clean
  <2>5. Granted(t, row)
    BY <1>4, <2>1, <2>2, <2>3, <2>4 DEF Granted, ActiveStatus
  <2> QED
    BY <2>1, <2>5 DEF Form
<1>5. ASSUME NEW t \in Tasks, NEW fed \in BOOLEAN, StartWorker(t, fed)
      PROVE  Form
  BY <1>1, <1>4, <1>5 DEF StartWorker
<1>6. ASSUME NEW d \in Dispatches, NEW fed \in BOOLEAN, RetryWorker(d, fed)
      PROVE  Form
  <2>1. PICK t \in Tasks :
          LatestOf(t, d) /\ task[t] \in {"failed", "blocked"} /\ Insert(StartingRow(t, fed))
    BY <1>6 DEF RetryWorker
  <2>2. ~Active(d)
    BY <1>6, ConstantsOK, LiveFacts
       DEF RetryWorker, LiveState, SettledState, Active, ActiveStatus
  <2>3. ASSUME NEW e \in ActiveOn(t)
        PROVE  FALSE
    <3>1. e <= d /\ d <= e
      BY <2>1, <2>3 DEF SInv, IInv, OneActiveDispatch, LatestOf, ActiveOn
    <3> QED
      BY <2>2, <2>3, <3>1 DEF ActiveOn, Dispatches
  <2> QED
    BY <1>4, <2>1, <2>3
<1> QED
  BY <1>3, <1>5, <1>6

(* Settling the active dispatches of a task, row by row. *)
LEMMA RowSettled ==
  ASSUME SInv, NEW t \in Tasks, NEW s \in {"completed", "failed"}, NEW e \in Dispatches,
         disp'[e] = SettleActive(t, s)[e]
  PROVE  RowSettles(t, e)
<1>1. disp[e] \in Row /\ Clean(disp[e])
  BY DEF SInv, IInv, TypeOK
<1>2. CASE e \in ActiveOn(t)
  <2>1. disp'[e] = Settle(disp[e], s)
    BY <1>2 DEF SettleActive
  <2> DEFINE row == Settle(disp[e], s)
  <2>2. /\ row.task = disp[e].task /\ row.status = s /\ row.worker = disp[e].worker
        /\ row.assignee = disp[e].assignee /\ ~row.asking
        /\ row.failures = disp[e].failures
        /\ row.capability = Revoked(disp[e].capability)
    BY <1>1 DEF Row, Settle
  <2>3. row \in Row
    BY <1>1, SettleType DEF DispatchStatus
  <2>4. disp'[e] = row
    BY <2>1
  <2>5. disp[e].status \in ActiveStatus /\ row.status \notin ActiveStatus /\ disp[e].task = t
    BY <1>2, <2>2 DEF ActiveOn, Active, ActiveStatus
  <2> HIDE DEF row
  <2>6. Clean(row)
    BY <1>1, <2>2, <2>3, <2>5, SettleClean
  <2> QED
    BY <1>2, <2>2, <2>4, <2>5, <2>6 DEF RowSettles
<1>3. CASE e \notin ActiveOn(t)
  <2>1. disp'[e] = disp[e]
    BY <1>3 DEF SettleActive
  <2> QED
    BY <1>1, <1>3, <2>1 DEF RowSettles
<1> QED
  BY <1>2, <1>3

LEMMA TaskActionsForm ==
  ASSUME SInv, TypeOK', NEW t \in Tasks
  PROVE  /\ CreateTask(t) => Form
         /\ \A s \in OperatorStatuses : TaskUpdate(t, s) => Form
         /\ \A g \in Gates : CreateGate(t, g) => Form
<1>0. TypeOK /\ disp \in [Dispatches -> Row] /\ disp' \in [Dispatches -> Row]
  BY DEF SInv, IInv, TypeOK
<1>1. \A u \in Tasks : ActiveOn(u) # {} => task[u] \in {"dispatched", "blocked"}
  BY DEF SInv, IInv, TaskMatchesDispatch
<1>2. ASSUME CreateTask(t)
      PROVE  Form
  <2>1. \A u \in Tasks : ActiveOn(u) # {} => task'[u] = task[u]
    BY <1>0, <1>1, <1>2, SetTaskIs DEF CreateTask
  <2> QED
    BY <1>2, <2>1 DEF CreateTask, Form, TasksOnly
<1>3. ASSUME NEW s \in {"completed", "failed"}, disp' = SettleActive(t, s)
      PROVE  /\ \A e \in Dispatches : RowSettles(t, e)
             /\ disp' # disp => task[t] # "completed"
  <2>1. \A e \in Dispatches : RowSettles(t, e)
    BY <1>3, RowSettled
  <2>2. ActiveOn(t) = {} => disp' = disp
    BY <1>0, <1>3 DEF SettleActive
  <2> QED
    BY <1>1, <2>1, <2>2
<1>4. ASSUME NEW s \in OperatorStatuses, TaskUpdate(t, s)
      PROVE  Form
  <2>1. /\ task'[t] = s
        /\ \A u \in Tasks \ {t} :
             task'[u] = task[u] \/ (task[u] = "pending" /\ task'[u] = "ready")
    BY <1>0, <1>4, FinishIs DEF TaskUpdate, UpdateTaskStatus
  <2>2. MayUpdate(t, s) /\ rows' = rows
    BY <1>4 DEF TaskUpdate, UpdateTaskStatus
  <2>3. CASE s \in {"completed", "failed"}
    <3>1. disp' = SettleActive(t, s)
      BY <1>4, <2>3 DEF TaskUpdate, UpdateTaskStatus
    <3> QED
      BY <1>3, <2>1, <2>2, <2>3, <3>1 DEF Form, Settled
  <2>4. CASE s \notin {"completed", "failed"}
    <3>1. disp' = disp
      BY <1>4, <2>4 DEF TaskUpdate, UpdateTaskStatus
    <3>2. ActiveOn(t) # {} => task'[t] = task[t]
      <4> SUFFICES ASSUME ActiveOn(t) # {}, task[t] # "dispatched"
                   PROVE  FALSE
        BY <2>1, <2>2, <2>4 DEF MayUpdate
      <4>1. s = "dispatched" /\ ~Supervised(t)
        BY <2>2, <2>4 DEF MayUpdate
      <4>2. PICK d \in ActiveOn(t) : disp[d].worker \in {"start_unknown", "stopping", "stop_unknown"}
        BY DEF SInv, IInv, TaskMatchesDispatch
      <4> QED
        BY <4>1, <4>2 DEF Supervised, LiveWorker, LiveState
    <3>3. \A u \in Tasks : ActiveOn(u) # {} => task'[u] = task[u]
      BY <1>1, <2>1, <3>2
    <3> QED
      BY <2>2, <3>1, <3>3 DEF Form, TasksOnly
  <2> QED
    BY <2>3, <2>4
<1>5. ASSUME NEW g \in Gates, CreateGate(t, g)
      PROVE  Form
  <2>1. /\ disp' = SettleActive(t, "completed") /\ rows' = rows
        /\ \A u \in Tasks \ {t} : task'[u] = task[u]
        /\ task'[t] = "blocked"
    BY <1>0, <1>5, SetTaskIs DEF CreateGate
  <2>2. /\ \A e \in Dispatches : RowSettles(t, e)
        /\ disp' # disp => task[t] # "completed" 
    BY <1>3, <2>1
  <2> QED
    BY <2>1, <2>2 DEF Form, Settled
<1> QED
  BY <1>2, <1>4, <1>5

(* A report settles the dispatch it is of, and corrects it only if its      *)
(* prompt was taken for lost.                                               *)
LEMMA ReportForm ==
  ASSUME SInv, TypeOK', NEW d \in Dispatches, NEW outcome \in {"succeeded", "failed"},
         WorkerReport(d, outcome)
  PROVE  Form
<1> DEFINE t == disp[d].task
           s == IF outcome = "succeeded" THEN "completed" ELSE "failed"
           row == [Settle(disp[d], s) EXCEPT
                     !.stalled = @ /\ outcome = "succeeded",
                     !.worker = IF @ = None THEN None ELSE outcome]
<1>0. /\ TypeOK /\ disp \in [Dispatches -> Row] /\ disp' \in [Dispatches -> Row]
      /\ disp[d] \in Row /\ disp'[d] \in Row /\ Clean(disp[d])
  BY DEF SInv, IInv, TypeOK
<1>1. t \in Tasks
  BY <1>0 DEF WorkerReport, Row
<1>2. /\ disp' = [SettleActive(t, s) EXCEPT ![d] = row]
      /\ task' = Finish(t, s)
      /\ rows' = rows
  BY DEF WorkerReport
<1>3. s \in {"completed", "failed"} /\ (outcome = "succeeded" <=> s = "completed")
  OBVIOUS
<1>4. /\ row.task = t /\ row.status = s /\ ~row.asking
      /\ row.worker = (IF disp[d].worker = None THEN None ELSE outcome)
      /\ row.assignee = disp[d].assignee /\ row.failures = disp[d].failures
      /\ row.capability = Revoked(disp[d].capability)
      /\ row.stalled = (disp[d].stalled /\ outcome = "succeeded")
  BY <1>0 DEF Row, Settle
<1>5. /\ disp'[d] = row
      /\ \A e \in Dispatches \ {d} : disp'[e] = SettleActive(t, s)[e]
  BY <1>2 DEF SettleActive
<1>6. disp[d].task = t
  OBVIOUS
<1>7. \/ Active(d) /\ task[t] \in {"dispatched", "blocked"}
      \/ /\ disp[d].status = "failed" /\ disp[d].stalled /\ disp[d].worker = "failed"
         /\ task[t] = "failed"
  BY DEF WorkerReport, StalledStart, ReconnectingStart, ReportingStart, ReportingRun,
         Active, ActiveStatus
<1> HIDE DEF t, s, row
<1>8. Clean(row)
  <2>1. row.worker # None => disp[d].worker # None
    BY <1>4
  <2>2. row.status \notin ActiveStatus
    BY <1>3, <1>4 DEF ActiveStatus
  <2>3. row.capability # "live" /\ (disp[d].capability # None => row.capability # None)
    BY <1>4, ConstantsOK DEF Revoked
  <2> QED
    BY <1>0, <1>4, <2>1, <2>2, <2>3 DEF Clean
<1>9. d \in ActiveOn(t) <=> Active(d)
  BY <1>6 DEF ActiveOn
<1>10. RowSettles(t, d)
  <2>1. CASE Active(d)
    BY <1>3, <1>4, <1>5, <1>6, <1>8, <1>9, <2>1 DEF RowSettles
  <2>2. CASE ~Active(d)
    <3>1. disp[d].worker = "failed" /\ "failed" # None
      BY <1>7, <2>2, ConstantsOK DEF SettledState
    <3>2. \/ row.status = "failed" /\ row.worker = "failed"
          \/ row.status = "completed" /\ row.worker = "succeeded"
      BY <1>3, <1>4, <3>1
    <3> QED
      BY <1>4, <1>5, <1>6, <1>7, <1>8, <1>9, <2>2, <3>1, <3>2 DEF RowSettles
  <2> QED
    BY <2>1, <2>2
<1>11. \A e \in Dispatches \ {d} : RowSettles(t, e)
  BY <1>1, <1>3, <1>5, RowSettled
<1>12. /\ task'[t] = s
       /\ \A u \in Tasks \ {t} :
            task'[u] = task[u] \/ (task[u] = "pending" /\ task'[u] = "ready")
  BY <1>0, <1>1, <1>2, FinishIs
<1>13. Settled(t)
  BY <1>2, <1>3, <1>7, <1>10, <1>11, <1>12 DEF Settled
<1> QED
  BY <1>1, <1>13 DEF Form

LEMMA GateForm ==
  ASSUME SInv, TypeOK'
  PROVE  /\ \A g \in Gates : ResolveGate(g) => Form
         /\ ReblockTasksWithPendingGates => Form
         /\ Restart => Form
<1>1. ASSUME NEW g \in Gates, ResolveGate(g)
      PROVE  Form
  <2> DEFINE t == gate[g].task
  <2>1. TypeOK /\ disp' = disp /\ rows' = rows /\ ActiveOn(t) = {} /\ task' = SetTask(t, "ready")
    BY <1>1 DEF ResolveGate, UpdateTaskStatus, MayUpdate, Finish, SInv, IInv
  <2>2. \A u \in Tasks : ActiveOn(u) # {} => task'[u] = task[u]
    BY <2>1, SetTaskIs
  <2> QED
    BY <2>1, <2>2 DEF Form, TasksOnly
<1>2. ASSUME ReblockTasksWithPendingGates
      PROVE  Form
  <2> DEFINE due == {t \in Tasks : PendingGate(t) /\ task[t] # "blocked"}
             refused == {t \in due : ActiveOn(t) # {}}
  <2>1. PICK done \in (IF refused = {} THEN {due} ELSE SUBSET (due \ refused)) \ {{}} :
          task' = [t \in Tasks |-> IF t \in done THEN "blocked" ELSE task[t]]
    BY <1>2 DEF ReblockTasksWithPendingGates
  <2>2. done \subseteq due \ refused
    BY <2>1
  <2>3. \A u \in Tasks : ActiveOn(u) # {} => task'[u] = task[u]
    BY <2>1, <2>2
  <2> QED
    BY <1>2, <2>3 DEF Form, TasksOnly, ReblockTasksWithPendingGates
<1>3. ASSUME Restart
      PROVE  Form
  BY <1>3 DEF Restart, Form, TasksOnly
<1> QED
  BY <1>1, <1>2, <1>3

(* Every step has one of the four forms. *)
LEMMA StepForm ==
  ASSUME SInv, [Next]_vars
  PROVE  Form
<1>1. TypeOK'
  BY NextType DEF SInv, IInv
<1>2. CASE UNCHANGED vars
  BY <1>2 DEF vars, Form, TasksOnly
<1>3. CASE Next
  BY <1>1, <1>3, TaskActionsForm, HandOutForm, StartForm, ReconcileStartForm, ReportForm,
     FailureForm, StopForm, QuestionForm, GateForm DEF Next
<1> QED
  BY <1>2, <1>3

-----------------------------------------------------------------------------
(* The invariant is inductive *)

LEMMA LeaseInit0 == Init => SInv
<1> SUFFICES ASSUME Init
             PROVE  SInv
  OBVIOUS
<1>1. \A d \in Dispatches : disp[d] = NoRow /\ ~(d <= rows)
  BY ConstantsOK DEF Init, Dispatches
<1>2. ~(NoRow.status \in ActiveStatus) /\ Clean(NoRow)
  BY ConstantsOK DEF NoRow, Clean, ActiveStatus
<1> QED
  BY <1>1, <1>2, InitSafe DEF SInv, RowsFilled, OneDispatchPerTerminal, Active

(* Facts about the row that Insert fills. *)
LEMMA InsertFacts ==
  ASSUME SInv, NEW row, Insert(row)
  PROVE  /\ rows + 1 \in Dispatches /\ rows' = rows + 1
         /\ disp[rows + 1] = NoRow /\ disp'[rows + 1] = row
         /\ \A e \in Dispatches \ {rows + 1} : disp'[e] = disp[e] /\ (e <= rows + 1 <=> e <= rows)
<1>1. rows \in Nat /\ rows + 1 \in Dispatches /\ disp \in [Dispatches -> Row]
      /\ Dispatches \subseteq Nat
  BY ConstantsOK DEF SInv, IInv, TypeOK, Insert, Dispatches
<1>2. disp[rows + 1] = NoRow
  BY <1>1 DEF SInv, RowsFilled
<1> QED
  BY <1>1, <1>2 DEF Insert

LEMMA NextKeeps ==
  ASSUME SInv, [Next]_vars
  PROVE  SInv'
<1>1. IInv' /\ TypeOK /\ disp \in [Dispatches -> Row]
  BY NextSafe DEF SInv, IInv, TypeOK
<1>2. CASE TasksOnly
  <2>1. disp' = disp /\ rows' = rows
    BY <1>2 DEF TasksOnly
  <2> QED
    BY <1>1, <2>1 DEF SInv, RowsFilled, OneDispatchPerTerminal, Active
<1>3. ASSUME NEW t \in Tasks, NEW row \in Row, Granted(t, row)
      PROVE  SInv'
  <2> DEFINE n == rows + 1
  <2>1. /\ n \in Dispatches /\ disp'[n] = row /\ rows' = n
        /\ \A e \in Dispatches \ {n} : disp'[e] = disp[e] /\ (e <= n <=> e <= rows)
    BY <1>3, InsertFacts DEF Granted
  <2>2. row.task # None /\ row.status # "absent" /\ row.status \in ActiveStatus /\ Clean(row)
    BY <1>3, ConstantsOK DEF Granted, ActiveStatus
  <2>3. n <= n
    BY <2>1 DEF Dispatches
  <2>4. row.assignee # None => \A e \in Dispatches : disp[e].assignee = row.assignee => ~Active(e)
    BY <1>3 DEF Granted
  <2> HIDE DEF n
  <2>5. RowsFilled'
    BY <2>1, <2>2, <2>3 DEF SInv, RowsFilled
  <2>6. \A e \in Dispatches : Clean(disp'[e])
    BY <2>1, <2>2 DEF SInv
  <2>7. OneDispatchPerTerminal'
    BY <2>1, <2>4 DEF SInv, OneDispatchPerTerminal, Active
  <2> QED
    BY <1>1, <2>5, <2>6, <2>7 DEF SInv
<1>4. ASSUME NEW d \in Dispatches, NEW row \in Row, Moved(d, row)
      PROVE  SInv'
  <2>1. /\ disp'[d] = row /\ rows' = rows
        /\ \A e \in Dispatches \ {d} : disp'[e] = disp[e]
    BY <1>1, <1>4 DEF Moved
  <2>2. /\ row.task \in Tasks /\ row.task = disp[d].task /\ row.status # "absent" /\ Clean(row)
        /\ row.status \in ActiveStatus => Active(d)
        /\ \/ row.assignee = disp[d].assignee
           \/ TerminalFree(row.assignee, d)
    BY <1>4 DEF Moved, RowMoves, Active
  <2>3. d <= rows
    BY <2>2, ConstantsOK DEF SInv, RowsFilled, NoRow
  <2>4. RowsFilled'
    BY <2>1, <2>2, <2>3, ConstantsOK DEF SInv, RowsFilled
  <2>5. \A e \in Dispatches : Clean(disp'[e])
    BY <2>1, <2>2 DEF SInv
  <2>6. OneDispatchPerTerminal'
    BY <2>1, <2>2 DEF SInv, OneDispatchPerTerminal, Active, TerminalFree
  <2> QED
    BY <1>1, <2>4, <2>5, <2>6 DEF SInv
<1>5. ASSUME NEW t \in Tasks, Settled(t)
      PROVE  SInv'
  <2>1. rows' = rows
    BY <1>5 DEF Settled
  <2>2. ASSUME NEW e \in Dispatches
        PROVE  /\ disp'[e].task = disp[e].task /\ disp'[e].assignee = disp[e].assignee
               /\ Clean(disp'[e])
               /\ disp'[e].status \in ActiveStatus => Active(e)
               /\ disp[e].status # "absent" => disp'[e].status # "absent"
               /\ disp[e].task = None => disp'[e] = disp[e]
    <3>1. RowSettles(t, e)
      BY <1>5 DEF Settled
    <3> QED
      BY <3>1, ConstantsOK DEF RowSettles, ActiveOn, Active, ActiveStatus
  <2>3. RowsFilled'
    <3>1. \A e \in Dispatches : ~(e <= rows) => disp[e].task = None
      BY DEF SInv, RowsFilled, NoRow
    <3> QED
      BY <2>1, <2>2, <3>1 DEF SInv, RowsFilled
  <2>4. OneDispatchPerTerminal'
    BY <2>2 DEF SInv, OneDispatchPerTerminal, Active
  <2> QED
    BY <1>1, <2>2, <2>3, <2>4 DEF SInv
<1> QED
  BY <1>2, <1>3, <1>4, <1>5, StepForm DEF Form

(* The rows stay in order and clean, and terminals unshared.                *)
THEOREM LeaseInvariance == Spec => []SInv
BY LeaseInit0, NextKeeps, PTL DEF Spec

-----------------------------------------------------------------------------
(* Safety *)

(* Two active dispatches never share a terminal, although worker-start      *)
(* binds its terminal in a transaction of its own, after an await.          *)
THEOREM TerminalsAreNotShared == Spec => []OneDispatchPerTerminal
BY LeaseInvariance, PTL DEF SInv

(* A settled dispatch keeps no capability, unless it failed on a stalled    *)
(* prompt, whose terminal may still report, and no question asked on its    *)
(* own host; one asked through the relay stays open after it settles.       *)
THEOREM NothingStaysOpen == Spec => []NothingOutlives
<1>1. SInv => NothingOutlives
  BY DEF SInv, Clean, NothingOutlives, Stopping, Active
<1> QED
  BY <1>1, LeaseInvariance, PTL

-----------------------------------------------------------------------------
(* Action properties *)

(* A settled dispatch and its worker change only by the correction of a     *)
(* start taken for lost, and no step on a dispatch reopens a completed task.*)
THEOREM SettledIsFinal == Spec => SettledStaysSettled
<1>1. ASSUME SInv, [Next]_vars
      PROVE  /\ \A d \in Dispatches :
                  disp[d].status \in DispatchStatus \ ActiveStatus =>
                    \/ disp'[d].status = disp[d].status /\ disp'[d].worker = disp[d].worker
                    \/ /\ disp[d].stalled
                       /\ disp'[d].status = "completed" /\ disp'[d].worker = "succeeded"
             /\ disp' # disp => \A t \in Tasks : task[t] = "completed" => task'[t] = "completed"
  <2>0. TypeOK /\ disp \in [Dispatches -> Row]
    BY <1>1 DEF SInv, IInv, TypeOK
  <2>1. CASE TasksOnly
    BY <2>1 DEF TasksOnly
  <2>2. ASSUME NEW t \in Tasks, NEW row \in Row, Granted(t, row)
        PROVE  /\ \A d \in Dispatches :
                    disp[d].status # "absent" =>
                      disp'[d].status = disp[d].status /\ disp'[d].worker = disp[d].worker
               /\ \A u \in Tasks : task[u] = "completed" => task'[u] = "completed"
    <3>1. \A d \in Dispatches : disp[d].status # "absent" => disp'[d] = disp[d]
      BY <1>1, <2>2, InsertFacts DEF Granted, NoRow
    <3>2. \A u \in Tasks : task[u] = "completed" => task'[u] = "completed"
      BY <2>0, <2>2, SetTaskIs DEF Granted, Insert
    <3> QED
      BY <3>1, <3>2
  <2>3. ASSUME NEW e \in Dispatches, NEW row \in Row, Moved(e, row)
        PROVE  /\ \A d \in Dispatches :
                    ~Active(d) =>
                      disp'[d].status = disp[d].status /\ disp'[d].worker = disp[d].worker
               /\ \A u \in Tasks : task[u] = "completed" => task'[u] = "completed"
    <3>1. \A d \in Dispatches :
            ~Active(d) =>
              disp'[d].status = disp[d].status /\ disp'[d].worker = disp[d].worker
      BY <2>0, <2>3 DEF Moved, RowMoves
    <3>2. Active(e) => task[disp[e].task] # "completed"
      BY <1>1, ActiveFacts
    <3> QED
      BY <2>3, <3>1, <3>2 DEF Moved, TaskMoves
  <2>4. ASSUME NEW t \in Tasks, Settled(t)
        PROVE  /\ \A d \in Dispatches :
                    ~Active(d) =>
                      \/ disp'[d].status = disp[d].status /\ disp'[d].worker = disp[d].worker
                      \/ /\ disp[d].stalled
                         /\ disp'[d].status = "completed" /\ disp'[d].worker = "succeeded"
               /\ disp' # disp => \A u \in Tasks : task[u] = "completed" => task'[u] = "completed"
    BY <2>4 DEF Settled, RowSettles, ActiveOn
  <2> QED
    BY <1>1, <2>1, <2>2, <2>3, <2>4, StepForm DEF Form, Active, DispatchStatus, ActiveStatus
<1>2. SInv /\ [Next]_vars =>
        /\ \A d \in Dispatches :
             disp[d].status \in DispatchStatus \ ActiveStatus =>
               \/ disp'[d].status = disp[d].status /\ disp'[d].worker = disp[d].worker
               \/ disp[d].stalled /\ disp'[d].status = "completed" /\ disp'[d].worker = "succeeded"
        /\ disp' # disp => \A t \in Tasks : task[t] = "completed" => task'[t] = "completed"
  BY <1>1
<1> QED
  BY <1>2, LeaseInvariance, PTL DEF Spec, SettledStaysSettled

(* While a stop is in doubt and in the step that ends it, the task of the   *)
(* stopped worker does not become ready, whoever ends it.                   *)
THEOREM StoppedStaysStopped == Spec => StoppedWorkIsNotRedispatched
<1>1. ASSUME SInv, [Next]_vars, NEW d \in Dispatches, Stopping(disp[d])
      PROVE  task'[disp[d].task] # "ready"
  <2> DEFINE u == disp[d].task
  <2>0. TypeOK
    BY <1>1 DEF SInv, IInv
  <2>1. Active(d)
    BY <1>1, LiveFacts DEF LiveWorker, LiveState, Stopping
  <2>2. u \in Tasks /\ ActiveOn(u) = {d} /\ task[u] = "blocked"
    BY <1>1, <2>1, ActiveFacts
  <2> HIDE DEF u
  <2>3. TasksOnly => task'[u] # "ready"
    BY <2>2 DEF TasksOnly
  <2>4. ASSUME NEW t \in Tasks, NEW row \in Row, Granted(t, row)
        PROVE  task'[u] # "ready"
    BY <2>0, <2>2, <2>4, SetTaskIs DEF Granted, Insert
  <2>5. ASSUME NEW e \in Dispatches, NEW row \in Row, Moved(e, row)
        PROVE  task'[u] # "ready"
    <3>1. CASE disp[e].task # u
      BY <2>2, <2>5, <3>1 DEF Moved, TaskMoves
    <3>2. CASE disp[e].task = u /\ ~Active(e)
      BY <2>2, <2>5, <3>2 DEF Moved, TaskMoves
    <3>3. CASE disp[e].task = u /\ Active(e)
      <4>1. e = d
        BY <2>2, <3>3 DEF ActiveOn
      <4> QED
        BY <1>1, <2>5, <3>3, <4>1 DEF Moved, TaskMoves
    <3> QED
      BY <3>1, <3>2, <3>3
  <2>6. ASSUME NEW t \in Tasks, Settled(t)
        PROVE  task'[u] # "ready"
    BY <2>2, <2>6 DEF Settled
  <2> QED
    BY <1>1, <2>3, <2>4, <2>5, <2>6, StepForm DEF Form, u
<1>2. SInv /\ [Next]_vars =>
        \A d \in Dispatches :
          disp[d].worker \in {"stopping", "stop_unknown"} => task'[disp[d].task] # "ready"
  BY <1>1 DEF Stopping
<1> QED
  BY <1>2, LeaseInvariance, PTL DEF Spec, StoppedWorkIsNotRedispatched

(* The failure that reaches the limit never gives the task back.            *)
THEOREM LimitIsKept == Spec => BreakerLimitsRetries
<1>1. ASSUME SInv, [Next]_vars, NEW d \in Dispatches,
             disp[d].task # None, disp'[d].failures > disp[d].failures,
             disp'[d].failures >= BreakAt
      PROVE  task'[disp[d].task] # "ready"
  <2>0. disp \in [Dispatches -> Row] /\ disp[d].failures \in Nat /\ disp[d] # NoRow
    BY <1>1 DEF SInv, IInv, TypeOK, Row, NoRow
  <2>1. disp'[d].failures # disp[d].failures
    BY <1>1, <2>0
  <2>2. ~TasksOnly
    BY <2>1 DEF TasksOnly
  <2>3. ASSUME NEW t \in Tasks, NEW row \in Row, Granted(t, row)
        PROVE  FALSE
    BY <1>1, <2>0, <2>1, <2>3, InsertFacts DEF Granted
  <2>4. ASSUME NEW t \in Tasks, Settled(t)
        PROVE  FALSE
    BY <2>1, <2>4 DEF Settled, RowSettles
  <2>5. ASSUME NEW e \in Dispatches, NEW row \in Row, Moved(e, row)
        PROVE  task'[disp[d].task] # "ready"
    <3>1. e = d /\ disp'[d] = row
      BY <2>0, <2>1, <2>5 DEF Moved
    <3>2. Active(d)
      BY <2>1, <2>5, <3>1 DEF Moved, TaskMoves
    <3>3. row.failures \in Nat /\ BreakAt \in Nat
      BY ConstantsOK DEF Row
    <3> QED
      BY <1>1, <2>5, <3>1, <3>2, <3>3 DEF Moved, TaskMoves
  <2> QED
    BY <1>1, <2>2, <2>3, <2>4, <2>5, StepForm DEF Form
<1>2. SInv /\ [Next]_vars =>
        \A d \in Dispatches :
          disp[d].task # None /\ disp'[d].failures > disp[d].failures
            /\ disp'[d].failures >= BreakAt
            => task'[disp[d].task] # "ready"
  BY <1>1
<1> QED
  BY <1>2, LeaseInvariance, PTL DEF Spec, BreakerLimitsRetries

-----------------------------------------------------------------------------
(* The task lease *)

(* Who holds what, as sets of dispatches. *)
Held == [t \in Tasks |-> ActiveOn(t)]
Sits == [a \in Terminals |-> {d \in Dispatches : Active(d) /\ disp[d].assignee = a}]

(* The mapping of the refinement. *)
Owner == [t \in Tasks |-> OwnerOf(t)]
Seats == [a \in Terminals |-> SeatOf(a)]
Spent == {d \in Dispatches : disp[d].status \in DispatchStatus \ ActiveStatus}

(* A set of at most one dispatch, and its element or None. *)
OneOf(S, x) == (S = {} /\ x = None) \/ \E d \in Dispatches : S = {d} /\ x = d

(* A task has at most one owner and a terminal at most one lease, so the    *)
(* choices in the mapping are no choices.                                   *)
Mapped ==
  /\ Held = [t \in Tasks |-> Held[t]] /\ Sits = [a \in Terminals |-> Sits[a]]
  /\ Owner = [t \in Tasks |-> Owner[t]] /\ Seats = [a \in Terminals |-> Seats[a]]
  /\ \A t \in Tasks : OneOf(Held[t], Owner[t])
  /\ \A a \in Terminals : OneOf(Sits[a], Seats[a])

LEMMA OwnersAndSeats == SInv => Mapped
<1> SUFFICES ASSUME SInv
             PROVE  Mapped
  OBVIOUS
<1>1. ASSUME NEW t \in Tasks
      PROVE  OneOf(ActiveOn(t), OwnerOf(t))
  <2>1. CASE ActiveOn(t) = {}
    BY <2>1 DEF OwnerOf, OneOf
  <2>2. CASE ActiveOn(t) # {}
    <3>1. PICK d \in Dispatches : d \in ActiveOn(t)
      BY <2>2 DEF ActiveOn
    <3>2. ActiveOn(t) = {d}
      BY <3>1, ActiveFacts DEF ActiveOn
    <3> QED
      BY <3>2 DEF OwnerOf, OneOf
  <2> QED
    BY <2>1, <2>2
<1>2. ASSUME NEW a \in Terminals
      PROVE  OneOf(Sits[a], SeatOf(a))
  <2> DEFINE S == {d \in Dispatches : Active(d) /\ disp[d].assignee = a}
  <2>1. SeatOf(a) = IF S = {} THEN None ELSE CHOOSE d \in S : TRUE
    BY DEF SeatOf
  <2>2. \A d, e \in S : d = e
    BY ConstantsOK DEF SInv, OneDispatchPerTerminal
  <2>3. Sits[a] = S /\ S \subseteq Dispatches
    BY DEF Sits
  <2> HIDE DEF S
  <2>4. CASE S = {}
    BY <2>1, <2>3, <2>4 DEF OneOf
  <2>5. CASE S # {}
    <3>1. PICK d \in Dispatches : S = {d}
      BY <2>2, <2>3, <2>5
    <3> QED
      BY <2>1, <2>3, <3>1 DEF OneOf
  <2> QED
    BY <2>4, <2>5
<1>3. /\ Held = [t \in Tasks |-> Held[t]] /\ Sits = [a \in Terminals |-> Sits[a]]
      /\ Owner = [t \in Tasks |-> Owner[t]] /\ Seats = [a \in Terminals |-> Seats[a]]
      /\ \A t \in Tasks : Held[t] = ActiveOn(t) /\ Owner[t] = OwnerOf(t)
      /\ \A a \in Terminals : Seats[a] = SeatOf(a)
  BY DEF Held, Owner, Sits, Seats
<1> QED
  BY <1>1, <1>2, <1>3 DEF Mapped

(* The mapping in this state and in the next. *)
LEMMA MappedTwice ==
  ASSUME SInv, SInv'
  PROVE  Mapped /\ Mapped' /\ None \notin Dispatches
<1>1. SInv' => Mapped'
  BY OwnersAndSeats, PTL
<1> QED
  BY <1>1, OwnersAndSeats, ConstantsOK

LEMMA OneOfIsOne ==
  ASSUME NEW S, NEW x, NEW y, OneOf(S, x), OneOf(S, y)
  PROVE  x = y
BY DEF OneOf

LEMMA LeaseKept ==
  ASSUME SInv, SInv', Held' = Held, Sits' = Sits, Spent' = Spent
  PROVE  UNCHANGED Lease!leaseVars
<1>1. Owner' = Owner /\ Seats' = Seats
  <2>1. Mapped /\ Mapped'
    BY MappedTwice
  <2>2. ASSUME NEW t \in Tasks
        PROVE  Owner'[t] = Owner[t]
    <3>1. OneOf(Held[t], Owner[t]) /\ OneOf(Held[t], Owner'[t])
      BY <2>1 DEF Mapped
    <3> QED
      BY <3>1, OneOfIsOne
  <2>3. ASSUME NEW a \in Terminals
        PROVE  Seats'[a] = Seats[a]
    <3>1. OneOf(Sits[a], Seats[a]) /\ OneOf(Sits[a], Seats'[a])
      BY <2>1 DEF Mapped
    <3> QED
      BY <3>1, OneOfIsOne
  <2> QED
    BY <2>1, <2>2, <2>3 DEF Mapped
<1> QED
  BY <1>1 DEF Lease!leaseVars, Spent, Owner, Seats

LEMMA LeaseEnds ==
  ASSUME SInv, SInv', NEW t \in Tasks, NEW d \in Dispatches,
         Held[t] = {d}, Held'[t] = {},
         \A u \in Tasks \ {t} : Held'[u] = Held[u],
         \A a \in Terminals : Sits'[a] = Sits[a] \ {d},
         Spent' = Spent \cup {d}
  PROVE  Lease!Release(t)
<1>1. Mapped /\ Mapped' /\ None \notin Dispatches
  BY MappedTwice
<1>2. Owner[t] = d /\ Owner'[t] = None /\ d # None
  BY <1>1 DEF Mapped, OneOf
<1>3. \A u \in Tasks \ {t} : Owner'[u] = Owner[u]
  BY <1>1 DEF Mapped, OneOf
<1>4. ASSUME NEW a \in Terminals
      PROVE  Seats'[a] = IF Seats[a] = d THEN None ELSE Seats[a]
  <2>1. /\ OneOf(Sits[a], Seats[a]) /\ OneOf(Sits'[a], Seats'[a])
        /\ Sits'[a] = Sits[a] \ {d}
    BY <1>1 DEF Mapped
  <2>2. CASE Sits[a] = {}
    BY <1>2, <2>1, <2>2 DEF OneOf
  <2>3. CASE Sits[a] = {d}
    BY <1>2, <2>1, <2>3 DEF OneOf
  <2>4. CASE Sits[a] # {} /\ Sits[a] # {d}
    <3>1. PICK e \in Dispatches : Sits[a] = {e} /\ Seats[a] = e
      BY <2>1, <2>4 DEF OneOf
    <3>2. e # d /\ Sits'[a] = {e}
      BY <2>1, <2>4, <3>1
    <3> QED
      BY <2>1, <3>1, <3>2 DEF OneOf
  <2> QED
    BY <2>2, <2>3, <2>4
<1>5. /\ Owner[t] # None
      /\ Owner' = [Owner EXCEPT ![t] = None]
      /\ Seats' = [a \in Terminals |-> IF Seats[a] = Owner[t] THEN None ELSE Seats[a]]
      /\ Spent' = Spent \cup {Owner[t]}
  BY <1>1, <1>2, <1>3, <1>4 DEF Mapped
<1> QED
  BY <1>5 DEF Lease!Release, Spent, Owner, Seats

(* d takes the free terminal a. *)
LEMMA SeatTaken ==
  ASSUME SInv, SInv', NEW d \in Dispatches, NEW a \in Terminals,
         Sits[a] = {}, Sits'[a] = {d},
         \A b \in Terminals : d \notin Sits[b],
         \A b \in Terminals \ {a} : Sits'[b] = Sits[b]
  PROVE  Lease!SeatAt(a, d)
<1>1. Mapped /\ Mapped' /\ None \notin Dispatches
  BY MappedTwice
<1>2. Seats[a] = None /\ Seats'[a] = d
  BY <1>1 DEF Mapped, OneOf
<1>3. ASSUME NEW b \in Terminals
      PROVE  Seats[b] # d
  <2>1. OneOf(Sits[b], Seats[b])
    BY <1>1 DEF Mapped
  <2> QED
    BY <1>1, <2>1 DEF OneOf
<1>4. ASSUME NEW b \in Terminals \ {a}
      PROVE  Seats'[b] = Seats[b]
  <2>1. OneOf(Sits[b], Seats[b]) /\ OneOf(Sits[b], Seats'[b])
    BY <1>1 DEF Mapped
  <2> QED
    BY <2>1, OneOfIsOne
<1>5. /\ Seats[a] = None
      /\ \A b \in Terminals : Seats[b] # d
      /\ Seats' = [Seats EXCEPT ![a] = d]
  BY <1>1, <1>2, <1>3, <1>4 DEF Mapped
<1> QED
  BY <1>5 DEF Lease!SeatAt, Seats

LEMMA LeaseSeats ==
  ASSUME SInv, SInv', NEW d \in Dispatches, NEW a \in Terminals, NEW t \in Tasks,
         Held[t] = {d}, Held' = Held, Spent' = Spent,
         Sits[a] = {}, Sits'[a] = {d},
         \A b \in Terminals : d \notin Sits[b],
         \A b \in Terminals \ {a} : Sits'[b] = Sits[b]
  PROVE  Lease!Seat(a, d)
<1>1. Mapped /\ Mapped' /\ None \notin Dispatches
  BY MappedTwice
<1>2. Owner[t] = d
  BY <1>1 DEF Mapped, OneOf
<1>3. ASSUME NEW u \in Tasks
      PROVE  Owner'[u] = Owner[u]
  <2>1. OneOf(Held[u], Owner[u]) /\ OneOf(Held[u], Owner'[u])
    BY <1>1 DEF Mapped
  <2> QED
    BY <2>1, OneOfIsOne
<1>4. d \in {Owner[u] : u \in Tasks} \ {None} /\ Owner' = Owner
  BY <1>1, <1>2, <1>3 DEF Mapped
<1>5. Lease!SeatAt(a, d)
  BY SeatTaken
<1> QED
  BY <1>4, <1>5 DEF Lease!Seat, Lease!Owned, Spent, Owner

LEMMA LeaseGrants ==
  ASSUME SInv, SInv', NEW d \in Dispatches, NEW t \in Tasks,
         Held[t] = {}, Held'[t] = {d},
         \A u \in Tasks \ {t} : Held'[u] = Held[u] /\ d \notin Held[u],
         d \notin Spent, Spent' = Spent,
         Sits' = Sits \/ \E a \in Terminals : Lease!SeatAt(a, d)
  PROVE  Lease!Grant(t, d)
<1>1. Mapped /\ Mapped' /\ None \notin Dispatches
  BY MappedTwice
<1>2. Owner[t] = None /\ Owner'[t] = d
  BY <1>1 DEF Mapped, OneOf
<1>3. ASSUME NEW u \in Tasks \ {t}
      PROVE  Owner'[u] = Owner[u] /\ Owner[u] # d
  <2>1. OneOf(Held[u], Owner[u]) /\ OneOf(Held[u], Owner'[u])
    BY <1>1 DEF Mapped
  <2>2. d \notin Held[u]
    OBVIOUS
  <2> QED
    BY <1>1, <2>1, <2>2, OneOfIsOne DEF OneOf
<1>4. /\ Owner[t] = None
      /\ d \notin ({Owner[u] : u \in Tasks} \ {None}) \cup Spent
      /\ Owner' = [Owner EXCEPT ![t] = d]
  BY <1>1, <1>2, <1>3 DEF Mapped
<1>5. Seats' = Seats \/ \E a \in Terminals : Lease!SeatAt(a, d)
  <2> SUFFICES ASSUME Sits' = Sits
               PROVE  Seats' = Seats
    OBVIOUS
  <2>1. ASSUME NEW a \in Terminals
        PROVE  Seats'[a] = Seats[a]
    <3>1. OneOf(Sits[a], Seats[a]) /\ OneOf(Sits[a], Seats'[a])
      BY <1>1 DEF Mapped
    <3> QED
      BY <3>1, OneOfIsOne
  <2> QED
    BY <1>1, <2>1 DEF Mapped
<1> QED
  BY <1>4, <1>5 DEF Lease!Grant, Lease!Owned, Spent, Owner, Seats

(* An insertion grants the lease, a binding takes the seat, a settlement    *)
(* gives the lease back; every other step leaves it as it is.               *)
LEMMA StepOfLease ==
  ASSUME SInv, SInv', [Next]_vars
  PROVE  [Lease!LeaseNext]_(Lease!leaseVars)
<1>0. TypeOK /\ disp \in [Dispatches -> Row]
  BY DEF SInv, IInv, TypeOK
<1>1. CASE TasksOnly
  <2>1. disp' = disp
    BY <1>1 DEF TasksOnly
  <2>2. Held' = Held /\ Sits' = Sits /\ Spent' = Spent
    BY <2>1 DEF Held, Sits, Spent, ActiveOn, Active
  <2> QED
    BY <2>2, LeaseKept
<1>2. ASSUME NEW t \in Tasks, NEW row \in Row, Granted(t, row)
      PROVE  Lease!LeaseNext
  <2> DEFINE n == rows + 1
  <2>1. /\ n \in Dispatches /\ disp'[n] = row /\ disp[n] = NoRow
        /\ \A e \in Dispatches \ {n} : disp'[e] = disp[e]
    BY <1>2, InsertFacts DEF Granted
  <2> HIDE DEF n
  <2>2. disp[n].task = None /\ disp[n].status = "absent" /\ None \notin Tasks
    BY <2>1, ConstantsOK DEF NoRow
  <2>3. /\ row.task = t /\ row.status \in ActiveStatus /\ ActiveOn(t) = {}
        /\ row.assignee \in Terminals \cup {None}
        /\ row.assignee # None =>
             \A e \in Dispatches : disp[e].assignee = row.assignee => ~Active(e)
    BY <1>2 DEF Granted, Row
  <2>4. Held[t] = {} /\ Held'[t] = {n}
    BY <2>1, <2>2, <2>3 DEF Held, ActiveOn, Active
  <2>5. \A u \in Tasks \ {t} : Held'[u] = Held[u] /\ n \notin Held[u]
    BY <2>1, <2>2, <2>3 DEF Held, ActiveOn, Active
  <2>6. n \notin Spent /\ Spent' = Spent
    BY <2>1, <2>2, <2>3 DEF Spent, DispatchStatus
  <2>7. \A a \in Terminals : n \notin Sits[a]
    BY <2>2 DEF Sits, Active, ActiveStatus
  <2>8. \A a \in Terminals : a # row.assignee => Sits'[a] = Sits[a]
    BY <2>1, <2>7 DEF Sits, Active
  <2>9. CASE row.assignee = None
    <3>1. None \notin Terminals
      BY ConstantsOK
    <3>2. Sits' = Sits
      BY <2>8, <2>9, <3>1 DEF Sits
    <3>3. Lease!Grant(t, n)
      BY <2>1, <2>4, <2>5, <2>6, <3>2, LeaseGrants
    <3> QED
      BY <2>1, <3>3 DEF Lease!LeaseNext
  <2>10. CASE row.assignee \in Terminals /\ row.assignee # None
    <3> DEFINE a == row.assignee
    <3>1. Sits[a] = {} /\ Sits'[a] = {n}
      BY <2>1, <2>3, <2>10 DEF Sits, Active
    <3>2. Lease!SeatAt(a, n)
      BY <2>1, <2>7, <2>8, <2>10, <3>1, SeatTaken
    <3>3. Lease!Grant(t, n)
      BY <2>1, <2>4, <2>5, <2>6, <2>10, <3>2, LeaseGrants
    <3> QED
      BY <2>1, <3>3 DEF Lease!LeaseNext
  <2> QED
    BY <2>3, <2>9, <2>10
<1>3. ASSUME NEW d \in Dispatches, NEW row \in Row, Moved(d, row)
      PROVE  [Lease!LeaseNext]_(Lease!leaseVars)
  <2> DEFINE t == disp[d].task
  <2>1. /\ disp'[d] = row /\ row.task = t /\ t \in Tasks /\ row.status # "absent"
        /\ \A e \in Dispatches \ {d} : disp'[e] = disp[e]
        /\ ~Active(d) => row.status = disp[d].status
        /\ \/ row.assignee = disp[d].assignee
           \/ /\ disp[d].assignee = None /\ Active(d) /\ row.status \in ActiveStatus
              /\ row.assignee \in Terminals /\ TerminalFree(row.assignee, d)
    BY <1>0, <1>3 DEF Moved, RowMoves
  <2>2. disp[d].task = t /\ row.status \in DispatchStatus
    BY <2>1 DEF Row
  <2> HIDE DEF t
  <2>3. CASE ~Active(d)
    <3>1. Held' = Held /\ Sits' = Sits /\ Spent' = Spent
      BY <2>1, <2>2, <2>3 DEF Held, Sits, Spent, ActiveOn, Active
    <3> QED
      BY <3>1, LeaseKept
  <2>4. CASE Active(d) /\ row.status \in ActiveStatus /\ row.assignee = disp[d].assignee
    <3>1. Held' = Held /\ Sits' = Sits /\ Spent' = Spent
      BY <2>1, <2>2, <2>4 DEF Held, Sits, Spent, ActiveOn, Active
    <3> QED
      BY <3>1, LeaseKept
  <2>5. CASE Active(d) /\ row.status \in ActiveStatus /\ row.assignee # disp[d].assignee
    <3> DEFINE a == row.assignee
    <3>1. a \in Terminals /\ disp[d].assignee = None /\ TerminalFree(a, d) /\ None \notin Terminals
      BY <2>1, <2>5, ConstantsOK
    <3>2. Held[t] = {d}
      BY <2>1, <2>2, <2>5, ActiveFacts DEF Held
    <3>3. Held' = Held /\ Spent' = Spent
      BY <2>1, <2>2, <2>5 DEF Held, Spent, ActiveOn, Active
    <3>4. Sits[a] = {} /\ Sits'[a] = {d}
      BY <2>1, <2>5, <3>1 DEF Sits, Active, TerminalFree
    <3>5. \A b \in Terminals : d \notin Sits[b]
      BY <3>1 DEF Sits
    <3>6. \A b \in Terminals \ {a} : Sits'[b] = Sits[b]
      BY <2>1, <3>5 DEF Sits, Active
    <3>7. Lease!Seat(a, d)
      BY <2>1, <3>1, <3>2, <3>3, <3>4, <3>5, <3>6, LeaseSeats
    <3> QED
      BY <3>1, <3>7 DEF Lease!LeaseNext
  <2>6. CASE Active(d) /\ row.status \notin ActiveStatus
    <3>0. PICK u \in Tasks : u = t
      BY <2>1
    <3>1. ActiveOn(u) = {d}
      BY <2>2, <2>6, <3>0, ActiveFacts
    <3>2. Held[u] = {d} /\ Held'[u] = {}
      BY <2>1, <2>6, <3>1 DEF Held, ActiveOn, Active
    <3>3. \A v \in Tasks \ {u} : Held'[v] = Held[v]
      BY <2>1, <2>2, <3>0 DEF Held, ActiveOn, Active
    <3>4. \A a \in Terminals : Sits'[a] = Sits[a] \ {d}
      BY <2>1, <2>6 DEF Sits, Active
    <3>5. Spent' = Spent \cup {d}
      BY <2>1, <2>2, <2>6 DEF Spent
    <3>6. Lease!Release(u)
      BY <3>2, <3>3, <3>4, <3>5, LeaseEnds
    <3> QED
      BY <3>6 DEF Lease!LeaseNext
  <2> QED
    BY <2>3, <2>4, <2>5, <2>6
<1>4. ASSUME NEW t \in Tasks, Settled(t)
      PROVE  [Lease!LeaseNext]_(Lease!leaseVars)
  <2>1. ASSUME NEW e \in Dispatches
        PROVE  /\ disp'[e].task = disp[e].task /\ disp'[e].assignee = disp[e].assignee
               /\ e \in ActiveOn(t) => disp'[e].status \in {"completed", "failed"}
               /\ e \notin ActiveOn(t) =>
                    \/ disp'[e].status = disp[e].status
                    \/ disp[e].status = "failed" /\ disp'[e].status = "completed"
    BY <1>4 DEF Settled, RowSettles
  <2>2. \A u \in Tasks \ {t} : Held'[u] = Held[u]
    BY <2>1 DEF Held, ActiveOn, Active, ActiveStatus
  <2>3. Held'[t] = {}
    BY <2>1 DEF Held, ActiveOn, Active, ActiveStatus
  <2>4. \A a \in Terminals : Sits'[a] = Sits[a] \ ActiveOn(t)
    BY <2>1 DEF Sits, ActiveOn, Active, ActiveStatus
  <2>5. Spent' = Spent \cup ActiveOn(t)
    BY <2>1 DEF Spent, ActiveOn, Active, ActiveStatus, DispatchStatus
  <2>6. CASE ActiveOn(t) = {}
    <3>1. Held'[t] = Held[t]
      BY <2>3, <2>6 DEF Held
    <3>2. Held' = Held /\ Sits' = Sits /\ Spent' = Spent
      BY <2>2, <2>4, <2>5, <2>6, <3>1 DEF Held, Sits
    <3> QED
      BY <3>2, LeaseKept
  <2>7. CASE ActiveOn(t) # {}
    <3>1. PICK d \in Dispatches : d \in ActiveOn(t)
      BY <2>7 DEF ActiveOn
    <3>2. ActiveOn(t) = {d}
      BY <3>1, ActiveFacts DEF ActiveOn
    <3>3. Held[t] = {d}
      BY <3>2 DEF Held
    <3>4. Lease!Release(t)
      BY <2>2, <2>3, <2>4, <2>5, <3>2, <3>3, LeaseEnds
    <3> QED
      BY <3>4 DEF Lease!LeaseNext
  <2> QED
    BY <2>6, <2>7
<1> QED
  BY <1>1, <1>2, <1>3, <1>4, StepForm DEF Form

LEMMA InitOfLease == Init => Lease!LeaseInit
<1> SUFFICES ASSUME Init
             PROVE  Lease!LeaseInit
  OBVIOUS
<1>1. \A d \in Dispatches : disp[d].status = "absent"
  BY DEF Init, NoRow
<1>2. /\ \A t \in Tasks : OwnerOf(t) = None
      /\ \A a \in Terminals : SeatOf(a) = None
      /\ {d \in Dispatches : disp[d].status \in DispatchStatus \ ActiveStatus} = {}
  BY <1>1 DEF OwnerOf, SeatOf, ActiveOn, Active, ActiveStatus, DispatchStatus
<1> QED
  BY <1>2 DEF Lease!LeaseInit

(* The database implements the lease: a task has at most one owner, a       *)
(* terminal seats at most one lease, and a lease that was given back never  *)
(* owns a task or takes a seat again.                                       *)
THEOREM LeaseIsImplemented == Spec => ImplementsTaskLease
<1>1. SInv /\ SInv' /\ [Next]_vars => [Lease!LeaseNext]_(Lease!leaseVars)
  BY StepOfLease
<1> QED
  BY <1>1, InitOfLease, LeaseInvariance, PTL DEF Spec, ImplementsTaskLease, Lease!LeaseSpec
-----------------------------------------------------------------------------
(* Dependencies *)

(* The operator moves no task to pending or ready by hand. *)
NotByHand == OperatorStatuses \cap {"pending", "ready"} = {}

Waiting == {"absent", "pending"}

Waits ==
  \A t \in Tasks : task[t] = "pending" => \E x \in Deps[t] : task[x] # "completed"

(* A gate moved its task out of pending for good, so that resolving the     *)
(* gate readies no task that waits.                                         *)
GatesBlock ==
  \A g \in Gates :
    gate[g].status # "absent" =>
      gate[g].task \in Tasks /\ task[gate[g].task] \notin Waiting

PInv == SInv /\ Waits /\ GatesBlock

(* Nothing is completed, created or moved to pending, and no waiting task   *)
(* is readied.                                                              *)
Quiet ==
  \A u \in Tasks :
    \/ task'[u] = task[u]
    \/ /\ task'[u] \notin Waiting \cup {"completed"}
       /\ task[u] \in Waiting => task'[u] # "ready"

(* What a step does to the tasks, and to the gates. *)
TasksMove ==
  \/ Quiet
  \/ \E t \in Tasks : CreateTask(t) \/ task' = Finish(t, "completed")

GatesMove ==
  \A g \in Gates :
    \/ gate'[g] = gate[g]
    \/ gate[g].status # "absent" /\ gate'[g].task = gate[g].task
    \/ gate'[g].task \in Tasks /\ task'[gate'[g].task] = "blocked"

LEMMA QuietSet ==
  ASSUME TypeOK, NEW t, NEW s \in {"dispatched", "blocked", "failed", "ready"},
         task' = SetTask(t, s),
         s = "ready" => task[t] \notin Waiting
  PROVE  Quiet
BY DEF TypeOK, SetTask, Quiet, Waiting

LEMMA Kept == task' = task => Quiet
BY DEF Quiet

LEMMA InterruptQuiet ==
  ASSUME TypeOK, NEW d \in Dispatches, task' = Interrupt(d)
  PROVE  Quiet
BY QuietSet, Kept DEF Interrupt

(* Failures give a task back only from dispatched or blocked. *)
LEMMA RetryQuiet ==
  ASSUME TypeOK, NEW d \in Dispatches, task[disp[d].task] \in {"dispatched", "blocked"},
         task' = SetTask(disp[d].task, RetryStatus(d))
  PROVE  Quiet
<1>1. RetryStatus(d) \in {"failed", "ready"}
  BY DEF RetryStatus
<1> QED
  BY <1>1, QuietSet DEF Waiting

LEMMA TaskActionsPromote ==
  ASSUME PInv, NotByHand, NEW t \in Tasks
  PROVE  /\ CreateTask(t) => TasksMove /\ GatesMove
         /\ \A s \in OperatorStatuses : TaskUpdate(t, s) => TasksMove /\ GatesMove
         /\ \A a \in Terminals, c \in {None, "live"} :
              CreateDispatchContext(t, a, c) => TasksMove /\ GatesMove
         /\ \A fed \in BOOLEAN : StartWorker(t, fed) => TasksMove /\ GatesMove
         /\ \A g \in Gates : CreateGate(t, g) => TasksMove /\ GatesMove
<1>0. TypeOK
  BY DEF PInv, SInv, IInv
<1>1. CreateTask(t) => TasksMove /\ GatesMove
  BY DEF CreateTask, TasksMove, GatesMove
<1>2. ASSUME NEW s \in OperatorStatuses, TaskUpdate(t, s)
      PROVE  TasksMove /\ GatesMove
  <2>1. gate' = gate /\ task' = Finish(t, s)
    BY <1>2 DEF TaskUpdate, UpdateTaskStatus
  <2>2. CASE s = "completed"
    BY <2>1, <2>2 DEF TasksMove, GatesMove
  <2>3. CASE s # "completed"
    <3>1. s \in {"dispatched", "blocked", "failed"}
      BY <2>3, ConstantsOK DEF NotByHand, TaskStatus
    <3>2. task' = SetTask(t, s)
      BY <2>1, <2>3 DEF Finish
    <3>3. Quiet
      BY <1>0, <3>1, <3>2, QuietSet
    <3> QED
      BY <2>1, <3>3 DEF TasksMove, GatesMove
  <2> QED
    BY <2>2, <2>3
<1>3. ASSUME NEW row, Insert(row)
      PROVE  TasksMove /\ GatesMove
  <2>1. gate' = gate /\ task' = SetTask(row.task, "dispatched")
    BY <1>3 DEF Insert
  <2>2. Quiet
    BY <1>0, <2>1, QuietSet
  <2> QED
    BY <2>1, <2>2 DEF TasksMove, GatesMove
<1>4. ASSUME NEW g \in Gates, CreateGate(t, g)
      PROVE  TasksMove /\ GatesMove
  <2>1. task' = SetTask(t, "blocked") /\ gate' = [gate EXCEPT ![g] = [task |-> t, status |-> "pending"]]
    BY <1>4 DEF CreateGate
  <2>2. Quiet
    BY <1>0, <2>1, QuietSet
  <2>3. task'[t] = "blocked"
    BY <1>0, <2>1 DEF TypeOK, SetTask
  <2>4. GatesMove
    BY <1>0, <2>1, <2>3 DEF TypeOK, GatesMove
  <2> QED
    BY <2>2, <2>4 DEF TasksMove
<1> QED
  BY <1>1, <1>2, <1>3, <1>4 DEF CreateDispatchContext, StartWorker

LEMMA RowActionsPromote ==
  ASSUME PInv, NEW d \in Dispatches
  PROVE  /\ \A fed \in BOOLEAN : RetryWorker(d, fed) => TasksMove
         /\ \A stalled \in BOOLEAN : FailStart(d, stalled) => TasksMove
         /\ MarkStartUnknown(d) \/ ReconcileStartReady(d) \/ ReconcileStartUnknown(d) => TasksMove
         /\ \A state \in {"failed", "stopped"}, stalled \in BOOLEAN :
              ReconcileStartSettled(d, state, stalled) => TasksMove
         /\ \A outcome \in {"succeeded", "failed"} : WorkerReport(d, outcome) => TasksMove
         /\ FailDispatch(d) \/ WorkerExit(d) \/ ReconcileMissing(d) => TasksMove
         /\ ReleaseContextOnly(d) \/ BeginStop(d) \/ SettleStop(d) \/ ReconcileStop(d) => TasksMove
         /\ ResumeForReport(d) \/ Abandon(d) => TasksMove
<1>0. TypeOK
  BY DEF PInv, SInv, IInv
<1> SUFFICES
      /\ \A fed \in BOOLEAN : RetryWorker(d, fed) => Quiet
      /\ \A stalled \in BOOLEAN : FailStart(d, stalled) => Quiet
      /\ MarkStartUnknown(d) \/ ReconcileStartReady(d) \/ ReconcileStartUnknown(d) => Quiet
      /\ \A state \in {"failed", "stopped"}, stalled \in BOOLEAN :
           ReconcileStartSettled(d, state, stalled) => Quiet
      /\ \A outcome \in {"succeeded", "failed"} : WorkerReport(d, outcome) => TasksMove
      /\ FailDispatch(d) \/ WorkerExit(d) \/ ReconcileMissing(d) => Quiet
      /\ ReleaseContextOnly(d) \/ BeginStop(d) \/ SettleStop(d) \/ ReconcileStop(d) => Quiet
      /\ ResumeForReport(d) \/ Abandon(d) => Quiet
  BY DEF TasksMove
<1>1. ASSUME NEW fed \in BOOLEAN, RetryWorker(d, fed)
      PROVE  Quiet
  BY <1>0, <1>1, QuietSet DEF RetryWorker, Insert
<1>2. ASSUME NEW stalled \in BOOLEAN, FailStart(d, stalled)
      PROVE  Quiet
  BY <1>0, <1>2, QuietSet, Kept DEF FailStart
<1>3. MarkStartUnknown(d) \/ ReconcileStartReady(d) \/ ReconcileStartUnknown(d) => Quiet
  BY <1>0, QuietSet, Kept DEF MarkStartUnknown, ReconcileStartReady, ReconcileStartUnknown
<1>4. ASSUME NEW state \in {"failed", "stopped"}, NEW stalled \in BOOLEAN,
             ReconcileStartSettled(d, state, stalled)
      PROVE  Quiet
  BY <1>0, <1>4, QuietSet, InterruptQuiet DEF ReconcileStartSettled
<1>5. ASSUME NEW outcome \in {"succeeded", "failed"}, WorkerReport(d, outcome)
      PROVE  TasksMove
  <2>1. disp[d].task \in Tasks
    BY <1>0, <1>5 DEF WorkerReport, TypeOK, Row
  <2>2. CASE outcome = "succeeded"
    BY <1>5, <2>1, <2>2 DEF WorkerReport, TasksMove
  <2>3. CASE outcome = "failed"
    <3>1. task' = SetTask(disp[d].task, "failed")
      BY <1>5, <2>3 DEF WorkerReport, Finish
    <3> QED
      BY <1>0, <3>1, QuietSet DEF TasksMove
  <2> QED
    BY <1>5, <2>2, <2>3
<1>6. ASSUME NEW worker, Fail(d, worker)
      PROVE  Quiet
  BY <1>0, <1>6, RetryQuiet, Kept DEF Fail
<1>7. ASSUME StopSettled(d)
      PROVE  Quiet
  BY <1>0, <1>7, InterruptQuiet DEF StopSettled
<1>8. ASSUME ReconcileMissing(d)
      PROVE  Quiet
  BY <1>0, <1>8, RetryQuiet, InterruptQuiet, Kept DEF ReconcileMissing
<1>9. ReleaseContextOnly(d) \/ BeginStop(d) \/ SettleStop(d) \/ ReconcileStop(d) => Quiet
  BY <1>0, <1>7, QuietSet, InterruptQuiet, Kept
     DEF ReleaseContextOnly, BeginStop, SettleStop, ReconcileStop
<1>10. ResumeForReport(d) \/ Abandon(d) => Quiet
  BY <1>0, QuietSet, InterruptQuiet, Kept DEF ResumeForReport, Abandon
<1> QED
  BY <1>1, <1>2, <1>3, <1>4, <1>5, <1>6, <1>7, <1>8, <1>9, <1>10 DEF FailDispatch, WorkerExit

LEMMA GateActionsPromote ==
  ASSUME PInv
  PROVE  /\ \A g \in Gates : ResolveGate(g) => TasksMove /\ GatesMove
         /\ ReblockTasksWithPendingGates => TasksMove /\ GatesMove
<1>0. TypeOK
  BY DEF PInv, SInv, IInv
<1>1. ASSUME NEW g \in Gates, ResolveGate(g)
      PROVE  TasksMove /\ GatesMove
  <2>1. /\ task' = SetTask(gate[g].task, "ready")
        /\ gate[g].status # "absent" /\ gate' = [gate EXCEPT ![g].status = "resolved"]
    BY <1>1 DEF ResolveGate, UpdateTaskStatus, Finish
  <2>2. task[gate[g].task] \notin Waiting
    BY <2>1 DEF PInv, GatesBlock
  <2>3. Quiet
    BY <1>0, <2>1, <2>2, QuietSet
  <2>4. GatesMove
    BY <1>0, <2>1 DEF TypeOK, GateRow, GatesMove
  <2> QED
    BY <2>3, <2>4 DEF TasksMove
<1>2. ASSUME ReblockTasksWithPendingGates
      PROVE  TasksMove /\ GatesMove
  <2>1. gate' = gate /\ \A u \in Tasks : task'[u] = "blocked" \/ task'[u] = task[u]
    BY <1>2 DEF ReblockTasksWithPendingGates
  <2>2. Quiet
    BY <2>1 DEF Quiet, Waiting
  <2> QED
    BY <2>1, <2>2 DEF TasksMove, GatesMove
<1> QED
  BY <1>1, <1>2

LEMMA StepPromotes ==
  ASSUME PInv, NotByHand, [Next]_vars
  PROVE  TasksMove /\ GatesMove
<1>1. CASE UNCHANGED vars
  BY <1>1, Kept DEF vars, TasksMove, GatesMove
<1>2. ASSUME NEW d \in Dispatches,
             \/ \E fed \in BOOLEAN : RetryWorker(d, fed)
             \/ \E stalled \in BOOLEAN : FailStart(d, stalled)
             \/ MarkStartUnknown(d) \/ ReconcileStartReady(d) \/ ReconcileStartUnknown(d)
             \/ \E state \in {"failed", "stopped"}, stalled \in BOOLEAN :
                  ReconcileStartSettled(d, state, stalled)
             \/ \E outcome \in {"succeeded", "failed"} : WorkerReport(d, outcome)
             \/ FailDispatch(d) \/ WorkerExit(d) \/ ReconcileMissing(d)
             \/ ReleaseContextOnly(d) \/ BeginStop(d) \/ SettleStop(d) \/ ReconcileStop(d)
             \/ ResumeForReport(d) \/ Abandon(d)
      PROVE  TasksMove /\ GatesMove
  <2>1. gate' = gate
    BY <1>2 DEF RetryWorker, Insert, FailStart, MarkStartUnknown, ReconcileStartReady,
       ReconcileStartUnknown, ReconcileStartSettled, WorkerReport, FailDispatch, Fail,
       WorkerExit, StopSettled, ReconcileMissing, ReleaseContextOnly, BeginStop, SettleStop,
       ReconcileStop, ResumeForReport, Abandon
  <2>2. TasksMove
    BY <1>2, RowActionsPromote
  <2> QED
    BY <2>1, <2>2 DEF GatesMove
<1>3. ASSUME NEW d \in Dispatches,
             \/ \E a \in Terminals : PrepareAuthority(d, a)
             \/ MarkReady(d) \/ MarkStopUnknown(d)
             \/ Ask(d) \/ ImportQuestion(d) \/ Answer(d)
      PROVE  task' = task /\ gate' = gate
  BY <1>3 DEF PrepareAuthority, MarkReady, MarkStopUnknown, Ask, ImportQuestion, Answer
<1>4. task' = task /\ gate' = gate => TasksMove /\ GatesMove
  BY Kept DEF TasksMove, GatesMove
<1>5. Restart => task' = task /\ gate' = gate
  BY DEF Restart
<1>6. CASE Next
  BY <1>2, <1>3, <1>4, <1>5, <1>6, TaskActionsPromote, GateActionsPromote DEF Next
<1> QED
  BY <1>1, <1>6

(* What completing t does to the others. *)
LEMMA FinishFacts ==
  ASSUME TypeOK, NEW t \in Tasks, task' = Finish(t, "completed"), NEW u \in Tasks
  PROVE  \/ task'[u] = "completed" /\ u = t
         \/ task'[u] = task[u] /\ u # t
              /\ (task[u] = "pending" /\ t \in Deps[u] => \E x \in Deps[u] \ {t} : task[x] # "completed")
         \/ u # t /\ task[u] = "pending" /\ task'[u] = "ready"
              /\ \A x \in Deps[u] \ {t} : task[x] = "completed"
<1>1. /\ task' = Promote(SetTask(t, "completed"), t)
      /\ SetTask(t, "completed")[t] = "completed"
      /\ \A x \in Tasks \ {t} : SetTask(t, "completed")[x] = task[x]
      /\ Deps[u] \subseteq Tasks
  BY ConstantsOK DEF TypeOK, Finish, SetTask
<1> QED
  BY <1>1 DEF Promote

LEMMA PromotionStep ==
  ASSUME PInv, NotByHand, [Next]_vars
  PROVE  /\ PInv'
         /\ \A t \in Tasks :
              task[t] \in {"absent", "pending"} =>
                /\ task'[t] = "pending" => \E x \in Deps[t] : task'[x] # "completed"
                /\ task'[t] = "ready" => \A x \in Deps[t] : task'[x] = "completed"
<1>0. /\ TypeOK /\ SInv' /\ GatesMove /\ TasksMove
      /\ \A t \in Tasks : Deps[t] \subseteq Tasks
  BY NextKeeps, StepPromotes, ConstantsOK DEF PInv, SInv, IInv
<1>1. CASE Quiet
  <2>1. Waits'
    BY <1>0, <1>1 DEF Quiet, PInv, Waits, Waiting
  <2>2. \A t \in Tasks : task[t] \in Waiting => task'[t] # "ready"
    BY <1>1 DEF Quiet, Waiting
  <2>3. GatesBlock'
    BY <1>0, <1>1 DEF Quiet, PInv, GatesBlock, GatesMove, Waiting
  <2> QED
    BY <1>0, <2>1, <2>2, <2>3 DEF PInv, Waits, Waiting
<1>2. ASSUME NEW t \in Tasks, CreateTask(t)
      PROVE  PInv' /\ \A u \in Tasks :
                task[u] \in Waiting =>
                  /\ task'[u] = "pending" => \E x \in Deps[u] : task'[x] # "completed"
                  /\ task'[u] = "ready" => \A x \in Deps[u] : task'[x] = "completed"
  <2>1. /\ task[t] = "absent" /\ t \notin Deps[t] /\ gate' = gate
        /\ \A u \in Tasks \ {t} : task'[u] = task[u]
        /\ \/ task'[t] = "ready" /\ \A x \in Deps[t] : task[x] = "completed"
           \/ task'[t] = "pending" /\ \E x \in Deps[t] : task[x] # "completed"
    BY <1>0, <1>2 DEF CreateTask, SetTask, TypeOK
  <2>2. \A x \in Deps[t] : task'[x] = task[x]
    BY <1>0, <2>1
  <2>3. Waits'
    BY <1>0, <2>1, <2>2 DEF PInv, Waits
  <2>4. GatesBlock'
    BY <2>1 DEF PInv, GatesBlock, Waiting
  <2> QED
    BY <1>0, <2>1, <2>2, <2>3, <2>4 DEF PInv, Waits, Waiting
<1>3. ASSUME NEW t \in Tasks, task' = Finish(t, "completed")
      PROVE  PInv' /\ \A u \in Tasks :
                task[u] \in Waiting =>
                  /\ task'[u] = "pending" => \E x \in Deps[u] : task'[x] # "completed"
                  /\ task'[u] = "ready" => \A x \in Deps[u] : task'[x] = "completed"
  <2>1. \A u \in Tasks :
          \/ task'[u] = "completed" /\ u = t
          \/ task'[u] = task[u] /\ u # t
               /\ (task[u] = "pending" /\ t \in Deps[u] => \E x \in Deps[u] \ {t} : task[x] # "completed")
          \/ u # t /\ task[u] = "pending" /\ task'[u] = "ready"
               /\ \A x \in Deps[u] \ {t} : task[x] = "completed"
    BY <1>0, <1>3, FinishFacts
  <2>2. /\ task'[t] = "completed"
        /\ \A x \in Tasks \ {t} : task'[x] = "completed" <=> task[x] = "completed"
    BY <2>1
  <2>3. Waits'
    BY <1>0, <2>1, <2>2 DEF PInv, Waits
  <2>4. GatesBlock'
    <3>1. \A u \in Tasks : task[u] \notin Waiting => task'[u] \notin Waiting
      BY <2>1 DEF Waiting
    <3> QED
      BY <1>0, <3>1 DEF PInv, GatesBlock, GatesMove, Waiting
  <2>5. \A u \in Tasks : task[u] \in Waiting /\ task'[u] = "ready" =>
          \A x \in Deps[u] : task'[x] = "completed"
    BY <1>0, <2>1, <2>2 DEF Waiting
  <2> QED
    BY <1>0, <2>3, <2>4, <2>5 DEF PInv, Waits
<1> QED
  BY <1>0, <1>1, <1>2, <1>3 DEF TasksMove, Waiting

(* As long as no operator moves tasks to pending or ready by hand, a task   *)
(* waits exactly for its dependencies: the promotion that runs with every   *)
(* completion misses no task, and readies none too early.                   *)
THEOREM PromotionNeverErrs ==
  ASSUME NotByHand
  PROVE  Spec => PromotionIsExact
<1>1. Init => PInv
  BY LeaseInit0 DEF Init, PInv, Waits, GatesBlock
<1>2. PInv /\ [Next]_vars =>
        PInv' /\ \A t \in Tasks :
          task[t] \in {"absent", "pending"} =>
            /\ task'[t] = "pending" => \E x \in Deps[t] : task'[x] # "completed"
            /\ task'[t] = "ready" => \A x \in Deps[t] : task'[x] = "completed"
  BY PromotionStep
<1> QED
  BY <1>1, <1>2, PTL DEF Spec, PromotionIsExact
=============================================================================
