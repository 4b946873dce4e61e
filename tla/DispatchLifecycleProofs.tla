----------------------- MODULE DispatchLifecycleProofs -----------------------
(***************************************************************************)
(* Proofs about DispatchLifecycle, for any tasks, dependencies, terminals, *)
(* gates and bounds.                                                       *)
(***************************************************************************)
EXTENDS DispatchLifecycle, TLAPS

TaskColumn == [Tasks -> TaskStatus \cup {"absent"}]

-----------------------------------------------------------------------------
(* Typing of what the actions are built from *)

LEMMA SetTaskType ==
  ASSUME TypeOK, NEW t, NEW s \in TaskStatus
  PROVE  SetTask(t, s) \in TaskColumn
BY DEF TypeOK, SetTask, TaskColumn

LEMMA FinishType ==
  ASSUME TypeOK, NEW t, NEW s \in TaskStatus
  PROVE  Finish(t, s) \in TaskColumn
<1>1. SetTask(t, s) \in TaskColumn
  BY SetTaskType
<1> QED
  BY <1>1 DEF Finish, Promote, TaskStatus, TaskColumn

LEMMA SettleType ==
  ASSUME NEW row \in Row, NEW s \in DispatchStatus
  PROVE  Settle(row, s) \in Row
BY DEF Settle, Row, Revoked

(* What the methods write into a row beside its status. *)
LEMMA RowFieldsType ==
  ASSUME NEW r \in Row,
         NEW w \in LiveState \cup SettledState \cup {None}, NEW b \in BOOLEAN
  PROVE  /\ [r EXCEPT !.failures = @ + 1, !.worker = w] \in Row
         /\ [r EXCEPT !.worker = w, !.stalled = b, !.asking = FALSE] \in Row
         /\ [r EXCEPT !.worker = w, !.asking = FALSE] \in Row
         /\ [r EXCEPT !.stalled = b, !.worker = w] \in Row
<1>1. [r EXCEPT !.failures = @ + 1, !.worker = w] \in Row
  <2>1. r.failures + 1 \in Nat
    BY DEF Row
  <2> QED
    BY <2>1 DEF Row
<1>2. [r EXCEPT !.worker = w, !.stalled = b, !.asking = FALSE] \in Row
  BY DEF Row
<1>3. [r EXCEPT !.worker = w, !.asking = FALSE] \in Row
  BY DEF Row
<1>4. [r EXCEPT !.stalled = b, !.worker = w] \in Row
  BY DEF Row
<1> QED
  BY <1>1, <1>2, <1>3, <1>4

LEMMA SettleActiveType ==
  ASSUME TypeOK, NEW t, NEW s \in {"completed", "failed"}
  PROVE  SettleActive(t, s) \in [Dispatches -> Row]
<1>1. s \in DispatchStatus
  BY DEF DispatchStatus
<1> QED
  BY <1>1, SettleType DEF SettleActive, TypeOK

LEMMA InterruptType ==
  ASSUME TypeOK, NEW d \in Dispatches
  PROVE  Interrupt(d) \in TaskColumn
<1>1. \A s \in TaskStatus : SetTask(disp[d].task, s) \in TaskColumn
  BY SetTaskType
<1> QED
  BY <1>1 DEF Interrupt, TypeOK, TaskStatus, TaskColumn

LEMMA StatusTypes ==
  ASSUME NEW d \in Dispatches
  PROVE  /\ FailureStatus(d) \in {"failed", "circuit_broken"}
         /\ FailureStatus(d) \in DispatchStatus
         /\ RetryStatus(d) \in TaskStatus
BY DEF FailureStatus, RetryStatus, DispatchStatus, TaskStatus

(* Replacing one row by a row keeps the table typed. *)
LEMMA RowUpdateType ==
  ASSUME TypeOK, NEW d \in Dispatches, NEW row \in Row
  PROVE  [disp EXCEPT ![d] = row] \in [Dispatches -> Row]
BY DEF TypeOK

(* An inserted row keeps the tables typed. *)
LEMMA InsertType ==
  ASSUME TypeOK, NEW row \in Row, Insert(row)
  PROVE  TypeOK'
<1>1. task' \in TaskColumn
  BY SetTaskType DEF Insert, TaskStatus
<1>2. rows' \in 0 .. MaxDispatches /\ rows + 1 \in Dispatches
  BY ConstantsOK DEF Insert, TypeOK, Dispatches
<1>3. disp' \in [Dispatches -> Row]
  BY <1>2, RowUpdateType DEF Insert
<1> QED
  BY <1>1, <1>2, <1>3 DEF Insert, TypeOK, TaskColumn

(* A step of one dispatch that writes a row and a task status. *)
LEMMA StepType ==
  ASSUME TypeOK, NEW d \in Dispatches, NEW row \in Row,
         disp' = [disp EXCEPT ![d] = row],
         task' \in TaskColumn,
         UNCHANGED <<rows, gate, epoch>>
  PROVE  TypeOK'
BY RowUpdateType DEF TypeOK, TaskColumn

-----------------------------------------------------------------------------
(* Type correctness, action by action *)

LEMMA NoRowType == NoRow \in Row
BY ConstantsOK DEF NoRow, Row, DispatchStatus, TypeOK

LEMMA TaskActionsType ==
  ASSUME TypeOK, NEW t \in Tasks
  PROVE  /\ CreateTask(t) => TypeOK'
         /\ \A s \in OperatorStatuses : TaskUpdate(t, s) => TypeOK'
         /\ \A g \in Gates : CreateGate(t, g) => TypeOK'
<1>1. CreateTask(t) => TypeOK'
  <2> HAVE CreateTask(t)
  <2>1. task' \in TaskColumn
    BY SetTaskType DEF CreateTask, TaskStatus
  <2> QED
    BY <2>1 DEF CreateTask, TypeOK, TaskColumn
<1>2. ASSUME NEW s \in OperatorStatuses, TaskUpdate(t, s)
      PROVE  TypeOK'
  <2>1. s \in TaskStatus
    BY ConstantsOK
  <2>2. task' \in TaskColumn
    BY <1>2, <2>1, FinishType DEF TaskUpdate, UpdateTaskStatus
  <2>3. disp' \in [Dispatches -> Row]
    BY <1>2, SettleActiveType DEF TaskUpdate, UpdateTaskStatus, TypeOK
  <2> QED
    BY <1>2, <2>2, <2>3 DEF TaskUpdate, TypeOK, TaskColumn
<1>3. ASSUME NEW g \in Gates, CreateGate(t, g)
      PROVE  TypeOK'
  <2>1. task' \in TaskColumn
    BY <1>3, SetTaskType DEF CreateGate, TaskStatus
  <2>2. disp' \in [Dispatches -> Row]
    BY <1>3, SettleActiveType DEF CreateGate
  <2>3. gate' \in [Gates -> GateRow]
    BY <1>3 DEF CreateGate, TypeOK, GateRow
  <2> QED
    BY <1>3, <2>1, <2>2, <2>3 DEF CreateGate, TypeOK, TaskColumn
<1> QED
  BY <1>1, <1>2, <1>3

LEMMA HandOutType ==
  ASSUME TypeOK
  PROVE  /\ \A t \in Tasks, a \in Terminals, c \in {None, "live"} :
              CreateDispatchContext(t, a, c) => TypeOK'
         /\ \A t \in Tasks, fed \in BOOLEAN : StartWorker(t, fed) => TypeOK'
         /\ \A d \in Dispatches, fed \in BOOLEAN : RetryWorker(d, fed) => TypeOK'
<1>1. \A t \in Tasks, fed \in BOOLEAN : StartingRow(t, fed) \in Row
  BY NoRowType DEF StartingRow, Row, TypeOK, DispatchStatus, ActiveStatus, LiveState
<1>2. ASSUME NEW t \in Tasks, NEW a \in Terminals, NEW c \in {None, "live"},
             CreateDispatchContext(t, a, c)
      PROVE  TypeOK'
  <2>1. PICK n \in 0 .. MaxDispatches :
          Insert([NoRow EXCEPT !.task = t, !.status = "dispatched", !.failures = n,
                               !.capability = c, !.assignee = a, !.epoch = epoch])
    BY <1>2 DEF CreateDispatchContext
  <2>2. n \in Nat
    BY ConstantsOK
  <2>3. [NoRow EXCEPT !.task = t, !.status = "dispatched", !.failures = n,
                      !.capability = c, !.assignee = a, !.epoch = epoch] \in Row
    BY <2>2, NoRowType DEF Row, TypeOK, DispatchStatus, ActiveStatus
  <2> QED
    BY <2>1, <2>3, InsertType
<1>3. ASSUME NEW t \in Tasks, NEW fed \in BOOLEAN, StartWorker(t, fed)
      PROVE  TypeOK'
  BY <1>1, <1>3, InsertType DEF StartWorker
<1>4. ASSUME NEW d \in Dispatches, NEW fed \in BOOLEAN, RetryWorker(d, fed)
      PROVE  TypeOK'
  BY <1>1, <1>4, InsertType DEF RetryWorker
<1> QED
  BY <1>2, <1>3, <1>4

LEMMA StartType ==
  ASSUME TypeOK, NEW d \in Dispatches
  PROVE  /\ \A a \in Terminals : PrepareAuthority(d, a) => TypeOK'
         /\ MarkReady(d) => TypeOK'
         /\ \A stalled \in BOOLEAN : FailStart(d, stalled) => TypeOK'
         /\ MarkStartUnknown(d) => TypeOK'
         /\ ReconcileStartReady(d) => TypeOK'
         /\ ReconcileStartUnknown(d) => TypeOK'
         /\ \A state \in {"failed", "stopped"}, stalled \in BOOLEAN :
              ReconcileStartSettled(d, state, stalled) => TypeOK'
<1> USE DEF Row, DispatchStatus, ActiveStatus, LiveState, SettledState
<1>0. disp[d] \in Row /\ task \in TaskColumn
  BY DEF TypeOK, TaskColumn
<1>8. \A s \in TaskStatus : SetTask(disp[d].task, s) \in TaskColumn
  BY SetTaskType
<1>9. Settle(disp[d], "failed") \in Row
  BY <1>0, SettleType
<1>1. ASSUME NEW a \in Terminals, PrepareAuthority(d, a)
      PROVE  TypeOK'
  <2>1. [disp[d] EXCEPT !.assignee = a, !.capability = "live"] \in Row
    BY <1>0
  <2> QED
    BY <1>0, <1>1, <2>1, StepType DEF PrepareAuthority
<1>2. ASSUME MarkReady(d)
      PROVE  TypeOK'
  <2>1. [disp[d] EXCEPT !.status = "dispatched", !.worker = "ready"] \in Row
    BY <1>0
  <2> QED
    BY <1>0, <1>2, <2>1, StepType DEF MarkReady
<1>3. ASSUME NEW stalled \in BOOLEAN, FailStart(d, stalled)
      PROVE  TypeOK'
  <2>1. [disp[d] EXCEPT !.status = "failed", !.worker = "failed", !.asking = FALSE,
                        !.stalled = stalled,
                        !.capability = IF stalled THEN @ ELSE Revoked(@)] \in Row
    <3> DEFINE c == IF stalled THEN disp[d].capability ELSE Revoked(disp[d].capability)
    <3>1. c \in {None, "live", "revoked"}
      BY <1>0 DEF Revoked
    <3>2. [disp[d] EXCEPT !.status = "failed", !.worker = "failed", !.asking = FALSE,
                          !.stalled = stalled, !.capability = c] \in Row
      <4> HIDE DEF c
      <4> QED
        BY <1>0, <3>1
    <3> QED
      BY <3>2 DEF c
  <2>2. task' \in TaskColumn
    BY <1>0, <1>3, <1>8 DEF FailStart, TaskStatus
  <2> QED
    BY <1>3, <2>1, <2>2, StepType DEF FailStart
<1>4. ASSUME MarkStartUnknown(d)
      PROVE  TypeOK'
  <2>1. [disp[d] EXCEPT !.worker = "start_unknown"] \in Row
    BY <1>0
  <2>2. task' \in TaskColumn
    BY <1>4, <1>8 DEF MarkStartUnknown, TaskStatus
  <2> QED
    BY <1>4, <2>1, <2>2, StepType DEF MarkStartUnknown
<1>5. ASSUME ReconcileStartReady(d)
      PROVE  TypeOK'
  <2>1. [disp[d] EXCEPT !.status = IF @ = "pending" THEN "dispatched" ELSE @,
                        !.worker = "ready"] \in Row
    BY <1>0
  <2>2. task' \in TaskColumn
    BY <1>0, <1>5, <1>8 DEF ReconcileStartReady, TaskStatus
  <2> QED
    BY <1>5, <2>1, <2>2, StepType DEF ReconcileStartReady
<1>6. ASSUME ReconcileStartUnknown(d)
      PROVE  TypeOK'
  <2>1. [disp[d] EXCEPT !.worker = "start_unknown"] \in Row
    BY <1>0
  <2>2. task' \in TaskColumn
    BY <1>0, <1>6, <1>8 DEF ReconcileStartUnknown, TaskStatus
  <2> QED
    BY <1>6, <2>1, <2>2, StepType DEF ReconcileStartUnknown
<1>7. ASSUME NEW state \in {"failed", "stopped"}, NEW stalled \in BOOLEAN,
             ReconcileStartSettled(d, state, stalled)
      PROVE  TypeOK'
  <2> DEFINE base == IF Active(d) THEN Settle(disp[d], "failed") ELSE disp[d]
             row == [base EXCEPT !.worker = state, !.stalled = stalled, !.asking = FALSE]
  <2>1. base \in Row
    BY <1>0, <1>9
  <2>2. \A r \in Row : [r EXCEPT !.worker = state, !.stalled = stalled, !.asking = FALSE] \in Row
    <3>1. state \in LiveState \cup SettledState \cup {None}
      OBVIOUS
    <3> HIDE DEF Row, LiveState, SettledState, base, row
    <3> QED
      BY <3>1, RowFieldsType
  <2>3. row \in Row
    <3> HIDE DEF base
    <3> QED
      BY <2>1, <2>2
  <2>4. task' \in TaskColumn
    BY <1>7, <1>8, InterruptType DEF ReconcileStartSettled, TaskStatus
  <2> QED
    BY <1>7, <2>3, <2>4, StepType DEF ReconcileStartSettled
<1> QED
  BY <1>1, <1>2, <1>3, <1>4, <1>5, <1>6, <1>7

LEMMA ReportType ==
  ASSUME TypeOK, NEW d \in Dispatches, NEW outcome \in {"succeeded", "failed"},
         WorkerReport(d, outcome)
  PROVE  TypeOK'
<1> DEFINE s == IF outcome = "succeeded" THEN "completed" ELSE "failed"
           row == [Settle(disp[d], s) EXCEPT
                     !.stalled = @ /\ outcome = "succeeded",
                     !.worker = IF @ = None THEN None ELSE outcome]
<1>1. disp[d] \in Row /\ s \in DispatchStatus /\ s \in TaskStatus
  BY DEF TypeOK, DispatchStatus, TaskStatus
<1>2. Settle(disp[d], s) \in Row
  BY <1>1, SettleType
<1>3. row \in Row
  <2>1. /\ Settle(disp[d], s).stalled \in BOOLEAN
        /\ (IF Settle(disp[d], s).worker = None THEN None ELSE outcome)
             \in LiveState \cup SettledState \cup {None}
    BY <1>2 DEF Row, SettledState
  <2>2. (Settle(disp[d], s).stalled /\ outcome = "succeeded") \in BOOLEAN
    OBVIOUS
  <2> QED
    BY <1>2, <2>1, <2>2, RowFieldsType
<1>4. SettleActive(disp[d].task, s) \in [Dispatches -> Row]
  BY SettleActiveType
<1>5. disp' \in [Dispatches -> Row]
  BY <1>3, <1>4 DEF WorkerReport
<1>6. task' \in TaskColumn
  BY <1>1, FinishType DEF WorkerReport
<1> QED
  BY <1>5, <1>6 DEF WorkerReport, TypeOK, TaskColumn

LEMMA FailType ==
  ASSUME TypeOK, NEW d \in Dispatches,
         NEW worker \in LiveState \cup SettledState \cup {None}, Fail(d, worker)
  PROVE  TypeOK'
<1>1. disp[d] \in Row /\ task \in TaskColumn
  BY DEF TypeOK, TaskColumn
<1>2. Settle(disp[d], FailureStatus(d)) \in Row
  BY <1>1, SettleType, StatusTypes
<1>3. [Settle(disp[d], FailureStatus(d)) EXCEPT !.failures = @ + 1, !.worker = worker] \in Row
  BY <1>2, RowFieldsType
<1>4. task' \in TaskColumn
  BY <1>1, StatusTypes, SetTaskType DEF Fail
<1> QED
  BY <1>3, <1>4, StepType DEF Fail

LEMMA StopSettledType ==
  ASSUME TypeOK, NEW d \in Dispatches,
         disp' = [disp EXCEPT ![d] = StoppedRow(d)],
         task' = Interrupt(d),
         UNCHANGED <<rows, gate, epoch>>
  PROVE  TypeOK'
<1>1. disp[d] \in Row
  BY DEF TypeOK
<1>2. StoppedRow(d) \in Row
  BY <1>1 DEF StoppedRow, Row, DispatchStatus, SettledState
<1> QED
  BY <1>2, InterruptType, StepType

LEMMA FailureType ==
  ASSUME TypeOK, NEW d \in Dispatches
  PROVE  /\ FailDispatch(d) => TypeOK'
         /\ WorkerExit(d) => TypeOK'
         /\ ReconcileMissing(d) => TypeOK'
         /\ ReleaseContextOnly(d) => TypeOK'
<1>0. disp[d] \in Row /\ task \in TaskColumn
  BY DEF TypeOK, TaskColumn
<1>1. ASSUME FailDispatch(d)
      PROVE  TypeOK'
  BY <1>0, <1>1, FailType DEF FailDispatch, Row
<1>2. ASSUME WorkerExit(d)
      PROVE  TypeOK'
  <2>1. CASE StopInFlight(d)
    BY <1>2, <2>1, StopSettledType DEF WorkerExit, StopSettled
  <2>2. CASE ~StopInFlight(d)
    BY <1>2, <2>2, FailType DEF WorkerExit, SettledState
  <2> QED
    BY <2>1, <2>2
<1>3. ASSUME ReconcileMissing(d)
      PROVE  TypeOK'
  <2> DEFINE row == [Settle(disp[d], FailureStatus(d)) EXCEPT
                       !.failures = @ + 1,
                       !.worker = IF disp[d].worker \in {"stopping", "stop_unknown"}
                                  THEN "stopped" ELSE "abandoned"]
  <2>1. Settle(disp[d], FailureStatus(d)) \in Row
    BY <1>0, SettleType, StatusTypes
  <2>2. row \in Row
    BY <2>1, RowFieldsType DEF SettledState
  <2>3. task' \in TaskColumn
    BY <1>0, <1>3, InterruptType, StatusTypes, SetTaskType DEF ReconcileMissing
  <2> QED
    BY <1>3, <2>2, <2>3, StepType DEF ReconcileMissing
<1>4. ASSUME ReleaseContextOnly(d)
      PROVE  TypeOK'
  <2>1. Settle(disp[d], "failed") \in Row
    BY <1>0, SettleType DEF DispatchStatus
  <2>2. task' \in TaskColumn
    BY <1>0, <1>4, SetTaskType DEF ReleaseContextOnly, TaskStatus
  <2> QED
    BY <1>4, <2>1, <2>2, StepType DEF ReleaseContextOnly
<1> QED
  BY <1>1, <1>2, <1>3, <1>4

LEMMA StopType ==
  ASSUME TypeOK, NEW d \in Dispatches
  PROVE  /\ BeginStop(d) => TypeOK'
         /\ SettleStop(d) => TypeOK'
         /\ MarkStopUnknown(d) => TypeOK'
         /\ ReconcileStop(d) => TypeOK'
         /\ ResumeForReport(d) => TypeOK'
         /\ Abandon(d) => TypeOK'
<1> USE DEF Row, LiveState, SettledState
<1>0. disp[d] \in Row /\ task \in TaskColumn /\ epoch \in 0 .. MaxEpoch
  BY DEF TypeOK, TaskColumn
<1>1. ASSUME BeginStop(d)
      PROVE  TypeOK'
  <2>1. [disp[d] EXCEPT !.worker = "stopping", !.epoch = epoch,
                        !.capability = Revoked(@), !.asking = FALSE] \in Row
    BY <1>0 DEF Revoked
  <2> QED
    BY <1>1, <2>1, InterruptType, StepType DEF BeginStop
<1>2. ASSUME SettleStop(d)
      PROVE  TypeOK'
  BY <1>2, StopSettledType DEF SettleStop, StopSettled
<1>3. ASSUME MarkStopUnknown(d)
      PROVE  TypeOK'
  <2>1. [disp[d] EXCEPT !.worker = "stop_unknown"] \in Row
    BY <1>0
  <2> QED
    BY <1>0, <1>3, <2>1, StepType DEF MarkStopUnknown
<1>4. ASSUME ReconcileStop(d)
      PROVE  TypeOK'
  BY <1>4, StopSettledType DEF ReconcileStop
<1>5. ASSUME ResumeForReport(d)
      PROVE  TypeOK'
  <2>1. [disp[d] EXCEPT !.worker = "ready"] \in Row
    BY <1>0
  <2>2. task' \in TaskColumn
    BY <1>0, <1>5, SetTaskType DEF ResumeForReport, TaskStatus
  <2> QED
    BY <1>5, <2>1, <2>2, StepType DEF ResumeForReport
<1>6. ASSUME Abandon(d)
      PROVE  TypeOK'
  <2> DEFINE base == IF Active(d) THEN Settle(disp[d], "failed") ELSE disp[d]
             row == [base EXCEPT !.worker = "abandoned", !.asking = FALSE]
  <2>1. base \in Row
    BY <1>0, SettleType DEF DispatchStatus
  <2>2. \A r \in Row : [r EXCEPT !.worker = "abandoned", !.asking = FALSE] \in Row
    <3>1. "abandoned" \in LiveState \cup SettledState \cup {None}
      OBVIOUS
    <3> HIDE DEF Row, LiveState, SettledState, base, row
    <3> QED
      BY <3>1, RowFieldsType
  <2>3. row \in Row
    <3> HIDE DEF base
    <3> QED
      BY <2>1, <2>2
  <2> QED
    BY <1>6, <2>3, InterruptType, StepType DEF Abandon
<1> QED
  BY <1>1, <1>2, <1>3, <1>4, <1>5, <1>6

LEMMA GateAndQuestionType ==
  ASSUME TypeOK
  PROVE  /\ \A g \in Gates : ResolveGate(g) => TypeOK'
         /\ ReblockTasksWithPendingGates => TypeOK'
         /\ \A d \in Dispatches : Ask(d) \/ ImportQuestion(d) \/ Answer(d) => TypeOK'
         /\ Restart => TypeOK'
<1>1. ASSUME NEW g \in Gates, ResolveGate(g)
      PROVE  TypeOK'
  <2>1. task' \in TaskColumn
    BY <1>1, FinishType DEF ResolveGate, UpdateTaskStatus, TaskStatus
  <2>2. disp' = disp
    BY <1>1 DEF ResolveGate, UpdateTaskStatus
  <2>3. gate' \in [Gates -> GateRow]
    BY <1>1 DEF ResolveGate, TypeOK, GateRow
  <2> QED
    BY <1>1, <2>1, <2>2, <2>3 DEF ResolveGate, TypeOK, TaskColumn
<1>2. ASSUME ReblockTasksWithPendingGates
      PROVE  TypeOK'
  <2>1. PICK done \in SUBSET Tasks :
          task' = [t \in Tasks |-> IF t \in done THEN "blocked" ELSE task[t]]
    BY <1>2 DEF ReblockTasksWithPendingGates
  <2>2. UNCHANGED <<disp, rows, gate, epoch>>
    BY <1>2 DEF ReblockTasksWithPendingGates
  <2> QED
    BY <2>1, <2>2 DEF TypeOK, TaskStatus
<1>3. ASSUME NEW d \in Dispatches, Ask(d) \/ ImportQuestion(d) \/ Answer(d)
      PROVE  TypeOK'
  <2>1. \A b \in BOOLEAN : [disp[d] EXCEPT !.asking = b] \in Row
    BY DEF TypeOK, Row
  <2>2. task \in TaskColumn
    BY DEF TypeOK, TaskColumn
  <2> QED
    BY <1>3, <2>1, <2>2, StepType DEF Ask, ImportQuestion, Answer
<1>4. ASSUME Restart
      PROVE  TypeOK'
  BY <1>4, ConstantsOK DEF Restart, TypeOK
<1> QED
  BY <1>1, <1>2, <1>3, <1>4

LEMMA NextType ==
  ASSUME TypeOK, [Next]_vars
  PROVE  TypeOK'
<1>1. CASE UNCHANGED vars
  BY <1>1 DEF vars, TypeOK
<1>2. CASE Next
  BY <1>2, TaskActionsType, HandOutType, StartType, ReportType, FailureType, StopType,
     GateAndQuestionType DEF Next
<1> QED
  BY <1>1, <1>2

(* The tables stay well typed: in particular no method writes the status of *)
(* one kind of row into a row of another kind.                              *)
THEOREM TypeCorrect == Spec => []TypeOK
<1>1. Init => TypeOK
  BY NoRowType, ConstantsOK DEF Init, TypeOK, GateRow
<1>2. TypeOK /\ [Next]_vars => TypeOK'
  BY NextType
<1> QED
  BY <1>1, <1>2, PTL DEF Spec
=============================================================================
