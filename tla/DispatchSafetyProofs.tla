------------------------- MODULE DispatchSafetyProofs -------------------------
(***************************************************************************)
(* One inductive invariant gives three safety properties of                *)
(* DispatchLifecycle: no task has two active dispatches, the task column   *)
(* agrees with the dispatch rows, and workers live as long as their        *)
(* dispatches.  None of the three is inductive alone: a retry is safe      *)
(* because the worker row says that the latest dispatch settled, a claim   *)
(* because a ready task has no active dispatch, and a failure because its  *)
(* dispatch is the only active one of its task.                            *)
(***************************************************************************)
EXTENDS DispatchLifecycleProofs

(* The rows after the last insertion are empty. *)
RowsInOrder == \A d \in Dispatches : disp[d].task # None => d <= rows

(* What TaskMatchesDispatch asks of an active row and its task's status. *)
Agrees(row, s) ==
  \/ s = "dispatched" /\ row.worker \in {None, "starting", "ready"}
  \/ s = "blocked" /\ row.worker \in {"start_unknown", "stopping", "stop_unknown"}

(* What WorkerMatchesDispatch asks of a row. *)
WorkerMatches(row) ==
  row.worker # None =>
    /\ row.worker \in LiveState <=> row.status \in ActiveStatus
    /\ row.worker = "succeeded" => row.status = "completed"
    /\ row.worker = "starting" => row.status = "pending"

IInv ==
  /\ TypeOK
  /\ RowsInOrder
  /\ OneActiveDispatch
  /\ TaskMatchesDispatch
  /\ WorkerMatchesDispatch

-----------------------------------------------------------------------------
(* Consequences of the invariant *)

LEMMA RowFacts ==
  ASSUME IInv, NEW d \in Dispatches
  PROVE  /\ disp[d] \in Row
         /\ WorkerMatches(disp[d])
         /\ Active(d) /\ disp[d].task \in Tasks =>
              Agrees(disp[d], task[disp[d].task]) /\ ~Contested(d)
<1>1. disp[d] \in Row
  BY DEF IInv, TypeOK
<1>2. WorkerMatches(disp[d])
  BY DEF IInv, WorkerMatchesDispatch, WorkerMatches, LiveWorker, Active
<1>3. ASSUME Active(d), disp[d].task \in Tasks
      PROVE  Agrees(disp[d], task[disp[d].task]) /\ ~Contested(d)
  <2>1. d \in ActiveOn(disp[d].task)
    BY <1>3 DEF ActiveOn
  <2>2. Agrees(disp[d], task[disp[d].task])
    BY <1>3, <2>1 DEF IInv, TaskMatchesDispatch, Agrees
  <2>3. ASSUME NEW e \in ActiveOn(disp[d].task)
        PROVE  e = d
    <3>1. e <= d /\ d <= e
      BY <1>3, <2>1, <2>3 DEF IInv, OneActiveDispatch, LatestOf, ActiveOn
    <3> QED
      BY <2>3, <3>1 DEF ActiveOn, Dispatches
  <2> QED
    BY <2>2, <2>3 DEF Contested
<1> QED
  BY <1>1, <1>2, <1>3

(* A live worker's dispatch is active. *)
LEMMA LiveIsActive ==
  ASSUME IInv, NEW d \in Dispatches, LiveWorker(d)
  PROVE  Active(d)
BY ConstantsOK, RowFacts DEF WorkerMatches, LiveWorker, Active, LiveState

(* The invariant after a step that writes one row, in terms of that row: it *)
(* stays with its task, is not revived, and agrees with the new status.     *)
LEMMA RowStep ==
  ASSUME IInv, TypeOK', NEW d \in Dispatches, NEW row \in Row,
         disp' = [disp EXCEPT ![d] = row],
         rows' = rows,
         row.task = disp[d].task,
         row.status \in ActiveStatus => Active(d),
         WorkerMatches(row),
         \A t \in Tasks \ {disp[d].task} : task'[t] = task[t],
         row.task \in Tasks =>
           \/ row.status \in ActiveStatus /\ Agrees(row, task'[row.task])
           \/ row.status \notin ActiveStatus /\ Active(d) /\ task'[row.task] # "dispatched"
           \/ row.status \notin ActiveStatus /\ ~Active(d) /\ task'[row.task] = task[row.task]
  PROVE  IInv'
<1>1. /\ disp \in [Dispatches -> Row]
      /\ disp'[d] = row
      /\ \A e \in Dispatches \ {d} : disp'[e] = disp[e]
  BY DEF IInv, TypeOK
<1>2. \A e \in Dispatches : disp'[e].task = disp[e].task
  BY <1>1
<1>3. \A e \in Dispatches : Active(e)' => Active(e)
  BY <1>1 DEF Active
<1>4. \A t : ActiveOn(t)' \subseteq ActiveOn(t)
  BY <1>2, <1>3 DEF ActiveOn
<1>5. RowsInOrder'
  BY <1>2 DEF IInv, RowsInOrder
<1>6. OneActiveDispatch'
  BY <1>2, <1>4 DEF IInv, OneActiveDispatch, LatestOf
<1>7. WorkerMatchesDispatch'
  BY <1>1 DEF IInv, WorkerMatchesDispatch, WorkerMatches, LiveWorker, Active
<1>8. ASSUME NEW t \in Tasks
      PROVE  /\ task'[t] = "dispatched" => ActiveOn(t)' # {}
             /\ \A e \in ActiveOn(t)' : Agrees(disp'[e], task'[t])
  <2>1. /\ task[t] = "dispatched" => ActiveOn(t) # {}
        /\ \A e \in ActiveOn(t) : Agrees(disp[e], task[t])
    BY DEF IInv, TaskMatchesDispatch, Agrees
  <2>2. CASE t # disp[d].task
    <3>1. ActiveOn(t)' = ActiveOn(t) /\ d \notin ActiveOn(t)
      BY <1>1, <2>2 DEF ActiveOn, Active
    <3>2. \A e \in ActiveOn(t) : disp'[e] = disp[e]
      BY <1>1, <3>1 DEF ActiveOn
    <3> QED
      BY <2>1, <2>2, <3>1, <3>2
  <2>3. CASE t = disp[d].task /\ row.status \in ActiveStatus
    <3>1. d \in ActiveOn(t)'
      BY <1>1, <2>3 DEF ActiveOn, Active
    <3>2. \A e \in ActiveOn(t)' : e = d
      BY <1>4, <2>3, RowFacts DEF Contested
    <3>3. Agrees(row, task'[t])
      BY <2>3
    <3> QED
      BY <1>1, <3>1, <3>2, <3>3
  <2>4. CASE t = disp[d].task /\ row.status \notin ActiveStatus /\ Active(d)
    <3>1. ActiveOn(t)' = {}
      <4>1. d \notin ActiveOn(t)'
        BY <1>1, <2>4 DEF ActiveOn, Active
      <4>2. \A e \in ActiveOn(t)' : e = d
        BY <1>4, <2>4, RowFacts DEF Contested
      <4> QED
        BY <4>1, <4>2
    <3> QED
      BY <2>4, <3>1
  <2>5. CASE t = disp[d].task /\ row.status \notin ActiveStatus /\ ~Active(d)
    <3>1. ActiveOn(t)' = ActiveOn(t) /\ d \notin ActiveOn(t)
      BY <1>1, <2>5 DEF ActiveOn, Active
    <3>2. \A e \in ActiveOn(t) : disp'[e] = disp[e]
      BY <1>1, <3>1 DEF ActiveOn
    <3> QED
      BY <2>1, <2>5, <3>1, <3>2
  <2> QED
    BY <2>2, <2>3, <2>4, <2>5
<1>9. TaskMatchesDispatch'
  BY <1>8 DEF TaskMatchesDispatch, Agrees
<1> QED
  BY <1>5, <1>6, <1>7, <1>9 DEF IInv

-----------------------------------------------------------------------------
(* What the task updates of the actions give *)

LEMMA SetTaskIs ==
  ASSUME TypeOK, NEW u, NEW s
  PROVE  /\ \A t \in Tasks \ {u} : SetTask(u, s)[t] = task[t]
         /\ u \in Tasks => SetTask(u, s)[u] = s
BY DEF TypeOK, SetTask

(* Interrupting the only active dispatch of a task blocks the task. *)
LEMMA InterruptIs ==
  ASSUME IInv, NEW d \in Dispatches, Active(d)
  PROVE  /\ \A t \in Tasks \ {disp[d].task} : Interrupt(d)[t] = task[t]
         /\ disp[d].task \in Tasks => Interrupt(d)[disp[d].task] = "blocked"
<1>1. TypeOK
  BY DEF IInv
<1>2. disp[d].task \in Tasks =>
        ~Contested(d) /\ task[disp[d].task] \in {"dispatched", "blocked"}
  BY RowFacts DEF Agrees
<1> QED
  BY <1>1, <1>2, SetTaskIs DEF Interrupt

-----------------------------------------------------------------------------
(* Starts *)

LEMMA StartSafe ==
  ASSUME IInv, TypeOK', NEW d \in Dispatches
  PROVE  /\ \A a \in Terminals : PrepareAuthority(d, a) => IInv'
         /\ MarkReady(d) => IInv'
         /\ \A stalled \in BOOLEAN : FailStart(d, stalled) => IInv'
         /\ MarkStartUnknown(d) => IInv'
<1> USE DEF ActiveStatus
<1>0. /\ TypeOK
      /\ disp \in [Dispatches -> Row]
      /\ disp' \in [Dispatches -> Row]
      /\ disp[d] \in Row
      /\ disp'[d] \in Row
  BY DEF IInv, TypeOK
<1>1. ASSUME disp[d].worker = "starting"
      PROVE  /\ Active(d)
             /\ disp[d].status = "pending"
             /\ disp[d].task \in Tasks => task[disp[d].task] = "dispatched" /\ ~Contested(d)
  BY <1>1, ConstantsOK, RowFacts, LiveIsActive
     DEF LiveWorker, LiveState, WorkerMatches, Agrees
<1>2. ASSUME NEW a \in Terminals, PrepareAuthority(d, a)
      PROVE  IInv'
  <2> DEFINE row == [disp[d] EXCEPT !.assignee = a, !.capability = "live"]
  <2>1. disp' = [disp EXCEPT ![d] = row] /\ row \in Row
    BY <1>0, <1>2 DEF PrepareAuthority
  <2>2. /\ row.task = disp[d].task /\ row.status = disp[d].status
        /\ row.worker = disp[d].worker
    BY <1>0 DEF Row
  <2> HIDE DEF row
  <2>3. WorkerMatches(row) /\ (row.task \in Tasks => Agrees(row, task[row.task]))
    BY <1>1, <1>2, <2>2, RowFacts DEF WorkerMatches, Agrees, PrepareAuthority, StartInFlight
  <2>4. Active(d) /\ task' = task /\ rows' = rows
    BY <1>1, <1>2 DEF PrepareAuthority, StartInFlight
  <2> QED
    BY <2>1, <2>2, <2>3, <2>4, RowStep DEF Active
<1>3. ASSUME MarkReady(d)
      PROVE  IInv'
  <2> DEFINE row == [disp[d] EXCEPT !.status = "dispatched", !.worker = "ready"]
  <2>1. disp' = [disp EXCEPT ![d] = row] /\ row \in Row
    BY <1>0, <1>3 DEF MarkReady
  <2>2. row.task = disp[d].task /\ row.status = "dispatched" /\ row.worker = "ready"
    BY <1>0 DEF Row
  <2> HIDE DEF row
  <2>3. Active(d) /\ task' = task /\ rows' = rows
    BY <1>1, <1>3 DEF MarkReady, StartInFlight
  <2>4. WorkerMatches(row) /\ (row.task \in Tasks => Agrees(row, task[row.task]))
    BY <1>1, <1>3, <2>2 DEF WorkerMatches, LiveState, Agrees, MarkReady, StartInFlight
  <2> QED
    BY <2>1, <2>2, <2>3, <2>4, RowStep
<1>4. ASSUME NEW stalled \in BOOLEAN, FailStart(d, stalled)
      PROVE  IInv'
  <2> DEFINE row == [disp[d] EXCEPT
                       !.status = "failed", !.worker = "failed", !.asking = FALSE,
                       !.stalled = stalled,
                       !.capability = IF stalled THEN @ ELSE Revoked(@)]
  <2>1. disp' = [disp EXCEPT ![d] = row] /\ row \in Row
    BY <1>0, <1>4 DEF FailStart
  <2>2. row.task = disp[d].task /\ row.status = "failed" /\ row.worker = "failed"
    BY <1>0 DEF Row
  <2> HIDE DEF row
  <2>3. Active(d) /\ rows' = rows
    BY <1>1, <1>4 DEF FailStart, StartInFlight
  <2>4. WorkerMatches(row)
    BY <2>2 DEF WorkerMatches, LiveState
  <2>5. /\ \A t \in Tasks \ {disp[d].task} : task'[t] = task[t]
        /\ row.task \in Tasks => task'[row.task] = "failed"
    BY <1>0, <1>1, <1>4, <2>2, SetTaskIs DEF FailStart, StartInFlight
  <2> QED
    BY <2>1, <2>2, <2>3, <2>4, <2>5, RowStep
<1>5. ASSUME MarkStartUnknown(d)
      PROVE  IInv'
  <2> DEFINE row == [disp[d] EXCEPT !.worker = "start_unknown"]
  <2>1. disp' = [disp EXCEPT ![d] = row] /\ row \in Row
    BY <1>0, <1>5 DEF MarkStartUnknown
  <2>2. /\ row.task = disp[d].task /\ row.status = disp[d].status
        /\ row.worker = "start_unknown"
    BY <1>0 DEF Row
  <2> HIDE DEF row
  <2>3. Active(d) /\ rows' = rows
    BY <1>1, <1>5 DEF MarkStartUnknown
  <2>4. WorkerMatches(row)
    BY <2>2, <2>3 DEF WorkerMatches, LiveState, Active
  <2>5. /\ \A t \in Tasks \ {disp[d].task} : task'[t] = task[t]
        /\ row.task \in Tasks => task'[row.task] = "blocked"
    BY <1>0, <1>5, <2>2, SetTaskIs DEF MarkStartUnknown
  <2> QED
    BY <2>1, <2>2, <2>3, <2>4, <2>5, RowStep DEF Active, Agrees
<1> QED
  BY <1>2, <1>3, <1>4, <1>5

-----------------------------------------------------------------------------
(* Starts reconciled with the execution host *)

LEMMA ReconcileStartSafe ==
  ASSUME IInv, TypeOK', NEW d \in Dispatches
  PROVE  /\ ReconcileStartReady(d) => IInv'
         /\ ReconcileStartUnknown(d) => IInv'
         /\ \A state \in {"failed", "stopped"}, stalled \in BOOLEAN :
              ReconcileStartSettled(d, state, stalled) => IInv'
<1> USE DEF ActiveStatus
<1>0. /\ TypeOK
      /\ disp \in [Dispatches -> Row]
      /\ disp' \in [Dispatches -> Row]
      /\ disp[d] \in Row
      /\ disp'[d] \in Row
  BY DEF IInv, TypeOK
<1>1. ASSUME ReconcileStart(d)
      PROVE  /\ Active(d)
             /\ disp[d].task \in Tasks =>
                  task[disp[d].task] \in {"dispatched", "blocked"} /\ ~Contested(d)
  BY <1>1, ConstantsOK, RowFacts, LiveIsActive
     DEF LiveWorker, LiveState, Agrees, ReconcileStart
<1>2. ASSUME ReconcileStartReady(d)
      PROVE  IInv'
  <2> DEFINE row == [disp[d] EXCEPT !.status = IF @ = "pending" THEN "dispatched" ELSE @,
                                    !.worker = "ready"]
  <2>1. disp' = [disp EXCEPT ![d] = row] /\ row \in Row
    BY <1>0, <1>2 DEF ReconcileStartReady
  <2>2. Active(d) /\ rows' = rows
    BY <1>1, <1>2 DEF ReconcileStartReady
  <2>3. row.task = disp[d].task /\ row.status = "dispatched" /\ row.worker = "ready"
    BY <1>0, <2>2 DEF Row, Active
  <2> HIDE DEF row
  <2>4. WorkerMatches(row)
    BY <2>3 DEF WorkerMatches, LiveState
  <2>5. /\ \A t \in Tasks \ {disp[d].task} : task'[t] = task[t]
        /\ row.task \in Tasks => task'[row.task] = "dispatched"
    BY <1>0, <1>1, <1>2, <2>3, SetTaskIs DEF ReconcileStartReady
  <2> QED
    BY <2>1, <2>2, <2>3, <2>4, <2>5, RowStep DEF Agrees
<1>3. ASSUME ReconcileStartUnknown(d)
      PROVE  IInv'
  <2> DEFINE row == [disp[d] EXCEPT !.worker = "start_unknown"]
  <2>1. disp' = [disp EXCEPT ![d] = row] /\ row \in Row
    BY <1>0, <1>3 DEF ReconcileStartUnknown
  <2>2. Active(d) /\ rows' = rows
    BY <1>1, <1>3 DEF ReconcileStartUnknown
  <2>3. /\ row.task = disp[d].task /\ row.status = disp[d].status
        /\ row.worker = "start_unknown"
    BY <1>0 DEF Row
  <2> HIDE DEF row
  <2>4. WorkerMatches(row)
    BY <2>2, <2>3 DEF WorkerMatches, LiveState, Active
  <2>5. /\ \A t \in Tasks \ {disp[d].task} : task'[t] = task[t]
        /\ row.task \in Tasks => task'[row.task] = "blocked"
    BY <1>0, <1>1, <1>3, <2>3, SetTaskIs DEF ReconcileStartUnknown
  <2> QED
    BY <2>1, <2>2, <2>3, <2>4, <2>5, RowStep DEF Active, Agrees
<1>4. ASSUME NEW state \in {"failed", "stopped"}, NEW stalled \in BOOLEAN,
             ReconcileStartSettled(d, state, stalled)
      PROVE  IInv'
  <2> DEFINE row == [Settle(disp[d], "failed") EXCEPT
                       !.worker = state, !.stalled = stalled, !.asking = FALSE]
  <2>1. Active(d) /\ rows' = rows
    BY <1>1, <1>4 DEF ReconcileStartSettled
  <2>2. disp' = [disp EXCEPT ![d] = row] /\ row \in Row
    BY <1>0, <1>4, <2>1 DEF ReconcileStartSettled
  <2>3. row.task = disp[d].task /\ row.status = "failed" /\ row.worker = state
    BY <1>0 DEF Row, Settle
  <2> HIDE DEF row
  <2>4. WorkerMatches(row)
    BY <2>3 DEF WorkerMatches, LiveState
  <2>5. /\ \A t \in Tasks \ {disp[d].task} : task'[t] = task[t]
        /\ row.task \in Tasks => task'[row.task] = "failed"
    BY <1>0, <1>1, <1>4, <2>1, <2>3, SetTaskIs, InterruptIs DEF ReconcileStartSettled
  <2> QED
    BY <2>1, <2>2, <2>3, <2>4, <2>5, RowStep
<1> QED
  BY <1>2, <1>3, <1>4

-----------------------------------------------------------------------------
(* Failures *)

LEMMA FailSafe ==
  ASSUME IInv, TypeOK', NEW d \in Dispatches,
         NEW worker \in {None, "failed", disp[d].worker},
         worker \notin LiveState, worker # "succeeded", Fail(d, worker)
  PROVE  IInv'
<1>0. /\ TypeOK
      /\ disp \in [Dispatches -> Row]
      /\ disp' \in [Dispatches -> Row]
      /\ disp[d] \in Row
      /\ disp'[d] \in Row
  BY DEF IInv, TypeOK
<1> DEFINE row == [Settle(disp[d], FailureStatus(d)) EXCEPT
                     !.failures = @ + 1, !.worker = worker]
<1>1. disp' = [disp EXCEPT ![d] = row] /\ row \in Row
  BY <1>0 DEF Fail
<1>2. /\ row.task = disp[d].task /\ row.status = FailureStatus(d)
      /\ row.worker = worker
  BY <1>0 DEF Row, Settle
<1> HIDE DEF row
<1>3. Active(d) /\ rows' = rows
  BY DEF Fail
<1>4. row.status \notin ActiveStatus
  BY <1>2, StatusTypes DEF ActiveStatus
<1>5. WorkerMatches(row)
  BY <1>2, <1>4 DEF WorkerMatches, LiveState
<1>6. /\ \A t \in Tasks \ {disp[d].task} : task'[t] = task[t]
      /\ row.task \in Tasks => task'[row.task] # "dispatched"
  <2>1. RetryStatus(d) # "dispatched"
    BY DEF RetryStatus
  <2> QED
    BY <1>0, <1>2, <1>3, <2>1, RowFacts, SetTaskIs DEF Fail, Agrees
<1> QED
  BY <1>1, <1>2, <1>3, <1>4, <1>5, <1>6, RowStep

(* A proven stop settles the worker and blocks the task. *)
LEMMA StoppedSafe ==
  ASSUME IInv, TypeOK', NEW d \in Dispatches,
         disp[d].worker \in {"stopping", "stop_unknown"},
         disp' = [disp EXCEPT ![d] = StoppedRow(d)],
         task' = Interrupt(d),
         rows' = rows
  PROVE  IInv'
<1>1. disp \in [Dispatches -> Row] /\ disp' \in [Dispatches -> Row] /\ disp[d] \in Row
  BY DEF IInv, TypeOK
<1>2. Active(d)
  BY LiveIsActive DEF LiveWorker, LiveState
<1> DEFINE row == StoppedRow(d)
<1>3. row \in Row
  BY <1>1
<1>4. row.task = disp[d].task /\ row.status = "failed" /\ row.worker = "stopped"
  BY <1>1, <1>2 DEF Row, StoppedRow
<1> HIDE DEF row
<1>5. WorkerMatches(row) /\ row.status \notin ActiveStatus
  BY <1>4 DEF WorkerMatches, LiveState, ActiveStatus
<1>6. /\ \A t \in Tasks \ {disp[d].task} : task'[t] = task[t]
      /\ row.task \in Tasks => task'[row.task] = "blocked"
  BY <1>2, <1>4, InterruptIs
<1>7. disp' = [disp EXCEPT ![d] = row]
  BY DEF row
<1> QED
  BY <1>2, <1>3, <1>4, <1>5, <1>6, <1>7, RowStep

LEMMA FailureSafe ==
  ASSUME IInv, TypeOK', NEW d \in Dispatches
  PROVE  /\ FailDispatch(d) => IInv'
         /\ WorkerExit(d) => IInv'
         /\ ReconcileMissing(d) => IInv'
         /\ ReleaseContextOnly(d) => IInv'
<1>0. /\ TypeOK
      /\ disp \in [Dispatches -> Row]
      /\ disp' \in [Dispatches -> Row]
      /\ disp[d] \in Row
      /\ disp'[d] \in Row
  BY DEF IInv, TypeOK
<1>1. ASSUME FailDispatch(d)
      PROVE  IInv'
  <2>1. Active(d) /\ ~LiveWorker(d)
    BY <1>1 DEF FailDispatch, Fail
  <2>2. disp[d].worker = None
    BY <2>1, RowFacts DEF WorkerMatches, LiveWorker, Active
  <2> QED
    BY <1>1, <2>1, <2>2, ConstantsOK, FailSafe DEF FailDispatch, LiveWorker, SettledState
<1>2. ASSUME WorkerExit(d)
      PROVE  IInv'
  <2>1. CASE StopInFlight(d)
    BY <1>2, <2>1, StoppedSafe DEF WorkerExit, StopSettled
  <2>2. CASE ~StopInFlight(d)
    <3> DEFINE w == IF disp[d].worker = None THEN None ELSE "failed"
    <3>1. Fail(d, w)
      BY <1>2, <2>2 DEF WorkerExit
    <3>2. w \in {None, "failed", disp[d].worker} /\ w \notin LiveState /\ w # "succeeded"
      BY ConstantsOK DEF LiveState, SettledState
    <3> HIDE DEF w
    <3> QED
      BY <3>1, <3>2, FailSafe
  <2> QED
    BY <2>1, <2>2
<1>3. ASSUME ReconcileMissing(d)
      PROVE  IInv'
  <2> DEFINE stopPending == disp[d].worker \in {"stopping", "stop_unknown"}
             row == [Settle(disp[d], FailureStatus(d)) EXCEPT
                       !.failures = @ + 1,
                       !.worker = IF stopPending THEN "stopped" ELSE "abandoned"]
  <2>1. disp' = [disp EXCEPT ![d] = row] /\ row \in Row
    BY <1>0, <1>3 DEF ReconcileMissing
  <2>2. /\ row.task = disp[d].task /\ row.status = FailureStatus(d)
        /\ row.worker \in {"stopped", "abandoned"}
    BY <1>0 DEF Row, Settle
  <2> HIDE DEF row
  <2>3. Active(d) /\ rows' = rows
    BY <1>3 DEF ReconcileMissing
  <2>4. row.status \notin ActiveStatus
    BY <2>2, StatusTypes DEF ActiveStatus
  <2>5. WorkerMatches(row)
    BY <2>2, <2>4 DEF WorkerMatches, LiveState
  <2>6. RetryStatus(d) # "dispatched"
    BY DEF RetryStatus
  <2>7. CASE stopPending
    <3>1. task' = task
      BY <1>3, <2>7 DEF ReconcileMissing
    <3>2. row.task \in Tasks => task[row.task] # "dispatched"
      BY <2>2, <2>3, <2>7, ConstantsOK, RowFacts DEF Agrees, LiveState
    <3> QED
      BY <2>1, <2>2, <2>3, <2>4, <2>5, <3>1, <3>2, RowStep
  <2>8. CASE ~stopPending
    <3>1. task' = IF /\ ~Contested(d)
                     /\ task[disp[d].task] \in {"dispatched", "blocked"}
                  THEN SetTask(disp[d].task, RetryStatus(d)) ELSE Interrupt(d)
      BY <1>3, <2>8 DEF ReconcileMissing
    <3>2. /\ \A t \in Tasks \ {disp[d].task} : task'[t] = task[t]
          /\ row.task \in Tasks => task'[row.task] # "dispatched"
      BY <1>0, <2>2, <2>3, <2>6, <3>1, SetTaskIs, InterruptIs
    <3> QED
      BY <2>1, <2>2, <2>3, <2>4, <2>5, <3>2, RowStep
  <2> QED
    BY <2>7, <2>8
<1>4. ASSUME ReleaseContextOnly(d)
      PROVE  IInv'
  <2> DEFINE row == Settle(disp[d], "failed")
  <2>1. disp' = [disp EXCEPT ![d] = row] /\ row \in Row
    BY <1>0, <1>4 DEF ReleaseContextOnly
  <2>2. row.task = disp[d].task /\ row.status = "failed" /\ row.worker = disp[d].worker
    BY <1>0 DEF Row, Settle
  <2> HIDE DEF row
  <2>3. Active(d) /\ disp[d].worker = None /\ rows' = rows
    BY <1>4 DEF ReleaseContextOnly
  <2>4. WorkerMatches(row) /\ row.status \notin ActiveStatus
    BY <2>2, <2>3 DEF WorkerMatches, ActiveStatus
  <2>5. /\ \A t \in Tasks \ {disp[d].task} : task'[t] = task[t]
        /\ row.task \in Tasks => task'[row.task] = "blocked"
    BY <1>0, <1>4, <2>2, <2>3, ConstantsOK, RowFacts, SetTaskIs
       DEF ReleaseContextOnly, Agrees, LiveState
  <2> QED
    BY <2>1, <2>2, <2>3, <2>4, <2>5, RowStep
<1> QED
  BY <1>1, <1>2, <1>3, <1>4

-----------------------------------------------------------------------------
(* Stops and questions *)

LEMMA StopSafe ==
  ASSUME IInv, TypeOK', NEW d \in Dispatches
  PROVE  /\ BeginStop(d) => IInv'
         /\ SettleStop(d) => IInv'
         /\ MarkStopUnknown(d) => IInv'
         /\ ReconcileStop(d) => IInv'
         /\ ResumeForReport(d) => IInv'
         /\ Abandon(d) => IInv'
<1>0. /\ TypeOK
      /\ disp \in [Dispatches -> Row]
      /\ disp' \in [Dispatches -> Row]
      /\ disp[d] \in Row
      /\ disp'[d] \in Row
  BY DEF IInv, TypeOK
<1>1. ASSUME LiveWorker(d)
      PROVE  /\ Active(d)
             /\ disp[d].task \in Tasks =>
                  task[disp[d].task] \in {"dispatched", "blocked"} /\ ~Contested(d)
  BY <1>1, RowFacts, LiveIsActive DEF Agrees
<1>2. ASSUME BeginStop(d)
      PROVE  IInv'
  <2> DEFINE row == [disp[d] EXCEPT !.worker = "stopping", !.epoch = epoch,
                                    !.capability = Revoked(@), !.asking = FALSE]
  <2>1. disp' = [disp EXCEPT ![d] = row] /\ row \in Row
    BY <1>0, <1>2 DEF BeginStop
  <2>2. Active(d) /\ rows' = rows
    BY <1>1, <1>2 DEF BeginStop, LiveWorker, LiveState
  <2>3. /\ row.task = disp[d].task /\ row.status = disp[d].status
        /\ row.worker = "stopping"
    BY <1>0 DEF Row
  <2> HIDE DEF row
  <2>4. WorkerMatches(row)
    BY <2>2, <2>3 DEF WorkerMatches, LiveState, Active
  <2>5. /\ \A t \in Tasks \ {disp[d].task} : task'[t] = task[t]
        /\ row.task \in Tasks => task'[row.task] = "blocked"
    BY <1>2, <2>2, <2>3, InterruptIs DEF BeginStop
  <2> QED
    BY <2>1, <2>2, <2>3, <2>4, <2>5, RowStep DEF Active, Agrees
<1>3. ASSUME SettleStop(d)
      PROVE  IInv'
  BY <1>3, StoppedSafe DEF SettleStop, StopSettled
<1>4. ASSUME MarkStopUnknown(d)
      PROVE  IInv'
  <2> DEFINE row == [disp[d] EXCEPT !.worker = "stop_unknown"]
  <2>1. disp' = [disp EXCEPT ![d] = row] /\ row \in Row
    BY <1>0, <1>4 DEF MarkStopUnknown
  <2>2. Active(d) /\ rows' = rows /\ task' = task /\ disp[d].worker = "stopping"
    BY <1>1, <1>4 DEF MarkStopUnknown, LiveWorker, LiveState
  <2>3. /\ row.task = disp[d].task /\ row.status = disp[d].status
        /\ row.worker = "stop_unknown"
    BY <1>0 DEF Row
  <2> HIDE DEF row
  <2>4. WorkerMatches(row)
    BY <2>2, <2>3 DEF WorkerMatches, LiveState, Active
  <2>5. row.task \in Tasks => Agrees(row, task[row.task])
    BY <2>2, <2>3, ConstantsOK, RowFacts DEF Agrees, LiveState
  <2> QED
    BY <2>1, <2>2, <2>3, <2>4, <2>5, RowStep DEF Active
<1>5. ASSUME ReconcileStop(d)
      PROVE  IInv'
  BY <1>5, StoppedSafe DEF ReconcileStop
<1>6. ASSUME ResumeForReport(d)
      PROVE  IInv'
  <2> DEFINE row == [disp[d] EXCEPT !.worker = "ready"]
  <2>1. disp' = [disp EXCEPT ![d] = row] /\ row \in Row
    BY <1>0, <1>6 DEF ResumeForReport
  <2>2. LiveWorker(d) /\ Active(d) /\ rows' = rows
    BY <1>1, <1>6 DEF ResumeForReport, StopInFlight, LiveWorker, LiveState
  <2>3. /\ row.task = disp[d].task /\ row.status = disp[d].status
        /\ row.worker = "ready"
    BY <1>0 DEF Row
  <2> HIDE DEF row
  <2>4. WorkerMatches(row)
    BY <2>2, <2>3 DEF WorkerMatches, LiveState, Active
  <2>5. /\ \A t \in Tasks \ {disp[d].task} : task'[t] = task[t]
        /\ row.task \in Tasks => task'[row.task] = "dispatched"
    BY <1>0, <1>1, <1>6, <2>2, <2>3, SetTaskIs DEF ResumeForReport
  <2> QED
    BY <2>1, <2>2, <2>3, <2>4, <2>5, RowStep DEF Active, Agrees
<1>7. ASSUME Abandon(d)
      PROVE  IInv'
  <2> DEFINE row == [Settle(disp[d], "failed") EXCEPT !.worker = "abandoned", !.asking = FALSE]
  <2>1. Active(d) /\ rows' = rows
    BY <1>1, <1>7 DEF Abandon, LiveWorker
  <2>2. disp' = [disp EXCEPT ![d] = row] /\ row \in Row
    BY <1>0, <1>7, <2>1 DEF Abandon
  <2>3. row.task = disp[d].task /\ row.status = "failed" /\ row.worker = "abandoned"
    BY <1>0 DEF Row, Settle
  <2> HIDE DEF row
  <2>4. WorkerMatches(row) /\ row.status \notin ActiveStatus
    BY <2>3 DEF WorkerMatches, LiveState, ActiveStatus
  <2>5. /\ \A t \in Tasks \ {disp[d].task} : task'[t] = task[t]
        /\ row.task \in Tasks => task'[row.task] = "blocked"
    BY <1>7, <2>1, <2>3, InterruptIs DEF Abandon
  <2> QED
    BY <2>1, <2>2, <2>3, <2>4, <2>5, RowStep
<1> QED
  BY <1>2, <1>3, <1>4, <1>5, <1>6, <1>7

LEMMA QuestionSafe ==
  ASSUME IInv, TypeOK', NEW d \in Dispatches, Ask(d) \/ ImportQuestion(d) \/ Answer(d)
  PROVE  IInv'
<1>1. disp \in [Dispatches -> Row] /\ disp[d] \in Row
  BY DEF IInv, TypeOK
<1>2. PICK b \in BOOLEAN : disp' = [disp EXCEPT ![d] = [disp[d] EXCEPT !.asking = b]]
  BY DEF Ask, ImportQuestion, Answer
<1> DEFINE row == [disp[d] EXCEPT !.asking = b]
<1>3. row \in Row
  BY <1>1 DEF Row
<1>4. /\ row.task = disp[d].task /\ row.status = disp[d].status
      /\ row.worker = disp[d].worker
  BY <1>1 DEF Row
<1>5. disp' = [disp EXCEPT ![d] = row]
  BY <1>2
<1> HIDE DEF row
<1>6. task' = task /\ rows' = rows
  BY DEF Ask, ImportQuestion, Answer
<1>7. WorkerMatches(row) /\ (Active(d) /\ row.task \in Tasks => Agrees(row, task[row.task]))
  BY <1>4, RowFacts DEF WorkerMatches, Agrees
<1> QED
  BY <1>3, <1>4, <1>5, <1>6, <1>7, RowStep DEF Active

-----------------------------------------------------------------------------
(* Handing out *)

(* Inserting an active row for a task without an active dispatch. *)
LEMMA InsertSafe ==
  ASSUME IInv, TypeOK', NEW t \in Tasks, ActiveOn(t) = {},
         NEW row \in Row, Insert(row),
         row.task = t, row.status \in ActiveStatus, WorkerMatches(row),
         row.worker \in {None, "starting"}
  PROVE  IInv'
<1> DEFINE n == rows + 1
<1>1. /\ TypeOK /\ disp \in [Dispatches -> Row] /\ n \in Dispatches /\ rows \in Nat
      /\ \A d \in Dispatches : d \in Nat
  BY ConstantsOK DEF Insert, IInv, TypeOK, Dispatches
<1>2. disp[n].task = None
  BY <1>1 DEF IInv, RowsInOrder, Dispatches
<1>3. /\ disp'[n] = row
      /\ \A d \in Dispatches \ {n} : disp'[d] = disp[d]
      /\ rows' = n
  BY <1>1 DEF Insert
<1>4. t # None /\ None \notin Tasks
  BY ConstantsOK
<1>5. /\ \A u \in Tasks \ {t} : task'[u] = task[u]
      /\ task'[t] = "dispatched"
  BY <1>1, SetTaskIs DEF Insert
<1> HIDE DEF n
<1>6. \A d \in Dispatches : disp[d].task # None => d <= n
  BY <1>1 DEF IInv, RowsInOrder, n
<1>7. RowsInOrder'
  BY <1>1, <1>3, <1>6 DEF RowsInOrder
<1>8. ActiveOn(t)' = {n}
  BY <1>1, <1>3 DEF ActiveOn, Active
<1>9. \A u \in Tasks \ {t} : ActiveOn(u)' = ActiveOn(u) /\ n \notin ActiveOn(u)
  BY <1>1, <1>2, <1>3, <1>4 DEF ActiveOn, Active
<1>10. ASSUME NEW u \in Tasks, NEW d \in ActiveOn(u)'
       PROVE  LatestOf(u, d)'
  <2>1. CASE u = t
    <3>1. d = n
      BY <1>8, <1>10, <2>1
    <3>2. \A e \in Dispatches : disp'[e].task = t => e <= n
      BY <1>1, <1>3, <1>4, <1>6
    <3> QED
      BY <1>3, <2>1, <3>1, <3>2 DEF LatestOf
  <2>2. CASE u # t
    <3>1. d \in ActiveOn(u) /\ d # n
      BY <1>9, <1>10, <2>2
    <3>2. LatestOf(u, d)
      BY <3>1 DEF IInv, OneActiveDispatch
    <3> QED
      BY <1>3, <2>2, <3>1, <3>2 DEF LatestOf, ActiveOn
  <2> QED
    BY <2>1, <2>2
<1>11. OneActiveDispatch'
  BY <1>10 DEF OneActiveDispatch
<1>12. WorkerMatchesDispatch'
  BY <1>1, <1>3 DEF IInv, WorkerMatchesDispatch, WorkerMatches, LiveWorker, Active
<1>13. ASSUME NEW u \in Tasks
       PROVE  /\ task'[u] = "dispatched" => ActiveOn(u)' # {}
              /\ \A d \in ActiveOn(u)' : Agrees(disp'[d], task'[u])
  <2>1. CASE u = t
    BY <1>3, <1>5, <1>8, <2>1 DEF Agrees
  <2>2. CASE u # t
    <3>1. /\ task[u] = "dispatched" => ActiveOn(u) # {}
          /\ \A d \in ActiveOn(u) : Agrees(disp[d], task[u])
      BY DEF IInv, TaskMatchesDispatch, Agrees
    <3>2. \A d \in ActiveOn(u) : disp'[d] = disp[d]
      BY <1>3, <1>9, <2>2 DEF ActiveOn
    <3> QED
      BY <1>5, <1>9, <2>2, <3>1, <3>2
  <2> QED
    BY <2>1, <2>2
<1>14. TaskMatchesDispatch'
  BY <1>13 DEF TaskMatchesDispatch, Agrees
<1> QED
  BY <1>7, <1>11, <1>12, <1>14 DEF IInv

LEMMA HandOutSafe ==
  ASSUME IInv, TypeOK'
  PROVE  /\ \A t \in Tasks, a \in Terminals, c \in {None, "live"} :
              CreateDispatchContext(t, a, c) => IInv'
         /\ \A t \in Tasks, fed \in BOOLEAN : StartWorker(t, fed) => IInv'
         /\ \A d \in Dispatches, fed \in BOOLEAN : RetryWorker(d, fed) => IInv'
<1>1. \A t \in Tasks : task[t] = "ready" => ActiveOn(t) = {}
  BY DEF IInv, TaskMatchesDispatch
<1>2. ASSUME NEW t \in Tasks, NEW a \in Terminals, NEW c \in {None, "live"},
             CreateDispatchContext(t, a, c)
      PROVE  IInv'
  <2>1. PICK n \in 0 .. MaxDispatches :
          Insert([NoRow EXCEPT !.task = t, !.status = "dispatched", !.failures = n,
                               !.capability = c, !.assignee = a, !.epoch = epoch])
    BY <1>2 DEF CreateDispatchContext
  <2> DEFINE row == [NoRow EXCEPT !.task = t, !.status = "dispatched", !.failures = n,
                                  !.capability = c, !.assignee = a, !.epoch = epoch]
  <2>2. row \in Row
    <3>1. n \in Nat
      BY ConstantsOK
    <3>2. epoch \in 0 .. MaxEpoch
      BY DEF IInv, TypeOK
    <3> QED
      BY <3>1, <3>2, NoRowType DEF Row, DispatchStatus, ActiveStatus
  <2>3. row.task = t /\ row.status = "dispatched" /\ row.worker = None
    BY DEF NoRow
  <2>4. WorkerMatches(row)
    BY <2>3 DEF WorkerMatches
  <2>5. Insert(row) /\ ActiveOn(t) = {}
    BY <1>1, <1>2, <2>1 DEF CreateDispatchContext
  <2> HIDE DEF row
  <2> QED
    BY <2>2, <2>3, <2>4, <2>5, InsertSafe DEF ActiveStatus
<1>3. ASSUME NEW t \in Tasks, NEW fed \in BOOLEAN, ActiveOn(t) = {}, Insert(StartingRow(t, fed))
      PROVE  IInv'
  <2> DEFINE row == StartingRow(t, fed)
  <2>1. row \in Row
    <3>1. epoch \in 0 .. MaxEpoch
      BY DEF IInv, TypeOK
    <3> QED
      BY <3>1, NoRowType DEF StartingRow, Row, DispatchStatus, ActiveStatus, LiveState
  <2>2. row.task = t /\ row.status = "pending" /\ row.worker = "starting"
    BY DEF NoRow, StartingRow
  <2>3. Insert(row)
    BY <1>3
  <2> HIDE DEF row
  <2>4. WorkerMatches(row)
    BY <2>2 DEF WorkerMatches, LiveState, ActiveStatus
  <2> QED
    BY <1>3, <2>1, <2>2, <2>3, <2>4, InsertSafe DEF ActiveStatus
<1>4. ASSUME NEW t \in Tasks, NEW fed \in BOOLEAN, StartWorker(t, fed)
      PROVE  IInv'
  BY <1>1, <1>3, <1>4 DEF StartWorker
<1>5. ASSUME NEW d \in Dispatches, NEW fed \in BOOLEAN, RetryWorker(d, fed)
      PROVE  IInv'
  <2>1. PICK t \in Tasks : LatestOf(t, d) /\ Insert(StartingRow(t, fed))
    BY <1>5 DEF RetryWorker
  <2>2. ~Active(d)
    BY <1>5, ConstantsOK, RowFacts
       DEF RetryWorker, WorkerMatches, LiveState, SettledState, Active, ActiveStatus
  <2>3. ASSUME NEW e \in ActiveOn(t)
        PROVE  FALSE
    <3>1. e <= d /\ d <= e
      BY <2>1, <2>3 DEF IInv, OneActiveDispatch, LatestOf, ActiveOn
    <3> QED
      BY <2>2, <2>3, <3>1 DEF ActiveOn, Dispatches
  <2> QED
    BY <1>3, <2>1, <2>3
<1> QED
  BY <1>2, <1>4, <1>5

-----------------------------------------------------------------------------
(* Steps that settle every active dispatch of a task, and task updates *)

(* t: all its dispatches settle.  The other tasks may be promoted. *)
LEMMA SettleStep ==
  ASSUME IInv, TypeOK', NEW t \in Tasks,
         rows' = rows,
         task'[t] # "dispatched",
         \A u \in Tasks \ {t} :
           task'[u] = task[u] \/ (task[u] = "pending" /\ task'[u] = "ready"),
         \A e \in Dispatches :
           /\ disp'[e].task = disp[e].task
           /\ disp[e].task # t => disp'[e] = disp[e]
           /\ disp[e].task = t => disp'[e].status \notin ActiveStatus
           /\ WorkerMatches(disp'[e])
  PROVE  IInv'
<1>1. RowsInOrder'
  BY DEF IInv, RowsInOrder
<1>2. ActiveOn(t)' = {}
  BY DEF ActiveOn, Active
<1>3. \A u \in Tasks \ {t} :
        /\ ActiveOn(u)' = ActiveOn(u)
        /\ \A d \in ActiveOn(u) : disp'[d] = disp[d]
  BY DEF ActiveOn, Active
<1>4. OneActiveDispatch'
  <2>1. \A u \in Tasks : ActiveOn(u)' \subseteq ActiveOn(u)
    BY <1>2, <1>3
  <2>2. ASSUME NEW u \in Tasks, NEW d \in ActiveOn(u)'
        PROVE  LatestOf(u, d)'
    <3>1. LatestOf(u, d)
      BY <2>1, <2>2 DEF IInv, OneActiveDispatch
    <3>2. d \in Dispatches
      BY <2>2 DEF ActiveOn
    <3> QED
      BY <3>1, <3>2 DEF LatestOf
  <2> QED
    BY <2>2 DEF OneActiveDispatch
<1>5. WorkerMatchesDispatch'
  BY DEF WorkerMatchesDispatch, WorkerMatches, LiveWorker, Active
<1>6. ASSUME NEW u \in Tasks
      PROVE  /\ task'[u] = "dispatched" => ActiveOn(u)' # {}
             /\ \A d \in ActiveOn(u)' : Agrees(disp'[d], task'[u])
  <2>1. /\ task[u] = "dispatched" => ActiveOn(u) # {}
        /\ \A d \in ActiveOn(u) : Agrees(disp[d], task[u])
    BY DEF IInv, TaskMatchesDispatch, Agrees
  <2>2. CASE u = t
    BY <1>2, <2>2
  <2>3. CASE u # t /\ task'[u] = task[u]
    BY <1>3, <2>1, <2>3
  <2>4. CASE u # t /\ task[u] = "pending" /\ task'[u] = "ready"
    BY <1>3, <2>1, <2>4 DEF Agrees
  <2> QED
    BY <2>2, <2>3, <2>4
<1>7. TaskMatchesDispatch'
  BY <1>6 DEF TaskMatchesDispatch, Agrees
<1> QED
  BY <1>1, <1>4, <1>5, <1>7 DEF IInv

(* Only the status of tasks without an active dispatch changes. *)
LEMMA TaskStep ==
  ASSUME IInv, TypeOK', UNCHANGED <<disp, rows>>,
         \A u \in Tasks :
           task'[u] = task[u] \/ (ActiveOn(u) = {} /\ task'[u] # "dispatched")
  PROVE  IInv'
<1>1. \A u : ActiveOn(u)' = ActiveOn(u)
  BY DEF ActiveOn, Active
<1>2. RowsInOrder' /\ OneActiveDispatch' /\ WorkerMatchesDispatch'
  BY <1>1 DEF IInv, RowsInOrder, OneActiveDispatch, LatestOf, WorkerMatchesDispatch,
              LiveWorker, Active
<1>3. TaskMatchesDispatch'
  BY <1>1 DEF IInv, TaskMatchesDispatch
<1> QED
  BY <1>2, <1>3 DEF IInv

LEMMA FinishIs ==
  ASSUME TypeOK, NEW t, NEW s
  PROVE  /\ t \in Tasks => Finish(t, s)[t] = s
         /\ \A u \in Tasks \ {t} :
              \/ Finish(t, s)[u] = task[u]
              \/ task[u] = "pending" /\ Finish(t, s)[u] = "ready"
BY SetTaskIs DEF Finish, Promote

LEMMA ReportSafe ==
  ASSUME IInv, TypeOK', NEW d \in Dispatches, NEW outcome \in {"succeeded", "failed"},
         WorkerReport(d, outcome)
  PROVE  IInv'
<1> DEFINE t == disp[d].task
           s == IF outcome = "succeeded" THEN "completed" ELSE "failed"
           row == [Settle(disp[d], s) EXCEPT
                     !.stalled = @ /\ outcome = "succeeded",
                     !.worker = IF @ = None THEN None ELSE outcome]
<1>0. TypeOK /\ disp \in [Dispatches -> Row] /\ disp[d] \in Row
  BY DEF IInv, TypeOK
<1>1. t \in Tasks
  BY <1>0 DEF WorkerReport, Row
<1>2. /\ disp' = [SettleActive(t, s) EXCEPT ![d] = row]
      /\ task' = Finish(t, s)
      /\ rows' = rows
      /\ \A e \in ActiveOn(t) \ {d} : ~LiveWorker(e)
  BY DEF WorkerReport
<1>3. s \in {"completed", "failed"} /\ (outcome = "succeeded" => s = "completed")
  OBVIOUS
<1>4. row.task = t /\ row.status = s /\ row.worker \in {None, outcome}
  BY <1>0 DEF Row, Settle
<1>5. /\ disp'[d] = row
      /\ \A e \in Dispatches \ {d} : disp'[e] =
           IF e \in ActiveOn(t) THEN Settle(disp[e], s) ELSE disp[e]
  BY <1>2 DEF SettleActive
<1> HIDE DEF t, s, row
<1>6. WorkerMatches(row)
  BY <1>3, <1>4 DEF WorkerMatches, LiveState, ActiveStatus
<1>7. ASSUME NEW e \in Dispatches \ {d}
      PROVE  /\ disp'[e].task = disp[e].task
             /\ disp[e].task # t => disp'[e] = disp[e]
             /\ disp[e].task = t => disp'[e].status \notin ActiveStatus
             /\ WorkerMatches(disp'[e])
  <2>1. CASE e \in ActiveOn(t)
    <3>1. disp[e] \in Row /\ disp[e].task = t
      BY <1>0, <2>1 DEF ActiveOn
    <3>2. /\ disp'[e].task = t
          /\ disp'[e].status = s
          /\ disp'[e].worker = disp[e].worker
      BY <1>5, <2>1, <3>1 DEF Settle, Row
    <3>3. disp[e].worker = None
      BY <1>2, <2>1, RowFacts DEF WorkerMatches, LiveWorker, ActiveOn, Active
    <3> QED
      BY <1>3, <3>1, <3>2, <3>3 DEF WorkerMatches, ActiveStatus
  <2>2. CASE e \notin ActiveOn(t)
    BY <1>5, <2>2, RowFacts DEF ActiveOn, Active
  <2> QED
    BY <2>1, <2>2
<1>8. disp[d].task = t
  BY DEF t
<1>9. /\ task'[t] = s
      /\ \A u \in Tasks \ {t} :
           task'[u] = task[u] \/ (task[u] = "pending" /\ task'[u] = "ready")
  BY <1>0, <1>1, <1>2, FinishIs
<1>10. \A e \in Dispatches :
         /\ disp'[e].task = disp[e].task
         /\ disp[e].task # t => disp'[e] = disp[e]
         /\ disp[e].task = t => disp'[e].status \notin ActiveStatus
         /\ WorkerMatches(disp'[e])
  BY <1>3, <1>4, <1>5, <1>6, <1>7, <1>8 DEF ActiveStatus
<1> QED
  BY <1>1, <1>2, <1>3, <1>9, <1>10, SettleStep

(* Settling the active dispatches of an unsupervised task. *)
LEMMA SettleActiveIs ==
  ASSUME IInv, NEW t \in Tasks, NEW s \in {"completed", "failed"}, ~Supervised(t),
         disp' = SettleActive(t, s), NEW e \in Dispatches
  PROVE  /\ disp'[e].task = disp[e].task
         /\ disp[e].task # t => disp'[e] = disp[e]
         /\ disp[e].task = t => disp'[e].status \notin ActiveStatus
         /\ WorkerMatches(disp'[e])
<1>1. disp[e] \in Row
  BY DEF IInv, TypeOK
<1>2. CASE e \in ActiveOn(t)
  <2>1. /\ disp'[e].task = disp[e].task
        /\ disp[e].task = t
        /\ disp'[e].status = s
        /\ disp'[e].worker = disp[e].worker
    BY <1>1, <1>2 DEF SettleActive, ActiveOn, Settle, Row
  <2>2. disp[e].worker = None
    BY <1>2, RowFacts DEF Supervised, WorkerMatches, LiveWorker, ActiveOn, Active
  <2> QED
    BY <2>1, <2>2 DEF WorkerMatches, ActiveStatus
<1>3. CASE e \notin ActiveOn(t)
  BY <1>3, RowFacts DEF SettleActive, ActiveOn, Active
<1> QED
  BY <1>2, <1>3

LEMMA TaskActionsSafe ==
  ASSUME IInv, TypeOK', NEW t \in Tasks
  PROVE  /\ CreateTask(t) => IInv'
         /\ \A s \in OperatorStatuses : TaskUpdate(t, s) => IInv'
         /\ \A g \in Gates : CreateGate(t, g) => IInv'
<1>0. TypeOK /\ \A u \in Tasks : task[u] \in {"absent", "pending"} => ActiveOn(u) = {}
  BY DEF IInv, TaskMatchesDispatch
<1>1. ASSUME CreateTask(t)
      PROVE  IInv'
  <2>1. /\ \A u \in Tasks \ {t} : task'[u] = task[u]
        /\ ActiveOn(t) = {}
        /\ task'[t] # "dispatched"
    BY <1>0, <1>1, SetTaskIs DEF CreateTask
  <2> QED
    BY <1>1, <2>1, TaskStep DEF CreateTask
<1>2. ASSUME NEW s \in OperatorStatuses, TaskUpdate(t, s)
      PROVE  IInv'
  <2>1. /\ task'[t] = s
        /\ \A u \in Tasks \ {t} :
             task'[u] = task[u] \/ (task[u] = "pending" /\ task'[u] = "ready")
    BY <1>0, <1>2, FinishIs DEF TaskUpdate, UpdateTaskStatus
  <2>2. MayUpdate(t, s) /\ rows' = rows
    BY <1>2 DEF TaskUpdate, UpdateTaskStatus
  <2>3. CASE s \in {"completed", "failed"}
    <3>1. ~Supervised(t) /\ disp' = SettleActive(t, s)
      BY <1>2, <2>2, <2>3 DEF TaskUpdate, UpdateTaskStatus, MayUpdate
    <3> QED
      BY <2>1, <2>2, <2>3, <3>1, SettleActiveIs, SettleStep
  <2>4. CASE s \notin {"completed", "failed"}
    <3>1. disp' = disp
      BY <1>2, <2>4 DEF TaskUpdate, UpdateTaskStatus
    <3>2. s = "dispatched" => task[t] = "dispatched"
      <4> SUFFICES ASSUME s = "dispatched", task[t] # "dispatched"
                   PROVE  FALSE
        OBVIOUS
      <4>1. ActiveOn(t) # {} /\ ~Supervised(t)
        BY <2>2 DEF MayUpdate
      <4>2. PICK d \in ActiveOn(t) : disp[d].worker \in {"start_unknown", "stopping", "stop_unknown"}
        BY <4>1 DEF IInv, TaskMatchesDispatch
      <4> QED
        BY <4>1, <4>2 DEF Supervised, LiveWorker, LiveState
    <3>3. ActiveOn(t) = {} \/ s = "dispatched"
      BY <2>2, <2>4 DEF MayUpdate
    <3> QED
      BY <1>0, <2>1, <2>2, <3>1, <3>2, <3>3, TaskStep
  <2> QED
    BY <2>3, <2>4
<1>3. ASSUME NEW g \in Gates, CreateGate(t, g)
      PROVE  IInv'
  <2>1. /\ ~Supervised(t) /\ disp' = SettleActive(t, "completed") /\ rows' = rows
        /\ \A u \in Tasks \ {t} : task'[u] = task[u]
        /\ task'[t] = "blocked"
    BY <1>0, <1>3, SetTaskIs DEF CreateGate
  <2> QED
    BY <2>1, SettleActiveIs, SettleStep
<1> QED
  BY <1>1, <1>2, <1>3

LEMMA GateSafe ==
  ASSUME IInv, TypeOK'
  PROVE  /\ \A g \in Gates : ResolveGate(g) => IInv'
         /\ ReblockTasksWithPendingGates => IInv'
         /\ Restart => IInv'
<1>1. ASSUME NEW g \in Gates, ResolveGate(g)
      PROVE  IInv'
  <2> DEFINE t == gate[g].task
  <2>1. TypeOK /\ disp' = disp /\ rows' = rows /\ ActiveOn(t) = {} /\ task' = SetTask(t, "ready")
    BY <1>1 DEF ResolveGate, UpdateTaskStatus, MayUpdate, Finish, IInv
  <2>2. \A u \in Tasks :
          task'[u] = task[u] \/ (ActiveOn(u) = {} /\ task'[u] # "dispatched")
    BY <2>1, SetTaskIs
  <2> QED
    BY <2>1, <2>2, TaskStep
<1>2. ASSUME ReblockTasksWithPendingGates
      PROVE  IInv'
  <2>1. \A u \in Tasks :
          task'[u] = task[u] \/ (ActiveOn(u) = {} /\ task'[u] # "dispatched")
    <3>1. PICK done \in SUBSET Tasks :
            /\ \A t \in done : ActiveOn(t) = {}
            /\ task' = [t \in Tasks |-> IF t \in done THEN "blocked" ELSE task[t]]
      <4> DEFINE due == {t \in Tasks : PendingGate(t) /\ task[t] # "blocked"}
                 refused == {t \in due : ActiveOn(t) # {}}
      <4>1. PICK done \in (IF refused = {} THEN {due} ELSE SUBSET (due \ refused)) \ {{}} :
              task' = [t \in Tasks |-> IF t \in done THEN "blocked" ELSE task[t]]
        BY <1>2 DEF ReblockTasksWithPendingGates
      <4>2. done \subseteq due \ refused
        BY <4>1
      <4> QED
        BY <4>1, <4>2
    <3> QED
      BY <3>1
  <2> QED
    BY <1>2, <2>1, TaskStep DEF ReblockTasksWithPendingGates
<1>3. ASSUME Restart
      PROVE  IInv'
  BY <1>3, TaskStep DEF Restart
<1> QED
  BY <1>1, <1>2, <1>3

-----------------------------------------------------------------------------
(* The invariant and the properties *)

LEMMA InitSafe == Init => IInv
<1> SUFFICES ASSUME Init
             PROVE  IInv
  OBVIOUS
<1>1. TypeOK
  BY NoRowType, ConstantsOK DEF Init, TypeOK, GateRow
<1>2. \A d \in Dispatches :
        disp[d].task = None /\ ~Active(d) /\ disp[d].worker = None
  BY DEF Init, NoRow, Active, ActiveStatus
<1> QED
  BY <1>1, <1>2 DEF IInv, RowsInOrder, OneActiveDispatch, TaskMatchesDispatch,
     WorkerMatchesDispatch, ActiveOn, Init

LEMMA NextSafe ==
  ASSUME IInv, [Next]_vars
  PROVE  IInv'
<1>1. TypeOK'
  BY NextType DEF IInv
<1>2. CASE UNCHANGED vars
  BY <1>1, <1>2, TaskStep DEF vars
<1>3. CASE Next
  BY <1>1, <1>3, TaskActionsSafe, HandOutSafe, StartSafe, ReconcileStartSafe, ReportSafe,
     FailureSafe, StopSafe, QuestionSafe, GateSafe DEF Next
<1> QED
  BY <1>2, <1>3

(* Whatever the interleaving of claims, awaits, exits and reports, the three *)
(* safety properties, the row order and the types hold together.           *)
THEOREM InvariantHolds == Spec => []IInv
BY InitSafe, NextSafe, PTL DEF Spec

(* However claims, retries, stops, reports, exits and restarts interleave,  *)
(* a task has at most one active dispatch, and it is the task's latest.     *)
THEOREM OneActiveDispatchHolds == Spec => []OneActiveDispatch
BY InvariantHolds, PTL DEF IInv

(* Every method leaves the task column in agreement with the dispatch rows: *)
(* no task is dispatched without a dispatch or idle with an active one.     *)
THEOREM TaskMatchesDispatchHolds == Spec => []TaskMatchesDispatch
BY InvariantHolds, PTL DEF IInv

(* No settled dispatch leaves a live worker, and no active one a dead one.  *)
THEOREM WorkerMatchesDispatchHolds == Spec => []WorkerMatchesDispatch
BY InvariantHolds, PTL DEF IInv
===============================================================================
