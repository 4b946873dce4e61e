# Orca orchestration: TLA+ models, checks and proofs

Orca is a desktop application that runs coding agents in terminals. Its *orchestration*
layer (`src/main/runtime/orchestration/`, with the RPC methods in
`src/main/runtime/rpc/methods/orchestration/`) lets one agent, the coordinator, create
tasks with dependencies, hand them to other agents, supervise them, stop and retry them,
and collect their reports. Its state is an SQLite database. Every database method runs in
one write transaction; between them, RPC handlers await terminals, git and remote servers,
terminals exit, processes die, and reports arrive late. These are the interleavings the
models explore. Six state machines cover the layer, from the database of tasks to the
terminal a worker leaves behind. Source paths below are relative to the repository's root.

## Inventory

| Component | State | Operations | Interacts with |
|---|---|---|---|
| Task store (`db/tasks`) | `tasks.status`, dependencies | create, update, promote | dispatches (settled by updates), gates |
| Dispatch contexts (`db/dispatch-context`, `dispatch-row-writer.ts`) | `dispatch_contexts`: status, failure count, assignee, capability | claim, settle, fail, interrupt | tasks, workers, questions |
| Supervised workers (`db/worker-dispatch`) | `worker_dispatches`: state, runtime epoch | start, retry, ready, fail, unknown, stop, abandon, recover | dispatches and tasks in the same transaction; terminal exits |
| Worker reports (`worker-report-settlement.ts`, `lifecycle-reconciliation.ts`) | none of its own | settle | dispatch, worker, task |
| Federated start and stop, home side | `federated` join of a dispatch | reconcile start and stop, resume | execution host's answers |
| Decision gates (`db/decision-gates`, `coordinator-decision-gates.ts`) | `decision_gates` | create, resolve, re-block | tasks, dispatches |
| Question threads (`db/questions`, `db/federation/remote-question-store.ts`) | `question_threads` | ask, import, answer, close | dispatches |
| Coordinator loop (`coordinator*.ts`) | in-memory run state | tick: triage mail, re-block, dispatch, converge | no longer reached: the methods that start and stop it are refused as retired (`shared/orchestration-rpc-contract.ts:45`) |
| Federation relay (`federation-sync.ts`, `db/federation`) | outbox, sequence numbers, attachments, capability cache | enqueue, pull, import, acknowledge | reports, receipts of the host |
| Runs (`db/runs`) | consumer generation, bound terminal | create, bind, take over | mailboxes |
| Mailboxes (`db/messages`, `messaging/check-*.ts`) | messages, Deliveries, waiters | send, check, acknowledge, route, fence | runs, dispatches, terminals |
| Mail pointers (`mailbox-pointer-*.ts`) | phases in the rows; flights and watermarks in memory | stage, type, press Enter, resume, retire | mailboxes, terminal titles and exits |
| Mutation receipts (`db/mutation-receipts`, `orchestration-mutation-executor.ts`) | receipts by request id; calls in flight | begin, checkpoint, complete, discard, prune | every mutating RPC |
| Worker terminal custody (`db/worker-terminal`, `worker-release*.ts`) | ownership, release lease, archive | record, transfer, take over, stop, release, recover | workers, terminals |

What makes each of them correct, and hard:

- *Tasks, dispatches, workers*: a task is never handed out twice; the three status columns
  agree; stopped work is not re-run; a late report corrects only what it may. Hard because
  every method writes several of the columns and assumes what the others left, and because
  claims, exits, stops, recovery and reports are not ordered.
- *Gates and questions*: a pending gate holds its task, and a pending question belongs to a
  dispatch that can still use the answer.
- *Relay*: each item applied once and in order, and both servers agree how the worker ended,
  although pull, import and acknowledge are separate calls over a network and both restart.
- *Mailboxes, runs*: no message lost, moved to another run, or consumed by a terminal that
  lost its role; a check captures a consumer generation and then awaits.
- *Pointers*: text and Enter are typed half a second apart into a terminal whose agent may
  work, read, exit or be replaced in between.
- *Receipts*: a retried mutation has one effect in force at most and is told the truth, although
  its handler may fail after the effect and others may end a dispatch it is still starting.
- *Custody*: nobody closes a terminal that a user or another dispatch has taken; ownership is
  read before output is captured and terminals are closed.

`PROJECT.json` lists the parts that are not modelled, with the reason, and the hazards of
the code at the lines where they bite.

## Modules

| Module | What it is |
|---|---|
| `DispatchLifecycle` | The database of tasks, dispatches, workers, gates and questions; one action per method or RPC step |
| `TaskLease` | What that database promises about a task, in three variables |
| `DispatchLifecycleProofs`, `DispatchSafetyProofs` | Type correctness; an inductive invariant and the three safety properties it gives |
| `DispatchLeaseProofs` | The invariant of the rows' other columns; two more safety properties, four action properties and the refinement of `TaskLease` |
| `FederationRelay` | The relay from an execution host to the Run home, with its lost and late calls and both restarts |
| `RelayLog` | What the relay promises: a log applied once and in order |
| `FederationRelayProofs` | Two inductive invariants of the relay, five safety properties and the refinement |
| `MutationReceipts` | The receipt store and the executor, with eight kinds of handlers |
| `MutationReceiptsProofs` | An inductive invariant and the five safety properties of the receipts |
| `RoleMailboxes` | Mail, Deliveries, consumer generations and the check call |
| `RoleMailboxesProofs` | An inductive invariant of the mailboxes and the five safety properties it gives |
| `MailboxPointer` | The delivery of pointers into terminals |
| `MailboxPointerProofs` | An inductive invariant of the pointers and the three safety properties it gives |
| `WorkerTerminal` | Custody, stop and release of workers' terminals |
| `WorkerTerminalProofs` | An inductive invariant and the four properties of custody |
| `MCDispatchLifecycle`, `MCRoleMailboxes`, `MC*.cfg` | Small instances for TLC; the other modules take model values directly |

The components are modelled apart, each with what it needs of the others: `RoleMailboxes`
has the roles of terminals but not why a dispatch settles, `MailboxPointer` has a check that
reads all mail at once, `FederationRelay` takes over the verdicts that the settlement of
`DispatchLifecycle` gives and the receipts of `MutationReceipts` that the host's
acknowledgements leave, and `WorkerTerminal` knows of a worker only whether it starts, works,
is being stopped or has settled.

### DispatchLifecycle

| Variable | Code |
|---|---|
| `task[t]` | `tasks.status`, `"absent"` before `createTask` |
| `disp[d]` | row `d` of `dispatch_contexts` in insertion order, joined with its `worker_dispatches` row (`worker`, `epoch`), its federation row (`federated`) and whether a thread is pending on it (`asking`) |
| `rows` | the number of rows inserted |
| `gate[g]` | `decision_gates` |
| `epoch` | the runtime id of the running process; `Restart` changes it |

A method that throws rolls back, so what it throws on is a guard. A step that changes
nothing (a duplicate or rejected report, an update to the current status without a result)
is a stutter and has no action. Names follow the methods; these need a word:

- `CreateDispatchContext` is the claim by the coordinator loop and by the dispatch RPC,
  whose capability is minted in the same turn: two inputs of one action.
- `StartWorker` is also worker-start with an inline spec, which is `CreateTask` and
  `StartWorker` in one transaction. `RetryWorker` is worker-start with `--retry-of`.
- `PrepareAuthority`, `MarkReady`, `FailStart`, `MarkStartUnknown` are the steps of the
  worker-start handler; any other action can come between them.
- `WorkerExit` is the terminal exit callback, `ReconcileMissing` the recovery of a worker
  whose terminal is gone.
- `ReconcileStart...`, `ReconcileStop` and `ResumeForReport` apply what the execution host
  of a federated dispatch says. Its answers are inputs chosen freely.
- `ReblockTasksWithPendingGates` is a pass of the coordinator loop over a list of gates
  that ends at the first task whose update is refused.

Abstractions. The question threads of a dispatch are one flag, true while one is pending.
An agent's terminal is its handle; pane keys and process incarnations that identify the
same terminal are not told apart. Task results, messages, receipts and the depth limit are
left out. The data of a capability is `"live"` or `"revoked"`. `completeDispatch`,
`failActiveDispatchForTask` and `timeoutGate` have no caller in the program and no action.
The coordinator's `updateTaskStatus(failed)` after a circuit break finds the task failed
and changes nothing.

### TaskLease

A task has at most one owner, a terminal seats at most one lease, and a lease that has
ended never owns or sits again. `DispatchLifecycle` implements it under the mapping
`OwnerOf`, `SeatOf` (the active dispatch of a task and of a terminal) and the set of
settled dispatches; `ImplementsTaskLease` is the instance's specification.

### FederationRelay

One dispatch. On the host: `outbox` (the kinds of the queued items), `hostAcked`
(the prefix with `acked_at`), `attachment`, `receipts` (of acknowledgements, by the cursor
in their request id) and `hostEpoch`. On the home: `imported`, `report` (how the dispatch was
settled), `homeAcked`, `knownEpoch`, `capability` (the cached probe) and `sync`, the call of
`syncFederatedDispatch` in progress with its page and request. `wire` holds the
acknowledgements sent and not yet handled, also those the home gave up on.

| Actions | Code |
|---|---|
| `Enqueue`, `EnqueueInPlace` (a report takes a heartbeat's place at the quota) | `federation-relay-enqueue.ts` |
| `BeginSync`, `Probe`, `Pull`, `RecordAck`, `SyncFails` | `federation-sync.ts`, `orchestration-peer-capability-cache.ts` |
| `ImportPage`, `CutShort` (part of the page is imported) | `federation-relay-import.ts` |
| `HostAck`, `HostDiesInAck`, `LoseAck` | `federation-relay-ack.ts`, `orchestration-mutation-executor.ts` |
| `BeginStop`, `EndStop`, `HostStop`, `Reopen` | `remote-dispatch-attachment-stop.ts`, `worker-dispatch-stop.ts`, the operator |
| `HomeRestart`, `HostRestart` | the loss of what is in memory |

Abstractions: protocol 3 on both sides and settlement supported by every epoch of the host;
the checkpoints of acknowledgements in memory, malformed reports and the answers to the
worker's own waiting calls are left out. The direction to the worker is not modelled.

### MutationReceipts

`rows` is the table, `running` the executor's calls in flight with their step, `effects`,
`took` and `told` histories of the effects in force, of the requests that took effect and of
the last answer. The handlers are modelled by when their effect commits against the receipt
and by what may fail after it: nothing (`create`), a notification after the receipt (`send`),
the effect in the receipt's transaction (`worker_done`), outside the database (`prompt`),
repeatably (`release`), with the receipt inserted by the effect (`start`, `remote_start`), or
followed by a prompt whose failure takes it back (`dispatch`). The effect of the last three is
a dispatch, and `Overtake` is what others do to it while the handler awaits: a report, the
exit of its terminal, a stop or an operator settles it or begins to stop it, and it is no
longer in force; of a remote one, worker-show may also find the worker ready before the
handler hears of it. What the handler does next then throws, and `Throw` discards the receipt
as the executor does. `Restart` empties `running` at any step. Which receipts are the oldest when the ledger is pruned is left open;
the row of a call that still runs is not pruned, and a pruned id starts afresh. A kind is
fixed for an id, one caller is modelled, and a join takes no step.

### RoleMailboxes

`run` and `disp` hold the terminal that plays each role and its consumer generation, `mail`
the messages with their mailbox and reader, `deliveries` the Deliveries in order, `call` the
check calls in progress: routing pages of direct mail, waiting, or woken. Actions are the
bindings of runs and dispatches, sending, the steps of a check from its call to its Delivery,
acknowledgement within a check, replies, aborts, and `Restart`, which forgets calls and
waiters. Abstractions: type filters, group and remote mail, legacy runs and handles without a pane are left out; later
pages take what there is when they are routed; a settled dispatch's mail is drained in one
step; the sender of a message is not recorded.

### MailboxPointer

`mail[i].at` is `pointer_enter_pending` with the target's identity, `flight`, `mark`,
`parked` and `again` are the maps of `OrchestrationMailboxPointerState`, `due` the queued
deliveries, and `job` the deliveries in progress: one that is superseded goes on until its
own await ends. `term` has the process behind a terminal and the status its last title
showed. `typed` and `pressed` record what each process was sent. Actions are the starts of
deliveries, the two writes with their answers (accepted, refused, lost), the timer between
them, the probe before Enter, titles, exits, respawns, restarts, checks and changes of
role. `pressed` forgets a message when the current delivery learns that its text was never
written (`markAsUndelivered`), because mail is then offered anew. Type filters, the absence probe before staging, graph synchronisation and the lane of
structured sessions are left out.

### WorkerTerminal

| Variable | Code |
|---|---|
| `term[p]` | the current process of a pane, whether it is alive and whether the runtime resolves its handle |
| `worker[d]` | `worker_dispatches.state` (succeeded and failed are `"settled"`, stopped and abandoned `"stopped"`), its terminal, and the process bound in `dispatch_contexts` |
| `row[r]` | `worker_terminal_resources`, named after the dispatch that created the row |
| `archive[d]` | `worker_terminal_archives`: which row the output kept for `d` is of |
| `job[r]`, `asked[d]`, `boot[d]`, `stopper[d]` | in memory: the release job of a row, the liveness question of a declined release, the start handler's wait, the worker-stop handler |
| `taken` | history: processes that the user has typed into |

A release is `RequestRelease`, then the job `InspectRelease`, `CaptureOutput`,
`CloseTerminal`, one action per await, with `Commit` (archive, second look at the lease and
the call that closes) in one turn; `RecoverRelease` starts the same job after a restart, and
`ProbeRelease` settles it by the host's word that the process exited. `StartWorkerIn` and
`Adopt` pass a settled worker's row to the next worker in its terminal.

`taken` does not count input while a release is `releasing` or `unknown` or the worker is
being stopped, when `markWorkerTerminalUserOwned` records nothing. TLC shows that each of the
exceptions is needed: without one, `OnlyItsOwnIsClosed` fails.

Abstractions: the creation of a terminal and the record of its custody are one step; a
terminal is its pane, handles are not told apart from it; reconciliation may come at any
time; the release of a terminal on another host, structured sessions, the backfill of rows of
earlier versions, listing, and dispatches without a worker (`dispatch --inject`) are left out.

## Runs

`CHECK_DEADLOCK FALSE` is set in the runs where the system may stop: when the bounded
dispatches, messages or processes are used up and settled, nothing has to happen.

| Run | Bounds | Question |
|---|---|---|
| `lifecycle` | 3 tasks, one joining two that symmetry does not tell apart, 2 dispatches, 1 terminal, 1 gate, the operator completes tasks, no restart | do task column, dispatch rows and terminals stay consistent, does a task wait for exactly its dependencies, and is the lease implemented? |
| `retries` | 1 task, 3 dispatches, 1 terminal, 1 restart, fairness | does a chain of attempts survive late reports, stops, exits and restarts, and does every start and stop end? |
| `resumed_report` | 1 task, 1 dispatch | can the report the code resumes a worker for settle it? (no, see Findings) |
| `relay` | 2 items, pages of 2, 2 pages a sync, quota 2, 1 restart of the host, 1 late acknowledgement, fairness | is the queue applied once and in order, do the servers agree, does the report arrive? |
| `relay_ack` | the same with 1 page a sync | does the verdict on a report reach the host? (no, see Findings) |
| `receipts` | 2 requests of any kinds, 2 payloads, a ledger of 1 row, 2 effects counted, fairness | one effect in force, truthful also when a handler fails after its effect, bounded, resolved? |
| `mailboxes` | 1 run, 1 dispatch, 2 terminals that swap roles, 1 check, 2 messages, batches of 1 | do Deliveries follow roles, and are waiting checks woken? |
| `mailbox_polling` | 2 runs, 2 terminals, 1 check, 1 message, 3 generations, fairness | does mail stay in its run, and is it read? |
| `pointer` | 1 terminal, 1 mailbox, 1 message, 2 deliveries at once, 2 processes, 1 restart | is Enter pressed once, in the process that took the text, and is nothing parked for ever? |
| `pointer_watermark` | 1 terminal, 1 mailbox, 1 message, 2 deliveries, 2 processes, no restart | does a delivery in progress keep its watermark? (no, see Findings) |
| `pointing` | 2 terminals, 1 mailbox that moves, 1 message, fairness | is mail pointed at in the end? |
| `custody` | 2 workers, 1 pane with 2 processes, 1 restart | is only the worker's own terminal closed, after its output is kept, and is what is released gone? |

*Dispatches.* The circuit breaker's limit is 2 in the instances and 3 in the code: the
properties compare with `BreakAt`, and two failures already distinguish a count carried over
from one that is not. Two dispatches are needed for contention and for a retry, three for a
report of an attempt that is neither the first nor the last. One restart gives a live and a
dead epoch, all the code distinguishes. One terminal makes every two dispatches contend. One
gate shows the effect of gates on one task; the re-blocking pass that a refused update cuts
short needs two gates and is covered by the proofs, which hold for any number, and not by a
passing run. Updates by the operator other than those of the runs were checked apart with
two chained tasks.

*Relay.* Two items give a page with a report among other mail, a queue at its quota, and an
acknowledgement of part of what the next one acknowledges; the safety properties were also
checked with three items (two million states), and are proved for any number.

*Receipts.* Two requests and one row make a mutation meet a full ledger and a pruned one.
Counting to two effects tells a repeated effect from a single one, and the count of the
repeatable kinds stops there.

*Mailboxes.* Two terminals are a coordinator and its successor, or a coordinator and a
worker, and batches of one message need a second page for the second message. Two checks at
once with a dispatch and one message (3.3 million states), two messages without a dispatch,
a third terminal, and two runs with two messages were checked apart, the liveness property
with a dispatch, with two checks and with three messages.

*Pointers.* Two deliveries at once are the current one and one that was superseded during
its write, two processes the one that took the text and the one that replaced it. Two
messages, two terminals with two deliveries, and two terminals with a restart were checked
apart (2.7 million states each). The inductive invariant of the proofs was checked in full
with one terminal, for two terminals over 24 million simulated states.

*Custody.* Two workers give a terminal that is passed on, a release by the former owner and
one by the present; two processes in a pane one that a row names and another that runs;
a restart comes between any two steps. Three workers with one process were checked apart.

| Property | Says |
|---|---|
| `OneActiveDispatch` | a task has at most one active dispatch, its latest |
| `TaskMatchesDispatch` | a dispatched task has an active dispatch, and a task with one is dispatched, or blocked exactly when its worker is in doubt or being stopped |
| `WorkerMatchesDispatch` | a worker is alive as long as its dispatch is active |
| `OneDispatchPerTerminal` | two active dispatches never share a terminal, although worker-start binds its own after an await |
| `NothingOutlives` | a live capability belongs to an active dispatch that is not being stopped, or to a start whose prompt was taken for lost; a question of a local dispatch closes with it |
| `PromotionIsExact` | promotion neither forgets a task nor starts it early |
| `SettledStaysSettled` | what has settled changes only by the one correction the code allows, and no step on a dispatch reopens a completed task |
| `StoppedWorkIsNotRedispatched` | whoever ends a stop, the task does not become ready |
| `BreakerLimitsRetries` | the failure that reaches the limit does not give the task back |
| `NothingHangs` | every start and stop leaves its in-flight state |
| `ImplementsTaskLease` | refinement of `TaskLease`: a task has at most one owner, a terminal seats at most one lease, a spent lease never returns |
| `RelaysInOrder` | refinement of `RelayLog` |
| `AckedIsImported` | the host counts as acknowledged only what the home holds |
| `HostSettlesWithHome` | an attachment settles only with the outcome the home accepted |
| `AcceptedReportSettles` | no acknowledgement takes an accepted report off the queue without settling the attachment |
| `AcksFit` | the host can take every acknowledgement it has not seen, however late |
| `ReportSettles` | a queued report settles its dispatch |
| `AtMostOnce` | of a request one effect at most is in force while its receipt is kept (releases and remote starts excepted) |
| `ReceiptTellsTruth` | a receipt records the outcome the effect had |
| `FailureIsSafe` | after a definite failure nothing was done, or it is on record, or the dispatch that was made is settled, being stopped or taken back (the same two excepted) |
| `LedgerBounded` | the ledger keeps its limit, and refuses only when every row is unresolved |
| `ResumableResolves` | an interrupted mutation that may be resumed does not stay in doubt |
| `OutstandingIsCurrent` | the outstanding Delivery of a live mailbox was handed to its present generation |
| `AcknowledgedOnce` | no message is in two acknowledged Deliveries |
| `ReadByItsReceiver` | what an acknowledged Delivery carried was read by the terminal it was handed to |
| `MailStaysInItsRun` | routing never moves mail into another run's mailbox |
| `WaitersHear` | a check that waits is woken by the step that puts mail into its mailbox |
| `MailIsRead` | mail of a run is read unless the run is left without coordinator |
| `NoLeakedWatermark` | a mailbox is parked only behind a delivery that will lift it |
| `EnterMatchesText` | Enter is pressed only in a process that took the message's text (`EnterFollowsText`), and while the agent keeps its role once for a message, unless a later answer says that a pointer to it was never written (`EnterPressedOnce`) |
| `MailIsPointed` | mail is pointed at, read or held in the end |
| `OnlyItsOwnIsClosed` | release and stop close only a terminal that the dispatch was bound to and owns, where no other dispatch works and which the user has not taken over, at the moment of closing |
| `OutputIsKept` | from the commit of a release on, the owner's output is archived |
| `ReleasedIsGone` | a terminal recorded as released has exited |

Each has a mutant in its module, the definition next to the one it replaces, which TLC finds
to violate it.

## Fairness

- *Dispatches*: the start and the stop handler of the running process each take a step,
  because all their waits have timeouts and every error path records an outcome
  (`worker-stop.ts:94-101` and the settlement of `local-worker-start.ts`); and somebody goes
  on asking worker-show about a local worker of a dead process, which is how the code
  recovers such a row (`worker-control.ts:52-65`). Agents need not report, and hosts need not
  answer. A federated start or stop of a dead process waits for its host and is excluded
  from `NothingHangs`.
- *Relay*: the timer runs every second, a call ends after 15 seconds (`SyncFails`), the
  network does not lose a call every time it is made, and a sent acknowledgement is handled
  or lost in the end.
- *Receipts*: a handler that can take its step infinitely often does, and an interrupted
  resumable call is repeated by its client.
- *Mailboxes*: the steps of a check follow each other and its wait has a timeout; each run's
  coordinator goes on checking, and not every one of its checks is cut off or outrun.
- *Pointers*: a delivery takes its next step; a write is not refused or lost every time; a
  title is not neutral at every answer of the probe; an attached agent goes on working and
  becoming idle. `MailIsPointed` assumes that terminals stay attached and the role stays
  where it is from some time on.
- *Custody*: none, only safety is checked. Releases need not end, see Findings.

## Findings

Three are runs that TLC refutes:

1. `resumed_report`. A federated worker whose start was never confirmed is stopped; its host
   answers that it has already reported. `resumeFederatedWorkerForTerminalRelay` makes the
   worker ready for the report waiting in the relay, but leaves the dispatch `pending`, and
   the report of a ready worker is refused unless its dispatch is `dispatched`.
2. `relay_ack`. The request id of an acknowledgement names the cursor of the page, not what
   is acknowledged. When the host has restarted, the report is held back while the items
   before it are acknowledged under the cursor of the page; the next sync sends the verdict
   under the same cursor and is refused as `request_mismatch`, for ever. With the payload as
   part of the id, the property holds.
3. `pointer_watermark`. A delivery whose write is proven late to have been refused clears its
   watermark by mailbox, sequence and terminal id, before it asks whether it is still the current
   delivery (`mailbox-pointer-submit.ts:66`). A delivery of the same mail that has replaced it,
   in the next process under the same terminal id, has a watermark with the same three, and
   loses it. Mail of that
   mailbox is then no longer parked behind it, another terminal of the role can be pointed at
   the same mail, and Enter can be pressed again. When the question comes first the property
   holds.

Smaller disagreements and limits met while modelling, not runs of their own:

- *Questions.* Settling closes a dispatch's threads because nobody can answer them any more;
  a question relayed from the execution host is imported after that all the same (hence
  `NothingOutlives` speaks of local dispatches).
- *Gates.* Resolving one of two gates makes the task ready while the other is pending, and
  a task that was blocked by a gate while it waited becomes ready with the gate's resolution,
  whatever its dependencies (`PromotionIsExact` speaks of tasks that are pending).
- *Failures.* Supervised starts do not inherit the failure count of a context-only attempt,
  so three consecutive failures need not fail the task.
- *Comments on tasks.* Two comments (`coordinator-escalation-triage.ts`,
  `orca-runtime-subscribe-to-terminal-resize.ts:56`) say that a failed task returns to
  `pending` where the code makes it `ready`.
- *Relay.* At its quota a report replaces a heartbeat that may have been imported already, and
  the home then refuses the page as a changed message (`Overtaken`). A host that dies between
  beginning and completing an acknowledgement leaves a pending receipt, and every retry is
  answered `operation_unknown` (`Wedged`). A task the operator reopened turns a replayed
  verdict into a rejection (`reopened`). Once a dispatch has settled, items behind a full page
  whose next pull failed, or queued between the last pull and the acknowledgement, are never
  imported.
- *Discarded receipts.* `recovery-and-cleanup.md:77-79` (orchestration skill guide) says that
  every mutation accepts `--retry-request <id>`, "so Orca can replay, join, or recover it instead
  of starting a duplicate". A worker-start whose dispatch is settled or stopped during its
  launch does not: its catch (`local-worker-start.ts:232`) calls `failWorkerStart` or
  `markWorkerStartUnknown`, which throw `dispatch_inactive`
  (`worker-dispatch-outcome.ts:57`, `:120`), the executor discards the accepted receipt
  (`orchestration-mutation-executor.ts:245`), and the retry starts a second worker, for a
  `--spec` with a second task. What the first left is settled or being stopped, hence
  `AtMostOnce` and `FailureIsSafe` speak of effects in force. The same holds of
  `dispatch --inject`, which takes its dispatch back when the prompt fails. A remote start is
  worse: worker-show may find the worker ready (`federated-worker-show.ts:117`) before the
  answer of its server arrives, `markWorkerDispatchReady` then throws, and so does the catch;
  the receipt is gone while the worker works, and the retry of a `--spec` starts another next to
  it. The two properties except `remote_start` for this (`MayRepeat`); without that exception
  TLC refutes `FailureIsSafe` with Begin, Accept, Overtake, Throw, and another Begin and Accept
  refute `AtMostOnce`.
- *Receipts.* Pending receipts of mutations that may not be resumed are never removed, so
  10 000 interrupted ones would make `mutation_ledger_full` permanent. A retry that comes
  after its receipt was pruned runs the mutation again. The prompt of a `dispatch --inject` that
  failed after it was typed may be typed again by the retry: what `effects` counts of it is the
  dispatch. A dispatch that is being stopped counts as no longer in force, although its worker
  may run for as long as the stop takes. The other mutations (gates, `ask`, `reply`, worker-stop,
  those of the federation) are represented only by the eight kinds.
- *Mailboxes.* A waiting coordinator is not woken by direct mail that another check of the
  same terminal routes into its mailbox and does not hand out (`WaitersHear` leaves such mail
  to that check). `reply` marks the message it answers as read although a comment says that
  only `check` does (`message-inbox.ts:89`), so a fenced coordinator's reply consumes mail its
  successor never gets. The comment that `check` never reroutes its mailbox
  (`recipient-routing.ts`) is not true of a worker's check that re-validates its role.
- *Pointers.* A delivery parked behind a flight is started when the flight ends whether or
  not the agent is idle, although a comment says it is gated on idle
  (`orca-runtime-apply-tracked-pty-title.ts:135`). The path of an unverifiable write lifts the
  watermark but does not redrive parked mailboxes, which a comment asks for
  (`mailbox-pointer-stage.ts:131`). When the agent turns to a permission prompt within the
  half second, mail is marked as told without an Enter. After the loss of a remote terminal's
  relay the same process can be typed the text twice (it is sent Enter once for it).
- *Custody.* The documentation says that active, reused and user-taken terminals are retained
  (`skill-guides/orchestration/references/recovery-and-cleanup.md:145-147`). A dispatch
  injected into a settled worker's terminal has no custody row, and a later worker-release
  closes the terminal under it. Input while the worker is being stopped, or while a release
  is in doubt, is not recorded as a takeover, and a retried release then closes the terminal.
  A second owner's release that joins the former owner's job leaves its row `requested` until
  the next recovery. A requested release without an archive whose process died while the
  runtime was down stays pending, because recovery demands the archive; a release in doubt
  (`unknown`) is retried only by another call.

## Proofs

Every theorem holds for all values of the constants under the module's named assumption on
them (`ConstantsOK`, `RelayConstants`, `ReceiptConstants`, `MailboxConstants`,
`PointerConstants`, `CustodyConstants`): bounds are numbers, `None` is no other value,
dependencies are tasks, requests are finitely many. One theorem, `PromotionNeverErrs`, takes a
further hypothesis (`NotByHand`), explained where it is described.

*Dispatches.* `DispatchLifecycleProofs` proves `TypeCorrect`, `Spec => []TypeOK`, with one
lemma per group of actions over lemmas about the row and task updates they share.

`DispatchSafetyProofs` proves `OneActiveDispatch`, `TaskMatchesDispatch` and
`WorkerMatchesDispatch` for every value of the constants. None is inductive alone:

- a claim inserts an active row for a *ready* task, which has no active dispatch only by
  `TaskMatchesDispatch`;
- a retry inserts one for the *latest* dispatch of a blocked task, if its worker has
  settled, which means that its dispatch has settled only by `WorkerMatchesDispatch`, and
  that no other is active only by `OneActiveDispatch`;
- an interruption blocks the task only if no other dispatch is active, which is
  `OneActiveDispatch` again, and an update by the operator is refused only for a task with a
  live worker.

`IInv` is their conjunction with `TypeOK` and `RowsInOrder` (the rows after the last
insertion are empty, so that the new row is the latest and replaces nothing). Three lemmas
carry the steps: `RowStep` (one row is written and stays with its task), `InsertSafe` and
`SettleStep` (all dispatches of a task settle), with `TaskStep` for steps that write no row.
Each action is then shown to be such a step. TLC checked `IInv` in the instances of
`lifecycle` and `retries` first.

`DispatchLeaseProofs` proves the rest of the safety of `DispatchLifecycle` on top of it.
`SInv` is `IInv` with `RowsFilled` (an inserted row has a task), `OneDispatchPerTerminal` and
`Clean` of every row. `Clean` is `NothingOutlives` with two parts more, without which it is
not inductive: a supervised worker with a terminal has a capability, or it could ask a
question while it is stopped, and a row whose prompt stalled has settled, or it could run
with a capability that a stop should have revoked. `StepForm` then says once for all
methods what a step does to the rows: it inserts one for a free task (`Granted`), moves the
row of one dispatch (`Moved`), settles the dispatches of a task (`Settled`), or changes no
row (`TasksOnly`). Each property is proved of these four forms and not of the 30 actions:

- `TerminalsAreNotShared` and `NothingStaysOpen` are parts of `SInv`;
- `SettledIsFinal`, `StoppedStaysStopped` and `LimitIsKept` follow because only `Moved`
  takes an active dispatch further, `Settled` leaves the tasks it settles completed, failed
  or blocked, and no form readies a task whose worker is being stopped;
- `LeaseIsImplemented` is the refinement: `Granted` is a grant, with a seat if the row
  names a terminal, `Moved` a seat if it binds one and a release if it settles the row,
  `Settled` a release if the task has an active dispatch, and everything else stutters. The
  mapping chooses the owner of a task and the lease of a terminal; `OwnersAndSeats` shows
  from `SInv` that there is never more than one to choose from.

`PromotionNeverErrs` has an invariant of its own beside `SInv`: a pending task has a
dependency that is not completed (`Waits`), and the task of a gate has left pending for good
(`GatesBlock`), so that resolving a gate, which makes its task ready, never readies one that
waits. It assumes `NotByHand`, that the operator moves no task to pending or ready; the
code lets him, and `PromotionIsExact` is then plainly false of the task he moved.

*Relay.* `RelayInv` adds to `TypeOK` and `AckedIsImported`: what is imported is a prefix of
what was queued (`ImportsAreQueued`), the page in hand continues it and is still queued
(`PageInRange`, `PageIsQueued`), every request in flight or recorded says only what was
imported and decided (`Honest`), an answered request was acknowledged on the host
(`AnsweredIsAcked`), and an attachment settles as the home decided. The heart is `Honest`:
an acknowledgement is handled when the home has long moved on, so what makes it safe must be
a property of the request and stable under every later step. `RelayTyped`,
`NothingAcknowledgedUnimported`, `ServersAgree` and the refinement `RelayImplementsLog`
follow: an import applies the next queued items (a heartbeat where the page still had one),
queueing and the replacement of a heartbeat are steps of the log, all others stutter.

`SettlementInv` carries `AcceptedReportsSettle` and `AcknowledgementsFit`. Both compare a
verdict, given when the page was imported, with queue, attachment and dispatch when the host
handles it. Of a request in flight it therefore says that it judges only reports which are
imported as they are queued, and accepts the one that settled the dispatch (`Judges`), and
that it acknowledges no report without a verdict, unless that report replaced a heartbeat
the home had imported (`Covers`). Both are stable: what is imported and queued as a report
never changes, and a dispatch that settled or is being stopped takes no other report
(`ImportsSettle`, `StopsTogether`). `AckedWasImported` is what the proof of
`AcceptedReportsSettle` was missing at first: a report that an import settles could
otherwise be below the watermark already, acknowledged as the heartbeat it replaced. The
exception in `AcksFit` is exactly the second half of `Covers`.

*Receipts.* `IInv` gives, for each request by itself, what the effects and the row may be at
every step of a running handler (`AtStep`) and while none runs (`InLedger`): this is needed
because `AtMostOnce` says nothing of a receipt that is pending, and it is the receipt's note
(`effect_free`, `accepted`, none) that decides whether a retry may run. Its core is that a
request without a row has no effect in force: an error that discards the row (`ThrowSound`)
comes before the effect, or after others ended it (`OvertakeSound`), or takes it back.
`EffectsOnce`,
`ReceiptsTrue` and `FailuresSafe` follow from it, `LedgerStaysBounded` from it and the count
of the rows, whose only increase is the one that `ensureMutationReceiptCapacity` guards.

*Mailboxes.* `RoleMailboxesProofs` proves `TypeCorrect`, `OutstandingDeliveriesAreCurrent`,
`MessagesAreFinishedOnce`, `ReceiversRead`, `RunsKeepTheirMail` and the action property
`WaitersAreWoken`. Ownership of mail is a matter of three tables and of a call that awaits
between reading and writing them, so `IInv` says of a Delivery, whatever its state, that it
carries mail of its own mailbox (`CarriesMail`) for a consumer that existed (`ForConsumer`),
that a mailbox has one outstanding (`OnePerMailbox`), that what is acknowledged is read by
its receiver (`ReadWhenAcked`), and that unfinished Deliveries share no message with another
one (`Apart`), which is what makes `AcknowledgedOnce` inductive. Of a call it says that it
is named by a role (`CallNamed`), that while its generation is the present one it speaks for
the terminal that has the role (`CallCurrent`), and that what it still has to route belongs
to its run (`TodoInRun`), without which `MailStaysInItsRun` would fail at the next page.

*Pointers.* `MailboxPointerProofs` proves `TypeCorrect`, `NoMailboxParkedForEver` and
`TextAndEnterMeet`. The state that decides is spread over rows, which survive, and maps in
memory, which handlers use after each await without knowing whether they are still the
current delivery. `IInv` relates the two: rows reserved in a mailbox are so for one process
at a time (`OnePointing`), a flight and an active watermark belong to a delivery in progress
(`FlightOK`, `MarkOK`), a delivery is of mail of its mailbox into a process that is or was
the terminal's (`JobOK`), a delivery whose write was accepted has its text in that process
(`TextTaken`), and what Enter was pressed for is no longer new or stays recorded as tried
(`PressedStays`). A handler is a chain of changes to that state (settle, clear, redrive,
park, resume), so the proof has one lemma for each change and shows each action to be such a
chain; only `PressEnter` presses Enter, all others are `Calm`. The attempt to prove an
earlier form of `EnterPressedOnce`, with mail refused late not excepted, led to a
counterexample beyond the bounds of the run and from there to finding 3.

*Custody.* `WorkerTerminalProofs` proves all four properties of the run: `CustodyTyped`,
`OutputStaysKept`, `ReleasedStaysGone` and `OnlyOwnClosed`. What a handler read before it
awaited may be stale when it closes a terminal, and the second look at the lease compares
panes and processes, not owners. So `Custody` says what makes that enough: a row and its
owner name the same process, also while a start still waits (`OwnerMatches`), a dispatch has
one row (`RowsApart`) and is bound to its pane alone, with a row on its process (`BoundAlone`,
`BoundOwns`), only a settled worker's own row comes under release (`ReleaseSettled`), a job
on a committed release works for the row's owner (`JobsMatch`), and what the user has taken
is owned by no one (`TakenLost`). `OutputIsKept` and `ReleasedIsGone` are conjuncts of it,
and `OnlyOwnClosed` follows from it for the two steps that order a close. Steps are grouped
by what they leave alone: `WorkersMove` (rows stay), `SetAsideKeeps` (rows are kept for the
worker or the user), `CalledBackKeeps`, `ReleasedKeeps`, `CommittedKeeps` (a release moves),
`OwnRowKeeps` and `StartKeeps` (a worker starts).

TLC checked each inductive invariant in the instances of the runs first.

Only model-checked is liveness (`NothingHangs`, `ReportSettles`, `ResumableResolves`,
`MailIsRead`, `MailIsPointed`), which is out of the prover's reach. Every invariant, action
property and refinement that a passing run checks is proved.

## Not modelled

- The direction of the relay to the worker (replies and control mail), and hosts without
  settlement support.
- Question threads in full: their answers, replays and the worker's wait; whether a dispatch
  has a pending thread is in `DispatchLifecycle`.
- The coordinator loop, which no method reaches; the database calls it makes are actions of
  `DispatchLifecycle`.
- Structured sessions, the release of a terminal on another host, and rows, runs and
  messages of earlier versions.
- Worker output and transcripts, schema migrations, the desktop interface, the command line:
  data, input and output, no coordination.
- The terminal daemon, the SSH relay, the hosted cloud services and the mobile client are
  systems of their own, most of the repository by size, and outside the orchestration layer
  that this project is about. What orchestration sees of terminals and hosts is in the
  models as answers chosen freely.

## Plan

1. Question threads in full, and the relay to the worker that carries their answers.
