-------------------------- MODULE MutationReceipts --------------------------
(***************************************************************************)
(* Retried mutations.  A client that lost the answer of a mutating call    *)
(* repeats it under the same request id; OrchestrationMutationExecutor     *)
(* joins the execution that still runs, answers from the receipt of one    *)
(* that completed, and refuses to guess when the runtime restarted in      *)
(* between.  The runtime restarts at any point; calls are repeated without *)
(* limit and with another payload.                                         *)
(*                                                                         *)
(* The methods modelled, by when their effect commits and what may fail    *)
(* after it:                                                               *)
(*   create        one transaction, nothing after it can fail (taskCreate) *)
(*   send          message, then receipt, then a notification that may     *)
(*                 fail                                                    *)
(*   worker_done   message, settlement and receipt in one transaction      *)
(*   prompt        input written to a terminal, then observed              *)
(*   release       workerRelease: the effect may be repeated               *)
(*   start         workerStart: the receipt is inserted with the dispatch, *)
(*                 then the worker is launched and prompted                *)
(*   remote_start  workerStart --on: likewise, on another server           *)
(*   dispatch      dispatch --inject: the dispatch, then the prompt        *)
(* The effect of the last three is a dispatch.  While their handler awaits *)
(* the launch or the prompt, others may settle or stop that dispatch.      *)
(***************************************************************************)
EXTENDS Integers, FiniteSets

CONSTANTS
  None,         \* no value
  Requests,     \* request ids of one caller
  Payloads,     \* what a call may ask for under an id
  MaxRows,      \* MUTATION_RECEIPT_MAX_ROWS (10 000 in the code)
  PruneBatch,   \* MUTATION_RECEIPT_PRUNE_BATCH_SIZE (64 in the code)
  MaxEffects    \* bound: effects counted per request

Starts == {"start", "remote_start"}
Kinds == {"create", "send", "worker_done", "prompt", "release", "dispatch"} \cup Starts
Steps == {"invoked", "checkpointed", "possible", "applied", "overtaken", "recorded", "replay"}

ASSUME ReceiptConstants ==
  /\ IsFiniteSet(Requests)
  /\ None \notin Payloads \cup Steps
  /\ MaxRows \in Nat \ {0}
  /\ PruneBatch \in Nat \ {0}
  /\ MaxEffects \in Nat \ {0, 1}

VARIABLES
  kind,         \* the method behind each request id
  rows,         \* mutation_receipts
  running,      \* the executor's inFlight: payload and step of each execution
  effects,      \* history: effects in force, of those committed since the receipt was
                \* last pruned; a dispatch that is settled or told to stop is not
  took,         \* history: the requests that took effect since the ledger last forgot them
  told          \* the last answer since then to a call that was not a join

vars == <<kind, rows, running, effects, took, told>>

States == {"absent", "pending", "completed"}
Notes == {None, "effect_free", "accepted", "applied", "refused"}   \* the receipt column
Answers == {"receipt", "failed", "unknown", "mismatch", "full"}

Absent == [state |-> "absent", payload |-> None, note |-> None]

TypeOK ==
  /\ kind \in [Requests -> Kinds]
  /\ rows \in [Requests -> [state : States, payload : Payloads \cup {None}, note : Notes]]
  /\ running \in [Requests -> [payload : Payloads, step : Steps] \cup {None}]
  /\ effects \in [Requests -> 0 .. MaxEffects]
  /\ took \subseteq Requests
  /\ told \in [Requests -> Answers \cup {None}]

Init ==
  /\ kind \in [Requests -> Kinds]
  /\ rows = [r \in Requests |-> Absent]
  /\ running = [r \in Requests |-> None]
  /\ effects = [r \in Requests |-> 0]
  /\ took = {}
  /\ told = [r \in Requests |-> None]

-----------------------------------------------------------------------------
(* The receipt store *)

Existing == {r \in Requests : rows[r].state # "absent"}
Completed == {r \in Requests : rows[r].state = "completed"}

(* The receipts a new row may push out.  The call that is answered from one *)
(* does not outlive the days or the thousands of mutations that takes.      *)
Prunable == {r \in Completed : running[r] = None}

(* ensureMutationReceiptCapacity: what is over age goes, then a batch of    *)
(* completed receipts if the ledger is still full.  Which of them are the   *)
(* oldest is left open.                                                     *)
Pruned(P) ==
  /\ P \subseteq Prunable
  /\ \E aged \in SUBSET P :
       LET count == Cardinality(Existing \ aged)
           limit == IF count >= MaxRows THEN count - MaxRows + PruneBatch ELSE 0
       IN /\ Cardinality(P \ aged) <= limit
          /\ Cardinality(P \ aged) = limit \/ (P = Prunable /\ count >= MaxRows)

(* Mutation of HasRoom: admits one receipt too many. *)
HasRoomForOneMore(P) == Cardinality(Existing \ P) <= MaxRows

HasRoom(P) == Cardinality(Existing \ P) < MaxRows

(* The row is inserted once there is room; what is pruned is forgotten.     *)
Insert(r, P, row) ==
  /\ Pruned(P)
  /\ HasRoom(P)
  /\ rows' = [q \in Requests |-> IF q = r THEN row ELSE IF q \in P THEN Absent ELSE rows[q]]
  /\ told' = [q \in Requests |-> IF q \in P THEN None ELSE told[q]]

(* completeMutationReceipt *)
Complete(r, note) ==
  rows' = [rows EXCEPT ![r].state = "completed", ![r].note = note]

Tell(r, answer) == told' = [told EXCEPT ![r] = answer]

Run(r, p, step) == running' = [running EXCEPT ![r] = [payload |-> p, step |-> step]]

Step(r) == IF running[r] = None THEN None ELSE running[r].step

GoOn(r, step) == running' = [running EXCEPT ![r].step = step]

Leave(r) == running' = [running EXCEPT ![r] = None]

-----------------------------------------------------------------------------
(* OrchestrationMutationExecutor.run, up to its first await.  A call that   *)
(* finds its id running joins it, and nothing changes.                      *)

Differs(r, p) ==
  \/ rows[r].state # "absent" /\ rows[r].payload # p
  \/ running[r] # None /\ running[r].payload # p

Mismatch(r, p) ==
  /\ Differs(r, p)
  /\ Tell(r, "mismatch")
  /\ UNCHANGED <<kind, rows, running, effects, took>>

(* beginMutationReceipt on an unused id.  A start runs without a row until  *)
(* it is accepted.                                                          *)
Begin(r, p) ==
  /\ rows[r].state = "absent"
  /\ running[r] = None
  /\ IF kind[r] \in Starts
     THEN UNCHANGED <<rows, effects, took, told>>
     ELSE \E P \in SUBSET Requests :
            /\ Insert(r, P, [state |-> "pending", payload |-> p, note |-> None])
            /\ effects' = [q \in Requests |-> IF q \in P THEN 0 ELSE effects[q]]
            /\ took' = took \ P
  /\ Run(r, p, "invoked")
  /\ UNCHANGED kind

(* The ledger is full of pending receipts. *)
Refused(r) == \E P \in SUBSET Requests : Pruned(P) /\ ~HasRoom(P)

BeginRefused(r) ==
  /\ rows[r].state = "absent"
  /\ running[r] = None
  /\ kind[r] \notin Starts
  /\ Refused(r)
  /\ Tell(r, "full")
  /\ UNCHANGED <<kind, rows, running, effects, took>>

(* shouldObserveCompletedMutation: a replay nudges the recipient again, or  *)
(* goes on observing the prompt.                                            *)
Observed == {"send", "worker_done", "prompt"}

Replay(r) ==
  /\ rows[r].state = "completed"
  /\ running[r] = None
  /\ \/ /\ kind[r] \in Observed
        /\ Run(r, rows[r].payload, "replay")
        /\ UNCHANGED told
     \/ /\ kind[r] \notin {"send", "worker_done"}
        /\ Tell(r, "receipt")
        /\ UNCHANGED running
  /\ UNCHANGED <<kind, rows, effects, took>>

(* Mutation of Resumable: any interrupted mutation is run again. *)
ResumableAlways(r) == TRUE

(* What may run again after a restart. *)
Resumable(r) ==
  \/ kind[r] = "release"
  \/ kind[r] = "worker_done" /\ rows[r].note = "effect_free"

(* Mutation of Interrupted: takes an unused id for an interrupted one. *)
InterruptedUnlessCompleted(r) == rows[r].state # "completed" /\ running[r] = None

Interrupted(r) == rows[r].state = "pending" /\ running[r] = None

Resume(r) ==
  /\ Interrupted(r)
  /\ Resumable(r)
  /\ Run(r, rows[r].payload, "invoked")
  /\ UNCHANGED <<kind, rows, effects, took, told>>

Unknown(r) ==
  /\ Interrupted(r)
  /\ ~Resumable(r)
  /\ Tell(r, "unknown")
  /\ UNCHANGED <<kind, rows, running, effects, took>>

-----------------------------------------------------------------------------
(* The handler *)

Once(n) == IF n < MaxEffects THEN n + 1 ELSE n

Effect(r) ==
  /\ effects' = [effects EXCEPT ![r] = Once(@)]
  /\ took' = took \cup {r}

(* markWorkerDoneEffectFree, and markEffectPossible before a prompt is      *)
(* written.                                                                 *)
Checkpoint(r) ==
  /\ Step(r) = "invoked"
  /\ \/ /\ kind[r] = "worker_done"
        /\ rows' = [rows EXCEPT ![r].note = "effect_free"]
        /\ GoOn(r, "checkpointed")
     \/ /\ kind[r] = "prompt"
        /\ GoOn(r, "possible")
        /\ UNCHANGED rows
  /\ UNCHANGED <<kind, effects, took, told>>

(* The effect alone. *)
Commit(r) ==
  /\ \/ Step(r) = "invoked" /\ kind[r] \in {"create", "send", "release", "dispatch"}
     \/ Step(r) = "possible" /\ kind[r] = "prompt"
  /\ Effect(r)
  /\ GoOn(r, "applied")
  /\ UNCHANGED <<kind, rows, told>>

(* commitWorkerDoneMessageMutation: the effect and its receipt. *)
CommitWithReceipt(r) ==
  /\ Step(r) = "checkpointed"
  /\ Effect(r)
  /\ Complete(r, "applied")
  /\ GoOn(r, "recorded")
  /\ UNCHANGED <<kind, told>>

(* createStartingWorkerDispatch: the effect and its pending row. *)
Accept(r) ==
  /\ Step(r) = "invoked"
  /\ kind[r] \in Starts
  /\ \E P \in SUBSET Requests :
       /\ Insert(r, P, [state |-> "pending", payload |-> running[r].payload, note |-> "accepted"])
       /\ effects' = [q \in Requests |-> IF q = r THEN Once(effects[q])
                                         ELSE IF q \in P THEN 0 ELSE effects[q]]
       /\ took' = (took \ P) \cup {r}
  /\ GoOn(r, "applied")
  /\ UNCHANGED kind

AcceptRefused(r) ==
  /\ Step(r) = "invoked"
  /\ kind[r] \in Starts
  /\ Refused(r)
  /\ Leave(r)
  /\ Tell(r, "full")
  /\ UNCHANGED <<kind, rows, effects, took>>

(* While the handler awaits the launch or the prompt, a report, an exit of   *)
(* the terminal, a stop or an operator settles the dispatch or has it       *)
(* stopped.  A remote worker may also be found ready by worker-show, before *)
(* the answer of its server arrives; its dispatch goes on.                  *)
Overtake(r) ==
  /\ Step(r) = "applied"
  /\ kind[r] \in Starts \cup {"dispatch"}
  /\ \/ effects' = [effects EXCEPT ![r] = @ - 1]
     \/ kind[r] = "remote_start" /\ UNCHANGED effects
  /\ GoOn(r, "overtaken")
  /\ UNCHANGED <<kind, rows, took, told>>

(* Mutation of RecordsAt: records the receipt before the message. *)
RecordsAtInvoked(k) == IF k = "send" THEN "invoked" ELSE "applied"

RecordsAt(k) == "applied"

(* recordReceipt, after the message or the accepted input and before        *)
(* anything that can fail.                                                  *)
Record(r) ==
  /\ kind[r] \in {"send", "prompt"}
  /\ Step(r) = RecordsAt(kind[r])
  /\ Complete(r, "applied")
  /\ GoOn(r, "recorded")
  /\ UNCHANGED <<kind, effects, took, told>>

(* Mutation of Return: answers without completing the receipt. *)
ReturnUnrecorded(r) ==
  /\ Step(r) \in {"applied", "recorded"}
  /\ Leave(r)
  /\ Tell(r, "receipt")
  /\ UNCHANGED <<kind, rows, effects, took>>

(* The handler returns, and the executor completes the receipt.  A prompt   *)
(* that the terminal did not take is an answer too, and so is a start that  *)
(* failed by itself.                                                        *)
Return(r) ==
  /\ \/ /\ Step(r) \in {"applied", "recorded"}
        /\ Step(r) = "applied" => kind[r] \notin {"send", "prompt"}
        /\ Complete(r, "applied")
     \/ /\ Step(r) = "overtaken"
        /\ kind[r] # "remote_start"
        /\ Complete(r, "applied")
     \/ /\ Step(r) \in {"invoked", "possible"}
        /\ kind[r] = "prompt"
        /\ Complete(r, "refused")
  /\ Leave(r)
  /\ Tell(r, "receipt")
  /\ UNCHANGED <<kind, effects, took>>

(* Where each kind of handler can fail.  A start answers its own failures   *)
(* with a receipt, unless its dispatch is no longer starting: then          *)
(* failWorkerStart and markWorkerStartUnknown throw too.                    *)
FailsAt(k) ==
  CASE k = "send" -> {"invoked", "recorded"}
    [] k = "worker_done" -> {"invoked", "checkpointed", "recorded"}
    [] k = "prompt" -> {"invoked", "possible", "applied"}
    [] k = "release" -> {"invoked", "applied"}
    [] k = "dispatch" -> {"invoked", "applied", "overtaken"}
    [] k \in Starts -> {"invoked", "overtaken"}
    [] OTHER -> {"invoked"}

(* A prompt past its write boundary. *)
Doubtful(r) == kind[r] = "prompt" /\ Step(r) \in {"possible", "applied"}

(* Mutation of TakenBack: the dispatch outlives its failed prompt. *)
TakenBackNever(r) == FALSE

(* failDispatch, when the prompt of a dispatch that is still active fails. *)
TakenBack(r) == kind[r] = "dispatch" /\ Step(r) = "applied"

(* The handler throws: discardPendingMutationReceipt leaves a completed     *)
(* receipt alone.                                                           *)
Throw(r) ==
  /\ Step(r) \in FailsAt(kind[r])
  /\ effects' = IF TakenBack(r) THEN [effects EXCEPT ![r] = @ - 1] ELSE effects
  /\ IF rows[r].state = "pending" /\ ~Doubtful(r)
     THEN rows' = [rows EXCEPT ![r] = Absent] /\ took' = took \ {r}
     ELSE UNCHANGED <<rows, took>>
  /\ Leave(r)
  /\ Tell(r, "failed")
  /\ UNCHANGED kind

(* An observation-only replay answers with the receipt whether or not it    *)
(* could observe.                                                           *)
ReplayEnds(r) ==
  /\ Step(r) = "replay"
  /\ Leave(r)
  /\ Tell(r, "receipt")
  /\ UNCHANGED <<kind, rows, effects, took>>

(* The runtime restarts; the callers it had get no answer. *)
Restart ==
  /\ \E r \in Requests : running[r] # None
  /\ running' = [r \in Requests |-> None]
  /\ told' = [r \in Requests |-> IF running[r] = None THEN told[r] ELSE None]
  /\ UNCHANGED <<kind, rows, effects, took>>

-----------------------------------------------------------------------------
Call(r) ==
  \/ \E p \in Payloads : Mismatch(r, p)
  \/ \E p \in Payloads : Begin(r, p)
  \/ BeginRefused(r)
  \/ Replay(r)
  \/ Resume(r)
  \/ Unknown(r)

Handle(r) ==
  \/ Checkpoint(r)
  \/ Commit(r)
  \/ CommitWithReceipt(r)
  \/ Accept(r)
  \/ AcceptRefused(r)
  \/ Overtake(r)
  \/ Record(r)
  \/ Return(r)
  \/ Throw(r)
  \/ ReplayEnds(r)

Next ==
  \/ \E r \in Requests : Call(r)
  \/ \E r \in Requests : Handle(r)
  \/ Restart

Spec == Init /\ [][Next]_vars

(* Handlers end and an interrupted call is repeated; the runtime is not     *)
(* always restarted before a step of its handler.                           *)
Fairness ==
  \A r \in Requests :
    /\ WF_vars(Resume(r))
    /\ SF_vars(Checkpoint(r))
    /\ SF_vars(Commit(r))
    /\ SF_vars(CommitWithReceipt(r))
    /\ SF_vars(Return(r) \/ Throw(r))

FairSpec == Spec /\ Fairness

-----------------------------------------------------------------------------
(* Properties *)

(* The methods a retry may repeat while the earlier effect stands: a        *)
(* release is made to be, and a remote start throws its receipt away when   *)
(* worker-show found its worker ready first.                                *)
MayRepeat == {"release", "remote_start"}

(* However often a call is repeated, joined, cut short by a restart or      *)
(* failed halfway, one effect of it at most is in force: no second message, *)
(* task or prompt, and no second worker next to one that works for the same *)
(* id.  A start or dispatch may run again after an error, but only when the *)
(* dispatch it made was settled, stopped or taken back.                     *)
AtMostOnce ==
  \A r \in Requests : kind[r] \notin MayRepeat => effects[r] <= 1

(* A receipt is the truth: what is answered as applied was, and what is     *)
(* answered as refused by the terminal was not written to it.               *)
ReceiptTellsTruth ==
  \A r \in Completed :
    /\ rows[r].note \in {"applied", "refused"}
    /\ rows[r].note = "applied" => r \in took
    /\ rows[r].note = "refused" => r \notin took /\ effects[r] = 0

(* An error the client may take as final, and retry under the same id, does *)
(* not hide an effect in force: nothing was done, what was done is on       *)
(* record, or the dispatch that was made is settled, being stopped or taken *)
(* back.                                                                    *)
FailureIsSafe ==
  \A r \in Requests :
    told[r] = "failed" /\ kind[r] \notin MayRepeat /\ effects[r] > 0
      => rows[r].state # "absent"

(* The ledger never outgrows its limit, and the mutations it refuses then   *)
(* are refused only because every receipt in it is of an unresolved call.   *)
LedgerBounded ==
  /\ Cardinality(Existing) <= MaxRows
  /\ \A r \in Requests :
       Refused(r) => \A q \in Existing : rows[q].state = "pending" \/ running[q] # None

(* A worker_done known to be without effect, or a release, that a restart   *)
(* interrupted is resolved by its retry; it does not stay in doubt.         *)
ResumableResolves ==
  \A r \in Requests : (Interrupted(r) /\ Resumable(r)) ~> (rows[r].state # "pending")
=============================================================================
