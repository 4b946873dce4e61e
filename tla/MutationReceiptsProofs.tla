------------------------ MODULE MutationReceiptsProofs ------------------------
(***************************************************************************)
(* The invariants of MutationReceipts, for any requests, payloads, ledger  *)
(* size and bound on the effects counted.                                  *)
(***************************************************************************)
EXTENDS MutationReceipts, FiniteSetTheorems, TLAPS

-----------------------------------------------------------------------------
(* The inductive invariant: what the receipt and the effects of a request  *)
(* are at each step of its handler, and between calls.                     *)

(* Nothing is done yet, unless an error of a remote start hides a worker; a *)
(* start has no row before it is accepted.                                  *)
NotYet(r) ==
  /\ kind[r] \notin MayRepeat => effects[r] = 0
  /\ kind[r] # "release" => r \notin took
  /\ rows[r].state = IF kind[r] \in Starts THEN "absent" ELSE "pending"

AtStep(r) ==
  /\ Step(r) = "invoked" => NotYet(r)
  /\ Step(r) = "checkpointed" => NotYet(r) /\ kind[r] = "worker_done"
  /\ Step(r) = "possible" => NotYet(r) /\ kind[r] = "prompt"
  /\ Step(r) = "applied" =>
       /\ kind[r] # "worker_done"
       /\ rows[r].state = "pending"
       /\ effects[r] > 0
       /\ r \in took
  /\ Step(r) = "overtaken" =>
       /\ kind[r] \in Starts \cup {"dispatch"}
       /\ rows[r].state = "pending"
       /\ kind[r] \notin MayRepeat => effects[r] = 0
       /\ r \in took
  /\ Step(r) = "recorded" =>
       /\ kind[r] \in Observed
       /\ rows[r].state = "completed"
       /\ rows[r].note = "applied"
  /\ Step(r) = "replay" => rows[r].state = "completed"

(* What a receipt says of the effect.                                      *)
InLedger(r) ==
  /\ rows[r].state # "absent" => rows[r].payload \in Payloads
  /\ kind[r] \notin MayRepeat => effects[r] <= 1
  /\ kind[r] \notin MayRepeat /\ rows[r].state = "absent" => effects[r] = 0
  /\ rows[r].state = "absent" => r \notin took
  /\ kind[r] = "worker_done" /\ rows[r].state = "pending" => effects[r] = 0 /\ r \notin took
  /\ rows[r].state = "completed" =>
       /\ rows[r].note \in {"applied", "refused"}
       /\ rows[r].note = "applied" => r \in took
       /\ rows[r].note = "refused" => r \notin took /\ effects[r] = 0

Sound(r) == AtStep(r) /\ InLedger(r)

IInv == TypeOK /\ \A r \in Requests : Sound(r)

-----------------------------------------------------------------------------
(* Lemmas *)

LEMMA RequestFields ==
  ASSUME TypeOK, NEW r \in Requests
  PROVE  /\ kind[r] \in Kinds
         /\ rows[r] \in [state : States, payload : Payloads \cup {None}, note : Notes]
         /\ running[r] \in [payload : Payloads, step : Steps] \cup {None}
         /\ effects[r] \in Nat
BY ReceiptConstants DEF TypeOK

(* A request that runs is at one of the steps. *)
LEMMA RunsAtStep ==
  ASSUME TypeOK, NEW r \in Requests, Step(r) \in Steps
  PROVE  /\ running[r] # None
         /\ running[r] \in [payload : Payloads, step : Steps]
         /\ running[r].step = Step(r)
BY RequestFields, ReceiptConstants DEF Step

(* A step of one request leaves what the others are. *)
LEMMA OneRequest ==
  ASSUME IInv, TypeOK', NEW r \in Requests, Sound(r)',
         kind' = kind,
         \A q \in Requests \ {r} :
           /\ rows'[q] = rows[q]
           /\ running'[q] = running[q]
           /\ effects'[q] = effects[q]
           /\ q \in took' <=> q \in took
  PROVE  IInv'
BY DEF IInv, Sound, AtStep, InLedger, NotYet, Step, Observed

(* A new row takes the place of completed receipts nothing runs for. *)
LEMMA Inserted ==
  ASSUME TypeOK, NEW r \in Requests, rows[r].state = "absent",
         NEW P \in SUBSET Requests,
         NEW row \in [state : States, payload : Payloads \cup {None}, note : Notes],
         Insert(r, P, row)
  PROVE  /\ r \notin P
         /\ \A q \in P : rows[q].state = "completed" /\ running[q] = None
         /\ rows' \in [Requests -> [state : States, payload : Payloads \cup {None}, note : Notes]]
         /\ told' \in [Requests -> Answers \cup {None}]
         /\ rows'[r] = row
         /\ \A q \in P : rows'[q] = Absent
         /\ \A q \in Requests \ {r} : q \notin P => rows'[q] = rows[q]
PROOF
<1>1. P \subseteq Prunable
  BY DEF Insert, Pruned
<1>2. \A q \in P : rows[q].state = "completed" /\ running[q] = None
  BY <1>1 DEF Prunable, Completed
<1>3. Absent \in [state : States, payload : Payloads \cup {None}, note : Notes]
  BY DEF Absent, States, Notes
<1> QED
  BY <1>2, <1>3 DEF TypeOK, Insert

LEMMA BeginSound ==
  ASSUME IInv, NEW r \in Requests, NEW p \in Payloads, Begin(r, p)
  PROVE  IInv'
PROOF
<1> USE DEF IInv
<1>1. /\ rows[r].state = "absent"
      /\ running[r] = None
      /\ kind' = kind
      /\ running' = [running EXCEPT ![r] = [payload |-> p, step |-> "invoked"]]
  BY DEF Begin, Run
<1>2. /\ running' \in [Requests -> [payload : Payloads, step : Steps] \cup {None}]
      /\ running'[r] = [payload |-> p, step |-> "invoked"]
      /\ \A q \in Requests \ {r} : running'[q] = running[q]
  BY <1>1 DEF TypeOK, Steps
<1>3. InLedger(r)
  BY DEF Sound
<1>4. CASE kind[r] \in Starts
  <2>1. UNCHANGED <<rows, effects, took, told>>
    BY <1>4 DEF Begin
  <2>2. TypeOK'
    BY <1>1, <1>2, <2>1 DEF TypeOK
  <2>3. Sound(r)'
    BY <1>1, <1>2, <1>3, <1>4, <2>1 DEF Sound, AtStep, InLedger, NotYet, Step, Observed
  <2> QED
    BY <1>1, <1>2, <2>1, <2>2, <2>3, OneRequest
<1>5. CASE kind[r] \notin Starts
  <2> DEFINE row == [state |-> "pending", payload |-> p, note |-> None]
  <2>1. PICK P \in SUBSET Requests :
          /\ Insert(r, P, row)
          /\ effects' = [q \in Requests |-> IF q \in P THEN 0 ELSE effects[q]]
          /\ took' = took \ P
    BY <1>5 DEF Begin
  <2>2. row \in [state : States, payload : Payloads \cup {None}, note : Notes]
    BY DEF States, Notes
  <2>3. /\ r \notin P
        /\ \A q \in P : rows[q].state = "completed" /\ running[q] = None
        /\ rows' \in [Requests -> [state : States, payload : Payloads \cup {None}, note : Notes]]
        /\ told' \in [Requests -> Answers \cup {None}]
        /\ rows'[r] = row
        /\ \A q \in P : rows'[q] = Absent
        /\ \A q \in Requests \ {r} : q \notin P => rows'[q] = rows[q]
    <3> HIDE DEF row
    <3> QED
      BY <1>1, <2>1, <2>2, Inserted
  <2>4. /\ effects' \in [Requests -> 0 .. MaxEffects]
        /\ \A q \in Requests : effects'[q] = IF q \in P THEN 0 ELSE effects[q]
        /\ took' \subseteq Requests
        /\ \A q \in Requests : q \in took' <=> q \in took /\ q \notin P
    BY <2>1, ReceiptConstants DEF TypeOK
  <2>5. TypeOK'
    BY <1>1, <1>2, <2>3, <2>4 DEF TypeOK
  <2>6. Sound(r)'
    BY <1>1, <1>2, <1>3, <1>5, <2>3, <2>4
       DEF Sound, AtStep, InLedger, NotYet, Step, Observed, MayRepeat
  <2>7. ASSUME NEW q \in Requests \ {r}
        PROVE  Sound(q)'
    <3>1. CASE q \in P
      <4>1. running'[q] = None /\ rows'[q] = Absent /\ effects'[q] = 0 /\ q \notin took'
        BY <1>2, <2>3, <2>4, <3>1
      <4> QED
        BY <4>1, ReceiptConstants DEF Sound, AtStep, InLedger, Step, Absent, Steps
    <3>2. CASE q \notin P
      <4>1. /\ running'[q] = running[q] /\ rows'[q] = rows[q]
            /\ effects'[q] = effects[q] /\ (q \in took' <=> q \in took)
        BY <1>2, <2>3, <2>4, <3>2
      <4> QED
        BY <1>1, <4>1 DEF Sound, AtStep, InLedger, NotYet, Step, Observed
    <3> QED
      BY <3>1, <3>2
  <2> QED
    BY <2>5, <2>6, <2>7
<1> QED
  BY <1>4, <1>5

LEMMA AcceptSound ==
  ASSUME IInv, NEW r \in Requests, Accept(r)
  PROVE  IInv'
PROOF
<1> USE DEF IInv
<1>1. /\ Step(r) = "invoked"
      /\ kind[r] \in Starts
      /\ kind' = kind
      /\ running' = [running EXCEPT ![r].step = "applied"]
  BY DEF Accept, GoOn
<1>2. /\ running[r] \in [payload : Payloads, step : Steps]
      /\ rows[r].state = "absent"
      /\ kind[r] \notin MayRepeat => effects[r] = 0
  BY <1>1, RunsAtStep DEF Steps, Sound, AtStep, NotYet
<1>3. /\ running' \in [Requests -> [payload : Payloads, step : Steps] \cup {None}]
      /\ running'[r] = [payload |-> running[r].payload, step |-> "applied"]
      /\ \A q \in Requests \ {r} : running'[q] = running[q]
  BY <1>1, <1>2 DEF TypeOK, Steps
<1> DEFINE row == [state |-> "pending", payload |-> running[r].payload, note |-> "accepted"]
<1>4. PICK P \in SUBSET Requests :
        /\ Insert(r, P, row)
        /\ effects' = [q \in Requests |-> IF q = r THEN Once(effects[q])
                                          ELSE IF q \in P THEN 0 ELSE effects[q]]
        /\ took' = (took \ P) \cup {r}
  BY DEF Accept
<1>5. row \in [state : States, payload : Payloads \cup {None}, note : Notes]
  BY <1>2 DEF States, Notes
<1>6. /\ r \notin P
      /\ \A q \in P : rows[q].state = "completed" /\ running[q] = None
      /\ rows' \in [Requests -> [state : States, payload : Payloads \cup {None}, note : Notes]]
      /\ told' \in [Requests -> Answers \cup {None}]
      /\ rows'[r] = row
      /\ \A q \in P : rows'[q] = Absent
      /\ \A q \in Requests \ {r} : q \notin P => rows'[q] = rows[q]
  <2> HIDE DEF row
  <2> QED
    BY <1>2, <1>4, <1>5, Inserted
<1>7. /\ effects' \in [Requests -> 0 .. MaxEffects]
      /\ effects'[r] > 0
      /\ kind[r] \notin MayRepeat => effects'[r] = 1
      /\ \A q \in Requests \ {r} : effects'[q] = IF q \in P THEN 0 ELSE effects[q]
      /\ took' \subseteq Requests /\ r \in took'
      /\ \A q \in Requests \ {r} : q \in took' <=> q \in took /\ q \notin P
  BY <1>2, <1>4, ReceiptConstants DEF TypeOK, Once
<1>8. TypeOK'
  BY <1>1, <1>3, <1>6, <1>7 DEF TypeOK
<1>9. Sound(r)'
  <2>1. /\ rows'[r].state = "pending"
        /\ rows'[r].payload \in Payloads
        /\ effects'[r] > 0
        /\ kind[r] \notin MayRepeat => effects'[r] = 1
        /\ kind'[r] = kind[r] /\ kind[r] \in Starts
        /\ r \in took'
    BY <1>1, <1>2, <1>6, <1>7
  <2>2. Step(r)' \in {None, "applied"}
    BY <1>3 DEF Step
  <2>3. AtStep(r)'
    BY <2>1, <2>2, ReceiptConstants DEF AtStep, Steps, MayRepeat, Starts
  <2>4. InLedger(r)'
    BY <2>1 DEF InLedger, MayRepeat, Starts
  <2> QED
    BY <2>3, <2>4 DEF Sound
<1>10. ASSUME NEW q \in Requests \ {r}
       PROVE  Sound(q)'
  <2>1. CASE q \in P
    <3>1. running'[q] = None /\ rows'[q] = Absent /\ effects'[q] = 0 /\ q \notin took'
      BY <1>3, <1>6, <1>7, <2>1
    <3> QED
      BY <3>1, ReceiptConstants DEF Sound, AtStep, InLedger, Step, Absent, Steps
  <2>2. CASE q \notin P
    <3>1. /\ running'[q] = running[q] /\ rows'[q] = rows[q]
          /\ effects'[q] = effects[q] /\ (q \in took' <=> q \in took)
      BY <1>3, <1>6, <1>7, <2>2
    <3> QED
      BY <1>1, <3>1 DEF Sound, AtStep, InLedger, NotYet, Step, Observed
  <2> QED
    BY <2>1, <2>2
<1> QED
  BY <1>8, <1>9, <1>10

-----------------------------------------------------------------------------
(* Each other step *)

(* Answers only. *)
LEMMA OnlyTold ==
  ASSUME IInv, NEW r \in Requests, NEW a \in Answers, Tell(r, a),
         UNCHANGED <<kind, rows, running, effects, took>>
  PROVE  IInv'
PROOF
<1>1. TypeOK'
  BY DEF IInv, TypeOK, Tell
<1> QED
  BY <1>1 DEF IInv, Sound, AtStep, InLedger, NotYet, Step

(* A request that is left alone is sound when its receipt is. *)
LEMMA LeftSound ==
  ASSUME IInv, NEW r \in Requests, Leave(r), TypeOK', InLedger(r)',
         UNCHANGED kind,
         \A q \in Requests \ {r} :
           /\ rows'[q] = rows[q]
           /\ effects'[q] = effects[q]
           /\ q \in took' <=> q \in took
  PROVE  IInv'
PROOF
<1>1. /\ running'[r] = None
      /\ \A q \in Requests \ {r} : running'[q] = running[q]
  BY DEF IInv, TypeOK, Leave
<1>2. Sound(r)'
  BY <1>1, ReceiptConstants DEF Sound, AtStep, Step, Steps
<1> QED
  BY <1>1, <1>2, OneRequest

LEMMA ReplaySound ==
  ASSUME IInv, NEW r \in Requests, Replay(r)
  PROVE  IInv'
PROOF
<1>1. CASE Tell(r, "receipt") /\ UNCHANGED running
  BY <1>1, OnlyTold DEF Replay, Answers
<1>2. CASE Run(r, rows[r].payload, "replay") /\ UNCHANGED told
  <2>1. rows[r].payload \in Payloads /\ rows[r].state = "completed"
    BY DEF Replay, IInv, Sound, InLedger
  <2>2. /\ running' \in [Requests -> [payload : Payloads, step : Steps] \cup {None}]
        /\ running'[r].step = "replay"
        /\ \A q \in Requests \ {r} : running'[q] = running[q]
    BY <1>2, <2>1 DEF Run, IInv, TypeOK, Steps
  <2>3. UNCHANGED <<kind, rows, effects, took, told>>
    BY <1>2 DEF Replay
  <2>4. TypeOK'
    BY <2>2, <2>3 DEF IInv, TypeOK
  <2>5. Step(r)' \in {None, "replay"}
    BY <2>2 DEF Step
  <2>6. Sound(r)'
    BY <2>1, <2>3, <2>5, ReceiptConstants DEF IInv, Sound, AtStep, InLedger, Steps
  <2> QED
    BY <2>2, <2>3, <2>4, <2>6, OneRequest
<1> QED
  BY <1>1, <1>2 DEF Replay

(* Only a release, or a worker_done without effect, is run again. *)
LEMMA ResumeSound ==
  ASSUME IInv, NEW r \in Requests, Resume(r)
  PROVE  IInv'
PROOF
<1>1. /\ rows[r].state = "pending"
      /\ kind[r] \in {"release", "worker_done"}
      /\ UNCHANGED <<kind, rows, effects, took, told>>
      /\ rows[r].payload \in Payloads
      /\ kind[r] # "release" => effects[r] = 0 /\ r \notin took
  BY DEF Resume, Interrupted, Resumable, IInv, Sound, InLedger
<1>2. /\ running' \in [Requests -> [payload : Payloads, step : Steps] \cup {None}]
      /\ running'[r].step = "invoked"
      /\ \A q \in Requests \ {r} : running'[q] = running[q]
  BY <1>1 DEF Resume, Run, IInv, TypeOK, Steps
<1>3. TypeOK'
  BY <1>1, <1>2 DEF IInv, TypeOK
<1>4. Step(r)' \in {None, "invoked"}
  BY <1>2 DEF Step
<1>5. Sound(r)'
  BY <1>1, <1>4, ReceiptConstants DEF IInv, Sound, AtStep, InLedger, NotYet, Steps, MayRepeat, Starts
<1> QED
  BY <1>1, <1>2, <1>3, <1>5, OneRequest

(* A running request goes on to another step. *)
LEMMA GoesOn ==
  ASSUME TypeOK, NEW r \in Requests, Step(r) \in Steps,
         NEW s \in Steps, GoOn(r, s)
  PROVE  /\ running' \in [Requests -> [payload : Payloads, step : Steps] \cup {None}]
         /\ Step(r)' \in {None, s}
         /\ \A q \in Requests \ {r} : running'[q] = running[q]
PROOF
<1>1. running[r] \in [payload : Payloads, step : Steps]
  BY RunsAtStep
<1>2. /\ running' = [running EXCEPT ![r] = [running[r] EXCEPT !.step = s]]
      /\ [running[r] EXCEPT !.step = s] \in [payload : Payloads, step : Steps]
      /\ [running[r] EXCEPT !.step = s].step = s
  BY <1>1 DEF GoOn
<1> QED
  BY <1>2 DEF TypeOK, Step

(* One more effect, or as many as are counted. *)
LEMMA OneEffect ==
  ASSUME TypeOK, NEW r \in Requests, Effect(r)
  PROVE  /\ effects' \in [Requests -> 0 .. MaxEffects]
         /\ effects'[r] > 0
         /\ effects[r] = 0 => effects'[r] = 1
         /\ took' \subseteq Requests /\ r \in took'
         /\ \A q \in Requests \ {r} : q \in took' <=> q \in took
         /\ \A q \in Requests \ {r} : effects'[q] = effects[q]
BY ReceiptConstants DEF TypeOK, Effect, Once

(* A receipt completed. *)
LEMMA CompletedRow ==
  ASSUME TypeOK, NEW r \in Requests, NEW note \in Notes, Complete(r, note)
  PROVE  /\ rows' \in [Requests -> [state : States, payload : Payloads \cup {None}, note : Notes]]
         /\ rows'[r].state = "completed"
         /\ rows'[r].note = note
         /\ rows'[r].payload = rows[r].payload
         /\ \A q \in Requests \ {r} : rows'[q] = rows[q]
PROOF
<1>1. rows[r] \in [state : States, payload : Payloads \cup {None}, note : Notes]
  BY DEF TypeOK
<1>2. rows' = [rows EXCEPT ![r] = [rows[r] EXCEPT !.state = "completed", !.note = note]]
  BY DEF Complete
<1>3. /\ [rows[r] EXCEPT !.state = "completed", !.note = note] \in
            [state : States, payload : Payloads \cup {None}, note : Notes]
      /\ [rows[r] EXCEPT !.state = "completed", !.note = note].state = "completed"
      /\ [rows[r] EXCEPT !.state = "completed", !.note = note].note = note
      /\ [rows[r] EXCEPT !.state = "completed", !.note = note].payload = rows[r].payload
  BY <1>1 DEF States
<1> QED
  BY <1>2, <1>3 DEF TypeOK

LEMMA CheckpointSound ==
  ASSUME IInv, NEW r \in Requests, Checkpoint(r)
  PROVE  IInv'
PROOF
<1>1. /\ Step(r) = "invoked"
      /\ UNCHANGED <<kind, effects, took, told>>
      /\ NotYet(r)
      /\ InLedger(r)
  BY DEF Checkpoint, IInv, Sound, AtStep
<1>2. CASE kind[r] = "worker_done"
  <2>1. /\ rows' = [rows EXCEPT ![r].note = "effect_free"]
        /\ GoOn(r, "checkpointed")
    BY <1>2 DEF Checkpoint
  <2>2. /\ rows' \in [Requests -> [state : States, payload : Payloads \cup {None}, note : Notes]]
        /\ rows'[r].state = rows[r].state
        /\ rows'[r].payload = rows[r].payload
        /\ \A q \in Requests \ {r} : rows'[q] = rows[q]
    BY <2>1 DEF IInv, TypeOK, Notes
  <2>3. /\ running' \in [Requests -> [payload : Payloads, step : Steps] \cup {None}]
        /\ Step(r)' \in {None, "checkpointed"}
        /\ \A q \in Requests \ {r} : running'[q] = running[q]
    BY <1>1, <2>1, GoesOn DEF IInv, Steps
  <2>4. TypeOK'
    BY <1>1, <2>2, <2>3 DEF IInv, TypeOK
  <2>5. Sound(r)'
    BY <1>1, <1>2, <2>2, <2>3, ReceiptConstants
       DEF Sound, AtStep, InLedger, NotYet, Steps
  <2> QED
    BY <1>1, <2>2, <2>3, <2>4, <2>5, OneRequest
<1>3. CASE kind[r] # "worker_done"
  <2>1. kind[r] = "prompt" /\ GoOn(r, "possible") /\ UNCHANGED rows
    BY <1>3 DEF Checkpoint
  <2>2. /\ running' \in [Requests -> [payload : Payloads, step : Steps] \cup {None}]
        /\ Step(r)' \in {None, "possible"}
        /\ \A q \in Requests \ {r} : running'[q] = running[q]
    BY <1>1, <2>1, GoesOn DEF IInv, Steps
  <2>3. TypeOK'
    BY <1>1, <2>1, <2>2 DEF IInv, TypeOK
  <2>4. Sound(r)'
    BY <1>1, <2>1, <2>2, ReceiptConstants
       DEF Sound, AtStep, InLedger, NotYet, Steps
  <2> QED
    BY <1>1, <2>1, <2>2, <2>3, <2>4, OneRequest
<1> QED
  BY <1>2, <1>3

LEMMA CommitSound ==
  ASSUME IInv, NEW r \in Requests, Commit(r)
  PROVE  IInv'
PROOF
<1>1. /\ Step(r) \in {"invoked", "possible"}
      /\ kind[r] \in {"create", "send", "release", "dispatch", "prompt"}
      /\ UNCHANGED <<kind, rows, told>>
      /\ NotYet(r)
      /\ InLedger(r)
  BY DEF Commit, IInv, Sound, AtStep
<1>2. /\ running' \in [Requests -> [payload : Payloads, step : Steps] \cup {None}]
      /\ Step(r)' \in {None, "applied"}
      /\ \A q \in Requests \ {r} : running'[q] = running[q]
  BY <1>1, GoesOn DEF Commit, IInv, Steps
<1>3. /\ effects' \in [Requests -> 0 .. MaxEffects]
      /\ effects'[r] > 0
      /\ effects[r] = 0 => effects'[r] = 1
      /\ took' \subseteq Requests /\ r \in took'
      /\ \A q \in Requests \ {r} : q \in took' <=> q \in took
      /\ \A q \in Requests \ {r} : effects'[q] = effects[q]
  BY OneEffect DEF Commit, IInv
<1>4. TypeOK'
  BY <1>1, <1>2, <1>3 DEF IInv, TypeOK
<1>5. Sound(r)'
  BY <1>1, <1>2, <1>3, ReceiptConstants DEF Sound, AtStep, InLedger, NotYet, Steps, MayRepeat, Starts
<1> QED
  BY <1>1, <1>2, <1>3, <1>4, <1>5, OneRequest

LEMMA CommitWithReceiptSound ==
  ASSUME IInv, NEW r \in Requests, CommitWithReceipt(r)
  PROVE  IInv'
PROOF
<1>1. /\ Step(r) = "checkpointed"
      /\ UNCHANGED <<kind, told>>
      /\ NotYet(r)
      /\ InLedger(r)
      /\ kind[r] = "worker_done"
  BY DEF CommitWithReceipt, IInv, Sound, AtStep
<1>2. /\ running' \in [Requests -> [payload : Payloads, step : Steps] \cup {None}]
      /\ Step(r)' \in {None, "recorded"}
      /\ \A q \in Requests \ {r} : running'[q] = running[q]
  BY <1>1, GoesOn DEF CommitWithReceipt, IInv, Steps
<1>3. /\ effects' \in [Requests -> 0 .. MaxEffects]
      /\ effects'[r] > 0
      /\ effects[r] = 0 => effects'[r] = 1
      /\ took' \subseteq Requests /\ r \in took'
      /\ \A q \in Requests \ {r} : q \in took' <=> q \in took
      /\ \A q \in Requests \ {r} : effects'[q] = effects[q]
  BY OneEffect DEF CommitWithReceipt, IInv
<1>4. /\ rows' \in [Requests -> [state : States, payload : Payloads \cup {None}, note : Notes]]
      /\ rows'[r].state = "completed"
      /\ rows'[r].note = "applied"
      /\ rows'[r].payload = rows[r].payload
      /\ \A q \in Requests \ {r} : rows'[q] = rows[q]
  BY CompletedRow DEF CommitWithReceipt, IInv, Notes
<1>5. TypeOK'
  BY <1>1, <1>2, <1>3, <1>4 DEF IInv, TypeOK
<1>6. Sound(r)'
  BY <1>1, <1>2, <1>3, <1>4, ReceiptConstants
     DEF Sound, AtStep, InLedger, NotYet, Steps, Observed, MayRepeat, Starts
<1> QED
  BY <1>1, <1>2, <1>3, <1>4, <1>5, <1>6, OneRequest

(* A start that the full ledger refuses has done nothing. *)
LEMMA AcceptRefusedSound ==
  ASSUME IInv, NEW r \in Requests, AcceptRefused(r)
  PROVE  IInv'
PROOF
<1>1. Leave(r) /\ Tell(r, "full") /\ UNCHANGED <<kind, rows, effects, took>>
  BY DEF AcceptRefused
<1>2. TypeOK'
  BY <1>1 DEF IInv, TypeOK, Leave, Tell, Answers
<1>3. InLedger(r)'
  BY <1>1 DEF IInv, Sound, InLedger
<1> QED
  BY <1>1, <1>2, <1>3, LeftSound

LEMMA RecordSound ==
  ASSUME IInv, NEW r \in Requests, Record(r)
  PROVE  IInv'
PROOF
<1>1. /\ Step(r) = "applied"
      /\ kind[r] \in {"send", "prompt"}
      /\ UNCHANGED <<kind, effects, took, told>>
      /\ r \in took
      /\ rows[r].state = "pending"
      /\ InLedger(r)
  BY DEF Record, RecordsAt, IInv, Sound, AtStep
<1>2. /\ running' \in [Requests -> [payload : Payloads, step : Steps] \cup {None}]
      /\ Step(r)' \in {None, "recorded"}
      /\ \A q \in Requests \ {r} : running'[q] = running[q]
  BY <1>1, GoesOn DEF Record, IInv, Steps
<1>3. /\ rows' \in [Requests -> [state : States, payload : Payloads \cup {None}, note : Notes]]
      /\ rows'[r].state = "completed"
      /\ rows'[r].note = "applied"
      /\ rows'[r].payload = rows[r].payload
      /\ \A q \in Requests \ {r} : rows'[q] = rows[q]
  BY CompletedRow DEF Record, IInv, Notes
<1>4. TypeOK'
  BY <1>1, <1>2, <1>3 DEF IInv, TypeOK
<1>5. Sound(r)'
  BY <1>1, <1>2, <1>3, RequestFields, ReceiptConstants
     DEF IInv, Sound, AtStep, InLedger, Steps, Observed
<1> QED
  BY <1>1, <1>2, <1>3, <1>4, <1>5, OneRequest

(* What is answered as applied was; what is answered as refused was not.   *)
LEMMA ReturnSound ==
  ASSUME IInv, NEW r \in Requests, Return(r)
  PROVE  IInv'
PROOF
<1>1. /\ Leave(r)
      /\ Tell(r, "receipt")
      /\ UNCHANGED <<kind, effects, took>>
      /\ Sound(r)
      /\ effects[r] \in Nat
  BY RequestFields DEF Return, IInv
<1>2. PICK note \in {"applied", "refused"} :
        /\ Complete(r, note)
        /\ rows[r].state # "absent"
        /\ note = "applied" => r \in took
        /\ note = "refused" => r \notin took /\ effects[r] = 0
  <2>1. CASE Step(r) = "applied" /\ Complete(r, "applied")
    BY <1>1, <2>1 DEF Sound, AtStep
  <2>2. CASE Step(r) = "recorded" /\ Complete(r, "applied")
    BY <1>1, <2>2 DEF Sound, AtStep, InLedger
  <2>3. CASE Step(r) \in {"invoked", "possible"} /\ kind[r] = "prompt" /\ Complete(r, "refused")
    BY <1>1, <2>3 DEF Sound, AtStep, NotYet, MayRepeat, Starts
  <2>4. CASE Step(r) = "overtaken" /\ Complete(r, "applied")
    BY <1>1, <2>4 DEF Sound, AtStep
  <2> QED
    BY <2>1, <2>2, <2>3, <2>4 DEF Return
<1>3. /\ rows' \in [Requests -> [state : States, payload : Payloads \cup {None}, note : Notes]]
      /\ rows'[r].state = "completed"
      /\ rows'[r].note = note
      /\ rows'[r].payload = rows[r].payload
      /\ \A q \in Requests \ {r} : rows'[q] = rows[q]
  BY <1>2, CompletedRow DEF IInv, Notes
<1>4. TypeOK'
  BY <1>1, <1>3 DEF IInv, TypeOK, Leave, Tell, Answers
<1>5. InLedger(r)'
  BY <1>1, <1>2, <1>3 DEF Sound, InLedger
<1> QED
  BY <1>1, <1>3, <1>4, <1>5, LeftSound

(* Others end the dispatch of a request, or anticipate its answer. *)
LEMMA OvertakeSound ==
  ASSUME IInv, NEW r \in Requests, Overtake(r)
  PROVE  IInv'
PROOF
<1>1. /\ Step(r) = "applied"
      /\ kind[r] \in Starts \cup {"dispatch"}
      /\ UNCHANGED <<kind, rows, took, told>>
      /\ effects[r] \in 1 .. MaxEffects
      /\ r \in took
      /\ rows[r].state = "pending"
      /\ InLedger(r)
  BY ReceiptConstants DEF Overtake, IInv, TypeOK, Sound, AtStep
<1>2. /\ running' \in [Requests -> [payload : Payloads, step : Steps] \cup {None}]
      /\ Step(r)' \in {None, "overtaken"}
      /\ \A q \in Requests \ {r} : running'[q] = running[q]
  BY <1>1, GoesOn DEF Overtake, IInv, Steps
<1>3. /\ effects' \in [Requests -> 0 .. MaxEffects]
      /\ kind[r] \notin MayRepeat => effects'[r] = 0
      /\ \A q \in Requests \ {r} : effects'[q] = effects[q]
  <2>1. CASE effects' = [effects EXCEPT ![r] = @ - 1]
    <3>1. effects[r] - 1 \in 0 .. MaxEffects
      BY <1>1, ReceiptConstants
    <3>2. kind[r] \notin MayRepeat => effects[r] - 1 = 0
      BY <1>1 DEF InLedger
    <3> QED
      BY <2>1, <3>1, <3>2 DEF IInv, TypeOK
  <2>2. CASE kind[r] = "remote_start" /\ UNCHANGED effects
    BY <2>2 DEF IInv, TypeOK, MayRepeat
  <2> QED
    BY <2>1, <2>2 DEF Overtake
<1>4. TypeOK'
  BY <1>1, <1>2, <1>3 DEF IInv, TypeOK
<1>5. AtStep(r)'
  BY <1>1, <1>2, <1>3, ReceiptConstants DEF AtStep, Steps
<1>6. InLedger(r)'
  BY <1>1, <1>3 DEF InLedger
<1>7. Sound(r)'
  BY <1>5, <1>6 DEF Sound
<1> QED
  BY <1>1, <1>2, <1>3, <1>4, <1>7, OneRequest

(* An error forgets the request only while no effect of it is in force, or *)
(* when the request may repeat it.                                         *)
LEMMA ThrowSound ==
  ASSUME IInv, NEW r \in Requests, Throw(r)
  PROVE  IInv'
PROOF
<1>1. /\ Leave(r)
      /\ Tell(r, "failed")
      /\ UNCHANGED kind
      /\ Sound(r)
      /\ Step(r) \in FailsAt(kind[r])
      /\ kind[r] \in Kinds
  BY RequestFields DEF Throw, IInv
<1>2. /\ effects' \in [Requests -> 0 .. MaxEffects]
      /\ TakenBack(r) => effects'[r] = 0
      /\ ~TakenBack(r) => effects'[r] = effects[r]
      /\ \A q \in Requests \ {r} : effects'[q] = effects[q]
  <2>1. CASE TakenBack(r)
    <3>1. effects[r] \in 1 .. MaxEffects /\ effects[r] - 1 = 0
      <4>1. effects[r] > 0 /\ effects[r] <= 1 /\ effects[r] \in Nat
        BY <1>1, <2>1, RequestFields
           DEF TakenBack, Sound, AtStep, InLedger, MayRepeat, IInv
      <4> QED
        BY <4>1, ReceiptConstants
    <3>2. effects' = [effects EXCEPT ![r] = effects[r] - 1]
      BY <2>1 DEF Throw
    <3>3. 0 \in 0 .. MaxEffects
      BY ReceiptConstants
    <3> QED
      BY <2>1, <3>1, <3>2, <3>3 DEF IInv, TypeOK
  <2>2. CASE ~TakenBack(r)
    BY <2>2 DEF Throw, IInv, TypeOK
  <2> QED
    BY <2>1, <2>2
<1>3. CASE rows[r].state = "pending" /\ ~Doubtful(r)
  <2>1. rows' = [rows EXCEPT ![r] = Absent] /\ took' = took \ {r}
    BY <1>3 DEF Throw
  <2>2. /\ rows' \in [Requests -> [state : States, payload : Payloads \cup {None}, note : Notes]]
        /\ rows'[r] = Absent
        /\ \A q \in Requests \ {r} : rows'[q] = rows[q]
    BY <2>1 DEF IInv, TypeOK, Absent, States, Notes
  <2>3. TypeOK'
    BY <1>1, <1>2, <2>1, <2>2 DEF IInv, TypeOK, Leave, Tell, Answers
  <2>4. kind[r] \notin MayRepeat => effects'[r] = 0
    <3>1. CASE Step(r) \in {"invoked", "checkpointed", "possible", "overtaken"}
      BY <1>1, <1>2, <3>1 DEF Sound, AtStep, NotYet
    <3>2. CASE Step(r) = "applied"
      BY <1>1, <1>2, <1>3, <3>2
         DEF FailsAt, Doubtful, TakenBack, Kinds, Starts, MayRepeat
    <3>3. CASE Step(r) = "recorded"
      BY <1>1, <1>3, <3>3 DEF Sound, AtStep
    <3> QED
      BY <1>1, <3>1, <3>2, <3>3 DEF FailsAt, Kinds, Starts
  <2>5. InLedger(r)'
    BY <1>1, <2>1, <2>2, <2>4 DEF InLedger, Absent, MayRepeat
  <2> QED
    BY <1>1, <1>2, <2>1, <2>2, <2>3, <2>5, LeftSound
<1>4. CASE ~(rows[r].state = "pending" /\ ~Doubtful(r))
  <2>1. UNCHANGED <<rows, took>>
    BY <1>4 DEF Throw
  <2>2. TypeOK'
    BY <1>1, <1>2, <2>1 DEF IInv, TypeOK, Leave, Tell, Answers
  <2>3. ~TakenBack(r)
    BY <1>1, <1>4 DEF TakenBack, Doubtful, Sound, AtStep
  <2>4. InLedger(r)'
    BY <1>1, <1>2, <2>1, <2>3 DEF Sound, InLedger, MayRepeat
  <2> QED
    BY <1>1, <1>2, <2>1, <2>2, <2>4, LeftSound
<1> QED
  BY <1>3, <1>4

LEMMA ReplayEndsSound ==
  ASSUME IInv, NEW r \in Requests, ReplayEnds(r)
  PROVE  IInv'
PROOF
<1>1. Leave(r) /\ Tell(r, "receipt") /\ UNCHANGED <<kind, rows, effects, took>>
  BY DEF ReplayEnds
<1>2. TypeOK'
  BY <1>1 DEF IInv, TypeOK, Leave, Tell, Answers
<1>3. InLedger(r)'
  BY <1>1 DEF IInv, Sound, InLedger
<1> QED
  BY <1>1, <1>2, <1>3, LeftSound

LEMMA RestartSound ==
  ASSUME IInv, Restart
  PROVE  IInv'
PROOF
<1>1. TypeOK'
  BY DEF IInv, TypeOK, Restart
<1>2. ASSUME NEW r \in Requests
      PROVE  Sound(r)'
  <2>1. running'[r] = None
    BY DEF Restart
  <2>2. AtStep(r)'
    BY <2>1, ReceiptConstants DEF AtStep, Step, Steps
  <2>3. InLedger(r)'
    BY DEF Restart, IInv, Sound, InLedger
  <2> QED
    BY <2>2, <2>3 DEF Sound
<1> QED
  BY <1>1, <1>2 DEF IInv

LEMMA InitSound == Init => IInv
PROOF
<1>1. SUFFICES ASSUME Init
               PROVE  IInv
  OBVIOUS
<1>2. TypeOK
  BY <1>1, ReceiptConstants DEF Init, TypeOK, Absent, States, Notes
<1>3. ASSUME NEW r \in Requests
      PROVE  Sound(r)
  <2>1. running[r] = None /\ rows[r] = Absent /\ effects[r] = 0 /\ took = {}
    BY <1>1 DEF Init
  <2> QED
    BY <2>1, ReceiptConstants DEF Sound, AtStep, InLedger, Step, Steps, Absent
<1> QED
  BY <1>2, <1>3 DEF IInv

LEMMA NextSound == IInv /\ [Next]_vars => IInv'
PROOF
<1> SUFFICES ASSUME IInv, [Next]_vars
             PROVE  IInv'
  OBVIOUS
<1>1. CASE \E r \in Requests : Call(r)
  <2>1. PICK r \in Requests : Call(r)
    BY <1>1
  <2>2. CASE \E p \in Payloads : Mismatch(r, p)
    BY <2>2, OnlyTold DEF Mismatch, Answers
  <2>3. CASE \E p \in Payloads : Begin(r, p)
    BY <2>3, BeginSound
  <2>4. CASE BeginRefused(r)
    BY <2>4, OnlyTold DEF BeginRefused, Answers
  <2>5. CASE Replay(r)
    BY <2>5, ReplaySound
  <2>6. CASE Resume(r)
    BY <2>6, ResumeSound
  <2>7. CASE Unknown(r)
    BY <2>7, OnlyTold DEF Unknown, Answers
  <2> QED
    BY <2>1, <2>2, <2>3, <2>4, <2>5, <2>6, <2>7 DEF Call
<1>2. CASE \E r \in Requests : Handle(r)
  BY <1>2, CheckpointSound, CommitSound, CommitWithReceiptSound, AcceptSound,
     AcceptRefusedSound, OvertakeSound, RecordSound, ReturnSound, ThrowSound, ReplayEndsSound
     DEF Handle
<1>3. CASE Restart
  BY <1>3, RestartSound
<1>4. CASE UNCHANGED vars
  BY <1>4 DEF vars, IInv, TypeOK, Sound, AtStep, InLedger, NotYet, Step
<1> QED
  BY <1>1, <1>2, <1>3, <1>4 DEF Next

-----------------------------------------------------------------------------
(* Theorems *)

(* At every step of a handler, and while none runs, receipt, effect count  *)
(* and last answer of each request fit together, also after a crash.       *)
THEOREM ReceiptsSound == Spec => []IInv
BY InitSound, NextSound, PTL DEF Spec

(* Rows, executions and answers keep their types. *)
THEOREM ReceiptsTyped == Spec => []TypeOK
<1>1. IInv => TypeOK
  BY DEF IInv
<1> QED
  BY <1>1, ReceiptsSound, PTL

(* Through restarts, joins, repeats, failures, and others that settle or    *)
(* stop a dispatch under the handler that made it, one effect of a request  *)
(* at most is in force while its receipt is kept.                           *)
THEOREM EffectsOnce == Spec => []AtMostOnce
<1>1. IInv => AtMostOnce
  BY DEF IInv, Sound, InLedger, AtMostOnce
<1> QED
  BY <1>1, ReceiptsSound, PTL

(* What a completed receipt says of its effect is so. *)
THEOREM ReceiptsTrue == Spec => []ReceiptTellsTruth
<1>1. IInv => ReceiptTellsTruth
  BY DEF IInv, Sound, InLedger, ReceiptTellsTruth, Completed
<1> QED
  BY <1>1, ReceiptsSound, PTL

(* A failed call hides no effect in force: a dispatch whose receipt an      *)
(* error discards has been settled, stopped or taken back.                  *)
THEOREM FailuresSafe == Spec => []FailureIsSafe
<1>1. IInv => FailureIsSafe
  <2> SUFFICES ASSUME IInv, NEW r \in Requests, kind[r] \notin MayRepeat,
                      effects[r] > 0, rows[r].state = "absent"
               PROVE  FALSE
    BY DEF FailureIsSafe
  <2> QED
    BY DEF IInv, Sound, InLedger
<1> QED
  BY <1>1, ReceiptsSound, PTL

-----------------------------------------------------------------------------
(* The size of the ledger *)

Within == Cardinality(Existing) <= MaxRows

LEMMA RequestSetsFinite ==
  ASSUME NEW S \in SUBSET Requests
  PROVE  IsFiniteSet(S) /\ Cardinality(S) \in Nat
BY ReceiptConstants, FS_Subset, FS_CardinalityType

(* A step that adds no row. *)
LEMMA NoNewRow ==
  ASSUME Within, \A q \in Requests : rows'[q].state # "absent" => rows[q].state # "absent"
  PROVE  Within'
PROOF
<1>1. Existing' \subseteq Existing /\ Existing \in SUBSET Requests
  BY DEF Existing
<1>2. PICK S \in SUBSET Requests : S = Existing
  BY <1>1
<1>3. PICK T \in SUBSET S : T = Existing'
  BY <1>1, <1>2
<1>4. Cardinality(T) <= Cardinality(S) /\ Cardinality(S) \in Nat /\ Cardinality(T) \in Nat
  BY RequestSetsFinite, FS_Subset
<1> QED
  BY <1>2, <1>3, <1>4, ReceiptConstants DEF Within

(* A row that is inserted has room. *)
LEMMA InsertedWithin ==
  ASSUME NEW r \in Requests, NEW P \in SUBSET Requests, NEW row, Insert(r, P, row)
  PROVE  Within'
PROOF
<1>1. Existing' \subseteq (Existing \ P) \cup {r}
  BY DEF Existing, Insert, Absent
<1>2. PICK S \in SUBSET Requests : S = Existing \ P
  BY DEF Existing
<1>3. PICK T \in SUBSET (S \cup {r}) : T = Existing'
  BY <1>1, <1>2
<1>4. /\ IsFiniteSet(S \cup {r})
      /\ Cardinality(S \cup {r}) <= Cardinality(S) + 1
      /\ Cardinality(S) \in Nat
  BY RequestSetsFinite, FS_AddElement
<1>5. Cardinality(T) <= Cardinality(S \cup {r}) /\ Cardinality(T) \in Nat
  <2>1. S \cup {r} \in SUBSET Requests
    OBVIOUS
  <2> QED
    BY <1>4, <2>1, RequestSetsFinite, FS_Subset
<1>6. Cardinality(S \cup {r}) \in Nat
  BY RequestSetsFinite
<1>7. Cardinality(S) < MaxRows
  BY <1>2 DEF Insert, HasRoom
<1> QED
  BY <1>3, <1>4, <1>5, <1>6, <1>7, ReceiptConstants DEF Within

(* Completing a receipt that exists. *)
LEMMA CompletedWithin ==
  ASSUME IInv, Within, NEW r \in Requests, NEW note \in Notes, Complete(r, note),
         rows[r].state # "absent"
  PROVE  Within'
PROOF
<1>1. \A q \in Requests \ {r} : rows'[q] = rows[q]
  BY CompletedRow DEF IInv
<1> QED
  BY <1>1, NoNewRow

LEMMA NextWithin == IInv /\ Within /\ [Next]_vars => Within'
PROOF
<1> SUFFICES ASSUME IInv, Within, [Next]_vars
             PROVE  Within'
  OBVIOUS
<1>1. CASE UNCHANGED rows
  BY <1>1, NoNewRow
<1>2. ASSUME NEW r \in Requests, NEW p \in Payloads, Begin(r, p)
      PROVE  Within'
  BY <1>1, <1>2, InsertedWithin DEF Begin
<1>3. ASSUME NEW r \in Requests, Accept(r)
      PROVE  Within'
  BY <1>3, InsertedWithin DEF Accept
<1>4. ASSUME NEW r \in Requests, Checkpoint(r)
      PROVE  Within'
  <2>1. CASE rows' = [rows EXCEPT ![r].note = "effect_free"]
    <3>1. \A q \in Requests : rows'[q].state = rows[q].state
      BY <2>1 DEF IInv, TypeOK
    <3> QED
      BY <3>1, NoNewRow
  <2> QED
    BY <1>1, <1>4, <2>1 DEF Checkpoint
<1>5. ASSUME NEW r \in Requests, CommitWithReceipt(r)
      PROVE  Within'
  <2>1. rows[r].state # "absent"
    BY <1>5 DEF CommitWithReceipt, IInv, Sound, AtStep, NotYet, MayRepeat, Starts
  <2> QED
    BY <1>5, <2>1, CompletedWithin DEF CommitWithReceipt, Notes
<1>6. ASSUME NEW r \in Requests, Record(r)
      PROVE  Within'
  <2>1. rows[r].state # "absent"
    BY <1>6 DEF Record, RecordsAt, IInv, Sound, AtStep
  <2> QED
    BY <1>6, <2>1, CompletedWithin DEF Record, Notes
<1>7. ASSUME NEW r \in Requests, Return(r)
      PROVE  Within'
  <2>1. rows[r].state # "absent"
    BY <1>7 DEF Return, IInv, Sound, AtStep, NotYet, MayRepeat, Starts
  <2> QED
    BY <1>7, <2>1, CompletedWithin DEF Return, Notes
<1>8. ASSUME NEW r \in Requests, Throw(r)
      PROVE  Within'
  <2>1. CASE rows' = [rows EXCEPT ![r] = Absent]
    <3>1. \A q \in Requests : rows'[q].state # "absent" => rows[q].state # "absent"
      BY <2>1 DEF IInv, TypeOK, Absent
    <3> QED
      BY <3>1, NoNewRow
  <2> QED
    BY <1>1, <1>8, <2>1 DEF Throw
<1>9. CASE \E r \in Requests : Call(r)
  BY <1>1, <1>2, <1>9 DEF Call, Mismatch, BeginRefused, Replay, Resume, Unknown
<1>10. CASE \E r \in Requests : Handle(r)
  BY <1>1, <1>3, <1>4, <1>5, <1>6, <1>7, <1>8, <1>10
     DEF Handle, Commit, AcceptRefused, Overtake, ReplayEnds
<1>11. CASE Restart \/ UNCHANGED vars
  BY <1>1, <1>11 DEF Restart, vars
<1> QED
  BY <1>9, <1>10, <1>11 DEF Next

(* A full ledger refuses a new row only when nothing in it can be pruned.  *)
LEMMA RefusalMeansFull ==
  ASSUME TypeOK, Within, NEW r \in Requests, Refused(r)
  PROVE  Prunable = {}
PROOF
<1>1. PICK P \in SUBSET Requests : Pruned(P) /\ ~HasRoom(P)
  BY DEF Refused
<1>2. PICK S \in SUBSET Requests : S = Existing
  BY DEF Existing
<1>3. PICK T \in SUBSET S : T = Existing \ P
  BY <1>2
<1>4. Cardinality(S) \in Nat /\ Cardinality(T) \in Nat /\ IsFiniteSet(S)
  BY RequestSetsFinite
<1>5. Cardinality(T) <= Cardinality(S) /\ (Cardinality(S) = Cardinality(T) => S = T)
  BY <1>4, FS_Subset
<1>6. Cardinality(T) >= MaxRows /\ Cardinality(S) <= MaxRows
  BY <1>1, <1>2, <1>3, <1>4, ReceiptConstants DEF HasRoom, Within
<1>7. S = T /\ Cardinality(S) = MaxRows
  BY <1>4, <1>5, <1>6, ReceiptConstants
<1>8. P \subseteq Prunable /\ Prunable \subseteq S
  BY <1>1, <1>2 DEF Pruned, Prunable, Completed, Existing
<1>9. P = {}
  BY <1>2, <1>3, <1>7, <1>8
<1>10. PICK aged \in SUBSET P :
         LET count == Cardinality(Existing \ aged)
             limit == IF count >= MaxRows THEN count - MaxRows + PruneBatch ELSE 0
         IN Cardinality(P \ aged) = limit \/ P = Prunable
  BY <1>1 DEF Pruned
<1>11. Existing \ aged = S /\ P \ aged = {}
  BY <1>2, <1>9
<1>12. P = Prunable
  <2>1. Cardinality(P \ aged) = 0
    BY <1>11, FS_EmptySet
  <2>2. Cardinality(Existing \ aged) = MaxRows
    BY <1>7, <1>11
  <2> QED
    BY <1>10, <2>1, <2>2, ReceiptConstants
<1> QED
  BY <1>9, <1>12

(* The ledger keeps to its limit, and a mutation it refuses is refused only *)
(* while every receipt in it belongs to a call that is not resolved.        *)
THEOREM LedgerStaysBounded == Spec => []LedgerBounded
<1>1. Init => Within
  <2> SUFFICES ASSUME Init
               PROVE  Within
    OBVIOUS
  <2>1. Existing = {}
    BY DEF Init, Existing, Absent
  <2> QED
    BY <2>1, FS_EmptySet, ReceiptConstants DEF Within
<1>2. IInv /\ Within => LedgerBounded
  <2> SUFFICES ASSUME IInv, Within
               PROVE  LedgerBounded
    OBVIOUS
  <2>1. ASSUME NEW r \in Requests, Refused(r), NEW q \in Existing
        PROVE  rows[q].state = "pending" \/ running[q] # None
    <3>1. Prunable = {}
      BY <2>1, RefusalMeansFull DEF IInv
    <3>2. rows[q].state \in States /\ rows[q].state # "absent"
      BY RequestFields DEF IInv, Existing
    <3> QED
      BY <3>1, <3>2 DEF Prunable, Completed, Existing, States
  <2> QED
    BY <2>1 DEF LedgerBounded, Within
<1> QED
  BY <1>1, <1>2, ReceiptsSound, NextWithin, PTL DEF Spec
=============================================================================
