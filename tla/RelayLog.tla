------------------------------ MODULE RelayLog ------------------------------
(***************************************************************************)
(* What the federation relay promises the two servers it connects: the     *)
(* Run home acts on the messages of a worker once each, in the order they  *)
(* were sent.  Another message may take the place of a heartbeat.            *)
(***************************************************************************)
EXTENDS Integers, Sequences

CONSTANTS
  Kinds,       \* the kinds of message
  Heartbeat    \* the kind that carries nothing but a sign of life

VARIABLES
  sent,        \* messages accepted from the worker
  replaced,    \* places in sent where a message took that of a heartbeat
  applied      \* messages the Run home has acted on

logVars == <<sent, replaced, applied>>

LogInit ==
  /\ sent = <<>>
  /\ replaced = {}
  /\ applied = <<>>

Send ==
  /\ \E kind \in Kinds : sent' = Append(sent, kind)
  /\ UNCHANGED <<replaced, applied>>

Supersede(k) ==
  /\ sent[k] = Heartbeat
  /\ \E kind \in Kinds : sent' = [sent EXCEPT ![k] = kind]
  /\ replaced' = replaced \cup {k}
  /\ UNCHANGED applied

(* The Run home acts on the messages after the last it acted on, to the     *)
(* n-th; at a replaced place perhaps still on the heartbeat.                *)
Apply(n) ==
  \E stale \in SUBSET (replaced \cap Len(applied) + 1 .. n) :
    /\ applied' = [k \in 1 .. n |-> IF k <= Len(applied) THEN applied[k]
                                    ELSE IF k \in stale THEN Heartbeat ELSE sent[k]]
    /\ UNCHANGED <<sent, replaced>>

LogNext ==
  \/ Send
  \/ \E k \in DOMAIN sent : Supersede(k)
  \/ \E n \in Len(applied) + 1 .. Len(sent) : Apply(n)

LogSpec == LogInit /\ [][LogNext]_logVars
=============================================================================
