------------------------------ MODULE TaskLease ------------------------------
(***************************************************************************)
(* What the orchestration database promises about handing work out.  A     *)
(* task is leased to at most one holder at a time, a terminal serves one   *)
(* lease at a time, and a lease that was given back is spent: whatever     *)
(* arrives late in its name can no longer take the task.                   *)
(***************************************************************************)
CONSTANTS Tasks, Leases, Terminals, None

VARIABLES
  owner,   \* the lease a task is under
  seat,    \* the lease a terminal serves
  spent    \* leases given back

leaseVars == <<owner, seat, spent>>

Owned == {owner[t] : t \in Tasks} \ {None}

LeaseInit ==
  /\ owner = [t \in Tasks |-> None]
  /\ seat = [a \in Terminals |-> None]
  /\ spent = {}

(* Seat l at a free terminal. *)
SeatAt(a, l) ==
  /\ seat[a] = None
  /\ \A b \in Terminals : seat[b] # l
  /\ seat' = [seat EXCEPT ![a] = l]

(* A free task is leased under a lease never used before, with or without a *)
(* terminal to serve it yet.                                                *)
Grant(t, l) ==
  /\ owner[t] = None
  /\ l \notin Owned \cup spent
  /\ owner' = [owner EXCEPT ![t] = l]
  /\ \/ UNCHANGED seat
     \/ \E a \in Terminals : SeatAt(a, l)
  /\ UNCHANGED spent

Seat(a, l) ==
  /\ l \in Owned
  /\ SeatAt(a, l)
  /\ UNCHANGED <<owner, spent>>

(* The lease of t ends: its terminal is free again and the lease is spent. *)
Release(t) ==
  /\ owner[t] # None
  /\ owner' = [owner EXCEPT ![t] = None]
  /\ seat' = [a \in Terminals |-> IF seat[a] = owner[t] THEN None ELSE seat[a]]
  /\ spent' = spent \cup {owner[t]}

LeaseNext ==
  \/ \E t \in Tasks : Release(t) \/ \E l \in Leases : Grant(t, l)
  \/ \E a \in Terminals, l \in Leases : Seat(a, l)

LeaseSpec == LeaseInit /\ [][LeaseNext]_leaseVars
=============================================================================
