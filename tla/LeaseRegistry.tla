--------------------------- MODULE LeaseRegistry ---------------------------
(***************************************************************************)
(* The set of live frood registrations of pkg/registry/registry.go: the    *)
(* value the bbolt bucket holds and what each transaction makes of it.     *)
(* bbolt has a single writer, so each transaction is one operator here and *)
(* one step wherever it is used.                                           *)
(*                                                                         *)
(* Time is relative.  A registration keeps how many clock ticks lie        *)
(* between now and lease_expires_at; a lease that lapsed more than         *)
(* MaxDelay ticks ago is only known to have done so.  A transaction whose  *)
(* `now' was read `age' ticks before it ran sees leases age ticks longer.  *)
(***************************************************************************)
EXTENDS Integers

CONSTANTS Project,     \* the managed projects, the keys of the bucket
          Address,     \* endpoint addresses
          Service,     \* identity.service_name values
          ServiceOf,   \* the service_name each project's frood reports
          TTL,         \* DefaultLeaseTTL, in ticks
          Grace,       \* WarmStartGrace, in ticks
          MaxDelay     \* bound on the ticks a transaction waits its turn

ASSUME LeaseAssumption ==
  /\ ServiceOf \in [Project -> Service]
  /\ TTL \in Nat /\ Grace \in Nat /\ MaxDelay \in Nat
  /\ 0 < Grace /\ Grace + MaxDelay <= TTL
  /\ "none" \notin Address

none == "none"

Lease == -MaxDelay .. TTL

\* One registration per project; none is the address of an absent one.
Registration == [addr : Address \cup {none}, left : Lease]

Absent == [addr |-> none, left |-> 0]

Bucket == [Project -> Registration]

Registered(b, p) == b[p].addr # none

-----------------------------------------------------------------------------
\* Mutant: a holder whose lease has lapsed does not count.
LapsedDoNotHold(b, p, a) == {q \in Project \ {p} : b[q].addr = a /\ b[q].left > 0}

\* The projects Upsert finds on the address, p itself excepted.  Whether
\* their leases still run is not asked.
Holders(b, p, a) == {q \in Project \ {p} : b[q].addr = a}

\* Mutant: the stamp is moved the wrong way.
RecordAhead(b, p, a, age) == [b EXCEPT ![p] = [addr |-> a, left |-> TTL + age]]

\* The write half of Upsert, of a lease stamped age ticks ago.
Record(b, p, a, age) == [b EXCEPT ![p] = [addr |-> a, left |-> TTL - age]]

\* Mutant: the name of the heartbeat is not looked at.
RefreshAll(b, s) ==
  [p \in Project |-> IF Registered(b, p) THEN [b[p] EXCEPT !.left = TTL] ELSE b[p]]

\* RefreshLease: every registration under the service name, and no other.
RefreshLease(b, s) ==
  [p \in Project |-> IF Registered(b, p) /\ ServiceOf[p] = s
                     THEN [b[p] EXCEPT !.left = TTL] ELSE b[p]]

\* lease_expires_at is at or before now, for a now read age ticks ago.
Due(reg, age) == reg.addr # none /\ reg.left + age <= 0

ExpireDue(b, age) == [p \in Project |-> IF Due(b[p], age) THEN Absent ELSE b[p]]

\* Mutant: only leases that have lapsed meanwhile are stamped anew.
ReconcileLapsed(b) ==
  [p \in Project |-> IF Due(b[p], 0) THEN [b[p] EXCEPT !.left = Grace] ELSE b[p]]

ReconcileWarmStart(b) ==
  [p \in Project |-> IF Registered(b, p) THEN [b[p] EXCEPT !.left = Grace] ELSE b[p]]

\* One clock tick, as the leases see it.
Elapse(b) ==
  [p \in Project |-> IF Registered(b, p) /\ b[p].left > -MaxDelay
                     THEN [b[p] EXCEPT !.left = @ - 1] ELSE b[p]]
=============================================================================
