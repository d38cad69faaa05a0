------------------------ MODULE RegisterBrokerProofs ------------------------
(***************************************************************************)
(* The /register broker keeps its registry sound for every set of          *)
(* projects, addresses and requests and every lease policy whose grace     *)
(* fits into a lease (LeaseAssumption), whichever transactions fail.       *)
(*                                                                         *)
(* Unique addresses are inductive on the bucket itself (AddressesApart).   *)
(* That only silence expires needs what a lease is worth: the ticks it has *)
(* left and the ticks since it was granted add up to a grace at least,     *)
(* until a whole grace has gone by (GraceCovered).                         *)
(***************************************************************************)
EXTENDS RegisterBroker, TLAPS

AddressesApart ==
  \A p, q \in Project :
    p # q /\ Registered(bucket, p) => bucket[p].addr # bucket[q].addr

GraceCovered ==
  graced => \A p \in Project :
    Registered(bucket, p) =>
      quiet[p] >= Grace \/ bucket[p].left + quiet[p] >= Grace

ShutdownOrder ==
  daemon \in {"draining", "leaving"} /\ ~forced =>
    \A r \in Request : pc[r] = "idle"

BrokerInv ==
  /\ TypeOK
  /\ AddressesApart
  /\ GraceCovered
  /\ ShutdownOrder
  /\ GracefulDropsNothing

-----------------------------------------------------------------------------
(***************************************************************************)
(* What the transactions keep.                                             *)
(***************************************************************************)
LEMMA BucketTypes ==
  ASSUME NEW b \in Bucket
  PROVE  /\ \A p \in Project, a \in Address, age \in 0 .. MaxDelay :
              Record(b, p, a, age) \in Bucket
         /\ \A s : RefreshLease(b, s) \in Bucket
         /\ \A age : ExpireDue(b, age) \in Bucket
         /\ ReconcileWarmStart(b) \in Bucket
         /\ Elapse(b) \in Bucket
  BY LeaseAssumption
  DEF Bucket, Registration, Lease, Record, RefreshLease, ExpireDue,
      ReconcileWarmStart, Elapse, Absent, none, Registered

\* Only Record gives an address, only ExpireDue takes one.
LEMMA AddressesKept ==
  ASSUME NEW b \in Bucket, NEW p \in Project
  PROVE  /\ \A s : RefreshLease(b, s)[p].addr = b[p].addr
         /\ ReconcileWarmStart(b)[p].addr = b[p].addr
         /\ Elapse(b)[p].addr = b[p].addr
         /\ \A age : ExpireDue(b, age)[p].addr \in {b[p].addr, none}
  BY DEF Bucket, Registration, RefreshLease, ReconcileWarmStart, Elapse,
         ExpireDue, Absent

-----------------------------------------------------------------------------
LEMMA BrokerTypeInit == Init => TypeOK
<1>1. Absent \in Registration /\ 0 \in 0 .. Grace
  BY LeaseAssumption DEF Registration, Absent, Lease, none
<1>2. Init => bucket \in Bucket
  BY <1>1 DEF Init, Bucket
<1>3. Init => quiet \in [Project -> 0 .. Grace]
  BY <1>1 DEF Init
<1>4. Init => /\ pc \in [Request -> Stage]
              /\ req \in [Request -> Claim \cup {NoClaim}]
              /\ \A r \in Request : pc[r] = "idle"
  BY DEF Init, Stage
<1> QED
  BY <1>2, <1>3, <1>4 DEF Init, TypeOK

LEMMA BrokerTypeStep == TypeOK /\ [Next]_vars => TypeOK'
<1> SUFFICES ASSUME TypeOK, [Next]_vars PROVE TypeOK'
  OBVIOUS
<1> USE LeaseAssumption, BucketTypes DEF TypeOK
<1>1. ASSUME NEW r \in Request, Arrive(r) PROVE TypeOK'
  <2>1. emit' \in [Request -> BOOLEAN]
    BY <1>1, Zenon DEF Arrive, Decline
  <2>2. CASE Decline(r)
    BY <1>1, <2>1, <2>2 DEF Arrive, Decline, Answer, Stage, bootVars
  <2>3. CASE pc' = [pc EXCEPT ![r] = "contracts"]
    <3>1. PICK p \in Project, a \in Address :
            req' = [req EXCEPT ![r] = [project |-> p, addr |-> a, age |-> 0]]
      BY <1>1, <2>3 DEF Arrive, Decline, Answer
    <3>2. [project |-> p, addr |-> a, age |-> 0] \in Claim
      BY DEF Claim
    <3> QED
      BY <1>1, <2>1, <2>3, <3>1, <3>2 DEF Arrive, Stage, bootVars
  <2> QED
    BY <1>1, <2>2, <2>3 DEF Arrive
<1>2. ASSUME NEW r \in Request, VerifyContracts(r) PROVE TypeOK'
  BY <1>2 DEF VerifyContracts, Decline, Answer, Stage, bootVars
<1>3. ASSUME NEW r \in Request, GuaranteeHealthCheck(r) PROVE TypeOK'
  BY <1>3 DEF GuaranteeHealthCheck, Decline, Answer, Stage, bootVars
<1>4. ASSUME NEW r \in Request, Upsert(r) PROVE TypeOK'
  <2>1. /\ req[r].project \in Project /\ req[r].addr \in Address
        /\ req[r].age \in 0 .. MaxDelay
    BY <1>4 DEF Upsert, Claim
  <2>2. bucket' \in Bucket
    <3>1. Record(bucket, req[r].project, req[r].addr, req[r].age) \in Bucket
      BY <2>1
    <3>2. \/ bucket' = Record(bucket, req[r].project, req[r].addr, req[r].age)
          \/ UNCHANGED bucket
      BY <1>4 DEF Upsert
    <3> QED
      BY <3>1, <3>2
  <2>3. quiet' \in [Project -> 0 .. Grace]
    BY <1>4, <2>1 DEF Upsert, Granted
  <2> QED
    BY <1>4, <2>2, <2>3 DEF Upsert, Decline, Answer, Stage, bootVars
<1>5. ASSUME NEW r \in Request, EmitEnds(r) PROVE TypeOK'
  BY <1>5 DEF EmitEnds, bootVars
<1>6. ASSUME NEW p \in Project, Beat(p) PROVE TypeOK'
  BY <1>6 DEF Beat, reqVars, bootVars
<1>7. ASSUME NEW s \in Service, ConsumeHeartbeat(s) PROVE TypeOK'
  <2>1. bucket' \in Bucket
    BY <1>7 DEF ConsumeHeartbeat
  <2>2. quiet' \in [Project -> 0 .. Grace]
    BY <1>7 DEF ConsumeHeartbeat, Granted
  <2> QED
    BY <1>7, <2>1, <2>2 DEF ConsumeHeartbeat, reqVars, bootVars
<1>8. CASE SweepTick
  BY <1>8 DEF SweepTick, reqVars, bootVars
<1>9. CASE SweepExpire
  BY <1>9 DEF SweepExpire, reqVars, bootVars
<1>10. CASE Tick
  <2>1. bucket' \in Bucket
    BY <1>10 DEF Tick
  <2>2. quiet' \in [Project -> 0 .. Grace]
    BY <1>10 DEF Tick
  <2>3. sweep' \in {idle} \cup 0 .. MaxDelay
    BY <1>10 DEF Tick, idle
  <2>4. ASSUME NEW r \in Request
        PROVE  /\ req'[r] \in Claim \cup {NoClaim}
               /\ pc[r] # "idle" => req'[r] \in Claim
    <3>1. CASE pc[r] = "upsert"
      <4>1. req[r] \in Claim /\ req[r].age < MaxDelay
        BY <1>10, <3>1 DEF Tick
      <4>2. req'[r] = [req[r] EXCEPT !.age = @ + 1]
        BY <1>10, <3>1 DEF Tick
      <4> QED
        BY <4>1, <4>2 DEF Claim
    <3>2. CASE pc[r] # "upsert"
      BY <1>10, <3>2 DEF Tick
    <3> QED
      BY <3>1, <3>2
  <2>5. req' \in [Request -> Claim \cup {NoClaim}]
    BY <1>10, <2>4 DEF Tick
  <2> QED
    BY <1>10, <2>1, <2>2, <2>3, <2>4, <2>5 DEF Tick, bootVars
<1>11. CASE Boot
  <2>1. bucket' \in Bucket
    BY <1>11 DEF Boot
  <2>2. quiet' \in [Project -> 0 .. Grace]
    BY <1>11 DEF Boot, Granted
  <2>3. forced' \in BOOLEAN /\ storeOpen' \in BOOLEAN /\ graced' \in BOOLEAN
    BY <1>11 DEF Boot
  <2> QED
    BY <1>11, <2>1, <2>2, <2>3 DEF Boot, reqVars
<1>12. CASE Terminate
  BY <1>12 DEF Terminate, reqVars, bootVars
<1>13. CASE ShutdownReturns
  BY <1>13 DEF ShutdownReturns, reqVars
<1>14. CASE DrainEvents
  BY <1>14 DEF DrainEvents, reqVars, bootVars
<1>15. CASE Exit
  BY <1>15 DEF Exit, Stage
<1>16. CASE UNCHANGED vars
  BY <1>16 DEF vars, reqVars, bootVars
<1> QED
  BY <1>1, <1>2, <1>3, <1>4, <1>5, <1>6, <1>7, <1>8, <1>9, <1>10,
     <1>11, <1>12, <1>13, <1>14, <1>15, <1>16 DEF Next, Handle

\* Every variable of the broker keeps its type; in particular no lease runs
\* longer than TTL from now.
THEOREM BrokerTypeCorrect == Spec => []TypeOK
  BY BrokerTypeInit, BrokerTypeStep, PTL DEF Spec

-----------------------------------------------------------------------------
LEMMA ApartStep ==
  ASSUME TypeOK, AddressesApart, [Next]_vars PROVE AddressesApart'
<1> DEFINE Keeps == \A p \in Project : bucket'[p].addr \in {bucket[p].addr, none}
<1>1. Keeps => AddressesApart'
  BY DEF AddressesApart, Registered
<1>2. ASSUME NEW r \in Request, Upsert(r) PROVE AddressesApart'
  <2> DEFINE p == req[r].project
             a == req[r].addr
  <2>1. p \in Project /\ a \in Address
    BY <1>2 DEF Upsert, TypeOK, Claim
  <2>2. CASE UNCHANGED bucket
    BY <2>2 DEF AddressesApart, Registered
  <2>3. CASE /\ Holders(bucket, p, a) = {}
             /\ bucket' = Record(bucket, p, a, req[r].age)
    <3>1. \A q \in Project \ {p} : bucket[q].addr # a
      BY <2>3 DEF Holders
    <3>2. bucket'[p].addr = a
      BY <2>1, <2>3 DEF Record, TypeOK, Bucket
    <3>3. \A q \in Project \ {p} : bucket'[q] = bucket[q]
      BY <2>1, <2>3 DEF Record, TypeOK, Bucket
    <3> QED
      BY <3>1, <3>2, <3>3 DEF AddressesApart, Registered
  <2> QED
    BY <1>2, <2>2, <2>3 DEF Upsert
<1>3. ASSUME NEW s \in Service, ConsumeHeartbeat(s) PROVE Keeps
  BY <1>3, AddressesKept DEF ConsumeHeartbeat, TypeOK
<1>4. CASE SweepExpire
  BY <1>1, <1>4, AddressesKept DEF SweepExpire, TypeOK
<1>5. CASE Tick
  BY <1>1, <1>5, AddressesKept DEF Tick, TypeOK
<1>6. CASE Boot
  BY <1>1, <1>6, AddressesKept DEF Boot, TypeOK
<1>7. CASE UNCHANGED bucket
  BY <1>1, <1>7
<1> QED
  BY <1>1, <1>2, <1>3, <1>4, <1>5, <1>6, <1>7
  DEF Next, Handle, Arrive, VerifyContracts, GuaranteeHealthCheck, EmitEnds,
      Beat, SweepTick, Terminate, ShutdownReturns, DrainEvents,
      Exit, vars

LEMMA GraceStep ==
  ASSUME TypeOK, GraceCovered, [Next]_vars PROVE GraceCovered'
<1> USE LeaseAssumption
<1> DEFINE Covered(p) == quiet[p] >= Grace \/ bucket[p].left + quiet[p] >= Grace
<1>0. \A p \in Project : /\ bucket[p].left \in Int /\ bucket[p].left <= TTL
                         /\ quiet[p] \in 0 .. Grace
  BY DEF TypeOK, Bucket, Registration, Lease
<1>1. ASSUME NEW r \in Request, Upsert(r) PROVE GraceCovered'
  <2> DEFINE p == req[r].project
             a == req[r].addr
  <2>1. p \in Project /\ a \in Address /\ req[r].age \in 0 .. MaxDelay
    BY <1>1 DEF Upsert, TypeOK, Claim
  <2>2. CASE UNCHANGED <<bucket, quiet>>
    BY <1>1, <2>2 DEF Upsert, bootVars, GraceCovered, Registered
  <2>3. CASE bucket' = Record(bucket, p, a, req[r].age) /\ Granted({p})
    <3>1. bucket'[p].left = TTL - req[r].age /\ quiet'[p] = 0
      BY <2>1, <2>3 DEF Record, Granted, TypeOK, Bucket
    <3>2. bucket'[p].left + quiet'[p] >= Grace
      BY <2>1, <3>1
    <3>3. \A q \in Project \ {p} : bucket'[q] = bucket[q] /\ quiet'[q] = quiet[q]
      BY <2>1, <2>3 DEF Record, Granted, TypeOK, Bucket
    <3>4. UNCHANGED graced
      BY <1>1 DEF Upsert, bootVars
    <3> QED
      BY <3>2, <3>3, <3>4 DEF GraceCovered, Registered
  <2> QED
    BY <1>1, <2>2, <2>3 DEF Upsert
<1>2. ASSUME NEW s \in Service, ConsumeHeartbeat(s) PROVE GraceCovered'
  <2>1. UNCHANGED graced
    BY <1>2 DEF ConsumeHeartbeat, bootVars
  <2>2. CASE UNCHANGED <<bucket, quiet>>
    BY <2>1, <2>2 DEF GraceCovered, Registered
  <2>3. CASE /\ bucket' = RefreshLease(bucket, s)
             /\ Granted({p \in Project :
                           Registered(bucket, p) /\ ServiceOf[p] = s})
    <3> SUFFICES ASSUME graced, NEW p \in Project, Registered(bucket', p)
                 PROVE  Covered(p)'
      BY <2>1 DEF GraceCovered
    <3>1. Registered(bucket, p)
      BY <2>3, AddressesKept DEF Registered, TypeOK
    <3>2. CASE ServiceOf[p] = s
      <4>1. bucket'[p].left = TTL /\ quiet'[p] = 0
        BY <2>3, <3>1, <3>2 DEF RefreshLease, Granted, TypeOK, Bucket, Registration
      <4> QED
        BY <4>1
    <3>3. CASE ServiceOf[p] # s
      <4>1. bucket'[p] = bucket[p] /\ quiet'[p] = quiet[p]
        BY <2>3, <3>3 DEF RefreshLease, Granted
      <4> QED
        BY <3>1, <4>1 DEF GraceCovered
    <3> QED
      BY <3>2, <3>3
  <2> QED
    BY <1>2, <2>2, <2>3 DEF ConsumeHeartbeat
<1>3. CASE SweepExpire
  <2>1. UNCHANGED <<graced, quiet>>
    BY <1>3 DEF SweepExpire, bootVars
  <2>2. \A p \in Project : Registered(bucket', p) => bucket'[p] = bucket[p]
    BY <1>3 DEF SweepExpire, ExpireDue, Registered, Absent
  <2> QED
    BY <2>1, <2>2 DEF GraceCovered, Registered
<1>4. CASE Tick
  <2> SUFFICES ASSUME graced, NEW p \in Project, Registered(bucket', p)
               PROVE  Covered(p)'
    BY <1>4 DEF GraceCovered, Tick, bootVars
  <2>1. Registered(bucket, p)
    BY <1>4, AddressesKept DEF Registered, Tick, TypeOK
  <2>2. Covered(p)
    BY <2>1 DEF GraceCovered
  <2>3. bucket'[p].left >= bucket[p].left - 1 /\ bucket'[p].left \in Int
    BY <1>0, <1>4 DEF Tick, Elapse, TypeOK, Bucket, Registration, Lease
  <2>4. quiet'[p] = IF quiet[p] < Grace THEN quiet[p] + 1 ELSE Grace
    BY <1>4 DEF Tick
  <2> QED
    BY <1>0, <2>2, <2>3, <2>4
<1>5. CASE Boot
  <2>1. CASE graced'
    <3> SUFFICES ASSUME NEW p \in Project, Registered(bucket', p)
                 PROVE  Covered(p)'
      BY DEF GraceCovered
    <3>1. bucket' = ReconcileWarmStart(bucket) /\ Granted(Project)
      BY <1>5, <2>1 DEF Boot
    <3>2. Registered(bucket, p)
      BY <3>1, AddressesKept DEF Registered, TypeOK
    <3>3. bucket'[p].left = Grace /\ quiet'[p] = 0
      BY <3>1, <3>2 DEF ReconcileWarmStart, Granted, TypeOK, Bucket, Registration
    <3> QED
      BY <3>3
  <2>2. CASE ~graced'
    BY <2>2 DEF GraceCovered
  <2> QED
    BY <2>1, <2>2
<1>6. CASE UNCHANGED <<bucket, quiet, graced>>
  BY <1>6 DEF GraceCovered, Registered
<1> QED
  BY <1>1, <1>2, <1>3, <1>4, <1>5, <1>6
  DEF Next, Handle, Arrive, VerifyContracts, GuaranteeHealthCheck, EmitEnds,
      Beat, SweepTick, Terminate, ShutdownReturns, DrainEvents,
      Exit, vars, bootVars

LEMMA ShutdownStep ==
  ASSUME TypeOK, ShutdownOrder, GracefulDropsNothing, [Next]_vars
  PROVE  ShutdownOrder' /\ GracefulDropsNothing'
<1> USE DEF ShutdownOrder, GracefulDropsNothing, TypeOK
<1>1. ASSUME NEW r \in Request, Arrive(r) PROVE ShutdownOrder' /\ GracefulDropsNothing'
  BY <1>1 DEF Arrive
<1>2. ASSUME NEW r \in Request, pc[r] # "idle", UNCHANGED <<daemon, forced>>
      PROVE  ShutdownOrder' /\ GracefulDropsNothing'
  BY <1>2
<1>3. ASSUME NEW r \in Request, EmitEnds(r) PROVE ShutdownOrder' /\ GracefulDropsNothing'
  BY <1>3 DEF EmitEnds, bootVars
<1>4. CASE UNCHANGED <<pc, emit, daemon, forced>>
  BY <1>4
<1>5. CASE Boot
  BY <1>5 DEF Boot
<1>6. CASE Terminate
  BY <1>6 DEF Terminate
<1>7. CASE ShutdownReturns
  BY <1>7 DEF ShutdownReturns, reqVars
<1>8. CASE DrainEvents
  BY <1>8 DEF DrainEvents, reqVars, bootVars
<1>9. CASE Exit
  BY <1>9 DEF Exit
<1> QED
  BY <1>1, <1>2, <1>3, <1>4, <1>5, <1>6, <1>7, <1>8, <1>9
  DEF Next, Handle, VerifyContracts, GuaranteeHealthCheck, Upsert, Beat,
      ConsumeHeartbeat, SweepTick, SweepExpire, Tick, vars,
      reqVars, bootVars

LEMMA BrokerInvariant == Spec => []BrokerInv
<1>1. Init => BrokerInv
  BY BrokerTypeInit
  DEF Init, BrokerInv, AddressesApart, GraceCovered, ShutdownOrder,
      GracefulDropsNothing, Registered, Absent
<1>2. BrokerInv /\ [Next]_vars => BrokerInv'
  BY BrokerTypeStep, ApartStep, GraceStep, ShutdownStep DEF BrokerInv
<1> QED
  BY <1>1, <1>2, PTL DEF Spec

-----------------------------------------------------------------------------
\* Two projects never resolve to one address.
THEOREM EndpointsAreUnique == Spec => []EndpointUnique
<1>1. BrokerInv => EndpointUnique
  BY DEF BrokerInv, AddressesApart, EndpointUnique, Resolve, Registered, none
<1> QED
  BY <1>1, BrokerInvariant, PTL

\* A registration is swept only after a whole grace of silence.
THEOREM SilenceExpires == Spec => OnlySilenceExpires
<1> DEFINE A == \A p \in Project :
                  Registered(bucket, p) /\ ~Registered(bucket', p) /\ graced
                    => quiet[p] >= Grace
<1>1. ASSUME BrokerInv, [Next]_vars, NEW p \in Project, graced,
             Registered(bucket, p), ~Registered(bucket', p)
      PROVE  quiet[p] >= Grace
  <2> USE DEF BrokerInv, TypeOK
  <2>1. CASE SweepExpire
    <3>1. bucket' = ExpireDue(bucket, sweep) /\ sweep \in 0 .. MaxDelay
      BY <1>1, <2>1 DEF SweepExpire
    <3>2. Due(bucket[p], sweep)
      BY <1>1, <3>1 DEF ExpireDue, Registered
    <3>3. bucket[p].left \in Int /\ quiet[p] \in 0 .. Grace
      BY <1>1, LeaseAssumption DEF Bucket, Registration, Lease
    <3>4. bucket[p].left <= 0
      BY <3>1, <3>2, <3>3, LeaseAssumption DEF Due
    <3>5. quiet[p] >= Grace \/ bucket[p].left + quiet[p] >= Grace
      BY <1>1 DEF GraceCovered
    <3> QED
      BY <3>3, <3>4, <3>5, LeaseAssumption
  <2>2. CASE UNCHANGED bucket
    BY <1>1, <2>2
  <2>3. ASSUME NEW r \in Request, Upsert(r) PROVE FALSE
    <3>1. req[r].project \in Project /\ req[r].addr \in Address
      BY <1>1, <2>3 DEF Upsert, Claim
    <3>2. \/ UNCHANGED bucket
          \/ bucket' = Record(bucket, req[r].project, req[r].addr, req[r].age)
      BY <2>3 DEF Upsert
    <3>3. bucket'[p] = bucket[p] \/ bucket'[p].addr = req[r].addr
      BY <1>1, <3>1, <3>2 DEF Record, Bucket
    <3> QED
      BY <1>1, <3>1, <3>3, LeaseAssumption DEF Registered, none
  <2>4. ASSUME NEW s \in Service, ConsumeHeartbeat(s) PROVE FALSE
    BY <1>1, <2>4, AddressesKept DEF ConsumeHeartbeat, Registered
  <2>5. CASE Tick
    BY <1>1, <2>5, AddressesKept DEF Tick, Registered
  <2>6. CASE Boot
    BY <1>1, <2>6, AddressesKept DEF Boot, Registered
  <2> QED
    BY <1>1, <2>1, <2>2, <2>3, <2>4, <2>5, <2>6
    DEF Next, Handle, Arrive, VerifyContracts, GuaranteeHealthCheck, EmitEnds,
        Beat, SweepTick, Terminate, ShutdownReturns, DrainEvents,
        Exit, vars
<1>2. BrokerInv /\ [Next]_vars => [A]_vars
  BY <1>1
<1> QED
  BY <1>2, BrokerInvariant, PTL DEF Spec, OnlySilenceExpires, A

\* An orderly shutdown leaves no request unanswered and no event behind.
THEOREM GracefulShutdown == Spec => []GracefulDropsNothing
<1>1. BrokerInv => GracefulDropsNothing
  BY DEF BrokerInv
<1> QED
  BY <1>1, BrokerInvariant, PTL
=============================================================================
