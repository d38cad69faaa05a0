--------------------------- MODULE RegisterBroker ---------------------------
(***************************************************************************)
(* The /register broker: POST /register requests (pkg/httpapi/register.go) *)
(* that pass their gates and race for the bucket, the consumer that turns  *)
(* heartbeats into lease refreshes, the expiry sweep, the NotRegistered    *)
(* events of the requests that were declined, and the boot and shutdown of *)
(* cmd/delightd/main.go around them.                                       *)
(***************************************************************************)
EXTENDS LeaseRegistry

CONSTANTS Request,      \* slots for requests that are served at a time
          StoreFaults,  \* a bbolt transaction may fail
          OpenFaults    \* the store may fail to open at boot

ASSUME BrokerAssumption == StoreFaults \in BOOLEAN /\ OpenFaults \in BOOLEAN

VARIABLES bucket,     \* the registrations on disk
          pc,         \* where each request is
          req,        \* what it claims, and the age of its time stamp
          emit,       \* its NotRegistered event: in flight or not
          sweep,      \* age of the `now' a started sweep holds, or idle
          beats,      \* heartbeats on the topic, by service name
          daemon,     \* "up", the stages of its shutdown, or "down"
          forced,     \* server.Shutdown gave up on running handlers
          storeOpen,  \* registry.Open succeeded
          graced,     \* the boot's ReconcileWarmStart succeeded
          quiet       \* history: ticks since a lease was granted, up to Grace

reqVars == <<pc, req, emit>>
bootVars == <<forced, storeOpen, graced>>
vars == <<bucket, reqVars, sweep, beats, daemon, bootVars, quiet>>

idle == -1

Stage == {"idle", "contracts", "health", "upsert"}

Claim == [project : Project, addr : Address, age : 0 .. MaxDelay]

NoClaim == [project |-> none, addr |-> none, age |-> 0]

Serving == daemon # "down"

\* The lease of p's registration was granted just now.
Granted(P) == quiet' = [p \in Project |-> IF p \in P THEN 0 ELSE quiet[p]]

Init ==
  /\ bucket = [p \in Project |-> Absent]
  /\ pc = [r \in Request |-> "idle"]
  /\ req = [r \in Request |-> NoClaim]
  /\ emit = [r \in Request |-> FALSE]
  /\ sweep = idle
  /\ beats = {}
  /\ daemon = "down"
  /\ forced = FALSE
  /\ storeOpen = FALSE
  /\ graced = FALSE
  /\ quiet = [p \in Project |-> 0]

-----------------------------------------------------------------------------
(***************************************************************************)
(* POST /register.                                                         *)
(***************************************************************************)
\* The request has been answered.
Answer(r) ==
  /\ pc' = [pc EXCEPT ![r] = "idle"]
  /\ req' = [req EXCEPT ![r] = NoClaim]

\* notRegistered: the error to the caller, then an event on a detached
\* goroutine; without a publisher, which may be nil, it is only logged.
Decline(r) ==
  /\ Answer(r)
  /\ emit' \in {emit, [emit EXCEPT ![r] = TRUE]}

\* A slot takes a request: its body, project, identity and endpoint are
\* looked at first, and none of that depends on shared state.
Arrive(r) ==
  /\ daemon = "up"
  /\ pc[r] = "idle" /\ ~emit[r]
  /\ \/ /\ pc' = [pc EXCEPT ![r] = "contracts"]
        /\ \E p \in Project, a \in Address :
             req' = [req EXCEPT ![r] = [project |-> p, addr |-> a, age |-> 0]]
        /\ UNCHANGED emit
     \/ Decline(r)
  /\ UNCHANGED <<bucket, sweep, beats, daemon, bootVars, quiet>>

\* Every subject is asked of the schema registry: absent ones, malformed
\* ones and a registry that does not answer decline the request.
VerifyContracts(r) ==
  /\ pc[r] = "contracts"
  /\ \/ pc' = [pc EXCEPT ![r] = "health"] /\ UNCHANGED <<req, emit>>
     \/ Decline(r)
  /\ UNCHANGED <<bucket, sweep, beats, daemon, bootVars, quiet>>

\* GET /health of the endpoint; the lease is stamped right after it passed.
GuaranteeHealthCheck(r) ==
  /\ pc[r] = "health"
  /\ \/ pc' = [pc EXCEPT ![r] = "upsert"] /\ UNCHANGED <<req, emit>>
     \/ Decline(r)
  /\ UNCHANGED <<bucket, sweep, beats, daemon, bootVars, quiet>>

\* Upsert: the check for a holder and the write are one transaction.  A
\* transaction that fails is answered with a bare 500, without an event;
\* without a store the call dereferences nil and net/http, which recovers,
\* drops the connection.
Upsert(r) ==
  LET p == req[r].project
      a == req[r].addr
  IN
  /\ pc[r] = "upsert"
  /\ \/ /\ storeOpen
        /\ Holders(bucket, p, a) = {}
        /\ bucket' = Record(bucket, p, a, req[r].age)
        /\ Granted({p})
        /\ Answer(r) /\ UNCHANGED emit
     \/ /\ storeOpen
        /\ Holders(bucket, p, a) # {}
        /\ Decline(r) /\ UNCHANGED <<bucket, quiet>>
     \/ /\ storeOpen => StoreFaults
        /\ Answer(r) /\ UNCHANGED <<bucket, quiet, emit>>
  /\ UNCHANGED <<sweep, beats, daemon, bootVars>>

\* The detached publish ends within its two seconds, one way or the other.
EmitEnds(r) ==
  /\ emit[r]
  /\ emit' = [emit EXCEPT ![r] = FALSE]
  /\ UNCHANGED <<bucket, pc, req, sweep, beats, daemon,
                 bootVars, quiet>>

-----------------------------------------------------------------------------
(***************************************************************************)
(* The lease lifecycle.                                                    *)
(***************************************************************************)
\* A frood beats under its service name, whatever delightd does.
Beat(p) ==
  /\ beats' = beats \cup {ServiceOf[p]}
  /\ UNCHANGED <<bucket, reqVars, sweep, daemon, bootVars, quiet>>

\* A heartbeat is consumed late, more than once when the offset was not
\* committed, or never when the consumer did not start.
ConsumeHeartbeat(s) ==
  /\ Serving /\ storeOpen
  /\ s \in beats
  /\ beats' \in {beats, beats \ {s}}
  /\ \/ /\ bucket' = RefreshLease(bucket, s)
        /\ Granted({p \in Project : Registered(bucket, p) /\ ServiceOf[p] = s})
     \/ StoreFaults /\ UNCHANGED <<bucket, quiet>>
  /\ UNCHANGED <<reqVars, sweep, daemon, bootVars>>

\* The ticker fires and time.Now is read; the transaction comes later.
SweepTick ==
  /\ Serving /\ storeOpen
  /\ sweep = idle /\ sweep' = 0
  /\ UNCHANGED <<bucket, reqVars, beats, daemon, bootVars, quiet>>

SweepExpire ==
  /\ sweep # idle /\ sweep' = idle
  /\ \/ bucket' = ExpireDue(bucket, sweep)
     \/ StoreFaults /\ UNCHANGED bucket
  /\ UNCHANGED <<reqVars, beats, daemon, bootVars, quiet>>

\* The clock runs on whether delightd does or not.
Tick ==
  /\ sweep < MaxDelay
  /\ \A r \in Request : pc[r] = "upsert" => req[r].age < MaxDelay
  /\ bucket' = Elapse(bucket)
  /\ req' = [r \in Request |-> IF pc[r] = "upsert"
                               THEN [req[r] EXCEPT !.age = @ + 1] ELSE req[r]]
  /\ sweep' = IF sweep = idle THEN idle ELSE sweep + 1
  /\ quiet' = [p \in Project |-> IF quiet[p] < Grace THEN quiet[p] + 1 ELSE Grace]
  /\ UNCHANGED <<pc, emit, beats, daemon, bootVars>>

-----------------------------------------------------------------------------
(***************************************************************************)
(* Boot and shutdown.                                                      *)
(***************************************************************************)
Boot ==
  /\ daemon = "down" /\ daemon' = "up"
  /\ forced' = FALSE
  /\ \/ /\ storeOpen' = TRUE /\ graced' = TRUE
        /\ bucket' = ReconcileWarmStart(bucket)
        /\ Granted(Project)
     \/ /\ StoreFaults                        \* logged, and on it goes
        /\ storeOpen' = TRUE /\ graced' = FALSE
        /\ UNCHANGED <<bucket, quiet>>
     \/ /\ OpenFaults
        /\ storeOpen' = FALSE /\ graced' = FALSE
        /\ UNCHANGED <<bucket, quiet>>
  /\ UNCHANGED <<reqVars, sweep, beats>>

\* A signal, or the listener failed: no new request is taken.
Terminate ==
  /\ daemon = "up" /\ daemon' = "stopping"
  /\ UNCHANGED <<bucket, reqVars, sweep, beats, bootVars, quiet>>

\* server.Shutdown returns: the handlers are done, or five seconds are over.
ShutdownReturns ==
  /\ daemon = "stopping" /\ daemon' = "draining"
  /\ forced' = \E r \in Request : pc[r] # "idle"
  /\ UNCHANGED <<bucket, reqVars, sweep, beats, storeOpen, graced, quiet>>

\* Mutant: the events in flight are not waited for.
DrainNothing ==
  /\ daemon = "draining" /\ daemon' = "leaving"
  /\ UNCHANGED <<bucket, reqVars, sweep, beats, bootVars, quiet>>

\* emitWG.Wait returns.
DrainEvents ==
  /\ daemon = "draining" /\ daemon' = "leaving"
  /\ \A r \in Request : ~emit[r]
  /\ UNCHANGED <<bucket, reqVars, sweep, beats, bootVars, quiet>>

\* main returns, or the process is killed: what was in flight is gone.
Exit ==
  /\ Serving /\ daemon' = "down"
  /\ pc' = [r \in Request |-> "idle"]
  /\ req' = [r \in Request |-> NoClaim]
  /\ emit' = [r \in Request |-> FALSE]
  /\ sweep' = idle
  /\ storeOpen' = FALSE
  /\ UNCHANGED <<bucket, beats, forced, graced, quiet>>

-----------------------------------------------------------------------------
Handle(r) ==
  VerifyContracts(r) \/ GuaranteeHealthCheck(r) \/ Upsert(r) \/ EmitEnds(r)

Next ==
  \/ \E r \in Request : Arrive(r) \/ Handle(r)
  \/ \E p \in Project : Beat(p)
  \/ \E s \in Service : ConsumeHeartbeat(s)
  \/ SweepTick \/ SweepExpire \/ Tick
  \/ Boot \/ Terminate \/ ShutdownReturns \/ DrainEvents \/ Exit

Spec == Init /\ [][Next]_vars

(***************************************************************************)
(* Every call of a handler has a time limit, the sweep's ticker fires, the *)
(* clock runs, a transaction that fails does not fail for ever, and a      *)
(* heartbeat that is delivered again and again is in the end committed.    *)
(***************************************************************************)
Committed(s) ==
  []<><<ConsumeHeartbeat(s)>>_vars
    => []<><<ConsumeHeartbeat(s) /\ s \notin beats'>>_vars

FairSpec ==
  /\ Spec
  /\ \A r \in Request : WF_vars(Handle(r))
  /\ \A s \in Service : Committed(s)
  /\ WF_vars(daemon = "up" /\ SweepTick)
  /\ SF_vars(SweepExpire /\ bucket' = ExpireDue(bucket, sweep))
  /\ WF_vars(Tick)

-----------------------------------------------------------------------------
\* The variables keep their types; no lease on disk runs beyond the TTL and no
\* time stamp that a request or a sweep holds is older than MaxDelay.
TypeOK ==
  /\ bucket \in Bucket
  /\ pc \in [Request -> Stage]
  /\ req \in [Request -> Claim \cup {NoClaim}]
  /\ \A r \in Request : pc[r] # "idle" => req[r] \in Claim
  /\ emit \in [Request -> BOOLEAN]
  /\ sweep \in {idle} \cup 0 .. MaxDelay
  /\ beats \in SUBSET Service
  /\ daemon \in {"up", "stopping", "draining", "leaving", "down"}
  /\ forced \in BOOLEAN /\ storeOpen \in BOOLEAN /\ graced \in BOOLEAN
  /\ quiet \in [Project -> 0 .. Grace]

\* handleResolve: the address, or 404.  The lease is not asked for.
Resolve(p) == IF storeOpen THEN bucket[p].addr ELSE none

-----------------------------------------------------------------------------
\* No two projects ever resolve to the same address, however registrations
\* race, lapse, are refreshed and survive restarts (registry.go, Upsert).
EndpointUnique ==
  \A p, q \in Project : p # q /\ Resolve(p) # none => Resolve(p) # Resolve(q)

\* main.go: "only silence expires".  A registration is swept only after a
\* whole warm-start grace without a lease being granted to it, although the
\* sweep decides with a clock reading from before its transaction and a
\* registration may be stamped long before it is written.
OnlySilenceExpires ==
  [][\A p \in Project :
       Registered(bucket, p) /\ ~Registered(bucket', p) /\ graced
         => quiet[p] >= Grace]_vars

\* A shutdown whose handlers finished in time leaves no request unanswered
\* and drops no NotRegistered event (main.go, DrainEvents).
GracefulDropsNothing ==
  daemon = "leaving" /\ ~forced =>
    \A r \in Request : pc[r] = "idle" /\ ~emit[r]

\* A frood that has stopped registering and beating leaves the registry,
\* however many of its heartbeats are still on the topic and whoever else
\* goes on, as long as no frood beats under its service name and the daemon
\* and its store stay up.
DeadIsExpired ==
  \A p \in Project :
    (/\ <>[](/\ daemon = "up" /\ storeOpen
             /\ \A r \in Request : req[r].project # p)
     /\ <>[][\A q \in Project : ServiceOf[q] = ServiceOf[p] => ~Beat(q)]_vars)
      => <>[]~Registered(bucket, p)

\* What a comment of main.go says of the shutdown and the code does not do:
\* after server.Shutdown "no new NotRegistered emits start", so that none is
\* dropped on the way out.
NothingDroppedOnExit ==
  daemon = "leaving" => \A r \in Request : ~emit[r]
=============================================================================
