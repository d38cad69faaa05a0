----------------------------- MODULE BackupLoop -----------------------------
(***************************************************************************)
(* The backup pipeline of cmd/delightd/main.go: one goroutine per project  *)
(* that selects between a poll ticker and an eval ticker, the control-port *)
(* handlers that drive the same machine from other goroutines, and the     *)
(* event publisher all projects share.  The goroutine is split wherever    *)
(* another goroutine can get in: it reads the machine, unlocks it, does    *)
(* something slow, and acts on what it read.                               *)
(***************************************************************************)
EXTENDS BackupMachine

CONSTANTS Project,          \* names of the configured projects
          MaxErrors,        \* bound on consecutive failures
          KafkaConfigured   \* system.kafka.brokers is not empty

ASSUME LoopAssumption ==
  /\ MaxErrors \in Nat
  /\ KafkaConfigured \in BOOLEAN
  /\ "free" \notin Project

VARIABLES mach,        \* machines: [Project -> Machine]
          pc,          \* where each project's goroutine is
          outcome,     \* what its last CreateCheckpoint returned
          dirty,       \* whether its working tree has changes
          publisher,   \* a Publisher exists (events.New succeeded at boot)
          registered,  \* Publisher.registered: the schema id is cached
          mu,          \* who holds Publisher.mu
          broker,      \* the broker answers
          daemon,      \* "up", "cancelled" (its context is) or "down"
          owed         \* history: ticks the backoff policy still asks for

loopVars == <<pc, outcome>>
pubVars == <<publisher, registered, mu>>
vars == <<mach, loopVars, dirty, pubVars, broker, daemon, owed>>

Label == {"startup", "select", "hasChurn", "advance", "toMonitoring",
          "toBacking", "checkpoint", "publish", "register", "produce",
          "settle", "recheck", "canRetry", "retry", "done"}

\* The labels between the start of a checkpoint and the use of its result.
InFlight == {"checkpoint", "publish", "register", "produce", "settle"}

free == "free"

\* What the documented policy asks for: doubling minutes, an hour at most.
PolicyMinutes(n) == IF n <= Len(Doubling) THEN Doubling[n] ELSE HourMinutes

Busy(p) == pc[p] \in InFlight

Up == daemon # "down"

ctxDone == daemon # "up"

\* The one thing every step of p's goroutine does.
Goto(p, l) == pc' = [pc EXCEPT ![p] = l]

\* p's machine becomes m; its history follows.
Move(p, m) ==
  /\ mach' = [mach EXCEPT ![p] = m]
  /\ owed' = [owed EXCEPT ![p] =
                IF m.st = "error" /\ mach[p].st # "error"
                THEN TicksPerMinute * PolicyMinutes(m.errs)
                ELSE IF mach[p].st = "error" /\ m.st = "fallow" THEN 0
                ELSE @]

\* --immediate evaluates every project before its loop starts.
StartLabels == {[p \in Project |-> l] : l \in {"startup", "select"}}

\* events.New pings the broker; without one the publisher stays nil.
Publishers(up) == IF KafkaConfigured /\ up THEN BOOLEAN ELSE {FALSE}

Init ==
  /\ mach = [p \in Project |-> NewMachine]
  /\ pc \in StartLabels
  /\ outcome = [p \in Project |-> "none"]
  /\ dirty \in [Project -> BOOLEAN]
  /\ publisher \in Publishers(TRUE)
  /\ registered = FALSE
  /\ mu = free
  /\ broker = TRUE
  /\ daemon = "up"
  /\ owed = [p \in Project |-> 0]

-----------------------------------------------------------------------------
(***************************************************************************)
(* The poll side of the loop.  watcher.HasChurn opens the repository and   *)
(* reads its status: it fails, or answers whether the tree is dirty.       *)
(***************************************************************************)
StartupCheck(p) ==
  /\ pc[p] = "startup"
  /\ \/ Goto(p, "select")                        \* error, logged
     \/ ~dirty[p] /\ Goto(p, "select")
     \/ dirty[p] /\ Goto(p, "toBacking")
  /\ UNCHANGED <<mach, outcome, dirty, pubVars, broker, daemon, owed>>

PollTick(p) ==
  /\ pc[p] = "select"
  /\ WatchesForChurn(mach[p])                    \* else continue
  /\ Goto(p, "hasChurn")
  /\ UNCHANGED <<mach, outcome, dirty, pubVars, broker, daemon, owed>>

HasChurn(p) ==
  /\ pc[p] = "hasChurn"
  /\ \/ Goto(p, "select")                        \* error, logged
     \/ ~dirty[p] /\ Goto(p, "select")
     \/ dirty[p] /\ Goto(p, "advance")
  /\ UNCHANGED <<mach, outcome, dirty, pubVars, broker, daemon, owed>>

\* AdvanceOnChurn reads the state and unlocks; the event follows.
AdvanceOnChurn(p) ==
  /\ pc[p] = "advance"
  /\ Goto(p, CASE mach[p].st = "fallow" -> "toMonitoring"
               [] mach[p].st = "monitoring" -> "toBacking"
               [] OTHER -> "select")
  /\ UNCHANGED <<mach, outcome, dirty, pubVars, broker, daemon, owed>>

ToMonitoring(p) ==
  /\ pc[p] = "toMonitoring"
  /\ Move(p, ChurnDetected(mach[p]))
  /\ Goto(p, "select")
  /\ UNCHANGED <<outcome, dirty, pubVars, broker, daemon>>

\* From AdvanceOnChurn, and from the startup evaluation.
ToBacking(p) ==
  /\ pc[p] = "toBacking"
  /\ Move(p, TriggerBackup(mach[p]))
  /\ Goto(p, "select")
  /\ UNCHANGED <<outcome, dirty, pubVars, broker, daemon>>

-----------------------------------------------------------------------------
(***************************************************************************)
(* The eval side: run the checkpoint, publish its event, settle the        *)
(* machine, then see to the retry of a failed one.                         *)
(***************************************************************************)
EvalTick(p) ==
  /\ pc[p] = "select"
  /\ Goto(p, IF mach[p].st = "backing_up" THEN "checkpoint" ELSE "recheck")
  /\ UNCHANGED <<mach, outcome, dirty, pubVars, broker, daemon, owed>>

\* CreateCheckpoint returns; MaxErrors bounds the failures of the model.
Checkpoint(p) ==
  /\ pc[p] = "checkpoint"
  /\ \E r \in {"ok"} \cup
              (IF mach[p].errs < MaxErrors THEN {"fail"} ELSE {}) :
       outcome' = [outcome EXCEPT ![p] = r]
  /\ Goto(p, "publish")
  /\ UNCHANGED <<mach, dirty, pubVars, broker, daemon, owed>>

\* A nil publisher is a no-op; otherwise ensureRegistered takes mu, and lets
\* it go at once when the schema is already registered.
Publish(p) ==
  /\ pc[p] = "publish"
  /\ \/ /\ ~publisher
        /\ Goto(p, "settle")
        /\ UNCHANGED mu
     \/ /\ publisher /\ mu = free /\ registered
        /\ Goto(p, "produce")
        /\ UNCHANGED mu
     \/ /\ publisher /\ mu = free /\ ~registered
        /\ Goto(p, "register")
        /\ mu' = p
  /\ UNCHANGED <<mach, outcome, dirty, publisher, registered, broker,
                 daemon, owed>>

\* Mutant: the error return forgets to unlock.
RegisterSchemaLeak(p) ==
  /\ pc[p] = "register"
  /\ \/ registered' = TRUE /\ mu' = free /\ Goto(p, "produce")
     \/ UNCHANGED <<registered, mu>> /\ Goto(p, "settle")
  /\ UNCHANGED <<mach, outcome, dirty, publisher, broker, daemon, owed>>

\* registerSchema under mu, bounded by the client's 5s timeout.  A failure is
\* returned and logged; the flag stays clear so that the next call retries.
RegisterSchema(p) ==
  /\ pc[p] = "register"
  /\ mu' = free
  /\ \/ registered' = TRUE /\ Goto(p, "produce")
     \/ UNCHANGED registered /\ Goto(p, "settle")
  /\ UNCHANGED <<mach, outcome, dirty, publisher, broker, daemon, owed>>

\* ProduceSync retries without limit: it returns once the broker has
\* answered, or with an error once the root context is cancelled.
Produce(p) ==
  /\ pc[p] = "produce"
  /\ broker \/ ctxDone
  /\ Goto(p, "settle")
  /\ UNCHANGED <<mach, outcome, dirty, pubVars, broker, daemon, owed>>

\* Mutant: the result of the publish is taken for that of the checkpoint.
SettleByPublish(p) ==
  /\ pc[p] = "settle"
  /\ \E m \in IF outcome[p] = "ok" /\ (publisher => registered)
              THEN {BackupSuccess(mach[p])} ELSE BackupFail(mach[p]) :
       Move(p, m)
  /\ outcome' = [outcome EXCEPT ![p] = "none"]
  /\ Goto(p, "recheck")
  /\ UNCHANGED <<dirty, pubVars, broker, daemon>>

Settle(p) ==
  /\ pc[p] = "settle"
  /\ \E m \in IF outcome[p] = "ok"
              THEN {BackupSuccess(mach[p])} ELSE BackupFail(mach[p]) :
       Move(p, m)
  /\ outcome' = [outcome EXCEPT ![p] = "none"]
  /\ Goto(p, "recheck")
  /\ UNCHANGED <<dirty, pubVars, broker, daemon>>

\* GetState() == StateError && CanRetry(), then the retry: three locks.
Recheck(p) ==
  /\ pc[p] = "recheck"
  /\ Goto(p, IF mach[p].st = "error" THEN "canRetry" ELSE "select")
  /\ UNCHANGED <<mach, outcome, dirty, pubVars, broker, daemon, owed>>

CheckRetry(p) ==
  /\ pc[p] = "canRetry"
  /\ Goto(p, IF CanRetry(mach[p]) THEN "retry" ELSE "select")
  /\ UNCHANGED <<mach, outcome, dirty, pubVars, broker, daemon, owed>>

Retry(p) ==
  /\ pc[p] = "retry"
  /\ Move(p, TriggerBackup(mach[p]))
  /\ Goto(p, "select")
  /\ UNCHANGED <<outcome, dirty, pubVars, broker, daemon>>

\* case <-ctx.Done(): return
LoopReturn(p) ==
  /\ pc[p] = "select"
  /\ ctxDone
  /\ Goto(p, "done")
  /\ UNCHANGED <<mach, outcome, dirty, pubVars, broker, daemon, owed>>

-----------------------------------------------------------------------------
(***************************************************************************)
(* The control port, the clock and the world outside.                      *)
(***************************************************************************)
HandleBackup(p) ==
  /\ Up
  /\ Move(p, TriggerBackup(mach[p]))
  /\ UNCHANGED <<loopVars, dirty, pubVars, broker, daemon>>

HandleReset(p) ==
  /\ Up
  /\ Move(p, ClearError(mach[p]))
  /\ UNCHANGED <<loopVars, dirty, pubVars, broker, daemon>>

Tick ==
  /\ mach' = [p \in Project |-> Elapse(mach[p])]
  /\ owed' = [p \in Project |-> IF owed[p] > 0 THEN owed[p] - 1 ELSE 0]
  /\ UNCHANGED <<loopVars, dirty, pubVars, broker, daemon>>

\* Somebody edits the working tree, or commits.
TouchTree(p) ==
  /\ dirty' = [dirty EXCEPT ![p] = ~@]
  /\ UNCHANGED <<mach, loopVars, pubVars, broker, daemon, owed>>

BrokerFails ==
  /\ KafkaConfigured /\ broker /\ broker' = FALSE
  /\ UNCHANGED <<mach, loopVars, dirty, pubVars, daemon, owed>>

BrokerRecovers ==
  /\ ~broker /\ broker' = TRUE
  /\ UNCHANGED <<mach, loopVars, dirty, pubVars, daemon, owed>>

\* ListenAndServe fails: the goroutine of the control port cancels.
Cancel ==
  /\ daemon = "up" /\ daemon' = "cancelled"
  /\ UNCHANGED <<mach, loopVars, dirty, pubVars, broker, owed>>

\* The process ends (SIGTERM, the return after Cancel, a kill) without
\* waiting for the loops: machines, publisher and in-flight work are gone.
Exit ==
  /\ Up
  /\ mach' = [p \in Project |-> NewMachine]
  /\ pc' = [p \in Project |-> "done"]
  /\ outcome' = [p \in Project |-> "none"]
  /\ publisher' = FALSE
  /\ registered' = FALSE
  /\ mu' = free
  /\ daemon' = "down"
  /\ owed' = [p \in Project |-> 0]
  /\ UNCHANGED <<dirty, broker>>

Restart ==
  /\ daemon = "down" /\ daemon' = "up"
  /\ pc' \in StartLabels
  /\ publisher' \in Publishers(broker)
  /\ UNCHANGED <<mach, outcome, dirty, registered, mu, broker, owed>>

-----------------------------------------------------------------------------
Loop(p) ==
  \/ StartupCheck(p) \/ HasChurn(p) \/ AdvanceOnChurn(p)
  \/ ToMonitoring(p) \/ ToBacking(p)
  \/ Checkpoint(p) \/ Publish(p) \/ RegisterSchema(p) \/ Produce(p)
  \/ Settle(p) \/ Recheck(p) \/ CheckRetry(p) \/ Retry(p)

Next ==
  \/ \E p \in Project :
       \/ Loop(p) \/ PollTick(p) \/ EvalTick(p) \/ LoopReturn(p)
       \/ HandleBackup(p) \/ HandleReset(p) \/ TouchTree(p)
  \/ Tick \/ BrokerFails \/ BrokerRecovers \/ Cancel \/ Exit \/ Restart

Spec == Init /\ [][Next]_vars

(***************************************************************************)
(* Fairness holds only while the context lives: after that the process is  *)
(* on its way out.  The Go scheduler runs a goroutine that can run; select *)
(* picks at random among the tickers that are ready, so neither starves;   *)
(* sync.Mutex hands over to a waiter it has starved; git cannot fail to    *)
(* answer for ever; the clock runs.                                        *)
(***************************************************************************)
LoopFairness ==
  /\ \A p \in Project :
       /\ WF_vars(~ctxDone /\ Loop(p))
       /\ SF_vars(~ctxDone /\ Publish(p))
       /\ SF_vars(~ctxDone /\ PollTick(p))
       /\ SF_vars(~ctxDone /\ EvalTick(p))
       /\ SF_vars(~ctxDone /\ HasChurn(p) /\ pc'[p] = "advance")
  /\ WF_vars(Tick)

\* The broker is there or comes back, and takes the record in the end even
\* if it flaps.
FairSpec ==
  /\ Spec
  /\ LoopFairness
  /\ WF_vars(BrokerRecovers)
  /\ \A p \in Project : SF_vars(~ctxDone /\ Produce(p))

\* Nothing says that the broker ever comes back.
OutageSpec == Spec /\ LoopFairness

-----------------------------------------------------------------------------
\* The machines, the goroutines' positions, the publisher and the process keep
\* their types; the backoff a project owes is never negative.
TypeOK ==
  /\ mach \in [Project -> Machine]
  /\ pc \in [Project -> Label]
  /\ outcome \in [Project -> {"none", "ok", "fail"}]
  /\ dirty \in [Project -> BOOLEAN]
  /\ publisher \in BOOLEAN
  /\ registered \in BOOLEAN
  /\ mu \in Project \cup {free}
  /\ broker \in BOOLEAN
  /\ daemon \in {"up", "cancelled", "down"}
  /\ owed \in [Project -> Nat]

-----------------------------------------------------------------------------
(***************************************************************************)
(* Safety.                                                                 *)
(***************************************************************************)

\* From the moment a checkpoint starts until its result is applied the
\* machine stays in backing_up: no poke, reset or poll that arrives during
\* the walk or the publish takes it away (main.go:340-360 against the
\* handlers of httpapi.go), so the closing event is never a silent no-op.
CheckpointOwnsMachine == \A p \in Project : Busy(p) => mach[p].st = "backing_up"

\* No checkpoint is pending or running while the documented backoff (2^n
\* minutes after the n-th failure in a row, an hour at most) is unexpired,
\* however retries, manual triggers, resets and the clock interleave.
BackoffHonoured ==
  \A p \in Project : mach[p].st = "backing_up" => owed[p] = 0

\* Publisher.mu is held exactly by the goroutine that is registering the
\* schema, and never left locked by a failed registration.
RegistrationSerialised == \A p \in Project : pc[p] = "register" <=> mu = p

(***************************************************************************)
(* The promise.                                                            *)
(***************************************************************************)
Phase(m) == CASE m.st = "backing_up" -> "due"
              [] m.st = "error" -> "failed"
              [] OTHER -> "quiet"

Attempt(p) == IF pc[p] = "checkpoint" THEN "running"
              ELSE IF Busy(p) THEN outcome[p] ELSE "none"

Promise == INSTANCE BackupPromise WITH
  phase <- [p \in Project |-> Phase(mach[p])],
  attempt <- [p \in Project |-> Attempt(p)],
  live <- ~ctxDone

\* The loop, its handlers and the publisher implement BackupPromise: one
\* attempt per due period, settled by the attempt's own result; and, since
\* FairSpec states fairness, every due project is begun and every attempt
\* settled while the daemon lives.
PromiseKept == Promise!FairSpec

\* The safety part of the same statement.
PromiseSafe == Promise!Spec

(***************************************************************************)
(* Liveness.                                                               *)
(***************************************************************************)

\* A working tree that stays dirty is checkpointed over and over, through
\* failures, backoff, resets and git errors, as long as the daemon lives.
ChurnIsBackedUp ==
  \A p \in Project :
    <>[](dirty[p] /\ ~ctxDone) => []<>(pc[p] = "checkpoint")

\* A failed project does not stay failed: its backoff expires and it is
\* retried, or somebody resets it.
ErrorIsRetried ==
  \A p \in Project : mach[p].st = "error" ~> (mach[p].st # "error" \/ ctxDone)

(***************************************************************************)
(* What the documentation says and the code does not do.                   *)
(***************************************************************************)

\* docs/events.md: "Event emission never blocks or fails a backup".
EmissionNeverBlocks ==
  \A p \in Project :
    mach[p].st = "backing_up" ~> (mach[p].st # "backing_up" \/ ctxDone)
=============================================================================
