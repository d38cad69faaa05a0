-------------------------- MODULE BackupLoopProofs --------------------------
(***************************************************************************)
(* Theorems about the backup loop for every set of projects, every tick    *)
(* length and every bound on failures, and the proof that it implements    *)
(* BackupPromise.                                                          *)
(***************************************************************************)
EXTENDS BackupLoop, TLAPS

-----------------------------------------------------------------------------
(* What the operators of BackupMachine return. *)

LEMMA NewMachineType == NewMachine \in Machine
  BY DEF NewMachine, Machine, State, Past

LEMMA PolicyType == \A n \in Nat \ {0} : PolicyMinutes(n) \in Nat
  BY DEF PolicyMinutes, Doubling, HourMinutes

LEMMA BaseWaitType == \A n \in Nat \ {0} : BaseWait(n) \subseteq Int
  BY DEF BaseWait, Doubling, HourMinutes, OverflowAt

\* Below the overflow the computed wait is the documented one.
LEMMA BaseWaitExact ==
  \A n \in Nat \ {0} : n < OverflowAt => BaseWait(n) = {PolicyMinutes(n)}
  BY DEF BaseWait, PolicyMinutes, OverflowAt

LEMMA UntilType == \A t \in Int : Until(t) \in Nat \cup {Past}
  BY DEF Until, Past

LEMMA MachineOps ==
  ASSUME NEW m \in Machine
  PROVE  /\ ChurnDetected(m) \in Machine
         /\ TriggerBackup(m) \in Machine
         /\ BackupSuccess(m) \in Machine
         /\ ClearError(m) \in Machine
         /\ Elapse(m) \in Machine
  <1>1. Until(m.retryIn - 1) \in Nat \cup {Past}
    BY UntilType DEF Machine, Past
  <1>2. Elapse(m) \in Machine
    BY <1>1 DEF Elapse, Machine
  <1>3. QED
    BY <1>2, NewMachineType
       DEF ChurnDetected, TriggerBackup, BackupSuccess, ClearError, Machine, State

LEMMA BackupFailOps ==
  ASSUME NEW m \in Machine, m.st = "backing_up", NEW f \in BackupFail(m)
  PROVE  /\ f \in Machine
         /\ f.st = "error"
         /\ f.errs = m.errs + 1
         /\ m.errs + 1 < OverflowAt =>
              f.retryIn >= TicksPerMinute * PolicyMinutes(m.errs + 1)
  <1>1. m.errs + 1 \in Nat \ {0}
    BY DEF Machine
  <1>2. PICK b \in BaseWait(m.errs + 1), j \in Jitter :
          f = [st |-> "error", errs |-> m.errs + 1,
               retryIn |-> Until(TicksPerMinute * b + j)]
    BY DEF BackupFail
  <1>3. b \in Int /\ j \in Nat /\ TicksPerMinute \in Nat
    BY <1>1, BaseWaitType, TicksAssumption DEF Jitter
  <1>4. TicksPerMinute * b \in Int
    BY <1>3
  <1>5. Until(TicksPerMinute * b + j) \in Nat \cup {Past}
    BY <1>3, <1>4, UntilType
  <1>6. f \in Machine
    BY <1>1, <1>2, <1>5 DEF Machine, State
  <1>7. ASSUME m.errs + 1 < OverflowAt
        PROVE  f.retryIn >= TicksPerMinute * PolicyMinutes(m.errs + 1)
    <2>1. b = PolicyMinutes(m.errs + 1) /\ b \in Nat
      BY <1>1, <1>7, BaseWaitExact, PolicyType
    <2>2. TicksPerMinute * b \in Nat
      BY <1>3, <2>1
    <2>3. Until(TicksPerMinute * b + j) = TicksPerMinute * b + j
      BY <1>3, <2>2 DEF Until
    <2>4. QED
      BY <1>2, <1>3, <2>1, <2>2, <2>3
  <1>8. QED
    BY <1>2, <1>6, <1>7

\* No event but BackupFail brings a machine into error.
LEMMA EventStates ==
  ASSUME NEW m \in Machine
  PROVE  /\ ChurnDetected(m).st = "error" => m.st = "error"
         /\ TriggerBackup(m).st = "error" => m.st = "error"
         /\ BackupSuccess(m).st = "error" => m.st = "error"
         /\ ClearError(m).st # "error"
         /\ Elapse(m).st = m.st
  BY DEF ChurnDetected, TriggerBackup, BackupSuccess, ClearError, Elapse,
         NewMachine, Machine

-----------------------------------------------------------------------------
(* Types. *)

LEMMA MoveType ==
  ASSUME TypeOK, NEW p \in Project, NEW m \in Machine, Move(p, m),
         m.st = "error" /\ mach[p].st # "error" => m.errs > 0
  PROVE  /\ mach' \in [Project -> Machine]
         /\ owed' \in [Project -> Nat]
  <1>1. m.st = "error" /\ mach[p].st # "error" =>
          TicksPerMinute * PolicyMinutes(m.errs) \in Nat
    BY PolicyType, TicksAssumption DEF Machine
  <1>2. mach' \in [Project -> Machine]
    BY DEF Move, TypeOK
  <1>3. owed' \in [Project -> Nat]
    BY <1>1 DEF Move, TypeOK
  <1>4. QED
    BY <1>2, <1>3

LEMMA StartType ==
  /\ \A l \in StartLabels : l \in [Project -> Label]
  /\ \A b : Publishers(b) \subseteq BOOLEAN
  BY DEF StartLabels, Label, Publishers

LEMMA TypeInit == Init => TypeOK
  <1> SUFFICES ASSUME Init PROVE TypeOK
    OBVIOUS
  <1>1. publisher \in BOOLEAN
    BY StartType, Zenon DEF Init
  <1>2. QED
    BY <1>1, NewMachineType, StartType DEF Init, TypeOK

LEMMA TypeNext == TypeOK /\ [Next]_vars => TypeOK'
  <1> SUFFICES ASSUME TypeOK, [Next]_vars PROVE TypeOK'
    OBVIOUS
  <1> USE DEF Goto, loopVars, pubVars
  <1>1. ASSUME NEW p \in Project,
               StartupCheck(p) \/ PollTick(p) \/ HasChurn(p)
        PROVE  TypeOK'
    BY <1>1 DEF StartupCheck, PollTick, HasChurn, TypeOK, Label
  <1>2. ASSUME NEW p \in Project,
               \/ AdvanceOnChurn(p) \/ EvalTick(p) \/ Checkpoint(p)
               \/ Recheck(p) \/ CheckRetry(p) \/ LoopReturn(p)
        PROVE  TypeOK'
    BY <1>2 DEF AdvanceOnChurn, EvalTick, Checkpoint, Recheck, CheckRetry,
                LoopReturn, TypeOK, Label
  <1>3. ASSUME NEW p \in Project,
               Publish(p) \/ RegisterSchema(p) \/ Produce(p)
        PROVE  TypeOK'
    BY <1>3 DEF Publish, RegisterSchema, Produce, TypeOK, Label
  <1>4. ASSUME NEW p \in Project,
               \/ ToMonitoring(p) \/ ToBacking(p) \/ Retry(p)
               \/ HandleBackup(p) \/ HandleReset(p)
        PROVE  TypeOK'
    <2>1. mach[p] \in Machine
      BY DEF TypeOK
    <2>2. PICK m \in Machine :
            /\ Move(p, m)
            /\ m.st = "error" => mach[p].st = "error"
      BY <1>4, <2>1, MachineOps, EventStates
         DEF ToMonitoring, ToBacking, Retry, HandleBackup, HandleReset
    <2>3. /\ mach' \in [Project -> Machine]
          /\ owed' \in [Project -> Nat]
      BY <2>2, MoveType
    <2>4. QED
      BY <1>4, <2>3 DEF ToMonitoring, ToBacking, Retry, HandleBackup,
                        HandleReset, TypeOK, Label
  <1>5. ASSUME NEW p \in Project, Settle(p)
        PROVE  TypeOK'
    <2>1. mach[p] \in Machine
      BY DEF TypeOK
    <2>2. PICK m \in IF outcome[p] = "ok"
                     THEN {BackupSuccess(mach[p])} ELSE BackupFail(mach[p]) :
            Move(p, m)
      BY <1>5 DEF Settle
    <2>3. m \in Machine /\ (m.st = "error" /\ mach[p].st # "error" => m.errs > 0)
      <3>1. CASE outcome[p] = "ok"
        BY <2>1, <2>2, <3>1, MachineOps, EventStates
      <3>2. CASE outcome[p] # "ok" /\ mach[p].st = "backing_up"
        <4>1. m \in Machine /\ m.errs = mach[p].errs + 1
          BY <2>1, <2>2, <3>2, BackupFailOps
        <4>2. QED
          BY <2>1, <4>1 DEF Machine
      <3>3. CASE outcome[p] # "ok" /\ mach[p].st # "backing_up"
        BY <2>1, <2>2, <3>3 DEF BackupFail
      <3>4. QED
        BY <3>1, <3>2, <3>3
    <2>4. /\ mach' \in [Project -> Machine]
          /\ owed' \in [Project -> Nat]
      BY <2>2, <2>3, MoveType
    <2>5. QED
      BY <1>5, <2>4 DEF Settle, TypeOK, Label
  <1>6. CASE Tick
    <2>1. mach' \in [Project -> Machine]
      BY <1>6, MachineOps DEF Tick, TypeOK
    <2>2. owed' \in [Project -> Nat]
      BY <1>6 DEF Tick, TypeOK
    <2>3. QED
      BY <1>6, <2>1, <2>2 DEF Tick, TypeOK
  <1>7. ASSUME NEW p \in Project, TouchTree(p)
        PROVE  TypeOK'
    BY <1>7, Zenon DEF TouchTree, TypeOK
  <1>8. CASE BrokerFails \/ BrokerRecovers \/ Cancel
    BY <1>8 DEF BrokerFails, BrokerRecovers, Cancel, TypeOK
  <1>9. CASE Exit
    BY <1>9, NewMachineType DEF Exit, TypeOK, Label
  <1>10. CASE Restart
    BY <1>10, StartType DEF Restart, TypeOK
  <1>11. CASE UNCHANGED vars
    BY <1>11 DEF vars, TypeOK
  <1>12. QED
    BY <1>1, <1>2, <1>3, <1>4, <1>5, <1>6, <1>7, <1>8, <1>9, <1>10, <1>11
       DEF Next, Loop

\* The machines, goroutines and the shared publisher keep their types: in
\* particular NextRetryAt is never more than one step in the past.
THEOREM TypeCorrect == Spec => []TypeOK
  BY TypeInit, TypeNext, PTL DEF Spec

-----------------------------------------------------------------------------
(***************************************************************************)
(* The inductive invariant.  CheckpointOwnsMachine needs to know that the  *)
(* goroutine in flight is the only one whose events leave backing_up, that *)
(* is the guards of ClearError and ChurnDetected; the promise also needs   *)
(* the result to be known while it is pending, and a process that is down  *)
(* to hold nothing.                                                        *)
(***************************************************************************)
OutcomeKnown ==
  \A p \in Project :
    pc[p] \in InFlight \ {"checkpoint"} => outcome[p] \in {"ok", "fail"}

DownIsEmpty ==
  daemon = "down" =>
    \A p \in Project : pc[p] = "done" /\ mach[p].st = "fallow"

LoopInv == /\ CheckpointOwnsMachine
           /\ RegistrationSerialised
           /\ OutcomeKnown
           /\ DownIsEmpty

(***************************************************************************)
(* For the backoff: while the policy still asks for a wait the machine is  *)
(* in error and NextRetryAt is at least as far away.  The bound on errs is *)
(* what keeps the computed wait exact.                                     *)
(***************************************************************************)
BackoffInv ==
  \A p \in Project :
    /\ mach[p].errs <= MaxErrors
    /\ (pc[p] \in InFlight \ {"checkpoint"} /\ outcome[p] = "fail")
         => mach[p].errs < MaxErrors
    /\ owed[p] = 0 \/ (mach[p].st = "error" /\ owed[p] <= mach[p].retryIn)

LEMMA EventsInBackingUp ==
  ASSUME NEW m \in Machine, m.st = "backing_up"
  PROVE  ChurnDetected(m) = m /\ TriggerBackup(m) = m /\ ClearError(m) = m
  BY DEF ChurnDetected, TriggerBackup, ClearError

LEMMA StartNotInFlight ==
  \A l \in StartLabels, p \in Project : l[p] \in {"startup", "select"}
  BY DEF StartLabels

LEMMA LoopInvInit == Init => LoopInv
  BY StartNotInFlight, LoopAssumption
     DEF Init, LoopInv, CheckpointOwnsMachine, RegistrationSerialised,
         OutcomeKnown, DownIsEmpty, Busy, InFlight, free

LEMMA LoopInvNext == TypeOK /\ LoopInv /\ [Next]_vars => LoopInv'
  <1> SUFFICES ASSUME TypeOK, LoopInv, [Next]_vars PROVE LoopInv'
    OBVIOUS
  <1> USE DEF Goto, loopVars, pubVars, LoopInv,
              CheckpointOwnsMachine, RegistrationSerialised, OutcomeKnown,
              DownIsEmpty, Busy, InFlight
  <1>1. ASSUME NEW p \in Project,
               \/ StartupCheck(p) \/ PollTick(p) \/ HasChurn(p)
               \/ AdvanceOnChurn(p) \/ Recheck(p) \/ CheckRetry(p)
               \/ LoopReturn(p)
        PROVE  LoopInv'
    BY <1>1 DEF StartupCheck, PollTick, HasChurn, AdvanceOnChurn, Recheck,
                CheckRetry, LoopReturn, TypeOK
  <1>2. ASSUME NEW p \in Project,
               EvalTick(p) \/ Checkpoint(p) \/ Produce(p)
        PROVE  LoopInv'
    BY <1>2 DEF EvalTick, Checkpoint, Produce, TypeOK
  <1>3. ASSUME NEW p \in Project, Publish(p) \/ RegisterSchema(p)
        PROVE  LoopInv'
    BY <1>3, LoopAssumption DEF Publish, RegisterSchema, TypeOK, free
  <1>4. ASSUME NEW p \in Project,
               ToMonitoring(p) \/ ToBacking(p) \/ Retry(p)
        PROVE  LoopInv'
    BY <1>4 DEF ToMonitoring, ToBacking, Retry, Move, TypeOK
  <1>5. ASSUME NEW p \in Project, HandleBackup(p) \/ HandleReset(p)
        PROVE  LoopInv'
    <2>1. mach[p] \in Machine
      BY DEF TypeOK
    <2>2. Busy(p) => mach' = mach
      BY <1>5, <2>1, EventsInBackingUp
         DEF HandleBackup, HandleReset, Move, TypeOK
    <2>3. daemon # "down"
      BY <1>5 DEF HandleBackup, HandleReset, Up
    <2>4. QED
      BY <1>5, <2>2, <2>3 DEF HandleBackup, HandleReset, Move, TypeOK
  <1>6. ASSUME NEW p \in Project, Settle(p)
        PROVE  LoopInv'
    BY <1>6 DEF Settle, Move, TypeOK
  <1>7. CASE Tick
    <2>1. \A p \in Project : mach'[p].st = mach[p].st
      BY <1>7, EventStates DEF Tick, TypeOK
    <2>2. QED
      BY <1>7, <2>1 DEF Tick
  <1>8. CASE \/ \E p \in Project : TouchTree(p)
             \/ BrokerFails \/ BrokerRecovers \/ Cancel
    BY <1>8 DEF TouchTree, BrokerFails, BrokerRecovers, Cancel
  <1>9. CASE Exit
    BY <1>9, LoopAssumption DEF Exit, NewMachine, free
  <1>10. CASE Restart
    BY <1>10, StartNotInFlight DEF Restart
  <1>11. CASE UNCHANGED vars
    BY <1>11 DEF vars
  <1>12. QED
    BY <1>1, <1>2, <1>3, <1>4, <1>5, <1>6, <1>7, <1>8, <1>9, <1>10, <1>11
       DEF Next, Loop

LEMMA LoopInvariant == Spec => [](TypeOK /\ LoopInv)
  <1>1. Init => TypeOK /\ LoopInv
    BY TypeInit, LoopInvInit
  <1>2. TypeOK /\ LoopInv /\ [Next]_vars => TypeOK' /\ LoopInv'
    BY TypeNext, LoopInvNext
  <1>3. QED
    BY <1>1, <1>2, PTL DEF Spec

\* For any number of projects, no manual trigger, reset, poll, clock tick or
\* broker outage takes a machine out of backing_up while its checkpoint or
\* the publishing of its event is in flight.
THEOREM CheckpointOwned == Spec => []CheckpointOwnsMachine
  <1>1. LoopInv => CheckpointOwnsMachine
    BY DEF LoopInv
  <1>2. QED
    BY <1>1, LoopInvariant, PTL

\* For any number of projects sharing the publisher, its mutex is held by
\* the one goroutine that is registering the schema and by nobody else.
THEOREM RegistrationMutex == Spec => []RegistrationSerialised
  <1>1. LoopInv => RegistrationSerialised
    BY DEF LoopInv
  <1>2. QED
    BY <1>1, LoopInvariant, PTL

-----------------------------------------------------------------------------
(* The backoff. *)

LEMMA BackoffInit == Init => BackoffInv
  BY LoopAssumption, StartNotInFlight
     DEF Init, BackoffInv, NewMachine, InFlight

LEMMA MoveOwed ==
  ASSUME TypeOK, NEW p \in Project, NEW m \in Machine, Move(p, m),
         m.st = "error" => mach[p].st = "error"
  PROVE  /\ mach'[p] = m
         /\ \A q \in Project \ {p} : mach'[q] = mach[q] /\ owed'[q] = owed[q]
         /\ mach[p].st = "error" /\ m.st = "fallow" => owed'[p] = 0
         /\ ~(mach[p].st = "error" /\ m.st = "fallow") => owed'[p] = owed[p]
  BY DEF Move, TypeOK

\* What an event other than the closing ones of a checkpoint may change.
LEMMA EventFrame ==
  ASSUME NEW m \in Machine,
         NEW e \in {ChurnDetected(m), TriggerBackup(m), ClearError(m)}
  PROVE  /\ e \in Machine
         /\ e.st = "error" => e = m
         /\ e.errs = m.errs \/ e = NewMachine
         /\ m.st = "error" /\ m.retryIn > 0 => e = m \/ e = NewMachine
         /\ m.st = "backing_up" => e = m
  BY MachineOps DEF ChurnDetected, TriggerBackup, ClearError, InBackoff,
                    NewMachine, Machine

LEMMA EventKeepsBackoff ==
  ASSUME TypeOK, LoopInv, BackoffInv, NEW p \in Project,
         NEW m \in {ChurnDetected(mach[p]), TriggerBackup(mach[p]),
                    ClearError(mach[p])},
         Move(p, m),
         UNCHANGED outcome,
         \A q \in Project : pc'[q] \in InFlight => pc'[q] = pc[q]
  PROVE  BackoffInv'
  <1>1. mach[p] \in Machine /\ owed[p] \in Nat /\ MaxErrors \in Nat
    BY LoopAssumption DEF TypeOK
  <1>2. /\ m \in Machine
        /\ m.st = "error" => m = mach[p]
        /\ m.errs = mach[p].errs \/ m = NewMachine
        /\ mach[p].st = "error" /\ mach[p].retryIn > 0 =>
             m = mach[p] \/ m = NewMachine
        /\ mach[p].st = "backing_up" => m = mach[p]
    BY <1>1, EventFrame
  <1>3. /\ mach'[p] = m
        /\ \A q \in Project \ {p} : mach'[q] = mach[q] /\ owed'[q] = owed[q]
        /\ mach[p].st = "error" /\ m.st = "fallow" => owed'[p] = 0
        /\ ~(mach[p].st = "error" /\ m.st = "fallow") => owed'[p] = owed[p]
    BY <1>2, MoveOwed
  <1>4. m.errs <= MaxErrors
    BY <1>1, <1>2 DEF BackoffInv, NewMachine
  <1>5. pc[p] \in InFlight => m = mach[p]
    BY <1>2 DEF LoopInv, CheckpointOwnsMachine, Busy
  <1>6. owed'[p] = 0 \/ (m.st = "error" /\ owed'[p] <= m.retryIn)
    <2>1. CASE m = mach[p]
      BY <1>3, <2>1 DEF BackoffInv
    <2>2. CASE m # mach[p] /\ mach[p].st # "error"
      BY <1>3, <2>2 DEF BackoffInv
    <2>3. CASE mach[p].st = "error" /\ m.st = "fallow"
      BY <1>3, <2>3
    <2>4. CASE m # mach[p] /\ mach[p].st = "error" /\ m.st # "fallow"
      <3>1. ~(mach[p].retryIn > 0)
        BY <1>2, <2>4 DEF NewMachine
      <3>2. owed[p] = 0
        BY <1>1, <3>1 DEF BackoffInv, Machine, Past
      <3>3. QED
        BY <1>3, <2>4, <3>2
    <2>5. QED
      BY <2>1, <2>2, <2>3, <2>4
  <1>7. QED
    BY <1>3, <1>4, <1>5, <1>6 DEF BackoffInv

LEMMA BackoffNext ==
  ASSUME MaxErrors < OverflowAt
  PROVE  TypeOK /\ LoopInv /\ BackoffInv /\ [Next]_vars => BackoffInv'
  <1> SUFFICES ASSUME TypeOK, LoopInv, BackoffInv, [Next]_vars
               PROVE  BackoffInv'
    OBVIOUS
  <1> USE DEF Goto, loopVars, pubVars
  <1>1. ASSUME NEW p \in Project,
               \/ StartupCheck(p) \/ PollTick(p) \/ HasChurn(p)
               \/ AdvanceOnChurn(p) \/ Recheck(p) \/ CheckRetry(p)
               \/ LoopReturn(p) \/ EvalTick(p) \/ Checkpoint(p)
        PROVE  BackoffInv'
    BY <1>1, LoopAssumption
       DEF StartupCheck, PollTick, HasChurn, AdvanceOnChurn, Recheck,
           CheckRetry, LoopReturn, EvalTick, Checkpoint, BackoffInv,
           InFlight, TypeOK
  <1>2. ASSUME NEW p \in Project,
               Publish(p) \/ RegisterSchema(p) \/ Produce(p)
        PROVE  BackoffInv'
    BY <1>2 DEF Publish, RegisterSchema, Produce, BackoffInv, InFlight, TypeOK
  <1>3. ASSUME NEW p \in Project,
               ToMonitoring(p) \/ ToBacking(p) \/ Retry(p)
        PROVE  BackoffInv'
    <2>1. \A q \in Project : pc'[q] \in InFlight => pc'[q] = pc[q]
      BY <1>3 DEF ToMonitoring, ToBacking, Retry, InFlight, TypeOK
    <2>2. UNCHANGED outcome
      BY <1>3 DEF ToMonitoring, ToBacking, Retry
    <2>3. \E m \in {ChurnDetected(mach[p]), TriggerBackup(mach[p]),
                    ClearError(mach[p])} : Move(p, m)
      BY <1>3 DEF ToMonitoring, ToBacking, Retry
    <2>4. QED
      BY <2>1, <2>2, <2>3, EventKeepsBackoff
  <1>4. ASSUME NEW p \in Project, HandleBackup(p) \/ HandleReset(p)
        PROVE  BackoffInv'
    <2>1. UNCHANGED <<pc, outcome>>
      BY <1>4 DEF HandleBackup, HandleReset
    <2>2. \E m \in {ChurnDetected(mach[p]), TriggerBackup(mach[p]),
                    ClearError(mach[p])} : Move(p, m)
      BY <1>4 DEF HandleBackup, HandleReset
    <2>3. QED
      BY <2>1, <2>2, EventKeepsBackoff
  <1>5. ASSUME NEW p \in Project, Settle(p)
        PROVE  BackoffInv'
    <2>1. /\ mach[p] \in Machine /\ mach[p].st = "backing_up"
          /\ outcome[p] \in {"ok", "fail"}
      BY <1>5 DEF Settle, TypeOK, LoopInv, CheckpointOwnsMachine, Busy,
                  InFlight, OutcomeKnown
    <2>2. PICK m \in IF outcome[p] = "ok"
                     THEN {BackupSuccess(mach[p])} ELSE BackupFail(mach[p]) :
            Move(p, m)
      BY <1>5 DEF Settle
    <2>3. /\ mach'[p] = m /\ pc'[p] = "recheck"
          /\ \A q \in Project \ {p} : /\ mach'[q] = mach[q]
                                      /\ owed'[q] = owed[q]
                                      /\ pc'[q] = pc[q]
                                      /\ outcome'[q] = outcome[q]
      BY <1>5, <2>2 DEF Settle, Move, TypeOK
    <2>4. m.errs <= MaxErrors
      <3>1. CASE outcome[p] = "ok"
        BY <2>1, <2>2, <3>1, LoopAssumption DEF BackupSuccess, NewMachine
      <3>2. CASE outcome[p] = "fail"
        <4>1. m.errs = mach[p].errs + 1
          BY <2>1, <2>2, <3>2, BackupFailOps
        <4>2. mach[p].errs < MaxErrors
          BY <1>5, <3>2 DEF Settle, BackoffInv, InFlight
        <4>3. QED
          BY <2>1, <4>1, <4>2, LoopAssumption DEF Machine
      <3>3. QED
        BY <2>1, <3>1, <3>2
    <2>5. owed'[p] = 0 \/ (m.st = "error" /\ owed'[p] <= m.retryIn)
      <3>1. CASE outcome[p] = "ok"
        <4>1. m = NewMachine
          BY <2>1, <2>2, <3>1 DEF BackupSuccess
        <4>2. owed'[p] = owed[p]
          BY <2>1, <2>2, <4>1 DEF Move, TypeOK, NewMachine
        <4>3. QED
          BY <2>1, <4>2 DEF BackoffInv
      <3>2. CASE outcome[p] = "fail"
        <4>1. /\ m.st = "error" /\ m.errs = mach[p].errs + 1
              /\ m.errs < OverflowAt =>
                   m.retryIn >= TicksPerMinute * PolicyMinutes(m.errs)
          BY <2>1, <2>2, <3>2, BackupFailOps
        <4>2. m.errs < OverflowAt
          BY <2>1, <2>4, <4>1, LoopAssumption DEF Machine, OverflowAt
        <4>3. owed'[p] = TicksPerMinute * PolicyMinutes(m.errs)
          BY <2>1, <2>2, <4>1 DEF Move, TypeOK
        <4>4. owed'[p] \in Nat /\ m.retryIn \in Int
          <5>1. m \in Machine /\ m.errs \in Nat \ {0}
            BY <2>1, <2>2, <3>2, <4>1, BackupFailOps DEF Machine
          <5>2. TicksPerMinute * PolicyMinutes(m.errs) \in Nat
            BY <5>1, PolicyType, TicksAssumption
          <5>3. QED
            BY <4>3, <5>1, <5>2 DEF Machine, Past
        <4>5. QED
          BY <4>1, <4>2, <4>3, <4>4
      <3>3. QED
        BY <2>1, <3>1, <3>2
    <2>6. QED
      BY <2>3, <2>4, <2>5 DEF BackoffInv, InFlight
  <1>6. CASE Tick
    <2>1. ASSUME NEW p \in Project
          PROVE  /\ mach'[p].st = mach[p].st
                 /\ mach'[p].errs = mach[p].errs
                 /\ owed'[p] = 0 \/ (mach'[p].st = "error" /\ owed'[p] <= mach'[p].retryIn)
      <3>1. /\ mach'[p] = [mach[p] EXCEPT !.retryIn = Until(mach[p].retryIn - 1)]
            /\ mach[p] \in Machine /\ owed[p] \in Nat
            /\ owed'[p] = IF owed[p] > 0 THEN owed[p] - 1 ELSE 0
        BY <1>6 DEF Tick, Elapse, TypeOK
      <3>2. mach'[p].retryIn = Until(mach[p].retryIn - 1)
        BY <3>1 DEF Machine
      <3>3. mach'[p].st = mach[p].st /\ mach'[p].errs = mach[p].errs
        BY <3>1 DEF Machine
      <3>4. owed[p] > 0 => owed[p] <= mach[p].retryIn /\ mach[p].st = "error"
        BY <3>1 DEF BackoffInv
      <3>5. owed[p] > 0 => Until(mach[p].retryIn - 1) = mach[p].retryIn - 1
        BY <3>1, <3>4 DEF Machine, Until, Past
      <3>6. QED
        BY <3>1, <3>2, <3>3, <3>4, <3>5 DEF Machine, Past
    <2>2. QED
      BY <1>6, <2>1 DEF Tick, BackoffInv
  <1>7. CASE \/ \E p \in Project : TouchTree(p)
             \/ BrokerFails \/ BrokerRecovers \/ Cancel
    BY <1>7 DEF TouchTree, BrokerFails, BrokerRecovers, Cancel, BackoffInv
  <1>8. CASE Exit
    BY <1>8, LoopAssumption DEF Exit, BackoffInv, NewMachine, InFlight
  <1>9. CASE Restart
    BY <1>9, StartNotInFlight DEF Restart, BackoffInv, InFlight
  <1>10. CASE UNCHANGED vars
    BY <1>10 DEF vars, BackoffInv
  <1>11. QED
    BY <1>1, <1>2, <1>3, <1>4, <1>5, <1>6, <1>7, <1>8, <1>9, <1>10
       DEF Next, Loop

\* As long as fewer than 28 failures come in a row, no interleaving of
\* retries, manual triggers, resets and ticks starts a checkpoint inside
\* the documented backoff.  The bound is sharp: at 28 the int64 product of
\* state.go:83 turns negative and the property fails.
THEOREM BackoffIsHonoured ==
  ASSUME MaxErrors < OverflowAt
  PROVE  Spec => []BackoffHonoured
  <1>1. TypeOK /\ LoopInv /\ BackoffInv /\ [Next]_vars => BackoffInv'
    BY BackoffNext
  <1>2. BackoffInv => BackoffHonoured
    BY DEF BackoffInv, BackoffHonoured
  <1>3. QED
    BY <1>1, <1>2, BackoffInit, LoopInvariant, PTL DEF Spec

-----------------------------------------------------------------------------
(***************************************************************************)
(* The backup loop implements BackupPromise, for every set of projects:    *)
(* its first state is an initial state of the promise and each of its      *)
(* steps is a step of the promise or changes nothing it can see.           *)
(***************************************************************************)
phaseOf == [p \in Project |-> Phase(mach[p])]
attemptOf == [p \in Project |-> Attempt(p)]

\* A step of one goroutine is seen at its own project only.
LEMMA SeenAtOne ==
  ASSUME TypeOK, NEW p \in Project,
         \A q \in Project \ {p} : /\ mach'[q] = mach[q]
                                  /\ pc'[q] = pc[q]
                                  /\ outcome'[q] = outcome[q]
  PROVE  /\ phaseOf' = [phaseOf EXCEPT ![p] = Phase(mach'[p])]
         /\ attemptOf' = [attemptOf EXCEPT ![p] = Attempt(p)']
         /\ phaseOf[p] = Phase(mach[p])
         /\ attemptOf[p] = Attempt(p)
         /\ Phase(mach'[p]) = Phase(mach[p]) => phaseOf' = phaseOf
         /\ Attempt(p)' = Attempt(p) => attemptOf' = attemptOf
  <1>1. ASSUME NEW q \in Project \ {p}
        PROVE  phaseOf'[q] = phaseOf[q] /\ attemptOf'[q] = attemptOf[q]
    BY DEF phaseOf, attemptOf, Attempt, Busy
  <1>2. phaseOf'[p] = Phase(mach'[p]) /\ attemptOf'[p] = Attempt(p)'
    BY DEF phaseOf, attemptOf
  <1>3. phaseOf[p] = Phase(mach[p]) /\ attemptOf[p] = Attempt(p)
    BY DEF phaseOf, attemptOf
  <1>4. /\ phaseOf = [q \in Project |-> phaseOf[q]]
        /\ attemptOf = [q \in Project |-> attemptOf[q]]
        /\ phaseOf' = [q \in Project |-> phaseOf'[q]]
        /\ attemptOf' = [q \in Project |-> attemptOf'[q]]
    BY DEF phaseOf, attemptOf
  <1>5. QED
    BY <1>1, <1>2, <1>3, <1>4

\* What a machine that changes under an event other than a checkpoint's own
\* looks like to the promise.
LEMMA PhaseOfEvent ==
  ASSUME NEW m \in Machine,
         NEW e \in {ChurnDetected(m), TriggerBackup(m), ClearError(m)}
  PROVE  \/ Phase(e) = Phase(m)
         \/ Phase(m) \in {"quiet", "failed"} /\ Phase(e) = "due"
         \/ Phase(m) = "failed" /\ Phase(e) = "quiet"
  BY DEF ChurnDetected, TriggerBackup, ClearError, InBackoff, NewMachine,
         Machine, State, Phase

LEMMA EventRefines ==
  ASSUME TypeOK, NEW p \in Project,
         NEW m \in {ChurnDetected(mach[p]), TriggerBackup(mach[p]),
                    ClearError(mach[p])},
         Move(p, m), UNCHANGED <<outcome, daemon>>,
         \A q \in Project \ {p} : pc'[q] = pc[q],
         Attempt(p)' = Attempt(p)
  PROVE  [Promise!Next]_(Promise!vars)
  <1>1. mach[p] \in Machine /\ mach'[p] = m
        /\ \A q \in Project \ {p} : mach'[q] = mach[q]
    BY DEF Move, TypeOK
  <1>2. /\ phaseOf' = [phaseOf EXCEPT ![p] = Phase(m)]
        /\ phaseOf[p] = Phase(mach[p])
        /\ attemptOf' = attemptOf
        /\ Phase(m) = Phase(mach[p]) => phaseOf' = phaseOf
    BY <1>1, SeenAtOne
  <1>3. ctxDone' = ctxDone
    BY DEF ctxDone
  <1>4. CASE Phase(m) = Phase(mach[p])
    BY <1>2, <1>3, <1>4 DEF Promise!vars, phaseOf, attemptOf
  <1>5. CASE Phase(mach[p]) \in {"quiet", "failed"} /\ Phase(m) = "due"
    <2>1. Promise!Demand(p)
      BY <1>2, <1>3, <1>5 DEF Promise!Demand, phaseOf, attemptOf
    <2>2. QED
      BY <2>1 DEF Promise!Next
  <1>6. CASE Phase(mach[p]) = "failed" /\ Phase(m) = "quiet"
    <2>1. Promise!Clear(p)
      BY <1>2, <1>3, <1>6 DEF Promise!Clear, phaseOf, attemptOf
    <2>2. QED
      BY <2>1 DEF Promise!Next
  <1>7. QED
    BY <1>1, <1>4, <1>5, <1>6, PhaseOfEvent

LEMMA PromiseStep ==
  TypeOK /\ LoopInv /\ [Next]_vars => [Promise!Next]_(Promise!vars)
  <1> SUFFICES ASSUME TypeOK, LoopInv, [Next]_vars
               PROVE  [Promise!Next]_(Promise!vars)
    OBVIOUS
  <1> USE DEF Goto, loopVars, pubVars
  <1>1. ASSUME NEW p \in Project,
               \/ StartupCheck(p) \/ PollTick(p) \/ HasChurn(p)
               \/ AdvanceOnChurn(p) \/ Recheck(p) \/ CheckRetry(p)
               \/ LoopReturn(p) \/ Publish(p) \/ RegisterSchema(p)
               \/ Produce(p)
               \/ (EvalTick(p) /\ mach[p].st # "backing_up")
        PROVE  [Promise!Next]_(Promise!vars)
    <2>1. /\ mach' = mach /\ outcome' = outcome /\ ctxDone' = ctxDone
          /\ \A q \in Project \ {p} : pc'[q] = pc[q]
      BY <1>1 DEF StartupCheck, PollTick, HasChurn, AdvanceOnChurn, Recheck,
           CheckRetry, LoopReturn, Publish, RegisterSchema, Produce, EvalTick,
           ctxDone, TypeOK
    <2>2. Attempt(p)' = Attempt(p)
      BY <1>1, <2>1 DEF StartupCheck, PollTick, HasChurn, AdvanceOnChurn,
           Recheck, CheckRetry, LoopReturn, Publish, RegisterSchema, Produce,
           EvalTick, TypeOK, Attempt, Busy, InFlight
    <2>3. phaseOf' = phaseOf /\ attemptOf' = attemptOf
      BY <2>1, <2>2, SeenAtOne
    <2>4. QED
      BY <2>1, <2>3 DEF Promise!vars, phaseOf, attemptOf
  <1>2. ASSUME NEW p \in Project, EvalTick(p), mach[p].st = "backing_up"
        PROVE  Promise!Begin(p)
    <2>1. /\ mach' = mach /\ outcome' = outcome /\ ctxDone' = ctxDone
          /\ pc[p] = "select" /\ pc'[p] = "checkpoint"
          /\ \A q \in Project \ {p} : pc'[q] = pc[q]
      BY <1>2 DEF EvalTick, ctxDone, TypeOK
    <2>2. Attempt(p) = "none" /\ Attempt(p)' = "running"
      BY <2>1 DEF Attempt, Busy, InFlight
    <2>3. /\ phaseOf' = phaseOf /\ phaseOf[p] = Phase(mach[p])
          /\ attemptOf' = [attemptOf EXCEPT ![p] = "running"]
          /\ attemptOf[p] = "none"
      BY <2>1, <2>2, SeenAtOne
    <2>4. QED
      BY <1>2, <2>1, <2>3 DEF Promise!Begin, phaseOf, attemptOf, Phase
  <1>3. ASSUME NEW p \in Project, Checkpoint(p)
        PROVE  Promise!Report(p)
    <2>1. PICK r \in {"ok", "fail"} : outcome' = [outcome EXCEPT ![p] = r]
      BY <1>3 DEF Checkpoint
    <2>2. /\ mach' = mach /\ ctxDone' = ctxDone /\ outcome'[p] = r
          /\ pc[p] = "checkpoint" /\ pc'[p] = "publish"
          /\ \A q \in Project \ {p} : pc'[q] = pc[q] /\ outcome'[q] = outcome[q]
      BY <1>3, <2>1 DEF Checkpoint, ctxDone, TypeOK
    <2>3. Attempt(p) = "running" /\ Attempt(p)' = r
      BY <2>2 DEF Attempt, Busy, InFlight
    <2>4. /\ phaseOf' = phaseOf
          /\ attemptOf' = [attemptOf EXCEPT ![p] = r]
          /\ attemptOf[p] = "running"
      BY <2>2, <2>3, SeenAtOne
    <2>5. QED
      BY <2>2, <2>4 DEF Promise!Report, phaseOf, attemptOf
  <1>4. ASSUME NEW p \in Project, Settle(p)
        PROVE  Promise!Finish(p)
    <2>1. /\ mach[p] \in Machine /\ mach[p].st = "backing_up"
          /\ outcome[p] \in {"ok", "fail"}
      BY <1>4 DEF Settle, TypeOK, LoopInv, CheckpointOwnsMachine, Busy,
                  InFlight, OutcomeKnown
    <2>2. PICK m \in IF outcome[p] = "ok"
                     THEN {BackupSuccess(mach[p])} ELSE BackupFail(mach[p]) :
            Move(p, m)
      BY <1>4 DEF Settle
    <2>3. Phase(m) = IF outcome[p] = "ok" THEN "quiet" ELSE "failed"
      <3>1. CASE outcome[p] = "ok"
        BY <2>1, <2>2, <3>1 DEF BackupSuccess, NewMachine, Phase
      <3>2. CASE outcome[p] = "fail"
        BY <2>1, <2>2, <3>2, BackupFailOps DEF Phase
      <3>3. QED
        BY <2>1, <3>1, <3>2
    <2>4. /\ mach'[p] = m /\ ctxDone' = ctxDone
          /\ pc[p] = "settle" /\ pc'[p] = "recheck"
          /\ \A q \in Project \ {p} : /\ mach'[q] = mach[q]
                                      /\ pc'[q] = pc[q]
                                      /\ outcome'[q] = outcome[q]
      BY <1>4, <2>2 DEF Settle, Move, ctxDone, TypeOK
    <2>5. Attempt(p) = outcome[p] /\ Attempt(p)' = "none"
      BY <2>4 DEF Attempt, Busy, InFlight
    <2>6. /\ phaseOf' = [phaseOf EXCEPT ![p] = Phase(m)]
          /\ phaseOf[p] = Phase(mach[p])
          /\ attemptOf' = [attemptOf EXCEPT ![p] = "none"]
          /\ attemptOf[p] = outcome[p]
      BY <2>4, <2>5, SeenAtOne
    <2>7. phaseOf[p] = "due"
      BY <2>1, <2>6 DEF Phase
    <2>8. QED
      BY <2>1, <2>3, <2>4, <2>6, <2>7 DEF Promise!Finish, phaseOf, attemptOf
  <1>5. ASSUME NEW p \in Project,
               \/ ToMonitoring(p) \/ ToBacking(p) \/ Retry(p)
               \/ HandleBackup(p) \/ HandleReset(p)
        PROVE  [Promise!Next]_(Promise!vars)
    <2>1. \E m \in {ChurnDetected(mach[p]), TriggerBackup(mach[p]),
                    ClearError(mach[p])} : Move(p, m)
      BY <1>5 DEF ToMonitoring, ToBacking, Retry, HandleBackup, HandleReset
    <2>2. /\ UNCHANGED <<outcome, daemon>>
          /\ \A q \in Project \ {p} : pc'[q] = pc[q]
      BY <1>5 DEF ToMonitoring, ToBacking, Retry, HandleBackup, HandleReset,
                  TypeOK
    <2>3. Attempt(p)' = Attempt(p)
      BY <1>5, <2>2 DEF ToMonitoring, ToBacking, Retry, HandleBackup,
                        HandleReset, TypeOK, Attempt, Busy, InFlight
    <2>4. QED
      BY <2>1, <2>2, <2>3, EventRefines
  <1>6. CASE Tick
    <2>1. \A p \in Project : Phase(mach'[p]) = Phase(mach[p])
      BY <1>6, EventStates DEF Tick, TypeOK, Phase
    <2>2. phaseOf' = phaseOf
      BY <2>1 DEF phaseOf
    <2>3. attemptOf' = attemptOf /\ ctxDone' = ctxDone
      BY <1>6 DEF Tick, attemptOf, Attempt, Busy, ctxDone
    <2>4. QED
      BY <2>2, <2>3 DEF Promise!vars, phaseOf, attemptOf
  <1>7. CASE \/ \E p \in Project : TouchTree(p)
             \/ BrokerFails \/ BrokerRecovers
    <2>1. UNCHANGED <<mach, pc, outcome, daemon>>
      BY <1>7 DEF TouchTree, BrokerFails, BrokerRecovers
    <2>2. QED
      BY <2>1 DEF Promise!vars, Attempt, Busy, ctxDone
  <1>8. CASE Cancel
    <2>1. UNCHANGED <<mach, pc, outcome>> /\ ~ctxDone /\ ctxDone'
      BY <1>8 DEF Cancel, ctxDone
    <2>2. Promise!Cancel
      BY <2>1 DEF Promise!Cancel, Attempt, Busy
    <2>3. QED
      BY <2>2 DEF Promise!Next
  <1>9. CASE Exit
    <2>1. /\ ctxDone'
          /\ \A p \in Project : mach'[p] = NewMachine /\ pc'[p] = "done"
      BY <1>9 DEF Exit, ctxDone
    <2>2. \A p \in Project : Phase(mach'[p]) = "quiet" /\ Attempt(p)' = "none"
      BY <2>1 DEF Phase, NewMachine, Attempt, Busy, InFlight
    <2>3. Promise!Exit
      BY <2>1, <2>2 DEF Promise!Exit
    <2>4. QED
      BY <2>3 DEF Promise!Next
  <1>10. CASE Restart
    <2>1. /\ \A p \in Project : pc[p] = "done" /\ mach[p].st = "fallow"
          /\ \A p \in Project : pc'[p] \in {"startup", "select"}
          /\ mach' = mach /\ ~ctxDone'
      BY <1>10, StartNotInFlight DEF Restart, LoopInv, DownIsEmpty, ctxDone
    <2>2. \A p \in Project : /\ Phase(mach[p]) = "quiet"
                             /\ Phase(mach'[p]) = "quiet"
                             /\ Attempt(p) = "none"
                             /\ Attempt(p)' = "none"
      BY <2>1 DEF Phase, Attempt, Busy, InFlight
    <2>3. Promise!Restart
      BY <2>1, <2>2 DEF Promise!Restart
    <2>4. QED
      BY <2>3 DEF Promise!Next
  <1>11. CASE UNCHANGED vars
    <2>1. UNCHANGED <<mach, pc, outcome, daemon>>
      BY <1>11 DEF vars
    <2>2. QED
      BY <2>1 DEF Promise!vars, Attempt, Busy, ctxDone
  <1>12. ASSUME NEW p \in Project,
                Promise!Begin(p) \/ Promise!Report(p) \/ Promise!Finish(p)
         PROVE  Promise!Next
    BY <1>12 DEF Promise!Next
  <1>13. ASSUME NEW p \in Project, Loop(p) \/ PollTick(p) \/ EvalTick(p)
         PROVE  [Promise!Next]_(Promise!vars)
    BY <1>1, <1>2, <1>3, <1>4, <1>5, <1>12, <1>13 DEF Loop
  <1>14. QED
    BY <1>1, <1>5, <1>6, <1>7, <1>8, <1>9, <1>10, <1>11, <1>13 DEF Next

LEMMA PromiseInit == Init => Promise!Init
  <1> SUFFICES ASSUME Init PROVE Promise!Init
    OBVIOUS
  <1>1. \A p \in Project : Phase(mach[p]) = "quiet" /\ Attempt(p) = "none"
    BY StartNotInFlight DEF Init, NewMachine, Phase, Attempt, Busy, InFlight
  <1>2. QED
    BY <1>1 DEF Init, Promise!Init, ctxDone

\* The loop, the handlers and the publisher implement the promise: each due
\* period gets one attempt, ended by the attempt's own result, whatever the
\* publishing of its event does.
THEOREM LoopImplementsPromise == Spec => PromiseSafe
  BY PromiseInit, PromiseStep, LoopInvariant, PTL
     DEF Spec, PromiseSafe, Promise!Spec
=============================================================================
