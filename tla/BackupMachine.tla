--------------------------- MODULE BackupMachine ---------------------------
(***************************************************************************)
(* The per-project backup state machine of pkg/state/state.go: the value a *)
(* Machine holds and what each event of Transition makes of it.  Every     *)
(* event runs under the machine's mutex, so each is one operator here and  *)
(* one step wherever it is used.                                           *)
(*                                                                         *)
(* Time is relative.  A machine keeps how many clock ticks lie between now *)
(* and NextRetryAt: positive while now is before it, 0 at the instant,     *)
(* Past (-1) once it is behind us, which is also what the zero time.Time   *)
(* amounts to.  LastActivity is only reported, never read, and is left out.*)
(***************************************************************************)
EXTENDS Integers, Sequences

CONSTANT TicksPerMinute   \* clock ticks in one time.Minute

ASSUME TicksAssumption == TicksPerMinute \in Nat \ {0}

State == {"fallow", "monitoring", "backing_up", "error"}

Past == -1

Machine == [st : State, errs : Nat, retryIn : Nat \cup {Past}]

NewMachine == [st |-> "fallow", errs |-> 0, retryIn |-> Past]

-----------------------------------------------------------------------------
(***************************************************************************)
(* The wait after the n-th failure in a row.  time.Minute is 2^11 times    *)
(* the odd number below, so time.Minute * 2^n is 2^(11+n) times it, and in *)
(* an int64 only the odd number modulo 2^(53-n) survives: the product is   *)
(* exact below OverflowAt, has its sign bit set or not from there to 52,   *)
(* and is 0 from 53 on.                                                    *)
(***************************************************************************)
MinuteOdd == 29296875

OverflowAt == 28

HourMinutes == 60

\* 2^n minutes for the counts whose wait stays under the hour.
Doubling == <<2, 4, 8, 16, 32>>

\* Bit 63 of the wrapped product, for n in OverflowAt..52.
WrapsNegative(n) == 2 * (MinuteOdd % 2^(53 - n)) >= 2^(53 - n)

\* baseWait in minutes after the cap; a set because converting 2^n to an
\* int64 is implementation-defined from n = 63 on (0 on amd64, -1 on arm64).
\* Every negative product is years in the past: -1 minute stands for it.
BaseWait(n) ==
  IF n <= Len(Doubling) THEN {Doubling[n]}
  ELSE IF n < OverflowAt THEN {HourMinutes}
  ELSE IF n <= 52 THEN {IF WrapsNegative(n) THEN -1 ELSE HourMinutes}
  ELSE IF n <= 62 THEN {0}
  ELSE {0, -1}

\* rand.Intn(60) seconds, in ticks.
Jitter == 0 .. TicksPerMinute - 1

\* A moment that has gone by is only known to have gone by.
Until(t) == IF t < 0 THEN Past ELSE t

-----------------------------------------------------------------------------
\* The error return of EventTriggerBackup: still inside the backoff period.
InBackoff(m) == m.st = "error" /\ m.retryIn > 0

ChurnDetected(m) ==
  IF m.st = "fallow" THEN [m EXCEPT !.st = "monitoring"] ELSE m

\* Mutant: the backoff guard is dropped.
TriggerBackupEagerly(m) ==
  IF m.st = "backing_up" THEN m ELSE [m EXCEPT !.st = "backing_up"]

TriggerBackup(m) ==
  IF m.st \in {"fallow", "monitoring", "error"} /\ ~InBackoff(m)
  THEN [m EXCEPT !.st = "backing_up"]
  ELSE m

\* Mutant: a success takes one failure back instead of all of them.
BackupSuccessForgivesOne(m) ==
  IF m.st = "backing_up" THEN [NewMachine EXCEPT !.errs = m.errs - 1] ELSE m

BackupSuccess(m) == IF m.st = "backing_up" THEN NewMachine ELSE m

BackupFail(m) ==
  IF m.st = "backing_up"
  THEN {[st |-> "error", errs |-> m.errs + 1,
         retryIn |-> Until(TicksPerMinute * b + j)] :
           b \in BaseWait(m.errs + 1), j \in Jitter}
  ELSE {m}

\* Mutant: a reset is not limited to the error state.
ClearErrorAnywhere(m) == NewMachine

ClearError(m) == IF m.st = "error" THEN NewMachine ELSE m

\* Mutant: a machine in error never gets its retry.
CanRetryNever(m) == m.st # "error"

\* CanRetry: true in every state but error.
CanRetry(m) == m.st # "error" \/ m.retryIn < 0

\* Mutant: monitoring is forgotten.
WatchesOnlyFallow(m) == m.st = "fallow"

WatchesForChurn(m) == m.st \in {"fallow", "monitoring"}

\* One clock tick, as the machine sees it.
Elapse(m) == [m EXCEPT !.retryIn = Until(m.retryIn - 1)]
=============================================================================
