-------------------------- MODULE CheckpointStore --------------------------
(***************************************************************************)
(* One project's archive directory and the CreateCheckpoint calls that     *)
(* fill it (pkg/backup/backup.go).  A call is split at its system calls:   *)
(* each may fail, and the process may die between any two of them, for     *)
(* nothing is written to a temporary name first.                           *)
(*                                                                         *)
(* An archive is named by the second it was started in, so a name is a     *)
(* reading of the wall clock and names sort as readings do.                *)
(***************************************************************************)
EXTENDS Integers, FiniteSets

CONSTANTS MaxClock,        \* bound on the readings of the wall clock
          Limits,          \* values of backup.rotation.max_archives
          Foreign          \* names of .tgz files somebody else may put here

Stamp == 1 .. MaxClock

Name == Stamp \cup Foreign

\* A call that has not got as far as a name.
NoName == -1

ASSUME StoreAssumption ==
  /\ MaxClock \in Nat \ {0}
  /\ Limits \subseteq Int
  /\ Foreign \subseteq Int \ Stamp
  /\ IsFiniteSet(Foreign)

VARIABLES disk,      \* [Name -> {"none", "partial", "good"}]
          clock,     \* the wall clock, in seconds
          rested,    \* the clock has moved on since the last start
          dryRun,    \* the --dry-run flag of the running process
          limit,     \* the maxArchives it was configured with
          pc,        \* where CreateCheckpoint is
          target,    \* archivePath
          doomed,    \* names rotation has still to remove
          result,    \* what the last call returned
          clean,     \* history: its rotation met no failing call
          hadGood,   \* history: a complete archive was written once
          orderly    \* history: what the code counts on has held so far

callVars == <<pc, target, doomed, result, clean>>
confVars == <<dryRun, limit>>
histVars == <<hadGood, orderly>>
vars == <<disk, clock, rested, confVars, callVars, histVars>>

Init ==
  /\ disk = [s \in Name |-> "none"]
  /\ clock = 1
  /\ rested = FALSE
  /\ dryRun \in BOOLEAN
  /\ limit \in Limits
  /\ pc = "idle"
  /\ target = NoName
  /\ doomed = {}
  /\ result = "none"
  /\ clean = TRUE
  /\ hadGood = FALSE
  /\ orderly = TRUE

Archives(d) == {s \in Name : d[s] # "none"}

\* os.Remove, whose error nobody looks at.
Remove(s, removed) ==
  disk' = IF removed THEN [disk EXCEPT ![s] = "none"] ELSE disk

Return(r) == pc' = "idle" /\ result' = r

-----------------------------------------------------------------------------
\* Mutant: --dry-run is not looked at before the directory is made.
StartForReal ==
  /\ pc = "idle"
  /\ rested \/ result # "none"
  /\ rested' = FALSE
  /\ orderly' = (orderly /\ rested)
  /\ clean' = TRUE
  /\ \/ target' = clock /\ pc' = "create" /\ UNCHANGED result
     \/ target' = NoName /\ Return("fail")
  /\ UNCHANGED <<disk, clock, confVars, doomed, hadGood>>

\* The eval ticker is two seconds apart, so the clock has moved on since the
\* last start, of a predecessor too; unless the loop came late to the last
\* tick, ran a short checkpoint and found the next tick waiting: then two
\* starts may read the same second.
Start ==
  /\ pc = "idle"
  /\ rested \/ result # "none"
  /\ rested' = FALSE
  /\ orderly' = (orderly /\ rested)
  /\ clean' = TRUE
  /\ \/ dryRun /\ target' = clock /\ pc' = "dry" /\ UNCHANGED result
     \/ ~dryRun /\ target' = clock /\ pc' = "create" /\ UNCHANGED result
     \/ ~dryRun /\ target' = NoName /\ Return("fail")   \* MkdirAll failed
  /\ UNCHANGED <<disk, clock, confVars, doomed, hadGood>>

\* The manifest is walked and nothing is written.
DryWalk ==
  /\ pc = "dry"
  /\ \E r \in {"ok", "fail"} : Return(r)
  /\ UNCHANGED <<disk, clock, rested, confVars, target, doomed, clean, histVars>>

\* os.Create truncates what is there; when it fails the caller removes it.
Create ==
  /\ pc = "create"
  /\ \/ /\ disk' = [disk EXCEPT ![target] = "partial"]
        /\ pc' = "write" /\ UNCHANGED result
     \/ /\ \E removed \in BOOLEAN : Remove(target, removed)
        /\ Return("fail")
  /\ UNCHANGED <<clock, rested, confVars, target, doomed, clean, histVars>>

\* Mutant: a failed walk is not returned, rotation runs all the same.
WriteFallsThrough ==
  /\ pc = "write"
  /\ \/ pc' = "close" /\ UNCHANGED disk
     \/ /\ \E removed \in BOOLEAN : Remove(target, removed)
        /\ pc' = "rotate"
  /\ UNCHANGED <<clock, rested, confVars, target, doomed, result, clean, histVars>>

\* The walk ends, or an entry cannot be read or written.
Write ==
  /\ pc = "write"
  /\ \/ pc' = "close" /\ UNCHANGED <<disk, result>>
     \/ /\ \E removed \in BOOLEAN : Remove(target, removed)
        /\ Return("fail")
  /\ UNCHANGED <<clock, rested, confVars, target, doomed, clean, histVars>>

\* The deferred Close calls write the tar footer and flush the gzip stream;
\* their errors are dropped.
Close ==
  /\ pc = "close"
  /\ \/ /\ disk' = [disk EXCEPT ![target] = "good"]
        /\ hadGood' = TRUE /\ UNCHANGED orderly
     \/ /\ orderly' = FALSE
        /\ UNCHANGED <<disk, hadGood>>
  /\ pc' = "rotate"
  /\ UNCHANGED <<clock, rested, confVars, target, doomed, result, clean>>

\* Mutants: one archive too many is kept; the newest are purged.
ExcessOffByOne(d) ==
  {s \in Archives(d) :
     Cardinality({t \in Archives(d) : t > s}) > limit}

ExcessReversed(d) ==
  {s \in Archives(d) :
     Cardinality({t \in Archives(d) : t < s}) >= limit}

\* archives[:len-max] of the sorted listing: what has at least limit
\* names after it.  Any .tgz file counts, whoever wrote it.
Excess(d) ==
  {s \in Archives(d) :
     Cardinality({t \in Archives(d) : t > s}) >= limit}

\* Mutant: zero is a limit like any other.
RotateUnset ==
  /\ pc = "rotate"
  /\ \/ pc' = "return" /\ clean' = FALSE /\ UNCHANGED doomed
     \/ doomed' = Excess(disk) /\ pc' = "purge" /\ UNCHANGED clean
  /\ UNCHANGED <<disk, clock, rested, confVars, target, result, histVars>>

EnforceRotation ==
  /\ pc = "rotate"
  /\ \/ /\ limit <= 0                        \* unlimited
        /\ pc' = "return" /\ UNCHANGED <<doomed, clean>>
     \/ /\ limit > 0                         \* ReadDir failed
        /\ pc' = "return" /\ clean' = FALSE /\ UNCHANGED doomed
     \/ /\ limit > 0
        /\ doomed' = Excess(disk)
        /\ pc' = "purge" /\ UNCHANGED clean
  /\ UNCHANGED <<disk, clock, rested, confVars, target, result, histVars>>

Purge ==
  /\ pc = "purge"
  /\ \/ /\ doomed = {}
        /\ pc' = "return"
        /\ UNCHANGED <<disk, doomed, clean>>
     \/ \E s \in doomed, removed \in BOOLEAN :
        /\ \A t \in doomed : s <= t
        /\ Remove(s, removed)
        /\ doomed' = doomed \ {s}
        /\ clean' = (clean /\ removed)
        /\ UNCHANGED pc
  /\ UNCHANGED <<clock, rested, confVars, target, result, histVars>>

\* Stat only measures what was written.
ReturnOk ==
  /\ pc = "return"
  /\ Return("ok")
  /\ UNCHANGED <<disk, clock, rested, confVars, target, doomed, clean, histVars>>

-----------------------------------------------------------------------------
Tick ==
  /\ clock < MaxClock
  /\ clock' = clock + 1
  /\ rested' = TRUE
  /\ UNCHANGED <<disk, confVars, callVars, histVars>>

\* The wall clock is set back; the ticker runs on the monotonic one.
StepBack ==
  /\ clock' \in 1 .. clock - 1
  /\ rested' = TRUE
  /\ orderly' = FALSE
  /\ UNCHANGED <<disk, confVars, callVars, hadGood>>

\* Somebody puts an archive of their own into the directory.
DropForeign ==
  /\ \E s \in Foreign : /\ disk' = [disk EXCEPT ![s] = "good"]
                        /\ orderly' = (orderly /\ s < 1)
  /\ UNCHANGED <<clock, rested, confVars, callVars, hadGood>>

\* The process dies, or is told to end and does not wait for the loop.
Crash ==
  /\ pc # "down"
  /\ pc' = "down"
  /\ result' = "none"
  /\ doomed' = {}
  /\ rested' = FALSE
  /\ target' = NoName
  /\ UNCHANGED <<disk, clock, confVars, clean, histVars>>

Boot ==
  /\ pc = "down"
  /\ pc' = "idle"
  /\ dryRun' \in BOOLEAN
  /\ limit' \in Limits
  /\ rested' = FALSE
  /\ UNCHANGED <<disk, clock, target, doomed, result, clean, histVars>>

CreateCheckpoint ==
  \/ Start \/ DryWalk \/ Create \/ Write \/ Close
  \/ EnforceRotation \/ Purge \/ ReturnOk

Next == CreateCheckpoint \/ Tick \/ StepBack \/ DropForeign \/ Crash \/ Boot

Spec == Init /\ [][Next]_vars

-----------------------------------------------------------------------------
\* The call is on a path that touches the directory.
Writing == pc \in {"create", "write", "close", "rotate", "purge", "return"}

\* The directory, the clock and the running call keep their types; a call has
\* a name from its start on, and a dry run never gets to the directory.
TypeOK ==
  /\ disk \in [Name -> {"none", "partial", "good"}]
  /\ clock \in Stamp
  /\ rested \in BOOLEAN
  /\ dryRun \in BOOLEAN
  /\ limit \in Limits
  /\ pc \in {"idle", "dry", "create", "write", "close", "rotate", "purge",
             "return", "down"}
  /\ target \in Stamp \cup {NoName}
  /\ Writing \/ pc = "dry" \/ result = "ok" => target \in Stamp
  /\ Writing => ~dryRun
  /\ doomed \in SUBSET Name
  /\ result \in {"none", "ok", "fail"}
  /\ clean \in BOOLEAN
  /\ hadGood \in BOOLEAN
  /\ orderly \in BOOLEAN

(***************************************************************************)
(* `orderly' collects what the code relies on without checking it: starts  *)
(* read increasing seconds, the deferred flush of an archive works, and no *)
(* foreign .tgz sorts among the archives or after them.  The properties    *)
(* that need it say so; rotation's bound does not need it.                 *)
(***************************************************************************)

\* A call that returned success and was not a dry run.
Succeeded == pc = "idle" /\ result = "ok" /\ ~dryRun

\* CreateCheckpoint returns no error only for a complete archive: what the
\* BackupEvent reports as a success can be restored.
SuccessIsComplete == orderly /\ Succeeded => disk[target] = "good"

\* Once rotation has run without a failing call at most max_archives archives
\* are left, whatever crashes, failed calls and earlier rotations left there.
RotationBounds ==
  Succeeded /\ clean /\ limit > 0 =>
    Cardinality({s \in Archives(disk) : s \in Stamp}) <= limit

\* Once a complete archive exists there is always one, through every failure
\* and every crash between two system calls of a later attempt.
AGoodArchiveSurvives ==
  orderly /\ hadGood => \E s \in Stamp : disk[s] = "good"

\* A complete archive disappears only when max_archives newer names remain.
OnlyExcessDeleted ==
  [][\A s \in Stamp :
       orderly /\ disk[s] = "good" /\ disk'[s] # "good" =>
         Cardinality({t \in Archives(disk') : t > s}) >= limit]_vars

\* An unset max_archives means keep everything: no complete archive is ever
\* lost, not even to a later attempt that fails or dies.
UnsetKeepsAll ==
  [][orderly /\ limit <= 0 =>
       \A s \in Stamp : disk[s] = "good" => disk'[s] = "good"]_vars

=============================================================================
