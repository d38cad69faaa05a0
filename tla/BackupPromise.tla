--------------------------- MODULE BackupPromise ---------------------------
(***************************************************************************)
(* What the backup pipeline promises, whatever its goroutines do: a        *)
(* project that is due gets one checkpoint attempt at a time, the attempt's*)
(* own result decides whether the project is quiet or failed, and nothing  *)
(* else ends a due period while the daemon lives.                          *)
(***************************************************************************)
CONSTANT Project

VARIABLES phase,    \* [Project -> {"quiet", "due", "failed"}]
          attempt,  \* [Project -> {"none", "running", "ok", "fail"}]
          live      \* the daemon's root context is not cancelled

vars == <<phase, attempt, live>>

Init ==
  /\ phase = [p \in Project |-> "quiet"]
  /\ attempt = [p \in Project |-> "none"]
  /\ live = TRUE

Demand(p) ==
  /\ phase[p] \in {"quiet", "failed"}
  /\ phase' = [phase EXCEPT ![p] = "due"]
  /\ UNCHANGED <<attempt, live>>

Begin(p) ==
  /\ phase[p] = "due"
  /\ attempt[p] = "none"
  /\ attempt' = [attempt EXCEPT ![p] = "running"]
  /\ UNCHANGED <<phase, live>>

Report(p) ==
  /\ attempt[p] = "running"
  /\ \E r \in {"ok", "fail"} : attempt' = [attempt EXCEPT ![p] = r]
  /\ UNCHANGED <<phase, live>>

Finish(p) ==
  /\ phase[p] = "due"
  /\ attempt[p] \in {"ok", "fail"}
  /\ phase' = [phase EXCEPT ![p] =
                 IF attempt[p] = "ok" THEN "quiet" ELSE "failed"]
  /\ attempt' = [attempt EXCEPT ![p] = "none"]
  /\ UNCHANGED live

Clear(p) ==
  /\ phase[p] = "failed"
  /\ phase' = [phase EXCEPT ![p] = "quiet"]
  /\ UNCHANGED <<attempt, live>>

\* The daemon is told to stop; then its memory goes with the process.
Cancel == live /\ live' = FALSE /\ UNCHANGED <<phase, attempt>>

Exit ==
  /\ phase' = [p \in Project |-> "quiet"]
  /\ attempt' = [p \in Project |-> "none"]
  /\ live' = FALSE

Restart ==
  /\ phase = [p \in Project |-> "quiet"]
  /\ attempt = [p \in Project |-> "none"]
  /\ live' = TRUE
  /\ UNCHANGED <<phase, attempt>>

Next ==
  \/ \E p \in Project :
       Demand(p) \/ Begin(p) \/ Report(p) \/ Finish(p) \/ Clear(p)
  \/ Cancel \/ Exit \/ Restart

Spec == Init /\ [][Next]_vars

\* While the daemon lives a due project is begun, and a begun attempt ends.
FairSpec ==
  /\ Spec
  /\ \A p \in Project : /\ WF_vars(live /\ Begin(p))
                       /\ WF_vars(live /\ Report(p))
                       /\ WF_vars(live /\ Finish(p))
=============================================================================
