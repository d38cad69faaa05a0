----------------------------- MODULE GitOracle -----------------------------
(***************************************************************************)
(* The git oracle (pkg/gitstate): GET /git reads every project's working   *)
(* tree in a goroutine of its own, a few at a time, and waits five seconds *)
(* at most for each.  A read cannot be cancelled: when the sweep has given *)
(* up on it, it goes on, and its answer ends in a channel nobody reads.    *)
(* The trees belong to somebody else, who edits, commits and pushes while  *)
(* they are read.                                                          *)
(*                                                                         *)
(* A branch is its number of commits, a tracking ref the number of commits *)
(* it has.  Sweeps share nothing but the trees, so one is enough.          *)
(***************************************************************************)
EXTENDS Integers, FiniteSets

CONSTANTS Project,   \* the configured projects
          Worked,    \* those whose trees change while they are looked at
          Cap,       \* maxConcurrentCollect
          MaxHead    \* bound on the commits of a branch

ASSUME OracleAssumption ==
  /\ IsFiniteSet(Project)
  /\ Worked \subseteq Project
  /\ Cap \in Nat \ {0}
  /\ MaxHead \in Nat \ {0}

VARIABLES tree,     \* the working trees
          sweep,    \* CollectAll is "running" or "idle"
          pc,       \* its goroutine for each project
          sem,      \* tokens in the semaphore channel
          out,      \* its results
          at,       \* where the latest Collect of each project is
          seen,     \* the head it read
          st,       \* the GitState it fills in
          wasSafe,  \* history: the tree was safe at a moment of that read
          flaw      \* history: what spoiled that read, if anything

sweepVars == <<sweep, pc, sem, out>>
readVars == <<at, seen, st>>
vars == <<tree, sweepVars, readVars, wasSafe, flaw>>

Tree == [present : BOOLEAN, dirty : BOOLEAN, head : 1 .. MaxHead,
         up : 0 .. MaxHead]                       \* 0: never pushed

GitState == [error : {"", "missing", "fault", "timeout"},
             dirty : BOOLEAN, unpushed : 0 .. MaxHead]

zero == [error |-> "", dirty |-> FALSE, unpushed |-> 0]

timedOut == [error |-> "timeout", dirty |-> FALSE, unpushed |-> 0]

Pending == [error |-> "pending", dirty |-> FALSE, unpushed |-> 0]

\* A Collect that has begun and not yet sent its answer, and one that has
\* read the head.
Reading(p) == at[p] \in {"stat", "open", "status", "count"}

HeadRead(p) == at[p] \in {"status", "count"}

\* Nothing would be lost with the tree: all is committed and pushed.
Safe(t) == t.present /\ ~t.dirty /\ t.head <= t.up

\* What the gate of a host migration takes for that: composeGitFacet gives
\* clean only without an error.
Clean(gs) == gs.error = "" /\ ~gs.dirty

ReportsSafe(gs) == Clean(gs) /\ gs.unpushed = 0

\* The trees become t: every read under way witnesses that.
Witness(t) ==
  /\ tree' = t
  /\ wasSafe' = [p \in Project |-> wasSafe[p] \/ (Reading(p) /\ Safe(t[p]))]

Init ==
  /\ tree \in [Project -> Tree]
  /\ sweep = "idle"
  /\ pc = [p \in Project |-> "done"]
  /\ sem = 0
  /\ out = [p \in Project |-> Pending]
  /\ at = [p \in Project |-> "sent"]
  /\ seen = [p \in Project |-> 1]
  /\ st = [p \in Project |-> zero]
  /\ wasSafe = [p \in Project |-> FALSE]
  /\ flaw = [p \in Project |-> "none"]

-----------------------------------------------------------------------------
(***************************************************************************)
(* CollectAll and collectWithTimeout.                                      *)
(***************************************************************************)
\* A request finds the reads of the last one ended; the sweep before would
\* otherwise need variables of its own, and could not be told from this one.
HandleGitAll ==
  /\ sweep = "idle" /\ sweep' = "running"
  /\ \A p \in Project : ~Reading(p)
  /\ pc' = [p \in Project |-> "queued"]
  /\ out' = [p \in Project |-> Pending]
  /\ UNCHANGED <<tree, sem, readVars, wasSafe, flaw>>

\* Mutant: the semaphore is not waited for.
AcquireAtOnce(p) ==
  /\ pc[p] = "queued"
  /\ sem' = sem + 1
  /\ pc' = [pc EXCEPT ![p] = "waiting"]
  /\ at' = [at EXCEPT ![p] = "stat"]
  /\ st' = [st EXCEPT ![p] = zero]
  /\ wasSafe' = [wasSafe EXCEPT ![p] = Safe(tree[p])]
  /\ flaw' = [flaw EXCEPT ![p] = "none"]
  /\ UNCHANGED <<tree, sweep, out, seen>>

\* sem <- struct{}{}, and the goroutine that runs Collect is started.
Acquire(p) ==
  /\ pc[p] = "queued"
  /\ sem < Cap
  /\ sem' = sem + 1
  /\ pc' = [pc EXCEPT ![p] = "waiting"]
  /\ at' = [at EXCEPT ![p] = "stat"]
  /\ st' = [st EXCEPT ![p] = zero]
  /\ wasSafe' = [wasSafe EXCEPT ![p] = Safe(tree[p])]
  /\ flaw' = [flaw EXCEPT ![p] = "none"]
  /\ UNCHANGED <<tree, sweep, out, seen>>

\* The result is written and the token handed back.
Deliver(p, gs) ==
  /\ pc' = [pc EXCEPT ![p] = "done"]
  /\ out' = [out EXCEPT ![p] = gs]
  /\ sem' = sem - 1
  /\ st' = [st EXCEPT ![p] = IF at[p] = "sent" THEN zero ELSE @]
  /\ UNCHANGED <<tree, sweep, at, seen, wasSafe, flaw>>

TakeAnswer(p) == pc[p] = "waiting" /\ at[p] = "sent" /\ Deliver(p, st[p])

\* Mutants: a slow read keeps its token; it is reported as a zero GitState.
GiveUpKeepingToken(p) ==
  /\ pc[p] = "waiting"
  /\ pc' = [pc EXCEPT ![p] = "done"]
  /\ out' = [out EXCEPT ![p] = timedOut]
  /\ UNCHANGED <<tree, sweep, sem, readVars, wasSafe, flaw>>

GiveUpSilently(p) == pc[p] = "waiting" /\ Deliver(p, zero)

\* time.After fires, perhaps with the answer there already.
GiveUp(p) == pc[p] = "waiting" /\ Deliver(p, timedOut)

\* wg.Wait returns and the sorted results are written.
Respond ==
  /\ sweep = "running" /\ sweep' = "idle"
  /\ \A p \in Project : pc[p] = "done"
  /\ UNCHANGED <<tree, pc, sem, out, readVars, wasSafe, flaw>>

-----------------------------------------------------------------------------
(***************************************************************************)
(* Collect, split at its reads of the tree.                                *)
(***************************************************************************)
\* Collect returns gs into the buffered channel, where it is garbage when
\* the sweep has given up; its locals are gone.
Send(p, gs) ==
  /\ at' = [at EXCEPT ![p] = "sent"]
  /\ seen' = [seen EXCEPT ![p] = 1]
  /\ st' = [st EXCEPT ![p] = IF pc[p] = "waiting" THEN gs ELSE zero]

Fail(p, e) == Send(p, [st[p] EXCEPT !.error = e])

\* Only a path that is not there counts as missing.
Stat(p) ==
  /\ at[p] = "stat"
  /\ \/ ~tree[p].present /\ Fail(p, "missing")
     \/ Fail(p, "fault")
     \/ /\ tree[p].present
        /\ at' = [at EXCEPT ![p] = "open"] /\ UNCHANGED <<seen, st>>
  /\ UNCHANGED <<tree, sweepVars, wasSafe, flaw>>

\* PlainOpen, and Head, from which everything later is counted.
OpenHead(p) ==
  /\ at[p] = "open"
  /\ \/ Fail(p, "fault")
     \/ /\ tree[p].present
        /\ seen' = [seen EXCEPT ![p] = tree[p].head]
        /\ at' = [at EXCEPT ![p] = "status"] /\ UNCHANGED st
  /\ UNCHANGED <<tree, sweepVars, wasSafe, flaw>>

Status(p) ==
  /\ at[p] = "status"
  /\ \/ Fail(p, "fault")
     \/ /\ tree[p].present
        /\ st' = [st EXCEPT ![p].dirty = tree[p].dirty]
        /\ at' = [at EXCEPT ![p] = "count"] /\ UNCHANGED seen
  /\ UNCHANGED <<tree, sweepVars, wasSafe, flaw>>

\* The walk from head h stops at the tracking ref u; one that is not behind
\* h, or not there at all, is never met and every commit counts.
CountCommitsUntil(h, u) == IF u \in 1 .. h THEN h - u ELSE h

\* Mutant: the answer goes to the sweep's slice and not to the channel.
CountUnpushedInto(p) ==
  /\ at[p] = "count"
  /\ LET n == CountCommitsUntil(seen[p], tree[p].up)
         gs == [st[p] EXCEPT !.unpushed = n]
     IN  Send(p, gs) /\ out' = [out EXCEPT ![p] = gs]
  /\ UNCHANGED <<tree, sweep, pc, sem, wasSafe, flaw>>

\* Without a remote, or without its ref, every commit counts.  An error of
\* the walk is dropped, and what was counted so far is the answer.
CountUnpushed(p) ==
  /\ at[p] = "count"
  /\ \/ /\ tree[p].present
        /\ \E u \in {tree[p].up, 0} :
             Send(p, [st[p] EXCEPT !.unpushed = CountCommitsUntil(seen[p], u)])
        /\ UNCHANGED flaw
     \/ /\ \E n \in 0 .. seen[p] : Send(p, [st[p] EXCEPT !.unpushed = n])
        /\ flaw' = [flaw EXCEPT ![p] = "cut"]
  /\ UNCHANGED <<tree, sweepVars, wasSafe>>

-----------------------------------------------------------------------------
(***************************************************************************)
(* The owner of the trees.                                                 *)
(***************************************************************************)
\* p's owner changes the tree; a local change after Head tears the read.
Change(p, t) == Witness([tree EXCEPT ![p] = t])

Tear(p) ==
  flaw' = IF HeadRead(p) /\ flaw[p] = "none"
          THEN [flaw EXCEPT ![p] = "torn"] ELSE flaw

Edit(p) ==
  /\ tree[p].present
  /\ Change(p, [tree[p] EXCEPT !.dirty = TRUE])
  /\ Tear(p)
  /\ UNCHANGED <<sweepVars, readVars>>

Commit(p) ==
  /\ tree[p].present /\ tree[p].dirty /\ tree[p].head < MaxHead
  /\ Change(p, [tree[p] EXCEPT !.dirty = FALSE, !.head = @ + 1])
  /\ Tear(p)
  /\ UNCHANGED <<sweepVars, readVars>>

Discard(p) ==
  /\ tree[p].present
  /\ Change(p, [tree[p] EXCEPT !.dirty = FALSE])
  /\ UNCHANGED <<sweepVars, readVars, flaw>>

\* A push brings the tracking ref up to head, a fetch may take it further.
PushOrFetch(p) ==
  /\ tree[p].present
  /\ \E u \in tree[p].head .. MaxHead : Change(p, [tree[p] EXCEPT !.up = u])
  /\ UNCHANGED <<sweepVars, readVars, flaw>>

\* The project leaves the machine; another checkout takes its place.
Depart(p) ==
  /\ tree[p].present
  /\ Change(p, [tree[p] EXCEPT !.present = FALSE])
  /\ UNCHANGED <<sweepVars, readVars, flaw>>

Clone(p) ==
  /\ ~tree[p].present
  /\ Change(p, [present |-> TRUE, dirty |-> FALSE, head |-> 1, up |-> 1])
  /\ Tear(p)
  /\ UNCHANGED <<sweepVars, readVars>>

-----------------------------------------------------------------------------
Collect(p) == Stat(p) \/ OpenHead(p) \/ Status(p) \/ CountUnpushed(p)

Own(p) ==
  Edit(p) \/ Commit(p) \/ Discard(p) \/ PushOrFetch(p) \/ Depart(p) \/ Clone(p)

Next ==
  \/ HandleGitAll \/ Respond
  \/ \E p \in Project :
       Acquire(p) \/ TakeAnswer(p) \/ GiveUp(p) \/ Collect(p)
  \/ \E p \in Worked : Own(p)

Spec == Init /\ [][Next]_vars

(***************************************************************************)
(* The sweep's goroutines run and their timers fire.  Nothing is asked of  *)
(* the reads: go-git may hang on any of them for ever.                     *)
(***************************************************************************)
FairSpec ==
  /\ Spec
  /\ WF_vars(Respond)
  /\ \A p \in Project : WF_vars(Acquire(p)) /\ WF_vars(GiveUp(p))

-----------------------------------------------------------------------------
\* The variables keep their types; the semaphore channel never holds more
\* tokens than CollectAll gave it room for.
TypeOK ==
  /\ tree \in [Project -> Tree]
  /\ sweep \in {"idle", "running"}
  /\ pc \in [Project -> {"queued", "waiting", "done"}]
  /\ sem \in 0 .. Cap
  /\ out \in [Project -> GitState \cup {Pending}]
  /\ at \in [Project -> {"stat", "open", "status", "count", "sent"}]
  /\ seen \in [Project -> 1 .. MaxHead]
  /\ st \in [Project -> GitState]
  /\ wasSafe \in [Project -> BOOLEAN]
  /\ flaw \in [Project -> {"none", "torn", "cut"}]

\* "A wrong clean is worse than no answer": a result that would let a host
\* migration through means that the tree was committed and pushed at one
\* moment of its read, whatever was pushed, fetched or discarded meanwhile,
\* whichever calls failed and however long it took; as long as nobody edited
\* or committed between Head and the count, and the walk was not cut short.
SafeIsTrue ==
  \A p \in Project : ReportsSafe(out[p]) /\ flaw[p] = "none" => wasSafe[p]

\* A result, once in, is what the answer says: a read the sweep has given up
\* on, and that ends later, does not touch it (collectWithTimeout).
ResultIsFinal ==
  [][\A p \in Project : pc[p] = "done" /\ pc'[p] = "done" => out'[p] = out[p]]_vars

\* One tree that hangs for ever does not take GET /git down: every sweep is
\* answered, even when more projects hang than may be read at a time.
SweepAnswered == sweep = "running" ~> sweep = "idle"

\* docs/availability.md and the comment of package gitstate: the state is
\* read live so that nobody is told "clean" of a tree that is not.
CleanIsTrue ==
  \A p \in Project : ReportsSafe(out[p]) /\ flaw[p] # "cut" => wasSafe[p]
=============================================================================
