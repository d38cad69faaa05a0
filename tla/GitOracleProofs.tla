-------------------------- MODULE GitOracleProofs --------------------------
(***************************************************************************)
(* What the git oracle reports is true, for any number of projects, tokens *)
(* and commits.  The invariant says what a read in progress already knows: *)
(* the head it holds is the tree's, and a tree it has found clean is still *)
(* clean, as long as nobody wrote to it.                                   *)
(***************************************************************************)
EXTENDS GitOracle, FiniteSetTheorems, TLAPS

RTypeOK ==
  /\ tree \in [Project -> Tree]
  /\ pc \in [Project -> {"queued", "waiting", "done"}]
  /\ out \in [Project -> GitState \cup {Pending}]
  /\ at \in [Project -> {"stat", "open", "status", "count", "sent"}]
  /\ seen \in [Project -> 1 .. MaxHead]
  /\ st \in [Project -> GitState]
  /\ wasSafe \in [Project -> BOOLEAN]
  /\ flaw \in [Project -> {"none", "torn", "cut"}]

\* The head a read holds is the tree's, and a tree found clean is clean.
Fresh(p) ==
  flaw[p] = "none" =>
    /\ HeadRead(p) => seen[p] = tree[p].head
    /\ at[p] = "count" /\ ~st[p].dirty => ~tree[p].dirty

\* A moment at which the tree is safe does not go unnoticed.
Noticed(p) == Reading(p) /\ Safe(tree[p]) => wasSafe[p]

\* Answers, in the channel and in the slice, are true.
Truthful(p) ==
  /\ at[p] = "sent" /\ pc[p] = "waiting" /\ ReportsSafe(st[p])
       /\ flaw[p] = "none" => wasSafe[p]
  /\ ReportsSafe(out[p]) /\ flaw[p] = "none" => wasSafe[p]
  /\ pc[p] # "done" => out[p] = Pending

ReadInv == \A p \in Project : Fresh(p) /\ Noticed(p) /\ Truthful(p)

OracleInv == RTypeOK /\ ReadInv

USE OracleAssumption

-----------------------------------------------------------------------------
\* A walk counts nothing only where the tracking ref is the head itself, so
\* "no unpushed commits" is never said of a ref that is absent or elsewhere.
LEMMA CountZero ==
  ASSUME NEW h \in 1 .. MaxHead, NEW u \in 0 .. MaxHead
  PROVE  /\ CountCommitsUntil(h, u) \in 0 .. MaxHead
         /\ CountCommitsUntil(h, u) = 0 <=> h = u
  BY DEF CountCommitsUntil

\* The answer of a read is a GitState.
LEMMA ZeroType == zero \in GitState /\ timedOut \in GitState
  BY DEF zero, timedOut, GitState

LEMMA PendingUnsafe == ~ReportsSafe(Pending)
  BY DEF Pending, ReportsSafe, Clean

-----------------------------------------------------------------------------
\* Initially nothing is being read and nothing has been answered.
LEMMA OracleInit == Init => OracleInv
<1> SUFFICES ASSUME Init PROVE OracleInv
  OBVIOUS
<1>1. RTypeOK
  BY ZeroType DEF Init, RTypeOK
<1>2. ReadInv
  BY PendingUnsafe
     DEF Init, ReadInv, Fresh, Noticed, Truthful, Reading, HeadRead
<1> QED
  BY <1>1, <1>2 DEF OracleInv

\* The sweep's own steps.
LEMMA SweepStep ==
  ASSUME OracleInv,
         \/ HandleGitAll \/ Respond
         \/ \E p \in Project : Acquire(p) \/ TakeAnswer(p) \/ GiveUp(p)
  PROVE  OracleInv'
<1>1. CASE HandleGitAll
  <2>1. RTypeOK'
    BY <1>1 DEF HandleGitAll, OracleInv, RTypeOK, readVars
  <2>2. ReadInv'
    BY <1>1, PendingUnsafe
       DEF HandleGitAll, OracleInv, ReadInv, RTypeOK, Fresh, Noticed,
           Truthful, Reading, HeadRead, readVars, Safe
  <2> QED
    BY <2>1, <2>2 DEF OracleInv
<1>2. CASE Respond
  BY <1>2 DEF Respond, OracleInv, RTypeOK, ReadInv, Fresh, Noticed,
              Truthful, Reading, HeadRead, readVars
<1>3. ASSUME NEW p \in Project, Acquire(p) PROVE OracleInv'
  <2>1. /\ tree' \in [Project -> Tree]
        /\ pc' \in [Project -> {"queued", "waiting", "done"}]
        /\ out' \in [Project -> GitState \cup {Pending}]
        /\ at' \in [Project -> {"stat", "open", "status", "count", "sent"}]
        /\ seen' \in [Project -> 1 .. MaxHead]
        /\ st' \in [Project -> GitState]
        /\ flaw' \in [Project -> {"none", "torn", "cut"}]
    BY <1>3, ZeroType DEF Acquire, OracleInv, RTypeOK
  <2>2. Safe(tree[p]) \in BOOLEAN
    BY DEF Safe, OracleInv, RTypeOK, Tree
  <2>3. wasSafe' \in [Project -> BOOLEAN]
    BY <1>3, <2>2, Zenon DEF Acquire, OracleInv, RTypeOK
  <2>4. RTypeOK'
    BY <2>1, <2>3 DEF RTypeOK
  <2>5. ASSUME NEW q \in Project PROVE (Fresh(q) /\ Noticed(q) /\ Truthful(q))'
    <3>1. CASE q = p
      BY <1>3, <2>3, <3>1, PendingUnsafe
         DEF Acquire, OracleInv, RTypeOK, ReadInv, Fresh, Noticed, Truthful,
             Reading, HeadRead
    <3>2. CASE q # p
      BY <1>3, <3>2
         DEF Acquire, OracleInv, RTypeOK, ReadInv, Fresh, Noticed, Truthful,
             Reading, HeadRead
    <3> QED
      BY <3>1, <3>2
  <2> QED
    BY <2>4, <2>5 DEF OracleInv, ReadInv
<1>4. ASSUME NEW p \in Project, NEW gs \in GitState, Deliver(p, gs),
             ReportsSafe(gs) /\ flaw[p] = "none" => wasSafe[p]
      PROVE  OracleInv'
  <2>1. RTypeOK'
    BY <1>4, ZeroType DEF Deliver, OracleInv, RTypeOK
  <2>2. ASSUME NEW q \in Project PROVE (Fresh(q) /\ Noticed(q) /\ Truthful(q))'
    BY <1>4, <2>2
       DEF Deliver, OracleInv, RTypeOK, ReadInv, Fresh, Noticed, Truthful,
           Reading, HeadRead
  <2> QED
    BY <2>1, <2>2 DEF OracleInv, ReadInv
<1>5. ASSUME NEW p \in Project, TakeAnswer(p) PROVE OracleInv'
  BY <1>4, <1>5 DEF TakeAnswer, OracleInv, RTypeOK, ReadInv, Truthful
<1>6. ASSUME NEW p \in Project, GiveUp(p) PROVE OracleInv'
  <2>1. ~ReportsSafe(timedOut)
    BY DEF ReportsSafe, Clean, timedOut
  <2> QED
    BY <1>4, <1>6, <2>1, ZeroType DEF GiveUp
<1> QED
  BY <1>1, <1>2, <1>3, <1>5, <1>6

\* The steps of a read.
LEMMA ReadStep ==
  ASSUME OracleInv, NEW p \in Project, Collect(p)
  PROVE  OracleInv'
<1>1. ASSUME NEW gs \in GitState, Send(p, gs), Reading(p),
             UNCHANGED <<tree, sweepVars, wasSafe>>,
             flaw' \in [Project -> {"none", "torn", "cut"}],
             \A q \in Project : q # p => flaw'[q] = flaw[q],
             flaw'[p] = "none" => flaw[p] = "none",
             ReportsSafe(gs) /\ flaw'[p] = "none" => wasSafe[p]
      PROVE  OracleInv'
  <2>1. RTypeOK'
    BY <1>1, ZeroType DEF Send, OracleInv, RTypeOK, sweepVars
  <2>2. ASSUME NEW q \in Project PROVE (Fresh(q) /\ Noticed(q) /\ Truthful(q))'
    BY <1>1, <2>2
       DEF Send, OracleInv, RTypeOK, ReadInv, Fresh, Noticed, Truthful,
           Reading, HeadRead, sweepVars
  <2> QED
    BY <2>1, <2>2 DEF OracleInv, ReadInv
<1>2. ASSUME NEW e \in {"missing", "fault"}, Fail(p, e), Reading(p),
             UNCHANGED <<tree, sweepVars, wasSafe, flaw>>
      PROVE  OracleInv'
  <2>1. [st[p] EXCEPT !.error = e] \in GitState
    BY <1>2 DEF OracleInv, RTypeOK, GitState
  <2>2. ~ReportsSafe([st[p] EXCEPT !.error = e])
    BY <1>2 DEF OracleInv, RTypeOK, GitState, ReportsSafe, Clean
  <2> QED
    BY <1>1, <1>2, <2>1, <2>2 DEF Fail, OracleInv, RTypeOK
<1>3. CASE Stat(p)
  <2>1. CASE at' = [at EXCEPT ![p] = "open"] /\ UNCHANGED <<seen, st>>
    BY <1>3, <2>1
       DEF Stat, OracleInv, RTypeOK, ReadInv, Fresh, Noticed, Truthful,
           Reading, HeadRead, sweepVars
  <2>2. CASE Fail(p, "missing") \/ Fail(p, "fault")
    BY <1>2, <1>3, <2>2 DEF Stat, Reading
  <2> QED
    BY <1>3, <2>1, <2>2 DEF Stat
<1>4. CASE OpenHead(p)
  <2>1. CASE /\ seen' = [seen EXCEPT ![p] = tree[p].head]
             /\ at' = [at EXCEPT ![p] = "status"] /\ UNCHANGED st
    BY <1>4, <2>1
       DEF OpenHead, OracleInv, RTypeOK, ReadInv, Fresh, Noticed, Truthful,
           Reading, HeadRead, sweepVars, Tree
  <2>2. CASE Fail(p, "fault")
    BY <1>2, <1>4, <2>2 DEF OpenHead, Reading
  <2> QED
    BY <1>4, <2>1, <2>2 DEF OpenHead
<1>5. CASE Status(p)
  <2>1. CASE /\ st' = [st EXCEPT ![p].dirty = tree[p].dirty]
             /\ at' = [at EXCEPT ![p] = "count"] /\ UNCHANGED seen
    <3>1. RTypeOK'
      BY <1>5, <2>1 DEF Status, OracleInv, RTypeOK, sweepVars, Tree, GitState
    <3>2. ASSUME NEW q \in Project
          PROVE  (Fresh(q) /\ Noticed(q) /\ Truthful(q))'
      BY <1>5, <2>1, <3>2
         DEF Status, OracleInv, RTypeOK, ReadInv, Fresh, Noticed, Truthful,
             Reading, HeadRead, sweepVars, GitState
    <3> QED
      BY <3>1, <3>2 DEF OracleInv, ReadInv
  <2>2. CASE Fail(p, "fault")
    BY <1>2, <1>5, <2>2 DEF Status, Reading
  <2> QED
    BY <1>5, <2>1, <2>2 DEF Status
<1>6. CASE CountUnpushed(p)
  <2>1. /\ Reading(p) /\ UNCHANGED <<tree, sweepVars, wasSafe>>
        /\ at[p] = "count"
    BY <1>6 DEF CountUnpushed, Reading
  <2>2. ASSUME tree[p].present, NEW u \in {tree[p].up, 0}, UNCHANGED flaw,
               Send(p, [st[p] EXCEPT !.unpushed = CountCommitsUntil(seen[p], u)])
        PROVE  OracleInv'
    <3> DEFINE n == CountCommitsUntil(seen[p], u)
               gs == [st[p] EXCEPT !.unpushed = n]
    <3>1. u \in 0 .. MaxHead /\ seen[p] \in 1 .. MaxHead /\ st[p] \in GitState
      BY <2>2 DEF OracleInv, RTypeOK, Tree
    <3>2. n \in 0 .. MaxHead /\ (n = 0 => u = tree[p].up /\ seen[p] = tree[p].up)
      <4>1. n \in 0 .. MaxHead /\ (n = 0 <=> seen[p] = u)
        BY <3>1, CountZero
      <4> QED
        BY <2>2, <3>1, <4>1
    <3>3. gs \in GitState /\ gs.dirty = st[p].dirty /\ gs.unpushed = n
      BY <3>1, <3>2 DEF GitState
    <3>4. ReportsSafe(gs) /\ flaw[p] = "none" => wasSafe[p]
      <4>1. SUFFICES ASSUME ReportsSafe(gs), flaw[p] = "none"
                     PROVE  wasSafe[p]
        OBVIOUS
      <4>2. n = 0 /\ ~st[p].dirty
        BY <3>3, <4>1 DEF ReportsSafe, Clean
      <4>3. tree[p].head = tree[p].up /\ ~tree[p].dirty
        BY <2>1, <3>2, <4>1, <4>2
           DEF OracleInv, ReadInv, Fresh, HeadRead
      <4>4. tree[p].head \in 1 .. MaxHead
        BY DEF OracleInv, RTypeOK, Tree
      <4>5. Safe(tree[p])
        BY <2>2, <4>3, <4>4 DEF Safe
      <4> QED
        BY <2>1, <4>5 DEF OracleInv, ReadInv, Noticed
    <3> QED
      BY <1>1, <2>1, <2>2, <3>3, <3>4 DEF OracleInv, RTypeOK
  <2>3. ASSUME NEW n \in 0 .. seen[p], Send(p, [st[p] EXCEPT !.unpushed = n]),
               flaw' = [flaw EXCEPT ![p] = "cut"]
        PROVE  OracleInv'
    <3>0. n \in 0 .. MaxHead /\ st[p] \in GitState
      <4>1. seen[p] \in 1 .. MaxHead /\ st[p] \in GitState
        BY DEF OracleInv, RTypeOK
      <4> QED
        BY <2>3, <4>1
    <3>1. [st[p] EXCEPT !.unpushed = n] \in GitState
      BY <3>0 DEF GitState
    <3>2. /\ flaw' \in [Project -> {"none", "torn", "cut"}]
          /\ flaw'[p] = "cut"
          /\ \A q \in Project : q # p => flaw'[q] = flaw[q]
      BY <2>3 DEF OracleInv, RTypeOK
    <3> QED
      BY <1>1, <2>1, <2>3, <3>1, <3>2
  <2> QED
    BY <1>6, <2>2, <2>3 DEF CountUnpushed
<1> QED
  BY <1>3, <1>4, <1>5, <1>6 DEF Collect

\* The steps of a tree's owner.
LEMMA OwnerStep ==
  ASSUME OracleInv, NEW p \in Project, Own(p)
  PROVE  OracleInv'
<1>1. ASSUME NEW t \in Tree, Change(p, t), UNCHANGED <<sweepVars, readVars>>,
             flaw' \in [Project -> {"none", "torn", "cut"}],
             \A q \in Project : flaw'[q] = "none" => flaw[q] = "none",
             flaw'[p] = "none" /\ HeadRead(p) =>
               t.head = tree[p].head /\ (t.dirty => tree[p].dirty)
      PROVE  OracleInv'
  <2> DEFINE T == [tree EXCEPT ![p] = t]
  <2>1. T \in [Project -> Tree] /\ tree' = T
    BY <1>1 DEF Change, Witness, OracleInv, RTypeOK
  <2>2. wasSafe' = [q \in Project |-> wasSafe[q] \/ (Reading(q) /\ Safe(T[q]))]
    BY <1>1 DEF Change, Witness
  <2>3. \A q \in Project : (wasSafe[q] \/ (Reading(q) /\ Safe(T[q]))) \in BOOLEAN
    BY DEF OracleInv, RTypeOK
  <2>4. wasSafe' \in [Project -> BOOLEAN]
    BY <2>2, <2>3, Zenon
  <2>5. RTypeOK'
    BY <1>1, <2>1, <2>4 DEF OracleInv, RTypeOK, sweepVars, readVars
  <2>6. ASSUME NEW q \in Project PROVE (Fresh(q) /\ Noticed(q) /\ Truthful(q))'
    <3>1. /\ wasSafe[q] => wasSafe'[q]
          /\ Reading(q) /\ Safe(T[q]) => wasSafe'[q]
      BY <2>2
    <3>2. Noticed(q)'
      BY <1>1, <2>1, <3>1 DEF Noticed, Reading, readVars
    <3>3. Truthful(q)'
      BY <1>1, <3>1
         DEF OracleInv, ReadInv, Truthful, sweepVars, readVars
    <3>4. Fresh(q)'
      BY <1>1, <2>1
         DEF OracleInv, RTypeOK, ReadInv, Fresh, HeadRead, sweepVars, readVars,
             Tree, GitState
    <3> QED
      BY <3>2, <3>3, <3>4
  <2> QED
    BY <2>5, <2>6 DEF OracleInv, ReadInv
<1>2. tree[p] \in Tree
  BY DEF OracleInv, RTypeOK
<1>3. Tear(p) => /\ flaw' \in [Project -> {"none", "torn", "cut"}]
                 /\ \A q \in Project : flaw'[q] = "none" => flaw[q] = "none"
                 /\ ~(flaw'[p] = "none" /\ HeadRead(p))
  BY DEF Tear, OracleInv, RTypeOK
<1>4. CASE Edit(p)
  <2>1. [tree[p] EXCEPT !.dirty = TRUE] \in Tree
    BY <1>2 DEF Tree
  <2> QED
    BY <1>1, <1>3, <1>4, <2>1 DEF Edit
<1>5. CASE Commit(p)
  <2>0. tree[p].head + 1 \in 1 .. MaxHead
    <3>1. tree[p].head \in 1 .. MaxHead /\ tree[p].head < MaxHead
      BY <1>2, <1>5 DEF Tree, Commit
    <3> QED
      BY <3>1
  <2>1. [tree[p] EXCEPT !.dirty = FALSE, !.head = @ + 1] \in Tree
    BY <1>2, <2>0 DEF Tree
  <2> QED
    BY <1>1, <1>3, <1>5, <2>1 DEF Commit
<1>6. CASE Discard(p)
  <2>1. LET t == [tree[p] EXCEPT !.dirty = FALSE]
        IN  t \in Tree /\ t.head = tree[p].head /\ ~t.dirty
    BY <1>2 DEF Tree
  <2> QED
    BY <1>1, <1>6, <2>1 DEF Discard, OracleInv, RTypeOK
<1>7. CASE PushOrFetch(p)
  <2>1. PICK u \in tree[p].head .. MaxHead : Change(p, [tree[p] EXCEPT !.up = u])
    BY <1>7 DEF PushOrFetch
  <2>2. LET t == [tree[p] EXCEPT !.up = u]
        IN  t \in Tree /\ t.head = tree[p].head /\ t.dirty = tree[p].dirty
    BY <1>2, <2>1 DEF Tree
  <2> QED
    BY <1>1, <1>7, <2>1, <2>2 DEF PushOrFetch, OracleInv, RTypeOK
<1>8. CASE Depart(p)
  <2>1. LET t == [tree[p] EXCEPT !.present = FALSE]
        IN  t \in Tree /\ t.head = tree[p].head /\ t.dirty = tree[p].dirty
    BY <1>2 DEF Tree
  <2> QED
    BY <1>1, <1>8, <2>1 DEF Depart, OracleInv, RTypeOK
<1>9. CASE Clone(p)
  <2>1. [present |-> TRUE, dirty |-> FALSE, head |-> 1, up |-> 1] \in Tree
    BY DEF Tree
  <2> QED
    BY <1>1, <1>3, <1>9, <2>1 DEF Clone
<1> QED
  BY <1>4, <1>5, <1>6, <1>7, <1>8, <1>9 DEF Own

\* No step of the sweep, of a read or of an owner breaks the invariant.
LEMMA OracleNext == OracleInv /\ [Next]_vars => OracleInv'
<1> SUFFICES ASSUME OracleInv, [Next]_vars PROVE OracleInv'
  OBVIOUS
<1>1. CASE UNCHANGED vars
  BY <1>1 DEF vars, sweepVars, readVars, OracleInv, RTypeOK, ReadInv, Fresh,
              Noticed, Truthful, Reading, HeadRead
<1>2. CASE Next
  BY <1>2, SweepStep, ReadStep, OwnerStep DEF Next
<1> QED
  BY <1>1, <1>2

\* For any number of projects, reads at a time and commits: a result that
\* lets a host migration through was true at a moment of the read.
THEOREM OracleIsTruthful == Spec => []SafeIsTrue
<1>1. OracleInv => SafeIsTrue
  BY DEF OracleInv, ReadInv, Truthful, SafeIsTrue
<1> QED
  BY <1>1, OracleInit, OracleNext, PTL DEF Spec

\* A result once delivered is not touched again by late reads.
THEOREM ResultsAreFinal == Spec => ResultIsFinal
<1> DEFINE Final == \A p \in Project :
                      pc[p] = "done" /\ pc'[p] = "done" => out'[p] = out[p]
<1>1. OracleInv /\ [Next]_vars => [Final]_vars
  <2> SUFFICES ASSUME OracleInv, Next PROVE Final
    BY DEF vars
  <2>1. ASSUME NEW p \in Project, Collect(p) \/ Own(p) PROVE out' = out
    BY <2>1 DEF Collect, Own, Stat, OpenHead, Status, CountUnpushed, Edit,
                Commit, Discard, PushOrFetch, Depart, Clone, sweepVars
  <2>2. CASE HandleGitAll
    BY <2>2 DEF HandleGitAll
  <2>3. CASE Respond
    BY <2>3 DEF Respond
  <2>4. ASSUME NEW p \in Project, Acquire(p) PROVE out' = out
    BY <2>4 DEF Acquire
  <2>5. ASSUME NEW p \in Project, TakeAnswer(p) \/ GiveUp(p) PROVE Final
    BY <2>5 DEF TakeAnswer, GiveUp, Deliver, OracleInv, RTypeOK
  <2> QED
    BY <2>1, <2>2, <2>3, <2>4, <2>5 DEF Next
<1> QED
  BY <1>1, OracleInit, OracleNext, PTL DEF Spec, ResultIsFinal, Final

-----------------------------------------------------------------------------
(***************************************************************************)
(* The semaphore.  That it never holds more than Cap tokens is the guard   *)
(* of Acquire; that no token is handed back twice, which would block the   *)
(* goroutine for ever, is that the tokens are the waiting goroutines.      *)
(***************************************************************************)
Waiting == {p \in Project : pc[p] = "waiting"}

\* Between two sweeps no goroutine is left that holds a token or wants one.
TokenInv ==
  /\ sweep \in {"idle", "running"}
  /\ sweep = "idle" => \A p \in Project : pc[p] = "done"
  /\ sem = Cardinality(Waiting)
  /\ sem <= Cap

\* Waiting goroutines can be counted.
LEMMA WaitingFinite == IsFiniteSet(Waiting) /\ Cardinality(Waiting) \in Nat
<1>1. Waiting \subseteq Project
  BY DEF Waiting
<1> QED
  BY <1>1, FS_Subset, FS_CardinalityType

\* Whoever acquires a token is one more, and whoever delivers one less; the
\* steps of reads and owners change no goroutine of the sweep.
LEMMA TokenStep ==
  ASSUME OracleInv, TokenInv, [Next]_vars
  PROVE  TokenInv'
<1>1. pc \in [Project -> {"queued", "waiting", "done"}]
  BY DEF OracleInv, RTypeOK
<1>2. CASE UNCHANGED <<sweep, pc, sem>>
  BY <1>2 DEF TokenInv, Waiting
<1>3. CASE HandleGitAll
  <2>1. Waiting = {} /\ Waiting' = {}
    BY <1>3 DEF HandleGitAll, TokenInv, Waiting
  <2> QED
    BY <1>3, <2>1 DEF HandleGitAll, TokenInv
<1>4. CASE Respond
  BY <1>4 DEF Respond, TokenInv, Waiting
<1>5. ASSUME NEW p \in Project, Acquire(p) PROVE TokenInv'
  <2>1. p \notin Waiting /\ Waiting' = Waiting \cup {p}
    BY <1>1, <1>5 DEF Acquire, Waiting
  <2>2. Cardinality(Waiting') = Cardinality(Waiting) + 1
    BY <2>1, WaitingFinite, FS_AddElement
  <2>3. sweep = "running" /\ sweep' = sweep
    BY <1>5 DEF Acquire, TokenInv
  <2>4. sem' = sem + 1 /\ sem < Cap
    BY <1>5 DEF Acquire
  <2> QED
    BY <2>2, <2>3, <2>4, WaitingFinite DEF TokenInv
<1>6. ASSUME NEW p \in Project, NEW gs, pc[p] = "waiting", Deliver(p, gs)
      PROVE  TokenInv'
  <2>1. p \in Waiting /\ Waiting' = Waiting \ {p}
    BY <1>1, <1>6 DEF Deliver, Waiting
  <2>2. Cardinality(Waiting') = Cardinality(Waiting) - 1
    BY <2>1, WaitingFinite, FS_RemoveElement
  <2>3. sweep = "running" /\ sweep' = sweep /\ sem' = sem - 1
    BY <1>6 DEF Deliver, TokenInv
  <2> QED
    BY <2>2, <2>3, WaitingFinite DEF TokenInv
<1>7. ASSUME NEW p \in Project, TakeAnswer(p) \/ GiveUp(p) PROVE TokenInv'
  BY <1>6, <1>7 DEF TakeAnswer, GiveUp
<1>8. ASSUME NEW p \in Project, Collect(p) \/ Own(p)
      PROVE  UNCHANGED <<sweep, pc, sem>>
  BY <1>8 DEF Collect, Own, Stat, OpenHead, Status, CountUnpushed, Edit,
              Commit, Discard, PushOrFetch, Depart, Clone, sweepVars
<1> QED
  BY <1>2, <1>3, <1>4, <1>5, <1>7, <1>8 DEF Next, vars, sweepVars

\* The variables keep their types, and the semaphore always holds one token
\* for each goroutine that waits for a read, never more than CollectAll made
\* room for and never fewer than none.
THEOREM OracleTypeCorrect == Spec => []TypeOK
<1>1. Init => TokenInv
  <2> SUFFICES ASSUME Init PROVE TokenInv
    OBVIOUS
  <2>1. Waiting = {}
    BY DEF Init, Waiting
  <2> QED
    BY <2>1, FS_EmptySet DEF Init, TokenInv
<1>2. OracleInv /\ TokenInv => TypeOK
  <2> SUFFICES ASSUME OracleInv, TokenInv PROVE TypeOK
    OBVIOUS
  <2>1. sem \in 0 .. Cap
    BY WaitingFinite DEF TokenInv
  <2> QED
    BY <2>1 DEF OracleInv, RTypeOK, TokenInv, TypeOK
<1> QED
  BY <1>1, <1>2, OracleInit, OracleNext, TokenStep, PTL DEF Spec
=============================================================================
