------------------------------ MODULE Furnish ------------------------------
(***************************************************************************)
(* The furnish surface (pkg/furnish, pkg/httpapi/furnish.go): requests     *)
(* that bring a piece up, take it down or read its health, one apiserver   *)
(* call per declared object, without a lock between them.  They share one  *)
(* lazily built cluster client and its discovery cache (pkg/kube).         *)
(*                                                                         *)
(* The cluster is external: objects become ready, fail and vanish, kinds   *)
(* are installed and removed, the apiserver refuses, hangs and recovers,   *)
(* and a call whose answer is lost may have taken effect.                  *)
(***************************************************************************)
EXTENDS Integers, FiniteSets

CONSTANTS Size,       \* number of objects the piece declares
          Workload,   \* those that are Deployments or StatefulSets
          Late,       \* those whose kind may come and go (a CRD's)
          Request,    \* slots for requests that are served at a time
          Clearing    \* those whose operator wants the piece to go

Object == 1 .. Size   \* in declaration order

ASSUME FurnishAssumption ==
  /\ Size \in Nat \ {0}
  /\ Workload \subseteq Object
  /\ Late \subseteq Object
  /\ Clearing \subseteq Request

VARIABLES live,        \* the declared objects in the cluster
          served,      \* the objects whose kind the apiserver serves
          api,         \* the apiserver is "well" or "ill"
          kubeconfig,  \* a kubeconfig can be loaded
          client,      \* LazyClient holds a client
          cached,      \* the kinds its discovery cache knows
          op,          \* what each request does
          todo,        \* the objects it has still to attend to
          passed,      \* the ones it will report as applied, gone or GREEN
          expired,     \* its deadline has passed
          answer,      \* what it answered
          truth        \* history: the objects of which that was so

clusterVars == <<live, served, api, kubeconfig>>
clientVars == <<client, cached>>
reqVars == <<op, todo, passed, expired, answer>>
vars == <<clusterVars, clientVars, reqVars, truth>>

\* PieceHealth: a workload is GREEN when it has the replicas it wants, any
\* other kind when it is there.
Green(o, s) == IF o \in Workload THEN s = "ready" ELSE s # "absent"

\* What a state of the cluster shows of the claim a request will make: for a
\* removal that an object is not there, for a health read that it is GREEN.
\* That an object was applied only the apply itself can show.
Shown(what, l) ==
  CASE what = "down" -> {o \in Object : l[o] = "absent"}
    [] what = "health" -> {o \in Object : Green(o, l[o])}
    [] OTHER -> {}

\* The cluster's objects become l; the requests under way live through it.
Becomes(l) ==
  /\ live' = l
  /\ truth' = [r \in Request |-> truth[r] \cup Shown(op[r], l)]

Init ==
  /\ live = [o \in Object |-> "absent"]
  /\ served = Object \ Late
  /\ api = "well"
  /\ kubeconfig \in BOOLEAN
  /\ client = FALSE
  /\ cached = {}
  /\ op = [r \in Request |-> "none"]
  /\ todo = [r \in Request |-> {}]
  /\ passed = [r \in Request |-> {}]
  /\ expired = [r \in Request |-> FALSE]
  /\ answer = [r \in Request |-> "none"]
  /\ truth = [r \in Request |-> {}]

-----------------------------------------------------------------------------
(***************************************************************************)
(* The client.                                                             *)
(***************************************************************************)
\* LazyClient: a success is kept, a failure is tried again next time.
LazyClient(ok) ==
  /\ ok = (client \/ kubeconfig)
  /\ client' = ok
  /\ UNCHANGED cached

\* Mutant: a kind that was missed once stays unknown.
RESTMappingCached(o, ok) ==
  \/ /\ cached # {}
     /\ ok = (o \in cached) /\ UNCHANGED cached
  \/ /\ cached = {}
     /\ ok = (o \in served) /\ cached' = served

\* Client.RESTMapping: a kind the cache does not know drops the cache and
\* asks the apiserver, which must answer.  An object that declares no
\* namespace fails in the same place, like one whose kind never comes.
RESTMapping(o, ok) ==
  \/ /\ o \in cached
     /\ ok = TRUE /\ UNCHANGED cached
  \/ /\ o \notin cached
     /\ ok = (o \in served) /\ cached' = served
  \/ /\ o \notin cached /\ api = "ill"
     /\ ok = FALSE /\ cached' = {}

\* What a call of r about o can come to: done, and said so; declined, or
\* never sent, as every call is once the deadline has passed; done, with the
\* answer lost; or a 404, for a kind that only the cache still knows.
Calls(r, o) ==
  IF expired[r] THEN {"refused"}
  ELSE {IF o \in served THEN "ok" ELSE "404"} \cup
       (IF api = "ill" THEN {"refused"} ELSE {}) \cup
       (IF api = "ill" /\ o \in served THEN {"lost"} ELSE {})

\* The calls that took effect.
Effective == {"ok", "lost"}

-----------------------------------------------------------------------------
(***************************************************************************)
(* The handlers.                                                           *)
(***************************************************************************)
Respond(r, a) ==
  /\ op' = [op EXCEPT ![r] = "none"]
  /\ answer' = [answer EXCEPT ![r] = a]

\* The next object in declaration order.
Turn(r, o) == o \in todo[r] /\ \A q \in todo[r] : o <= q

\* Mutant: one object too many.
BuildPieceAndOne == 1 .. Size + 1

\* The objects a piece renders to.
BuildPiece == Object

Reject(r) ==
  /\ Respond(r, "fail")
  /\ todo' = [todo EXCEPT ![r] = {}]
  /\ truth' = [truth EXCEPT ![r] = {}]

Begin(r, what) ==
  /\ op' = [op EXCEPT ![r] = what]
  /\ answer' = [answer EXCEPT ![r] = "none"]
  /\ todo' = [todo EXCEPT ![r] = BuildPiece]
  /\ truth' = [truth EXCEPT ![r] = Shown(what, live)]

\* The piece is looked up, the client fetched and the piece rendered: each
\* may fail.  For health a piece that does not render is INDETERMINATE.
Accept(r, what) ==
  /\ op[r] = "none"
  /\ expired' = [expired EXCEPT ![r] = FALSE]
  /\ passed' = [passed EXCEPT ![r] = {}]
  /\ \/ Reject(r) /\ UNCHANGED clientVars
     \/ \E ok \in BOOLEAN : LazyClient(ok) /\ Reject(r)
     \/ LazyClient(TRUE) /\ Begin(r, what)
  /\ UNCHANGED clusterVars

\* o is behind; it passed or it failed.
Tally(r, o, ok) ==
  /\ todo' = [todo EXCEPT ![r] = @ \ {o}]
  /\ passed' = [passed EXCEPT ![r] = IF ok THEN @ \cup {o} ELSE @]
  /\ UNCHANGED <<op, expired, answer>>

\* Server-side apply of o: what was absent starts, what was there stays or
\* is rolled over.
Applied(r, o) ==
  /\ \E s \in {"starting", live[o]} \ {"absent"} : live' = [live EXCEPT ![o] = s]
  /\ truth' = [q \in Request |->
                 truth[q] \cup Shown(op[q], live') \cup (IF q = r THEN {o} ELSE {})]

\* Up's loop: a failure is recorded and the next object gets its turn.
UpObject(r, o) ==
  /\ op[r] = "up" /\ Turn(r, o)
  /\ \E ok \in BOOLEAN :
       /\ RESTMapping(o, ok)
       /\ \/ /\ ok
             /\ \E c \in Calls(r, o) :
                  /\ Tally(r, o, c = "ok")
                  /\ IF c \in Effective THEN Applied(r, o)
                     ELSE UNCHANGED <<live, truth>>
          \/ /\ ~ok
             /\ Tally(r, o, FALSE) /\ UNCHANGED <<live, truth>>
  /\ UNCHANGED <<served, api, kubeconfig, client>>

\* Down's loop: what is not found is fine; any other failure ends it, and
\* what was removed so far is not reported.
DownObject(r, o) ==
  /\ op[r] = "down" /\ Turn(r, o)
  /\ \E ok \in BOOLEAN :
       /\ RESTMapping(o, ok)
       /\ \/ /\ ok
             /\ \E c \in Calls(r, o) :
                  /\ IF c \in {"ok", "404"} THEN Tally(r, o, TRUE)
                     ELSE Respond(r, "fail") /\ UNCHANGED <<todo, passed, expired>>
                  /\ IF c \in Effective
                     THEN Becomes([live EXCEPT ![o] = "absent"])
                     ELSE UNCHANGED <<live, truth>>
          \/ /\ ~ok
             /\ Respond(r, "fail") /\ UNCHANGED <<todo, passed, expired, live, truth>>
  /\ UNCHANGED <<served, api, kubeconfig, client>>

\* Mutant: what cannot be read is not told from what is there.
HealthObjectOptimistic(r, o) ==
  /\ op[r] = "health" /\ Turn(r, o)
  /\ \E ok \in BOOLEAN :
       /\ RESTMapping(o, ok)
       /\ \/ ok /\ \E c \in Calls(r, o) :
                     Tally(r, o, c # "ok" \/ Green(o, live[o]))
          \/ ~ok /\ Tally(r, o, TRUE)
  /\ UNCHANGED <<clusterVars, client, truth>>

\* Health's loop: liveItem never fails; an object that could not be read is
\* INDETERMINATE, one that is not there RED, and neither counts as GREEN.
HealthObject(r, o) ==
  /\ op[r] = "health" /\ Turn(r, o)
  /\ \E ok \in BOOLEAN :
       /\ RESTMapping(o, ok)
       /\ \/ ok /\ \E c \in Calls(r, o) :
                     Tally(r, o, c = "ok" /\ Green(o, live[o]))
          \/ ~ok /\ Tally(r, o, FALSE)
  /\ UNCHANGED <<clusterVars, client, truth>>

\* 200 when nothing failed.
Finish(r) ==
  /\ op[r] # "none" /\ todo[r] = {}
  /\ Respond(r, IF passed[r] = Object THEN "ok" ELSE "fail")
  /\ UNCHANGED <<clusterVars, clientVars, todo, passed, expired, truth>>

\* The handler's deadline; a cluster that is well is faster.
Expire(r) ==
  /\ op[r] # "none" /\ api = "ill" /\ ~expired[r]
  /\ expired' = [expired EXCEPT ![r] = TRUE]
  /\ UNCHANGED <<clusterVars, clientVars, op, todo, passed, answer, truth>>

-----------------------------------------------------------------------------
(***************************************************************************)
(* The cluster.                                                            *)
(***************************************************************************)
\* An object becomes ready, stops being so, or is deleted by somebody else.
Drift(o) ==
  /\ live[o] # "absent"
  /\ \E s \in {"absent", "starting", "ready"} \ {live[o]} :
       Becomes([live EXCEPT ![o] = s])
  /\ UNCHANGED <<served, api, kubeconfig, clientVars, reqVars>>

\* A kind is installed, or goes, and its objects with it.
Install(o) ==
  /\ o \in Late \ served
  /\ served' = served \cup {o}
  /\ UNCHANGED <<live, api, kubeconfig, clientVars, reqVars, truth>>

Uninstall(o) ==
  /\ o \in Late \cap served
  /\ served' = served \ {o}
  /\ Becomes([live EXCEPT ![o] = "absent"])
  /\ UNCHANGED <<api, kubeconfig, clientVars, reqVars>>

ApiTurns ==
  /\ api' = IF api = "well" THEN "ill" ELSE "well"
  /\ UNCHANGED <<live, served, kubeconfig, clientVars, reqVars, truth>>

\* The kubeconfig is mounted, or taken away.
MountKubeconfig ==
  /\ kubeconfig' = ~kubeconfig
  /\ UNCHANGED <<live, served, api, clientVars, reqVars, truth>>

-----------------------------------------------------------------------------
Serve(r) ==
  \/ \E o \in Object : UpObject(r, o) \/ DownObject(r, o) \/ HealthObject(r, o)
  \/ Finish(r)

Next ==
  \/ \E r \in Request :
       \/ \E what \in {"up", "down", "health"} : Accept(r, what)
       \/ Serve(r) \/ Expire(r)
  \/ \E o \in Object : Drift(o) \/ Install(o) \/ Uninstall(o)
  \/ ApiTurns \/ MountKubeconfig

Spec == Init /\ [][Next]_vars

\* What a slot's operator keeps asking for.
Wish(r) == IF r \in Clearing THEN "down" ELSE "up"

(***************************************************************************)
(* Every apiserver request has a time limit of its own, so a handler that  *)
(* was started comes to its end; and the operator of a slot, whatever else *)
(* it is used for, asks again and again for the piece to go up, or for it  *)
(* to go, of manifests that render.                                        *)
(***************************************************************************)
FairSpec ==
  /\ Spec
  /\ \A r \in Request :
       /\ WF_vars(Serve(r))
       /\ SF_vars(Accept(r, Wish(r)) /\ op'[r] = Wish(r))

-----------------------------------------------------------------------------
\* The variables keep their types; a request deals with declared objects only.
TypeOK ==
  /\ live \in [Object -> {"absent", "starting", "ready"}]
  /\ served \in SUBSET Object
  /\ api \in {"well", "ill"}
  /\ kubeconfig \in BOOLEAN
  /\ client \in BOOLEAN
  /\ cached \in SUBSET Object
  /\ op \in [Request -> {"none", "up", "down", "health"}]
  /\ todo \in [Request -> SUBSET Object]
  /\ passed \in [Request -> SUBSET Object]
  /\ expired \in [Request -> BOOLEAN]
  /\ answer \in [Request -> {"none", "ok", "fail"}]
  /\ truth \in [Request -> SUBSET Object]

\* What a request reports is what happened: every object listed as applied
\* was applied for it, every object passed over as removed was gone and
\* every GREEN one was GREEN at a moment of the request, while others apply,
\* delete and drift; and a 200 says so of every declared object, never of a
\* piece that a failed call, a lost answer or the deadline left half done.
ReportIsTrue ==
  \A r \in Request :
    /\ passed[r] \subseteq truth[r]
    /\ answer[r] = "ok" => truth[r] = Object

\* A daemon that started without a kubeconfig, or before a kind was
\* installed, needs no restart: once the cluster is there for good an
\* operator who keeps asking gets the piece up; and one who keeps asking for
\* its removal gets it removed, although Down stops at the first failure and
\* does not say how far it came (LazyClient, RESTMapping, Down).
Reachable == kubeconfig /\ api = "well" /\ served = Object

RetryConverges ==
  <>[]Reachable =>
    \A r \in Request : []<>(op[r] = Wish(r) /\ passed[r] = Object)
=============================================================================
