--------------------------- MODULE FurnishProofs ---------------------------
(***************************************************************************)
(* What the furnish surface reports is true for a piece of any size and    *)
(* any number of requests.  A request is never told more than the cluster  *)
(* has shown it: the invariant says that whatever the cluster shows now of *)
(* its claim has been noted, and that a kind that is not served has no     *)
(* objects, which is why a 404 is as good as a removal.                    *)
(***************************************************************************)
EXTENDS Furnish, TLAPS

Unserved == \A o \in Object : o \notin served => live[o] = "absent"

Noticed == \A r \in Request : Shown(op[r], live) \subseteq truth[r]

FurnishInv == TypeOK /\ Unserved /\ Noticed /\ ReportIsTrue

USE FurnishAssumption

-----------------------------------------------------------------------------
\* What a state can show are declared objects.
LEMMA ShownType ==
  ASSUME NEW what, NEW l PROVE Shown(what, l) \subseteq Object
  BY DEF Shown

\* A request that has been answered, or applies, is shown nothing.
LEMMA ShownNothing ==
  ASSUME NEW what \in {"none", "up"}, NEW l PROVE Shown(what, l) = {}
  BY DEF Shown

\* Initially nothing is there and nobody has asked.
LEMMA FurnishInit == Init => FurnishInv
<1> SUFFICES ASSUME Init PROVE FurnishInv
  OBVIOUS
<1>1. TypeOK
  BY DEF Init, TypeOK
<1>2. Unserved
  BY DEF Init, Unserved
<1>3. Noticed
  BY ShownNothing DEF Init, Noticed
<1>4. ReportIsTrue
  BY DEF Init, ReportIsTrue
<1> QED
  BY <1>1, <1>2, <1>3, <1>4 DEF FurnishInv

\* A new state of the objects is noted by every request under way.
LEMMA BecomesStep ==
  ASSUME FurnishInv, UNCHANGED reqVars,
         NEW l \in [Object -> {"absent", "starting", "ready"}], Becomes(l)
  PROVE  /\ live' \in [Object -> {"absent", "starting", "ready"}]
         /\ truth' \in [Request -> SUBSET Object]
         /\ Noticed' /\ ReportIsTrue'
<1>1. live' = l /\ truth' = [r \in Request |-> truth[r] \cup Shown(op[r], l)]
  BY DEF Becomes
<1>2. truth' \in [Request -> SUBSET Object]
  BY <1>1, ShownType DEF FurnishInv, TypeOK
<1>3. \A r \in Request : truth[r] \subseteq truth'[r] /\ Shown(op[r], l) \subseteq truth'[r]
  BY <1>1
<1>4. op' = op /\ passed' = passed /\ answer' = answer
  BY DEF reqVars
<1>5. Noticed'
  BY <1>1, <1>3, <1>4 DEF Noticed
<1>6. \A r \in Request : truth'[r] \subseteq Object
  BY <1>2
<1>7. ReportIsTrue'
  BY <1>3, <1>4, <1>6 DEF FurnishInv, ReportIsTrue
<1> QED
  BY <1>1, <1>2, <1>5, <1>7

\* The steps of the cluster and of the deadline.
LEMMA ClusterStep ==
  ASSUME FurnishInv,
         \/ \E o \in Object : Drift(o) \/ Install(o) \/ Uninstall(o)
         \/ ApiTurns \/ MountKubeconfig
         \/ \E r \in Request : Expire(r)
  PROVE  FurnishInv'
<1>1. ASSUME NEW o \in Object, Drift(o) PROVE FurnishInv'
  <2>1. PICK s \in {"absent", "starting", "ready"} : Becomes([live EXCEPT ![o] = s])
    BY <1>1 DEF Drift
  <2>2. [live EXCEPT ![o] = s] \in [Object -> {"absent", "starting", "ready"}]
    BY DEF FurnishInv, TypeOK
  <2>3. UNCHANGED reqVars
    BY <1>1 DEF Drift
  <2>4. /\ live' \in [Object -> {"absent", "starting", "ready"}]
        /\ truth' \in [Request -> SUBSET Object]
        /\ Noticed' /\ ReportIsTrue'
    BY <2>1, <2>2, <2>3, BecomesStep
  <2>5. Unserved'
    BY <1>1, <2>1 DEF Drift, Becomes, FurnishInv, TypeOK, Unserved
  <2>6. TypeOK'
    BY <1>1, <2>4 DEF Drift, FurnishInv, TypeOK, clientVars, reqVars
  <2> QED
    BY <2>4, <2>5, <2>6 DEF FurnishInv
<1>2. ASSUME NEW o \in Object, Install(o) PROVE FurnishInv'
  BY <1>2 DEF Install, FurnishInv, TypeOK, Unserved, Noticed, ReportIsTrue,
              Shown, clientVars, reqVars
<1>3. ASSUME NEW o \in Object, Uninstall(o) PROVE FurnishInv'
  <2>1. Becomes([live EXCEPT ![o] = "absent"]) /\ UNCHANGED reqVars
    BY <1>3 DEF Uninstall
  <2>2. [live EXCEPT ![o] = "absent"] \in [Object -> {"absent", "starting", "ready"}]
    BY DEF FurnishInv, TypeOK
  <2>4. /\ live' \in [Object -> {"absent", "starting", "ready"}]
        /\ truth' \in [Request -> SUBSET Object]
        /\ Noticed' /\ ReportIsTrue'
    BY <2>1, <2>2, BecomesStep
  <2>5. Unserved'
    BY <1>3, <2>1 DEF Uninstall, Becomes, FurnishInv, TypeOK, Unserved
  <2>6. TypeOK'
    BY <1>3, <2>4 DEF Uninstall, FurnishInv, TypeOK, clientVars, reqVars
  <2> QED
    BY <2>4, <2>5, <2>6 DEF FurnishInv
<1>4. CASE ApiTurns
  BY <1>4 DEF ApiTurns, FurnishInv, TypeOK, Unserved, Noticed, ReportIsTrue,
              Shown, clientVars, reqVars
<1>5. CASE MountKubeconfig
  BY <1>5 DEF MountKubeconfig, FurnishInv, TypeOK, Unserved, Noticed,
              ReportIsTrue, Shown, clientVars, reqVars
<1>6. ASSUME NEW r \in Request, Expire(r) PROVE FurnishInv'
  BY <1>6 DEF Expire, FurnishInv, TypeOK, Unserved, Noticed, ReportIsTrue,
              Shown, clusterVars, clientVars
<1> QED
  BY <1>1, <1>2, <1>3, <1>4, <1>5, <1>6

\* A request is taken, or turned away.
LEMMA AcceptStep ==
  ASSUME FurnishInv, NEW r \in Request, NEW what \in {"up", "down", "health"},
         Accept(r, what)
  PROVE  FurnishInv'
<1>1. UNCHANGED clusterVars /\ client' \in BOOLEAN /\ cached' \in SUBSET Object
  BY DEF Accept, LazyClient, clientVars, FurnishInv, TypeOK
<1>2. /\ expired' = [expired EXCEPT ![r] = FALSE]
      /\ passed' = [passed EXCEPT ![r] = {}]
  BY DEF Accept
<1>3. CASE Reject(r)
  <2>1. TypeOK'
    BY <1>1, <1>2, <1>3 DEF Reject, Respond, FurnishInv, TypeOK, clusterVars
  <2>2. Unserved'
    BY <1>1 DEF FurnishInv, Unserved, clusterVars
  <2>3. Noticed'
    <3> SUFFICES ASSUME NEW q \in Request
                 PROVE  Shown(op'[q], live') \subseteq truth'[q]
      BY DEF Noticed
    <3>1. CASE q = r
      BY <1>3, <3>1, ShownNothing DEF Reject, Respond, FurnishInv, TypeOK
    <3>2. CASE q # r
      BY <1>1, <1>3, <3>2
         DEF Reject, Respond, FurnishInv, TypeOK, Noticed, clusterVars
    <3> QED
      BY <3>1, <3>2
  <2>4. ReportIsTrue'
    BY <1>2, <1>3 DEF Reject, Respond, FurnishInv, TypeOK, ReportIsTrue
  <2> QED
    BY <2>1, <2>2, <2>3, <2>4 DEF FurnishInv
<1>4. CASE Begin(r, what)
  <2>1. TypeOK'
    BY <1>1, <1>2, <1>4, ShownType
       DEF Begin, BuildPiece, FurnishInv, TypeOK, clusterVars
  <2>2. Unserved'
    BY <1>1 DEF FurnishInv, Unserved, clusterVars
  <2>3. Noticed'
    BY <1>1, <1>4 DEF Begin, FurnishInv, TypeOK, Noticed, clusterVars
  <2>4. ReportIsTrue'
    BY <1>2, <1>4 DEF Begin, FurnishInv, TypeOK, ReportIsTrue
  <2> QED
    BY <2>1, <2>2, <2>3, <2>4 DEF FurnishInv
<1> QED
  BY <1>3, <1>4 DEF Accept

\* The cache stays a set of kinds.
LEMMA MappingType ==
  ASSUME TypeOK, NEW o, NEW ok, RESTMapping(o, ok) PROVE cached' \in SUBSET Object
  BY DEF RESTMapping, TypeOK

\* A request deals with one object and the objects stay as they are, or
\* become what the cluster then shows.
LEMMA TallyStep ==
  ASSUME FurnishInv, NEW r \in Request, NEW o \in Object, NEW pass \in BOOLEAN,
         Tally(r, o, pass), UNCHANGED <<served, api, kubeconfig, client>>,
         cached' \in SUBSET Object,
         live' \in [Object -> {"absent", "starting", "ready"}],
         truth' \in [Request -> SUBSET Object],
         \A q \in Request : truth[q] \subseteq truth'[q],
         Unserved', \A q \in Request : Shown(op[q], live') \subseteq truth'[q],
         pass => o \in truth'[r]
  PROVE  FurnishInv'
<1>1. TypeOK'
  BY DEF Tally, FurnishInv, TypeOK
<1>2. Noticed'
  BY DEF Tally, Noticed
<1>3. ReportIsTrue'
  <2> SUFFICES ASSUME NEW q \in Request
               PROVE  /\ passed'[q] \subseteq truth'[q]
                      /\ answer'[q] = "ok" => truth'[q] = Object
    BY DEF ReportIsTrue
  <2>1. passed[q] \subseteq truth[q] /\ truth[q] \subseteq truth'[q]
        /\ truth'[q] \subseteq Object
        /\ (answer[q] = "ok" => truth[q] = Object)
    BY DEF FurnishInv, ReportIsTrue
  <2>2. passed'[q] = IF q = r /\ pass THEN passed[q] \cup {o} ELSE passed[q]
    BY DEF Tally, FurnishInv, TypeOK
  <2>3. answer'[q] = answer[q]
    BY DEF Tally
  <2> QED
    BY <2>1, <2>2, <2>3
<1> QED
  BY <1>1, <1>2, <1>3 DEF FurnishInv

\* A request fails on an object and is over.
LEMMA AbortStep ==
  ASSUME FurnishInv, NEW r \in Request, Respond(r, "fail"),
         UNCHANGED <<todo, passed, expired, served, api, kubeconfig, client>>,
         cached' \in SUBSET Object,
         live' \in [Object -> {"absent", "starting", "ready"}],
         truth' \in [Request -> SUBSET Object],
         \A q \in Request : truth[q] \subseteq truth'[q],
         Unserved', \A q \in Request : Shown(op[q], live') \subseteq truth'[q]
  PROVE  FurnishInv'
<1>1. TypeOK'
  BY DEF Respond, FurnishInv, TypeOK
<1>2. Noticed'
  <2> SUFFICES ASSUME NEW q \in Request
               PROVE  Shown(op'[q], live') \subseteq truth'[q]
    BY DEF Noticed
  <2>1. CASE q = r
    BY <2>1, ShownNothing DEF Respond, FurnishInv, TypeOK
  <2>2. CASE q # r
    BY <2>2 DEF Respond, FurnishInv, TypeOK
  <2> QED
    BY <2>1, <2>2
<1>3. ReportIsTrue'
  <2> SUFFICES ASSUME NEW q \in Request
               PROVE  /\ passed'[q] \subseteq truth'[q]
                      /\ answer'[q] = "ok" => truth'[q] = Object
    BY DEF ReportIsTrue
  <2>1. passed[q] \subseteq truth[q] /\ truth[q] \subseteq truth'[q]
        /\ truth'[q] \subseteq Object
        /\ (answer[q] = "ok" => truth[q] = Object)
    BY DEF FurnishInv, ReportIsTrue
  <2>2. answer'[q] = "ok" => answer[q] = "ok"
    BY DEF Respond, FurnishInv, TypeOK
  <2> QED
    BY <2>1, <2>2
<1> QED
  BY <1>1, <1>2, <1>3 DEF FurnishInv

-----------------------------------------------------------------------------
\* An object is applied, or its apply fails.
LEMMA UpStep ==
  ASSUME FurnishInv, NEW r \in Request, NEW o \in Object, UpObject(r, o)
  PROVE  FurnishInv'
<1>1. PICK ok \in BOOLEAN :
        /\ RESTMapping(o, ok)
        /\ \/ /\ ok
              /\ \E c \in Calls(r, o) :
                   /\ Tally(r, o, c = "ok")
                   /\ IF c \in Effective THEN Applied(r, o)
                      ELSE UNCHANGED <<live, truth>>
           \/ ~ok /\ Tally(r, o, FALSE) /\ UNCHANGED <<live, truth>>
  BY DEF UpObject
<1>2. cached' \in SUBSET Object /\ UNCHANGED <<served, api, kubeconfig, client>>
  BY <1>1, MappingType DEF FurnishInv, UpObject
<1>3. ASSUME NEW pass \in {FALSE}, Tally(r, o, pass), UNCHANGED <<live, truth>>
      PROVE  FurnishInv'
  <2>1. Unserved'
    BY <1>2, <1>3 DEF FurnishInv, Unserved
  <2>2. \A q \in Request : Shown(op[q], live') \subseteq truth'[q]
    BY <1>3 DEF FurnishInv, Noticed
  <2> QED
    BY <1>2, <1>3, <2>1, <2>2, TallyStep DEF FurnishInv, TypeOK
<1>4. ASSUME NEW pass \in BOOLEAN, Tally(r, o, pass), Applied(r, o), o \in served
      PROVE  FurnishInv'
  <2>1. PICK s \in {"starting", live[o]} \ {"absent"} :
          live' = [live EXCEPT ![o] = s]
    BY <1>4 DEF Applied
  <2>2. live' \in [Object -> {"absent", "starting", "ready"}]
    BY <2>1 DEF FurnishInv, TypeOK
  <2>3. truth' = [q \in Request |->
          truth[q] \cup Shown(op[q], live') \cup (IF q = r THEN {o} ELSE {})]
    BY <1>4 DEF Applied
  <2>4. truth' \in [Request -> SUBSET Object]
    BY <2>3, ShownType DEF FurnishInv, TypeOK
  <2>5. /\ \A q \in Request : truth[q] \subseteq truth'[q]
        /\ \A q \in Request : Shown(op[q], live') \subseteq truth'[q]
        /\ o \in truth'[r]
    BY <2>3
  <2>6. Unserved'
    BY <1>2, <1>4, <2>1 DEF FurnishInv, TypeOK, Unserved
  <2> QED
    BY <1>2, <1>4, <2>2, <2>4, <2>5, <2>6, TallyStep
<1>5. ASSUME NEW c \in Calls(r, o), c \in Effective PROVE o \in served
  BY <1>5 DEF Calls, Effective
<1>6. CASE ok
  <2>1. PICK c \in Calls(r, o) :
          /\ Tally(r, o, c = "ok")
          /\ IF c \in Effective THEN Applied(r, o) ELSE UNCHANGED <<live, truth>>
    BY <1>1, <1>6
  <2>2. CASE c \in Effective
    BY <1>4, <1>5, <2>1, <2>2
  <2>3. CASE c \notin Effective
    <3>1. (c = "ok") = FALSE
      BY <2>3 DEF Effective
    <3> QED
      BY <1>3, <2>1, <2>3, <3>1
  <2> QED
    BY <2>2, <2>3
<1>7. CASE ~ok
  BY <1>1, <1>3, <1>7
<1> QED
  BY <1>6, <1>7

\* An object is removed, or its removal fails and the request is over.
LEMMA DownStep ==
  ASSUME FurnishInv, NEW r \in Request, NEW o \in Object, DownObject(r, o)
  PROVE  FurnishInv'
<1>1. PICK ok \in BOOLEAN :
        /\ RESTMapping(o, ok)
        /\ \/ /\ ok
              /\ \E c \in Calls(r, o) :
                   /\ IF c \in {"ok", "404"} THEN Tally(r, o, TRUE)
                      ELSE Respond(r, "fail") /\ UNCHANGED <<todo, passed, expired>>
                   /\ IF c \in Effective
                      THEN Becomes([live EXCEPT ![o] = "absent"])
                      ELSE UNCHANGED <<live, truth>>
           \/ /\ ~ok
              /\ Respond(r, "fail")
              /\ UNCHANGED <<todo, passed, expired, live, truth>>
  BY DEF DownObject
<1>2. /\ cached' \in SUBSET Object /\ UNCHANGED <<served, api, kubeconfig, client>>
      /\ op[r] = "down"
  BY <1>1, MappingType DEF FurnishInv, DownObject
<1> DEFINE Kept == /\ live' \in [Object -> {"absent", "starting", "ready"}]
                   /\ truth' \in [Request -> SUBSET Object]
                   /\ \A q \in Request : truth[q] \subseteq truth'[q]
                   /\ Unserved'
                   /\ \A q \in Request : Shown(op[q], live') \subseteq truth'[q]
<1>3. ASSUME UNCHANGED <<live, truth>> PROVE Kept
  BY <1>2, <1>3 DEF FurnishInv, TypeOK, Unserved, Noticed
<1>4. ASSUME Becomes([live EXCEPT ![o] = "absent"])
      PROVE  Kept /\ live'[o] = "absent"
  <2>1. live' = [live EXCEPT ![o] = "absent"]
    BY <1>4 DEF Becomes
  <2>2. truth' = [q \in Request |-> truth[q] \cup Shown(op[q], live')]
    BY <1>4, <2>1 DEF Becomes
  <2>3. live' \in [Object -> {"absent", "starting", "ready"}] /\ live'[o] = "absent"
    BY <2>1 DEF FurnishInv, TypeOK
  <2>4. truth' \in [Request -> SUBSET Object]
    BY <2>2, ShownType DEF FurnishInv, TypeOK
  <2>5. Unserved'
    BY <1>2, <2>1 DEF FurnishInv, TypeOK, Unserved
  <2> QED
    BY <2>2, <2>3, <2>4, <2>5
<1>5. ASSUME Kept, live'[o] = "absent" PROVE o \in truth'[r]
  <2>1. o \in Shown(op[r], live')
    BY <1>2, <1>5 DEF Shown
  <2> QED
    BY <1>5, <2>1
<1>6. CASE ok
  <2>1. PICK c \in Calls(r, o) :
          /\ IF c \in {"ok", "404"} THEN Tally(r, o, TRUE)
             ELSE Respond(r, "fail") /\ UNCHANGED <<todo, passed, expired>>
          /\ IF c \in Effective THEN Becomes([live EXCEPT ![o] = "absent"])
             ELSE UNCHANGED <<live, truth>>
    BY <1>1, <1>6
  <2>2. Kept
    BY <1>3, <1>4, <2>1
  <2>3. CASE c \in {"ok", "404"}
    <3>1. live'[o] = "absent"
      <4>1. CASE c = "ok"
        BY <1>4, <2>1, <4>1 DEF Effective
      <4>2. CASE c = "404"
        <5>1. o \notin served
          BY <4>2 DEF Calls
        <5>2. live[o] = "absent"
          BY <5>1 DEF FurnishInv, Unserved
        <5> QED
          BY <2>1, <4>2, <5>2 DEF Effective
      <4> QED
        BY <2>3, <4>1, <4>2
    <3>2. o \in truth'[r]
      BY <1>5, <2>2, <3>1
    <3> QED
      BY <1>2, <2>1, <2>2, <2>3, <3>2, TallyStep
  <2>4. CASE c \notin {"ok", "404"}
    BY <1>2, <2>1, <2>2, <2>4, AbortStep
  <2> QED
    BY <2>3, <2>4
<1>7. CASE ~ok
  BY <1>1, <1>2, <1>3, <1>7, AbortStep
<1> QED
  BY <1>6, <1>7

\* An object is looked at.
LEMMA HealthStep ==
  ASSUME FurnishInv, NEW r \in Request, NEW o \in Object, HealthObject(r, o)
  PROVE  FurnishInv'
<1>1. PICK ok \in BOOLEAN :
        /\ RESTMapping(o, ok)
        /\ \/ ok /\ \E c \in Calls(r, o) :
                      Tally(r, o, c = "ok" /\ Green(o, live[o]))
           \/ ~ok /\ Tally(r, o, FALSE)
  BY DEF HealthObject
<1>2. /\ cached' \in SUBSET Object /\ UNCHANGED <<served, api, kubeconfig, client>>
      /\ op[r] = "health" /\ UNCHANGED <<live, truth>>
  BY <1>1, MappingType DEF FurnishInv, HealthObject, clusterVars
<1>3. PICK pass \in BOOLEAN : Tally(r, o, pass) /\ (pass => Green(o, live[o]))
  BY <1>1
<1>4. pass => o \in truth'[r]
  BY <1>2, <1>3 DEF FurnishInv, Noticed, Shown
<1>5. /\ Unserved'
      /\ \A q \in Request : Shown(op[q], live') \subseteq truth'[q]
      /\ live' \in [Object -> {"absent", "starting", "ready"}]
      /\ truth' \in [Request -> SUBSET Object]
  BY <1>2 DEF FurnishInv, TypeOK, Unserved, Noticed
<1> QED
  BY <1>2, <1>3, <1>4, <1>5, TallyStep

\* A request that has dealt with every object is answered.
LEMMA FinishStep ==
  ASSUME FurnishInv, NEW r \in Request, Finish(r) PROVE FurnishInv'
<1>1. /\ Respond(r, IF passed[r] = Object THEN "ok" ELSE "fail")
      /\ UNCHANGED <<live, served, api, kubeconfig, client, cached, todo,
                     passed, expired, truth>>
  BY DEF Finish, clusterVars, clientVars
<1>2. TypeOK'
  BY <1>1 DEF Respond, FurnishInv, TypeOK
<1>3. Unserved'
  BY <1>1 DEF FurnishInv, Unserved
<1>4. Noticed'
  <2> SUFFICES ASSUME NEW q \in Request
               PROVE  Shown(op'[q], live') \subseteq truth'[q]
    BY DEF Noticed
  <2>1. CASE q = r
    BY <1>1, <2>1, ShownNothing DEF Respond, FurnishInv, TypeOK
  <2>2. CASE q # r
    BY <1>1, <2>2 DEF Respond, FurnishInv, TypeOK, Noticed
  <2> QED
    BY <2>1, <2>2
<1>5. ReportIsTrue'
  <2> SUFFICES ASSUME NEW q \in Request
               PROVE  /\ passed'[q] \subseteq truth'[q]
                      /\ answer'[q] = "ok" => truth'[q] = Object
    BY DEF ReportIsTrue
  <2>1. /\ passed[q] \subseteq truth[q] /\ truth[q] \subseteq Object
        /\ (answer[q] = "ok" => truth[q] = Object)
    BY DEF FurnishInv, TypeOK, ReportIsTrue
  <2>2. answer'[q] = "ok" => answer[q] = "ok" \/ passed[q] = Object
    BY <1>1 DEF Respond, FurnishInv, TypeOK
  <2> QED
    BY <1>1, <2>1, <2>2
<1> QED
  BY <1>2, <1>3, <1>4, <1>5 DEF FurnishInv

\* No step of a request or of the cluster breaks the invariant.
LEMMA FurnishNext == FurnishInv /\ [Next]_vars => FurnishInv'
<1> SUFFICES ASSUME FurnishInv, [Next]_vars PROVE FurnishInv'
  OBVIOUS
<1>1. CASE UNCHANGED vars
  BY <1>1 DEF vars, clusterVars, clientVars, reqVars, FurnishInv, TypeOK,
              Unserved, Noticed, ReportIsTrue, Shown
<1>2. CASE Next
  BY <1>2, ClusterStep, AcceptStep, UpStep, DownStep, HealthStep, FinishStep
     DEF Next, Serve
<1> QED
  BY <1>1, <1>2

\* The variables of the furnish surface keep their types.
THEOREM FurnishTypeCorrect == Spec => []TypeOK
<1>1. FurnishInv => TypeOK
  BY DEF FurnishInv
<1> QED
  BY <1>1, FurnishInit, FurnishNext, PTL DEF Spec

\* For a piece of any size and any number of requests at a time: what a
\* request reports as applied, removed or GREEN was so, and a 200 stands for
\* the whole piece.
THEOREM ReportsAreTrue == Spec => []ReportIsTrue
<1>1. FurnishInv => ReportIsTrue
  BY DEF FurnishInv
<1> QED
  BY <1>1, FurnishInit, FurnishNext, PTL DEF Spec
=============================================================================
