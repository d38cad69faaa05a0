----------------------------- MODULE StateHome -----------------------------
(***************************************************************************)
(* The enablement state home: pkg/enablement/enablement.go, whose bbolt    *)
(* transactions are each one step, and the /state handlers of              *)
(* pkg/httpapi/enablement.go, which make one or several of them.           *)
(***************************************************************************)
EXTENDS ControlPort

CONSTANTS Project,    \* the roster
          Stranger,   \* a name that is not on it
          StateReq    \* slots for requests that are served at a time

ASSUME StateAssumption == Stranger \notin Project /\ "all" \notin Project \cup {Stranger}

VARIABLES stored,     \* the bucket: each project's record
          wired,      \* enablement.Open succeeded and UseEnablement was called
          spc,        \* where each request is
          ask,        \* what it asks
          left,       \* the projects a GET /state has still to read
          said,       \* the body: what it says of each project
          status,     \* the status it was answered with
          seen,       \* history: what each project's state was meanwhile
          lawful      \* history: every write was let in by the gate and valid

stateReqVars == <<spc, ask, left, said, status, seen>>
stateVars == <<portVars, stored, wired, stateReqVars, lawful>>

State == {"enabled", "disabled"}

\* What the bucket has for a project: a record, of which the state matters, or
\* none, which renderState shows as disabled and not recorded.
Record == State \cup {"unrecorded"}

\* Nothing was said of the project.
Unread == "unread"

\* Says nothing of any project.
Silent == [p \in Project |-> Unread]

\* A request to /state, with what of its body decides anything.
Ask == [method : {"GET", "PUT"}, name : Project \cup {Stranger, "all"},
        state : State \cup {"other"}, reason : BOOLEAN, actor : BOOLEAN,
        parses : BOOLEAN, bearer : Bearer]

NoAsk == [method |-> "GET", name |-> "all", state |-> "other", reason |-> FALSE,
          actor |-> FALSE, parses |-> FALSE, bearer |-> "missing"]

\* There is no PUT for the whole roster.  What nobody looks at is fixed: the
\* bearer and body of a GET, the reason for enabling.
Route(a) ==
  /\ a.method = "PUT" => a.name # "all"
  /\ a.method = "GET" => a = [NoAsk EXCEPT !.name = a.name]
  /\ a.state # "disabled" => ~a.reason

StateInit ==
  /\ PortInit
  /\ stored = [p \in Project |-> "unrecorded"]
  /\ wired = FALSE
  /\ spc = [r \in StateReq |-> "idle"]
  /\ ask = [r \in StateReq |-> NoAsk]
  /\ left = [r \in StateReq |-> {}]
  /\ said = [r \in StateReq |-> Silent]
  /\ status = [r \in StateReq |-> Pass]
  /\ seen = [r \in StateReq |-> [p \in Project |-> {}]]
  /\ lawful = TRUE

-----------------------------------------------------------------------------
\* Record.Validate; the project is never empty, it comes from the path.
Validate(a) ==
  /\ a.state \in State
  /\ a.state = "disabled" => a.reason
  /\ a.actor

\* What the handlers check before they touch the store: the gate, a store at
\* all, the roster, the body, the record.
Verdict(a) ==
  LET gate == RequireBearer(a.method, a.bearer) IN
  CASE gate # Pass -> gate
    [] gate = Pass /\ ~wired -> 503
    [] gate = Pass /\ wired /\ a.name \notin Project \cup {"all"} -> 404
    [] gate = Pass /\ wired /\ a.name \in Project /\ a.method = "PUT"
         /\ ~(a.parses /\ Validate(a)) -> 400
    [] OTHER -> Pass

\* The projects a request is about.
About(a) == IF a.name = "all" THEN Project ELSE {a.name}

Working == {"put", "back", "get", "all"}

\* The answer goes out; an error's body says nothing of any project.
StateAnswer(r, s, body) ==
  /\ spc' = [spc EXCEPT ![r] = "answered"]
  /\ ask' = [ask EXCEPT ![r] = NoAsk]
  /\ left' = [left EXCEPT ![r] = {}]
  /\ status' = [status EXCEPT ![r] = s]
  /\ said' = [said EXCEPT ![r] = IF s = 200 THEN body ELSE Silent]

\* History: what a request may still be told of the projects it has not read.
Meet ==
  seen' = [r \in StateReq |->
             [p \in Project |->
                IF spc'[r] \in Working /\ p \in About(ask[r]) /\ said'[r][p] = Unread
                THEN seen[r][p] \cup {stored'[p]} ELSE {}]]

\* A request arrives and is refused or goes on to its first transaction.
StateArrive(r) ==
  /\ phase = "up"
  /\ spc[r] = "idle"
  /\ \E a \in Ask :
       /\ Route(a)
       /\ \/ /\ Verdict(a) # Pass
             /\ StateAnswer(r, Verdict(a), Silent)
             /\ UNCHANGED seen
          \/ /\ Verdict(a) = Pass
             /\ spc' = [spc EXCEPT ![r] = CASE a.name = "all" -> "all"
                                            [] a.method = "PUT" -> "put"
                                            [] OTHER -> "get"]
             /\ ask' = [ask EXCEPT ![r] = a]
             /\ left' = [left EXCEPT ![r] = IF a.name = "all" THEN Project ELSE {}]
             /\ seen' = [seen EXCEPT ![r] = [p \in Project |-> IF p \in About(a) THEN {stored[p]} ELSE {}]]
             /\ UNCHANGED <<said, status>>
  /\ UNCHANGED <<portVars, stored, wired, lawful>>

\* Store.Put: last write wins.  A transaction that fails is answered like
\* invalid input, with 400.
Put(r) ==
  /\ spc[r] = "put"
  /\ \/ /\ stored' = [stored EXCEPT ![ask[r].name] = ask[r].state]
        /\ spc' = [spc EXCEPT ![r] = "back"]
        /\ lawful' = (lawful /\ token /\ ask[r].bearer = "right" /\ Validate(ask[r]))
        /\ UNCHANGED <<ask, left, said, status>>
     \/ /\ StateAnswer(r, 400, Silent)
        /\ UNCHANGED <<stored, lawful>>
  /\ UNCHANGED <<portVars, wired>>
  /\ Meet

\* Store.Get, of a GET or to read back what a PUT has stored: a transaction
\* of its own, which answers with the record of whoever wrote last.
Get(r) ==
  /\ spc[r] \in {"get", "back"}
  /\ \/ StateAnswer(r, 200, [Silent EXCEPT ![ask[r].name] = stored[ask[r].name]])
     \/ StateAnswer(r, 500, Silent)
  /\ UNCHANGED <<portVars, stored, wired, lawful>>
  /\ Meet

\* Mutant: an error of Get is taken for a record that is not there.
GetNextLeniently(r) ==
  /\ spc[r] = "all"
  /\ \E p \in left[r] : \E v \in {stored[p], "unrecorded"} :
       \/ /\ left[r] # {p}
          /\ left' = [left EXCEPT ![r] = @ \ {p}]
          /\ said' = [said EXCEPT ![r][p] = v]
          /\ UNCHANGED <<spc, ask, status>>
       \/ /\ left[r] = {p}
          /\ StateAnswer(r, 200, [said[r] EXCEPT ![p] = v])
  /\ UNCHANGED <<portVars, stored, wired, lawful>>
  /\ Meet

\* handleStateAll reads one project per transaction, in the roster's order,
\* which is left open here.  One that fails ends the request.
GetNext(r) ==
  /\ spc[r] = "all"
  /\ \/ \E p \in left[r] :
          \/ /\ left[r] # {p}
             /\ left' = [left EXCEPT ![r] = @ \ {p}]
             /\ said' = [said EXCEPT ![r][p] = stored[p]]
             /\ UNCHANGED <<spc, ask, status>>
          \/ /\ left[r] = {p}
             /\ StateAnswer(r, 200, [said[r] EXCEPT ![p] = stored[p]])
     \/ StateAnswer(r, 500, Silent)
  /\ UNCHANGED <<portVars, stored, wired, lawful>>
  /\ Meet

\* The client has the answer, and the slot is free.
StateRelease(r) ==
  /\ spc[r] = "answered"
  /\ spc' = [spc EXCEPT ![r] = "idle"]
  /\ said' = [said EXCEPT ![r] = Silent]
  /\ status' = [status EXCEPT ![r] = Pass]
  /\ UNCHANGED <<portVars, stored, wired, ask, left, seen, lawful>>

-----------------------------------------------------------------------------
\* enablement.Open may fail, and the daemon comes up without the store.
StateBoot ==
  /\ LoadControlToken
  /\ wired' \in BOOLEAN
  /\ UNCHANGED <<stored, stateReqVars, lawful>>

StateListen == ListenAndServe /\ UNCHANGED <<stored, wired, stateReqVars, lawful>>

\* The requests in flight go with the process; the bucket is on disk.
StateDie ==
  /\ Die
  /\ wired' = FALSE
  /\ spc' = [r \in StateReq |-> "idle"]
  /\ ask' = [r \in StateReq |-> NoAsk]
  /\ left' = [r \in StateReq |-> {}]
  /\ said' = [r \in StateReq |-> Silent]
  /\ status' = [r \in StateReq |-> Pass]
  /\ seen' = [r \in StateReq |-> [p \in Project |-> {}]]
  /\ UNCHANGED <<stored, lawful>>

StateNext ==
  \/ StateBoot \/ StateListen \/ StateDie
  \/ \E r \in StateReq :
       StateArrive(r) \/ Put(r) \/ Get(r) \/ GetNext(r) \/ StateRelease(r)

StateSpec == StateInit /\ [][StateNext]_stateVars

-----------------------------------------------------------------------------
\* The store, the requests and their answers keep their types.
StateTypeOK ==
  /\ PortTypeOK
  /\ stored \in [Project -> Record]
  /\ wired \in BOOLEAN
  /\ spc \in [StateReq -> Working \cup {"idle", "answered"}]
  /\ ask \in [StateReq -> Ask]
  /\ left \in [StateReq -> SUBSET Project]
  /\ said \in [StateReq -> [Project -> Record \cup {Unread}]]
  /\ status \in [StateReq -> {Pass, 200, 400, 401, 404, 500, 503}]
  /\ seen \in [StateReq -> [Project -> SUBSET Record]]
  /\ lawful \in BOOLEAN

\* What a request may be told by a step.
ToldWhatWas(r) ==
  \A p \in Project : said'[r][p] \in seen[r][p] \cup {said[r][p], Unread}

\* What the answer of a request that touched the store amounts to.
AnswerIsTrue(r) ==
  spc[r] \in Working /\ spc'[r] = "answered" =>
    IF status'[r] # 200 THEN said'[r] = Silent
    ELSE /\ \A p \in About(ask[r]) : said'[r][p] # Unread
         /\ ask[r].method = "PUT" => ask[r].state \in seen[r][ask[r].name]

\* The state home fails closed: whatever a 200 says of a project was the
\* project's stored state at a moment of the request, through racing writers
\* and failing transactions, and it speaks of every project it was asked for
\* (renderState, handleStateAll); a PUT's 200 means that what it asked for was
\* stored meanwhile, even when the body is a later writer's; an error says
\* nothing; and no write is made but by a valid record that passed the gate.
FailClosed ==
  [][lawful' /\ \A r \in StateReq : ToldWhatWas(r) /\ AnswerIsTrue(r)]_stateVars
=============================================================================
