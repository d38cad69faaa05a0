-------------------------- MODULE StateHomeProofs --------------------------
(***************************************************************************)
(* Proofs about the enablement state home.  FailClosed relates a step to   *)
(* what was stored while the request ran, so the invariant that carries it *)
(* says, of every request that is being served, what its history holds.    *)
(***************************************************************************)
EXTENDS StateHome, TLAPS

\* What a request has passed and been told, according to where it is.
Sound(r) ==
  /\ spc[r] \in {"put", "back"} => ask[r].method = "PUT"
  /\ spc[r] \in {"get", "all"} => ask[r].method = "GET"
  /\ spc[r] \in {"put", "back", "get"} => ask[r].name \in Project
  /\ spc[r] = "all" => ask[r].name = "all"
  /\ spc[r] = "put" => token /\ ask[r].bearer = "right" /\ Validate(ask[r])
  /\ spc[r] = "back" => ask[r].state \in seen[r][ask[r].name]
  /\ spc[r] \in {"idle", "put", "back", "get"} => said[r] = Silent
  /\ spc[r] = "all" => \A p \in Project : said[r][p] = Unread <=> p \in left[r]
  /\ spc[r] \in Working =>
       \A p \in About(ask[r]) : said[r][p] = Unread => stored[p] \in seen[r][p]

\* The inductive invariant: nothing is served but while the daemon is up, so
\* the token a request was let in by is still the daemon's when it writes.
StateInv ==
  /\ StateTypeOK
  /\ lawful
  /\ phase # "up" => \A r \in StateReq : spc[r] = "idle"
  /\ \A r \in StateReq : Sound(r)

\* What FailClosed says of a step.
FailClosedStep == lawful' /\ \A r \in StateReq : ToldWhatWas(r) /\ AnswerIsTrue(r)

-----------------------------------------------------------------------------
\* What the handlers' checks have established when they let a request on, and
\* what they answer when they do not (RequireBearer, Verdict).
LEMMA VerdictFacts ==
  ASSUME NEW a \in Ask
  PROVE  /\ Verdict(a) \in {Pass, 400, 401, 404, 503}
         /\ Verdict(a) = Pass =>
              /\ a.name \in Project \cup {"all"}
              /\ a.method = "PUT" => token /\ a.bearer = "right"
              /\ a.method = "PUT" /\ a.name \in Project => Validate(a)
  <1>1. a.method \in {"GET", "PUT"}  BY DEF Ask
  <1>2. /\ RequireBearer(a.method, a.bearer) \in {Pass, 401, 503}
        /\ RequireBearer(a.method, a.bearer) = Pass /\ a.method = "PUT" =>
             token /\ a.bearer = "right"
    BY <1>1 DEF RequireBearer, Mutating, Pass
  <1>3. QED  BY <1>1, <1>2 DEF Verdict, Pass

\* NoAsk is a request.
LEMMA NoAskIsAsk == NoAsk \in Ask
  BY DEF NoAsk, Ask, Bearer

\* Silent is a body.
LEMMA SilentIsBody ==
  /\ Silent \in [Project -> Record \cup {Unread}]
  /\ \A p \in Project : Silent[p] = Unread
  BY DEF Silent

\* No record is Unread (renderState).
LEMMA RecordIsRead == Unread \notin Record
  BY DEF Unread, Record, State

\* The projects of a request whose name is known are on the roster.
LEMMA AboutProject ==
  ASSUME NEW a, a.name \in Project \cup {"all"}
  PROVE  /\ About(a) \subseteq Project
         /\ a.name \in Project => About(a) = {a.name}
         /\ a.name = "all" => About(a) = Project
  BY StateAssumption DEF About

-----------------------------------------------------------------------------
\* The initial state.
LEMMA InitInv == StateInit => StateInv
  <1> SUFFICES ASSUME StateInit PROVE StateInv  OBVIOUS
  <1>1. StateTypeOK
    BY NoAskIsAsk, SilentIsBody
    DEF StateInit, StateTypeOK, PortInit, PortTypeOK, Record, Working, Pass
  <1>2. ASSUME NEW r \in StateReq PROVE Sound(r)
    BY <1>2 DEF StateInit, Sound, Working
  <1>3. QED  BY <1>1, <1>2 DEF StateInv, StateInit

-----------------------------------------------------------------------------
\* The history keeps its type.
LEMMA MeetType ==
  ASSUME StateTypeOK, Meet, stored' \in [Project -> Record]
  PROVE  seen' \in [StateReq -> [Project -> SUBSET Record]]
  <1>1. ASSUME NEW q \in StateReq, NEW p \in Project
        PROVE  (IF spc'[q] \in Working /\ p \in About(ask[q]) /\ said'[q][p] = Unread
                THEN seen[q][p] \cup {stored'[p]} ELSE {}) \in SUBSET Record
    BY <1>1 DEF StateTypeOK
  <1>2. QED  BY <1>1 DEF Meet

\* What the history of a request holds once Meet has been taken.
LEMMA MeetSeen ==
  ASSUME Meet, NEW q \in StateReq, NEW p \in Project,
         spc'[q] \in Working, p \in About(ask[q]), said'[q][p] = Unread
  PROVE  seen'[q][p] = seen[q][p] \cup {stored'[p]}
  BY DEF Meet

\* A transaction of another request leaves a request as it should be: what was
\* written is added to what it may be told (Put, Get, GetNext).
LEMMA OthersSound ==
  ASSUME StateInv, Meet, NEW q \in StateReq, token' = token,
         spc'[q] = spc[q], ask'[q] = ask[q], left'[q] = left[q], said'[q] = said[q]
  PROVE  Sound(q)' /\ ToldWhatWas(q) /\ AnswerIsTrue(q)
  <1> USE DEF StateInv
  <1>1. Sound(q)  OBVIOUS
  <1>2. ToldWhatWas(q) /\ AnswerIsTrue(q)
    BY DEF ToldWhatWas, AnswerIsTrue, Working
  <1>3. spc[q] \in Working => ask[q].name \in Project \cup {"all"}
    BY <1>1 DEF Sound, Working
  <1>4. spc[q] = "back" => ask[q].state \in seen'[q][ask[q].name]
    <2> SUFFICES ASSUME spc[q] = "back" PROVE ask[q].state \in seen'[q][ask[q].name]
      OBVIOUS
    <2>1. ask[q].name \in Project /\ said[q] = Silent  BY <1>1 DEF Sound
    <2>2. ask[q].name \in About(ask[q])  BY <2>1, AboutProject
    <2>3. seen'[q][ask[q].name] = seen[q][ask[q].name] \cup {stored'[ask[q].name]}
      BY <2>1, <2>2, MeetSeen, SilentIsBody DEF Working
    <2>4. QED  BY <1>1, <2>3 DEF Sound
  <1>5. ASSUME spc[q] \in Working, NEW p \in About(ask[q]), said[q][p] = Unread
        PROVE  stored'[p] \in seen'[q][p]
    <2>1. p \in Project  BY <1>3, <1>5, AboutProject
    <2>2. QED  BY <1>5, <2>1, MeetSeen
  <1>6. About(ask[q])' = About(ask[q]) /\ Validate(ask[q])' = Validate(ask[q])
    BY DEF About, Validate
  <1>7. QED  BY <1>1, <1>2, <1>4, <1>5, <1>6 DEF Sound

\* The answer keeps the types, and touches the request that it answers only.
LEMMA AnswerType ==
  ASSUME StateTypeOK, NEW r \in StateReq,
         NEW s \in {200, 400, 401, 404, 500, 503},
         NEW body \in [Project -> Record \cup {Unread}],
         StateAnswer(r, s, body)
  PROVE  /\ spc' \in [StateReq -> Working \cup {"idle", "answered"}]
         /\ ask' \in [StateReq -> Ask]
         /\ left' \in [StateReq -> SUBSET Project]
         /\ said' \in [StateReq -> [Project -> Record \cup {Unread}]]
         /\ status' \in [StateReq -> {Pass, 200, 400, 401, 404, 500, 503}]
         /\ \A q \in StateReq \ {r} : /\ spc'[q] = spc[q] /\ ask'[q] = ask[q]
                                      /\ left'[q] = left[q] /\ said'[q] = said[q]
         /\ spc'[r] = "answered" /\ status'[r] = s
         /\ said'[r] = IF s = 200 THEN body ELSE Silent
         /\ Sound(r)'
  <1>1. (IF s = 200 THEN body ELSE Silent) \in [Project -> Record \cup {Unread}]
    BY SilentIsBody
  <1>2. /\ spc' \in [StateReq -> Working \cup {"idle", "answered"}]
        /\ ask' \in [StateReq -> Ask]
        /\ left' \in [StateReq -> SUBSET Project]
        /\ status' \in [StateReq -> {Pass, 200, 400, 401, 404, 500, 503}]
    BY NoAskIsAsk DEF StateTypeOK, StateAnswer
  <1>3. said' \in [StateReq -> [Project -> Record \cup {Unread}]]
    BY <1>1 DEF StateTypeOK, StateAnswer
  <1>4. /\ \A q \in StateReq \ {r} : /\ spc'[q] = spc[q] /\ ask'[q] = ask[q]
                                     /\ left'[q] = left[q] /\ said'[q] = said[q]
        /\ spc'[r] = "answered" /\ status'[r] = s
        /\ said'[r] = IF s = 200 THEN body ELSE Silent
    BY DEF StateTypeOK, StateAnswer
  <1>5. Sound(r)'  BY <1>4 DEF Sound, Working
  <1>6. QED  BY <1>2, <1>3, <1>4, <1>5

-----------------------------------------------------------------------------
\* The transaction of a PUT.
LEMMA PutStep ==
  ASSUME StateInv, NEW r \in StateReq, Put(r)
  PROVE  StateInv' /\ FailClosedStep
  <1> USE DEF StateInv
  <1>1. /\ Sound(r) /\ spc[r] = "put" /\ ask[r].name \in Project /\ ask[r] \in Ask
        /\ said[r] = Silent /\ ask[r].method = "PUT"
        /\ token /\ ask[r].bearer = "right" /\ Validate(ask[r])
    BY DEF Put, Sound, StateTypeOK
  <1>2. phase = "up" /\ UNCHANGED <<phase, token, wired>> /\ Meet
    BY <1>1 DEF Put, portVars
  <1>3. ask[r].state \in Record  BY <1>1 DEF Validate, Record
  <1>4. CASE StateAnswer(r, 400, Silent) /\ UNCHANGED <<stored, lawful>>
    <2>1. StateTypeOK'
      BY <1>2, <1>4, AnswerType, SilentIsBody, MeetType DEF StateTypeOK, PortTypeOK
    <2>2. Sound(r)' /\ ToldWhatWas(r) /\ AnswerIsTrue(r)
      BY <1>4, AnswerType, SilentIsBody DEF ToldWhatWas, AnswerIsTrue
    <2>3. ASSUME NEW q \in StateReq \ {r}
          PROVE  Sound(q)' /\ ToldWhatWas(q) /\ AnswerIsTrue(q)
      BY <1>2, <1>4, <2>3, AnswerType, SilentIsBody, OthersSound
    <2>4. QED  BY <1>2, <1>4, <2>1, <2>2, <2>3 DEF FailClosedStep
  <1>5. CASE /\ stored' = [stored EXCEPT ![ask[r].name] = ask[r].state]
             /\ spc' = [spc EXCEPT ![r] = "back"]
             /\ lawful' = (lawful /\ token /\ ask[r].bearer = "right" /\ Validate(ask[r]))
             /\ UNCHANGED <<ask, left, said, status>>
    <2>1. stored' \in [Project -> Record]  BY <1>1, <1>3, <1>5 DEF StateTypeOK
    <2>2. lawful'  BY <1>1, <1>5
    <2>3. spc' \in [StateReq -> Working \cup {"idle", "answered"}]
      BY <1>5 DEF StateTypeOK, Working
    <2>4. StateTypeOK'
      BY <1>2, <1>5, <2>1, <2>2, <2>3, MeetType DEF StateTypeOK, PortTypeOK
    <2>5. /\ spc'[r] = "back" /\ \A q \in StateReq \ {r} : spc'[q] = spc[q]
          /\ stored'[ask[r].name] = ask[r].state
      BY <1>1, <1>5 DEF StateTypeOK
    <2>6. About(ask[r]) = {ask[r].name}  BY <1>1, AboutProject
    <2>7. ask[r].state \in seen'[r][ask[r].name]
      BY <1>1, <1>2, <1>5, <2>5, <2>6, MeetSeen, SilentIsBody DEF Working
    <2>8. Sound(r)'
      BY <1>1, <1>5, <2>5, <2>6, <2>7 DEF Sound, About
    <2>9. ToldWhatWas(r) /\ AnswerIsTrue(r)
      BY <1>1, <1>5, <2>5 DEF ToldWhatWas, AnswerIsTrue
    <2>10. ASSUME NEW q \in StateReq \ {r}
           PROVE  Sound(q)' /\ ToldWhatWas(q) /\ AnswerIsTrue(q)
      BY <1>2, <1>5, <2>5, <2>10, OthersSound
    <2>11. QED  BY <1>2, <2>2, <2>4, <2>8, <2>9, <2>10 DEF FailClosedStep
  <1>6. QED  BY <1>4, <1>5 DEF Put

\* The transaction of a GET, or the one that reads back what a PUT stored.
LEMMA GetStep ==
  ASSUME StateInv, NEW r \in StateReq, Get(r)
  PROVE  StateInv' /\ FailClosedStep
  <1> DEFINE body == [Silent EXCEPT ![ask[r].name] = stored[ask[r].name]]
  <1>1. /\ Sound(r) /\ spc[r] \in {"get", "back"} /\ ask[r].name \in Project
        /\ said[r] = Silent
        /\ spc[r] = "back" => ask[r].state \in seen[r][ask[r].name]
        /\ spc[r] = "get" => ask[r].method = "GET"
    BY DEF StateInv, Get, Sound, StateTypeOK
  <1>2. phase = "up" /\ UNCHANGED <<phase, token, wired, stored, lawful>> /\ Meet
    BY <1>1 DEF StateInv, Get, portVars
  <1>3. /\ body \in [Project -> Record \cup {Unread}]
        /\ body[ask[r].name] = stored[ask[r].name]
        /\ \A p \in Project \ {ask[r].name} : body[p] = Unread
    BY <1>1, SilentIsBody DEF StateInv, StateTypeOK
  <1>4. PICK s \in {200, 500} : StateAnswer(r, s, body)
    BY DEF Get, StateAnswer
  <1> HIDE DEF body
  <1>5. /\ spc'[r] = "answered" /\ status'[r] = s /\ Sound(r)'
        /\ said'[r] = IF s = 200 THEN body ELSE Silent
        /\ \A q \in StateReq \ {r} : /\ spc'[q] = spc[q] /\ ask'[q] = ask[q]
                                     /\ left'[q] = left[q] /\ said'[q] = said[q]
    BY <1>3, <1>4, AnswerType DEF StateInv
  <1>6. StateTypeOK'
    BY <1>2, <1>3, <1>4, AnswerType, MeetType DEF StateInv, StateTypeOK, PortTypeOK
  <1>7. About(ask[r]) = {ask[r].name} /\ stored[ask[r].name] \in Record
    BY <1>1, AboutProject DEF StateInv, StateTypeOK
  <1>8. stored[ask[r].name] \in seen[r][ask[r].name]
    BY <1>1, <1>7, SilentIsBody DEF Sound, Working
  <1>9. ToldWhatWas(r)
    BY <1>3, <1>5, <1>8, SilentIsBody DEF ToldWhatWas
  <1>10. AnswerIsTrue(r)
    BY <1>1, <1>3, <1>5, <1>7, RecordIsRead DEF AnswerIsTrue
  <1>11. ASSUME NEW q \in StateReq \ {r}
         PROVE  Sound(q)' /\ ToldWhatWas(q) /\ AnswerIsTrue(q)
    BY <1>2, <1>5, <1>11, OthersSound
  <1>12. QED
    BY <1>2, <1>5, <1>6, <1>9, <1>10, <1>11 DEF StateInv, FailClosedStep

\* One of the transactions of a GET of the whole roster, or its failure.
LEMMA GetNextStep ==
  ASSUME StateInv, NEW r \in StateReq, GetNext(r)
  PROVE  StateInv' /\ FailClosedStep
  <1>1. /\ spc[r] = "all" /\ ask[r].name = "all" /\ ask[r].method = "GET"
        /\ \A p \in Project : said[r][p] = Unread <=> p \in left[r]
        /\ left[r] \subseteq Project
        /\ said[r] \in [Project -> Record \cup {Unread}]
    BY DEF StateInv, GetNext, Sound, StateTypeOK
  <1>2. phase = "up" /\ UNCHANGED <<phase, token, wired, stored, lawful>> /\ Meet
    BY <1>1 DEF StateInv, GetNext, portVars
  <1>3. About(ask[r]) = Project  BY <1>1, AboutProject
  <1>4. \A p \in left[r] : stored[p] \in seen[r][p] /\ stored[p] \in Record
    BY <1>1, <1>3 DEF StateInv, Sound, StateTypeOK, Working
  <1>5. ASSUME NEW q \in StateReq \ {r},
               spc'[q] = spc[q], ask'[q] = ask[q], left'[q] = left[q], said'[q] = said[q]
        PROVE  Sound(q)' /\ ToldWhatWas(q) /\ AnswerIsTrue(q)
    BY <1>2, <1>5, OthersSound
  <1>6. ASSUME StateAnswer(r, 500, Silent)
        PROVE  StateInv' /\ FailClosedStep
    <2>1. StateTypeOK'
      BY <1>2, <1>6, AnswerType, SilentIsBody, MeetType
      DEF StateInv, StateTypeOK, PortTypeOK
    <2>2. /\ Sound(r)' /\ said'[r] = Silent /\ spc'[r] = "answered" /\ status'[r] = 500
          /\ \A q \in StateReq \ {r} : /\ spc'[q] = spc[q] /\ ask'[q] = ask[q]
                                       /\ left'[q] = left[q] /\ said'[q] = said[q]
      BY <1>6, AnswerType, SilentIsBody DEF StateInv
    <2>3. ToldWhatWas(r) /\ AnswerIsTrue(r)
      BY <2>2, SilentIsBody DEF ToldWhatWas, AnswerIsTrue
    <2>4. QED  BY <1>2, <1>5, <2>1, <2>2, <2>3 DEF StateInv, FailClosedStep
  <1>7. ASSUME NEW p \in left[r], left[r] = {p},
               StateAnswer(r, 200, [said[r] EXCEPT ![p] = stored[p]])
        PROVE  StateInv' /\ FailClosedStep
    <2> DEFINE body == [said[r] EXCEPT ![p] = stored[p]]
    <2>1. /\ body \in [Project -> Record \cup {Unread}]
          /\ body[p] = stored[p] /\ \A o \in Project \ {p} : body[o] = said[r][o]
      BY <1>1, <1>4, <1>7
    <2>2. StateAnswer(r, 200, body)  BY <1>7
    <2> HIDE DEF body
    <2>3. StateTypeOK'
      BY <1>2, <2>1, <2>2, AnswerType, MeetType DEF StateInv, StateTypeOK, PortTypeOK
    <2>4. /\ Sound(r)' /\ said'[r] = body /\ spc'[r] = "answered" /\ status'[r] = 200
          /\ \A q \in StateReq \ {r} : /\ spc'[q] = spc[q] /\ ask'[q] = ask[q]
                                       /\ left'[q] = left[q] /\ said'[q] = said[q]
      BY <2>1, <2>2, AnswerType DEF StateInv
    <2>5. ToldWhatWas(r)
      BY <1>4, <1>7, <2>1, <2>4 DEF ToldWhatWas
    <2>6. AnswerIsTrue(r)
      BY <1>1, <1>3, <1>4, <1>7, <2>1, <2>4, RecordIsRead DEF AnswerIsTrue
    <2>7. QED  BY <1>2, <1>5, <2>3, <2>4, <2>5, <2>6 DEF StateInv, FailClosedStep
  <1>8. ASSUME NEW p \in left[r], left[r] # {p},
               left' = [left EXCEPT ![r] = @ \ {p}],
               said' = [said EXCEPT ![r][p] = stored[p]],
               UNCHANGED <<spc, ask, status>>
        PROVE  StateInv' /\ FailClosedStep
    <2>1. /\ left' \in [StateReq -> SUBSET Project] /\ left'[r] = left[r] \ {p}
          /\ \A q \in StateReq \ {r} : left'[q] = left[q]
      BY <1>8 DEF StateInv, StateTypeOK
    <2>2. /\ said' \in [StateReq -> [Project -> Record \cup {Unread}]]
          /\ said'[r][p] = stored[p]
          /\ \A o \in Project \ {p} : said'[r][o] = said[r][o]
          /\ \A q \in StateReq \ {r} : said'[q] = said[q]
      BY <1>1, <1>4, <1>8 DEF StateInv, StateTypeOK
    <2>3. StateTypeOK'
      BY <1>2, <1>8, <2>1, <2>2, MeetType DEF StateInv, StateTypeOK, PortTypeOK
    <2>4. ASSUME NEW o \in Project, said'[r][o] = Unread
          PROVE  stored'[o] \in seen'[r][o]
      BY <1>1, <1>2, <1>3, <1>8, <2>4, MeetSeen DEF Working
    <2>5. \A o \in Project : said'[r][o] = Unread <=> o \in left'[r]
      BY <1>1, <1>4, <2>1, <2>2, RecordIsRead
    <2>6. About(ask[r])' = Project  BY <1>3, <1>8 DEF About
    <2>7. Sound(r)'
      BY <1>1, <1>8, <2>4, <2>5, <2>6 DEF Sound
    <2>8. ToldWhatWas(r) /\ AnswerIsTrue(r)
      BY <1>1, <1>4, <1>8, <2>2 DEF ToldWhatWas, AnswerIsTrue
    <2>9. ASSUME NEW q \in StateReq \ {r}
          PROVE  Sound(q)' /\ ToldWhatWas(q) /\ AnswerIsTrue(q)
      BY <1>5, <1>8, <2>1, <2>2, <2>9
    <2>10. QED  BY <1>1, <1>2, <1>8, <2>3, <2>7, <2>8, <2>9 DEF StateInv, FailClosedStep
  <1>9. QED  BY <1>6, <1>7, <1>8 DEF GetNext

\* A request that arrives, and is refused or let on.
LEMMA ArriveStep ==
  ASSUME StateInv, NEW r \in StateReq, StateArrive(r)
  PROVE  StateInv' /\ FailClosedStep
  <1>1. /\ phase = "up" /\ spc[r] = "idle" /\ said[r] = Silent
        /\ UNCHANGED <<phase, token, stored, wired, lawful>>
    BY DEF StateInv, StateArrive, Sound, portVars
  <1>2. ASSUME NEW q \in StateReq, spc'[q] = spc[q], ask'[q] = ask[q],
               left'[q] = left[q], said'[q] = said[q], seen'[q] = seen[q]
        PROVE  Sound(q)' /\ ToldWhatWas(q) /\ AnswerIsTrue(q)
    <2>1. About(ask[q])' = About(ask[q]) /\ Validate(ask[q])' = Validate(ask[q])
      BY <1>2 DEF About, Validate
    <2>2. Sound(q)'  BY <1>1, <1>2, <2>1 DEF StateInv, Sound
    <2>3. QED  BY <1>2, <2>2 DEF ToldWhatWas, AnswerIsTrue, Working
  <1>3. PICK a \in Ask :
          /\ Route(a)
          /\ \/ /\ Verdict(a) # Pass
                /\ StateAnswer(r, Verdict(a), Silent)
                /\ UNCHANGED seen
             \/ /\ Verdict(a) = Pass
                /\ spc' = [spc EXCEPT ![r] = CASE a.name = "all" -> "all"
                                               [] a.method = "PUT" -> "put"
                                               [] OTHER -> "get"]
                /\ ask' = [ask EXCEPT ![r] = a]
                /\ left' = [left EXCEPT ![r] = IF a.name = "all" THEN Project ELSE {}]
                /\ seen' = [seen EXCEPT ![r] =
                              [p \in Project |-> IF p \in About(a) THEN {stored[p]} ELSE {}]]
                /\ UNCHANGED <<said, status>>
    BY DEF StateArrive
  <1>4. CASE Verdict(a) # Pass
    <2> DEFINE s == Verdict(a)
    <2>1. s \in {400, 401, 404, 503} /\ StateAnswer(r, s, Silent) /\ UNCHANGED seen
      BY <1>3, <1>4, VerdictFacts
    <2> HIDE DEF s
    <2>2. StateTypeOK'
      BY <1>1, <2>1, AnswerType, SilentIsBody DEF StateInv, StateTypeOK, PortTypeOK
    <2>3. /\ Sound(r)' /\ said'[r] = Silent /\ spc'[r] = "answered"
          /\ \A q \in StateReq \ {r} : /\ spc'[q] = spc[q] /\ ask'[q] = ask[q]
                                       /\ left'[q] = left[q] /\ said'[q] = said[q]
      BY <2>1, AnswerType, SilentIsBody DEF StateInv
    <2>4. ToldWhatWas(r) /\ AnswerIsTrue(r)
      BY <1>1, <2>3, SilentIsBody DEF ToldWhatWas, AnswerIsTrue, Working
    <2>5. QED
      BY <1>1, <1>2, <2>1, <2>2, <2>3, <2>4 DEF StateInv, FailClosedStep
  <1>5. CASE Verdict(a) = Pass
    <2>1. /\ a.name \in Project \cup {"all"}
          /\ a.method = "PUT" => /\ token /\ a.bearer = "right"
                                 /\ a.name \in Project /\ Validate(a)
          /\ a.method \in {"GET", "PUT"}
      BY <1>3, <1>5, VerdictFacts DEF Route, Ask
    <2>2. /\ a.name = "all" => spc'[r] = "all" /\ a.method = "GET"
          /\ a.name # "all" /\ a.method = "PUT" => spc'[r] = "put"
          /\ a.name # "all" /\ a.method = "GET" => spc'[r] = "get"
          /\ spc' \in [StateReq -> Working \cup {"idle", "answered"}]
          /\ \A q \in StateReq \ {r} : spc'[q] = spc[q]
      BY <1>3, <1>5, <2>1, StateAssumption DEF StateInv, StateTypeOK, Working
    <2>3. /\ ask'[r] = a /\ ask' \in [StateReq -> Ask]
          /\ left'[r] = (IF a.name = "all" THEN Project ELSE {})
          /\ left' \in [StateReq -> SUBSET Project]
          /\ said' = said /\ status' = status
          /\ \A q \in StateReq \ {r} : ask'[q] = ask[q] /\ left'[q] = left[q]
      <3>1. /\ ask' = [ask EXCEPT ![r] = a] /\ said' = said /\ status' = status
            /\ left' = [left EXCEPT ![r] = IF a.name = "all" THEN Project ELSE {}]
            /\ ask \in [StateReq -> Ask] /\ left \in [StateReq -> SUBSET Project]
        BY <1>3, <1>5 DEF StateInv, StateTypeOK
      <3>2. (IF a.name = "all" THEN Project ELSE {}) \in SUBSET Project  OBVIOUS
      <3>3. QED  BY <3>1, <3>2
    <2>4. /\ \A p \in About(a) \cap Project : seen'[r][p] = {stored[p]}
          /\ \A q \in StateReq \ {r} : seen'[q] = seen[q]
      BY <1>3, <1>5 DEF StateInv, StateTypeOK
    <2>5. [p \in Project |-> IF p \in About(a) THEN {stored[p]} ELSE {}]
            \in [Project -> SUBSET Record]
      BY DEF StateInv, StateTypeOK
    <2>6. seen' \in [StateReq -> [Project -> SUBSET Record]]
      <3> DEFINE met == [p \in Project |-> IF p \in About(a) THEN {stored[p]} ELSE {}]
      <3>1. /\ seen' = [seen EXCEPT ![r] = met] /\ met \in [Project -> SUBSET Record]
            /\ seen \in [StateReq -> [Project -> SUBSET Record]]
        BY <1>3, <1>5, <2>5 DEF StateInv, StateTypeOK
      <3> HIDE DEF met
      <3>2. QED  BY <3>1
    <2>7. StateTypeOK'
      BY <1>1, <2>2, <2>3, <2>6 DEF StateInv, StateTypeOK, PortTypeOK
    <2>8. /\ About(a) \subseteq Project /\ About(ask[r])' = About(a)
          /\ Validate(ask[r])' = Validate(a)
      BY <2>1, <2>3, AboutProject DEF About, Validate
    <2>9. Sound(r)'
      BY <1>1, <2>1, <2>2, <2>3, <2>4, <2>8, SilentIsBody DEF Sound
    <2>10. ToldWhatWas(r) /\ AnswerIsTrue(r)
      BY <1>1, <2>3 DEF ToldWhatWas, AnswerIsTrue, Working
    <2>11. QED
      BY <1>1, <1>2, <2>2, <2>3, <2>4, <2>7, <2>9, <2>10 DEF StateInv, FailClosedStep
  <1>6. QED  BY <1>4, <1>5

\* The client takes the answer.
LEMMA ReleaseStep ==
  ASSUME StateInv, NEW r \in StateReq, StateRelease(r)
  PROVE  StateInv' /\ FailClosedStep
  <1>1. /\ phase = "up" /\ spc[r] = "answered"
        /\ UNCHANGED <<phase, token, stored, wired, ask, left, seen, lawful>>
    BY DEF StateInv, StateRelease, portVars
  <1>2. /\ spc' \in [StateReq -> Working \cup {"idle", "answered"}]
        /\ status' \in [StateReq -> {Pass, 200, 400, 401, 404, 500, 503}]
        /\ spc'[r] = "idle" /\ \A q \in StateReq \ {r} : spc'[q] = spc[q]
    BY DEF StateInv, StateTypeOK, StateRelease
  <1>3. /\ said' \in [StateReq -> [Project -> Record \cup {Unread}]]
        /\ said'[r] = Silent /\ \A q \in StateReq \ {r} : said'[q] = said[q]
    BY SilentIsBody DEF StateInv, StateTypeOK, StateRelease
  <1>4. StateTypeOK'
    BY <1>1, <1>2, <1>3 DEF StateInv, StateTypeOK, PortTypeOK
  <1>5. Sound(r)' /\ ToldWhatWas(r) /\ AnswerIsTrue(r)
    BY <1>2, <1>3, SilentIsBody DEF Sound, ToldWhatWas, AnswerIsTrue, Working
  <1>6. ASSUME NEW q \in StateReq \ {r}
        PROVE  Sound(q)' /\ ToldWhatWas(q) /\ AnswerIsTrue(q)
    <2>1. Sound(q)
      BY <1>6 DEF StateInv
    <2>2. About(ask[q])' = About(ask[q]) /\ Validate(ask[q])' = Validate(ask[q])
      BY <1>1 DEF About, Validate
    <2>3. Sound(q)'  BY <1>1, <1>2, <1>3, <2>1, <2>2 DEF Sound
    <2>4. QED
      BY <1>2, <1>3, <2>3 DEF ToldWhatWas, AnswerIsTrue, Working
  <1>7. QED  BY <1>1, <1>4, <1>5, <1>6 DEF StateInv, FailClosedStep

\* The daemon boots, serves, or ends.
LEMMA DaemonStep ==
  ASSUME StateInv, StateBoot \/ StateListen \/ StateDie
  PROVE  StateInv' /\ FailClosedStep
  <1>1. CASE StateBoot \/ StateListen
    <2>1. /\ UNCHANGED <<stored, spc, ask, left, said, status, seen, lawful>>
          /\ \A r \in StateReq : spc[r] = "idle"
          /\ phase' \in {"boot", "up"} /\ token' \in BOOLEAN /\ wired' \in BOOLEAN
      BY <1>1 DEF StateInv, StateBoot, StateListen, LoadControlToken, ListenAndServe,
                  stateReqVars, StateTypeOK, PortTypeOK
    <2>2. StateTypeOK'  BY <2>1 DEF StateInv, StateTypeOK, PortTypeOK
    <2>3. ASSUME NEW r \in StateReq
          PROVE  Sound(r)' /\ ToldWhatWas(r) /\ AnswerIsTrue(r)
      BY <2>1, <2>3 DEF StateInv, Sound, ToldWhatWas, AnswerIsTrue, Working
    <2>4. QED  BY <2>1, <2>2, <2>3 DEF StateInv, FailClosedStep
  <1>2. CASE StateDie
    <2>1. /\ phase' = "down" /\ token' = FALSE /\ wired' = FALSE
          /\ UNCHANGED <<stored, lawful>>
          /\ spc' = [r \in StateReq |-> "idle"]
          /\ ask' = [r \in StateReq |-> NoAsk]
          /\ left' = [r \in StateReq |-> {}]
          /\ said' = [r \in StateReq |-> Silent]
          /\ status' = [r \in StateReq |-> Pass]
          /\ seen' = [r \in StateReq |-> [p \in Project |-> {}]]
      BY <1>2 DEF StateDie, Die
    <2>2. StateTypeOK'
      BY <2>1, NoAskIsAsk, SilentIsBody DEF StateInv, StateTypeOK, PortTypeOK
    <2>3. ASSUME NEW r \in StateReq
          PROVE  Sound(r)' /\ ToldWhatWas(r) /\ AnswerIsTrue(r)
      BY <2>1, <2>3, SilentIsBody DEF Sound, ToldWhatWas, AnswerIsTrue, Working
    <2>4. QED  BY <2>1, <2>2, <2>3 DEF StateInv, FailClosedStep
  <1>3. QED  BY <1>1, <1>2

\* Every step of the state home keeps the invariant and is one FailClosed
\* allows.
LEMMA NextStep ==
  ASSUME StateInv, [StateNext]_stateVars
  PROVE  StateInv' /\ [FailClosedStep]_stateVars
  <1>1. CASE StateNext
    BY <1>1, PutStep, GetStep, GetNextStep, ArriveStep, ReleaseStep, DaemonStep
    DEF StateNext
  <1>2. CASE UNCHANGED stateVars
    BY <1>2 DEF stateVars, stateReqVars, portVars, StateInv, StateTypeOK, PortTypeOK,
                Sound, About, Validate
  <1>3. QED  BY <1>1, <1>2

\* The store, the requests in flight and their answers always have their types
\* (Store.Put, Store.Get, the /state handlers).
THEOREM StateTypeCorrect == StateSpec => []StateTypeOK
  <1>1. StateInv => StateTypeOK  BY DEF StateInv
  <1>2. QED  BY InitInv, NextStep, <1>1, PTL DEF StateSpec

\* The state home fails closed (renderState, handleStateAll, handleStatePut),
\* for any roster and any number of requests in flight.
THEOREM StateFailsClosed == StateSpec => FailClosed
  <1>1. QED  BY InitInv, NextStep, PTL DEF StateSpec, FailClosed, FailClosedStep
=============================================================================
