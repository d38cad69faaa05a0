---------------------------- MODULE ModelHosting ----------------------------
(***************************************************************************)
(* `delightd model': the deployment set of pkg/model, the plans that up    *)
(* and down print (lifecycle.go), whose steps the operator runs by hand on *)
(* a host that others use too, and the health ladder (ladder.go), which    *)
(* looks at one rung after another.  One command is followed at a time;    *)
(* the commands of other operators are among the things the host does.     *)
(***************************************************************************)
EXTENDS Naturals, Sequences

CONSTANTS Location,      \* where weights are: paths, and tags of ollama
          IsPath,        \* those that IsHFCacheLocation takes for paths
          Port,          \* ports, as numbers
          OllamaPort,    \* the one that ollama listens on
          DeploymentFile,  \* what model-deployments.yaml may hold
          Occurs(_, _)   \* the first location's text occurs in the second's

VARIABLES deployments,   \* what the file holds
          weights,       \* the paths with weights on disk
          ollama,        \* ollama answers
          tags,          \* its registered models
          ram,           \* its loaded models
          server,        \* [port -> the weights that llama-server serves there]
          away,          \* the ports at which other hosts answer
          command,       \* "none", "up", "down" or "health"
          about,         \* the descriptor of a plan
          todo,          \* the steps or rungs that are left
          tiers,         \* the rungs that were assessed
          verdict,       \* "none", "ok" or "failed"
          calm,          \* history: nobody else changed the host meanwhile
          was,           \* history: the host as the command found it
          lit            \* history: rungs that were so at a moment of it

hostVars == <<weights, ollama, tags, ram, server, away>>
commandVars == <<command, about, todo, tiers, verdict, calm, was, lit>>
hostingVars == <<deployments, hostVars, commandVars>>

\* A descriptor; its role and context window only matter to Validate.  The host
\* of its route is a name of this one ("here") or of another.
Backend == {"ollama", "xinference", "llama-cpp", "transformers"}
Architecture == {"encode", "encode-decode", "decode"}

NoDeployment == [name |-> "none", location |-> "none", arch |-> "none",
                 backend |-> "none", host |-> "none", port |-> 0, sound |-> FALSE]

\* The file cannot be opened, or has unknown fields.
Unreadable == <<NoDeployment>>

\* A set that can be read names places and ports there are.
ASSUME HostingAssumption ==
  /\ IsPath \subseteq Location /\ "none" \notin Location
  /\ OllamaPort \in Port
  /\ \A l \in Location : Occurs(l, l)
  /\ \A f \in DeploymentFile \ {Unreadable} :
       f \in Seq([name : STRING, location : Location, arch : STRING, backend : STRING,
                 host : STRING, port : Port, sound : BOOLEAN])

\* HealthState, whose order is its severity.
Green == 1
Red == 3

Host == [tags |-> tags, ram |-> ram, server |-> server]
NoHost == [tags |-> {}, ram |-> {}, server |-> [p \in Port |-> "none"]]

HostingInit ==
  /\ deployments \in DeploymentFile
  /\ weights = IsPath
  /\ ollama = TRUE /\ tags = {} /\ ram = {}
  /\ server = [p \in Port |-> "none"] /\ away = {}
  /\ command = "none" /\ about = NoDeployment /\ todo = <<>> /\ tiers = {}
  /\ verdict = "none" /\ calm = TRUE /\ was = NoHost /\ lit = {}

-----------------------------------------------------------------------------
\* DeploymentDescriptor.Validate; `sound' stands for the checks on a field by
\* itself: nothing blank, the role, the context window.
ValidDescriptor(d) ==
  /\ d.sound
  /\ d.arch \in Architecture /\ d.backend \in Backend
  /\ d.port \in 1 .. 65535
  /\ d.backend = "ollama" => d.arch = "decode"

\* LoadDeploymentSet: all of the set or nothing of it.
LoadDeploymentSet ==
  /\ \A i \in DOMAIN deployments : ValidDescriptor(deployments[i])
  /\ \A i, j \in DOMAIN deployments : deployments[i].name = deployments[j].name => i = j

Step(do, d) == [do |-> do, loc |-> d.location, port |-> d.port]

BringUp(d) ==
  CASE d.backend = "ollama" -> <<Step("register", d), Step("warm", d)>>
    [] d.backend = "transformers" -> <<Step("test", d)>>
    [] d.backend = "llama-cpp" -> <<Step("serve", d)>>
    [] OTHER -> <<Step("comment", d)>>

Teardown(d) ==
  CASE d.backend = "ollama" -> <<Step("stop", d)>>
    [] d.backend = "llama-cpp" -> <<Step("pkill", d)>>
    [] OTHER -> <<Step("comment", d)>>

\* The rungs of Ladders, in order.
Rungs(ds) ==
  [k \in 1 .. 2 * Len(ds) |->
     <<ds[(k + 1) \div 2], IF k % 2 = 1 THEN "declared" ELSE "reachable">>]

\* Somebody listens at the host and port of the route, whoever it is.
Answers(d) ==
  IF d.host = "here" THEN server[d.port] # "none" \/ (ollama /\ d.port = OllamaPort)
  ELSE d.port \in away

\* What os.Stat and, at HealthURL, ProbeURL find; any answer counts.
Stands(rung) ==
  LET d == rung[1] IN
  CASE rung[2] = "declared" -> d.location \in IsPath => d.location \in weights
    [] OTHER -> Answers(d)

\* Mutant: the best rung wins.
BestState(states) == IF states = {} THEN 0 ELSE CHOOSE s \in states : \A t \in states : s <= t

\* worstState.
WorstState(states) == IF states = {} THEN 0 ELSE CHOOSE s \in states : \A t \in states : s >= t

\* Nothing is RED overall.
Healthy(results) ==
  \A d \in {t.of : t \in results} :
    WorstState({t.state : t \in {u \in results : u.of = d}}) # Red

-----------------------------------------------------------------------------
\* A command that ends before it did anything: the set does not load (then
\* every command does), or the deployment is not in it.
Refuse ==
  /\ verdict' = "failed"
  /\ UNCHANGED <<about, todo, lit>>

\* up and down print the plan for the deployment that ByName finds, and the
\* operator starts on its steps.
Plan(c) ==
  /\ command = "none"
  /\ c \in {"up", "down"}
  /\ command' = c
  /\ \/ Refuse
     \/ /\ LoadDeploymentSet
        /\ \E i \in DOMAIN deployments :
             /\ about' = deployments[i]
             /\ todo' = IF c = "up" THEN BringUp(about') ELSE Teardown(about')
        /\ UNCHANGED <<verdict, lit>>
  /\ was' = Host
  /\ UNCHANGED <<deployments, hostVars, tiers, calm>>

\* health, of one deployment or of all; of an empty set all is well.
Health ==
  /\ command = "none"
  /\ command' = "health"
  /\ \/ Refuse
     \/ /\ LoadDeploymentSet
        /\ \/ todo' = Rungs(deployments)
           \/ \E i \in DOMAIN deployments : todo' = Rungs(<<deployments[i]>>)
        /\ lit' = {todo'[i] : i \in {j \in DOMAIN todo' : Stands(todo'[j])}}
        /\ verdict' = IF todo' = <<>> THEN "ok" ELSE "none"
        /\ UNCHANGED about
  /\ UNCHANGED <<deployments, hostVars, tiers, calm, was>>

\* The operator is through with a step that worked, or stops at one that did
\* not.
StepEnds(ok) ==
  /\ todo' = IF ok THEN Tail(todo) ELSE <<>>
  /\ verdict' = CASE ~ok -> "failed" [] ok /\ Len(todo) = 1 -> "ok" [] OTHER -> "none"
  /\ UNCHANGED <<deployments, weights, ollama, away, command, about, tiers, calm, was, lit>>

\* llama-server can listen on the port.
PortFree(p) == server[p] = "none" /\ ~(ollama /\ p = OllamaPort)

\* A port whose number begins with the other's: what pkill -f 'port n' matches.
Begins(p, q) == p = q \/ \E k \in {10, 100, 1000, 10000} : q \div k = p

\* A step of a plan in the operator's shell; each may also fail.
RunStep ==
  LET s == Head(todo) IN
  /\ command \in {"up", "down"} /\ todo # <<>>
  /\ \/ StepEnds(FALSE) /\ UNCHANGED <<tags, ram, server>>
     \/ /\ s.do = "register" /\ ollama
        /\ tags' = IF \E t \in tags : Occurs(s.loc, t) THEN tags ELSE tags \cup {s.loc}
        /\ StepEnds(TRUE) /\ UNCHANGED <<ram, server>>
     \/ /\ s.do = "warm" /\ ollama
        /\ \/ (\E t \in ram : Occurs(s.loc, t)) /\ UNCHANGED ram
           \/ (\A t \in ram : ~Occurs(s.loc, t)) /\ s.loc \in tags /\ ram' = ram \cup {s.loc}
        /\ StepEnds(TRUE) /\ UNCHANGED <<tags, server>>
     \/ /\ s.do = "stop" /\ ollama
        /\ ram' = ram \ {s.loc}
        /\ StepEnds(TRUE) /\ UNCHANGED <<tags, server>>
     \/ /\ s.do = "serve" /\ PortFree(s.port) /\ s.loc \in weights
        /\ server' = [server EXCEPT ![s.port] = s.loc]
        /\ StepEnds(TRUE) /\ UNCHANGED <<tags, ram>>
     \/ /\ s.do = "pkill" /\ \E q \in Port : Begins(s.port, q) /\ server[q] # "none"
        /\ server' = [q \in Port |-> IF Begins(s.port, q) THEN "none" ELSE server[q]]
        /\ StepEnds(TRUE) /\ UNCHANGED <<tags, ram>>
     \/ /\ s.do = "comment" \/ (s.do = "test" /\ s.loc \in weights)
        /\ StepEnds(TRUE) /\ UNCHANGED <<tags, ram, server>>

\* tierDeclared or tierReachable; a probe may take longer than its two seconds.
\* After the last rung health prints the reports and sets its exit status.
Assess ==
  LET rung == Head(todo) IN
  /\ command = "health" /\ todo # <<>>
  /\ \E s \in {Green, Red} :
       /\ s = Green => Stands(rung)
       /\ rung[2] = "declared" => (s = Green <=> Stands(rung))
       /\ tiers' = tiers \cup {[of |-> rung[1], tier |-> rung[2], state |-> s]}
  /\ todo' = Tail(todo)
  /\ verdict' = IF Len(todo) > 1 THEN "none" ELSE IF Healthy(tiers') THEN "ok" ELSE "failed"
  /\ UNCHANGED <<deployments, hostVars, command, about, calm, was, lit>>

\* The command is over.
CommandEnds ==
  /\ verdict # "none"
  /\ command' = "none" /\ about' = NoDeployment /\ todo' = <<>> /\ tiers' = {}
  /\ verdict' = "none" /\ calm' = TRUE /\ was' = NoHost /\ lit' = {}
  /\ UNCHANGED <<deployments, hostVars>>

-----------------------------------------------------------------------------
\* History: somebody else changed the host.
Disturbed ==
  /\ UNCHANGED <<deployments, command, about, todo, tiers, verdict>>
  /\ calm' = (command \in {"none", "health"})
  /\ was' = NoHost
  /\ lit' = lit \cup {todo[i] : i \in {j \in DOMAIN todo : command = "health" /\ Stands(todo[j])'}}

\* ollama stops, which empties its memory, or starts, on its own port.
OllamaTurns ==
  /\ ollama \/ PortFree(OllamaPort)
  /\ ollama' = ~ollama /\ ram' = {}
  /\ UNCHANGED <<weights, tags, server, away>>
  /\ Disturbed

\* Another operator registers, loads or unloads a model, or its time is up.
OllamaUsed(l) ==
  /\ ollama /\ l \notin IsPath
  /\ \/ tags' = tags \cup {l} /\ ram' = ram \cup {l}
     \/ tags' = tags /\ ram' = ram \ {l}
  /\ <<tags, ram>>' # <<tags, ram>>
  /\ UNCHANGED <<weights, ollama, server, away>>
  /\ Disturbed

\* Weights come or go.
WeightsMove(l) ==
  /\ weights' \in {weights \cup {l}, weights \ {l}} \ {weights}
  /\ l \in IsPath
  /\ UNCHANGED <<ollama, tags, ram, server, away>>
  /\ Disturbed

\* A server starts or dies.
ServerTurns(p) ==
  /\ server[p] # "none" \/ PortFree(p)
  /\ \E l \in weights \cup {"none"} : server' = [server EXCEPT ![p] = l]
  /\ server' # server
  /\ UNCHANGED <<weights, ollama, tags, ram, away>>
  /\ Disturbed

\* So does one of another host.
AwayTurns(p) ==
  /\ away' \in {away \cup {p}, away \ {p}} \ {away}
  /\ UNCHANGED <<weights, ollama, tags, ram, server>>
  /\ Disturbed

\* The set is edited.  A command has read it by then, and keeps to what it
\* read, so an edit during one may as well come after it.
EditDeployments ==
  /\ command = "none"
  /\ deployments' \in DeploymentFile \ {deployments}
  /\ UNCHANGED <<hostVars, commandVars>>

HostingNext ==
  \/ Plan("up") \/ Plan("down") \/ Health \/ RunStep \/ Assess \/ CommandEnds
  \/ OllamaTurns \/ EditDeployments
  \/ \E l \in Location : OllamaUsed(l) \/ WeightsMove(l)
  \/ \E p \in Port : ServerTurns(p) \/ AwayTurns(p)

HostingSpec == HostingInit /\ [][HostingNext]_hostingVars

-----------------------------------------------------------------------------
\* The host, the set and the command keep their types.
HostingTypeOK ==
  /\ deployments \in DeploymentFile
  /\ weights \subseteq IsPath /\ ollama \in BOOLEAN
  /\ tags \subseteq Location /\ ram \subseteq tags
  /\ server \in [Port -> Location \cup {"none"}] /\ away \subseteq Port
  /\ command \in {"none", "up", "down", "health"}
  /\ verdict \in {"none", "ok", "failed"}
  /\ \A t \in tiers : t.state \in {Green, Red}
  /\ calm \in BOOLEAN

\* The plans find a model by grep; no other location contains this one.
Unambiguous(d) == \A l \in Location \ {d.location} : ~Occurs(d.location, l)

\* The deployment is up, as far as its backend has anything to bring up.
Realised(d, h) ==
  CASE d.backend = "ollama" -> d.location \in h.tags \cap h.ram
    [] d.backend = "llama-cpp" -> h.server[d.port] = d.location
    [] OTHER -> TRUE

\* An operator may rely on what a command comes to.  A bring-up plan that was
\* run through, with nobody interfering, has realised its deployment, and has
\* changed nothing if that was up before; one that stopped half-way has taken
\* nothing down, and can be run again.  A teardown frees its deployment, keeps
\* every registration, and leaves alone what is loaded elsewhere (BringUp and
\* Teardown, whose greps and pkill match by text).  And when health exits
\* with zero, every rung it reports stood at a moment of the command.
CommandIsTrue ==
  /\ command = "up" /\ calm /\ verdict # "none" =>
       /\ was.tags \subseteq tags /\ was.ram \subseteq ram
       /\ \A p \in Port : was.server[p] \in {server[p], "none"}
       /\ verdict = "ok" /\ Unambiguous(about) => Realised(about, Host)
       /\ Realised(about, was) => Host = was
  /\ command = "down" /\ calm /\ verdict = "ok" =>
       /\ tags = was.tags
       /\ ram = IF about.backend = "ollama" THEN was.ram \ {about.location} ELSE was.ram
       /\ \A p \in Port : ~Begins(about.port, p) => server[p] = was.server[p]
       /\ about.backend = "llama-cpp" => server[about.port] = "none"
  /\ command = "health" /\ verdict = "ok" =>
       \A t \in tiers : <<t.of, t.tier>> \in lit
=============================================================================
