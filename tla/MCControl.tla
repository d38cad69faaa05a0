----------------------------- MODULE MCControl -----------------------------
(***************************************************************************)
(* Five parts of the program that share no variable but the life of the    *)
(* process: the state home, the agent skills, the LLM routes, the loading  *)
(* of the configuration and the model deployments.  A property of one does *)
(* not depend on steps of the others, so a behaviour here is a behaviour   *)
(* of one part while the rest stands still, and the state space their sum. *)
(***************************************************************************)
EXTENDS StateHome, SkillsMcp, LlmRoutes, ConfigLoad, ModelHosting

VARIABLE part   \* which part moves

\* One project, whose manifest may declare a name of delightd's own.
MCRoster == <<"atlas">>

MCOffers == [s \in {"atlas", "delightd"} |->
               IF s = "atlas" THEN {"delightd_up", "atlas_ask", "atlas_run"} ELSE {"delightd_up"}]

MCHandlerOf ==
  [s \in {"atlas", "delightd"} |->
     [n \in ToolName |-> IF s = "delightd" THEN "self"
                         ELSE CASE n = "atlas_ask" -> "http"
                                [] n = "atlas_run" -> "command"
                                [] OTHER -> "internal"]]

MCTypeOf == [p \in Provider |-> CASE p = "ollama" -> "ollama" [] p = "server" -> "llama" [] OTHER -> "other"]

\* Two backends, one name of ollama's within another, one port's number at the
\* beginning of another and the other ollama's own, a route to another host, an
\* empty set, and sets that do not load.
MCDeployment(n, l, a, b, h, p) ==
  [name |-> n, location |-> l, arch |-> a, backend |-> b, host |-> h, port |-> p, sound |-> TRUE]

MCDeploymentFile ==
  {<<MCDeployment("chat", "m", "decode", "ollama", "here", 8080),
     MCDeployment("code", "w", "decode", "llama-cpp", "here", 80)>>,
   <<MCDeployment("flan", "w", "encode-decode", "transformers", "away", 80),
     MCDeployment("code", "w", "decode", "llama-cpp", "here", 8080)>>,
   <<MCDeployment("bert", "m", "encode", "ollama", "here", 8080)>>,
   <<>>,
   Unreadable}

MCOccurs(k, l) == k = l \/ (k = "m" /\ l = "m:7b")

mcVars == <<stateVars, tableVars, callVars, routesVars, configVars, hostingVars, part>>

\* The inputs of a part that stands still do not matter.
Init ==
  /\ part \in {"state", "skills", "routes", "config", "hosting"}
  /\ StateInit /\ SkillsInit /\ RoutesInit /\ ConfigInit /\ HostingInit
  /\ part # "skills" => declared = [s \in Source |-> {}]
  /\ part # "routes" => condition = [p \in Provider |-> "up"]
  /\ part # "config" => input \in Roots /\ input.system = NoRoots /\ input.home /\ input.install = Unset
  /\ part # "hosting" => deployments = Unreadable

Next ==
  /\ UNCHANGED part
  /\ \/ /\ part = "state" /\ StateNext
        /\ UNCHANGED <<tableVars, callVars, routesVars, configVars, hostingVars>>
     \/ /\ part = "skills" /\ SkillsNext
        /\ UNCHANGED <<stored, wired, stateReqVars, lawful, routesVars, configVars, hostingVars>>
     \/ /\ part = "routes" /\ RoutesNext
        /\ UNCHANGED <<stateVars, tableVars, callVars, configVars, hostingVars>>
     \/ /\ part = "config" /\ ConfigNext
        /\ UNCHANGED <<stateVars, tableVars, callVars, routesVars, hostingVars>>
     \/ /\ part = "hosting" /\ HostingNext
        /\ UNCHANGED <<stateVars, tableVars, callVars, routesVars, configVars>>

\* The parts' own fairness.
Spec == Init /\ [][Next]_mcVars /\ SkillsFairness /\ RoutesFairness

\* Every part keeps its types.
TypeOK == StateTypeOK /\ SkillsTypeOK /\ RoutesTypeOK /\ ConfigTypeOK /\ HostingTypeOK
=============================================================================
