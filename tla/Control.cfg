\* The state home, the agent skills, the LLM routes, the configuration
\* and the model deployments.
SPECIFICATION Spec
CONSTANTS
  Project = {a, b}
  Stranger = c
  StateReq = {r1, r2}
  Roster <- MCRoster
  Self = "delightd"
  ToolName = {"delightd_up", "atlas_ask", "atlas_run"}
  Offers <- MCOffers
  HandlerOf <- MCHandlerOf
  McpReq = {m1}
  Provider = {"ollama", "server", "odd"}
  TypeOf <- MCTypeOf
  ProjectName = {"a", "b"}
  ProjectPath = {"x", "y"}
  MaxInline = 1
  MaxFragment = 2
  Location = {"m", "m:7b", "w"}
  IsPath = {"w"}
  Port = {80, 8080}
  OllamaPort = 8080
  DeploymentFile <- MCDeploymentFile
  Occurs <- MCOccurs
INVARIANTS
  TypeOK
  ResultIsHonest
  LoadIsSound
  CommandIsTrue
PROPERTIES
  FailClosed
  ToolsCurrent
  CallAnswered
  SweepIsTrue
  RoutesFollow
