----------------------------- MODULE LlmRoutes -----------------------------
(***************************************************************************)
(* The discovery goroutine of cmd/delightd/main.go: every 30 seconds the   *)
(* configured LLM providers are probed one after another                   *)
(* (pkg/discovery/llm.go) and the ones found are written to the file that  *)
(* Traefik takes its routes from (pkg/traefik/dynamic.go).                 *)
(***************************************************************************)
EXTENDS Naturals

CONSTANTS Provider,   \* the configured providers, or the built-in list
          TypeOf      \* "ollama", "llama" (any OpenAI-like server) or another

ASSUME RoutesAssumption ==
  /\ TypeOf \in [Provider -> {"ollama", "llama", "other"}]
  /\ Provider # {} /\ "none" \notin Provider

VARIABLES condition,  \* how each provider answers
          rpc,        \* where the goroutine is
          unprobed,   \* the providers this sweep has still to probe
          retried,    \* the one whose second URL is tried, or none
          sources,    \* the healthy ones, and whether they named a model
          present,    \* llms.yml: "absent", "torn" (truncated) or "whole"
          routes,     \* the providers it routes to
          ctx,        \* the root context is not cancelled
          same,       \* history: providers that have not changed this sweep
          cut         \* history: this sweep was cancelled, or failed to write

sweepVars == <<rpc, unprobed, retried, sources, same, cut>>
routesVars == <<condition, sweepVars, present, routes, ctx>>

\* "models" is a server with /v1/models but without /health; "empty" is one
\* that answers without naming a model.
Condition == {"down", "up", "models", "empty"}

\* The conditions that matter for a type of provider.
ConditionOf(p) ==
  CASE TypeOf[p] = "ollama" -> {"down", "up", "empty"}
    [] TypeOf[p] = "llama" -> {"down", "up", "models"}
    [] OTHER -> {"up"}

\* The provider is one that should be routed to.
Routable(p) == TypeOf[p] # "other" /\ condition[p] \in {"up", "models"}

RoutesInit ==
  /\ condition \in {c \in [Provider -> Condition] : \A p \in Provider : c[p] \in ConditionOf(p)}
  /\ rpc = "off"
  /\ unprobed = {} /\ retried = "none" /\ sources = {}
  /\ present = "absent" /\ routes = {}
  /\ ctx = FALSE
  /\ same = {} /\ cut = FALSE

-----------------------------------------------------------------------------
\* The first sweep of a boot, or the one of a tick.
DiscoverLocalLLMs ==
  /\ ctx
  /\ rpc = "wait"
  /\ rpc' = "probe"
  /\ unprobed' = Provider
  /\ sources' = {}
  /\ same' = Provider
  /\ cut' = FALSE
  /\ UNCHANGED <<condition, retried, present, routes, ctx>>

\* The probe of p is over; it found a source or it did not.
Probed(p, found) ==
  /\ unprobed' = unprobed \ {p}
  /\ retried' = "none"
  /\ sources' = sources \cup found
  /\ rpc' = IF unprobed = {p} THEN "sync" ELSE "probe"
  /\ cut' = (cut \/ ~ctx)
  /\ UNCHANGED <<condition, present, routes, ctx, same>>

\* GET /api/tags, with a timeout of two seconds on a context that may be done.
CheckOllama(p) ==
  /\ rpc = "probe" /\ retried = "none"
  /\ p \in unprobed /\ TypeOf[p] = "ollama"
  /\ Probed(p, IF ctx /\ condition[p] # "down" THEN {<<p, condition[p] = "up">>} ELSE {})

\* GET /health, and if that does not answer 200, GET /v1/models.
CheckLlamaCpp(p) ==
  /\ rpc = "probe"
  /\ p \in unprobed /\ TypeOf[p] = "llama"
  /\ \/ /\ retried = "none"
        /\ ctx /\ condition[p] = "up"
        /\ Probed(p, {<<p, TRUE>>})
     \/ /\ retried = "none"
        /\ ~(ctx /\ condition[p] = "up")
        /\ retried' = p
        /\ UNCHANGED <<condition, rpc, unprobed, sources, present, routes, ctx, same, cut>>
     \/ /\ retried = p
        /\ Probed(p, IF ctx /\ condition[p] \in {"up", "models"} THEN {<<p, TRUE>>} ELSE {})

\* A provider of a type that discovery does not know is passed over.
PassOver(p) ==
  /\ rpc = "probe" /\ retried = "none"
  /\ p \in unprobed /\ TypeOf[p] = "other"
  /\ Probed(p, {})

\* Mutant: healthy providers are active, whether or not they have a model.
ActiveIfHealthy == {p \in Provider : \E m \in BOOLEAN : <<p, m>> \in sources}

\* The sources that SyncLLMRoutes makes a router for.
Active == {p \in Provider : <<p, TRUE>> \in sources}

\* Mutant: the goroutine gives up when it could not write.
SweepEndsOrReturns(failed) ==
  /\ rpc' = IF failed THEN "returned" ELSE "wait"
  /\ sources' = {}
  /\ cut' = (cut \/ failed)
  /\ UNCHANGED <<condition, unprobed, retried, ctx, same>>

\* The sweep ends.
SweepEnds(failed) ==
  /\ rpc' = "wait"
  /\ sources' = {}
  /\ cut' = (cut \/ failed)
  /\ UNCHANGED <<condition, unprobed, retried, ctx, same>>

\* Without an active source the file is removed; an error is dropped.
RemoveFile ==
  /\ rpc = "sync" /\ Active = {}
  /\ \/ present' = "absent" /\ routes' = {} /\ SweepEnds(FALSE)
     \/ SweepEnds(TRUE) /\ UNCHANGED <<present, routes>>

\* os.WriteFile opens and truncates the file; that, or making the directory,
\* may fail.
Truncate ==
  /\ rpc = "sync" /\ Active # {}
  /\ \/ /\ rpc' = "write"
        /\ present' = "torn" /\ routes' = {}
        /\ UNCHANGED <<condition, unprobed, retried, sources, ctx, same, cut>>
     \/ SweepEnds(TRUE) /\ UNCHANGED <<present, routes>>

\* It then writes; a write that fails leaves what there is.
WriteFile ==
  /\ rpc = "write"
  /\ \/ present' = "whole" /\ routes' = Active /\ SweepEnds(FALSE)
     \/ SweepEnds(TRUE) /\ UNCHANGED <<present, routes>>

\* The loop sees the cancelled context.
RoutesReturn ==
  /\ rpc = "wait" /\ ~ctx
  /\ rpc' = "returned"
  /\ UNCHANGED <<condition, unprobed, retried, sources, present, routes, ctx, same, cut>>

-----------------------------------------------------------------------------
\* A provider starts, stops or changes what it answers.
ProviderTurns(p) ==
  /\ \E c \in ConditionOf(p) \ {condition[p]} : condition' = [condition EXCEPT ![p] = c]
  /\ same' = same \ {p}
  /\ UNCHANGED <<rpc, unprobed, retried, sources, cut, present, routes, ctx>>

\* The daemon boots: the goroutine sweeps at once.
RoutesBoot ==
  /\ rpc = "off"
  /\ rpc' = "wait" /\ ctx' = TRUE
  /\ UNCHANGED <<condition, unprobed, retried, sources, same, cut, present, routes>>

\* The listener fails and cancels the root context; a sweep goes on for as
\* long as the shutdown takes, with probes that all fail.
RoutesCancel ==
  /\ rpc # "off" /\ ctx
  /\ ctx' = FALSE
  /\ UNCHANGED <<condition, sweepVars, present, routes>>

\* The process ends wherever it is; the file stays as it is.
RoutesDie ==
  /\ rpc # "off"
  /\ rpc' = "off" /\ ctx' = FALSE
  /\ unprobed' = {} /\ retried' = "none" /\ sources' = {}
  /\ same' = {} /\ cut' = FALSE
  /\ UNCHANGED <<condition, present, routes>>

Sweep ==
  \/ DiscoverLocalLLMs \/ RemoveFile \/ Truncate \/ WriteFile
  \/ \E p \in Provider : CheckOllama(p) \/ CheckLlamaCpp(p) \/ PassOver(p)

RoutesNext ==
  \/ Sweep \/ RoutesReturn
  \/ RoutesBoot \/ RoutesCancel \/ RoutesDie
  \/ \E p \in Provider : ProviderTurns(p)

RoutesSpec == RoutesInit /\ [][RoutesNext]_routesVars

\* The ticker fires and every probe ends; the disk does not refuse for ever.
RoutesFairness ==
  /\ WF_routesVars(ctx /\ Sweep)
  /\ SF_routesVars(ctx /\ Truncate /\ rpc' = "write")
  /\ SF_routesVars(ctx /\ (RemoveFile \/ WriteFile) /\ ~cut')

-----------------------------------------------------------------------------
\* The goroutine, the file and the providers keep their types.
RoutesTypeOK ==
  /\ condition \in [Provider -> Condition]
  /\ rpc \in {"off", "wait", "probe", "sync", "write", "returned"}
  /\ unprobed \subseteq Provider /\ same \subseteq Provider
  /\ retried \in Provider \cup {"none"}
  /\ sources \subseteq Provider \X BOOLEAN
  /\ present \in {"absent", "torn", "whole"}
  /\ routes \subseteq Provider
  /\ ctx \in BOOLEAN /\ cut \in BOOLEAN

\* A sweep that was neither cancelled nor kept from writing leaves a file that
\* routes to every provider that could be routed to all the while, and to none
\* that could not; a file without routes is not left behind.
SweepIsTrue ==
  [][(rpc \in {"sync", "write"} /\ rpc' = "wait" /\ ~cut') =>
       /\ \A p \in same : p \in routes' <=> Routable(p)
       /\ present' = "whole" <=> routes' # {}
       /\ present' # "torn"]_routesVars

\* The routes follow the providers: while the context lives one that stays up
\* is routed to again and again (each rewrite truncates the file first), and
\* one that stays down is in the end not routed to any more.
RoutesFollow ==
  \A p \in Provider :
    /\ <>[](ctx /\ Routable(p)) => []<>(p \in routes)
    /\ <>[](ctx /\ ~Routable(p)) => <>[](p \notin routes)
=============================================================================
