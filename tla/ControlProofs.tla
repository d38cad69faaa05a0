---------------------------- MODULE ControlProofs ----------------------------
(***************************************************************************)
(* Proofs about the agent skills, the LLM routes and the model             *)
(* deployments, each for its own specification, and about the composition  *)
(* of the five parts of the control plane in MCControl.                    *)
(***************************************************************************)
EXTENDS MCControl, StateHomeProofs, FiniteSetTheorems

(***************************************************************************)
(* Agent skills.  The table: among the manifests read so far, tools[n] is  *)
(* the last that declares n, for every name whose manifests stood still.   *)
(***************************************************************************)
Offerers(n) == {s \in Source : n \in Offers[s]}

\* o is the last of the first k manifests that declares n.
LastOf(n, k, o) ==
  \/ o = Nobody /\ \A i \in Declarers(n) : i > k
  \/ \E i \in Declarers(n) : /\ i <= k /\ o = ScanOrder[i]
                             /\ \A j \in Declarers(n) : j <= k => j <= i

TableInv ==
  /\ \A s \in Source : declared[s] \subseteq Offers[s]
  /\ scan # 0 => \A n \in ToolName :
                   Offerers(n) \subseteq fresh => LastOf(n, scan - 1, tools[n])
  /\ scan = 0 => \A n \in ToolName :
                   Offerers(n) \subseteq steady => LastOf(n, Len(ScanOrder), tools[n])

\* Where a call is tells what has been done for it and what it was told.
CallInv(r) ==
  /\ mpc[r] \notin {"dispatch", "answered"} =>
       inner[r] = "none" /\ acts[r] = 0 /\ r \notin done
  /\ mpc[r] # "answered" => result[r] = "none"
  /\ mpc[r] \in {"idle", "list"} => wanted[r] = Nobody
  /\ mpc[r] = "lookup" => wanted[r] \in ToolName
  /\ mpc[r] = "dispatch" => /\ inner[r] # "none" /\ acts[r] \in {0, 1}
                            /\ inner[r] = "sent" => acts[r] = 0
                            /\ inner[r] = "2xx" => r \in done
  /\ mpc[r] = "answered" =>
       /\ inner[r] \in {"none", "sent"} /\ acts[r] \in {0, 1}
       /\ inner[r] = "sent" => result[r] = "error" /\ acts[r] = 0
       /\ result[r] = "ok" => (r \in done \/ wanted[r] = Nobody)
       /\ result[r] \in {"refused", "not found"} => acts[r] = 0 /\ r \notin done

SkillsInv == SkillsTypeOK /\ TableInv /\ \A r \in McpReq : CallInv(r)

(***************************************************************************)
(* The LLM routes.  A sweep that was not cut has the providers that stood  *)
(* still and were probed exactly right.                                    *)
(***************************************************************************)
SweepInv ==
  /\ \A p \in Provider : condition[p] \in ConditionOf(p)
  /\ rpc # "probe" => unprobed = {} /\ retried = "none"
  /\ retried # "none" => retried \in unprobed
  /\ \A p \in unprobed, m \in BOOLEAN : <<p, m>> \notin sources
  /\ rpc \in {"probe", "sync", "write"} /\ ~cut =>
       \A p \in same \ unprobed : p \in Active <=> Routable(p)
  /\ rpc = "write" => Active # {}

RoutesInv == RoutesTypeOK /\ SweepInv

(***************************************************************************)
(* The model deployments.                                                  *)
(***************************************************************************)
\* A descriptor of a set that can be read, or none.
Descriptor ==
  [name : STRING, location : Location, arch : STRING, backend : STRING, host : STRING,
   port : Port, sound : BOOLEAN]

\* What is left of a command, according to what it is.
Remaining ==
  /\ command = "none" => verdict = "none" /\ about = NoDeployment /\ tiers = {} /\ lit = {}
  /\ command = "none" \/ verdict # "none" => todo = <<>>
  /\ verdict = "none" /\ command \in {"up", "down"} => about \in Descriptor
  /\ verdict = "none" /\ command = "up" =>
       \/ todo = BringUp(about)
       \/ about.backend = "ollama" /\ todo = <<Step("warm", about)>>
  /\ verdict = "none" /\ command = "down" => todo = Teardown(about)
  /\ command = "health" => todo \in Seq(Descriptor \X {"declared", "reachable"})

\* A bring-up nobody interfered with has only added to the host, and nothing
\* if its deployment was up; once registered, the model has its tag.
UpInv ==
  command = "up" /\ calm =>
    /\ was = [tags |-> was.tags, ram |-> was.ram, server |-> was.server]
    /\ was.server \in [Port -> Location \cup {"none"}]
    /\ was.tags \subseteq tags /\ was.ram \subseteq ram
    /\ \A p \in Port : was.server[p] \in {server[p], "none"}
    /\ Realised(about, was) => Host = was
    /\ verdict = "ok" /\ Unambiguous(about) => Realised(about, Host)
    /\ verdict = "none" /\ about.backend = "ollama" /\ todo # BringUp(about) =>
         \E t \in tags : Occurs(about.location, t)

\* A teardown has done nothing before its one step.
DownInv ==
  command = "down" /\ calm =>
    /\ verdict = "none" => was = Host
    /\ verdict = "ok" =>
         /\ tags = was.tags
         /\ ram = IF about.backend = "ollama" THEN was.ram \ {about.location} ELSE was.ram
         /\ \A p \in Port : ~Begins(about.port, p) => server[p] = was.server[p]
         /\ about.backend = "llama-cpp" => server[about.port] = "none"

\* What stands, or stood when it was assessed GREEN, is in the history.
HealthInv ==
  command = "health" =>
    /\ \A i \in DOMAIN todo : Stands(todo[i]) => todo[i] \in lit
    /\ \A t \in tiers : t.state = Green => <<t.of, t.tier>> \in lit
    /\ verdict = "ok" => \A t \in tiers : t.state = Green

HostingInv == HostingTypeOK /\ Remaining /\ UpInv /\ DownInv /\ HealthInv

(***************************************************************************)
(* The configuration.  Each of the two loops has picked, in order, the     *)
(* entries at certain positions of what it went through: the ones that     *)
(* parse, then the sound ones that are the first of their name.            *)
(***************************************************************************)
\* f leads from the positions of t, in order, to the positions S of s.
Picking(f, S, s, t) ==
  /\ S = {f[m] : m \in 1 .. Len(t)}
  /\ \A m, n \in 1 .. Len(t) : m < n => f[m] < f[n]
  /\ \A m \in 1 .. Len(t) : t[m] = s[f[m]]

Picks(S, s, t) == \E f \in [1 .. Len(t) -> S] : Picking(f, S, s, t)

Parsed(k) == {i \in 1 .. k : Declared[i] # Malformed}

\* The sound ones among the first k that were read, each the first of its name.
Valid(k) ==
  {i \in 1 .. k : /\ StructuralErrors(raw[i]) = {}
                  /\ \A j \in 1 .. i - 1 : StructuralErrors(raw[j]) = {} => raw[j].name # raw[i].name}

Troubled == input.file \in {"malformed", "misshapen"} \/ input.dir = "unreadable"

ReadInv ==
  stage = "reading" =>
    /\ at \in 1 .. Len(input.fragments) + 1
    /\ loaded.projects = <<>> /\ names = {}
    /\ Picks(Parsed(Len(input.inline) + at - 1), Declared, raw)
    /\ loaded.degraded <=> \/ Troubled
                           \/ \E i \in 1 .. Len(input.inline) + at - 1 : Declared[i] = Malformed

CheckInv ==
  stage = "checking" =>
    /\ at \in 1 .. Len(raw) + 1
    /\ names = {raw[i].name : i \in {j \in 1 .. at - 1 : StructuralErrors(raw[j]) = {}}}
    /\ Picks(Parsed(Len(Declared)), Declared, raw)
    /\ Picks(Valid(at - 1), raw, loaded.projects)
    /\ loaded.degraded <=> \/ Troubled
                           \/ \E i \in 1 .. Len(Declared) : Declared[i] = Malformed
                           \/ \E i \in 1 .. at - 1 : i \notin Valid(at - 1)

LoadedInv ==
  stage = "loaded" =>
    /\ Picks(Chosen, Declared, loaded.projects)
    /\ loaded.degraded <=> Troubled \/ \E i \in 1 .. Len(Declared) : i \notin Chosen

ConfigInv ==
  /\ ConfigTypeOK /\ ReadInv /\ CheckInv /\ LoadedInv
  /\ input \in Rosters \cup Roots
  /\ stage \in {"start", "loaded"} => raw = <<>> /\ names = {}
  /\ loaded = [projects |-> loaded.projects, degraded |-> loaded.degraded, system |-> loaded.system]
  /\ stage # "start" => loaded.system = ResolveRoots(input.system, input)

-----------------------------------------------------------------------------
\* The manifests are read in a fixed order, delightd's own last.
LEMMA ScanOrderFacts ==
  /\ Len(ScanOrder) \in Nat /\ Len(ScanOrder) >= 1
  /\ \A i \in 1 .. Len(ScanOrder) : ScanOrder[i] \in Source
  <1>1. Roster \in Seq(Source) /\ Self \in Source
    BY SkillsAssumption DEF Source
  <1>2. ScanOrder \in Seq(Source) /\ Len(ScanOrder) = Len(Roster) + 1
    BY <1>1 DEF ScanOrder
  <1>3. QED  BY <1>1, <1>2

\* The last declarer of all is the owner.
LEMMA OwnerIsLast ==
  ASSUME NEW n, NEW o, LastOf(n, Len(ScanOrder), o)
  PROVE  o = Owner(n)
  <1>1. \A i \in Declarers(n) : i \in Nat /\ i <= Len(ScanOrder)
    BY ScanOrderFacts DEF Declarers
  <1>2. CASE Declarers(n) = {}
    BY <1>2 DEF LastOf, Owner
  <1>3. CASE Declarers(n) # {}
    <2>1. PICK i \in Declarers(n) : o = ScanOrder[i] /\ \A j \in Declarers(n) : j <= i
      BY <1>1, <1>3, ScanOrderFacts DEF LastOf
    <2>2. \A k \in Declarers(n) : (\A j \in Declarers(n) : j <= k) => k = i
      BY <1>1, <2>1
    <2>3. (CHOOSE k \in Declarers(n) : \A j \in Declarers(n) : j <= k) = i
      BY <2>1, <2>2
    <2>4. Owner(n) = ScanOrder[CHOOSE k \in Declarers(n) : \A j \in Declarers(n) : j <= k]
      BY <1>3, Zenon DEF Owner
    <2>5. QED  BY <2>1, <2>3, <2>4
  <1>4. QED  BY <1>2, <1>3

\* What a name's table entry is depends on the manifests that declare it.
LEMMA LastOfSame ==
  ASSUME NEW n, NEW k, NEW o, Declarers(n)' = Declarers(n)
  PROVE  LastOf(n, k, o)' <=> LastOf(n, k, o)
  BY DEF LastOf, ScanOrder

LEMMA DeclarersSame ==
  ASSUME UNCHANGED <<declared, readable>>
  PROVE  \A n : Declarers(n)' = Declarers(n)
  BY DEF Declarers, ScanOrder

\* A step that leaves the table and the manifests alone.
LEMMA TableSame ==
  ASSUME TableInv, UNCHANGED <<declared, readable, tools, scan, fresh, steady>>
  PROVE  TableInv'
  <1>1. \A n : Declarers(n)' = Declarers(n)  BY DeclarersSame
  <1>2. ASSUME NEW n \in ToolName, scan # 0, Offerers(n) \subseteq fresh
        PROVE  LastOf(n, scan - 1, tools[n])'
    <2>1. LastOf(n, scan - 1, tools[n])  BY <1>2 DEF TableInv
    <2>2. QED  BY <1>1, <2>1 DEF LastOf, ScanOrder
  <1>3. ASSUME NEW n \in ToolName, scan = 0, Offerers(n) \subseteq steady
        PROVE  LastOf(n, Len(ScanOrder), tools[n])'
    <2>1. LastOf(n, Len(ScanOrder), tools[n])  BY <1>3 DEF TableInv
    <2>2. QED  BY <1>1, <2>1 DEF LastOf, ScanOrder
  <1>4. QED  BY <1>2, <1>3 DEF TableInv, Offerers

LEMMA SkillsInitInv == SkillsInit => SkillsInv
  <1> SUFFICES ASSUME SkillsInit PROVE SkillsInv  OBVIOUS
  <1>1. declared \in [Source -> SUBSET ToolName] /\ \A s \in Source : declared[s] \subseteq Offers[s]
    BY DEF SkillsInit
  <1>2. SkillsTypeOK
    <2>1. readable \in [Source -> BOOLEAN] /\ token \in BOOLEAN
      BY Zenon DEF SkillsInit, PortInit
    <2>2. 0 \in 0 .. Len(ScanOrder)
      BY ScanOrderFacts
    <2>3. QED
      BY <1>1, <2>1, <2>2 DEF SkillsInit, SkillsTypeOK, PortInit, PortTypeOK
  <1>3. \A n \in ToolName : Offerers(n) = {} => Declarers(n) = {}
    BY <1>1, ScanOrderFacts DEF Offerers, Declarers
  <1>4. TableInv
    BY <1>1, <1>3 DEF SkillsInit, TableInv, LastOf
  <1>5. ASSUME NEW r \in McpReq PROVE CallInv(r)
    BY <1>5 DEF SkillsInit, CallInv
  <1>6. QED  BY <1>2, <1>4, <1>5 DEF SkillsInv

-----------------------------------------------------------------------------
\* What ToolsCurrent says of a step.
SeesWholeTable ==
  \A r \in McpReq :
    mpc[r] \in {"list", "lookup"} /\ mpc'[r] \notin {mpc[r], "idle"} =>
      \A n \in ToolName :
        {s \in Source : n \in Offers[s]} \subseteq steady => tools[n] = Owner(n)

\* A step that leaves the calls alone.
LEMMA CallsSame ==
  ASSUME SkillsInv, UNCHANGED callVars
  PROVE  (\A r \in McpReq : CallInv(r)') /\ SeesWholeTable
  BY DEF SkillsInv, callVars, CallInv, SeesWholeTable

\* The write lock is taken and the table emptied: no manifest was read yet.
LEMMA ScanProjectsStep ==
  ASSUME SkillsInv, ScanProjects
  PROVE  SkillsInv' /\ SeesWholeTable
  <1>1. /\ UNCHANGED <<phase, token, declared, readable, steady, callVars>>
        /\ scan' = 1 /\ fresh' = Source /\ tools' = [n \in ToolName |-> Nobody]
    BY DEF ScanProjects, portVars
  <1>2. SkillsTypeOK'
    <2>1. 1 \in 0 .. Len(ScanOrder)
      BY ScanOrderFacts
    <2>2. QED
      BY <1>1, <2>1 DEF SkillsInv, SkillsTypeOK, PortTypeOK, ScanOrder, callVars
  <1>3. \A n \in ToolName : LastOf(n, 0, Nobody)
    BY ScanOrderFacts DEF LastOf, Declarers
  <1>4. TableInv'
    BY <1>1, <1>3, DeclarersSame, LastOfSame DEF SkillsInv, TableInv
  <1>5. QED  BY <1>1, <1>2, <1>4, CallsSame DEF SkillsInv

\* One more manifest is read: where it declares a name it is the last to do so.
LEMMA LoadManifestStep ==
  ASSUME SkillsInv, LoadManifest
  PROVE  SkillsInv' /\ SeesWholeTable
  <1> DEFINE s == ScanOrder[scan]
  <1>1. /\ UNCHANGED <<phase, token, declared, readable, callVars>> /\ scan # 0
        /\ tools' = [n \in ToolName |-> IF readable[s] /\ n \in declared[s] THEN s ELSE tools[n]]
        /\ \/ scan = Len(ScanOrder) /\ scan' = 0 /\ steady' = fresh /\ fresh' = {}
           \/ scan # Len(ScanOrder) /\ scan' = scan + 1 /\ steady' = steady /\ fresh' = fresh
    BY DEF LoadManifest, portVars
  <1>2. scan \in 1 .. Len(ScanOrder) /\ scan \in Nat /\ s \in Source
    <2>1. scan \in 0 .. Len(ScanOrder)  BY DEF SkillsInv, SkillsTypeOK
    <2>2. scan \in 1 .. Len(ScanOrder) /\ scan \in Nat
      BY <1>1, <2>1, ScanOrderFacts
    <2>3. QED  BY <2>2, ScanOrderFacts
  <1>3. scan' \in 0 .. Len(ScanOrder)
    BY <1>1, <1>2, ScanOrderFacts
  <1>4. tools' \in [ToolName -> Source \cup {Nobody}]
    BY <1>1, <1>2 DEF SkillsInv, SkillsTypeOK
  <1>5. SkillsTypeOK'
    BY <1>1, <1>3, <1>4 DEF SkillsInv, SkillsTypeOK, PortTypeOK, ScanOrder, callVars
  <1>6. ASSUME NEW n \in ToolName, Offerers(n) \subseteq fresh
        PROVE  LastOf(n, scan, tools'[n])
    <2>1. LastOf(n, scan - 1, tools[n])
      BY <1>1, <1>6 DEF SkillsInv, TableInv
    <2>2. \A i \in Declarers(n) : i \in Nat
      BY DEF Declarers
    <2>3. scan \in Declarers(n) <=> readable[s] /\ n \in declared[s]
      BY <1>2 DEF Declarers
    <2>4. CASE scan \in Declarers(n)
      <3>1. tools'[n] = s  BY <1>1, <2>3, <2>4
      <3>2. QED  BY <1>2, <2>2, <2>4, <3>1 DEF LastOf
    <2>5. CASE scan \notin Declarers(n)
      <3>1. tools'[n] = tools[n]  BY <1>1, <2>3, <2>5
      <3>2. \A i \in Declarers(n) : (i > scan <=> i > scan - 1) /\ (i <= scan <=> i <= scan - 1)
        BY <1>2, <2>2, <2>5
      <3>3. QED  BY <2>1, <3>1, <3>2 DEF LastOf
    <2>6. QED  BY <2>4, <2>5
  <1>7. TableInv'
    <2>1. \A t \in Source : declared'[t] \subseteq Offers[t]
      BY <1>1 DEF SkillsInv, TableInv
    <2>2. scan' # 0 => scan' - 1 = scan /\ fresh' = fresh
      BY <1>1, <1>2
    <2>3. scan' = 0 => scan = Len(ScanOrder) /\ steady' = fresh
      BY <1>1, <1>2
    <2>4. \A n \in ToolName : Declarers(n)' = Declarers(n)
      BY <1>1, DeclarersSame
    <2>5. ASSUME NEW n \in ToolName, scan' # 0, Offerers(n) \subseteq fresh'
          PROVE  LastOf(n, scan - 1, tools[n])'
      BY <1>6, <2>2, <2>4, <2>5 DEF LastOf, ScanOrder
    <2>6. ASSUME NEW n \in ToolName, scan' = 0, Offerers(n) \subseteq steady'
          PROVE  LastOf(n, Len(ScanOrder), tools[n])'
      BY <1>6, <2>3, <2>4, <2>6 DEF LastOf, ScanOrder
    <2>7. QED  BY <2>1, <2>5, <2>6 DEF TableInv, Offerers
  <1>8. QED  BY <1>1, <1>5, <1>7, CallsSame DEF SkillsInv

\* A manifest changes: the names under its prefix are no longer those of a
\* source that stood still, and of every other name it declares nothing.
LEMMA EditManifestStep ==
  ASSUME SkillsInv, NEW s \in Source, EditManifest(s)
  PROVE  SkillsInv' /\ SeesWholeTable
  <1>1. /\ UNCHANGED <<phase, token, tools, scan, callVars>>
        /\ fresh' = fresh \ {s} /\ steady' = steady \ {s}
    BY DEF EditManifest, portVars
  <1>2. /\ declared' \in [Source -> SUBSET ToolName]
        /\ declared'[s] \subseteq Offers[s]
        /\ \A t \in Source \ {s} : declared'[t] = declared[t] /\ readable'[t] = readable[t]
    <2>1. /\ declared \in [Source -> SUBSET ToolName] /\ declared[s] \subseteq Offers[s]
          /\ Offers[s] \subseteq ToolName
      BY SkillsAssumption DEF SkillsInv, SkillsTypeOK, TableInv
    <2>2. declared' = declared \/ \E D \in SUBSET Offers[s] : declared' = [declared EXCEPT ![s] = D]
      BY DEF EditManifest
    <2>3. \A t \in Source \ {s} : readable'[t] = readable[t]
      BY DEF EditManifest, SkillsInv, SkillsTypeOK
    <2>4. QED  BY <2>1, <2>2, <2>3
  <1>3. readable' \in [Source -> BOOLEAN]
    BY Zenon DEF EditManifest, SkillsInv, SkillsTypeOK
  <1>4. SkillsTypeOK'
    BY <1>1, <1>2, <1>3 DEF SkillsInv, SkillsTypeOK, PortTypeOK, ScanOrder, callVars
  <1>5. ASSUME NEW n \in ToolName, s \notin Offerers(n)
        PROVE  Declarers(n)' = Declarers(n)
    <2>1. n \notin declared[s] /\ n \notin declared'[s]
      BY <1>2, <1>5 DEF Offerers, SkillsInv, TableInv
    <2>2. \A t \in Source : (readable'[t] /\ n \in declared'[t]) <=> (readable[t] /\ n \in declared[t])
      BY <1>2, <2>1
    <2>3. QED  BY <2>2, ScanOrderFacts DEF Declarers, ScanOrder
  <1>6. TableInv'
    <2>1. \A t \in Source : declared'[t] \subseteq Offers[t]
      BY <1>2 DEF SkillsInv, TableInv
    <2>2. ASSUME NEW n \in ToolName, Offerers(n) \subseteq fresh', scan # 0
          PROVE  LastOf(n, scan - 1, tools[n])'
      <3>1. s \notin Offerers(n) /\ Offerers(n) \subseteq fresh  BY <1>1, <2>2
      <3>2. LastOf(n, scan - 1, tools[n])  BY <2>2, <3>1 DEF SkillsInv, TableInv
      <3>3. QED  BY <1>1, <1>5, <3>1, <3>2 DEF LastOf, ScanOrder
    <2>3. ASSUME NEW n \in ToolName, Offerers(n) \subseteq steady', scan = 0
          PROVE  LastOf(n, Len(ScanOrder), tools[n])'
      <3>1. s \notin Offerers(n) /\ Offerers(n) \subseteq steady  BY <1>1, <2>3
      <3>2. LastOf(n, Len(ScanOrder), tools[n])  BY <2>3, <3>1 DEF SkillsInv, TableInv
      <3>3. QED  BY <1>1, <1>5, <3>1, <3>2 DEF LastOf, ScanOrder
    <2>4. QED  BY <1>1, <2>1, <2>2, <2>3 DEF TableInv, Offerers
  <1>7. QED  BY <1>1, <1>4, <1>6, CallsSame DEF SkillsInv

-----------------------------------------------------------------------------
\* The types of the calls, and a step that is about one call only.
CallTypes ==
  /\ mpc \in [McpReq -> {"idle", "list", "lookup", "self", "dispatch", "http", "command",
                         "answered"}]
  /\ wanted \in [McpReq -> ToolName \cup {Nobody}]
  /\ result \in [McpReq -> {"none", "ok", "error", "not found", "refused"}]
  /\ inner \in [McpReq -> {"none", "sent", "2xx", "error"}]
  /\ acts \in [McpReq -> Nat]
  /\ done \subseteq McpReq

OthersAlone(r) ==
  \A q \in McpReq \ {r} : /\ mpc'[q] = mpc[q] /\ wanted'[q] = wanted[q]
                          /\ result'[q] = result[q] /\ inner'[q] = inner[q]
                          /\ acts'[q] = acts[q] /\ (q \in done' <=> q \in done)

\* A lookup or a list that ends has held the read lock, so no scan was on.
LEMMA CallStep ==
  ASSUME SkillsInv, NEW r \in McpReq, UNCHANGED <<portVars, tableVars>>,
         CallTypes', OthersAlone(r), CallInv(r)',
         mpc[r] \in {"list", "lookup"} /\ mpc'[r] # mpc[r] => scan = 0
  PROVE  SkillsInv' /\ SeesWholeTable
  <1>1. /\ UNCHANGED <<phase, token, declared, readable, tools, scan, fresh, steady>>
    BY DEF portVars, tableVars
  <1>2. SkillsTypeOK'
    BY <1>1 DEF SkillsInv, SkillsTypeOK, PortTypeOK, ScanOrder, CallTypes
  <1>3. TableInv'
    BY <1>1, TableSame DEF SkillsInv
  <1>4. ASSUME NEW q \in McpReq PROVE CallInv(q)'
    <2>1. CASE q = r  BY <2>1
    <2>2. CASE q # r  BY <2>2 DEF SkillsInv, CallInv, OthersAlone
    <2>3. QED  BY <2>1, <2>2
  <1>5. SeesWholeTable
    <2> SUFFICES ASSUME NEW q \in McpReq, mpc[q] \in {"list", "lookup"}, mpc'[q] # mpc[q],
                        NEW n \in ToolName, Offerers(n) \subseteq steady
                 PROVE  tools[n] = Owner(n)
      BY DEF SeesWholeTable, Offerers
    <2>1. scan = 0  BY DEF OthersAlone
    <2>2. LastOf(n, Len(ScanOrder), tools[n])  BY <2>1 DEF SkillsInv, TableInv
    <2>3. QED  BY <2>2, OwnerIsLast
  <1>6. QED  BY <1>2, <1>3, <1>4, <1>5 DEF SkillsInv

LEMMA McpArriveStep ==
  ASSUME SkillsInv, NEW r \in McpReq, McpArrive(r)
  PROVE  SkillsInv' /\ SeesWholeTable
  <1>1. /\ UNCHANGED <<portVars, tableVars>> /\ inner' = inner /\ acts' = acts /\ done' = done
        /\ mpc[r] = "idle" /\ inner[r] = "none"
        /\ \/ /\ mpc' = [mpc EXCEPT ![r] = "answered"] /\ wanted' = wanted
              /\ result' = [result EXCEPT ![r] = "refused"]
           \/ mpc' = [mpc EXCEPT ![r] = "list"] /\ wanted' = wanted /\ result' = result
           \/ /\ mpc' = [mpc EXCEPT ![r] = "lookup"] /\ result' = result
              /\ \E n \in ToolName : wanted' = [wanted EXCEPT ![r] = n]
    BY DEF McpArrive, McpAnswer
  <1>2. CallTypes' /\ OthersAlone(r)
    BY <1>1 DEF SkillsInv, SkillsTypeOK, CallTypes, OthersAlone
  <1>3. CallInv(r)'
    BY <1>1 DEF SkillsInv, SkillsTypeOK, CallInv
  <1>4. QED  BY <1>1, <1>2, <1>3, CallStep

LEMMA GetToolsStep ==
  ASSUME SkillsInv, NEW r \in McpReq, GetTools(r)
  PROVE  SkillsInv' /\ SeesWholeTable
  <1>1. /\ UNCHANGED <<portVars, tableVars, wanted, inner, acts, done>>
        /\ mpc[r] = "list" /\ scan = 0
        /\ mpc' = [mpc EXCEPT ![r] = "answered"]
        /\ result' = [result EXCEPT ![r] = "ok"]
    BY DEF GetTools, McpAnswer
  <1>2. CallTypes' /\ OthersAlone(r)
    BY <1>1 DEF SkillsInv, SkillsTypeOK, CallTypes, OthersAlone
  <1>3. CallInv(r)'
    BY <1>1 DEF SkillsInv, SkillsTypeOK, CallInv
  <1>4. QED  BY <1>1, <1>2, <1>3, CallStep

LEMMA GetToolStep ==
  ASSUME SkillsInv, NEW r \in McpReq, GetTool(r)
  PROVE  SkillsInv' /\ SeesWholeTable
  <1>1. /\ UNCHANGED <<portVars, tableVars, wanted, inner, acts, done>>
        /\ mpc[r] = "lookup" /\ scan = 0
    BY DEF GetTool
  <1>2. wanted[r] \in ToolName /\ tools[wanted[r]] \in Source \cup {Nobody}
    BY <1>1 DEF SkillsInv, CallInv, SkillsTypeOK
  <1>3. \/ /\ mpc' = [mpc EXCEPT ![r] = "answered"]
           /\ \E e \in {"not found", "error"} : result' = [result EXCEPT ![r] = e]
        \/ /\ result' = result
           /\ \E h \in {"self", "http", "command"} : mpc' = [mpc EXCEPT ![r] = h]
    <2>1. ASSUME tools[wanted[r]] # Nobody
          PROVE  HandlerOf[tools[wanted[r]]][wanted[r]] \in Handler
      BY <1>2, <2>1, SkillsAssumption
    <2>2. QED  BY <2>1 DEF GetTool, McpAnswer, Handler
  <1>4. CallTypes' /\ OthersAlone(r)
    BY <1>1, <1>3 DEF SkillsInv, SkillsTypeOK, CallTypes, OthersAlone
  <1>5. CallInv(r)'
    BY <1>1, <1>3 DEF SkillsInv, SkillsTypeOK, CallInv
  <1>6. QED  BY <1>1, <1>4, <1>5, CallStep

LEMMA SendSelfStep ==
  ASSUME SkillsInv, NEW r \in McpReq, SendSelf(r)
  PROVE  SkillsInv' /\ SeesWholeTable
  <1>1. /\ UNCHANGED <<portVars, tableVars, wanted, result, acts, done>>
        /\ mpc[r] = "self"
        /\ mpc' = [mpc EXCEPT ![r] = "dispatch"]
        /\ inner' = [inner EXCEPT ![r] = "sent"]
    BY DEF SendSelf
  <1>2. CallTypes' /\ OthersAlone(r)
    BY <1>1 DEF SkillsInv, SkillsTypeOK, CallTypes, OthersAlone
  <1>3. CallInv(r)'
    BY <1>1 DEF SkillsInv, SkillsTypeOK, CallInv
  <1>4. QED  BY <1>1, <1>2, <1>3, CallStep

\* What a tool comes to, on the books: one change at most; and where it ended
\* well, what it is for is so.
OnBooks(r, fine) ==
  /\ \/ acts' = [acts EXCEPT ![r] = @ + 1]
     \/ acts' = [acts EXCEPT ![r] = @]
  /\ \/ done' = done \cup {r}
     \/ ~fine /\ done' = done \ {r}

LEMMA BooksFacts ==
  ASSUME SkillsInv, NEW r \in McpReq, acts[r] = 0, NEW fine \in BOOLEAN, OnBooks(r, fine)
  PROVE  /\ acts' \in [McpReq -> Nat] /\ acts'[r] \in {0, 1}
         /\ \A q \in McpReq \ {r} : acts'[q] = acts[q] /\ (q \in done' <=> q \in done)
         /\ done' \subseteq McpReq
         /\ fine => r \in done'
  <1>1. acts \in [McpReq -> Nat] /\ done \subseteq McpReq
    BY DEF SkillsInv, SkillsTypeOK
  <1>2. acts' = [acts EXCEPT ![r] = 1] \/ acts' = [acts EXCEPT ![r] = 0]
    <2>1. acts[r] + 1 = 1  OBVIOUS
    <2>2. QED  BY <2>1 DEF OnBooks
  <1>3. acts' \in [McpReq -> Nat] /\ acts'[r] \in {0, 1} /\ \A q \in McpReq \ {r} : acts'[q] = acts[q]
    BY <1>1, <1>2
  <1>4. QED  BY <1>1, <1>3 DEF OnBooks

\* A handler that answers 2xx leaves what it was asked for: TriggerBackup out
\* of backoff ends in backing_up, ClearError outside error, and furnish is
\* through with the whole piece.
LEMMA HandlersEnd ==
  ASSUME NEW r \in McpReq, ServeInner(r)
  PROVE  \E code \in {"2xx", "error"} : PortAnswers(r, code) /\ OnBooks(r, code = "2xx")
  <1>1. ASSUME NEW m \in AMachine
        PROVE  /\ ~BM!InBackoff(m) => BM!TriggerBackup(m).st = "backing_up"
               /\ BM!ClearError(m).st # "error"
    BY <1>1 DEF AMachine, BM!TriggerBackup, BM!ClearError, BM!NewMachine, BM!State
  <1>2. CASE Ends(r, FALSE, FALSE) /\ PortAnswers(r, "error")
    <2>1. OnBooks(r, "error" = "2xx")  BY <1>2 DEF Ends, OnBooks
    <2>2. QED  BY <1>2, <2>1
  <1>3. ASSUME NEW m \in AMachine,
               Ends(r, BM!TriggerBackup(m).st # m.st, BM!TriggerBackup(m).st = "backing_up"),
               PortAnswers(r, IF BM!InBackoff(m) THEN "error" ELSE "2xx")
        PROVE  \E code \in {"2xx", "error"} : PortAnswers(r, code) /\ OnBooks(r, code = "2xx")
    <2>1. OnBooks(r, ~BM!InBackoff(m))
      BY <1>1, <1>3 DEF Ends, OnBooks
    <2>2. CASE BM!InBackoff(m)
      <3>1. PortAnswers(r, "error") /\ OnBooks(r, "error" = "2xx")
        BY <1>3, <2>1, <2>2 DEF OnBooks
      <3>2. QED  BY <3>1
    <2>3. CASE ~BM!InBackoff(m)
      <3>1. PortAnswers(r, "2xx") /\ OnBooks(r, "2xx" = "2xx")
        BY <1>3, <2>1, <2>3 DEF OnBooks
      <3>2. QED  BY <3>1
    <2>4. QED  BY <2>2, <2>3
  <1>4. ASSUME NEW m \in AMachine, PortAnswers(r, "2xx"),
               Ends(r, BM!ClearError(m).st # m.st, BM!ClearError(m).st # "error")
        PROVE  \E code \in {"2xx", "error"} : PortAnswers(r, code) /\ OnBooks(r, code = "2xx")
    <2>1. OnBooks(r, "2xx" = "2xx")
      BY <1>1, <1>4 DEF Ends, OnBooks
    <2>2. QED  BY <1>4, <2>1
  <1>5. CASE HandleFurnish(r)
    <2>1. PICK changed \in BOOLEAN, whole \in BOOLEAN, code \in {"2xx", "error"} :
            (code = "2xx" => whole) /\ Ends(r, changed, whole) /\ PortAnswers(r, code)
      BY <1>5 DEF HandleFurnish
    <2>2. OnBooks(r, code = "2xx")
      BY <2>1 DEF Ends, OnBooks
    <2>3. QED  BY <2>1, <2>2
  <1>6. CASE HandleBackup(r)
    BY <1>2, <1>3, <1>6 DEF HandleBackup
  <1>7. CASE HandleReset(r)
    BY <1>2, <1>4, <1>7 DEF HandleReset
  <1>8. QED  BY <1>2, <1>5, <1>6, <1>7 DEF ServeInner

\* The request may be served after its caller was told of an error: the only
\* act, then, of a call that nobody was told had succeeded.
LEMMA ServeInnerStep ==
  ASSUME SkillsInv, NEW r \in McpReq, ServeInner(r)
  PROVE  SkillsInv' /\ SeesWholeTable
  <1>1. UNCHANGED <<portVars, tableVars, mpc, wanted, result>> /\ inner[r] = "sent"
    BY DEF ServeInner
  <1>2. /\ acts[r] = 0 /\ mpc[r] \in {"dispatch", "answered"}
        /\ mpc[r] = "answered" => result[r] = "error"
    BY <1>1 DEF SkillsInv, CallInv
  <1>3. PICK code \in {"2xx", "error"} : PortAnswers(r, code) /\ OnBooks(r, code = "2xx")
    BY HandlersEnd
  <1>4. /\ acts' \in [McpReq -> Nat] /\ acts'[r] \in {0, 1}
        /\ \A q \in McpReq \ {r} : acts'[q] = acts[q] /\ (q \in done' <=> q \in done)
        /\ done' \subseteq McpReq
        /\ code = "2xx" => r \in done'
    BY <1>2, <1>3, BooksFacts
  <1>5. \/ mpc[r] = "dispatch" /\ inner' = [inner EXCEPT ![r] = code]
        \/ mpc[r] = "answered" /\ inner' = [inner EXCEPT ![r] = "none"]
    BY <1>2, <1>3 DEF PortAnswers
  <1>6. CallTypes' /\ OthersAlone(r)
    <2>1. /\ inner' \in [McpReq -> {"none", "sent", "2xx", "error"}]
          /\ \A q \in McpReq \ {r} : inner'[q] = inner[q]
      BY <1>3, <1>5 DEF SkillsInv, SkillsTypeOK
    <2>2. QED  BY <1>1, <1>4, <2>1 DEF SkillsInv, SkillsTypeOK, CallTypes, OthersAlone
  <1>7. CallInv(r)'
    <2>1. CASE mpc[r] = "dispatch" /\ inner' = [inner EXCEPT ![r] = code]
      <3>1. inner'[r] = code /\ mpc'[r] = "dispatch" /\ result'[r] = result[r] /\ result[r] = "none"
        BY <1>1, <2>1 DEF SkillsInv, SkillsTypeOK, CallInv
      <3>2. QED  BY <1>3, <1>4, <3>1 DEF CallInv
    <2>2. CASE mpc[r] = "answered" /\ inner' = [inner EXCEPT ![r] = "none"]
      <3>1. inner'[r] = "none" /\ mpc'[r] = "answered" /\ result'[r] = "error"
        BY <1>1, <1>2, <2>2 DEF SkillsInv, SkillsTypeOK
      <3>2. QED  BY <1>4, <3>1 DEF CallInv
    <2>3. QED  BY <1>5, <2>1, <2>2
  <1>8. QED  BY <1>1, <1>6, <1>7, CallStep

\* The dispatch returns, in one way or the other.
LEMMA DispatchStep ==
  ASSUME SkillsInv, NEW r \in McpReq, DoHTTP(r) \/ DispatchFails(r)
  PROVE  SkillsInv' /\ SeesWholeTable
  <1>1. /\ UNCHANGED <<portVars, tableVars, wanted, acts, done>> /\ mpc[r] = "dispatch"
        /\ mpc' = [mpc EXCEPT ![r] = "answered"]
        /\ \/ /\ inner[r] \in {"2xx", "error"}
              /\ result' = [result EXCEPT ![r] = IF inner[r] = "2xx" THEN "ok" ELSE "error"]
              /\ inner' = [inner EXCEPT ![r] = "none"]
           \/ /\ result' = [result EXCEPT ![r] = "error"]
              /\ inner' = [inner EXCEPT ![r] = IF @ = "sent" THEN "sent" ELSE "none"]
    BY DEF DoHTTP, DispatchFails, McpAnswer
  <1>2. /\ acts[r] \in {0, 1} /\ (inner[r] = "sent" => acts[r] = 0)
        /\ inner[r] = "2xx" => r \in done
    BY <1>1 DEF SkillsInv, CallInv
  <1>3. CallTypes' /\ OthersAlone(r)
    BY <1>1 DEF SkillsInv, SkillsTypeOK, CallTypes, OthersAlone
  <1>4. CallInv(r)'
    BY <1>1, <1>2 DEF SkillsInv, SkillsTypeOK, CallInv
  <1>5. QED  BY <1>1, <1>3, <1>4, CallStep

LEMMA OutsideEndsStep ==
  ASSUME SkillsInv, NEW r \in McpReq, OutsideEnds(r)
  PROVE  SkillsInv' /\ SeesWholeTable
  <1>1. UNCHANGED <<portVars, tableVars, wanted, inner>> /\ mpc[r] \in {"http", "command"}
    BY DEF OutsideEnds
  <1>2. acts[r] = 0 /\ inner[r] = "none"
    BY <1>1 DEF SkillsInv, CallInv
  <1>3. PICK changed \in BOOLEAN, so \in BOOLEAN, res \in {"ok", "error"} :
          /\ res = "ok" => so
          /\ Ends(r, changed, so) /\ McpAnswer(r, res)
    BY DEF OutsideEnds
  <1>4. /\ acts' \in [McpReq -> Nat] /\ acts'[r] \in {0, 1}
        /\ \A q \in McpReq \ {r} : acts'[q] = acts[q] /\ (q \in done' <=> q \in done)
        /\ done' \subseteq McpReq
        /\ res = "ok" => r \in done'
    <2>1. OnBooks(r, res = "ok")
      BY <1>3 DEF Ends, OnBooks
    <2>2. QED  BY <1>2, <2>1, BooksFacts
  <1>5. mpc' = [mpc EXCEPT ![r] = "answered"] /\ result' = [result EXCEPT ![r] = res]
    BY <1>3 DEF McpAnswer
  <1>6. CallTypes' /\ OthersAlone(r)
    BY <1>1, <1>4, <1>5 DEF SkillsInv, SkillsTypeOK, CallTypes, OthersAlone
  <1>7. CallInv(r)'
    <2>1. mpc'[r] = "answered" /\ inner'[r] = "none" /\ result'[r] = res
      BY <1>1, <1>2, <1>5 DEF SkillsInv, SkillsTypeOK
    <2>2. QED  BY <1>4, <2>1 DEF CallInv
  <1>8. QED  BY <1>1, <1>6, <1>7, CallStep

LEMMA McpReleaseStep ==
  ASSUME SkillsInv, NEW r \in McpReq, McpRelease(r)
  PROVE  SkillsInv' /\ SeesWholeTable
  <1>1. /\ UNCHANGED <<portVars, tableVars, inner>>
        /\ mpc[r] = "answered" /\ inner[r] = "none"
        /\ mpc' = [mpc EXCEPT ![r] = "idle"] /\ wanted' = [wanted EXCEPT ![r] = Nobody]
        /\ result' = [result EXCEPT ![r] = "none"] /\ acts' = [acts EXCEPT ![r] = 0]
        /\ done' = done \ {r}
    BY DEF McpRelease
  <1>2. CallTypes' /\ OthersAlone(r)
    BY <1>1 DEF SkillsInv, SkillsTypeOK, CallTypes, OthersAlone
  <1>3. CallInv(r)'
    BY <1>1 DEF SkillsInv, SkillsTypeOK, CallInv
  <1>4. QED  BY <1>1, <1>2, <1>3, CallStep

\* The process: boots, listens, ends.
LEMMA SkillsProcessStep ==
  ASSUME SkillsInv, SkillsBoot \/ SkillsListen \/ SkillsDie
  PROVE  SkillsInv' /\ SeesWholeTable
  <1>1. PortTypeOK'
    BY DEF SkillsBoot, SkillsListen, SkillsDie, LoadControlToken, ListenAndServe, Die,
           SkillsInv, SkillsTypeOK, PortTypeOK
  <1>2. CASE UNCHANGED <<tableVars, callVars>>
    <2>1. UNCHANGED <<declared, readable, tools, scan, fresh, steady, mpc, wanted, result,
                      inner, acts, done>>
      BY <1>2 DEF tableVars, callVars
    <2>2. SkillsTypeOK'
      BY <1>1, <2>1 DEF SkillsInv, SkillsTypeOK, ScanOrder
    <2>3. TableInv'
      BY <2>1, TableSame DEF SkillsInv
    <2>4. QED  BY <1>2, <2>2, <2>3, CallsSame DEF SkillsInv
  <1>3. CASE SkillsDie
    <2>1. /\ UNCHANGED <<declared, readable>> /\ tools' = [n \in ToolName |-> Nobody]
          /\ scan' = 0 /\ fresh' = {} /\ steady' = {}
          /\ mpc' = [r \in McpReq |-> "idle"] /\ wanted' = [r \in McpReq |-> Nobody]
          /\ result' = [r \in McpReq |-> "none"] /\ inner' = [r \in McpReq |-> "none"]
          /\ acts' = [r \in McpReq |-> 0] /\ done' = {}
      BY <1>3 DEF SkillsDie
    <2>2. 0 \in 0 .. Len(ScanOrder)
      BY ScanOrderFacts
    <2>3. SkillsTypeOK'
      BY <1>1, <2>1, <2>2 DEF SkillsInv, SkillsTypeOK, ScanOrder
    <2>4. \A n \in ToolName : Offerers(n) = {} => Declarers(n) = {}
      BY ScanOrderFacts DEF Offerers, Declarers, SkillsInv, TableInv
    <2>5. TableInv'
      BY <2>1, <2>4, DeclarersSame DEF SkillsInv, TableInv, Offerers, LastOf
    <2>6. (\A r \in McpReq : CallInv(r)') /\ SeesWholeTable
      BY <2>1 DEF CallInv, SeesWholeTable
    <2>7. QED  BY <2>3, <2>5, <2>6 DEF SkillsInv
  <1>4. QED  BY <1>2, <1>3 DEF SkillsBoot, SkillsListen

LEMMA SkillsStep ==
  ASSUME SkillsInv, [SkillsNext]_skillsVars
  PROVE  SkillsInv' /\ SeesWholeTable
  <1>1. CASE SkillsNext
    BY <1>1, SkillsProcessStep, ScanProjectsStep, LoadManifestStep, EditManifestStep,
       McpArriveStep, GetToolsStep, GetToolStep, SendSelfStep, ServeInnerStep,
       DispatchStep, OutsideEndsStep, McpReleaseStep
    DEF SkillsNext, McpStep
  <1>2. CASE UNCHANGED skillsVars
    <2>1. UNCHANGED <<phase, token, declared, readable, tools, scan, fresh, steady, mpc,
                      wanted, result, inner, acts, done, callVars>>
      BY <1>2 DEF skillsVars, portVars, tableVars, callVars
    <2>2. SkillsTypeOK'
      BY <2>1 DEF SkillsInv, SkillsTypeOK, PortTypeOK, ScanOrder
    <2>3. TableInv'
      BY <2>1, TableSame DEF SkillsInv
    <2>4. QED  BY <2>1, <2>2, <2>3, CallsSame DEF SkillsInv
  <1>3. QED  BY <1>1, <1>2

\* The table of tools, the scan and the calls have their types, for any roster,
\* any manifests and any number of calls (Aggregator, HandleMCP).
THEOREM SkillsTypeCorrect == SkillsSpec => []SkillsTypeOK
  <1>1. SkillsInv => SkillsTypeOK  BY DEF SkillsInv
  <1>2. QED  BY SkillsInitInv, SkillsStep, <1>1, PTL DEF SkillsSpec

\* The invariant is enough for what an agent is told.
LEMMA ResultFromInv == SkillsInv => ResultIsHonest
  <1> SUFFICES ASSUME SkillsInv, NEW r \in McpReq
               PROVE  /\ acts[r] <= 1
                      /\ result[r] = "ok" /\ wanted[r] # Nobody => r \in done
                      /\ result[r] \in {"refused", "not found"} => acts[r] = 0 /\ r \notin done
    BY DEF ResultIsHonest
  <1>1. CallInv(r) /\ mpc[r] \in {"idle", "list", "lookup", "self", "dispatch", "http",
                                  "command", "answered"}
    BY DEF SkillsInv, SkillsTypeOK
  <1>2. CASE mpc[r] = "answered"
    <2>1. /\ acts[r] \in {0, 1}
          /\ result[r] = "ok" => r \in done \/ wanted[r] = Nobody
          /\ result[r] \in {"refused", "not found"} => acts[r] = 0 /\ r \notin done
      BY <1>1, <1>2 DEF CallInv
    <2>2. acts[r] \in {0, 1}  BY <2>1, Zenon
    <2>3. acts[r] <= 1  BY <2>2
    <2>4. QED  BY <2>1, <2>3, Zenon
  <1>3. CASE mpc[r] # "answered"
    <2>1. result[r] = "none" /\ acts[r] \in {0, 1}
      BY <1>1, <1>3 DEF CallInv
    <2>2. QED  BY <2>1
  <1>4. QED  BY <1>2, <1>3

\* What an agent is told of a call is so (doHTTP, HandleMCP, handleBackup,
\* handleReset, the furnish handlers): "ok" means that what the tool is for was
\* so when its handler was through, brought about or found; a refusal that
\* nothing was done; and a dispatch that timed out and is served later still
\* does its work no more than once.
THEOREM SkillsAreHonest == SkillsSpec => []ResultIsHonest
  <1>1. QED  BY SkillsInitInv, SkillsStep, ResultFromInv, PTL DEF SkillsSpec

\* Whoever lists the tools or looks one up sees a table that was built whole
\* (ScanProjects holds the write lock from the first manifest to the last):
\* every name whose manifests have not changed since that scan began has its
\* rightful owner, also when other manifests change or cannot be read.
THEOREM SkillsSeeWholeTable == SkillsSpec => ToolsCurrent
  <1>1. SkillsInv /\ [SkillsNext]_skillsVars => SkillsInv' /\ [SeesWholeTable]_skillsVars
    BY SkillsStep
  <1>2. QED  BY SkillsInitInv, <1>1, PTL DEF SkillsSpec, ToolsCurrent, SeesWholeTable

-----------------------------------------------------------------------------
(***************************************************************************)
(* The LLM routes.                                                         *)
(***************************************************************************)
\* What SweepIsTrue says of a step.
SweepTold ==
  (rpc \in {"sync", "write"} /\ rpc' = "wait" /\ ~cut') =>
    /\ \A p \in same : p \in routes' <=> Routable(p)
    /\ present' = "whole" <=> routes' # {}
    /\ present' # "torn"

LEMMA RoutesInitInv == RoutesInit => RoutesInv
  <1> SUFFICES ASSUME RoutesInit PROVE RoutesInv  OBVIOUS
  <1>1. RoutesTypeOK
    BY DEF RoutesInit, RoutesTypeOK
  <1>2. SweepInv
    BY RoutesAssumption DEF RoutesInit, SweepInv
  <1>3. QED  BY <1>1, <1>2 DEF RoutesInv

LEMMA DiscoverStep ==
  ASSUME RoutesInv, DiscoverLocalLLMs
  PROVE  RoutesInv' /\ SweepTold
  BY DEF DiscoverLocalLLMs, RoutesInv, RoutesTypeOK, SweepInv, SweepTold, ConditionOf

\* A probe adds what it found of its provider, and of no other.  Of a context
\* that is done it finds nothing, and the sweep counts as cut.
LEMMA ProbeStep ==
  ASSUME RoutesInv, NEW p \in unprobed, NEW found, Probed(p, found), rpc = "probe",
         retried \in {"none", p},
         found \subseteq {<<p, TRUE>>, <<p, FALSE>>},
         ctx => (<<p, TRUE>> \in found <=> Routable(p))
  PROVE  RoutesInv' /\ SweepTold
  <1>1. /\ UNCHANGED <<condition, present, routes, ctx, same>>
        /\ unprobed' = unprobed \ {p} /\ retried' = "none"
        /\ sources' = sources \cup found /\ cut' = (cut \/ ~ctx)
        /\ rpc' = IF unprobed = {p} THEN "sync" ELSE "probe"
    BY DEF Probed
  <1>2. p \in Provider /\ sources' \subseteq Provider \X BOOLEAN
    <2>1. p \in Provider /\ sources \subseteq Provider \X BOOLEAN
      BY DEF RoutesInv, RoutesTypeOK
    <2>2. <<p, TRUE>> \in Provider \X BOOLEAN /\ <<p, FALSE>> \in Provider \X BOOLEAN
      BY <2>1, Zenon
    <2>3. found \subseteq Provider \X BOOLEAN  BY <2>2, Zenon
    <2>4. QED  BY <1>1, <2>1, <2>3, Zenon
  <1>3. cut' \in BOOLEAN
    BY <1>1
  <1>4. RoutesTypeOK'
    BY <1>1, <1>2, <1>3 DEF RoutesInv, RoutesTypeOK
  <1>5. \A q \in Provider : Routable(q)' <=> Routable(q)
    BY <1>1 DEF Routable
  <1>6. \A q \in Provider : q \in Active' <=> <<q, TRUE>> \in sources'
    BY DEF Active
  <1>7. ASSUME ~cut', NEW q \in same' \ unprobed'
        PROVE  q \in Active' <=> Routable(q)'
    <2>1. ~cut /\ ctx /\ q \in Provider /\ q \in same
      BY <1>1, <1>7 DEF RoutesInv, RoutesTypeOK
    <2>2. CASE q = p
      <3>1. <<p, TRUE>> \notin sources
        BY DEF RoutesInv, SweepInv
      <3>2. QED  BY <1>1, <1>5, <1>6, <2>1, <2>2, <3>1
    <2>3. CASE q # p
      <3>1. q \in Active <=> Routable(q)
        BY <1>1, <1>7, <2>1, <2>3 DEF RoutesInv, SweepInv
      <3>2. <<q, TRUE>> \in sources' <=> <<q, TRUE>> \in sources
        BY <1>1, <2>3
      <3>3. QED  BY <1>5, <1>6, <2>1, <3>1, <3>2 DEF Active
    <2>4. QED  BY <2>2, <2>3
  <1>8. \A q \in unprobed', m \in BOOLEAN : <<q, m>> \notin sources'
    <2>1. \A q \in unprobed', m \in BOOLEAN : <<q, m>> \notin sources /\ q # p
      BY <1>1 DEF RoutesInv, SweepInv
    <2>2. QED  BY <1>1, <2>1
  <1>9. SweepInv'
    <2>1. \A q \in Provider : condition'[q] \in ConditionOf(q)
      BY <1>1 DEF RoutesInv, SweepInv
    <2>2. rpc' # "probe" => unprobed' = {} /\ retried' = "none"
      BY <1>1
    <2>3. QED  BY <1>1, <1>7, <1>8, <2>1, <2>2 DEF SweepInv, ConditionOf
  <1>10. QED  BY <1>1, <1>4, <1>9 DEF RoutesInv, SweepTold

LEMMA CheckOllamaStep ==
  ASSUME RoutesInv, NEW p \in Provider, CheckOllama(p)
  PROVE  RoutesInv' /\ SweepTold
  <1> DEFINE found == IF ctx /\ condition[p] # "down" THEN {<<p, condition[p] = "up">>} ELSE {}
  <1>1. rpc = "probe" /\ retried = "none" /\ p \in unprobed /\ Probed(p, found)
    BY DEF CheckOllama
  <1>2. TypeOf[p] = "ollama" /\ condition[p] \in {"down", "up", "empty"}
    BY DEF CheckOllama, RoutesInv, SweepInv, ConditionOf
  <1>3. found \subseteq {<<p, TRUE>>, <<p, FALSE>>}
    <2>1. (condition[p] = "up") \in BOOLEAN  OBVIOUS
    <2>2. QED  BY <2>1
  <1>4. ctx => (<<p, TRUE>> \in found <=> Routable(p))
    <2>1. CASE condition[p] = "up"  BY <1>2, <2>1 DEF Routable
    <2>2. CASE condition[p] # "up"
      <3>1. <<p, TRUE>> \notin found  BY <2>2
      <3>2. QED  BY <1>2, <2>2, <3>1 DEF Routable
    <2>3. QED  BY <2>1, <2>2
  <1> HIDE DEF found
  <1>5. QED  BY <1>1, <1>3, <1>4, ProbeStep

LEMMA CheckLlamaStep ==
  ASSUME RoutesInv, NEW p \in Provider, CheckLlamaCpp(p)
  PROVE  RoutesInv' /\ SweepTold
  <1>1. /\ rpc = "probe" /\ p \in unprobed /\ TypeOf[p] = "llama"
        /\ condition[p] \in {"down", "up", "models"} /\ p # "none"
    BY RoutesAssumption DEF CheckLlamaCpp, RoutesInv, SweepInv, ConditionOf
  <1>2. CASE retried = "none" /\ ctx /\ condition[p] = "up" /\ Probed(p, {<<p, TRUE>>})
    BY <1>1, <1>2, ProbeStep DEF Routable
  <1>3. CASE /\ retried = "none" /\ retried' = p
             /\ UNCHANGED <<condition, rpc, unprobed, sources, present, routes, ctx, same, cut>>
    <2>1. RoutesTypeOK'
      BY <1>3 DEF RoutesInv, RoutesTypeOK
    <2>2. SweepInv'
      BY <1>1, <1>3 DEF RoutesInv, SweepInv, ConditionOf, Active, Routable
    <2>3. QED  BY <1>1, <1>3, <2>1, <2>2 DEF RoutesInv, SweepTold
  <1>4. CASE /\ retried = p
             /\ Probed(p, IF ctx /\ condition[p] \in {"up", "models"} THEN {<<p, TRUE>>} ELSE {})
    <2> DEFINE found == IF ctx /\ condition[p] \in {"up", "models"} THEN {<<p, TRUE>>} ELSE {}
    <2>1. found \subseteq {<<p, TRUE>>, <<p, FALSE>>}  OBVIOUS
    <2>2. ctx => (<<p, TRUE>> \in found <=> Routable(p))
      BY <1>1 DEF Routable
    <2>3. Probed(p, found)  BY <1>4
    <2> HIDE DEF found
    <2>4. QED  BY <1>1, <1>4, <2>1, <2>2, <2>3, ProbeStep
  <1>5. QED  BY <1>2, <1>3, <1>4 DEF CheckLlamaCpp

LEMMA PassOverStep ==
  ASSUME RoutesInv, NEW p \in Provider, PassOver(p)
  PROVE  RoutesInv' /\ SweepTold
  BY ProbeStep DEF PassOver, Routable

\* The file is written or removed: every provider has been probed.
LEMMA FileStep ==
  ASSUME RoutesInv, RemoveFile \/ Truncate \/ WriteFile
  PROVE  RoutesInv' /\ SweepTold
  <1>1. /\ UNCHANGED <<condition, unprobed, retried, ctx, same>>
        /\ rpc \in {"sync", "write"}
        /\ \/ /\ rpc' = "wait" /\ sources' = {}
              /\ \/ /\ cut' = cut
                    /\ \/ Active = {} /\ present' = "absent" /\ routes' = {}
                       \/ rpc = "write" /\ present' = "whole" /\ routes' = Active
                 \/ cut' = TRUE /\ UNCHANGED <<present, routes>>
           \/ /\ Active # {} /\ rpc' = "write" /\ present' = "torn" /\ routes' = {}
              /\ UNCHANGED <<sources, cut>>
    BY DEF RemoveFile, Truncate, WriteFile, SweepEnds, RoutesInv, RoutesTypeOK
  <1>2. unprobed = {} /\ retried = "none" /\ (rpc = "write" => Active # {})
    BY <1>1 DEF RoutesInv, SweepInv
  <1>3. Active \subseteq Provider  BY DEF Active
  <1>4. RoutesTypeOK'
    BY <1>1, <1>3 DEF RoutesInv, RoutesTypeOK
  <1>5. SweepInv'
    <2>1. \A p \in Provider : condition'[p] \in ConditionOf(p) /\ (Routable(p)' <=> Routable(p))
      BY <1>1 DEF RoutesInv, SweepInv, Routable
    <2>2. CASE rpc' = "wait"
      BY <1>1, <1>2, <2>1, <2>2 DEF SweepInv, ConditionOf
    <2>3. CASE rpc' = "write" /\ Active # {} /\ UNCHANGED <<sources, cut>>
      <3>1. Active' = Active  BY <2>3 DEF Active
      <3>2. \A p \in same : p \in Provider  BY DEF RoutesInv, RoutesTypeOK
      <3>3. QED
        BY <1>1, <1>2, <2>1, <2>3, <3>1, <3>2 DEF RoutesInv, SweepInv, ConditionOf
    <2>4. QED  BY <1>1, <2>2, <2>3
  <1>6. SweepTold
    <2> SUFFICES ASSUME rpc' = "wait", ~cut'
                 PROVE  /\ \A p \in same : p \in routes' <=> Routable(p)
                        /\ present' = "whole" <=> routes' # {}
                        /\ present' # "torn"
      BY DEF SweepTold
    <2>1. \A p \in same : p \in Active <=> Routable(p)
      BY <1>1, <1>2 DEF RoutesInv, SweepInv
    <2>2. routes' = Active /\ present' = IF Active = {} THEN "absent" ELSE "whole"
      BY <1>1, <1>2
    <2>3. QED  BY <2>1, <2>2
  <1>7. QED  BY <1>4, <1>5, <1>6 DEF RoutesInv

LEMMA ProviderTurnsStep ==
  ASSUME RoutesInv, NEW p \in Provider, ProviderTurns(p)
  PROVE  RoutesInv' /\ SweepTold
  <1>1. /\ UNCHANGED <<rpc, unprobed, retried, sources, cut, present, routes, ctx>>
        /\ same' = same \ {p}
    BY DEF ProviderTurns
  <1>2. ConditionOf(p) \subseteq Condition
    BY DEF ConditionOf, Condition
  <1>3. /\ condition' \in [Provider -> Condition] /\ condition'[p] \in ConditionOf(p)
        /\ \A q \in Provider \ {p} : condition'[q] = condition[q]
    BY <1>2 DEF ProviderTurns, RoutesInv, RoutesTypeOK
  <1>4. RoutesTypeOK'
    BY <1>1, <1>3 DEF RoutesInv, RoutesTypeOK
  <1>5. \A q \in Provider : condition'[q] \in ConditionOf(q)
    BY <1>3 DEF RoutesInv, SweepInv
  <1>6. \A q \in same' : q \in Provider /\ q \in same /\ (Routable(q)' <=> Routable(q))
    BY <1>1, <1>3 DEF RoutesInv, RoutesTypeOK, Routable
  <1>7. SweepInv'
    BY <1>1, <1>5, <1>6 DEF RoutesInv, SweepInv, ConditionOf, Active
  <1>8. QED  BY <1>1, <1>4, <1>7 DEF RoutesInv, SweepTold

\* The process and its context.
LEMMA RoutesProcessStep ==
  ASSUME RoutesInv, RoutesReturn \/ RoutesBoot \/ RoutesCancel \/ RoutesDie \/ UNCHANGED routesVars
  PROVE  RoutesInv' /\ SweepTold
  <1>1. UNCHANGED <<condition, present, routes>> /\ ctx' \in BOOLEAN
    BY DEF RoutesReturn, RoutesBoot, RoutesCancel, RoutesDie, routesVars, RoutesInv, RoutesTypeOK
  <1>2. \/ /\ rpc' = "off" /\ unprobed' = {} /\ retried' = "none" /\ sources' = {}
           /\ same' = {} /\ cut' = FALSE
        \/ /\ UNCHANGED <<unprobed, retried, sources, same, cut>>
           /\ \/ rpc' = rpc
              \/ rpc \in {"wait", "off"} /\ rpc' \in {"wait", "returned"}
    BY DEF RoutesReturn, RoutesBoot, RoutesCancel, RoutesDie, routesVars, sweepVars
  <1>3. RoutesTypeOK'
    BY <1>1, <1>2 DEF RoutesInv, RoutesTypeOK
  <1>4. \A p \in Provider : (Routable(p)' <=> Routable(p)) /\ condition'[p] \in ConditionOf(p)
    BY <1>1 DEF Routable, RoutesInv, SweepInv
  <1>5. SweepInv'
    BY <1>1, <1>2, <1>4 DEF RoutesInv, RoutesTypeOK, SweepInv, ConditionOf, Active
  <1>6. SweepTold
    BY <1>2 DEF SweepTold
  <1>7. QED  BY <1>3, <1>5, <1>6 DEF RoutesInv

LEMMA RoutesStep ==
  ASSUME RoutesInv, [RoutesNext]_routesVars
  PROVE  RoutesInv' /\ SweepTold
  BY DiscoverStep, CheckOllamaStep, CheckLlamaStep, PassOverStep, FileStep,
     ProviderTurnsStep, RoutesProcessStep
  DEF RoutesNext, Sweep

\* The sweep, its file and the providers have their types, for any providers.
THEOREM RoutesTypeCorrect == RoutesSpec => []RoutesTypeOK
  <1>1. RoutesInv => RoutesTypeOK  BY DEF RoutesInv
  <1>2. QED  BY RoutesInitInv, RoutesStep, <1>1, PTL DEF RoutesSpec

\* SyncLLMRoutes leaves a true file (DiscoverLocalLLMs, checkLlamaCpp): after
\* a sweep that was neither cancelled nor kept from writing it routes to the
\* providers that were up throughout and to none that were not, and there is
\* no file without routes, whichever providers turned during the sweep.
THEOREM RoutesAreTrue == RoutesSpec => SweepIsTrue
  <1>1. RoutesInv /\ [RoutesNext]_routesVars => RoutesInv' /\ [SweepTold]_routesVars
    BY RoutesStep
  <1>2. QED  BY RoutesInitInv, <1>1, PTL DEF RoutesSpec, SweepIsTrue, SweepTold

-----------------------------------------------------------------------------
(***************************************************************************)
(* The model deployments.                                                  *)
(***************************************************************************)
\* A set that loads is a list of descriptors.
LEMMA LoadedSet ==
  ASSUME deployments \in DeploymentFile, LoadDeploymentSet
  PROVE  /\ deployments \in Seq(Descriptor)
         /\ \A i \in DOMAIN deployments : deployments[i] \in Descriptor
  <1>1. deployments # Unreadable
    <2> SUFFICES ASSUME deployments = <<NoDeployment>> PROVE FALSE
      BY DEF Unreadable
    <2>1. 1 \in DOMAIN deployments /\ deployments[1] = NoDeployment
      OBVIOUS
    <2>2. ValidDescriptor(deployments[1])  BY <2>1, Zenon DEF LoadDeploymentSet
    <2>3. ValidDescriptor(NoDeployment)  BY <2>1, <2>2
    <2>4. QED  BY <2>3 DEF ValidDescriptor, NoDeployment, Architecture
  <1>2. deployments \in Seq(Descriptor)
    BY <1>1, HostingAssumption DEF Descriptor
  <1>3. QED  BY <1>2

Rung == Descriptor \X {"declared", "reachable"}

\* The rungs are of descriptors of the set.
LEMMA RungsType ==
  ASSUME NEW ds \in Seq(Descriptor)
  PROVE  Rungs(ds) \in Seq(Rung)
  <1>1. Len(ds) \in Nat /\ \A i \in 1 .. Len(ds) : ds[i] \in Descriptor
    OBVIOUS
  <1>2. 2 * Len(ds) \in Nat  BY <1>1
  <1>3. ASSUME NEW k \in 1 .. 2 * Len(ds)
        PROVE  <<ds[(k + 1) \div 2], IF k % 2 = 1 THEN "declared" ELSE "reachable">> \in Rung
    <2>1. (k + 1) \div 2 \in 1 .. Len(ds)  BY <1>1, <1>2, <1>3
    <2>2. ds[(k + 1) \div 2] \in Descriptor  BY <1>1, <2>1
    <2>3. QED  BY <2>2 DEF Rung
  <1>4. QED  BY <1>2, <1>3 DEF Rungs

\* What is behind the head of a list.
LEMMA TailFacts ==
  ASSUME NEW S, NEW q \in Seq(S), q # <<>>
  PROVE  /\ Head(q) = q[1] /\ 1 \in DOMAIN q /\ q[1] \in S
         /\ Tail(q) \in Seq(S) /\ Len(q) \in Nat
         /\ ~(Len(q) > 1) => Len(q) = 1
         /\ Len(q) = 1 => Tail(q) = <<>>
         /\ \A i \in DOMAIN Tail(q) : i + 1 \in DOMAIN q /\ Tail(q)[i] = q[i + 1]
  <1>1. Len(q) \in Nat /\ DOMAIN q = 1 .. Len(q)
    OBVIOUS
  <1>2. Len(q) # 0  OBVIOUS
  <1>3. Len(q) >= 1 /\ 1 \in DOMAIN q  BY <1>1, <1>2
  <1>4. Head(q) = q[1] /\ q[1] \in S  BY <1>3
  <1>5. Tail(q) \in Seq(S) /\ Len(Tail(q)) = Len(q) - 1
    OBVIOUS
  <1>6. Len(q) = 1 => Tail(q) = <<>>
    <2>1. \A w \in Seq(S) : Len(w) = 0 => w = <<>>  OBVIOUS
    <2>2. Len(q) = 1 => Len(Tail(q)) = 0  BY <1>5
    <2>3. QED  BY <1>5, <2>1, <2>2, Zenon
  <1>7. DOMAIN Tail(q) = 1 .. Len(q) - 1
    BY <1>5
  <1>8. ASSUME NEW i \in DOMAIN Tail(q)
        PROVE  i + 1 \in DOMAIN q /\ Tail(q)[i] = q[i + 1]
    <2>1. i \in 1 .. Len(q) - 1  BY <1>7
    <2>2. i + 1 \in DOMAIN q  BY <1>1, <2>1
    <2>3. QED  BY <2>1, <2>2
  <1>9. ~(Len(q) > 1) => Len(q) = 1  BY <1>1, <1>3
  <1>10. QED  BY <1>1, <1>3, <1>4, <1>5, <1>6, <1>8, <1>9

\* Where no rung is RED overall, every rung is GREEN.
LEMMA HealthyIsGreen ==
  ASSUME NEW results, \A t \in results : t.state \in {Green, Red}, Healthy(results)
  PROVE  \A t \in results : t.state = Green
  <1> SUFFICES ASSUME NEW t \in results, t.state = Red PROVE FALSE
    OBVIOUS
  <1> DEFINE S == {v.state : v \in {u \in results : u.of = t.of}}
  <1>1. Red \in S /\ S \subseteq {Green, Red} /\ S # {}
    OBVIOUS
  <1>2. WorstState(S) # Red
    BY DEF Healthy
  <1> HIDE DEF S
  <1>3. \A s \in S : (\A v \in S : s >= v) => s = Red
    BY <1>1 DEF Green, Red
  <1>4. \A v \in S : Red >= v
    BY <1>1 DEF Green, Red
  <1>5. (CHOOSE s \in S : \A v \in S : s >= v) = Red
    BY <1>1, <1>3, <1>4
  <1>6. WorstState(S) = CHOOSE s \in S : \A v \in S : s >= v
    BY <1>1, Zenon DEF WorstState
  <1>7. QED  BY <1>2, <1>5, <1>6

LEMMA HostingInitInv == HostingInit => HostingInv
  <1> SUFFICES ASSUME HostingInit PROVE HostingInv  OBVIOUS
  <1>1. HostingTypeOK
    BY HostingAssumption DEF HostingInit, HostingTypeOK
  <1>2. Remaining /\ UpInv /\ DownInv /\ HealthInv
    BY DEF HostingInit, Remaining, UpInv, DownInv, HealthInv
  <1>3. QED  BY <1>1, <1>2 DEF HostingInv

-----------------------------------------------------------------------------
\* Somebody else changes the host: a plan is no longer calm, and what stands
\* now goes into health's history.
LEMMA DisturbedStep ==
  ASSUME HostingInv, Disturbed,
         weights' \subseteq IsPath, ollama' \in BOOLEAN, tags' \subseteq Location,
         ram' \subseteq tags', server' \in [Port -> Location \cup {"none"}], away' \subseteq Port
  PROVE  HostingInv'
  <1>1. /\ UNCHANGED <<deployments, command, about, todo, tiers, verdict>>
        /\ calm' = (command \in {"none", "health"})
        /\ lit' = lit \cup {todo[i] : i \in {j \in DOMAIN todo : command = "health" /\ Stands(todo[j])'}}
    BY DEF Disturbed
  <1>2. calm' \in BOOLEAN /\ (command \in {"up", "down"} => ~calm')
    <2>1. calm' \in BOOLEAN  BY <1>1
    <2>2. command \in {"up", "down"} => command \notin {"none", "health"}  OBVIOUS
    <2>3. QED  BY <1>1, <2>1, <2>2, Zenon
  <1>3. HostingTypeOK'
    BY <1>1, <1>2 DEF HostingInv, HostingTypeOK
  <1>4. Remaining'
    <2>1. command # "health" => lit' = lit  BY <1>1
    <2>2. QED  BY <1>1, <2>1 DEF HostingInv, Remaining, BringUp, Teardown, Step
  <1>5. UpInv' /\ DownInv'
    BY <1>1, <1>2 DEF UpInv, DownInv
  <1>6. HealthInv'
    <2> SUFFICES ASSUME command = "health"
                 PROVE  /\ \A i \in DOMAIN todo : Stands(todo[i])' => todo[i] \in lit'
                        /\ \A t \in tiers : t.state = Green => <<t.of, t.tier>> \in lit'
                        /\ verdict = "ok" => \A t \in tiers : t.state = Green
      BY <1>1 DEF HealthInv, Stands, Answers
    <2>1. \A i \in DOMAIN todo : Stands(todo[i])' => todo[i] \in lit'
      BY <1>1
    <2>2. lit \subseteq lit'  BY <1>1
    <2>3. QED  BY <2>1, <2>2 DEF HostingInv, HealthInv
  <1>7. QED  BY <1>3, <1>4, <1>5, <1>6 DEF HostingInv

LEMMA HostTurnsStep ==
  ASSUME HostingInv,
         \/ OllamaTurns
         \/ \E l \in Location : OllamaUsed(l) \/ WeightsMove(l)
         \/ \E p \in Port : ServerTurns(p) \/ AwayTurns(p)
  PROVE  HostingInv'
  <1>1. CASE OllamaTurns
    <2>1. ollama' \in BOOLEAN  BY <1>1 DEF OllamaTurns
    <2>2. QED  BY <1>1, <2>1, DisturbedStep DEF OllamaTurns, HostingInv, HostingTypeOK
  <1>2. ASSUME NEW l \in Location, OllamaUsed(l) PROVE HostingInv'
    BY <1>2, DisturbedStep DEF OllamaUsed, HostingInv, HostingTypeOK
  <1>3. ASSUME NEW l \in Location, WeightsMove(l) PROVE HostingInv'
    BY <1>3, DisturbedStep DEF WeightsMove, HostingInv, HostingTypeOK
  <1>4. ASSUME NEW p \in Port, ServerTurns(p) PROVE HostingInv'
    <2>1. PICK l \in weights \cup {"none"} : server' = [server EXCEPT ![p] = l]
      BY <1>4 DEF ServerTurns
    <2>2. server' \in [Port -> Location \cup {"none"}]
      BY <2>1, HostingAssumption DEF HostingInv, HostingTypeOK
    <2>3. QED  BY <1>4, <2>2, DisturbedStep DEF ServerTurns, HostingInv, HostingTypeOK
  <1>5. ASSUME NEW p \in Port, AwayTurns(p) PROVE HostingInv'
    BY <1>5, DisturbedStep DEF AwayTurns, HostingInv, HostingTypeOK
  <1>6. QED  BY <1>1, <1>2, <1>3, <1>4, <1>5

\* A command ends, or the set is edited between commands.
LEMMA BetweenStep ==
  ASSUME HostingInv, CommandEnds \/ EditDeployments
  PROVE  HostingInv'
  <1>1. /\ UNCHANGED <<weights, ollama, tags, ram, server, away>>
        /\ deployments' \in DeploymentFile /\ command' = "none" /\ about' = NoDeployment
        /\ todo' = <<>> /\ tiers' = {} /\ verdict' = "none" /\ calm' \in BOOLEAN /\ lit' = {}
    BY DEF CommandEnds, EditDeployments, hostVars, commandVars, HostingInv, HostingTypeOK,
           Remaining
  <1>2. HostingTypeOK'
    BY <1>1 DEF HostingInv, HostingTypeOK
  <1>3. Remaining' /\ UpInv' /\ DownInv' /\ HealthInv'
    BY <1>1 DEF Remaining, UpInv, DownInv, HealthInv
  <1>4. QED  BY <1>2, <1>3 DEF HostingInv

\* A plan is printed, or refused.
LEMMA PlanStep ==
  ASSUME HostingInv, NEW c \in {"up", "down"}, Plan(c)
  PROVE  HostingInv'
  <1>1. /\ UNCHANGED <<deployments, weights, ollama, tags, ram, server, away, tiers, calm>>
        /\ command = "none" /\ command' = c /\ was' = Host
    BY DEF Plan, hostVars
  <1>2. verdict = "none" /\ about = NoDeployment /\ tiers = {} /\ lit = {} /\ todo = <<>>
    BY <1>1 DEF HostingInv, Remaining
  <1>3. \/ verdict' = "failed" /\ about' = about /\ todo' = todo
        \/ /\ verdict' = verdict /\ about' \in Descriptor
           /\ todo' = IF c = "up" THEN BringUp(about') ELSE Teardown(about')
    <2>1. deployments \in DeploymentFile  BY DEF HostingInv, HostingTypeOK
    <2>2. QED  BY <2>1, LoadedSet DEF Plan, Refuse
  <1>4. HostingTypeOK'
    BY <1>1, <1>2, <1>3 DEF HostingInv, HostingTypeOK
  <1>5. Remaining'
    BY <1>1, <1>2, <1>3 DEF Remaining, BringUp, Teardown, Step
  <1>6. Host' = Host  BY <1>1 DEF Host
  <1>7. /\ Host.tags = tags /\ Host.ram = ram /\ Host.server = server
        /\ server \in [Port -> Location \cup {"none"}]
    BY DEF Host, HostingInv, HostingTypeOK
  <1>8. UpInv'
    <2> SUFFICES ASSUME c = "up"
                 PROVE  /\ was' = [tags |-> was'.tags, ram |-> was'.ram, server |-> was'.server]
                        /\ was'.server \in [Port -> Location \cup {"none"}]
                        /\ was'.tags \subseteq tags' /\ was'.ram \subseteq ram'
                        /\ \A p \in Port : was'.server[p] \in {server'[p], "none"}
                        /\ Host' = was' /\ verdict' # "ok"
                        /\ verdict' = "none" => todo' = BringUp(about')
      BY <1>1 DEF UpInv, BringUp, Step
    <2>1. was' = [tags |-> was'.tags, ram |-> was'.ram, server |-> was'.server]
      BY <1>1 DEF Host
    <2>2. QED  BY <1>1, <1>2, <1>3, <1>6, <1>7, <2>1
  <1>9. DownInv' /\ HealthInv'
    BY <1>1, <1>2, <1>3, <1>6 DEF DownInv, HealthInv
  <1>10. QED  BY <1>4, <1>5, <1>8, <1>9 DEF HostingInv

-----------------------------------------------------------------------------
\* Health begins with every rung ahead of it, and knows which of them stand.
LEMMA HealthStep ==
  ASSUME HostingInv, Health
  PROVE  HostingInv'
  <1>1. /\ UNCHANGED <<deployments, weights, ollama, tags, ram, server, away, tiers, calm, about>>
        /\ command = "none" /\ command' = "health"
    BY DEF Health, Refuse, hostVars
  <1>2. tiers = {} /\ todo = <<>> /\ deployments \in DeploymentFile
    BY <1>1 DEF HostingInv, Remaining, HostingTypeOK
  <1>3. CASE Refuse
    <2>1. verdict' = "failed" /\ todo' = <<>>
      BY <1>2, <1>3 DEF Refuse
    <2>2. HostingTypeOK' /\ Remaining'
      BY <1>1, <1>2, <2>1 DEF HostingInv, HostingTypeOK, Remaining
    <2>3. UpInv' /\ DownInv' /\ HealthInv'
      BY <1>1, <1>2, <2>1 DEF UpInv, DownInv, HealthInv
    <2>4. QED  BY <2>2, <2>3 DEF HostingInv
  <1>4. CASE /\ LoadDeploymentSet
             /\ \/ todo' = Rungs(deployments)
                \/ \E i \in DOMAIN deployments : todo' = Rungs(<<deployments[i]>>)
             /\ lit' = {todo'[i] : i \in {j \in DOMAIN todo' : Stands(todo'[j])}}
             /\ verdict' = IF todo' = <<>> THEN "ok" ELSE "none"
    <2>1. deployments \in Seq(Descriptor) /\ \A i \in DOMAIN deployments : deployments[i] \in Descriptor
      BY <1>2, <1>4, LoadedSet
    <2>2. \A i \in DOMAIN deployments : <<deployments[i]>> \in Seq(Descriptor)
      BY <2>1
    <2>3. todo' \in Seq(Rung)
      BY <1>4, <2>1, <2>2, RungsType
    <2>4. HostingTypeOK'
      BY <1>1, <1>2, <1>4 DEF HostingInv, HostingTypeOK
    <2>5. Remaining'
      BY <1>1, <1>4, <2>3 DEF Remaining, Rung, Descriptor
    <2>6. UpInv' /\ DownInv'
      BY <1>1 DEF UpInv, DownInv
    <2>7. \A i \in DOMAIN todo' : (Stands(todo[i]))' <=> Stands(todo'[i])
      BY <1>1 DEF Stands, Answers
    <2>8. HealthInv'
      BY <1>1, <1>2, <1>4, <2>7 DEF HealthInv
    <2>9. QED  BY <2>4, <2>5, <2>6, <2>8 DEF HostingInv
  <1>5. QED  BY <1>3, <1>4 DEF Health

\* One rung is assessed; GREEN only if it stands at that moment.
LEMMA AssessStep ==
  ASSUME HostingInv, Assess
  PROVE  HostingInv'
  <1> DEFINE rung == Head(todo)
  <1>1. /\ UNCHANGED <<deployments, weights, ollama, tags, ram, server, away, command, about, calm, was, lit>>
        /\ command = "health" /\ todo # <<>> /\ todo' = Tail(todo)
        /\ verdict' = IF Len(todo) > 1 THEN "none"
                      ELSE IF Healthy(tiers') THEN "ok" ELSE "failed"
    BY DEF Assess, hostVars
  <1>2. PICK s \in {Green, Red} :
          /\ s = Green => Stands(rung)
          /\ tiers' = tiers \cup {[of |-> rung[1], tier |-> rung[2], state |-> s]}
    BY DEF Assess
  <1>3. todo \in Seq(Rung) /\ verdict = "none"
    BY <1>1 DEF HostingInv, Remaining, HostingTypeOK, Rung
  <1>4. /\ rung = todo[1] /\ 1 \in DOMAIN todo /\ todo[1] \in Rung /\ todo' \in Seq(Rung)
        /\ ~(Len(todo) > 1) => Len(todo) = 1
        /\ Len(todo) = 1 => todo' = <<>>
        /\ \A i \in DOMAIN todo' : i + 1 \in DOMAIN todo /\ todo'[i] = todo[i + 1]
    BY <1>1, <1>3, TailFacts
  <1>5. rung = <<rung[1], rung[2]>>
    BY <1>4 DEF Rung
  <1>6. \A t \in tiers' : t.state \in {Green, Red}
    BY <1>2 DEF HostingInv, HostingTypeOK
  <1>7. verdict' \in {"none", "ok", "failed"} /\ (verdict' = "ok" => Healthy(tiers'))
    BY <1>1
  <1>8. verdict' # "none" => todo' = <<>>
    <2>1. CASE Len(todo) > 1
      <3>1. verdict' = "none"  BY <1>1, <2>1
      <3>2. QED  BY <3>1
    <2>2. CASE ~(Len(todo) > 1)
      <3>1. Len(todo) = 1  BY <1>4, <2>2
      <3>2. QED  BY <1>4, <3>1
    <2>3. QED  BY <2>1, <2>2
  <1>9. HostingTypeOK'
    BY <1>1, <1>6, <1>7 DEF HostingInv, HostingTypeOK
  <1>10. Remaining'
    BY <1>1, <1>4, <1>8 DEF Remaining, Rung, Descriptor
  <1>11. UpInv' /\ DownInv'
    BY <1>1 DEF UpInv, DownInv
  <1>12. HealthInv'
    <2>1. \A i \in DOMAIN todo' : (Stands(todo[i]))' => todo'[i] \in lit
      <3>1. \A i \in DOMAIN todo' : (Stands(todo[i]))' <=> Stands(todo'[i])
        BY <1>1 DEF Stands, Answers
      <3>2. \A i \in DOMAIN todo : Stands(todo[i]) => todo[i] \in lit
        BY <1>1 DEF HostingInv, HealthInv
      <3>3. QED  BY <1>4, <3>1, <3>2
    <2>2. ASSUME NEW t \in tiers', t.state = Green PROVE <<t.of, t.tier>> \in lit
      <3>1. CASE t \in tiers
        BY <1>1, <2>2, <3>1 DEF HostingInv, HealthInv
      <3>2. CASE t = [of |-> rung[1], tier |-> rung[2], state |-> s]
        <4>1. <<t.of, t.tier>> = rung /\ s = Green  BY <1>5, <2>2, <3>2
        <4>2. rung \in lit
          BY <1>1, <1>2, <1>4, <4>1 DEF HostingInv, HealthInv
        <4>3. QED  BY <4>1, <4>2
      <3>3. QED  BY <1>2, <3>1, <3>2
    <2>3. verdict' = "ok" => \A t \in tiers' : t.state = Green
      BY <1>6, <1>7, HealthyIsGreen
    <2>4. QED  BY <1>1, <2>1, <2>2, <2>3 DEF HealthInv
  <1>13. QED  BY <1>9, <1>10, <1>11, <1>12 DEF HostingInv

-----------------------------------------------------------------------------
\* What a step of a plan may have been, by the plan it is a step of.
StepFails == todo' = <<>> /\ verdict' = "failed" /\ UNCHANGED <<tags, ram, server>>

StepDone == todo' = <<>> /\ verdict' = "ok"

Registers ==
  /\ command = "up" /\ about.backend = "ollama"
  /\ todo' = <<Step("warm", about)>> /\ verdict' = "none"
  /\ tags' = IF \E t \in tags : Occurs(about.location, t) THEN tags ELSE tags \cup {about.location}
  /\ UNCHANGED <<ram, server>>

Warms ==
  /\ command = "up" /\ about.backend = "ollama" /\ todo = <<Step("warm", about)>>
  /\ StepDone
  /\ \/ (\E t \in ram : Occurs(about.location, t)) /\ UNCHANGED ram
     \/ /\ \A t \in ram : ~Occurs(about.location, t)
        /\ about.location \in tags /\ ram' = ram \cup {about.location}
  /\ UNCHANGED <<tags, server>>

Serves ==
  /\ command = "up" /\ about.backend = "llama-cpp"
  /\ StepDone
  /\ server[about.port] = "none" /\ server' = [server EXCEPT ![about.port] = about.location]
  /\ UNCHANGED <<tags, ram>>

Stops ==
  /\ command = "down" /\ about.backend = "ollama"
  /\ StepDone
  /\ ram' = ram \ {about.location}
  /\ UNCHANGED <<tags, server>>

Kills ==
  /\ command = "down" /\ about.backend = "llama-cpp"
  /\ StepDone
  /\ server' = [q \in Port |-> IF Begins(about.port, q) THEN "none" ELSE server[q]]
  /\ UNCHANGED <<tags, ram>>

Idles ==
  /\ about.backend \notin {"ollama", "llama-cpp"}
  /\ StepDone
  /\ UNCHANGED <<tags, ram, server>>

LEMMA RunStepIs ==
  ASSUME HostingInv, RunStep
  PROVE  /\ UNCHANGED <<deployments, weights, ollama, away, command, about, tiers, calm, was, lit>>
         /\ command \in {"up", "down"} /\ verdict = "none" /\ about \in Descriptor
         /\ StepFails \/ Registers \/ Warms \/ Serves \/ Stops \/ Kills \/ Idles
  <1>1. /\ UNCHANGED <<deployments, weights, ollama, away, command, about, tiers, calm, was, lit>>
        /\ command \in {"up", "down"} /\ todo # <<>>
    BY DEF RunStep, StepEnds
  <1>2. verdict = "none" /\ about \in Descriptor
    BY <1>1 DEF HostingInv, Remaining
  <1>3. \/ StepFails
        \/ /\ StepEnds(TRUE)
           /\ \/ /\ Head(todo).do = "register"
                 /\ tags' = IF \E t \in tags : Occurs(Head(todo).loc, t) THEN tags ELSE tags \cup {Head(todo).loc}
                 /\ UNCHANGED <<ram, server>>
              \/ /\ Head(todo).do = "warm"
                 /\ \/ (\E t \in ram : Occurs(Head(todo).loc, t)) /\ UNCHANGED ram
                    \/ /\ \A t \in ram : ~Occurs(Head(todo).loc, t)
                       /\ Head(todo).loc \in tags /\ ram' = ram \cup {Head(todo).loc}
                 /\ UNCHANGED <<tags, server>>
              \/ /\ Head(todo).do = "stop"
                 /\ ram' = ram \ {Head(todo).loc}
                 /\ UNCHANGED <<tags, server>>
              \/ /\ Head(todo).do = "serve" /\ server[Head(todo).port] = "none"
                 /\ server' = [server EXCEPT ![Head(todo).port] = Head(todo).loc]
                 /\ UNCHANGED <<tags, ram>>
              \/ /\ Head(todo).do = "pkill"
                 /\ server' = [q \in Port |-> IF Begins(Head(todo).port, q) THEN "none" ELSE server[q]]
                 /\ UNCHANGED <<tags, ram>>
              \/ /\ Head(todo).do \in {"comment", "test"}
                 /\ UNCHANGED <<tags, ram, server>>
    BY DEF RunStep, StepEnds, StepFails, PortFree
  <1>4. StepEnds(TRUE) => /\ todo' = Tail(todo)
                          /\ verdict' = IF Len(todo) = 1 THEN "ok" ELSE "none"
    BY DEF StepEnds
  <1>5. ASSUME NEW do, todo = <<Step(do, about)>>
        PROVE  /\ Head(todo) = Step(do, about) /\ Head(todo).do = do
               /\ Head(todo).loc = about.location /\ Head(todo).port = about.port
               /\ StepEnds(TRUE) => StepDone
    <2>1. Head(todo) = Step(do, about) /\ Len(todo) = 1 /\ Tail(todo) = <<>>
      BY <1>5
    <2>2. Head(todo).do = do /\ Head(todo).loc = about.location /\ Head(todo).port = about.port
      BY <2>1 DEF Step
    <2>3. StepEnds(TRUE) => todo' = <<>> /\ verdict' = "ok"
      BY <1>4, <2>1
    <2>4. QED  BY <2>1, <2>2, <2>3 DEF StepDone
  <1>6. CASE command = "up" /\ about.backend = "ollama" /\ todo = BringUp(about)
    <2>1. todo = <<Step("register", about), Step("warm", about)>>
      BY <1>6 DEF BringUp
    <2>2. Head(todo) = Step("register", about) /\ Len(todo) = 2 /\ Tail(todo) = <<Step("warm", about)>>
      BY <2>1
    <2>3. Head(todo).do = "register" /\ Head(todo).loc = about.location
      BY <2>2 DEF Step
    <2>4. StepEnds(TRUE) => todo' = <<Step("warm", about)>> /\ verdict' = "none"
      <3>1. Len(todo) # 1  BY <2>2
      <3>2. QED  BY <1>4, <2>2, <3>1, Zenon
    <2>5. QED  BY <1>1, <1>2, <1>3, <1>6, <2>3, <2>4 DEF Registers
  <1>7. CASE command = "up" /\ about.backend = "ollama" /\ todo = <<Step("warm", about)>>
    BY <1>1, <1>2, <1>3, <1>5, <1>7 DEF Warms
  <1>8. CASE command = "up" /\ about.backend = "llama-cpp" /\ todo = BringUp(about)
    <2>1. todo = <<Step("serve", about)>>  BY <1>8 DEF BringUp
    <2>2. QED  BY <1>1, <1>2, <1>3, <1>5, <1>8, <2>1 DEF Serves
  <1>9. CASE command = "up" /\ about.backend \notin {"ollama", "llama-cpp"} /\ todo = BringUp(about)
    <2>1. todo = <<Step("test", about)>> \/ todo = <<Step("comment", about)>>
      BY <1>9 DEF BringUp
    <2>2. Head(todo).do \in {"test", "comment"} /\ (StepEnds(TRUE) => StepDone)
      BY <1>5, <2>1
    <2>3. QED  BY <1>1, <1>2, <1>3, <1>9, <2>2 DEF Idles
  <1>10. CASE command = "down" /\ about.backend = "ollama"
    <2>1. todo = <<Step("stop", about)>>
      BY <1>2, <1>10 DEF Teardown, HostingInv, Remaining
    <2>2. QED  BY <1>1, <1>2, <1>3, <1>5, <1>10, <2>1 DEF Stops
  <1>11. CASE command = "down" /\ about.backend = "llama-cpp"
    <2>1. todo = <<Step("pkill", about)>>
      BY <1>2, <1>11 DEF Teardown, HostingInv, Remaining
    <2>2. QED  BY <1>1, <1>2, <1>3, <1>5, <1>11, <2>1 DEF Kills
  <1>12. CASE command = "down" /\ about.backend \notin {"ollama", "llama-cpp"}
    <2>1. todo = <<Step("comment", about)>>
      BY <1>2, <1>12 DEF Teardown, HostingInv, Remaining
    <2>2. QED  BY <1>1, <1>2, <1>3, <1>5, <1>12, <2>1 DEF Idles
  <1>13. command = "up" => \/ todo = BringUp(about)
                           \/ about.backend = "ollama" /\ todo = <<Step("warm", about)>>
    BY <1>2 DEF HostingInv, Remaining
  <1>14. QED
    BY <1>1, <1>6, <1>7, <1>8, <1>9, <1>10, <1>11, <1>12, <1>13

\* What each step leaves of a bring-up that nobody disturbs.
LEMMA RunStepUp ==
  ASSUME HostingInv, RunStep
  PROVE  UpInv'
  <1>1. /\ UNCHANGED <<command, about, calm, was>>
        /\ verdict = "none" /\ about \in Descriptor
        /\ StepFails \/ Registers \/ Warms \/ Serves \/ Stops \/ Kills \/ Idles
    BY RunStepIs
  <1> SUFFICES ASSUME command = "up", calm
               PROVE  /\ was = [tags |-> was.tags, ram |-> was.ram, server |-> was.server]
                      /\ was.server \in [Port -> Location \cup {"none"}]
                      /\ was.tags \subseteq tags' /\ was.ram \subseteq ram'
                      /\ \A p \in Port : was.server[p] \in {server'[p], "none"}
                      /\ Realised(about, was) => Host' = was
                      /\ verdict' = "ok" /\ Unambiguous(about) => Realised(about, Host')
                      /\ verdict' = "none" /\ about.backend = "ollama" /\ todo' # BringUp(about) =>
                           \E t \in tags' : Occurs(about.location, t)
    BY <1>1 DEF UpInv, Realised, Unambiguous, BringUp, Step
  <1>2. /\ was = [tags |-> was.tags, ram |-> was.ram, server |-> was.server]
        /\ was.server \in [Port -> Location \cup {"none"}]
        /\ was.tags \subseteq tags /\ was.ram \subseteq ram
        /\ \A p \in Port : was.server[p] \in {server[p], "none"}
        /\ Realised(about, was) => Host = was
    BY DEF HostingInv, UpInv
  <1>3. /\ tags \subseteq Location /\ ram \subseteq tags
        /\ server \in [Port -> Location \cup {"none"}]
    BY DEF HostingInv, HostingTypeOK
  <1>4. /\ about.location \in Location /\ about.port \in Port
        /\ Occurs(about.location, about.location) /\ "none" \notin Location
    BY <1>1, HostingAssumption DEF Descriptor
  <1>5. /\ Host' = [tags |-> tags', ram |-> ram', server |-> server']
        /\ Host = [tags |-> tags, ram |-> ram, server |-> server]
    BY DEF Host
  <1>6. CASE StepFails \/ Idles
    <2>1. Host' = Host /\ UNCHANGED <<tags, ram, server>> /\ verdict' # "none"
      BY <1>5, <1>6 DEF StepFails, Idles, StepDone
    <2>2. verdict' = "ok" => Realised(about, Host')
      BY <1>6 DEF StepFails, Idles, Realised
    <2>3. QED  BY <1>2, <2>1, <2>2
  <1>7. CASE Registers
    <2>1. /\ about.backend = "ollama" /\ verdict' = "none" /\ UNCHANGED <<ram, server>>
          /\ tags' = IF \E t \in tags : Occurs(about.location, t) THEN tags
                     ELSE tags \cup {about.location}
      BY <1>7 DEF Registers
    <2>2. tags \subseteq tags' /\ \E t \in tags' : Occurs(about.location, t)
      BY <1>4, <2>1
    <2>3. ASSUME Realised(about, was) PROVE Host' = was
      <3>1. about.location \in was.tags  BY <2>1, <2>3 DEF Realised
      <3>2. tags' = tags  BY <1>2, <1>4, <2>1, <3>1
      <3>3. Host' = Host  BY <1>5, <2>1, <3>2
      <3>4. QED  BY <1>2, <2>3, <3>3
    <2>4. QED  BY <1>2, <2>1, <2>2, <2>3
  <1>8. CASE Warms
    <2>1. /\ about.backend = "ollama" /\ verdict' = "ok" /\ UNCHANGED <<tags, server>>
          /\ todo = <<Step("warm", about)>>
          /\ \/ (\E t \in ram : Occurs(about.location, t)) /\ ram' = ram
             \/ /\ \A t \in ram : ~Occurs(about.location, t)
                /\ about.location \in tags /\ ram' = ram \cup {about.location}
      BY <1>8 DEF Warms, StepDone
    <2>2. ASSUME Realised(about, was) PROVE Host' = was
      <3>1. about.location \in was.ram  BY <2>1, <2>2 DEF Realised
      <3>2. ram' = ram  BY <1>2, <1>4, <2>1, <3>1
      <3>3. Host' = Host  BY <1>5, <2>1, <3>2
      <3>4. QED  BY <1>2, <2>2, <3>3
    <2>3. ASSUME Unambiguous(about) PROVE Realised(about, Host')
      <3>1. \A l \in Location : Occurs(about.location, l) => l = about.location
        BY <2>3 DEF Unambiguous
      <3>2. todo # BringUp(about)
        <4>1. BringUp(about) = <<Step("register", about), Step("warm", about)>>
          BY <2>1 DEF BringUp
        <4>2. Len(todo) = 1 /\ Len(BringUp(about)) = 2  BY <2>1, <4>1
        <4>3. QED  BY <4>2
      <3>3. \E t \in tags : Occurs(about.location, t)
        BY <1>1, <2>1, <3>2 DEF HostingInv, UpInv
      <3>4. about.location \in tags  BY <1>3, <3>1, <3>3
      <3>5. about.location \in ram'  BY <1>3, <2>1, <3>1
      <3>6. QED  BY <1>5, <2>1, <3>4, <3>5 DEF Realised
    <2>4. was.ram \subseteq ram'  BY <1>2, <2>1
    <2>5. QED  BY <1>2, <2>1, <2>2, <2>3, <2>4
  <1>9. CASE Serves
    <2>1. /\ about.backend = "llama-cpp" /\ verdict' = "ok" /\ UNCHANGED <<tags, ram>>
          /\ server[about.port] = "none" /\ server' = [server EXCEPT ![about.port] = about.location]
      BY <1>9 DEF Serves, StepDone
    <2>2. was.server[about.port] = "none"  BY <1>2, <1>4, <2>1
    <2>3. ~Realised(about, was)  BY <1>4, <2>1, <2>2 DEF Realised
    <2>4. /\ server'[about.port] = about.location
          /\ \A p \in Port \ {about.port} : server'[p] = server[p]
      BY <1>3, <1>4, <2>1
    <2>5. Realised(about, Host')  BY <1>5, <2>1, <2>4 DEF Realised
    <2>6. \A p \in Port : was.server[p] \in {server'[p], "none"}
      BY <1>2, <2>2, <2>4
    <2>7. QED  BY <1>2, <2>1, <2>3, <2>5, <2>6
  <1>10. QED  BY <1>1, <1>6, <1>7, <1>8, <1>9 DEF Stops, Kills

\* And of a teardown.
LEMMA RunStepDown ==
  ASSUME HostingInv, RunStep
  PROVE  DownInv'
  <1>1. /\ UNCHANGED <<command, about, calm, was>>
        /\ verdict = "none" /\ about \in Descriptor
        /\ StepFails \/ Registers \/ Warms \/ Serves \/ Stops \/ Kills \/ Idles
    BY RunStepIs
  <1> SUFFICES ASSUME command = "down", calm
               PROVE  /\ verdict' # "none"
                      /\ verdict' = "ok" =>
                           /\ tags' = was.tags
                           /\ ram' = IF about.backend = "ollama" THEN was.ram \ {about.location} ELSE was.ram
                           /\ \A p \in Port : ~Begins(about.port, p) => server'[p] = was.server[p]
                           /\ about.backend = "llama-cpp" => server'[about.port] = "none"
    BY <1>1 DEF DownInv, Begins
  <1>2. tags = was.tags /\ ram = was.ram /\ server = was.server
    BY <1>1 DEF HostingInv, DownInv, Host
  <1>3. about.port \in Port /\ Begins(about.port, about.port)
    BY <1>1 DEF Descriptor, Begins
  <1>4. CASE StepFails  BY <1>4 DEF StepFails
  <1>5. CASE Idles  BY <1>2, <1>5 DEF Idles, StepDone
  <1>6. CASE Stops  BY <1>2, <1>6 DEF Stops, StepDone
  <1>7. CASE Kills
    <2>1. /\ verdict' = "ok" /\ UNCHANGED <<tags, ram>> /\ about.backend = "llama-cpp"
          /\ \A q \in Port : server'[q] = IF Begins(about.port, q) THEN "none" ELSE server[q]
      BY <1>7 DEF Kills, StepDone
    <2>2. QED  BY <1>2, <1>3, <2>1
  <1>8. QED  BY <1>1, <1>4, <1>5, <1>6, <1>7 DEF Registers, Warms, Serves

LEMMA RunStepStep ==
  ASSUME HostingInv, RunStep
  PROVE  HostingInv'
  <1>1. /\ UNCHANGED <<deployments, weights, ollama, away, command, about, tiers, calm, was, lit>>
        /\ command \in {"up", "down"} /\ verdict = "none" /\ about \in Descriptor
        /\ StepFails \/ Registers \/ Warms \/ Serves \/ Stops \/ Kills \/ Idles
    BY RunStepIs
  <1>2. about.location \in Location /\ about.port \in Port
    BY <1>1 DEF Descriptor
  <1>3. tags' \subseteq Location /\ ram' \subseteq tags' /\ server' \in [Port -> Location \cup {"none"}]
    <2>1. tags \subseteq Location /\ ram \subseteq tags /\ server \in [Port -> Location \cup {"none"}]
      BY DEF HostingInv, HostingTypeOK
    <2>2. CASE UNCHANGED server
      <3>1. tags \subseteq tags' /\ tags' \subseteq Location /\ (ram' \subseteq ram \/ ram' \subseteq tags)
        BY <1>1, <1>2, <2>1 DEF StepFails, Registers, Warms, Serves, Stops, Kills, Idles
      <3>2. QED  BY <2>1, <2>2, <3>1
    <2>3. CASE Serves \/ Kills
      BY <1>2, <2>1, <2>3 DEF Serves, Kills
    <2>4. QED  BY <1>1, <2>2, <2>3 DEF StepFails, Registers, Warms, Stops, Idles
  <1>4. /\ verdict' \in {"none", "ok", "failed"}
        /\ verdict' # "none" => todo' = <<>>
        /\ verdict' = "none" => command = "up" /\ about.backend = "ollama" /\ todo' = <<Step("warm", about)>>
    BY <1>1 DEF StepFails, Registers, Warms, Serves, Stops, Kills, Idles, StepDone
  <1>5. HostingTypeOK'
    BY <1>1, <1>3, <1>4 DEF HostingInv, HostingTypeOK
  <1>6. Remaining'
    BY <1>1, <1>4 DEF Remaining, BringUp, Teardown, Step
  <1>7. HealthInv'
    BY <1>1 DEF HealthInv
  <1>8. QED  BY <1>5, <1>6, <1>7, RunStepUp, RunStepDown DEF HostingInv

LEMMA HostingStep ==
  ASSUME HostingInv, [HostingNext]_hostingVars
  PROVE  HostingInv'
  <1>1. CASE UNCHANGED hostingVars
    BY <1>1 DEF hostingVars, hostVars, commandVars, HostingInv, HostingTypeOK, Remaining, UpInv,
                DownInv, HealthInv, Realised, Host, Unambiguous, BringUp, Teardown, Step, Stands, Answers, Begins
  <1>2. CASE HostingNext
    BY <1>2, PlanStep, HealthStep, RunStepStep, AssessStep, BetweenStep, HostTurnsStep DEF HostingNext
  <1>3. QED  BY <1>1, <1>2

\* The host, the set and the command have their types, for any set of
\* deployments.
THEOREM HostingTypeCorrect == HostingSpec => []HostingTypeOK
  <1>1. HostingInv => HostingTypeOK  BY DEF HostingInv
  <1>2. QED  BY HostingInitInv, HostingStep, <1>1, PTL DEF HostingSpec

\* The invariant is enough for what a command comes to.
LEMMA CommandFromInv == HostingInv => CommandIsTrue
  <1> SUFFICES ASSUME HostingInv PROVE CommandIsTrue  OBVIOUS
  <1>1. UpInv /\ DownInv /\ HealthInv  BY DEF HostingInv
  <1>2. QED  BY <1>1, Zenon DEF CommandIsTrue, UpInv, DownInv, HealthInv

\* An operator may rely on what a command of `delightd model' comes to
\* (BringUp, Teardown and the health ladder), whatever the deployments, the
\* names that contain one another and the ports that begin alike: an
\* undisturbed bring-up realises its deployment and takes nothing down, a
\* teardown frees it and nothing that its text does not match, and a clean
\* bill of health is of rungs that stood at a moment of the command.
THEOREM CommandsAreTrue == HostingSpec => []CommandIsTrue
  <1>1. QED  BY HostingInitInv, HostingStep, CommandFromInv, PTL DEF HostingSpec
-----------------------------------------------------------------------------
(***************************************************************************)
(* The configuration.                                                      *)
(***************************************************************************)
\* Nothing is picked before the first entry.
LEMMA PicksNothing ==
  ASSUME NEW s
  PROVE  Picks({}, s, <<>>)
  <1> DEFINE e == <<>>
             f == [m \in 1 .. 0 |-> 0]
  <1>1. Len(e) = 0 /\ 1 .. Len(e) = {}  OBVIOUS
  <1>2. f \in [1 .. Len(e) -> {}]  BY <1>1
  <1>3. Picking(f, {}, s, e)  BY <1>1 DEF Picking
  <1>4. QED  BY <1>2, <1>3 DEF Picks

\* A further entry, behind all the others.
LEMMA PicksOneMore ==
  ASSUME NEW S \in SUBSET Nat, NEW s, NEW T, NEW t \in Seq(T), Picks(S, s, t),
         NEW k \in Nat, \A i \in S : i < k, s[k] \in T
  PROVE  Picks(S \cup {k}, s, Append(t, s[k]))
  <1>1. PICK f \in [1 .. Len(t) -> S] : Picking(f, S, s, t)
    BY DEF Picks
  <1> DEFINE g == [m \in 1 .. Len(t) + 1 |-> IF m = Len(t) + 1 THEN k ELSE f[m]]
             u == Append(t, s[k])
  <1>2. Len(t) \in Nat /\ Len(u) = Len(t) + 1 /\ u[Len(t) + 1] = s[k]
        /\ \A m \in 1 .. Len(t) : u[m] = t[m]
    OBVIOUS
  <1>3. \A m \in 1 .. Len(t) : /\ m \in 1 .. Len(t) + 1 /\ m # Len(t) + 1
                               /\ g[m] = f[m] /\ f[m] \in S /\ f[m] \in Nat
    <2>1. \A m \in 1 .. Len(t) : m \in 1 .. Len(t) + 1 /\ m # Len(t) + 1
      BY <1>2
    <2>2. \A m \in 1 .. Len(t) : f[m] \in S /\ f[m] \in Nat
      OBVIOUS
    <2>3. QED  BY <2>1, <2>2
  <1>4. Len(t) + 1 \in 1 .. Len(t) + 1 /\ g[Len(t) + 1] = k
    BY <1>2
  <1>5. \A m \in 1 .. Len(t) + 1 : m = Len(t) + 1 \/ m \in 1 .. Len(t)
    BY <1>2
  <1>6. g \in [1 .. Len(u) -> S \cup {k}]
    BY <1>2, <1>3, <1>4, <1>5
  <1>7. S = {f[m] : m \in 1 .. Len(t)} /\ \A m \in 1 .. Len(t) : f[m] \in S
    BY <1>1 DEF Picking
  <1>8. S \cup {k} = {g[m] : m \in 1 .. Len(u)}
    <2>1. \A i \in S \cup {k} : \E m \in 1 .. Len(t) + 1 : i = g[m]
      BY <1>3, <1>4, <1>7
    <2>2. \A m \in 1 .. Len(t) + 1 : g[m] \in S \cup {k}
      BY <1>3, <1>4, <1>5, <1>7
    <2> HIDE DEF g
    <2>3. S \cup {k} = {g[m] : m \in 1 .. Len(t) + 1}
      BY <2>1, <2>2
    <2>4. QED  BY <1>2, <2>3
  <1>9. ASSUME NEW m \in 1 .. Len(u), NEW n \in 1 .. Len(u), m < n PROVE g[m] < g[n]
    <2>1. m \in 1 .. Len(t)  BY <1>2, <1>9
    <2>2. CASE n = Len(t) + 1  BY <1>3, <1>4, <1>7, <2>1, <2>2
    <2>3. CASE n \in 1 .. Len(t)  BY <1>1, <1>3, <1>9, <2>1, <2>3 DEF Picking
    <2>4. QED  BY <1>2, <1>5, <2>2, <2>3
  <1>10. \A m \in 1 .. Len(u) : u[m] = s[g[m]]
    BY <1>1, <1>2, <1>3, <1>4, <1>5 DEF Picking
  <1>11. Picking(g, S \cup {k}, s, u)
    BY <1>8, <1>9, <1>10 DEF Picking
  <1>12. QED  BY <1>6, <1>11 DEF Picks

\* What is picked has as many elements as there were positions, and each one
\* is where the number of positions up to its own says.
LEMMA PicksRank ==
  ASSUME NEW S \in SUBSET Nat, NEW s, NEW t \in Seq(ProjectConfig), Picks(S, s, t)
  PROVE  /\ Len(t) = Cardinality(S)
         /\ \A i \in S : t[Cardinality({j \in S : j <= i})] = s[i]
  <1>1. PICK f \in [1 .. Len(t) -> S] : Picking(f, S, s, t)
    BY DEF Picks
  <1>2. Len(t) \in Nat  OBVIOUS
  <1>3. ASSUME NEW n \in 0 .. Len(t)
        PROVE  Cardinality({f[m] : m \in 1 .. n}) = n
    <2> DEFINE g == [m \in 1 .. n |-> f[m]]
               R == {f[m] : m \in 1 .. n}
    <2>1. n \in Nat /\ \A m \in 1 .. n : m \in 1 .. Len(t)  BY <1>2
    <2>2. g \in [1 .. n -> R]  OBVIOUS
    <2>3. ASSUME NEW a \in 1 .. n, NEW b \in 1 .. n, g[a] = g[b] PROVE a = b
      <3>1. f[a] = f[b] /\ f[a] \in Nat  BY <2>1, <2>3
      <3>2. ~(a < b) /\ ~(b < a)  BY <1>1, <2>1, <3>1 DEF Picking
      <3>3. QED  BY <2>1, <3>2
    <2>4. \A r \in R : \E m \in 1 .. n : g[m] = r  OBVIOUS
    <2>5. g \in Bijection(1 .. n, R)
      BY <2>2, <2>3, <2>4 DEF Bijection, Injection, Surjection, IsInjective
    <2>6. ExistsBijection(1 .. n, R)  BY <2>5 DEF ExistsBijection
    <2>7. QED  BY <2>1, <2>6, FS_CountingElements
  <1>4. S = {f[m] : m \in 1 .. Len(t)}  BY <1>1 DEF Picking
  <1>5. Len(t) = Cardinality(S)
    <2>1. Len(t) \in 0 .. Len(t)  BY <1>2
    <2>2. QED  BY <1>3, <1>4, <2>1
  <1>6. ASSUME NEW i \in S PROVE t[Cardinality({j \in S : j <= i})] = s[i]
    <2>1. PICK m \in 1 .. Len(t) : f[m] = i  BY <1>4
    <2>2. \A n \in 1 .. Len(t) : f[n] <= i <=> n \in 1 .. m
      <3> SUFFICES ASSUME NEW n \in 1 .. Len(t) PROVE f[n] <= i <=> n \in 1 .. m
        OBVIOUS
      <3>1. n < m => f[n] < f[m]  BY <1>1 DEF Picking
      <3>2. m < n => f[m] < f[n]  BY <1>1 DEF Picking
      <3>3. n < m \/ n = m \/ m < n  BY <1>2
      <3>4. f[n] \in Nat /\ f[m] \in Nat
        <4>1. f[n] \in S /\ f[m] \in S  OBVIOUS
        <4>2. QED  BY <4>1
      <3>5. n \in Nat /\ m \in Nat /\ n >= 1  BY <1>2
      <3>6. QED  BY <2>1, <3>1, <3>2, <3>3, <3>4, <3>5
    <2>3. {j \in S : j <= i} = {f[n] : n \in 1 .. m}
      <3>1. \A n \in 1 .. m : n \in 1 .. Len(t)  BY <1>2
      <3>2. QED  BY <1>4, <2>2, <3>1
    <2>4. m \in 0 .. Len(t)  BY <1>2
    <2>5. Cardinality({j \in S : j <= i}) = m  BY <1>3, <2>3, <2>4
    <2>6. QED  BY <1>1, <2>1, <2>5 DEF Picking
  <1>7. QED  BY <1>5, <1>6

\* All of a list is picked from any list that begins with it.
LEMMA PicksAll ==
  ASSUME NEW s, NEW T, NEW t \in Seq(T), \A m \in 1 .. Len(t) : t[m] = s[m]
  PROVE  Picks(1 .. Len(t), s, t)
  <1> DEFINE f == [m \in 1 .. Len(t) |-> m]
  <1>1. f \in [1 .. Len(t) -> 1 .. Len(t)] /\ \A m \in 1 .. Len(t) : f[m] = m  OBVIOUS
  <1> HIDE DEF f
  <1>2. Picking(f, 1 .. Len(t), s, t)
    BY <1>1 DEF Picking
  <1>3. QED  BY <1>1, <1>2 DEF Picks

\* What was picked from a picked list was picked from the first list.
LEMMA PicksTwice ==
  ASSUME NEW S \in SUBSET Nat, NEW s, NEW t \in Seq(ProjectConfig), NEW u \in Seq(ProjectConfig),
         NEW R \in SUBSET (1 .. Len(t)), Picks(R, t, u),
         NEW f \in [1 .. Len(t) -> S], Picking(f, S, s, t),
         NEW Q, Q = {f[m] : m \in R}
  PROVE  Picks(Q, s, u)
  <1>1. PICK g \in [1 .. Len(u) -> R] : Picking(g, R, t, u)
    BY DEF Picks
  <1> DEFINE h == [n \in 1 .. Len(u) |-> f[g[n]]]
  <1>2. \A n \in 1 .. Len(u) : g[n] \in R /\ g[n] \in 1 .. Len(t) /\ h[n] = f[g[n]]
    OBVIOUS
  <1>3. h \in [1 .. Len(u) -> Q]  BY <1>2
  <1> HIDE DEF h
  <1>4. R = {g[n] : n \in 1 .. Len(u)}  BY <1>1 DEF Picking
  <1>5. Q = {h[n] : n \in 1 .. Len(u)}
    <2>1. ASSUME NEW q \in Q PROVE \E n \in 1 .. Len(u) : q = h[n]
      <3>1. PICK m \in R : q = f[m]  OBVIOUS
      <3>2. PICK n \in 1 .. Len(u) : m = g[n]  BY <1>4
      <3>3. QED  BY <1>2, <3>1, <3>2
    <2>2. \A n \in 1 .. Len(u) : h[n] \in Q  BY <1>2
    <2>3. QED  BY <2>1, <2>2
  <1>6. \A m, n \in 1 .. Len(u) : m < n => h[m] < h[n]
    BY <1>1, <1>2 DEF Picking
  <1>7. \A n \in 1 .. Len(u) : u[n] = s[h[n]]
    BY <1>1, <1>2 DEF Picking
  <1>8. Picking(h, Q, s, u)
    BY <1>5, <1>6, <1>7 DEF Picking
  <1>9. QED  BY <1>3, <1>8 DEF Picks

-----------------------------------------------------------------------------
\* What Load is given.
LEMMA InputFacts ==
  ASSUME input \in Rosters \cup Roots
  PROVE  /\ input.inline \in Seq(ProjectConfig)
         /\ input.fragments \in Seq(ProjectConfig \cup {Malformed})
         /\ input.system \in SystemConfig /\ input.home \in BOOLEAN
         /\ input.install \in {Unset, <<"/", "opt">>}
  <1>1. ASSUME NEW S, NEW n \in Nat PROVE BoundedSeq(S, n) \subseteq Seq(S)
    BY <1>1 DEF BoundedSeq, SeqOf
  <1>2. CASE input \in Rosters
    <2>1. /\ input.inline \in BoundedSeq(ProjectConfig, MaxInline)
          /\ input.fragments \in BoundedSeq(ProjectConfig \cup {Malformed}, MaxFragment)
          /\ input.system = NoRoots /\ input.home = TRUE /\ input.install = Unset
      BY <1>2 DEF Rosters
    <2>2. NoRoots \in SystemConfig  BY DEF NoRoots, SystemConfig, Root
    <2>3. QED  BY <1>1, <2>1, <2>2, ConfigAssumption
  <1>3. CASE input \in Roots
    <2>1. /\ input.inline = <<>> /\ input.fragments = <<>>
          /\ input.system \in SystemConfig /\ input.home \in BOOLEAN
          /\ input.install \in {Unset, <<"/", "opt">>}
      BY <1>3 DEF Roots
    <2>2. QED  BY <2>1
  <1>4. QED  BY <1>2, <1>3

\* The entries that are declared, inline ones first.
LEMMA DeclaredFacts ==
  ASSUME input \in Rosters \cup Roots
  PROVE  /\ Len(input.inline) \in Nat /\ Len(input.fragments) \in Nat
         /\ Len(Declared) = Len(input.inline) + Len(input.fragments)
         /\ \A i \in 1 .. Len(input.inline) :
              Declared[i] = input.inline[i] /\ Declared[i] # Malformed
         /\ \A i \in 1 .. Len(input.fragments) :
              Declared[Len(input.inline) + i] = input.fragments[i]
         /\ \A i \in 1 .. Len(Declared) : Declared[i] # Malformed => Declared[i] \in ProjectConfig
  <1> DEFINE a == input.inline
             b == input.fragments
             M == ProjectConfig \cup {Malformed}
  <1>1. a \in Seq(ProjectConfig) /\ b \in Seq(M)  BY InputFacts
  <1> HIDE DEF a, b
  <1>2. a \in Seq(M)  BY <1>1
  <1>3. Declared = a \o b  BY DEF Declared, a, b
  <1>4. /\ Len(a) \in Nat /\ Len(b) \in Nat /\ Declared \in Seq(M)
        /\ Len(Declared) = Len(a) + Len(b)
    BY <1>1, <1>2, <1>3
  <1>5. \A i \in 1 .. Len(a) : Declared[i] = a[i] /\ a[i] \in ProjectConfig
    BY <1>1, <1>3
  <1>6. ASSUME NEW i \in 1 .. Len(b) PROVE Declared[Len(a) + i] = b[i]
    BY <1>1, <1>2, <1>3, <1>4
  <1>7. \A i \in 1 .. Len(Declared) : Declared[i] \in M  BY <1>4
  <1>8. QED  BY <1>4, <1>5, <1>6, <1>7, ConfigAssumption DEF a, b

\* What projectStructuralErrors finds.
LEMMA SoundEntry ==
  ASSUME NEW p
  PROVE  StructuralErrors(p) = {} <=> p.name # Blank /\ p.path # Blank
  <1>1. "name" \in StructuralErrors(p) <=> p.name = Blank  BY DEF StructuralErrors
  <1>2. "path" \in StructuralErrors(p) <=> p.path = Blank  BY DEF StructuralErrors
  <1>3. StructuralErrors(p) \subseteq {"name", "path"}  BY DEF StructuralErrors
  <1>4. QED  BY <1>1, <1>2, <1>3

\* The segments of a root.
Segment == {"~", "/", "x", "opt", "home", "mesh", "prod", "var", "etc", "backups"}

\* The home is expanded at most once.
LEMMA ExpandTwice ==
  ASSUME NEW path \in Seq(Segment), path # <<>>, NEW home
  PROVE  /\ ExpandHome(path, home) \in Seq(Segment) /\ ExpandHome(path, home) # <<>>
         /\ ExpandHome(ExpandHome(path, home), home) = ExpandHome(path, home)
  <1>1. CASE Head(path) = "~" /\ home
    <2> DEFINE e == <<"/", "home">> \o Tail(path)
    <2>1. ExpandHome(path, home) = e  BY <1>1 DEF ExpandHome, Unset
    <2>2. Tail(path) \in Seq(Segment) /\ <<"/", "home">> \in Seq(Segment)  BY DEF Segment
    <2>3. e \in Seq(Segment) /\ Len(e) = 2 + Len(Tail(path)) /\ e[1] = "/"  BY <2>2
    <2>4. Len(Tail(path)) \in Nat  BY <2>2
    <2> HIDE DEF e
    <2>5. e # <<>> /\ Head(e) = "/"  BY <2>3, <2>4
    <2>6. ExpandHome(e, home) = e  BY <2>5 DEF ExpandHome
    <2>7. QED  BY <2>1, <2>3, <2>5, <2>6
  <1>2. CASE ~(Head(path) = "~" /\ home)
    BY <1>2 DEF ExpandHome
  <1>3. QED  BY <1>1, <1>2

\* ResolveRoots leaves no root unset and, run again, changes nothing.
LEMMA RootsSettle ==
  ASSUME input \in Rosters \cup Roots
  PROVE  LET r == ResolveRoots(input.system, input) IN
         /\ DOMAIN r = DOMAIN NoRoots
         /\ ResolveRoots(r, input) = r
         /\ Unset \notin {r[f] : f \in DOMAIN r}
  <1> DEFINE Or(path, default) == IF path = Unset THEN default ELSE path
             home == input.home
             sys == input.system
             install == Or(input.install, <<"~", "mesh", "prod">>)
             mon == Or(sys.monitor, install)
             dae == Or(sys.daemon, <<"~", "var">>)
             con == Or(sys.config, <<"~", "etc">>)
             daemon == ExpandHome(dae, home)
             bac == Or(sys.backups, Append(daemon, "backups"))
             r == ResolveRoots(sys, input)
  <1>1. /\ sys.monitor \in Root /\ sys.daemon \in Root /\ sys.backups \in Root /\ sys.config \in Root
        /\ input.install \in {Unset, <<"/", "opt">>}
    BY InputFacts DEF SystemConfig
  <1>2. /\ "~" \in Segment /\ "/" \in Segment /\ "x" \in Segment /\ "opt" \in Segment
        /\ "mesh" \in Segment /\ "prod" \in Segment /\ "var" \in Segment /\ "etc" \in Segment
    BY DEF Segment
  <1>3. ASSUME NEW a \in Segment, NEW b \in Segment, NEW c \in Segment
        PROVE  /\ <<a>> \in Seq(Segment) /\ <<a, b>> \in Seq(Segment) /\ <<a, b, c>> \in Seq(Segment)
               /\ <<a, b>> # <<>> /\ <<a, b, c>> # <<>>
    <2>1. <<a>> \in Seq(Segment)  OBVIOUS
    <2>2. <<a, b>> \in Seq(Segment) /\ <<a, b>> # <<>>  OBVIOUS
    <2>3. <<a, b, c>> \in Seq(Segment) /\ <<a, b, c>> # <<>>  OBVIOUS
    <2>4. QED  BY <2>1, <2>2, <2>3
  <1>4. \A p \in Root : p \in Seq(Segment)
    <2>1. <<>> \in Seq(Segment)  OBVIOUS
    <2>2. QED  BY <1>2, <1>3, <2>1, Zenon DEF Root, Unset
  <1>5. install \in Seq(Segment) /\ install # <<>>
    <2>1. CASE input.install = Unset
      BY <1>2, <1>3, <2>1, Zenon
    <2>2. CASE input.install # Unset
      <3>1. install = <<"/", "opt">>  BY <1>1, <2>2
      <3>2. QED  BY <1>2, <1>3, <3>1, Zenon
    <2>3. QED  BY <2>1, <2>2
  <1> HIDE DEF install
  <1>6. /\ mon \in Seq(Segment) /\ mon # <<>> /\ dae \in Seq(Segment) /\ dae # <<>>
        /\ con \in Seq(Segment) /\ con # <<>>
    <2>1. \A p, d : p \in Root /\ d \in Seq(Segment) /\ d # <<>> =>
                      Or(p, d) \in Seq(Segment) /\ Or(p, d) # <<>>
      BY <1>4, Zenon DEF Unset
    <2>2. <<"~", "var">> \in Seq(Segment) /\ <<"~", "var">> # <<>>  BY <1>2, <1>3, Zenon
    <2>3. <<"~", "etc">> \in Seq(Segment) /\ <<"~", "etc">> # <<>>  BY <1>2, <1>3, Zenon
    <2>4. QED  BY <1>1, <1>5, <2>1, <2>2, <2>3, Zenon
  <1> HIDE DEF mon, dae, con
  <1>7. daemon \in Seq(Segment) /\ daemon # <<>> /\ ExpandHome(daemon, home) = daemon
    BY <1>6, ExpandTwice
  <1> HIDE DEF daemon
  <1>8. Append(daemon, "backups") \in Seq(Segment) /\ Append(daemon, "backups") # <<>>
    BY <1>7 DEF Segment
  <1>9. bac \in Seq(Segment) /\ bac # <<>>
    BY <1>1, <1>4, <1>8 DEF Unset
  <1> HIDE DEF bac
  <1>10. r = [monitor |-> ExpandHome(mon, home), daemon |-> daemon,
             backups |-> ExpandHome(bac, home), config |-> ExpandHome(con, home)]
    BY Zenon DEF ResolveRoots, install, mon, dae, con, daemon, bac
  <1>11. /\ r.monitor # Unset /\ ExpandHome(r.monitor, home) = r.monitor
        /\ r.backups # Unset /\ ExpandHome(r.backups, home) = r.backups
        /\ r.config # Unset /\ ExpandHome(r.config, home) = r.config
        /\ r.daemon # Unset /\ ExpandHome(r.daemon, home) = r.daemon
    BY <1>6, <1>7, <1>9, <1>10, ExpandTwice DEF Unset
  <1>12. DOMAIN r = DOMAIN NoRoots  BY <1>10 DEF NoRoots
  <1>13. Unset \notin {r[f] : f \in DOMAIN r}
    <2>1. DOMAIN r = {"monitor", "daemon", "backups", "config"}  BY <1>10
    <2>2. QED  BY <1>11, <2>1
  <1>14. r = [monitor |-> r.monitor, daemon |-> r.daemon, backups |-> r.backups, config |-> r.config]
    BY <1>10
  <1> HIDE DEF r
  <1>15. ResolveRoots(r, input) = [monitor |-> r.monitor, daemon |-> r.daemon,
                                   backups |-> r.backups, config |-> r.config]
    BY <1>11 DEF ResolveRoots, home
  <1>16. QED  BY <1>12, <1>13, <1>14, <1>15 DEF r, sys
-----------------------------------------------------------------------------
LEMMA ConfigInitInv == ConfigInit => ConfigInv
  <1> SUFFICES ASSUME ConfigInit PROVE ConfigInv  OBVIOUS
  <1>1. ConfigTypeOK
    BY DEF ConfigInit, ConfigTypeOK, Nothing
  <1>2. ReadInv /\ CheckInv /\ LoadedInv
    BY DEF ConfigInit, ReadInv, CheckInv, LoadedInv
  <1>3. QED  BY <1>1, <1>2 DEF ConfigInit, ConfigInv, Nothing

LEMMA LoadStep ==
  ASSUME ConfigInv, Load
  PROVE  ConfigInv'
  <1>1. /\ stage = "start" /\ stage' = "reading" /\ raw' = input.inline /\ at' = 1
        /\ input' = input /\ names' = names
        /\ loaded' = [projects |-> <<>>, degraded |-> Troubled,
                      system |-> ResolveRoots(input.system, input)]
    BY DEF Load, Troubled
  <1>2. input \in Rosters \cup Roots /\ names = {}
    BY <1>1 DEF ConfigInv
  <1>3. /\ loaded'.projects = <<>> /\ loaded'.degraded = Troubled
        /\ loaded'.system = ResolveRoots(input.system, input)
    BY <1>1
  <1>4. Troubled \in BOOLEAN  BY DEF Troubled
  <1>5. ConfigTypeOK'
    <2>1. raw' \in Seq(ProjectConfig)  BY <1>1, <1>2, InputFacts
    <2>2. <<>> \in Seq(ProjectConfig)  OBVIOUS
    <2>3. DOMAIN loaded'.system = DOMAIN NoRoots  BY <1>2, <1>3, RootsSettle
    <2>4. QED  BY <1>1, <1>2, <1>3, <1>4, <2>1, <2>2, <2>3 DEF ConfigTypeOK, NoRoots
  <1>6. Declared' = Declared /\ Troubled' = Troubled
    BY <1>1 DEF Declared, Troubled
  <1>7. /\ Len(input.inline) \in Nat /\ Len(input.fragments) \in Nat
        /\ input.inline \in Seq(ProjectConfig)
        /\ \A i \in 1 .. Len(input.inline) :
             Declared[i] = input.inline[i] /\ Declared[i] # Malformed
    BY <1>2, InputFacts, DeclaredFacts
  <1>8. ReadInv'
    <2>1. Len(input.inline) + 1 - 1 = Len(input.inline) /\ 1 \in 1 .. Len(input.fragments) + 1
      BY <1>7
    <2>2. Parsed(Len(input.inline)) = 1 .. Len(input.inline)
      BY <1>7 DEF Parsed
    <2>3. Picks(1 .. Len(input.inline), Declared, input.inline)
      BY <1>7, PicksAll
    <2>4. Parsed(Len(input.inline) + at - 1)' = Parsed(Len(input.inline))
      BY <1>1, <1>6, <2>1 DEF Parsed
    <2>5. Picks(Parsed(Len(input.inline) + at - 1), Declared, raw)'
      <3>1. Picks(Parsed(Len(input.inline)), Declared, raw')  BY <1>1, <2>2, <2>3
      <3>2. QED  BY <1>6, <2>4, <3>1 DEF Picks, Picking
    <2>6. ~ \E i \in 1 .. Len(input.inline) : Declared[i] = Malformed
      BY <1>7
    <2>7. QED  BY <1>1, <1>2, <1>3, <1>6, <2>1, <2>5, <2>6 DEF ReadInv
  <1>9. CheckInv' /\ LoadedInv'
    BY <1>1 DEF CheckInv, LoadedInv
  <1>10. ResolveRoots(input.system, input)' = ResolveRoots(input.system, input)
    BY <1>1
  <1>11. QED  BY <1>1, <1>2, <1>3, <1>5, <1>8, <1>9, <1>10 DEF ConfigInv

LEMMA ParseFragmentStep ==
  ASSUME ConfigInv, ParseFragment
  PROVE  ConfigInv'
  <1> DEFINE k == Len(input.inline) + at
             p == input.fragments[at]
  <1>1. /\ stage = "reading" /\ stage' = stage /\ at' = at + 1 /\ at <= Len(input.fragments)
        /\ input' = input /\ names' = names
        /\ IF p = Malformed THEN loaded' = [loaded EXCEPT !.degraded = TRUE] /\ raw' = raw
                            ELSE raw' = Append(raw, p) /\ loaded' = loaded
    BY DEF ParseFragment
  <1>2. /\ input \in Rosters \cup Roots /\ ConfigTypeOK
        /\ at \in 1 .. Len(input.fragments) + 1 /\ loaded.projects = <<>> /\ names = {}
        /\ Picks(Parsed(Len(input.inline) + at - 1), Declared, raw)
        /\ loaded.degraded <=> \/ Troubled
                               \/ \E i \in 1 .. Len(input.inline) + at - 1 : Declared[i] = Malformed
        /\ loaded = [projects |-> loaded.projects, degraded |-> loaded.degraded, system |-> loaded.system]
        /\ loaded.system = ResolveRoots(input.system, input)
    BY <1>1 DEF ConfigInv, ReadInv
  <1>3. /\ Len(input.inline) \in Nat /\ Len(input.fragments) \in Nat /\ at \in Nat
        /\ at \in 1 .. Len(input.fragments) /\ Declared[k] = p
        /\ k \in 1 .. Len(Declared)
        /\ p # Malformed => p \in ProjectConfig
    <2>1. Len(input.inline) \in Nat /\ Len(input.fragments) \in Nat /\ at \in Nat
      BY <1>2, DeclaredFacts DEF ConfigTypeOK
    <2>2. at \in 1 .. Len(input.fragments)  BY <1>1, <1>2, <2>1
    <2>3. Declared[k] = p  BY <1>2, <2>2, DeclaredFacts
    <2>4. k \in 1 .. Len(Declared)
      <3>1. Len(Declared) = Len(input.inline) + Len(input.fragments)
        BY <1>2, DeclaredFacts
      <3>2. \A l, n, j \in Nat : j \in 1 .. n => l + j \in 1 .. l + n  OBVIOUS
      <3>3. QED  BY <2>1, <2>2, <3>1, <3>2
    <2>5. QED  BY <1>2, <2>1, <2>2, <2>3, <2>4, DeclaredFacts
  <1>4. k \in Nat /\ k - 1 \in Nat /\ Len(input.inline) + at - 1 = k - 1
        /\ Len(input.inline) + (at + 1) - 1 = k
    BY <1>3
  <1>5. Declared' = Declared /\ Troubled' = Troubled
    BY <1>1 DEF Declared, Troubled
  <1>6. Parsed(Len(input.inline) + at - 1)' = Parsed(k)
    BY <1>1, <1>4, <1>5 DEF Parsed
  <1> HIDE DEF k, p
  <1>7. \A i \in 1 .. k : i = k \/ i \in 1 .. k - 1
    BY <1>4
  <1>8. \A i \in 1 .. k - 1 : i \in 1 .. k /\ i < k
    BY <1>4
  <1>9. k \in 1 .. k  BY <1>3, <1>4 DEF k
  <1>10. raw \in Seq(ProjectConfig)  BY <1>2 DEF ConfigTypeOK
  <1>11. CASE p = Malformed
    <2>1. raw' = raw /\ loaded' = [loaded EXCEPT !.degraded = TRUE]
      BY <1>1, <1>11
    <2>2. /\ loaded'.projects = loaded.projects /\ loaded'.degraded = TRUE
          /\ loaded'.system = loaded.system
          /\ loaded' = [projects |-> loaded'.projects, degraded |-> loaded'.degraded,
                        system |-> loaded'.system]
      BY <1>2, <2>1
    <2>3. Parsed(k) = Parsed(k - 1)
      BY <1>3, <1>7, <1>8, <1>11 DEF Parsed
    <2>4. Picks(Parsed(k), Declared, raw)
      BY <1>2, <1>4, <2>3
    <2>5. \E i \in 1 .. k : Declared[i] = Malformed
      BY <1>3, <1>9, <1>11
    <2>6. ReadInv'
      <3>1. Picks(Parsed(Len(input.inline) + at - 1), Declared, raw)'
        BY <1>5, <1>6, <2>1, <2>4 DEF Picks, Picking
      <3>2. at' \in 1 .. Len(input.fragments) + 1  BY <1>1, <1>3
      <3>3. Len(input'.inline) + at' - 1 = k  BY <1>1, <1>4
      <3>4. QED  BY <1>1, <1>2, <1>5, <2>2, <2>5, <3>1, <3>2, <3>3 DEF ReadInv
    <2>7. ConfigTypeOK'
      <3>1. at' \in Nat  BY <1>1, <1>3
      <3>2. QED  BY <1>1, <1>2, <2>1, <2>2, <3>1 DEF ConfigTypeOK, NoRoots
    <2>8. CheckInv' /\ LoadedInv'  BY <1>1 DEF CheckInv, LoadedInv
    <2>9. loaded'.system = ResolveRoots(input.system, input)'
      BY <1>1, <1>2, <2>2
    <2>10. QED  BY <1>1, <1>2, <2>2, <2>6, <2>7, <2>8, <2>9 DEF ConfigInv
  <1>12. CASE p # Malformed
    <2>1. raw' = Append(raw, p) /\ loaded' = loaded
      BY <1>1, <1>12
    <2>2. Parsed(k) = Parsed(k - 1) \cup {k}
      BY <1>3, <1>7, <1>8, <1>9, <1>12 DEF Parsed
    <2>3. Picks(Parsed(k), Declared, raw')
      <3>1. Parsed(k - 1) \in SUBSET Nat /\ \A i \in Parsed(k - 1) : i < k
        BY <1>8 DEF Parsed
      <3>2. Declared[k] \in ProjectConfig  BY <1>3, <1>12
      <3>3. Picks(Parsed(k - 1), Declared, raw)  BY <1>2, <1>4
      <3>4. Picks(Parsed(k - 1) \cup {k}, Declared, Append(raw, Declared[k]))
        BY <1>4, <1>10, <3>1, <3>2, <3>3, PicksOneMore
      <3>5. QED  BY <1>3, <2>1, <2>2, <3>4
    <2>4. (\E i \in 1 .. k : Declared[i] = Malformed) <=>
            \E i \in 1 .. k - 1 : Declared[i] = Malformed
      BY <1>3, <1>7, <1>8, <1>12
    <2>5. ReadInv'
      <3>1. Picks(Parsed(Len(input.inline) + at - 1), Declared, raw)'
        BY <1>5, <1>6, <2>3 DEF Picks, Picking
      <3>2. at' \in 1 .. Len(input.fragments) + 1  BY <1>1, <1>3
      <3>3. Len(input'.inline) + at' - 1 = k  BY <1>1, <1>4
      <3>4. QED  BY <1>1, <1>2, <1>4, <1>5, <2>1, <2>4, <3>1, <3>2, <3>3 DEF ReadInv
    <2>6. ConfigTypeOK'
      <3>1. raw' \in Seq(ProjectConfig)  BY <1>3, <1>10, <1>12, <2>1
      <3>2. at' \in Nat  BY <1>1, <1>3
      <3>3. QED  BY <1>1, <1>2, <2>1, <3>1, <3>2 DEF ConfigTypeOK, NoRoots
    <2>7. CheckInv' /\ LoadedInv'  BY <1>1 DEF CheckInv, LoadedInv
    <2>8. loaded'.system = ResolveRoots(input.system, input)'
      BY <1>1, <1>2, <2>1
    <2>9. QED  BY <1>1, <1>2, <2>1, <2>5, <2>6, <2>7, <2>8 DEF ConfigInv
  <1>13. QED  BY <1>11, <1>12

LEMMA FragmentsReadStep ==
  ASSUME ConfigInv, FragmentsRead
  PROVE  ConfigInv'
  <1>1. /\ stage = "reading" /\ stage' = "checking" /\ at' = 1 /\ at > Len(input.fragments)
        /\ UNCHANGED <<input, loaded, raw, names>>
    BY DEF FragmentsRead
  <1>2. /\ input \in Rosters \cup Roots /\ ConfigTypeOK
        /\ at \in 1 .. Len(input.fragments) + 1 /\ loaded.projects = <<>> /\ names = {}
        /\ Picks(Parsed(Len(input.inline) + at - 1), Declared, raw)
        /\ loaded.degraded <=> \/ Troubled
                               \/ \E i \in 1 .. Len(input.inline) + at - 1 : Declared[i] = Malformed
        /\ loaded = [projects |-> loaded.projects, degraded |-> loaded.degraded, system |-> loaded.system]
        /\ loaded.system = ResolveRoots(input.system, input)
    BY <1>1 DEF ConfigInv, ReadInv
  <1>3. Len(input.inline) + at - 1 = Len(Declared)
    <2>1. /\ Len(input.inline) \in Nat /\ Len(input.fragments) \in Nat
          /\ Len(Declared) = Len(input.inline) + Len(input.fragments)
      BY <1>2, DeclaredFacts
    <2>2. \A l, n \in Nat : \A j \in 1 .. n + 1 : j > n => l + j - 1 = l + n  OBVIOUS
    <2>3. at > Len(input.fragments) /\ at \in 1 .. Len(input.fragments) + 1  BY <1>1, <1>2
    <2>4. QED  BY <2>1, <2>2, <2>3
  <1>4. Declared' = Declared /\ Troubled' = Troubled
    BY <1>1 DEF Declared, Troubled
  <1>5. Valid(at - 1)' = {} /\ 1 .. at' - 1 = {}
    BY <1>1 DEF Valid
  <1>6. Parsed(Len(Declared))' = Parsed(Len(Declared))
    BY <1>4 DEF Parsed
  <1>7. Picks(Parsed(Len(Declared)), Declared, raw)'
    <2>1. Picks(Parsed(Len(Declared)), Declared, raw)  BY <1>2, <1>3
    <2>2. QED  BY <1>1, <1>4, <1>6, <2>1 DEF Picks, Picking
  <1>8. Picks(Valid(at - 1), raw, loaded.projects)'
    <2>1. Picks({}, raw', loaded'.projects)
      BY <1>1, <1>2, PicksNothing
    <2>2. QED  BY <1>5, <2>1 DEF Picks, Picking
  <1>9. CheckInv'
    <2>1. raw \in Seq(ProjectConfig)  BY <1>2 DEF ConfigTypeOK
    <2>2. at' \in 1 .. Len(raw') + 1  BY <1>1, <2>1
    <2>3. names' = {raw'[i].name : i \in {j \in 1 .. at' - 1 : StructuralErrors(raw'[j]) = {}}}
      BY <1>1, <1>2, <1>5
    <2>4. loaded'.degraded <=> \/ Troubled'
                               \/ \E i \in 1 .. Len(Declared') : Declared'[i] = Malformed
                               \/ \E i \in 1 .. at' - 1 : i \notin Valid(at - 1)'
      BY <1>1, <1>2, <1>3, <1>4, <1>5
    <2>5. QED  BY <1>7, <1>8, <2>2, <2>3, <2>4 DEF CheckInv, StructuralErrors
  <1>10. ConfigTypeOK'  BY <1>1, <1>2 DEF ConfigTypeOK, NoRoots
  <1>11. ReadInv' /\ LoadedInv'  BY <1>1 DEF ReadInv, LoadedInv
  <1>12. loaded'.system = ResolveRoots(input.system, input)'  BY <1>1, <1>2
  <1>13. QED  BY <1>1, <1>2, <1>9, <1>10, <1>11, <1>12 DEF ConfigInv

\* The entry is kept exactly if it is sound and the first of its name.
LEMMA ValidateProjectStep ==
  ASSUME ConfigInv, ValidateProject
  PROVE  ConfigInv'
  <1> DEFINE p == raw[at]
             Drop == StructuralErrors(p) # {} \/ p.name \in names
  <1>1. /\ stage = "checking" /\ stage' = stage /\ at' = at + 1 /\ at <= Len(raw)
        /\ UNCHANGED <<input, raw>>
        /\ IF Drop THEN loaded' = [loaded EXCEPT !.degraded = TRUE] /\ names' = names
                   ELSE /\ loaded' = [loaded EXCEPT !.projects = Append(@, p)]
                        /\ names' = names \cup {p.name}
    BY DEF ValidateProject
  <1>2. /\ input \in Rosters \cup Roots /\ ConfigTypeOK
        /\ at \in 1 .. Len(raw) + 1
        /\ names = {raw[i].name : i \in {j \in 1 .. at - 1 : StructuralErrors(raw[j]) = {}}}
        /\ Picks(Parsed(Len(Declared)), Declared, raw)
        /\ Picks(Valid(at - 1), raw, loaded.projects)
        /\ loaded.degraded <=> \/ Troubled
                               \/ \E i \in 1 .. Len(Declared) : Declared[i] = Malformed
                               \/ \E i \in 1 .. at - 1 : i \notin Valid(at - 1)
        /\ loaded = [projects |-> loaded.projects, degraded |-> loaded.degraded, system |-> loaded.system]
        /\ loaded.system = ResolveRoots(input.system, input)
    BY <1>1 DEF ConfigInv, CheckInv
  <1>3. raw \in Seq(ProjectConfig) /\ loaded.projects \in Seq(ProjectConfig)
    BY <1>2 DEF ConfigTypeOK
  <1>4. at \in 1 .. Len(raw) /\ at \in Nat /\ at - 1 \in Nat /\ at + 1 - 1 = at
    BY <1>1, <1>2, <1>3
  <1>5. p \in ProjectConfig  BY <1>3, <1>4
  <1>6. Declared' = Declared /\ Troubled' = Troubled
    BY <1>1 DEF Declared, Troubled
  <1>7. /\ \A i \in 1 .. at : i = at \/ i \in 1 .. at - 1
        /\ \A i \in 1 .. at - 1 : i \in 1 .. at /\ i < at
        /\ at \in 1 .. at /\ at \notin 1 .. at - 1
    BY <1>4
  <1>8. Valid(at - 1)' = Valid(at)
    <2>1. at' - 1 = at  BY <1>1, <1>4
    <2>2. QED  BY <1>1, <2>1 DEF Valid
  <1>9. p.name \in names <=> \E j \in 1 .. at - 1 : StructuralErrors(raw[j]) = {} /\ raw[j].name = p.name
    BY <1>2
  <1>10. Valid(at) = IF Drop THEN Valid(at - 1) ELSE Valid(at - 1) \cup {at}
    <2>1. at \in Valid(at) <=> ~Drop
      BY <1>7, <1>9 DEF Valid
    <2>2. \A i \in 1 .. at - 1 : i \in Valid(at) <=> i \in Valid(at - 1)
      BY <1>7 DEF Valid
    <2>3. Valid(at) \subseteq 1 .. at /\ Valid(at - 1) \subseteq 1 .. at - 1
      BY DEF Valid
    <2> HIDE DEF Drop
    <2>4. QED  BY <1>7, <2>1, <2>2, <2>3
  <1>11. Valid(at - 1) \subseteq 1 .. at - 1  BY DEF Valid
  <1>12. Picks(Parsed(Len(Declared)), Declared, raw)'
    <2>1. Parsed(Len(Declared))' = Parsed(Len(Declared))  BY <1>6 DEF Parsed
    <2>2. Picks(Parsed(Len(Declared)), Declared, raw) /\ raw' = raw  BY <1>1, <1>2
    <2>3. QED  BY <1>6, <2>1, <2>2 DEF Picks, Picking
  <1>13. at' \in 1 .. Len(raw') + 1 /\ at' \in Nat /\ at' - 1 = at
    BY <1>1, <1>3, <1>4
  <1>14. \A i \in 1 .. at : (StructuralErrors(raw[i]))' = StructuralErrors(raw[i]) /\ raw'[i] = raw[i]
    BY <1>1 DEF StructuralErrors
  <1>15. CASE Drop
    <2>1. loaded' = [loaded EXCEPT !.degraded = TRUE] /\ names' = names
      BY <1>1, <1>15
    <2>2. /\ loaded'.projects = loaded.projects /\ loaded'.degraded = TRUE
          /\ loaded'.system = loaded.system
          /\ loaded' = [projects |-> loaded'.projects, degraded |-> loaded'.degraded,
                        system |-> loaded'.system]
      BY <1>2, <2>1
    <2>3. Valid(at) = Valid(at - 1)  BY <1>10, <1>15
    <2>4. Picks(Valid(at - 1), raw, loaded.projects)'
      <3>1. Picks(Valid(at), raw', loaded'.projects)  BY <1>1, <1>2, <2>2, <2>3
      <3>2. QED  BY <1>8, <3>1 DEF Picks, Picking
    <2>5. \E i \in 1 .. at : i \notin Valid(at)
      BY <1>7, <1>11, <2>3
    <2>6. names = {raw[i].name : i \in {j \in 1 .. at : StructuralErrors(raw[j]) = {}}}
      BY <1>2, <1>7, <1>9, <1>15
    <2>7. CheckInv'
      <3>1. names' = {raw'[i].name : i \in {j \in 1 .. at' - 1 : StructuralErrors(raw'[j]) = {}}}
        BY <1>1, <1>13, <2>1, <2>6
      <3>2. /\ loaded'.degraded = TRUE
            /\ \E i \in 1 .. at' - 1 : i \notin Valid(at - 1)'
        BY <1>8, <1>13, <2>2, <2>5
      <3>3. QED
        BY <1>12, <1>13, <2>4, <3>1, <3>2 DEF CheckInv, StructuralErrors
    <2>8. ConfigTypeOK'
      BY <1>1, <1>2, <1>13, <2>1, <2>2 DEF ConfigTypeOK, NoRoots
    <2>9. ReadInv' /\ LoadedInv'  BY <1>1 DEF ReadInv, LoadedInv
    <2>10. loaded'.system = ResolveRoots(input.system, input)'
      BY <1>1, <1>2, <2>2
    <2>11. QED  BY <1>1, <1>2, <2>2, <2>7, <2>8, <2>9, <2>10 DEF ConfigInv
  <1>16. CASE ~Drop
    <2>1. /\ loaded' = [loaded EXCEPT !.projects = Append(loaded.projects, p)]
          /\ names' = names \cup {p.name}
      BY <1>1, <1>16
    <2>2. /\ loaded'.projects = Append(loaded.projects, p) /\ loaded'.degraded = loaded.degraded
          /\ loaded'.system = loaded.system
          /\ loaded' = [projects |-> loaded'.projects, degraded |-> loaded'.degraded,
                        system |-> loaded'.system]
      BY <1>2, <2>1
    <2>3. Valid(at) = Valid(at - 1) \cup {at}  BY <1>10, <1>16
    <2>4. Picks(Valid(at - 1), raw, loaded.projects)'
      <3>1. Valid(at - 1) \in SUBSET Nat /\ \A i \in Valid(at - 1) : i < at
        BY <1>7, <1>11
      <3>2. Picks(Valid(at - 1) \cup {at}, raw, Append(loaded.projects, raw[at]))
        BY <1>2, <1>3, <1>4, <1>5, <3>1, PicksOneMore
      <3>3. Picks(Valid(at), raw', loaded'.projects)  BY <1>1, <2>2, <2>3, <3>2
      <3>4. QED  BY <1>8, <3>3 DEF Picks, Picking
    <2>5. (\E i \in 1 .. at : i \notin Valid(at)) <=> \E i \in 1 .. at - 1 : i \notin Valid(at - 1)
      BY <1>7, <2>3
    <2>6. names' = {raw[i].name : i \in {j \in 1 .. at : StructuralErrors(raw[j]) = {}}}
      BY <1>2, <1>7, <1>16, <2>1
    <2>7. CheckInv'
      <3>1. loaded'.degraded <=> \/ Troubled'
                                 \/ \E i \in 1 .. Len(Declared') : Declared'[i] = Malformed
                                 \/ \E i \in 1 .. at' - 1 : i \notin Valid(at - 1)'
        BY <1>2, <1>6, <1>8, <1>13, <2>2, <2>5
      <3>2. names' = {raw'[i].name : i \in {j \in 1 .. at' - 1 : StructuralErrors(raw'[j]) = {}}}
        BY <1>1, <1>13, <2>6
      <3>3. QED
        BY <1>12, <1>13, <2>4, <3>1, <3>2 DEF CheckInv, StructuralErrors
    <2>8. ConfigTypeOK'
      <3>1. loaded'.projects \in Seq(ProjectConfig)  BY <1>3, <1>5, <2>2
      <3>2. names' \subseteq ProjectName
        <4>1. p.name # Blank  BY <1>16, SoundEntry
        <4>2. p.name \in ProjectName  BY <1>5, <4>1 DEF ProjectConfig
        <4>3. QED  BY <1>2, <2>1, <4>2 DEF ConfigTypeOK
      <3>3. QED  BY <1>1, <1>2, <1>13, <2>2, <3>1, <3>2 DEF ConfigTypeOK, NoRoots
    <2>9. ReadInv' /\ LoadedInv'  BY <1>1 DEF ReadInv, LoadedInv
    <2>10. loaded'.system = ResolveRoots(input.system, input)'
      BY <1>1, <1>2, <2>2
    <2>11. QED  BY <1>1, <1>2, <2>2, <2>7, <2>8, <2>9, <2>10 DEF ConfigInv
  <1>17. QED  BY <1>15, <1>16

\* What the second loop kept of what the first one read is what should be
\* kept of all that was declared.
LEMMA LoadedStep ==
  ASSUME ConfigInv, Loaded
  PROVE  ConfigInv'
  <1> DEFINE D == Declared
             P == Parsed(Len(Declared))
             V == Valid(Len(raw))
  <1>1. /\ stage = "checking" /\ stage' = "loaded" /\ at > Len(raw)
        /\ raw' = <<>> /\ at' = 0 /\ names' = {} /\ UNCHANGED <<input, loaded>>
    BY DEF Loaded
  <1>2. /\ input \in Rosters \cup Roots /\ ConfigTypeOK
        /\ at \in 1 .. Len(raw) + 1
        /\ Picks(Parsed(Len(Declared)), Declared, raw)
        /\ Picks(Valid(at - 1), raw, loaded.projects)
        /\ loaded.degraded <=> \/ Troubled
                               \/ \E i \in 1 .. Len(Declared) : Declared[i] = Malformed
                               \/ \E i \in 1 .. at - 1 : i \notin Valid(at - 1)
        /\ loaded = [projects |-> loaded.projects, degraded |-> loaded.degraded, system |-> loaded.system]
        /\ loaded.system = ResolveRoots(input.system, input)
    BY <1>1 DEF ConfigInv, CheckInv
  <1>3. raw \in Seq(ProjectConfig) /\ loaded.projects \in Seq(ProjectConfig)
    BY <1>2 DEF ConfigTypeOK
  <1>4. at - 1 = Len(raw)
    <2>1. \A n \in Nat : \A j \in 1 .. n + 1 : j > n => j - 1 = n  OBVIOUS
    <2>2. Len(raw) \in Nat /\ at > Len(raw) /\ at \in 1 .. Len(raw) + 1  BY <1>1, <1>2, <1>3
    <2>3. QED  BY <2>1, <2>2
  <1>5. PICK f \in [1 .. Len(raw) -> P] : Picking(f, P, D, raw)
    BY <1>2 DEF Picks
  <1>6. /\ P = {f[m] : m \in 1 .. Len(raw)}
        /\ \A m, n \in 1 .. Len(raw) : m < n => f[m] < f[n]
        /\ \A m \in 1 .. Len(raw) : raw[m] = D[f[m]]
    BY <1>5, Zenon DEF Picking
  <1>7. /\ \A m \in 1 .. Len(raw) : f[m] \in P /\ f[m] \in 1 .. Len(D) /\ f[m] \in Nat
        /\ P \in SUBSET Nat
        /\ \A i \in P : i \in 1 .. Len(D) /\ D[i] # Malformed
        /\ \A i \in 1 .. Len(D) : D[i] # Malformed => i \in P
    BY DEF Parsed
  <1>8. V \in SUBSET (1 .. Len(raw))  BY DEF Valid
  <1> HIDE DEF P, V, D
  <1>9. \A m \in 1 .. Len(raw) :
          m \in V <=> /\ StructuralErrors(raw[m]) = {}
                      /\ \A n \in 1 .. m - 1 :
                           StructuralErrors(raw[n]) = {} => raw[n].name # raw[m].name
    BY DEF V, Valid
  <1>10. \A i \in 1 .. Len(D) :
           i \in Chosen <=> /\ D[i] # Malformed /\ StructuralErrors(D[i]) = {}
                            /\ \A j \in 1 .. i - 1 :
                                 D[j] # Malformed /\ StructuralErrors(D[j]) = {} => D[j].name # D[i].name
    BY DEF Chosen, Lints, D
  <1>11. Chosen \subseteq 1 .. Len(D)  BY DEF Chosen, D
  <1>12. Len(raw) \in Nat  BY <1>3
  <1>13. ASSUME NEW m \in 1 .. Len(raw) PROVE m \in V <=> f[m] \in Chosen
    <2>1. raw[m] = D[f[m]] /\ f[m] \in 1 .. Len(D) /\ D[f[m]] # Malformed /\ f[m] \in Nat
      BY <1>6, <1>7
    <2>2. ASSUME m \in V, NEW j \in 1 .. f[m] - 1, D[j] # Malformed, StructuralErrors(D[j]) = {}
          PROVE  D[j].name # D[f[m]].name
      <3>1. j \in 1 .. Len(D) /\ j \in Nat /\ j < f[m]
        <4>1. \A a, b, c \in Nat : b \in 1 .. c /\ a \in 1 .. b - 1 => a \in 1 .. c /\ a < b  OBVIOUS
        <4>2. j \in Nat /\ Len(D) \in Nat  BY <1>2, <2>1, DeclaredFacts DEF D
        <4>3. QED  BY <2>1, <4>1, <4>2
      <3>2. j \in P  BY <1>7, <2>2, <3>1
      <3>3. PICK n \in 1 .. Len(raw) : f[n] = j  BY <1>6, <3>2
      <3>4. n \in 1 .. m - 1
        <4>1. ~(m < n)
          <5>1. m < n => f[m] < f[n]  BY <1>6
          <5>2. ~(f[m] < j)  BY <2>1, <3>1
          <5>3. QED  BY <3>3, <5>1, <5>2
        <4>2. m # n  BY <2>1, <3>1, <3>3
        <4>3. QED  BY <1>12, <4>1, <4>2
      <3>5. raw[n] = D[j]  BY <1>6, <3>3
      <3>6. QED  BY <1>9, <2>1, <2>2, <3>4, <3>5
    <2>3. ASSUME f[m] \in Chosen, NEW n \in 1 .. m - 1, StructuralErrors(raw[n]) = {}
          PROVE  raw[n].name # raw[m].name
      <3>1. n \in 1 .. Len(raw) /\ n < m  BY <1>12
      <3>2. f[n] < f[m] /\ f[n] \in 1 .. Len(D) /\ D[f[n]] # Malformed /\ raw[n] = D[f[n]]
        BY <1>6, <1>7, <3>1
      <3>3. f[n] \in 1 .. f[m] - 1
        <4>1. \A a, b, c \in Nat : b \in 1 .. c /\ b < a => b \in 1 .. a - 1  OBVIOUS
        <4>2. f[n] \in Nat /\ f[m] \in Nat /\ Len(D) \in Nat
          BY <1>2, <1>7, <3>1, DeclaredFacts DEF D
        <4>3. QED  BY <3>2, <4>1, <4>2
      <3>4. QED  BY <1>10, <2>1, <2>3, <3>2, <3>3
    <2>4. QED  BY <1>9, <1>10, <2>1, <2>2, <2>3
  <1>14. Chosen = {f[m] : m \in V}
    <2>1. ASSUME NEW i \in Chosen PROVE \E m \in V : i = f[m]
      <3>1. i \in P  BY <1>7, <1>10, <1>11
      <3>2. PICK m \in 1 .. Len(raw) : f[m] = i  BY <1>6, <3>1
      <3>3. QED  BY <1>13, <3>2
    <2>2. \A m \in V : f[m] \in Chosen  BY <1>8, <1>13
    <2>3. QED  BY <2>1, <2>2
  <1>15. Picks(Chosen, Declared, loaded.projects)
    <2>1. Picks(V, raw, loaded.projects)  BY <1>2, <1>4 DEF V
    <2>2. P \in SUBSET Nat  BY <1>7
    <2>3. Picks(Chosen, D, loaded.projects)
      BY <1>3, <1>5, <1>8, <1>14, <2>1, <2>2, PicksTwice
    <2>4. QED  BY <2>3 DEF D
  <1>16. (\E i \in 1 .. Len(D) : i \notin Chosen) <=>
           \/ \E i \in 1 .. Len(D) : D[i] = Malformed
           \/ \E m \in 1 .. Len(raw) : m \notin V
    <2>1. ASSUME NEW i \in 1 .. Len(D), i \notin Chosen, D[i] # Malformed
          PROVE  \E m \in 1 .. Len(raw) : m \notin V
      <3>1. PICK m \in 1 .. Len(raw) : f[m] = i  BY <1>6, <1>7, <2>1
      <3>2. QED  BY <1>13, <2>1, <3>1
    <2>2. ASSUME NEW m \in 1 .. Len(raw), m \notin V PROVE \E i \in 1 .. Len(D) : i \notin Chosen
      BY <1>7, <1>13, <2>2
    <2>3. \A i \in 1 .. Len(D) : D[i] = Malformed => i \notin Chosen  BY <1>10
    <2>4. QED  BY <2>1, <2>2, <2>3
  <1>17. LoadedInv'
    <2>1. Declared' = Declared /\ Troubled' = Troubled
      BY <1>1 DEF Declared, Troubled
    <2>2. Chosen' = Chosen
      BY <2>1 DEF Chosen, Lints, StructuralErrors
    <2>3. Picks(Chosen, Declared, loaded.projects)'
      BY <1>1, <1>15, <2>1, <2>2 DEF Picks, Picking
    <2>4. loaded.degraded <=> Troubled \/ \E i \in 1 .. Len(Declared) : i \notin Chosen
      BY <1>2, <1>4, <1>16 DEF D, V
    <2>5. (loaded.degraded <=> Troubled \/ \E i \in 1 .. Len(Declared) : i \notin Chosen)'
      BY <1>1, <2>1, <2>2, <2>4
    <2>6. QED  BY <2>3, <2>5 DEF LoadedInv
  <1>18. ConfigTypeOK'
    <2>1. <<>> \in Seq(ProjectConfig)  OBVIOUS
    <2>2. QED  BY <1>1, <1>2, <2>1 DEF ConfigTypeOK, NoRoots
  <1>19. ReadInv' /\ CheckInv'  BY <1>1 DEF ReadInv, CheckInv
  <1>20. loaded'.system = ResolveRoots(input.system, input)'  BY <1>1, <1>2
  <1>21. QED  BY <1>1, <1>2, <1>17, <1>18, <1>19, <1>20 DEF ConfigInv

LEMMA UnloadStep ==
  ASSUME ConfigInv, Unload
  PROVE  ConfigInv'
  <1>1. /\ stage = "loaded" /\ stage' = "start" /\ loaded' = Nothing
        /\ UNCHANGED <<input, raw, at, names>>
    BY DEF Unload
  <1>2. ConfigTypeOK'
    <2>1. <<>> \in Seq(ProjectConfig)  OBVIOUS
    <2>2. QED  BY <1>1, <2>1 DEF ConfigInv, ConfigTypeOK, Nothing, NoRoots
  <1>3. ReadInv' /\ CheckInv' /\ LoadedInv'  BY <1>1 DEF ReadInv, CheckInv, LoadedInv
  <1>4. QED  BY <1>1, <1>2, <1>3 DEF ConfigInv, Nothing

LEMMA ConfigSame ==
  ASSUME ConfigInv, UNCHANGED configVars
  PROVE  ConfigInv'
  <1>1. UNCHANGED <<input, loaded, stage, raw, at, names>>  BY DEF configVars
  <1>2. ConfigTypeOK'  BY <1>1 DEF ConfigInv, ConfigTypeOK, NoRoots
  <1>3. Declared' = Declared /\ Troubled' = Troubled  BY <1>1 DEF Declared, Troubled
  <1>4. ReadInv'
    <2>1. Parsed(Len(input.inline) + at - 1)' = Parsed(Len(input.inline) + at - 1)
      BY <1>1, <1>3 DEF Parsed
    <2>2. Picks(Parsed(Len(input.inline) + at - 1), Declared, raw)' <=>
            Picks(Parsed(Len(input.inline) + at - 1), Declared, raw)
      BY <1>1, <1>3, <2>1 DEF Picks, Picking
    <2>3. QED  BY <1>1, <1>3, <2>2 DEF ConfigInv, ReadInv
  <1>5. CheckInv'
    <2>1. Parsed(Len(Declared))' = Parsed(Len(Declared))  BY <1>3 DEF Parsed
    <2>2. Valid(at - 1)' = Valid(at - 1)  BY <1>1 DEF Valid, StructuralErrors
    <2>3. Picks(Parsed(Len(Declared)), Declared, raw)' <=> Picks(Parsed(Len(Declared)), Declared, raw)
      BY <1>1, <1>3, <2>1 DEF Picks, Picking
    <2>4. Picks(Valid(at - 1), raw, loaded.projects)' <=> Picks(Valid(at - 1), raw, loaded.projects)
      BY <1>1, <2>2 DEF Picks, Picking
    <2>5. QED
      BY <1>1, <1>3, <2>2, <2>3, <2>4 DEF ConfigInv, CheckInv, StructuralErrors
  <1>6. LoadedInv'
    <2>1. Chosen' = Chosen  BY <1>3 DEF Chosen, Lints, StructuralErrors
    <2>2. Picks(Chosen, Declared, loaded.projects)' <=> Picks(Chosen, Declared, loaded.projects)
      BY <1>1, <1>3, <2>1 DEF Picks, Picking
    <2>3. QED  BY <1>1, <1>3, <2>1, <2>2 DEF ConfigInv, LoadedInv
  <1>7. QED  BY <1>1, <1>2, <1>4, <1>5, <1>6 DEF ConfigInv

LEMMA ConfigStep ==
  ASSUME ConfigInv, [ConfigNext]_configVars
  PROVE  ConfigInv'
  BY LoadStep, ParseFragmentStep, FragmentsReadStep, ValidateProjectStep, LoadedStep, UnloadStep,
     ConfigSame DEF ConfigNext

\* The invariant is enough for what Load returns: the numbers of positions are
\* the cardinalities.
LEMMA LoadFromInv == ConfigInv => LoadIsSound
  <1> SUFFICES ASSUME ConfigInv, stage = "loaded" PROVE LoadIsSound
    BY DEF LoadIsSound
  <1>1. /\ input \in Rosters \cup Roots /\ loaded.projects \in Seq(ProjectConfig)
        /\ Picks(Chosen, Declared, loaded.projects)
        /\ loaded.degraded <=> Troubled \/ \E i \in 1 .. Len(Declared) : i \notin Chosen
        /\ loaded.system = ResolveRoots(input.system, input)
    BY DEF ConfigInv, ConfigTypeOK, LoadedInv
  <1>2. Chosen \in SUBSET (1 .. Len(Declared)) /\ Chosen \in SUBSET Nat  BY DEF Chosen
  <1>3. /\ Len(loaded.projects) = Cardinality(Chosen)
        /\ \A i \in Chosen : loaded.projects[Cardinality({j \in Chosen : j <= i})] = Declared[i]
    <2>1. /\ Chosen \in SUBSET Nat /\ loaded.projects \in Seq(ProjectConfig)
          /\ Picks(Chosen, Declared, loaded.projects)
      BY <1>1, <1>2
    <2>2. QED  BY <2>1, PicksRank
  <1>4. Cardinality(Chosen) < Len(Declared) <=> \E i \in 1 .. Len(Declared) : i \notin Chosen
    <2>1. Len(Declared) \in Nat  BY <1>1, DeclaredFacts
    <2>2. IsFiniteSet(1 .. Len(Declared)) /\ Cardinality(1 .. Len(Declared)) = Len(Declared)
      BY <2>1, FS_Interval
    <2>3. /\ Cardinality(Chosen) <= Len(Declared)
          /\ Cardinality(Chosen) = Len(Declared) => 1 .. Len(Declared) = Chosen
          /\ IsFiniteSet(Chosen)
      <3>1. /\ IsFiniteSet(Chosen) /\ Cardinality(Chosen) <= Cardinality(1 .. Len(Declared))
            /\ Cardinality(1 .. Len(Declared)) = Cardinality(Chosen) => 1 .. Len(Declared) = Chosen
        BY <1>2, <2>2, FS_Subset, Zenon
      <3>2. QED  BY <2>2, <3>1
    <2>4. Cardinality(Chosen) \in Nat  BY <2>3, FS_CardinalityType
    <2>5. 1 .. Len(Declared) = Chosen => Cardinality(Chosen) = Len(Declared)  BY <2>2
    <2>6. Cardinality(Chosen) < Len(Declared) <=> 1 .. Len(Declared) # Chosen
      BY <2>1, <2>3, <2>4, <2>5
    <2>7. QED  BY <1>2, <2>6
  <1>5. /\ ResolveRoots(loaded.system, input) = loaded.system
        /\ Unset \notin {loaded.system[f] : f \in DOMAIN loaded.system}
    BY <1>1, RootsSettle
  <1>6. QED  BY <1>1, <1>3, <1>4, <1>5 DEF LoadIsSound, Troubled

\* One bad entry costs itself and nothing else (validateProjects,
\* LoadProjectFragments, ResolveRoots), for rosters of any length and names:
\* what is loaded is, in order, the first sound entry of every name, the
\* daemon calls itself degraded exactly when something was lost, and the
\* roots are settled.
THEOREM LoadsSoundly == ConfigSpec => []LoadIsSound
  <1>1. QED  BY ConfigInitInv, ConfigStep, LoadFromInv, PTL DEF ConfigSpec

-----------------------------------------------------------------------------
(***************************************************************************)
(* The parts together.                                                     *)
(***************************************************************************)
\* The parts keep their invariants beside one another.  The state home and
\* the skills have the port in common: a part that is not the state home never
\* has a request at it that came in under another token.
ControlInv ==
  /\ StateInv /\ SkillsInv /\ RoutesInv /\ ConfigInv /\ HostingInv
  /\ part # "state" => \A r \in StateReq : spc[r] = "idle"

\* The skills do not depend on the port but by its type.
LEMMA SkillsBesidePort ==
  ASSUME SkillsInv, PortTypeOK', UNCHANGED <<tableVars, callVars>>
  PROVE  SkillsInv' /\ SeesWholeTable
  <1>1. UNCHANGED <<declared, readable, tools, scan, fresh, steady, mpc, wanted, result, inner,
                    acts, done, callVars>>
    BY DEF tableVars, callVars
  <1>2. SkillsTypeOK'
    BY <1>1 DEF SkillsInv, SkillsTypeOK, ScanOrder
  <1>3. TableInv'
    BY <1>1, TableSame DEF SkillsInv
  <1>4. SeesWholeTable
    BY <1>1 DEF SeesWholeTable
  <1>5. QED  BY <1>1, <1>2, <1>3, <1>4, CallsSame DEF SkillsInv

\* Nor does the state home, while nothing is asked of it.
LEMMA StateBesidePort ==
  ASSUME StateInv, PortTypeOK', \A r \in StateReq : spc[r] = "idle",
         UNCHANGED <<stored, wired, stateReqVars, lawful>>
  PROVE  StateInv' /\ FailClosedStep
  <1>1. UNCHANGED <<stored, wired, spc, ask, left, said, status, seen, lawful>>
    BY DEF stateReqVars
  <1>2. StateTypeOK' /\ lawful'
    BY <1>1 DEF StateInv, StateTypeOK
  <1>3. \A r \in StateReq : Sound(r)'
    BY <1>1 DEF StateInv, Sound, Working
  <1>4. FailClosedStep
    BY <1>1, <1>2 DEF FailClosedStep, ToldWhatWas, AnswerIsTrue, Working
  <1>5. QED  BY <1>1, <1>2, <1>3, <1>4 DEF StateInv

LEMMA ControlInitInv == Init => ControlInv
  <1> SUFFICES ASSUME Init PROVE ControlInv  OBVIOUS
  <1>1. StateInit /\ SkillsInit /\ RoutesInit /\ ConfigInit /\ HostingInit  BY DEF Init
  <1>2. \A r \in StateReq : spc[r] = "idle"  BY <1>1 DEF StateInit
  <1>3. QED
    BY <1>1, <1>2, InitInv, SkillsInitInv, RoutesInitInv, ConfigInitInv, HostingInitInv DEF ControlInv

\* What a step of the control plane may not do.
ControlStepIsTrue ==
  [FailClosedStep]_stateVars /\ [SeesWholeTable]_skillsVars /\ [SweepTold]_routesVars

LEMMA ControlStep ==
  ASSUME ControlInv, [Next]_mcVars
  PROVE  ControlInv' /\ ControlStepIsTrue
  <1>1. StateInv /\ SkillsInv /\ RoutesInv /\ ConfigInv /\ HostingInv
    BY DEF ControlInv
  <1>2. part' = part  BY DEF Next, mcVars
  <1>3. PortTypeOK  BY <1>1 DEF StateInv, StateTypeOK
  <1>4. UNCHANGED stateVars => UNCHANGED portVars /\ UNCHANGED spc
    BY DEF stateVars, stateReqVars
  <1>5. /\ [RoutesNext]_routesVars /\ [ConfigNext]_configVars /\ [HostingNext]_hostingVars
        /\ \/ [StateNext]_stateVars /\ UNCHANGED <<tableVars, callVars>> /\ (part = "state" \/ UNCHANGED stateVars)
           \/ /\ part = "skills" /\ SkillsNext
              /\ UNCHANGED <<stored, wired, stateReqVars, lawful>>
    BY DEF Next, mcVars
  <1>6. RoutesInv' /\ [SweepTold]_routesVars  BY <1>1, <1>5, RoutesStep
  <1>7. ConfigInv' /\ HostingInv'  BY <1>1, <1>5, ConfigStep, HostingStep
  <1>8. CASE /\ [StateNext]_stateVars /\ UNCHANGED <<tableVars, callVars>>
             /\ part = "state" \/ UNCHANGED stateVars
    <2>1. StateInv' /\ [FailClosedStep]_stateVars  BY <1>1, <1>8, NextStep
    <2>2. PortTypeOK'  BY <2>1 DEF StateInv, StateTypeOK
    <2>3. SkillsInv' /\ SeesWholeTable  BY <1>1, <1>8, <2>2, SkillsBesidePort
    <2>4. part' # "state" => \A r \in StateReq : spc'[r] = "idle"
      BY <1>2, <1>4, <1>8 DEF ControlInv
    <2>5. QED  BY <1>6, <1>7, <2>1, <2>3, <2>4 DEF ControlInv, ControlStepIsTrue
  <1>9. CASE part = "skills" /\ SkillsNext /\ UNCHANGED <<stored, wired, stateReqVars, lawful>>
    <2>1. SkillsInv' /\ SeesWholeTable  BY <1>1, <1>9, SkillsStep
    <2>2. PortTypeOK'  BY <2>1 DEF SkillsInv, SkillsTypeOK
    <2>3. \A r \in StateReq : spc[r] = "idle"  BY <1>9 DEF ControlInv
    <2>4. StateInv' /\ FailClosedStep  BY <1>1, <1>9, <2>2, <2>3, StateBesidePort
    <2>5. \A r \in StateReq : spc'[r] = "idle"  BY <1>9, <2>3 DEF stateReqVars
    <2>6. QED  BY <1>6, <1>7, <2>1, <2>4, <2>5 DEF ControlInv, ControlStepIsTrue
  <1>10. QED  BY <1>5, <1>8, <1>9

\* Every part of the control plane keeps its types beside the others.
THEOREM ControlTypeCorrect == Spec => []TypeOK
  <1>1. ControlInv => TypeOK
    BY DEF ControlInv, StateInv, SkillsInv, RoutesInv, ConfigInv, HostingInv, TypeOK
  <1>2. QED  BY ControlInitInv, ControlStep, <1>1, PTL DEF Spec

\* And what each promises it keeps in the composition, for every roster,
\* request, provider, configuration and deployment: the state home fails
\* closed, agents are told the truth and see whole tables, sweeps write true
\* routes, Load is sound and commands come to what they say.
THEOREM ControlKeepsPromises ==
  Spec => /\ [](ResultIsHonest /\ LoadIsSound /\ CommandIsTrue)
          /\ FailClosed /\ ToolsCurrent /\ SweepIsTrue
  <1>1. ControlInv => ResultIsHonest /\ LoadIsSound /\ CommandIsTrue
    BY ResultFromInv, LoadFromInv, CommandFromInv DEF ControlInv
  <1>2. ControlInv /\ [Next]_mcVars =>
          /\ ControlInv' /\ [FailClosedStep]_stateVars
          /\ [SeesWholeTable]_skillsVars /\ [SweepTold]_routesVars
    BY ControlStep DEF ControlStepIsTrue
  <1>3. QED
    BY ControlInitInv, <1>1, <1>2, PTL
    DEF Spec, FailClosed, FailClosedStep, ToolsCurrent, SeesWholeTable, SweepIsTrue, SweepTold
=============================================================================
