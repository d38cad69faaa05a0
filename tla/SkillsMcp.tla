----------------------------- MODULE SkillsMcp -----------------------------
(***************************************************************************)
(* Agent skills: the tool table of pkg/skills/aggregator.go, rebuilt under *)
(* its write lock while the projects' owners edit their manifests, and     *)
(* POST /mcp (mcp.go, dispatch.go), whose calls look a tool up under the   *)
(* read lock and then run a command or call the control port again.        *)
(*                                                                         *)
(* A tool is known by its full name, prefix and all; two manifests may     *)
(* declare the same full name, and the one read last gets it.              *)
(***************************************************************************)
EXTENDS ControlPort, Sequences

CONSTANTS Roster,     \* the projects, in the order they are scanned
          Self,       \* delightd's own manifest, which is scanned last
          ToolName,   \* full names of tools
          Offers,     \* the names under each source's prefix
          HandlerOf,  \* [source -> [name -> type of the handler it declares]]
          McpReq      \* slots for requests that are served at a time

Source == {Roster[i] : i \in 1 .. Len(Roster)} \cup {Self}

\* How a tool is run: a mutation at delightd's own port, a call of another one
\* (a read at its own included), a command, or in no way HandleMCP supports.
Handler == {"self", "http", "command", "internal"}

ASSUME SkillsAssumption ==
  /\ Roster \in Seq(Source)
  /\ Offers \in [Source -> SUBSET ToolName]
  /\ HandlerOf \in [Source -> [ToolName -> Handler]]
  /\ "none" \notin Source \cup ToolName

Nobody == "none"

\* What Transition makes of a machine; how long a tick is does not matter here.
BM == INSTANCE BackupMachine WITH TicksPerMinute <- 1

\* The order in which ScanProjects reads the manifests.
ScanOrder == Append(Roster, Self)

VARIABLES declared,   \* the tools in each source's mcp.json
          readable,   \* the file can be read and parsed
          tools,      \* the table: the source whose declaration each name has
          scan,       \* 0, or the manifest to be read next; the lock is held
          fresh,      \* history: manifests as they were when this scan began
          steady,     \* history: as they were when the last whole scan began
          mpc,        \* where each request is
          wanted,     \* the tool it calls
          result,     \* what it was answered with
          inner,      \* the request that its dispatch made to the control port
          acts,       \* history: how often something was changed for it
          done        \* history: those whose tool ended with what it is for so

tableVars == <<declared, readable, tools, scan, fresh, steady>>
callVars == <<mpc, wanted, result, inner, acts, done>>
skillsVars == <<portVars, tableVars, callVars>>

SkillsInit ==
  /\ PortInit
  /\ declared \in {d \in [Source -> SUBSET ToolName] : \A s \in Source : d[s] \subseteq Offers[s]}
  /\ readable = [s \in Source |-> TRUE]
  /\ tools = [n \in ToolName |-> Nobody]
  /\ scan = 0
  /\ fresh = {} /\ steady = {}
  /\ mpc = [r \in McpReq |-> "idle"]
  /\ wanted = [r \in McpReq |-> Nobody]
  /\ result = [r \in McpReq |-> "none"]
  /\ inner = [r \in McpReq |-> "none"]
  /\ acts = [r \in McpReq |-> 0]
  /\ done = {}

-----------------------------------------------------------------------------
(***************************************************************************)
(* The table.                                                              *)
(***************************************************************************)
\* ScanProjects takes the write lock and empties the table; during the boot,
\* then at every tick of the sync goroutine.
ScanProjects ==
  /\ phase # "down"
  /\ scan = 0
  /\ scan' = 1
  /\ tools' = [n \in ToolName |-> Nobody]
  /\ fresh' = Source
  /\ UNCHANGED <<portVars, declared, readable, steady, callVars>>

\* Mutant: a manifest that cannot be read ends the scan.
LoadReadableManifest ==
  /\ scan # 0
  /\ readable[ScanOrder[scan]]
  /\ LET s == ScanOrder[scan] IN
       tools' = [n \in ToolName |-> IF n \in declared[s] THEN s ELSE tools[n]]
  /\ IF scan = Len(ScanOrder)
     THEN scan' = 0 /\ steady' = fresh /\ fresh' = {}
     ELSE scan' = scan + 1 /\ UNCHANGED <<steady, fresh>>
  /\ UNCHANGED <<portVars, declared, readable, callVars>>

\* Mutant: the lock is held past the last manifest.
LoadManifestPast ==
  /\ scan # 0
  /\ LET s == ScanOrder[scan] IN
       tools' = [n \in ToolName |-> IF readable[s] /\ n \in declared[s] THEN s ELSE tools[n]]
  /\ IF scan > Len(ScanOrder)
     THEN scan' = 0 /\ steady' = fresh /\ fresh' = {}
     ELSE scan' = scan + 1 /\ UNCHANGED <<steady, fresh>>
  /\ UNCHANGED <<portVars, declared, readable, callVars>>

\* loadManifest, of one file: one that cannot be read or parsed is skipped.
\* The lock is released after the last.
LoadManifest ==
  /\ scan # 0
  /\ LET s == ScanOrder[scan] IN
       tools' = [n \in ToolName |-> IF readable[s] /\ n \in declared[s] THEN s ELSE tools[n]]
  /\ IF scan = Len(ScanOrder)
     THEN scan' = 0 /\ steady' = fresh /\ fresh' = {}
     ELSE scan' = scan + 1 /\ UNCHANGED <<steady, fresh>>
  /\ UNCHANGED <<portVars, declared, readable, callVars>>

\* A project's owner edits its manifest, or leaves it malformed.  delightd's
\* own is baked into its image.
EditManifest(s) ==
  /\ s # Self
  /\ \/ /\ \E D \in SUBSET Offers[s] : declared' = [declared EXCEPT ![s] = D]
        /\ readable' = [readable EXCEPT ![s] = TRUE]
     \/ /\ readable' = [readable EXCEPT ![s] = FALSE]
        /\ UNCHANGED declared
  /\ fresh' = fresh \ {s}
  /\ steady' = steady \ {s}
  /\ UNCHANGED <<portVars, tools, scan, callVars>>

-----------------------------------------------------------------------------
(***************************************************************************)
(* POST /mcp.                                                              *)
(***************************************************************************)
McpAnswer(r, res) ==
  /\ mpc' = [mpc EXCEPT ![r] = "answered"]
  /\ result' = [result EXCEPT ![r] = res]

\* The gate decides without shared state; a body that does not parse and an
\* unknown JSON-RPC method are refused like a wrong bearer.
McpArrive(r) ==
  /\ phase = "up"
  /\ mpc[r] = "idle" /\ inner[r] = "none"
  /\ \/ /\ \E b \in Bearer : RequireBearer("POST", b) # Pass
        /\ McpAnswer(r, "refused")
        /\ UNCHANGED wanted
     \/ /\ RequireBearer("POST", "right") = Pass
        /\ \/ mpc' = [mpc EXCEPT ![r] = "list"] /\ UNCHANGED wanted
           \/ /\ mpc' = [mpc EXCEPT ![r] = "lookup"]
              /\ \E n \in ToolName : wanted' = [wanted EXCEPT ![r] = n]
        /\ UNCHANGED result
  /\ UNCHANGED <<portVars, tableVars, inner, acts, done>>

\* tools/list: GetTools copies the table under the read lock.
GetTools(r) ==
  /\ mpc[r] = "list"
  /\ scan = 0
  /\ McpAnswer(r, "ok")
  /\ UNCHANGED <<portVars, tableVars, wanted, inner, acts, done>>

\* Mutant: GetTool does not wait for the scan.
GetToolUnlocked(r) ==
  /\ mpc[r] = "lookup"
  /\ IF tools[wanted[r]] = Nobody
     THEN McpAnswer(r, "not found")
     ELSE mpc' = [mpc EXCEPT ![r] = "command"] /\ UNCHANGED result
  /\ UNCHANGED <<portVars, tableVars, wanted, inner, acts, done>>

\* tools/call: GetTool copies the tool under the read lock and lets go of it
\* before anything is run.  Arguments that leave a placeholder unfilled, and
\* handlers that are neither http nor command, end the call.
GetTool(r) ==
  LET s == tools[wanted[r]] IN
  /\ mpc[r] = "lookup"
  /\ scan = 0
  /\ \/ s = Nobody /\ McpAnswer(r, "not found")
     \/ s # Nobody /\ McpAnswer(r, "error")
     \/ /\ s # Nobody /\ HandlerOf[s][wanted[r]] # "internal"
        /\ mpc' = [mpc EXCEPT ![r] = HandlerOf[s][wanted[r]]]
        /\ UNCHANGED result
  /\ UNCHANGED <<portVars, tableVars, wanted, inner, acts, done>>

\* A mutation of the loopback port takes the read lock once more, for the
\* control token, and is sent.
SendSelf(r) ==
  /\ mpc[r] = "self"
  /\ scan = 0
  /\ mpc' = [mpc EXCEPT ![r] = "dispatch"]
  /\ inner' = [inner EXCEPT ![r] = "sent"]
  /\ UNCHANGED <<portVars, tableVars, wanted, result, acts, done>>

\* A tool ends: it has changed something or not, and what it is for is so or not.
Ends(r, changed, so) ==
  /\ acts' = [acts EXCEPT ![r] = IF changed THEN @ + 1 ELSE @]
  /\ done' = IF so THEN done \cup {r} ELSE done \ {r}

\* A route answers; whether the caller still waits makes no difference to it.
PortAnswers(r, code) ==
  inner' = [inner EXCEPT ![r] = IF mpc[r] = "dispatch" THEN code ELSE "none"]

\* The project's machine as the event finds it: in any state, and in error
\* within its backoff or past it.
AMachine == {[st |-> s, errs |-> 1, retryIn |-> t] : s \in BM!State, t \in {BM!Past, 1}}

\* Mutant: the error of Transition is dropped.
HandleBackupAnyway(r) ==
  \/ Ends(r, FALSE, FALSE) /\ PortAnswers(r, "error")
  \/ \E m \in AMachine :
       LET n == BM!TriggerBackup(m) IN
       /\ Ends(r, n.st # m.st, n.st = "backing_up")
       /\ PortAnswers(r, "2xx")

\* handleBackup: an unknown project is 404 and a backoff 409; a machine that is
\* backing up already ignores the event, and the answer is 200 all the same.
HandleBackup(r) ==
  \/ Ends(r, FALSE, FALSE) /\ PortAnswers(r, "error")
  \/ \E m \in AMachine :
       LET n == BM!TriggerBackup(m) IN
       /\ Ends(r, n.st # m.st, n.st = "backing_up")
       /\ PortAnswers(r, IF BM!InBackoff(m) THEN "error" ELSE "2xx")

\* handleReset: so does a machine that is not in error.
HandleReset(r) ==
  \/ Ends(r, FALSE, FALSE) /\ PortAnswers(r, "error")
  \/ \E m \in AMachine :
       LET n == BM!ClearError(m) IN
       /\ Ends(r, n.st # m.st, n.st # "error")
       /\ PortAnswers(r, "2xx")

\* handleFurnishUp and handleFurnishDown: 200 when every object of the piece
\* was applied or removed, though none of them changed by it; an error leaves
\* it untouched, in part, or all done with an answer of the cluster's lost.
HandleFurnish(r) ==
  \E changed, whole \in BOOLEAN, code \in {"2xx", "error"} :
    /\ code = "2xx" => whole
    /\ Ends(r, changed, whole)
    /\ PortAnswers(r, code)

\* The control port serves the POST that doHTTP made, with the bearer that a
\* mutation of the loopback port gets.
ServeInner(r) ==
  /\ phase = "up"
  /\ inner[r] = "sent"
  /\ IF RequireBearer("POST", IF token THEN "right" ELSE "missing") = Pass
     THEN HandleBackup(r) \/ HandleReset(r) \/ HandleFurnish(r)
     ELSE Ends(r, FALSE, FALSE) /\ PortAnswers(r, "error")
  /\ UNCHANGED <<portVars, tableVars, mpc, wanted, result>>

\* doHTTP returns: a status other than 2xx makes the result an error, with
\* the body as its content.
DoHTTP(r) ==
  /\ mpc[r] = "dispatch"
  /\ inner[r] \in {"2xx", "error"}
  /\ McpAnswer(r, IF inner[r] = "2xx" THEN "ok" ELSE "error")
  /\ inner' = [inner EXCEPT ![r] = "none"]
  /\ UNCHANGED <<portVars, tableVars, wanted, acts, done>>

\* The connection breaks or dispatchClient's 90 seconds are over.  A request
\* that is not served yet will be, for nobody.
DispatchFails(r) ==
  /\ mpc[r] = "dispatch"
  /\ McpAnswer(r, "error")
  /\ inner' = [inner EXCEPT ![r] = IF @ = "sent" THEN "sent" ELSE "none"]
  /\ UNCHANGED <<portVars, tableVars, wanted, acts, done>>

\* What runs outside the daemon ends: a call of another port within the same
\* 90 seconds; a command by itself, for it has no deadline and no context.
\* Whether what it is for is so is taken from its own word: a status of 2xx, an
\* exit status of zero.
OutsideEnds(r) ==
  /\ mpc[r] \in {"http", "command"}
  /\ \E changed, so \in BOOLEAN, res \in {"ok", "error"} :
       /\ res = "ok" => so
       /\ Ends(r, changed, so)
       /\ McpAnswer(r, res)
  /\ UNCHANGED <<portVars, tableVars, wanted, inner>>

\* The agent has its answer; the slot is free when nothing runs for it.
McpRelease(r) ==
  /\ mpc[r] = "answered" /\ inner[r] = "none"
  /\ mpc' = [mpc EXCEPT ![r] = "idle"]
  /\ wanted' = [wanted EXCEPT ![r] = Nobody]
  /\ result' = [result EXCEPT ![r] = "none"]
  /\ acts' = [acts EXCEPT ![r] = 0]
  /\ done' = done \ {r}
  /\ UNCHANGED <<portVars, tableVars, inner>>

-----------------------------------------------------------------------------
SkillsBoot == LoadControlToken /\ UNCHANGED <<tableVars, callVars>>

\* The boot has scanned once before it listens.
SkillsListen ==
  /\ ListenAndServe
  /\ scan = 0 /\ Self \in steady
  /\ UNCHANGED <<tableVars, callVars>>

SkillsDie ==
  /\ Die
  /\ tools' = [n \in ToolName |-> Nobody]
  /\ scan' = 0 /\ fresh' = {} /\ steady' = {}
  /\ mpc' = [r \in McpReq |-> "idle"]
  /\ wanted' = [r \in McpReq |-> Nobody]
  /\ result' = [r \in McpReq |-> "none"]
  /\ inner' = [r \in McpReq |-> "none"]
  /\ acts' = [r \in McpReq |-> 0]
  /\ done' = {}
  /\ UNCHANGED <<declared, readable>>

McpStep(r) ==
  \/ McpArrive(r) \/ GetTools(r) \/ GetTool(r) \/ SendSelf(r) \/ ServeInner(r)
  \/ DoHTTP(r) \/ DispatchFails(r) \/ OutsideEnds(r) \/ McpRelease(r)

SkillsNext ==
  \/ SkillsBoot \/ SkillsListen \/ SkillsDie
  \/ ScanProjects \/ LoadManifest
  \/ \E s \in Source : EditManifest(s)
  \/ \E r \in McpReq : McpStep(r)

\* A file is read in the end, and sync.RWMutex lets the readers that waited
\* for the scan in before the next one; net/http serves what it accepted, and
\* a dispatch has a deadline.  Nothing is asked of a command.
SkillsFairness ==
  /\ WF_skillsVars(LoadManifest)
  /\ \A r \in McpReq :
       /\ SF_skillsVars(GetTools(r) \/ GetTool(r) \/ SendSelf(r))
       /\ WF_skillsVars(DoHTTP(r) \/ DispatchFails(r) \/ (mpc[r] = "http" /\ OutsideEnds(r)))

SkillsSpec == SkillsInit /\ [][SkillsNext]_skillsVars

-----------------------------------------------------------------------------
\* The table names sources that exist, the lock is held for one of the
\* manifests, and calls keep their types.
SkillsTypeOK ==
  /\ PortTypeOK
  /\ declared \in [Source -> SUBSET ToolName]
  /\ readable \in [Source -> BOOLEAN]
  /\ tools \in [ToolName -> Source \cup {Nobody}]
  /\ scan \in 0 .. Len(ScanOrder)
  /\ fresh \subseteq Source /\ steady \subseteq Source
  /\ mpc \in [McpReq -> {"idle", "list", "lookup", "self", "dispatch", "http", "command",
                         "answered"}]
  /\ wanted \in [McpReq -> ToolName \cup {Nobody}]
  /\ result \in [McpReq -> {"none", "ok", "error", "not found", "refused"}]
  /\ inner \in [McpReq -> {"none", "sent", "2xx", "error"}]
  /\ acts \in [McpReq -> Nat]
  /\ done \subseteq McpReq

\* Whose tool a name is, by the manifests as they are: the last one that
\* declares it, so that a project never takes one of delightd's own.
Declarers(n) == {i \in 1 .. Len(ScanOrder) :
                   readable[ScanOrder[i]] /\ n \in declared[ScanOrder[i]]}

Owner(n) ==
  IF Declarers(n) = {} THEN Nobody
  ELSE ScanOrder[CHOOSE i \in Declarers(n) : \A j \in Declarers(n) : j <= i]

\* An agent never sees a table half built: when a list is answered or a tool
\* looked up, every name whose manifests have not changed since the last whole
\* scan began is there, under its owner, or is rightly missing.
ToolsCurrent ==
  [][\A r \in McpReq :
       mpc[r] \in {"list", "lookup"} /\ mpc'[r] \notin {mpc[r], "idle"} =>
         \A n \in ToolName :
           {s \in Source : n \in Offers[s]} \subseteq steady => tools[n] = Owner(n)]_skillsVars

\* An agent may rely on what it is told.  When a call of the control port has
\* succeeded, the project was backing up, was not in error, or had the piece
\* whole, at the moment its handler was through, whether the call changed
\* anything or found it so (an event that Transition ignores is answered 200).
\* A call that was refused, or whose tool was not found, has changed nothing;
\* and no call, timed out or not, does its work twice.
ResultIsHonest ==
  \A r \in McpReq :
    /\ acts[r] <= 1
    /\ result[r] = "ok" /\ wanted[r] # Nobody => r \in done
    /\ result[r] \in {"refused", "not found"} => acts[r] = 0 /\ r \notin done

\* Every MCP request is answered while the daemon lives, whatever the
\* manifests hold and however often they are scanned, and though a call may
\* wait for the port that is serving it; only a command may run for ever.
CallAnswered ==
  \A r \in McpReq :
    mpc[r] \in {"list", "lookup", "self", "dispatch", "http"}
      ~> mpc[r] \in {"answered", "idle", "command"}
=============================================================================
