# delightd: specifications, model checking and proofs

delightd is the control-plane daemon of a small fleet of projects: it makes
rotating checkpoints of their working trees, reports their git state, keeps the
registry of the services ("froods") that are alive, applies and removes
Kubernetes pieces, and maintains the commands and agent tools the projects
export. This directory holds TLA+ modules translated from its Go code, the TLC
configurations that check them and the TLAPS proofs about them. `PROJECT.json`
lists components, runs, mutants, the map from definitions to source lines, the
findings, the hazards and the theorems.

## 1. Inventory

One process, `cmd/delightd/main.go` (`runDaemon`), starts everything: per
project a backup goroutine, a sync goroutine (5 min), a discovery goroutine
(30 s), the heartbeat consumer, the expiry sweep and the HTTP control port,
whose handlers each run in a goroutine of their own.

| Component | State | Operations | Interacts with | What is hard | What makes it correct |
|---|---|---|---|---|---|
| Backup state machine (`pkg/state`) | state, failures in a row, next retry; a mutex | events of `Transition`, `CanRetry`, `AdvanceOnChurn` | loop and control port call it | the queries and events are separate lock sections; `2^n` minutes in an int64 | backoff is kept, no state is a dead end |
| Backup loop (`main.go`) | position of each goroutine | startup check, poll tick, eval tick, checkpoint, publish, settle, retry | machine, watcher, store, publisher | pokes and resets arrive during a checkpoint of minutes | one attempt per due period, settled by its own result |
| Churn watcher (`pkg/watcher`) | none | `HasChurn` | go-git | errors and hangs of git | an error only delays |
| Event publisher (`pkg/events`) | registered flag under a mutex | register schema, produce | Kafka, schema registry | mutex held over HTTP, produce without a deadline | never leaks the mutex, never stops a backup |
| Checkpoint store (`pkg/backup`) | the project's archive directory | create, write, close, rotate | file system, wall clock | crash between system calls, clock set back, dropped errors | success is restorable, rotation never takes the last good one |
| Live registry (`pkg/registry`) | bbolt bucket of registrations with leases | upsert, refresh, expire, warm start | broker, consumer, sweep | stale `now`, lapsed holders, restart | one holder per address, only silence expires |
| Register broker (`pkg/httpapi/register.go`), consumer, sweep, drain | requests in flight, events in flight | gates, transaction, detached event, shutdown stages | registry, Kafka, schema registry | racing requests, redelivered heartbeats, shutdown order | no event dropped, a dead frood leaves |
| Git oracle (`pkg/gitstate`) | one sweep: semaphore, results | bounded concurrent reads with a timeout | other people's working trees | reads that hang, late answers, torn reads | "clean" is never wrong, a sweep is always answered |
| Furnish (`pkg/furnish`, `pkg/kube`, `pkg/httpapi/furnish.go`) | lazy client, discovery cache | up, down, health per object | apiserver | lost answers, deadlines, drift, stale discovery | a report is true, a late cluster needs no restart |
| Exports and the sync round (`pkg/exports`, part of `pkg/skills`) | `~/var/bin`, wrappers, registry file | read, scan, link, archive, write the CLI | owners' files | inputs read at different moments, replace by remove and create, crash | what is exported is linked, nothing else is touched |
| Enablement (`pkg/enablement`, `pkg/httpapi/enablement.go`) | bbolt bucket | get, put; read one, read all, write | control port | write and read back are two transactions, a listing is one per project | fail closed: nothing is said that was not so |
| Bearer gate (`pkg/httpapi/auth.go`) | the token, read once | check | every writing route | a token that comes late | no write without it |
| Skills and MCP (`pkg/skills`) | tool table under a lock | scan, list, call, dispatch | sync round, control port | table rebuilt while it is read, a call that waits for the port that serves it | a list is never half built, a result is honest, every call is answered |
| LLM discovery and routes (`pkg/discovery`, `pkg/traefik`) | `llms.yml` | probe, remove, truncate, write | LLM servers, Traefik | sweeps cancelled half-way, file rewritten in place | routes follow the servers |
| Configuration (`config`) | the loaded roster and roots | load, lint | everything | bad entries among good ones | one bad entry costs itself |
| Model deployments (`pkg/model`, `cmd/delightd/model.go`) | the deployment set; the host | load, plan up, plan down, health | the operator's shell, ollama, llama-server | plans are interrupted, repeated and raced | a plan does what it says, health is not optimistic |
| Introspection, metrics, command line | none of their own | read, print | | | |

## 2. Plan

Order, most important first. Parts 1 to 8 are built.

1. `BackupMachine`, `BackupLoop`, the abstract `BackupPromise` and their proofs.
2. `CheckpointStore` and proofs.
3. `LeaseRegistry`, `RegisterBroker` and proofs.
4. `GitOracle` and proofs.
5. `Furnish` and proofs.
6. `ExportSync` and proofs.
7. `ControlPort`, with `StateHome` and `SkillsMcp` behind its gate, and proofs.
8. `LlmRoutes`, `ConfigLoad`, `ModelHosting` and proofs.
9. `BackupLoop` composed with `CheckpointStore`: a success event implies an
   archive. The walk's exclusion rules as operators against a reference.

Every safety property that a passing run checks is also a theorem; section 5
says what is left to TLC.

## 3. Modules and code

**BackupMachine** is the value a `state.Machine` holds and one operator per
event. Time is relative: a machine keeps the ticks to `NextRetryAt`. The wait
after the n-th failure is computed the way the code does it, `time.Minute *
2^n` in 64 bits with its wrap, then capped, then jittered.

**BackupLoop** extends it: the per-project goroutine split at every unlock and
every blocking call (`pc`), the backup and reset handlers, the working tree
(`dirty`), the shared publisher (`publisher`, `registered`, `mu`), the broker,
and cancellation, exit and restart of the daemon. `owed` is a history variable:
the ticks of the documented backoff that have not elapsed.

**BackupPromise** is what the pipeline promises: quiet, due or failed, and one
attempt at a time whose own result ends the due period. `BackupLoop` gives the
refinement mapping (`Promise == INSTANCE BackupPromise WITH ...`).

**CheckpointStore** is one archive directory and the `CreateCheckpoint` calls
on it, split at the system calls; each may fail (a directory that cannot be
made ends the call before it has a name), the process may die between
any two, foreign archives appear, the clock may be set back, and a restart may
bring another `max_archives` or `--dry-run`. An archive's name is the second it
was started in.

**LeaseRegistry** is the bbolt bucket and one operator per transaction (bbolt
has a single writer); **RegisterBroker** the requests, consumer, sweep, events,
boot and shutdown around it. Leases are relative to now; a transaction whose
`now` was read earlier carries its age.

**GitOracle** is `CollectAll` with its semaphore and timeouts, `Collect` split
at its reads, orphaned reads that outlive the sweep, and the owner who edits,
commits, pushes and removes trees. `wasSafe` records whether the tree was
committed and pushed at some moment of the read, `flaw` whether the owner tore
the read or the walk was cut short.

**Furnish** is the handlers for up, down and health, object by object, with
the lazy client, the discovery cache, the deadline, and a cluster that drifts,
refuses, and takes effect without answering. `truth` records what really was
so during a request.

**ExportSync** is one round of `Engine.Sync` and `syncSkills`: registry read,
project scans, the two nested map iterations, `ensureSymlink` as remove then
create, `archiveOrphans`, and the CLI's write, which follows a link. Owners
change every input between any two steps, and every system call on `~/var/bin`
may fail, which the code logs or ignores. An operator's own entries (`Others`)
include a link whose target contains `/work/`, which the code cannot tell from
one of its own. `steady` and `absent` are history: the exports that were visible
all through the round, and the names that were not exported. A failing call
takes what it was about out of them: the export whose old link could not be
removed or wrapper not be written, all exports of a name that could not be
linked, a link that could not be archived, every name when the directory could
not be listed.

**ControlPort** is what the routes share: the daemon that boots, serves and
dies, the control token it found at boot, and the gate. **StateHome** extends it
with the enablement bucket and the `/state` handlers, one step per bbolt
transaction, each of which may fail. `seen` is history: what a project's state
was while a request about it was served.

**SkillsMcp** extends it with the tool table, which a scan empties and refills
manifest by manifest under the write lock while owners edit or break the
manifests, and with `POST /mcp`: lookups wait for the read lock, a tool of
delightd's own posts back to the control port and may time out before it is
served. Behind the gate the request meets `handleBackup`, `handleReset` or the
furnish handlers: the first two send an event to a machine in any state (the
operators of `BackupMachine`), which ignores what it is not in the state for and
is answered 200 all the same; a furnish handler may change part of a piece and
answer with an error, or find it as it should be and answer 200. `acts` counts
what a call changed, `done` has the calls whose purpose was met when their
handler was through; a call of another port and a command are taken at their
word. A tool is its full name; two manifests can declare the same one
(project `a` with tool `b_c`, project `a_b` with tool `c`; or a project that is
called `delightd`), and the one read last gets it. `steady` is history: the
manifests that have not changed since the last whole scan began.

**LlmRoutes** is the discovery goroutine: one step per probe (two for an
OpenAI-like server without `/health`), then the removal of `llms.yml` or its
truncation and its writing, with servers that come and go and a root context
that may be cancelled in the middle.

**ConfigLoad** is `Load` with a step per turn of its two loops: the one that
parses the fragments and the one that validates inline entries and fragments
and remembers the names it has seen. The property compares what they leave
with a reference definition that looks at the whole list. Roots are sequences of segments, so
that `~` and derived paths are told apart.

**ModelHosting** is the command line for model deployments: loading the set, a
plan's steps, which the operator's shell runs one by one, and the rungs of the
health ladder, each assessed at its own moment. `Occurs` and `Begins` are the
textual matches of `grep` and `pkill -f`. A route names a host: `away` has the
ports at which other hosts answer, and ollama holds one port of this one.

**MCBackup**, **MCBroker** and **MCExports** only supply constants and
symmetry. **MCControl** puts the five parts of items 7 and 8 side by side. They
share no state but the life of the process, so it lets one of them move in a
behaviour: the state space is the sum of theirs, and what holds of a part here
holds of it whatever the others do. The modules ending in
**Proofs** hold the inductive invariants, the lemmas and the theorems;
**ControlProofs** has those of `SkillsMcp`, `LlmRoutes`, `ConfigLoad`,
`ModelHosting` and of their composition.

Definitions whose comment starts with "Mutant" are deliberately wrong variants
of the definition that follows; `PROJECT.json` says which property each of them
breaks. No specification uses them.

## 4. Runs

| Run | Instance | Shows |
|---|---|---|
| `pair` | 2 projects, 2 failures, symmetry | `CheckpointOwnsMachine`, `RegistrationSerialised`, `BackoffHonoured`, and every step a step of the promise (`PromiseSafe`) |
| `live` | 1 project, 2 failures, fairness | the whole promise with its liveness (`PromiseKept`), `ChurnIsBackedUp`, `ErrorIsRetried` |
| `rotation` | 4 seconds, limits 0, 1, 2, foreign names before and after | `SuccessIsComplete`, `RotationBounds`, `AGoodArchiveSurvives`, `OnlyExcessDeleted`, `UnsetKeepsAll` |
| `broker` | 2 projects, 2 requests, 1 address, TTL 3, grace 2, readings one tick stale, fairness | `EndpointUnique`, `GracefulDropsNothing`, `OnlySilenceExpires`, `DeadIsExpired` |
| `oracle` | 2 projects, semaphore of 1, 2 commits, fairness | `SafeIsTrue`, `ResultIsFinal`, `SweepAnswered` |
| `furnish` | 2 objects (a workload, one of a kind installed late), 2 requests, of which one keeps asking for the piece and one for its removal, fairness | `ReportIsTrue`, `RetryConverges` |
| `exports` | 2 projects exporting the CLI's own name, one also in the registry, a name only others use (for a link into `/work/`), somebody's own link under the exported name, failing calls, 1 restart, fairness | `LiveExportsLinked`, `NoStaleLinks`, `OwnEntriesKept`, `PickedUp` |
| `control` | 2 projects and 2 requests at the state home; 1 project, delightd's own manifest, 3 tools and 1 call; 3 LLM servers of 3 types; rosters of up to 1 inline entry and 2 fragments, and all roots; 5 deployment files, one of them without entries, one that cannot be read and one with a route to another host, 3 locations, 2 ports; fairness | `FailClosed`; `ToolsCurrent`, `ResultIsHonest`, `CallAnswered`; `SweepIsTrue`, `RoutesFollow`; `LoadIsSound`; `CommandIsTrue` |

Each passing run also checks the module's `TypeOK` (`live` shares it with
`pair`). Four runs end in a violation, each a disagreement between code and
documentation:

| Run | Property | What happens |
|---|---|---|
| `overflow` | `BackoffHonoured` with 28 failures | the product wraps negative, the cap is missed, and the project is retried on every eval tick (`state.go:83`) |
| `outage` | `EmissionNeverBlocks` | a broker lost after boot holds the loop in `ProduceSync`; its project is not backed up until the broker returns (`publisher.go:115`, `docs/events.md:12`) |
| `late_emit` | `NothingDroppedOnExit` | a handler that outlives `server.Shutdown` starts its event after the drain (`main.go:553`) |
| `torn_read` | `CleanIsTrue` | a commit between `Head` and `Status` yields "clean, nothing unpushed" of a tree that never was (`gitstate.go:177`) |

**Why the bounds are enough.** Two projects are the least that can contend for
the publisher's mutex, an address, a semaphore slot or an exported name, and
more of them add nothing to the guards, which compare at most two. One failure
is enough to meet the backoff and two to see it double; the overflow run takes
the 28 it needs. Four seconds with a limit of two let a rotation, its failure
and a catching-up rotation happen. TTL 3 with grace 2 and staleness 1 is the
smallest policy in which a stale reading, a grace and a lapse differ. A second
commit is what an unpushed head needs. Two objects make "half a piece"
possible. One restart suffices for `ExportSync`, because a round starts from
the disk alone. Two writers and two projects are what a torn listing and a
PUT that answers with somebody else's record take. One tool call is enough for
`SkillsMcp`, since calls meet only at the lock. The three servers are one of
each type, with every condition that its probe tells apart. Three entries show
a bad one before, after and between good ones of its name. The locations and
ports include one that occurs in another. The theorems remove the bounds for
the safety properties.

`CHECK_DEADLOCK` is on everywhere: no component may stop for good.

**Fairness.**

- *Backup loop*: a goroutine that can run runs, `select` picks at random among
  ready tickers (strong fairness), a starved mutex waiter is handed the mutex,
  git does not fail for ever, the clock runs; only while the context lives.
  `FairSpec` adds a broker that comes back, `OutageSpec` does not.
- *Broker*: handlers have deadlines, the sweep's ticker fires, the clock runs,
  a failing transaction does not fail for ever, and a heartbeat that is
  redelivered is in the end committed.
- *Git oracle*: the sweep's own goroutines and timers only. Nothing is asked of
  the reads, which may hang for ever.
- *Furnish*: apiserver calls end because the handler's context does; the
  operator keeps asking.
- *Export sync*: the sync goroutine keeps running. Nothing is asked of owners.
- *Skills*: a manifest is read in the end; `sync.RWMutex` lets readers that
  waited in before the next writer (strong fairness for the lock); a dispatch
  has its 90 seconds. Nothing is asked of a command, which has no deadline, and
  nothing of the control port that serves the inner request.
- *LLM routes*: while the context lives the ticker fires and probes end after
  their two seconds; the disk does not refuse every write for ever.

## 5. What is proved

All theorems hold for every value of the constants under the named
assumptions, which TLC evaluates in the runs.

| Theorem | From | Argument |
|---|---|---|
| `TypeCorrect`, `CheckpointOwned`, `RegistrationMutex` (`BackupLoopProofs`) | `TicksAssumption`, `LoopAssumption` | `LoopInv`: besides the two properties, the outcome is known after the checkpoint, and a daemon that is down has fresh machines. Ownership needs the guards of all events, since handlers may fire at any step |
| `BackoffIsHonoured` | the same, fewer than 28 failures | `BackoffInv`: while a project owes backoff it is in error and `NextRetryAt` is at least as far away; `BaseWaitExact` shows the wait exact below the overflow |
| `LoopImplementsPromise` | the same | each action maps to a step of the promise or a stutter, by `TypeOK` and `LoopInv`; safety part only |
| `StoreTypeCorrect`, `SuccessMeansComplete`, `GoodArchiveSurvives`, `OnlyExcessIsDeleted`, `UnsetLosesNothing` (`CheckpointStoreProofs`) | `StoreAssumption` | `StoreInv`: while the history is orderly, names on disk are in the past, the running call's name is the newest, its archive is in the stage its position says, and whatever is doomed has `limit` newer archives |
| `RotationIsBound` | the same (finitely many foreign archives) | `BoundInv`, which needs no orderly history: what rotation spares has fewer than `limit` names after it, and its oldest name has all the others after it, so they are at most `limit`; a purge in which every removal succeeds takes the rest |
| `BrokerTypeCorrect`, `EndpointsAreUnique`, `SilenceExpires`, `GracefulShutdown` (`RegisterBrokerProofs`) | `LeaseAssumption` (grace plus staleness fits into a lease), `BrokerAssumption` | `BrokerInv`: addresses apart, silence plus remaining lease covers the grace, handlers gone before the drain |
| `OracleIsTruthful`, `ResultsAreFinal` (`GitOracleProofs`) | `OracleAssumption` | `OracleInv`: what a read has seen so far is still so unless the read is torn, and a tree safe now was noticed as safe |
| `OracleTypeCorrect` | the same (finitely many projects) | `TokenInv`: the tokens taken are the goroutines that wait, so there are never more than `Cap` and none is handed back twice |
| `FurnishTypeCorrect`, `ReportsAreTrue` (`FurnishProofs`) | `FurnishAssumption` | `FurnishInv`: whatever a state shows a request has been noted for it, kinds that are not served have no objects |
| `StateTypeCorrect`, `StateFailsClosed` (`StateHomeProofs`) | `StateAssumption` (the stranger and `all` are not on the roster) | `StateInv`: nothing is served unless the daemon is up, so the token that let a request in is still the daemon's when it writes; what is stored is always among what a request may be told of a project it has not read; a PUT that has written finds its state there. One transaction at a time, so another request's write reaches a request only through that history (`OthersSound`) |
| `SyncTypeCorrect`, `SyncLinks`, `SyncSweeps`, `SyncKeepsOwn` (`ExportSyncProofs`) | `ExportAssumption` | `SyncInv` (`SyncInvariant`) follows the round: an export that stood still is found as it is although each input is read at its own moment, a name nobody exports is not found; from there on the links done so far stand, but for the one name between its removal and its new link, and the names looked at so far are rid of managed links nothing expects. A call that fails takes its export or name out of the histories (`Removed`, `ListFailsStep`), so nothing is claimed of it; `LookStep` shows that a managed link under a name nobody exports is archived or leaves `absent` |
| `SkillsTypeCorrect`, `SkillsAreHonest`, `SkillsSeeWholeTable` (`ControlProofs`) | `SkillsAssumption` (the roster is a list of manifests) | `SkillsInv`: each tool belongs to the last manifest declaring it among those scanned so far, where the manifests offering it stood still; where a call is tells what has been done for it (`OnBooks`): nothing before its handler ran, at most one change after, and behind a 2xx its purpose met, for each of the handlers (`HandlersEnd`) |
| `RoutesTypeCorrect`, `RoutesAreTrue` | `RoutesAssumption` (some provider: the code falls back to a built-in list) | `RoutesInv`: a sweep that was not cut has exactly right the providers that stood still and were probed |
| `HostingTypeCorrect`, `CommandsAreTrue` | `HostingAssumption` (a text occurs in itself; `Occurs` is otherwise any relation) | `HostingInv`: which steps of a plan are left; a bring-up nobody interfered with has only added to the host, and nothing where its deployment was up; a teardown has done nothing before its one step; what was GREEN stood at some moment |
| `LoadsSoundly` | `ConfigAssumption` | `ConfigInv`: each loop has picked, in order, the entries at certain positions of what it has gone through (`Picks`); for the second these are the sound ones that are the first of their name. `PicksRank` turns the positions into the cardinalities the property is stated with |
| `ControlTypeCorrect`, `ControlKeepsPromises` | all of the five parts' | `ControlInv`: the five invariants side by side, and no state request is open while another part moves, so the daemon's death touches none |

None of the properties is inductive as it stands: `EndpointUnique`, for
example, is stated of what readers resolve and follows from registrations whose
addresses differ, lapsed ones included.

**Only model-checked.** The liveness properties: `PromiseKept` (its safety part
is `LoopImplementsPromise`), `ChurnIsBackedUp`, `ErrorIsRetried`,
`DeadIsExpired`, `SweepAnswered`, `RetryConverges`, `PickedUp`, `CallAnswered`
and `RoutesFollow`. They rest on fairness, and fairness and `ENABLED` are beyond
the prover; so is induction over data, which is why the loops of `Load` take
steps: what they compute is then an invariant. The properties of the runs that
end in a violation are not theorems, `BackoffHonoured` below the overflow
excepted.

## 6. Further disagreements between code and documents

Met while modelling, not made into runs:

- *Reset race.* `main.go:363` reads the state, asks `CanRetry` and transitions
  in three lock sections; a reset in between is undone by the retry, although
  `docs/api.md:415` says that a reset clears the error "returning the machine
  toward `fallow`". The promise allows it: the project is due again.
- *Conflict.* `docs/api.md:407` gives "already backing up" as the example of a
  409; `Transition` ignores a trigger in that state and the handler answers
  200. Only the backoff is refused (`state.go:62-70`).
- *Sustained churn.* The comment at `state.go:170-172` has a second sighting
  mean that the tree "is still changing". `HasChurn` only asks whether it is
  dirty, so one edit left alone is checkpointed again and again
  (`ChurnIsBackedUp` is stated of a tree that stays dirty).
- *Archives.* An archive named by a clock that was set back, or by local time
  at the end of daylight saving time, sorts before older ones and is rotated
  away at once (`backup.go:39`), although `docs/backups.md:92-93` has the naming
  make the order "chronological"; the model has the step back, and the
  properties of `CheckpointStore` are stated for starts that read increasing
  seconds. Errors of the deferred closes are dropped (`backup.go:120-126`),
  so a full disk can be reported as a success; every `.tgz` in the directory
  counts as an own archive (`backup.go:211`, `docs/backups.md:10-11`); two
  checkpoints started in one second share a name (`backup.go:39`).
- *Registry.* Readers do not look at the lease (`httpapi.go:601-608`): a lapsed
  frood resolves until the next sweep. A failed transaction answers 500 without
  the event promised for every refusal (`register.go:136` against `64-65`), and
  with a store that did not open the handler dereferences nil
  (`register.go:129` against `main.go:376-377`).
- *Git oracle.* Orphaned reads are not counted in the "bound of 8 in-flight
  reads" (`docs/api.md:198`). A walk that cannot start counts 0 and one that
  fails counts what it had (`gitstate.go:243`, `248`): a cut walk can say
  "nothing unpushed". Errors may come with branch and remote filled in
  (`gitstate.go:52-54`). When the tracking ref is ahead every commit is
  counted, and merges are undercounted (`docs/api.md:270`). A tree that
  disappears after the status reports 0 unpushed and no error.
- *Furnish.* The first error decides the status, so a deadline after another
  failure is not a 504 (`httpapi/furnish.go:17-19`); discovery is not bounded by
  the handler's context (`httpapi/furnish.go:21-24`); `Down` stops at the first
  failure without saying what it removed; failures are keyed by kind and name
  without the namespace; an object with a finalizer counts as GREEN.
- *Exports.* A registry that cannot be read or parsed counts as empty, and the
  same round archives what it declares (`sync.go:53`). Under the default
  monitor root (`~/mesh/prod`) no native link is ever recognised as managed,
  because only targets containing `/work/` are (`sync.go:184`): `NoStaleLinks`
  is stated accordingly. Wrapper scripts are never archived: their relative
  path is renamed relative to the working directory (`sync.go:201`). The test
  that is to "Safely identify delightd-managed links" (`sync.go:182`) takes
  every link for one whose target contains `/work/` or `delightd/exports`, an
  operator's own included, and archives it when nothing exports its name (and
  with an absolute target into `delightd/exports` the file it leads to as well);
  `OwnEntriesKept` says so. Errors of `ReadDir`, `MkdirAll` and `Rename` are
  dropped (`sync.go:166-169`, `198-204`), so a stale link may stay although the
  log has it "archived"; `NoStaleLinks` leaves those links out. A project
  that exports `delight` has the CLI written over its own binary, or a binary
  it just removed brought back, where the tree is writable (`cli.go:95`).

- *Bearer gate.* Without a token the gated routes serve 503 "until it is
  provisioned" (`main.go:426-427`, and `main.go:91` "until it is mounted"); the
  token is read once, so it takes a restart.
- *Enablement.* A store that fails in a PUT is answered with 400, like invalid
  input (`httpapi/enablement.go:133-136`). "The 200 body is the stored record"
  (`httpapi/enablement.go:110-111`) is read in a second transaction and may be
  another writer's. A listing reads one project per transaction, so its
  entries need not have been so at one moment. `FailClosed` says what is left.
- *Skills.* A call that is reported as failed may have acted, or act later: the
  90 seconds end the wait, not the request; a furnish call that fails may have
  applied part of the piece. A call that succeeded may have done nothing: a
  backup of a project that is backing up is answered `backup_triggered`, a reset
  of one that is not in error `error_cleared` (`httpapi.go:714`, `728`).
  `ResultIsHonest` says what an agent may rely on. Commands have no deadline
  (`mcp.go:90`). The bearer goes with a mutation to any port of the loopback
  address (`dispatch.go:113-120`), although the comment has only "delightd's
  own control port".
- *LLM routes.* Routes are said to have "a unique path" (`dynamic.go:75`), but
  the path is the provider's name, and all servers found on the default ports
  have one name. The file is truncated and then written, so Traefik may read it
  empty. A sweep whose context is cancelled finds nothing and removes the
  routes of servers that are up; an error of the removal is dropped
  (`dynamic.go:85`).
- *Configuration.* A fragment that lint passes is still dropped when its name
  is taken; lint looks at one file only (`fragments.go:76-105`).
- *Model deployments.* Plans are called idempotent (`lifecycle.go:14-15`). The
  greps match text: with `m:7b` registered the plan for `m` registers nothing
  and fails, or takes the wrong model for loaded. `pkill -f 'port 80'` also
  stops the server on port 8080, and two deployments may declare one port. The
  plan for llama.cpp fails when it is run again on a server that is up. Any
  answer on the port makes a deployment reachable, ollama's also when the model
  is not loaded.

## 7. Not modelled

What the checkpoint's walk excludes; wire formats, templates, the LiteLLM
rendering and the text of wrappers and of the CLI; the contents of HTTP requests
beyond whether a gate lets them pass; the parsing of configuration files and of
the settings that are only passed through; introspection, metrics and the
command-line front ends, which only read or print; the handlers that only
compose or copy what other parts hold (roster, registrations, readiness). With
agent skills disabled there is no tool table and nothing to check. go-git,
Kafka, the schema registry, bbolt, the apiserver, Traefik, ollama, llama-server,
the operator's shell and the file system are external and modelled from how the
code uses them.
