----------------------------- MODULE ExportSync -----------------------------
(***************************************************************************)
(* The five-minute sync round of delightd: Engine.Sync (pkg/exports/       *)
(* sync.go) followed by syncSkills (cmd/delightd/main.go).                 *)
(*                                                                         *)
(* A round reads the exports registry and then, one project after another, *)
(* the executables in the projects' bin directories; it makes ~/var/bin    *)
(* link to what it found, archives the managed links nothing exports any   *)
(* more, and rewrites the fleet CLI, ~/var/bin/delight.  Every input is    *)
(* read once, at its own moment, while owners edit the registry, build and *)
(* clean their projects and keep entries of their own in ~/var/bin; an     *)
(* input may be unreadable, the daemon may die between any two system      *)
(* calls, and it may have been started with --dry-run.  Any system call on *)
(* ~/var/bin may fail; the code drops or logs the error and goes on.       *)
(*                                                                         *)
(* An export is a pair <<project, name>>.  What a docker wrapper or the    *)
(* CLI says, the archive directory and state.json (which no code reads     *)
(* back) are left out.  A name in ~/var/bin is never a directory.          *)
(***************************************************************************)
EXTENDS Naturals, Sequences, Functions, FiniteSets

CONSTANTS
  Known,        \* the configured projects, in the order of the configuration
  Bin,          \* names in ~/var/bin
  CLI,          \* "delight", the name GenerateCLIWrapper writes to
  Built,        \* the executables projects may have in their bin directories
  Registered,   \* the exports the registry may declare
  Fragile,      \* the inputs that may become unreadable
  Others,       \* the entries other people may put into ~/var/bin
  WorkRoot,     \* the monitor root's path contains "/work/"
  ReadOnlyTree, \* the projects are mounted read-only
  ExposeCLI,    \* agent skills are enabled and exposed via "cli"
  MaxCrashes    \* bound on the crashes of a behaviour

Project == Range(Known)
Export == Built \cup Registered
Registry == "registry"

\* What a name in ~/var/bin is: free, an operator's own file or link, the
\* generated CLI, or a link of the engine's.  An operator's link may lead
\* through a path that archiveOrphans takes for delightd's.
Free == [kind |-> "free"]
OwnFile == [kind |-> "file"]
OwnLink == [kind |-> "foreign"]
OwnWorkLink == [kind |-> "work"]
CliFile == [kind |-> "cli"]
Elsewhere == [kind |-> "elsewhere"]
NativeLink(p) == [kind |-> "native", of |-> p]
ShimLink(p) == [kind |-> "shim", of |-> p]
Own == {OwnFile, OwnLink, OwnWorkLink}
Entry == {Free, CliFile, Elsewhere} \cup Own
           \cup {NativeLink(p) : p \in Project} \cup {ShimLink(p) : p \in Project}

ASSUME ExportAssumption ==
  /\ Known \in Seq(Project)
  /\ CLI \in Bin
  /\ Built \subseteq Project \X Bin
  /\ Registered \subseteq Project \X Bin
  /\ Registry \notin Project
  /\ Fragile \subseteq Project \cup {Registry}
  /\ Others \subseteq Bin \X Own
  /\ WorkRoot \in BOOLEAN
  /\ ReadOnlyTree \in BOOLEAN
  /\ ExposeCLI \in BOOLEAN
  /\ MaxCrashes \in Nat

\* What the registry may say of an export: nothing, a docker-backed tool, a
\* binary outside the projects and the state directory, or an unknown type.
RegistryDef == {"none", "docker", "binary", "other"}
\* ScanProject adds binaries inside the project's own tree.
ExportDef == RegistryDef \cup {"native"}

\* The link Sync wants for export x of definition d.
Target(x, d) ==
  CASE d = "docker" -> ShimLink(x[1])
    [] d = "native" -> NativeLink(x[1])
    [] OTHER -> Elsewhere

VARIABLES
  registry,  \* the registry file
  built,     \* the executables in the projects' bin directories
  broken,    \* the inputs that cannot be read at the moment
  entry,     \* ~/var/bin
  shims,     \* the wrapper scripts in the state directory
  dry,       \* --dry-run
  pc,        \* where the round is
  at,        \* the next project to scan
  expected,  \* what the round found
  todo,      \* exports still to link, then names still to check
  relink,    \* the export whose link is to be made next
  crashes,
  steady,    \* exports visible and undisturbed since the round began: by
             \* their owners, others who use the name, and failing calls
  absent     \* names nothing has exported since the round began and no
             \* failing call has kept from being swept

world == <<registry, built, broken>>
disk == <<entry, shims>>
round == <<pc, at, expected, todo, relink>>
history == <<steady, absent>>
vars == <<world, disk, dry, round, crashes, history>>

----------------------------------------------------------------------------
\* What a read of all inputs at this moment would make of export x.
Visible(reg, blt, x) ==
  IF x \in Registered /\ reg[x] # "none" THEN reg[x]
  ELSE IF x \in blt THEN "native" ELSE "none"

\* The exports a round starting now must link, and the names it must not.
Linkable(reg, blt, brk) ==
  {x \in Export : /\ Visible(reg, blt, x) \notin {"none", "other"}
                  /\ Registry \notin brk
                  /\ x[1] \notin brk}
Unexported(reg, blt) ==
  {b \in Bin : \A x \in Export : x[2] = b => Visible(reg, blt, x) = "none"}

\* What a change of the world leaves of the two histories.
Watch ==
  /\ steady' = {x \in steady \cap Linkable(registry', built', broken') :
                  Visible(registry', built', x) = Visible(registry, built, x)}
  /\ absent' = absent \cap Unexported(registry', built')

\* A round begins: at boot, and at every tick of the five-minute ticker.
BeginRound ==
  /\ pc' = "read"
  /\ at' = 1
  /\ expected' = [x \in Export |-> "none"]
  /\ todo' = {}
  /\ relink' = <<>>
  /\ steady' = Linkable(registry, built, broken)
  /\ absent' = Unexported(registry, built)

Init ==
  /\ registry = [x \in Registered |-> "none"]
  /\ built = {}
  /\ broken = {}
  /\ entry = [b \in Bin |-> Free]
  /\ shims = {}
  /\ dry \in BOOLEAN
  /\ pc = "read"
  /\ at = 1
  /\ expected = [x \in Export |-> "none"]
  /\ todo = {}
  /\ relink = <<>>
  /\ crashes = 0
  /\ steady = {}
  /\ absent = Bin

----------------------------------------------------------------------------
(* Operators of the fleet.                                                 *)

EditRegistry(x, d) ==
  /\ registry[x] # d
  /\ registry' = [registry EXCEPT ![x] = d]
  /\ UNCHANGED <<built, broken, disk, dry, round, crashes>>
  /\ Watch

Build(x) ==
  /\ x \notin built
  /\ built' = built \cup {x}
  /\ UNCHANGED <<registry, broken, disk, dry, round, crashes>>
  /\ Watch

Clean(x) ==
  /\ x \in built
  /\ built' = built \ {x}
  /\ UNCHANGED <<registry, broken, disk, dry, round, crashes>>
  /\ Watch

\* A file that cannot be read or does not parse; a directory that cannot be
\* listed.
Break(s) ==
  /\ s \notin broken
  /\ broken' = broken \cup {s}
  /\ UNCHANGED <<registry, built, disk, dry, round, crashes>>
  /\ Watch

Mend(s) ==
  /\ s \in broken
  /\ broken' = broken \ {s}
  /\ UNCHANGED <<registry, built, disk, dry, round, crashes>>
  /\ Watch

\* Somebody puts an entry of their own into ~/var/bin, or removes one.
UserEdits(b, e) ==
  /\ entry[b] # e
  /\ entry' = [entry EXCEPT ![b] = e]
  /\ steady' = {x \in steady : x[2] # b}
  /\ UNCHANGED <<world, shims, dry, round, crashes, absent>>

----------------------------------------------------------------------------
(* Engine.Sync.                                                            *)

\* An unreadable registry is an empty one; of one that does not parse the
\* decoder keeps what it got.  Both are logged and the round goes on.
Decoded ==
  IF Registry \notin broken THEN {registry}
  ELSE {f \in [Registered -> RegistryDef] :
          \A x \in Registered : f[x] \in {registry[x], "none"}}

ReadRegistry ==
  /\ pc = "read"
  /\ \E f \in Decoded :
       expected' = [x \in Export |-> IF x \in Registered THEN f[x] ELSE "none"]
  /\ pc' = "scan"
  /\ UNCHANGED <<world, disk, dry, at, todo, relink, crashes, history>>

\* ScanProject: the executables of one project, none if its bin directory
\* cannot be listed.
Scanned(p) == IF p \in broken THEN {} ELSE {x \in built : x[1] = p}

\* Mutant: a bin directory that cannot be listed holds the round up.
ScanReadableOnly ==
  /\ pc = "scan"
  /\ at <= Len(Known)
  /\ Known[at] \notin broken
  /\ expected' = [x \in Export |->
                    IF expected[x] = "none" /\ x \in Scanned(Known[at])
                    THEN "native" ELSE expected[x]]
  /\ at' = at + 1
  /\ UNCHANGED <<world, disk, dry, pc, todo, relink, crashes, history>>

\* The registry's word on a name of a project is kept over the scan's.
ScanProject ==
  /\ pc = "scan"
  /\ at <= Len(Known)
  /\ expected' = [x \in Export |->
                    IF expected[x] = "none" /\ x \in Scanned(Known[at])
                    THEN "native" ELSE expected[x]]
  /\ at' = at + 1
  /\ UNCHANGED <<world, disk, dry, pc, todo, relink, crashes, history>>

Expected == {x \in Export : expected[x] # "none"}

BeginLinks ==
  /\ pc = "scan"
  /\ at > Len(Known)
  /\ pc' = "link"
  /\ todo' = Expected
  /\ UNCHANGED <<world, disk, dry, at, expected, relink, crashes, history>>

\* The two nested map iterations: one project after another, in any order.
NextToLink(x) ==
  /\ pc = "link"
  /\ relink = <<>>
  /\ x \in todo
  /\ \A p \in Project \ {x[1]} :
       LET mine == {y \in Expected : y[1] = p}
       IN  mine \cap todo \in {{}, mine}

\* GenerateWrapper knows no wrapper for this type: the name stays expected,
\* its link is left as it is.
SkipUnknown(x) ==
  /\ NextToLink(x)
  /\ expected[x] = "other"
  /\ todo' = todo \ {x}
  /\ UNCHANGED <<world, disk, dry, pc, at, expected, relink, crashes, history>>

\* The wrapper script cannot be written: logged, and no link is made.
WrapperFails(x) ==
  /\ NextToLink(x)
  /\ expected[x] = "docker"
  /\ ~dry
  /\ todo' = todo \ {x}
  /\ steady' = steady \ {x}
  /\ UNCHANGED <<world, disk, dry, pc, at, expected, relink, crashes, absent>>

\* Mutant: the wrapper is written before the type is looked at.
WriteWrapperForAll(x) == shims' = IF dry THEN shims ELSE shims \cup {x}

WriteWrapper(x) ==
  shims' = IF expected[x] = "docker" /\ ~dry THEN shims \cup {x} ELSE shims

\* Mutant: any link is taken for the right one.
AnyLinkStands(x) ==
  /\ NextToLink(x)
  /\ expected[x] # "other"
  /\ entry[x[2]].kind \in {"native", "shim", "elsewhere"} \/ dry
  /\ WriteWrapper(x)
  /\ todo' = todo \ {x}
  /\ UNCHANGED <<world, entry, dry, pc, at, expected, relink, crashes, history>>

\* ensureSymlink finds the link as it should be, or this is a dry run.
LinkStands(x) ==
  /\ NextToLink(x)
  /\ expected[x] # "other"
  /\ entry[x[2]] = Target(x, expected[x]) \/ dry
  /\ WriteWrapper(x)
  /\ todo' = todo \ {x}
  /\ UNCHANGED <<world, entry, dry, pc, at, expected, relink, crashes, history>>

\* ensureSymlink removes whatever has the name, if it can: the error of the
\* removal is dropped.
RemoveOld(x) ==
  /\ NextToLink(x)
  /\ expected[x] # "other"
  /\ ~dry
  /\ entry[x[2]] # Target(x, expected[x])
  /\ WriteWrapper(x)
  /\ relink' = x
  /\ \/ /\ entry' = [entry EXCEPT ![x[2]] = Free]
        /\ UNCHANGED steady
     \/ /\ entry[x[2]] # Free
        /\ steady' = steady \ {x}
        /\ UNCHANGED entry
  /\ UNCHANGED <<world, dry, pc, at, expected, todo, crashes, absent>>

\* The new link, or the error that is logged when the name is taken (nobody
\* removed what had it, or somebody took it again) or the call fails.
Symlink ==
  /\ relink # <<>>
  /\ \/ /\ entry[relink[2]] = Free
        /\ entry' = [entry EXCEPT ![relink[2]] = Target(relink, expected[relink])]
        /\ UNCHANGED steady
     \/ /\ entry[relink[2]] = Free
        /\ steady' = {x \in steady : x[2] # relink[2]}
        /\ UNCHANGED entry
     \/ /\ entry[relink[2]] # Free
        /\ UNCHANGED <<entry, steady>>
  /\ todo' = todo \ {relink}
  /\ relink' = <<>>
  /\ UNCHANGED <<world, shims, dry, pc, at, expected, crashes, absent>>

----------------------------------------------------------------------------
(* archiveOrphans.                                                         *)

ListNames ==
  /\ pc = "link"
  /\ todo = {}
  /\ pc' = "archive"
  /\ todo' = {b \in Bin : entry[b] # Free}
  /\ UNCHANGED <<world, disk, dry, at, expected, relink, crashes, history>>

\* The directory cannot be listed: archiveOrphans returns and Sync goes on.
ListFails ==
  /\ pc = "link"
  /\ todo = {}
  /\ pc' = "archive"
  /\ absent' = {}
  /\ UNCHANGED <<world, disk, dry, at, expected, todo, relink, crashes, steady>>

\* Mutants: only wrappers are recognised; every link is.
OnlyWrappers(e) == e.kind \in {"shim", "work"}
EveryLink(e) == e.kind \in {"shim", "native", "elsewhere", "foreign", "work"}

\* A link into the state directory, or into a path with "/work/" in it,
\* whoever made it.
LooksManaged(e) == e.kind \in {"shim", "work"} \/ (e.kind = "native" /\ WorkRoot)

Orphan(b) == /\ \A x \in Expected : x[2] # b
             /\ LooksManaged(entry[b])
             /\ ~dry

KeepEntry(b) ==
  /\ pc = "archive"
  /\ b \in todo
  /\ ~Orphan(b)
  /\ todo' = todo \ {b}
  /\ UNCHANGED <<world, disk, dry, pc, at, expected, relink, crashes, history>>

\* The link is moved to the archive, or stays when the archive's directory
\* cannot be made or the link not be moved; both errors are dropped.  The
\* wrapper is not moved: its path, relative to ~/var/bin, is renamed relative
\* to the daemon's working directory.
Archive(b) ==
  /\ pc = "archive"
  /\ b \in todo
  /\ Orphan(b)
  /\ \/ entry' = [entry EXCEPT ![b] = Free] /\ UNCHANGED absent
     \/ absent' = absent \ {b} /\ UNCHANGED entry
  /\ todo' = todo \ {b}
  /\ UNCHANGED <<world, shims, dry, pc, at, expected, relink, crashes, steady>>

\* dumpState, and Sync returns.
EndSync ==
  /\ pc = "archive"
  /\ todo = {}
  /\ pc' = "skills"
  /\ UNCHANGED <<world, disk, dry, at, expected, todo, relink, crashes, history>>

----------------------------------------------------------------------------
(* syncSkills, the ticker and the process.                                 *)

\* GenerateCLIWrapper opens the name for writing, which follows a link: the
\* script lands in the file the link leads to, and makes it if there is none.
WriteCLI ==
  LET e == entry[CLI] IN
  /\ entry' = [entry EXCEPT ![CLI] =
                 IF @.kind \in {"free", "file", "cli"} THEN CliFile ELSE @]
  /\ built' = IF e.kind = "native" /\ ~ReadOnlyTree
              THEN built \cup {<<e.of, CLI>>} ELSE built
  /\ shims' = IF e.kind = "shim" THEN shims \cup {<<e.of, CLI>>} ELSE shims
  /\ UNCHANGED <<registry, broken>>
  /\ Watch

\* A CLI that cannot be written is logged and left as it is.
SyncSkills ==
  /\ pc = "skills"
  /\ pc' = "idle"
  /\ \/ ExposeCLI /\ ~dry /\ WriteCLI
     \/ UNCHANGED <<world, disk, history>>
  /\ UNCHANGED <<dry, at, expected, todo, relink, crashes>>

Tick ==
  /\ pc = "idle"
  /\ BeginRound
  /\ UNCHANGED <<world, disk, dry, crashes>>

\* The daemon dies or is stopped wherever it is, and is started again.
Restart ==
  /\ crashes < MaxCrashes
  /\ crashes' = crashes + 1
  /\ BeginRound
  /\ dry' \in BOOLEAN
  /\ UNCHANGED <<world, disk>>

----------------------------------------------------------------------------
Sync ==
  \/ ReadRegistry
  \/ ScanProject
  \/ BeginLinks
  \/ \E x \in Export : \/ SkipUnknown(x)
                       \/ WrapperFails(x)
                       \/ LinkStands(x)
                       \/ RemoveOld(x)
  \/ Symlink
  \/ ListNames
  \/ ListFails
  \/ \E b \in Bin : KeepEntry(b) \/ Archive(b)
  \/ EndSync
  \/ SyncSkills
  \/ Tick

Owners ==
  \/ \E x \in Registered, d \in RegistryDef : EditRegistry(x, d)
  \/ \E x \in Built : Build(x) \/ Clean(x)
  \/ \E s \in Fragile : Break(s) \/ Mend(s)
  \/ \E o \in Others : UserEdits(o[1], o[2])
  \/ \E b \in Bin : UserEdits(b, Free)

Next == Sync \/ Owners \/ Restart

Spec == Init /\ [][Next]_vars

\* The goroutine keeps running; nobody else has to.
FairSpec == Spec /\ WF_vars(Sync)
----------------------------------------------------------------------------
(* Properties.                                                             *)

Phase == {"read", "scan", "link", "archive", "skills", "idle"}

\* The variables keep their types; a link is only in the making during the
\* linking phase, for an export the round expects.
TypeOK ==
  /\ registry \in [Registered -> RegistryDef]
  /\ built \subseteq Built
  /\ broken \subseteq Fragile
  /\ entry \in [Bin -> Entry]
  /\ shims \subseteq Registered
  /\ dry \in BOOLEAN
  /\ pc \in Phase
  /\ at \in 1 .. Len(Known) + 1
  /\ expected \in [Export -> ExportDef]
  /\ todo \subseteq Expected \cup Bin
  /\ relink \in Expected \cup {<<>>}
  /\ relink # <<>> => pc = "link" /\ relink \in todo
  /\ crashes \in 0 .. MaxCrashes
  /\ steady \subseteq Export
  /\ absent \subseteq Bin

RoundDone == pc \in {"skills", "idle"} /\ ~dry

\* The links that expected exports of name b may have.
LinksFor(b) ==
  {Target(x, expected[x]) : x \in {y \in Expected : y[2] = b}}

\* Once Sync has returned, every export that could be read and did not change
\* while it ran, and whose wrapper and link no failing call was about, has its
\* name linked to what the round expected under that name, whatever other
\* exports, inputs, names and calls did meanwhile, and whatever an earlier
\* round or a crash in the middle of one had left behind.
LiveExportsLinked ==
  RoundDone => \A x \in steady : entry[x[2]] \in LinksFor(x[2])

\* A link of the engine's that it can tell from other people's.
Managed(e) == e.kind = "shim" \/ (e.kind = "native" /\ WorkRoot)

\* Once Sync has returned, no link to a wrapper, and under a "/work/" root none
\* into a project, is left under a name that nothing exported while it ran,
\* also when some inputs could not be read; unless ~/var/bin could not be
\* listed, or the very link not be moved.
NoStaleLinks ==
  RoundDone => \A b \in absent : ~Managed(entry[b])

SyncStep == round' # round /\ crashes' = crashes

\* What somebody else keeps in ~/var/bin is left alone, unless its name was
\* exported at some time since the round began or is the CLI's own name at
\* the moment the CLI is written.  The code cannot tell an operator's link
\* into "/work/" or "delightd/exports" from its own: that one it may move to
\* the archive, but never changes in place.  And a daemon started with
\* --dry-run leaves everything alone, in every phase of the round.
OwnEntriesKept ==
  [][SyncStep =>
       /\ \A b \in absent : entry[b] \in Own /\ (b # CLI \/ pc # "skills") =>
            \/ entry'[b] = entry[b]
            \/ entry[b] = OwnWorkLink /\ pc = "archive" /\ entry'[b] = Free
       /\ dry => UNCHANGED <<disk, built>>]_vars

\* An export that stays readable, unchanged and undisturbed is linked again
\* and again, whatever other exports of the fleet do: the round never gets
\* stuck on one of them, nor on a call that fails.
PickedUp ==
  \A x \in Export :
    <>[](x \in steady /\ ~dry) => []<>(entry[x[2]] \in LinksFor(x[2]))
=============================================================================
