-------------------------- MODULE ExportSyncProofs --------------------------
(***************************************************************************)
(* What a sync round makes of ~/var/bin, for every configuration, every    *)
(* set of exports and any number of crashes.                               *)
(*                                                                         *)
(* The argument follows the round.  Each input is read at its own moment,  *)
(* so what the round expects is compared with the two histories: an export *)
(* that stood still is found as it is (Found), a name nobody exports is    *)
(* not found (NotFound).  From there on only `expected' matters: the links *)
(* of the exports done so far stand, but for the one name that is between  *)
(* its removal and its new link (Linked), and the names looked at so far   *)
(* are rid of the engine's links nothing expects (Swept).  A call that     *)
(* fails takes what it was about out of the histories and nothing else: a  *)
(* removal its own export, a failed link every export of the name, a       *)
(* failed move the name, a failed listing every name.                      *)
(***************************************************************************)
EXTENDS ExportSync, TLAPS

\* What is left to do, phase by phase; only a real run takes links away.
Agenda ==
  /\ pc = "read" => at = 1
  /\ pc = "link" => todo \subseteq Expected
  /\ pc = "archive" => todo \subseteq Bin
  /\ pc \notin {"link", "archive"} => todo = {}
  /\ relink # <<>> => ~dry

\* Definitions and links are of exports that may exist: a wrapper stands for a
\* registered one, a link into a tree for a built one.
Grounded ==
  /\ \A x \in Export : /\ expected[x] \in RegistryDef \ {"none"} => x \in Registered
                       /\ expected[x] = "native" => x \in Built
  /\ \A b \in Bin : /\ entry[b].kind = "shim" => <<entry[b].of, b>> \in Registered
                    /\ entry[b].kind = "native" => <<entry[b].of, b>> \in Built

\* The histories say something of the world as it is now, too.
Current ==
  /\ steady \subseteq Linkable(registry, built, broken)
  /\ absent \subseteq Unexported(registry, built)

\* The round has found x as it is, as far as it has read.
FoundAsIs(x) ==
  LET v == Visible(registry, built, x) IN
  /\ pc # "read" /\ v # "native" => expected[x] = v
  /\ pc = "scan" /\ v = "native" =>
       /\ expected[x] \in {"none", "native"}
       /\ \A i \in 1 .. at - 1 : Known[i] = x[1] => expected[x] = "native"
  /\ pc \notin {"read", "scan"} => expected[x] = v

Found == \A x \in steady : FoundAsIs(x)

NotFound == \A x \in Export : x[2] \in absent => expected[x] = "none"

\* The name of x is between ensureSymlink's removal and its new link.
Between(x) == relink # <<>> /\ relink[2] = x[2]

Removed(x) == Between(x) /\ entry[x[2]] = Free

LinkedAsFound(x) ==
  /\ Between(x) /\ relink = x => entry[x[2]] = Free
  /\ pc = "link" /\ x \notin todo /\ ~Removed(x) => entry[x[2]] \in LinksFor(x[2])
  /\ pc \in {"archive", "skills", "idle"} => entry[x[2]] \in LinksFor(x[2])

Linked == ~dry => \A x \in steady : LinkedAsFound(x)

Looked(b) == (pc = "archive" /\ b \notin todo) \/ pc \in {"skills", "idle"}

Swept == ~dry => \A b \in absent : Looked(b) => ~Managed(entry[b])

SyncInv ==
  /\ TypeOK /\ Agenda /\ Grounded /\ Current
  /\ Found /\ NotFound /\ Linked /\ Swept

-----------------------------------------------------------------------------
\* An export is a project and a name.
LEMMA ExportPairs ==
  ASSUME NEW x \in Export
  PROVE  x[1] \in Project /\ x[2] \in Bin /\ x = <<x[1], x[2]>> /\ x # <<>>
  <1>1. x \in Project \X Bin  BY ExportAssumption DEF Export
  <1>2. QED  BY <1>1

\* The projects are the elements of the configured list.
LEMMA KnownProjects ==
  /\ Len(Known) \in Nat
  /\ \A i \in 1 .. Len(Known) : Known[i] \in Project
  /\ \A p \in Project : \E i \in 1 .. Len(Known) : Known[i] = p
  <1>1. Known \in Seq(Project)  BY ExportAssumption
  <1>2. Len(Known) \in Nat /\ DOMAIN Known = 1 .. Len(Known)  BY <1>1
  <1>3. QED  BY <1>2 DEF Project, Range

\* A target is a link of the engine's, into the project the export is of.
LEMMA TargetLink ==
  ASSUME NEW x \in Export, NEW d
  PROVE  /\ Target(x, d) \in Entry
         /\ Target(x, d).kind \in {"native", "shim", "elsewhere"}
         /\ Target(x, d).kind = "shim" => d = "docker" /\ Target(x, d).of = x[1]
         /\ Target(x, d).kind = "native" => d = "native" /\ Target(x, d).of = x[1]
  <1>1. x[1] \in Project  BY ExportPairs
  <1>2. CASE d = "docker"
    BY <1>1, <1>2 DEF Target, Entry, ShimLink
  <1>3. CASE d = "native"
    BY <1>1, <1>3 DEF Target, Entry, NativeLink
  <1>4. CASE d \notin {"docker", "native"}
    BY <1>4 DEF Target, Entry, Elsewhere
  <1>5. QED  BY <1>2, <1>3, <1>4

\* Links of expected exports are links.
LEMMA LinksForLinks ==
  ASSUME NEW b, NEW e \in LinksFor(b)
  PROVE  e.kind \in {"native", "shim", "elsewhere"}
  <1>1. PICK x \in Export : e = Target(x, expected[x])
    BY DEF LinksFor, Expected
  <1>2. QED  BY <1>1, TargetLink

\* What a set of exports is linked to depends on what was found only.
LEMMA LinksForSame ==
  ASSUME expected' = expected
  PROVE  Expected' = Expected /\ \A b : LinksFor(b)' = LinksFor(b)
  BY DEF Expected, LinksFor

\* Free, and what somebody else keeps, is nothing the engine manages.
LEMMA OwnUnmanaged ==
  ASSUME NEW e \in Own \cup {Free, CliFile}
  PROVE  /\ e \in Entry /\ e.kind \notin {"native", "shim", "elsewhere"}
         /\ ~Managed(e)
         /\ e # OwnWorkLink => ~LooksManaged(e)
  BY DEF Own, Free, CliFile, OwnFile, OwnLink, OwnWorkLink, Entry, Managed, LooksManaged

\* archiveOrphans recognises every link of the engine's that can be told.
LEMMA ManagedIsSeen ==
  ASSUME NEW e, Managed(e)
  PROVE  LooksManaged(e)
  BY DEF Managed, LooksManaged

\* What Visible may say.
LEMMA VisibleType ==
  ASSUME NEW reg \in [Registered -> RegistryDef], NEW blt, NEW x
  PROVE  /\ Visible(reg, blt, x) \in ExportDef
         /\ Visible(reg, blt, x) = "native" => x \in blt /\ (x \in Registered => reg[x] = "none")
         /\ Visible(reg, blt, x) \notin {"none", "native"} => x \in Registered
         /\ x \in Registered /\ reg[x] # "none" => Visible(reg, blt, x) = reg[x]
         /\ Visible(reg, blt, x) = "none" => x \notin blt /\ (x \in Registered => reg[x] = "none")
  BY DEF Visible, ExportDef, RegistryDef

-----------------------------------------------------------------------------
\* Before the first round nothing is exported and nothing is there.
LEMMA SyncInit == Init => SyncInv
  <1> SUFFICES ASSUME Init PROVE SyncInv  OBVIOUS
  <1>1. expected \in [Export -> ExportDef] /\ \A x \in Export : expected[x] = "none"
    BY DEF Init, ExportDef, RegistryDef
  <1>2. entry \in [Bin -> Entry] /\ \A b \in Bin : entry[b] = Free
    BY OwnUnmanaged DEF Init
  <1>3. registry \in [Registered -> RegistryDef]
    BY DEF Init, RegistryDef
  <1>4. at \in 1 .. Len(Known) + 1
    BY KnownProjects DEF Init
  <1>5. crashes \in 0 .. MaxCrashes
    BY ExportAssumption DEF Init
  <1>6. TypeOK
    BY <1>1, <1>2, <1>3, <1>4, <1>5 DEF Init, TypeOK, Phase
  <1>7. Agenda /\ NotFound /\ Found /\ Linked /\ Swept
    BY <1>1 DEF Init, Agenda, NotFound, Found, Linked, Swept, Looked
  <1>8. Grounded
    BY <1>1, <1>2, OwnUnmanaged DEF Grounded
  <1>9. \A x \in Export : Visible(registry, built, x) = "none"
    BY DEF Init, Visible
  <1>10. Current
    BY <1>9 DEF Init, Current, Unexported
  <1>11. QED  BY <1>6, <1>7, <1>8, <1>10 DEF SyncInv

\* A round begins, at a tick or with a process.
LEMMA BeginStep ==
  ASSUME SyncInv, BeginRound, UNCHANGED <<world, disk>>,
         dry' \in BOOLEAN, crashes' \in 0 .. MaxCrashes
  PROVE  SyncInv'
  <1>1. /\ registry' = registry /\ built' = built /\ broken' = broken
        /\ entry' = entry /\ shims' = shims
    BY DEF world, disk
  <1>2. expected' \in [Export -> ExportDef] /\ \A x \in Export : expected'[x] = "none"
    BY DEF BeginRound, ExportDef, RegistryDef
  <1>3. at' \in 1 .. Len(Known) + 1
    BY KnownProjects DEF BeginRound
  <1>4. /\ steady' = Linkable(registry, built, broken) /\ steady' \subseteq Export
        /\ absent' = Unexported(registry, built) /\ absent' \subseteq Bin
    BY DEF BeginRound, Linkable, Unexported
  <1>5. TypeOK'
    BY <1>1, <1>2, <1>3, <1>4 DEF BeginRound, SyncInv, TypeOK, Phase
  <1>6. Agenda' /\ NotFound'
    BY <1>2 DEF BeginRound, Agenda, NotFound
  <1>7. Grounded'
    BY <1>1, <1>2 DEF SyncInv, Grounded
  <1>8. Current'
    BY <1>1, <1>4 DEF Current
  <1>9. Found' /\ Linked' /\ Swept'
    BY DEF BeginRound, Found, FoundAsIs, Linked, LinkedAsFound, Removed, Between, Swept, Looked
  <1>10. QED  BY <1>5, <1>6, <1>7, <1>8, <1>9 DEF SyncInv

\* What a change of the world leaves in the histories stood still through it.
LEMMA WatchFacts ==
  ASSUME Watch
  PROVE  /\ steady' \subseteq steady /\ absent' \subseteq absent
         /\ Current'
         /\ \A x \in steady' : Visible(registry', built', x) = Visible(registry, built, x)
  BY DEF Watch, Current

\* The world changes beside the round: registry edits, builds, cleans, and
\* inputs that become unreadable or readable again.
LEMMA WorldStep ==
  ASSUME SyncInv, Watch, UNCHANGED <<disk, dry, round, crashes>>,
         registry' \in [Registered -> RegistryDef],
         built' \subseteq Built, broken' \subseteq Fragile
  PROVE  SyncInv'
  <1>1. /\ entry' = entry /\ shims' = shims /\ dry' = dry /\ pc' = pc /\ at' = at
        /\ expected' = expected /\ todo' = todo /\ relink' = relink /\ crashes' = crashes
    BY DEF disk, round
  <1>2. TypeOK'
    BY <1>1, WatchFacts, LinksForSame DEF SyncInv, TypeOK
  <1>3. Agenda' /\ Grounded'
    BY <1>1, LinksForSame DEF SyncInv, Agenda, Grounded
  <1>4. NotFound'
    BY <1>1, WatchFacts DEF SyncInv, NotFound
  <1>5. Found'
    BY <1>1, WatchFacts DEF SyncInv, Found, FoundAsIs
  <1>6. Linked'
    BY <1>1, WatchFacts, LinksForSame DEF SyncInv, Linked, LinkedAsFound, Removed, Between
  <1>7. Swept'
    BY <1>1, WatchFacts DEF SyncInv, Swept, Looked
  <1>8. QED  BY <1>2, <1>3, <1>4, <1>5, <1>6, <1>7, WatchFacts DEF SyncInv

\* Somebody's own entries: the name is not steady any more.
LEMMA UserStep ==
  ASSUME SyncInv, NEW b \in Bin, NEW e \in Own \cup {Free}, UserEdits(b, e)
  PROVE  SyncInv'
  <1>1. /\ registry' = registry /\ built' = built /\ broken' = broken
        /\ shims' = shims /\ dry' = dry /\ pc' = pc /\ at' = at /\ expected' = expected
        /\ todo' = todo /\ relink' = relink /\ crashes' = crashes /\ absent' = absent
        /\ steady' = {x \in steady : x[2] # b}
    BY DEF UserEdits, world, round
  <1>2. /\ entry' \in [Bin -> Entry] /\ entry'[b] = e
        /\ \A c \in Bin \ {b} : entry'[c] = entry[c]
    BY OwnUnmanaged DEF SyncInv, TypeOK, UserEdits
  <1>3. TypeOK'
    BY <1>1, <1>2, LinksForSame DEF SyncInv, TypeOK
  <1>4. Agenda' /\ Current' /\ NotFound' /\ Found'
    BY <1>1, LinksForSame DEF SyncInv, Agenda, Current, NotFound, Found, FoundAsIs
  <1>5. Grounded'
    BY <1>1, <1>2, OwnUnmanaged DEF SyncInv, Grounded
  <1>6. Linked'
    <2>1. \A x \in steady' : x \in steady /\ x[2] \in Bin /\ entry'[x[2]] = entry[x[2]]
      BY <1>1, <1>2, ExportPairs DEF SyncInv, TypeOK
    <2>2. QED  BY <1>1, <2>1, LinksForSame DEF SyncInv, Linked, LinkedAsFound, Removed, Between
  <1>7. Swept'
    BY <1>1, <1>2, OwnUnmanaged DEF SyncInv, TypeOK, Swept, Looked
  <1>8. QED  BY <1>3, <1>4, <1>5, <1>6, <1>7 DEF SyncInv

-----------------------------------------------------------------------------
\* The registry is read: what it says of an export that stands still is what
\* the round finds, and of a name nobody exports it says nothing, whole or not.
LEMMA ReadStep ==
  ASSUME SyncInv, ReadRegistry
  PROVE  SyncInv'
  <1>1. /\ registry' = registry /\ built' = built /\ broken' = broken
        /\ entry' = entry /\ shims' = shims /\ dry' = dry /\ at' = at
        /\ todo' = todo /\ relink' = relink /\ crashes' = crashes
        /\ steady' = steady /\ absent' = absent /\ pc = "read" /\ pc' = "scan"
    BY DEF ReadRegistry, world, disk, history
  <1>2. todo = {} /\ relink = <<>> /\ at = 1
    BY <1>1 DEF SyncInv, TypeOK, Agenda
  <1>3. PICK f \in Decoded :
          expected' = [x \in Export |-> IF x \in Registered THEN f[x] ELSE "none"]
    BY DEF ReadRegistry
  <1>4. /\ f \in [Registered -> RegistryDef]
        /\ \A x \in Registered : f[x] \in {registry[x], "none"}
        /\ Registry \notin broken => f = registry
    BY DEF Decoded, SyncInv, TypeOK
  <1>5. /\ expected' \in [Export -> ExportDef]
        /\ \A x \in Export : expected'[x] = IF x \in Registered THEN f[x] ELSE "none"
    BY <1>3, <1>4 DEF ExportDef, RegistryDef
  <1>6. TypeOK'
    BY <1>1, <1>2, <1>5 DEF SyncInv, TypeOK, Phase
  <1>7. Agenda' /\ Current'
    BY <1>1, <1>2 DEF SyncInv, Agenda, Current
  <1>8. Grounded'
    BY <1>1, <1>4, <1>5 DEF SyncInv, Grounded, RegistryDef
  <1>9. NotFound'
    <2> SUFFICES ASSUME NEW x \in Export, x[2] \in absent PROVE expected'[x] = "none"
      BY <1>1 DEF NotFound
    <2>1. Visible(registry, built, x) = "none"
      BY DEF SyncInv, Current, Unexported
    <2>2. QED  BY <1>4, <1>5, <2>1, VisibleType DEF SyncInv, TypeOK
  <1>10. Found'
    <2> SUFFICES ASSUME NEW x \in steady PROVE FoundAsIs(x)'
      BY <1>1 DEF Found
    <2>1. x \in Export /\ Registry \notin broken
      BY DEF SyncInv, Current, Linkable
    <2>2. CASE Visible(registry, built, x) = "native"
      <3>1. expected'[x] = "none"
        BY <1>4, <1>5, <2>1, <2>2, VisibleType DEF SyncInv, TypeOK
      <3>2. QED  BY <1>1, <1>2, <2>2, <3>1 DEF FoundAsIs
    <2>3. CASE Visible(registry, built, x) # "native"
      <3>1. Visible(registry, built, x) # "none"
        BY DEF SyncInv, Current, Linkable
      <3>2. x \in Registered /\ registry[x] = Visible(registry, built, x)
        BY <2>3, <3>1 DEF Visible
      <3>3. expected'[x] = Visible(registry, built, x)
        BY <1>4, <1>5, <2>1, <3>2
      <3>4. QED  BY <1>1, <2>3, <3>3 DEF FoundAsIs
    <2>4. QED  BY <2>2, <2>3
  <1>11. Linked' /\ Swept'
    BY <1>1, <1>2 DEF Linked, LinkedAsFound, Removed, Between, Swept, Looked
  <1>12. QED  BY <1>6, <1>7, <1>8, <1>9, <1>10, <1>11 DEF SyncInv

\* One bin directory is listed.
LEMMA ScanStep ==
  ASSUME SyncInv, ScanProject
  PROVE  SyncInv'
  <1>1. /\ registry' = registry /\ built' = built /\ broken' = broken
        /\ entry' = entry /\ shims' = shims /\ dry' = dry /\ at' = at + 1
        /\ todo' = todo /\ relink' = relink /\ crashes' = crashes
        /\ steady' = steady /\ absent' = absent /\ pc = "scan" /\ pc' = "scan"
        /\ at <= Len(Known)
    BY DEF ScanProject, world, disk, history
  <1>2. todo = {} /\ relink = <<>> /\ at \in 1 .. Len(Known) + 1
    BY <1>1 DEF SyncInv, TypeOK, Agenda
  <1>3. at \in 1 .. Len(Known) /\ at + 1 \in 1 .. Len(Known) + 1 /\ at \in Nat
    BY <1>1, <1>2, KnownProjects
  <1>4. /\ expected' \in [Export -> ExportDef]
        /\ \A x \in Export : expected'[x] = IF expected[x] = "none" /\ x \in Scanned(Known[at])
                                            THEN "native" ELSE expected[x]
    BY DEF ScanProject, SyncInv, TypeOK, ExportDef
  <1>5. \A x \in Scanned(Known[at]) : x \in built
    BY DEF Scanned
  <1>6. TypeOK'
    BY <1>1, <1>2, <1>3, <1>4 DEF SyncInv, TypeOK
  <1>7. Agenda' /\ Current'
    BY <1>1, <1>2 DEF SyncInv, Agenda, Current
  <1>8. Grounded'
    BY <1>1, <1>4, <1>5 DEF SyncInv, TypeOK, Grounded, RegistryDef
  <1>9. NotFound'
    <2> SUFFICES ASSUME NEW x \in Export, x[2] \in absent PROVE expected'[x] = "none"
      BY <1>1 DEF NotFound
    <2>1. Visible(registry, built, x) = "none" /\ expected[x] = "none"
      BY DEF SyncInv, Current, Unexported, NotFound
    <2>2. x \notin Scanned(Known[at])
      BY <1>5, <2>1, VisibleType DEF SyncInv, TypeOK
    <2>3. QED  BY <1>4, <2>1, <2>2
  <1>10. Found'
    <2> SUFFICES ASSUME NEW x \in steady PROVE FoundAsIs(x)'
      BY <1>1 DEF Found
    <2>1. /\ x \in Export /\ x[1] \notin broken /\ FoundAsIs(x)
          /\ Visible(registry, built, x) \notin {"none", "other"}
      BY DEF SyncInv, Current, Linkable, Found
    <2>2. CASE Visible(registry, built, x) = "native"
      <3>1. expected[x] \in {"none", "native"} /\ expected'[x] \in {"none", "native"}
        BY <1>1, <1>4, <2>1, <2>2 DEF FoundAsIs
      <3>2. ASSUME Known[at] = x[1] PROVE expected'[x] = "native"
        <4>1. x \in Scanned(Known[at])
          BY <2>1, <2>2, <3>2, VisibleType DEF Scanned, SyncInv, TypeOK
        <4>2. QED  BY <1>4, <2>1, <3>1, <4>1
      <3>3. ASSUME NEW i \in 1 .. at, Known[i] = x[1] PROVE expected'[x] = "native"
        <4>1. CASE i = at  BY <3>2, <3>3, <4>1
        <4>2. CASE i # at
          <5>1. i \in 1 .. at - 1  BY <1>3, <4>2
          <5>2. expected[x] = "native"
            BY <1>1, <2>1, <2>2, <3>3, <5>1 DEF FoundAsIs
          <5>3. QED  BY <1>4, <2>1, <5>2
        <4>3. QED  BY <4>1, <4>2
      <3>4. (at + 1) - 1 = at  BY <1>3
      <3>5. QED  BY <1>1, <2>2, <3>1, <3>3, <3>4 DEF FoundAsIs
    <2>3. CASE Visible(registry, built, x) # "native"
      BY <1>1, <1>4, <2>1, <2>3 DEF FoundAsIs
    <2>4. QED  BY <2>2, <2>3
  <1>11. Linked' /\ Swept'
    BY <1>1, <1>2 DEF Linked, LinkedAsFound, Removed, Between, Swept, Looked
  <1>12. QED  BY <1>6, <1>7, <1>8, <1>9, <1>10, <1>11 DEF SyncInv

\* Every project has been scanned, so every steady export is expected.
LEMMA BeginLinksStep ==
  ASSUME SyncInv, BeginLinks
  PROVE  SyncInv'
  <1>1. /\ registry' = registry /\ built' = built /\ broken' = broken
        /\ entry' = entry /\ shims' = shims /\ dry' = dry /\ at' = at
        /\ expected' = expected /\ relink' = relink /\ crashes' = crashes
        /\ steady' = steady /\ absent' = absent /\ pc = "scan" /\ pc' = "link"
        /\ at > Len(Known) /\ todo' = Expected
    BY DEF BeginLinks, world, disk, history
  <1>2. relink = <<>> /\ at \in 1 .. Len(Known) + 1
    BY <1>1 DEF SyncInv, TypeOK
  <1>3. Expected' = Expected  BY <1>1, LinksForSame
  <1>4. TypeOK' /\ Agenda' /\ Current' /\ NotFound' /\ Grounded'
    BY <1>1, <1>2, <1>3 DEF SyncInv, TypeOK, Phase, Agenda, Current, NotFound, Grounded
  <1>5. ASSUME NEW x \in steady
        PROVE  expected[x] = Visible(registry, built, x) /\ x \in Expected
    <2>1. /\ x \in Export /\ FoundAsIs(x) /\ x[1] \in Project
          /\ Visible(registry, built, x) \notin {"none", "other"}
      BY <1>5, ExportPairs DEF SyncInv, Current, Linkable, Found
    <2>2. PICK i \in 1 .. Len(Known) : Known[i] = x[1]
      BY <2>1, KnownProjects
    <2>3. i \in 1 .. at - 1
      BY <1>1, <1>2, KnownProjects
    <2>4. expected[x] = Visible(registry, built, x)
      BY <1>1, <2>1, <2>2, <2>3 DEF FoundAsIs
    <2>5. QED  BY <2>1, <2>4 DEF Expected
  <1>6. Found'
    BY <1>1, <1>5 DEF Found, FoundAsIs
  <1>7. Linked' /\ Swept'
    BY <1>1, <1>2, <1>5 DEF Linked, LinkedAsFound, Removed, Between, Swept, Looked
  <1>8. QED  BY <1>4, <1>6, <1>7 DEF SyncInv

-----------------------------------------------------------------------------
\* A step of the linking phase: names become free or become the link of an
\* expected export, and what is left of the invariant is Linked.
LEMMA LinkPhaseStep ==
  ASSUME SyncInv, pc = "link",
         UNCHANGED <<world, dry, pc, at, expected, crashes, absent>>,
         steady' \subseteq steady, shims' \subseteq Registered, todo' \subseteq todo,
         relink' = <<>> \/ (relink' \in todo' /\ ~dry),
         entry' \in [Bin -> Entry],
         \A b \in Bin : \/ entry'[b] \in {entry[b], Free}
                        \/ \E x \in Expected : /\ x[2] = b
                                               /\ entry'[b] = Target(x, expected[x]),
         Linked'
  PROVE  SyncInv'
  <1>1. /\ registry' = registry /\ built' = built /\ broken' = broken
        /\ dry' = dry /\ pc' = pc /\ at' = at /\ expected' = expected
        /\ crashes' = crashes /\ absent' = absent
    BY DEF world
  <1>2. Expected' = Expected /\ todo \subseteq Expected
    BY <1>1, LinksForSame DEF SyncInv, Agenda
  <1>3. TypeOK'
    BY <1>1, <1>2 DEF SyncInv, TypeOK
  <1>4. Agenda' /\ Current' /\ NotFound' /\ Found' /\ Swept'
    BY <1>1, <1>2 DEF SyncInv, Agenda, Current, NotFound, Found, FoundAsIs, Swept, Looked
  <1>5. Grounded'
    <2> SUFFICES ASSUME NEW b \in Bin
                 PROVE  /\ entry'[b].kind = "shim" => <<entry'[b].of, b>> \in Registered
                        /\ entry'[b].kind = "native" => <<entry'[b].of, b>> \in Built
      BY <1>1 DEF SyncInv, Grounded
    <2>1. CASE entry'[b] = entry[b]
      BY <2>1 DEF SyncInv, Grounded
    <2>2. CASE entry'[b] = Free
      BY <2>2, OwnUnmanaged
    <2>3. CASE \E x \in Expected : x[2] = b /\ entry'[b] = Target(x, expected[x])
      <3>1. PICK x \in Export : x[2] = b /\ entry'[b] = Target(x, expected[x])
        BY <2>3 DEF Expected
      <3>2. x = <<x[1], b>>  BY <3>1, ExportPairs
      <3>3. /\ expected[x] = "docker" => x \in Registered
            /\ expected[x] = "native" => x \in Built
        BY DEF SyncInv, Grounded, RegistryDef
      <3>4. QED  BY <3>1, <3>2, <3>3, TargetLink
    <2>4. QED  BY <2>1, <2>2, <2>3
  <1>6. QED  BY <1>3, <1>4, <1>5 DEF SyncInv

\* The wrapper scripts are of registered exports.
LEMMA WrapperType ==
  ASSUME SyncInv, NEW x \in Export, WriteWrapper(x)
  PROVE  shims' \subseteq Registered
  <1>1. expected[x] = "docker" => x \in Registered
    BY DEF SyncInv, Grounded, RegistryDef
  <1>2. QED  BY <1>1 DEF WriteWrapper, SyncInv, TypeOK

\* What the next export to link is, and what the round knows of it.
LEMMA NextToLinkFacts ==
  ASSUME SyncInv, NEW x \in Export, NextToLink(x)
  PROVE  /\ pc = "link" /\ relink = <<>> /\ x \in todo /\ x \in Expected /\ x[2] \in Bin
         /\ Target(x, expected[x]) \in LinksFor(x[2])
         /\ x \in steady => expected[x] # "other"
         /\ ~dry => \A y \in steady : y \notin todo => entry[y[2]] \in LinksFor(y[2])
  <1>1. /\ pc = "link" /\ relink = <<>> /\ x \in todo /\ x \in Expected /\ x[2] \in Bin
    BY ExportPairs DEF NextToLink, SyncInv, Agenda
  <1>2. Target(x, expected[x]) \in LinksFor(x[2])
    BY <1>1 DEF LinksFor
  <1>3. x \in steady => expected[x] # "other"
    BY <1>1 DEF SyncInv, Found, FoundAsIs, Current, Linkable
  <1>4. ~dry => \A y \in steady : y \notin todo => entry[y[2]] \in LinksFor(y[2])
    BY <1>1 DEF SyncInv, Linked, LinkedAsFound, Removed, Between
  <1>5. QED  BY <1>1, <1>2, <1>3, <1>4

\* No link is made: of an unknown type, or with a wrapper that could not be
\* written, which disturbs the export.
LEMMA UnlinkedStep ==
  ASSUME SyncInv, NEW x \in Export, SkipUnknown(x) \/ WrapperFails(x)
  PROVE  SyncInv'
  <1>1. /\ UNCHANGED <<world, dry, pc, at, expected, crashes, absent>>
        /\ entry' = entry /\ shims' = shims /\ relink' = relink /\ todo' = todo \ {x}
        /\ steady' \subseteq steady /\ NextToLink(x)
        /\ expected[x] = "other" \/ x \notin steady'
    BY DEF SkipUnknown, WrapperFails, disk, history
  <1>2. x \notin steady'
    BY <1>1, NextToLinkFacts
  <1>3. Linked'
    BY <1>1, <1>2, NextToLinkFacts, LinksForSame DEF Linked, LinkedAsFound, Removed, Between
  <1>4. QED
    BY <1>1, <1>3, NextToLinkFacts, LinkPhaseStep DEF SyncInv, TypeOK

\* The link is as it should be, or it is a dry run's.
LEMMA LinkStandsStep ==
  ASSUME SyncInv, NEW x \in Export, LinkStands(x)
  PROVE  SyncInv'
  <1>1. /\ UNCHANGED <<world, dry, pc, at, expected, crashes, absent>>
        /\ entry' = entry /\ relink' = relink /\ todo' = todo \ {x}
        /\ steady' = steady /\ NextToLink(x) /\ WriteWrapper(x)
        /\ entry[x[2]] = Target(x, expected[x]) \/ dry
    BY DEF LinkStands, history
  <1>2. Linked'
    BY <1>1, NextToLinkFacts, LinksForSame DEF Linked, LinkedAsFound, Removed, Between
  <1>3. shims' \subseteq Registered
    BY <1>1, WrapperType
  <1>4. QED
    BY <1>1, <1>2, <1>3, NextToLinkFacts, LinkPhaseStep DEF SyncInv, TypeOK

\* Whatever has the name goes, and the export is half done; or it stays, and
\* the export is not steady any more.
LEMMA RemoveOldStep ==
  ASSUME SyncInv, NEW x \in Export, RemoveOld(x)
  PROVE  SyncInv'
  <1>1. /\ UNCHANGED <<world, dry, pc, at, expected, crashes, absent>>
        /\ relink' = x /\ todo' = todo /\ ~dry
        /\ NextToLink(x) /\ WriteWrapper(x)
    BY DEF RemoveOld
  <1>2. x[2] \in Bin /\ x # <<>> /\ x \in todo
    BY <1>1, ExportPairs, NextToLinkFacts
  <1>3. shims' \subseteq Registered
    BY <1>1, WrapperType
  <1>4. \A y \in steady : y[2] \in Bin
    BY ExportPairs DEF SyncInv, TypeOK
  <1>5. CASE entry' = [entry EXCEPT ![x[2]] = Free] /\ steady' = steady
    <2>1. /\ entry' \in [Bin -> Entry] /\ entry'[x[2]] = Free
          /\ \A b \in Bin \ {x[2]} : entry'[b] = entry[b]
      BY <1>2, <1>5, OwnUnmanaged DEF SyncInv, TypeOK
    <2>2. Linked'
      BY <1>1, <1>2, <1>4, <1>5, <2>1, NextToLinkFacts, LinksForSame
      DEF Linked, LinkedAsFound, Removed, Between
    <2>3. QED
      BY <1>1, <1>2, <1>3, <1>5, <2>1, <2>2, NextToLinkFacts, LinkPhaseStep
  <1>6. CASE steady' = steady \ {x} /\ entry' = entry
    <2>1. Linked'
      BY <1>1, <1>2, <1>4, <1>6, NextToLinkFacts, LinksForSame
      DEF Linked, LinkedAsFound, Removed, Between
    <2>2. entry' \in [Bin -> Entry]
      BY <1>6 DEF SyncInv, TypeOK
    <2>3. QED
      BY <1>1, <1>2, <1>3, <1>6, <2>1, <2>2, NextToLinkFacts, LinkPhaseStep
  <1>7. QED  BY <1>5, <1>6 DEF RemoveOld

\* The second half of a relink.  Where the name is taken, it is by the link of
\* an export that stays steady; where the call fails, no export of the name is
\* steady any more.
LEMMA SymlinkStep ==
  ASSUME SyncInv, Symlink
  PROVE  SyncInv'
  <1>1. /\ UNCHANGED <<world, dry, pc, at, expected, crashes, absent>>
        /\ relink' = <<>> /\ todo' = todo \ {relink} /\ relink # <<>>
        /\ shims' = shims /\ steady' \subseteq steady
    BY DEF Symlink
  <1>2. pc = "link" /\ relink \in Expected /\ relink \in Export /\ relink[2] \in Bin /\ ~dry
    BY <1>1, ExportPairs DEF SyncInv, TypeOK, Agenda, Expected
  <1>3. /\ Target(relink, expected[relink]) \in Entry
        /\ Target(relink, expected[relink]) \in LinksFor(relink[2])
    BY <1>2, TargetLink DEF LinksFor
  <1>4. /\ entry' \in [Bin -> Entry]
        /\ entry'[relink[2]] \in {entry[relink[2]], Target(relink, expected[relink])}
        /\ \A b \in Bin \ {relink[2]} : entry'[b] = entry[b]
    BY <1>2, <1>3 DEF Symlink, SyncInv, TypeOK
  <1>5. Linked'
    <2> SUFFICES ASSUME NEW y \in steady' PROVE LinkedAsFound(y)'
      BY <1>1 DEF Linked
    <2>1. y \in steady /\ y \in Export /\ y[2] \in Bin /\ y # <<>> /\ LinkedAsFound(y)
      BY <1>1, <1>2, ExportPairs DEF SyncInv, TypeOK, Linked
    <2>2. ~Between(y)' /\ pc' = "link" /\ relink' # y
      BY <1>1, <1>2, <2>1 DEF Between
    <2>3. CASE y[2] = relink[2]
      <3>1. CASE entry'[y[2]] = Target(relink, expected[relink])
        BY <1>1, <1>3, <2>2, <2>3, <3>1, LinksForSame DEF LinkedAsFound
      <3>2. CASE entry[y[2]] # Free /\ entry'[y[2]] = entry[y[2]]
        <4>1. y # relink  BY <1>1, <2>1, <2>3, <3>2 DEF LinkedAsFound, Between
        <4>2. y \notin todo => entry[y[2]] \in LinksFor(y[2])
          BY <1>2, <2>1, <3>2 DEF LinkedAsFound, Removed
        <4>3. QED  BY <1>1, <2>2, <3>2, <4>1, <4>2, LinksForSame DEF LinkedAsFound
      <3>3. QED
        BY <1>2, <2>3, <3>1, <3>2 DEF Symlink, SyncInv, TypeOK
    <2>4. CASE y[2] # relink[2]
      <3>1. entry'[y[2]] = entry[y[2]]
        BY <1>4, <2>1, <2>4
      <3>2. y \notin todo => entry[y[2]] \in LinksFor(y[2])
        BY <1>2, <2>1, <2>4 DEF LinkedAsFound, Removed, Between
      <3>3. y # relink  BY <2>4
      <3>4. QED  BY <1>1, <2>2, <3>1, <3>2, <3>3, LinksForSame DEF LinkedAsFound
    <2>5. QED  BY <2>3, <2>4
  <1>6. shims' \subseteq Registered
    BY <1>1 DEF SyncInv, TypeOK
  <1>7. QED
    BY <1>1, <1>2, <1>4, <1>5, <1>6, LinkPhaseStep

-----------------------------------------------------------------------------
\* Every export has been dealt with: no link is in the making.
LEMMA ListNamesStep ==
  ASSUME SyncInv, ListNames
  PROVE  SyncInv'
  <1>1. /\ registry' = registry /\ built' = built /\ broken' = broken
        /\ entry' = entry /\ shims' = shims /\ dry' = dry /\ at' = at
        /\ expected' = expected /\ relink' = relink /\ crashes' = crashes
        /\ steady' = steady /\ absent' = absent /\ pc = "link" /\ pc' = "archive"
        /\ todo = {} /\ todo' = {b \in Bin : entry[b] # Free}
    BY DEF ListNames, world, disk, history
  <1>2. relink = <<>> /\ todo' \subseteq Bin
    BY <1>1 DEF SyncInv, TypeOK
  <1>3. Expected' = Expected  BY <1>1, LinksForSame
  <1>4. TypeOK' /\ Agenda' /\ Current' /\ NotFound' /\ Found' /\ Grounded'
    <2>1. TypeOK' /\ Agenda'
      BY <1>1, <1>2, <1>3 DEF SyncInv, TypeOK, Phase, Agenda
    <2>2. Current' /\ NotFound' /\ Found' /\ Grounded'
      BY <1>1 DEF SyncInv, Current, NotFound, Found, FoundAsIs, Grounded
    <2>3. QED  BY <2>1, <2>2
  <1>5. Linked'
    BY <1>1, <1>2, LinksForSame DEF SyncInv, Linked, LinkedAsFound, Removed, Between
  <1>6. Swept'
    <2>1. \A b \in absent : b \in Bin  BY DEF SyncInv, TypeOK
    <2>2. \A b \in absent : Looked(b)' => entry[b] = Free
      BY <1>1, <2>1 DEF Looked
    <2>3. QED  BY <1>1, <2>2, OwnUnmanaged DEF Swept
  <1>7. QED  BY <1>4, <1>5, <1>6 DEF SyncInv

\* The directory cannot be listed: the round vouches for no name.
LEMMA ListFailsStep ==
  ASSUME SyncInv, ListFails
  PROVE  SyncInv'
  <1>1. /\ registry' = registry /\ built' = built /\ broken' = broken
        /\ entry' = entry /\ shims' = shims /\ dry' = dry /\ at' = at
        /\ expected' = expected /\ relink' = relink /\ crashes' = crashes
        /\ steady' = steady /\ absent' = {} /\ pc = "link" /\ pc' = "archive"
        /\ todo = {} /\ todo' = todo
    BY DEF ListFails, world, disk
  <1>2. relink = <<>> /\ Expected' = Expected
    BY <1>1, LinksForSame DEF SyncInv, TypeOK
  <1>3. TypeOK' /\ Agenda'
    BY <1>1, <1>2 DEF SyncInv, TypeOK, Phase, Agenda
  <1>4. Current' /\ NotFound' /\ Found' /\ Grounded' /\ Swept'
    BY <1>1 DEF SyncInv, Current, NotFound, Found, FoundAsIs, Grounded, Swept
  <1>5. Linked'
    BY <1>1, <1>2, LinksForSame DEF SyncInv, Linked, LinkedAsFound, Removed, Between
  <1>6. QED  BY <1>3, <1>4, <1>5 DEF SyncInv

\* A name is looked at.  What is under it stays, unless nothing expected has
\* the name; a link of the engine's is gone then, or its name not vouched for.
LEMMA LookStep ==
  ASSUME SyncInv, NEW b \in Bin, b \in todo, pc = "archive",
         UNCHANGED <<world, shims, dry, pc, at, expected, relink, crashes, steady>>,
         todo' = todo \ {b}, absent' \subseteq absent,
         entry' \in [Bin -> Entry],
         \A c \in Bin \ {b} : entry'[c] = entry[c],
         entry'[b] = entry[b] \/ (entry'[b] = Free /\ \A x \in Expected : x[2] # b),
         ~dry /\ b \in absent' => ~Managed(entry'[b])
  PROVE  SyncInv'
  <1>1. /\ registry' = registry /\ built' = built /\ broken' = broken
        /\ shims' = shims /\ dry' = dry /\ pc' = pc /\ at' = at
        /\ expected' = expected /\ relink' = relink /\ crashes' = crashes
        /\ steady' = steady
    BY DEF world
  <1>2. relink = <<>> /\ todo' \subseteq Bin
    BY DEF SyncInv, TypeOK, Agenda
  <1>3. Expected' = Expected  BY <1>1, LinksForSame
  <1>4. TypeOK' /\ Agenda'
    BY <1>1, <1>2, <1>3 DEF SyncInv, TypeOK, Agenda
  <1>5. Current' /\ NotFound' /\ Found'
    BY <1>1 DEF SyncInv, Current, NotFound, Found, FoundAsIs
  <1>6. Grounded'
    BY <1>1, OwnUnmanaged DEF SyncInv, Grounded
  <1>7. Linked'
    <2> SUFFICES ASSUME NEW x \in steady, ~dry PROVE LinkedAsFound(x)'
      BY <1>1 DEF Linked
    <2>1. x \in Export /\ x[2] \in Bin /\ x \in Expected /\ x # <<>>
      BY ExportPairs
      DEF SyncInv, TypeOK, Current, Linkable, Found, FoundAsIs, Expected
    <2>2. entry'[x[2]] = entry[x[2]]
      BY <2>1
    <2>3. entry[x[2]] \in LinksFor(x[2])
      BY DEF SyncInv, Linked, LinkedAsFound
    <2>4. QED  BY <1>1, <1>2, <2>1, <2>2, <2>3, LinksForSame DEF LinkedAsFound
  <1>8. Swept'
    <2> SUFFICES ASSUME NEW c \in absent', ~dry, Looked(c)' PROVE ~Managed(entry'[c])
      BY <1>1 DEF Swept
    <2>1. c \in Bin /\ c \in absent  BY DEF SyncInv, TypeOK
    <2>2. CASE c # b
      BY <1>1, <2>1, <2>2 DEF SyncInv, Swept, Looked
    <2>3. QED  BY <2>2
  <1>9. QED  BY <1>4, <1>5, <1>6, <1>7, <1>8 DEF SyncInv

\* A name nothing exported has no expected export, so what is kept under it is
\* no link of the engine's.
LEMMA KeepEntryStep ==
  ASSUME SyncInv, NEW b \in Bin, KeepEntry(b)
  PROVE  SyncInv'
  <1>1. ~dry /\ b \in absent => ~Managed(entry[b])
    <2>1. b \in absent => \A x \in Expected : x[2] # b
      BY DEF SyncInv, NotFound, Expected
    <2>2. QED  BY <2>1, ManagedIsSeen DEF KeepEntry, Orphan
  <1>2. entry' = entry /\ absent' = absent
    BY DEF KeepEntry, disk, history
  <1>3. QED
    BY <1>1, <1>2, LookStep DEF KeepEntry, disk, history, SyncInv, TypeOK

LEMMA ArchiveStep ==
  ASSUME SyncInv, NEW b \in Bin, Archive(b)
  PROVE  SyncInv'
  <1>1. CASE entry' = [entry EXCEPT ![b] = Free] /\ absent' = absent
    <2>1. /\ entry' \in [Bin -> Entry] /\ entry'[b] = Free /\ ~Managed(entry'[b])
          /\ \A c \in Bin \ {b} : entry'[c] = entry[c]
      BY <1>1, OwnUnmanaged DEF SyncInv, TypeOK
    <2>2. QED  BY <1>1, <2>1, LookStep DEF Archive, Orphan
  <1>2. CASE absent' = absent \ {b} /\ entry' = entry
    BY <1>2, LookStep DEF Archive, SyncInv, TypeOK
  <1>3. QED  BY <1>1, <1>2 DEF Archive

LEMMA EndSyncStep ==
  ASSUME SyncInv, EndSync
  PROVE  SyncInv'
  <1>1. /\ registry' = registry /\ built' = built /\ broken' = broken
        /\ entry' = entry /\ shims' = shims /\ dry' = dry /\ at' = at
        /\ expected' = expected /\ relink' = relink /\ crashes' = crashes
        /\ steady' = steady /\ absent' = absent /\ pc = "archive" /\ pc' = "skills"
        /\ todo = {} /\ todo' = todo
    BY DEF EndSync, world, disk, history
  <1>2. Expected' = Expected  BY <1>1, LinksForSame
  <1>3. TypeOK' /\ Agenda'
    BY <1>1, <1>2 DEF SyncInv, TypeOK, Phase, Agenda
  <1>4. Current' /\ NotFound' /\ Found' /\ Grounded'
    BY <1>1 DEF SyncInv, Current, NotFound, Found, FoundAsIs, Grounded
  <1>5. Linked'
    BY <1>1, LinksForSame DEF SyncInv, Linked, LinkedAsFound, Removed, Between
  <1>6. Swept'
    BY <1>1 DEF SyncInv, Swept, Looked
  <1>7. QED  BY <1>3, <1>4, <1>5, <1>6 DEF SyncInv

\* The CLI is written over a free name, a file or the CLI, never over a link;
\* behind a link it lands in a file an export of that name already may have.
LEMMA SkillsStep ==
  ASSUME SyncInv, SyncSkills
  PROVE  SyncInv'
  <1>1. /\ dry' = dry /\ at' = at /\ expected' = expected /\ todo' = todo
        /\ relink' = relink /\ crashes' = crashes /\ pc = "skills" /\ pc' = "idle"
    BY DEF SyncSkills
  <1>2. relink = <<>> /\ todo = {}
    BY <1>1 DEF SyncInv, TypeOK, Agenda
  <1>3. Expected' = Expected /\ CLI \in Bin  BY <1>1, LinksForSame, ExportAssumption
  <1>4. CASE UNCHANGED <<world, disk, history>>
    <2>1. /\ registry' = registry /\ built' = built /\ broken' = broken
          /\ entry' = entry /\ shims' = shims /\ steady' = steady /\ absent' = absent
      BY <1>4 DEF world, disk, history
    <2>2. TypeOK' /\ Agenda'
      BY <1>1, <1>2, <1>3, <2>1 DEF SyncInv, TypeOK, Phase, Agenda
    <2>3. Current' /\ NotFound' /\ Found' /\ Grounded'
      BY <1>1, <2>1 DEF SyncInv, Current, NotFound, Found, FoundAsIs, Grounded
    <2>4. Linked'
      BY <1>1, <2>1, LinksForSame DEF SyncInv, Linked, LinkedAsFound, Removed, Between
    <2>5. Swept'
      BY <1>1, <2>1 DEF SyncInv, Swept, Looked
    <2>6. QED  BY <2>2, <2>3, <2>4, <2>5 DEF SyncInv
  <1>5. CASE WriteCLI
    <2>1. Watch /\ registry' = registry /\ broken' = broken
      BY <1>5 DEF WriteCLI
    <2>2. /\ entry' \in [Bin -> Entry]
          /\ \A b \in Bin : entry'[b] = entry[b] \/ entry'[b] = CliFile
          /\ \A b \in Bin : entry[b].kind \in {"native", "shim", "elsewhere"} => entry'[b] = entry[b]
      BY <1>3, <1>5, OwnUnmanaged DEF WriteCLI, SyncInv, TypeOK
    <2>3. built' \subseteq Built /\ shims' \subseteq Registered
      BY <1>3, <1>5 DEF WriteCLI, SyncInv, TypeOK, Grounded
    <2>4. TypeOK' /\ Agenda'
      BY <1>1, <1>2, <1>3, <2>1, <2>2, <2>3, WatchFacts DEF SyncInv, TypeOK, Phase, Agenda
    <2>5. Current'
      BY <2>1, WatchFacts
    <2>6. NotFound' /\ Found'
      BY <1>1, <2>1, WatchFacts DEF SyncInv, NotFound, Found, FoundAsIs
    <2>7. Grounded'
      BY <1>1, <2>2, OwnUnmanaged DEF SyncInv, Grounded
    <2>8. Linked'
      <3> SUFFICES ASSUME NEW x \in steady', ~dry PROVE LinkedAsFound(x)'
        BY <1>1 DEF Linked
      <3>1. x[2] \in Bin /\ entry[x[2]] \in LinksFor(x[2])
        BY <1>1, <2>1, WatchFacts, ExportPairs DEF SyncInv, TypeOK, Linked, LinkedAsFound
      <3>2. entry'[x[2]] = entry[x[2]]
        BY <2>2, <3>1, LinksForLinks
      <3>3. QED  BY <1>1, <1>2, <3>1, <3>2, LinksForSame DEF LinkedAsFound, Removed, Between
    <2>9. Swept'
      <3> SUFFICES ASSUME NEW b \in absent', ~dry PROVE ~Managed(entry'[b])
        BY <1>1 DEF Swept
      <3>1. b \in Bin /\ ~Managed(entry[b])
        BY <1>1, <2>1, WatchFacts DEF SyncInv, TypeOK, Swept, Looked
      <3>2. QED  BY <2>2, <3>1, OwnUnmanaged
    <2>10. QED  BY <2>4, <2>5, <2>6, <2>7, <2>8, <2>9 DEF SyncInv
  <1>6. QED  BY <1>4, <1>5 DEF SyncSkills

-----------------------------------------------------------------------------
\* Registry edits, builds, cleans, breaks and mends, and somebody's own
\* entries.
LEMMA OwnersStep ==
  ASSUME SyncInv, Owners
  PROVE  SyncInv'
  <1>1. ASSUME NEW x \in Registered, NEW d \in RegistryDef, EditRegistry(x, d)
        PROVE  SyncInv'
    <2>1. registry' \in [Registered -> RegistryDef]
      BY <1>1 DEF EditRegistry, SyncInv, TypeOK
    <2>2. QED  BY <1>1, <2>1, WorldStep DEF EditRegistry, SyncInv, TypeOK
  <1>2. ASSUME NEW x \in Built, Build(x) \/ Clean(x)
        PROVE  SyncInv'
    BY <1>2, WorldStep DEF Build, Clean, SyncInv, TypeOK
  <1>3. ASSUME NEW s \in Fragile, Break(s) \/ Mend(s)
        PROVE  SyncInv'
    BY <1>3, WorldStep DEF Break, Mend, SyncInv, TypeOK
  <1>4. ASSUME NEW o \in Others, UserEdits(o[1], o[2])
        PROVE  SyncInv'
    <2>1. o[1] \in Bin /\ o[2] \in Own
      BY ExportAssumption
    <2>2. QED  BY <1>4, <2>1, UserStep
  <1>5. ASSUME NEW b \in Bin, UserEdits(b, Free)
        PROVE  SyncInv'
    BY <1>5, UserStep
  <1>6. QED  BY <1>1, <1>2, <1>3, <1>4, <1>5 DEF Owners

LEMMA RestartStep ==
  ASSUME SyncInv, Tick \/ Restart
  PROVE  SyncInv'
  <1>1. CASE Tick
    BY <1>1, BeginStep DEF Tick, SyncInv, TypeOK
  <1>2. CASE Restart
    <2>1. crashes' \in 0 .. MaxCrashes
      BY <1>2, ExportAssumption DEF Restart, SyncInv, TypeOK
    <2>2. QED  BY <1>2, <2>1, BeginStep DEF Restart
  <1>3. QED  BY <1>1, <1>2

LEMMA SyncInvStep == SyncInv /\ [Next]_vars => SyncInv'
  <1> SUFFICES ASSUME SyncInv, [Next]_vars PROVE SyncInv'  OBVIOUS
  <1>1. CASE Sync
    BY <1>1, ReadStep, ScanStep, BeginLinksStep, UnlinkedStep, LinkStandsStep,
       RemoveOldStep, SymlinkStep, ListNamesStep, ListFailsStep, KeepEntryStep,
       ArchiveStep, EndSyncStep, SkillsStep, RestartStep
    DEF Sync
  <1>2. CASE Owners \/ Restart
    BY <1>2, OwnersStep, RestartStep
  <1>3. CASE UNCHANGED vars
    <2>1. /\ registry' = registry /\ built' = built /\ broken' = broken
          /\ entry' = entry /\ shims' = shims /\ dry' = dry /\ pc' = pc /\ at' = at
          /\ expected' = expected /\ todo' = todo /\ relink' = relink
          /\ crashes' = crashes /\ steady' = steady /\ absent' = absent
      BY <1>3 DEF vars, world, disk, round, history
    <2>2. Expected' = Expected  BY <2>1, LinksForSame
    <2>3. TypeOK' /\ Agenda'
      BY <2>1, <2>2 DEF SyncInv, TypeOK, Agenda
    <2>4. Current' /\ NotFound' /\ Found' /\ Grounded'
      BY <2>1 DEF SyncInv, Current, NotFound, Found, FoundAsIs, Grounded
    <2>5. Linked' /\ Swept'
      BY <2>1, LinksForSame
      DEF SyncInv, Linked, LinkedAsFound, Removed, Between, Swept, Looked
    <2>6. QED  BY <2>3, <2>4, <2>5 DEF SyncInv
  <1>4. QED  BY <1>1, <1>2, <1>3 DEF Next

\* The argument of the header, as an invariant of every round.
THEOREM SyncInvariant == Spec => []SyncInv
  BY SyncInit, SyncInvStep, PTL DEF Spec

\* The variables of the sync round keep their types, for every configuration:
\* the wrapper scripts are of registered exports only, and a link is in the
\* making for an export still to be linked, during the linking phase.
THEOREM SyncTypeCorrect == Spec => []TypeOK
  <1>1. SyncInv => TypeOK  BY DEF SyncInv
  <1>2. QED  BY <1>1, SyncInvariant, PTL

\* When Sync returns, every export that was readable and stood still while it
\* ran has its name linked to what the round expected of it (ensureSymlink),
\* whatever the other exports, inputs and names did, also after a crash in
\* the middle of an earlier round; unless its wrapper could not be written,
\* what had the name not removed, or a link of that name not made.
THEOREM SyncLinks == Spec => []LiveExportsLinked
  <1>1. SyncInv => LiveExportsLinked
    BY DEF SyncInv, Linked, LinkedAsFound, LiveExportsLinked, RoundDone
  <1>2. QED  BY <1>1, SyncInvariant, PTL

\* When Sync returns, archiveOrphans has left no link of the engine's, where it
\* can tell them, under a name that nothing exported while it ran; unless the
\* directory could not be listed or that link not be moved (sync.go drops both
\* errors).
THEOREM SyncSweeps == Spec => []NoStaleLinks
  <1>1. SyncInv => NoStaleLinks
    BY DEF SyncInv, Swept, Looked, NoStaleLinks, RoundDone
  <1>2. QED  BY <1>1, SyncInvariant, PTL

-----------------------------------------------------------------------------
\* A step of the engine takes no entry of somebody else's under a name nothing
\* exported, but for a link that archiveOrphans takes for the engine's; and a
\* dry run takes nothing at all.
KeepsOwn ==
  /\ \A b \in absent : entry[b] \in Own /\ (b # CLI \/ pc # "skills") =>
       \/ entry'[b] = entry[b]
       \/ entry[b] = OwnWorkLink /\ pc = "archive" /\ entry'[b] = Free
  /\ dry => UNCHANGED <<disk, built>>

\* ensureSymlink works on expected exports, and those have no absent name.
LEMMA LinkKeepsOwn ==
  ASSUME SyncInv, NEW x \in Export,
         SkipUnknown(x) \/ WrapperFails(x) \/ LinkStands(x) \/ RemoveOld(x)
  PROVE  KeepsOwn
  <1>1. NextToLink(x)
    BY DEF SkipUnknown, WrapperFails, LinkStands, RemoveOld
  <1>2. x[2] \notin absent
    BY <1>1, NextToLinkFacts DEF SyncInv, NotFound, Expected
  <1>3. \A b \in absent : b \in Bin
    BY DEF SyncInv, TypeOK
  <1>4. CASE SkipUnknown(x) \/ WrapperFails(x)
    BY <1>4 DEF SkipUnknown, WrapperFails, world, KeepsOwn, disk
  <1>5. CASE LinkStands(x)
    BY <1>5 DEF LinkStands, WriteWrapper, world, KeepsOwn, disk
  <1>6. CASE RemoveOld(x)
    <2>1. ~dry /\ \A b \in Bin \ {x[2]} : entry'[b] = entry[b]
      BY <1>6 DEF RemoveOld, SyncInv, TypeOK
    <2>2. QED  BY <1>2, <1>3, <2>1 DEF KeepsOwn
  <1>7. QED  BY <1>4, <1>5, <1>6

LEMMA SymlinkKeepsOwn ==
  ASSUME SyncInv, Symlink
  PROVE  KeepsOwn
  <1>1. relink \in Export /\ expected[relink] # "none" /\ ~dry
    BY DEF Symlink, SyncInv, TypeOK, Agenda, Expected
  <1>2. relink[2] \notin absent
    BY <1>1 DEF SyncInv, NotFound
  <1>3. \A b \in Bin \ {relink[2]} : entry'[b] = entry[b]
    BY DEF Symlink, SyncInv, TypeOK
  <1>4. \A b \in absent : b \in Bin
    BY DEF SyncInv, TypeOK
  <1>5. QED  BY <1>1, <1>2, <1>3, <1>4 DEF KeepsOwn

LEMMA ArchiveKeepsOwn ==
  ASSUME SyncInv, NEW b \in Bin, Archive(b)
  PROVE  KeepsOwn
  <1>1. \A c \in absent : c \in Bin
    BY DEF SyncInv, TypeOK
  <1>2. pc = "archive" /\ LooksManaged(entry[b]) /\ ~dry
    BY DEF Archive, Orphan
  <1>3. entry[b] \in Own => entry[b] = OwnWorkLink
    BY <1>2, OwnUnmanaged
  <1>4. \A c \in Bin : entry'[c] = entry[c] \/ (c = b /\ entry'[c] = Free)
    BY DEF Archive, SyncInv, TypeOK
  <1>5. QED  BY <1>1, <1>2, <1>3, <1>4 DEF KeepsOwn

LEMMA SkillsKeepsOwn ==
  ASSUME SyncInv, SyncSkills
  PROVE  KeepsOwn
  <1>1. pc = "skills"  BY DEF SyncSkills
  <1>2. CASE UNCHANGED <<world, disk, history>>
    BY <1>2 DEF world, disk, KeepsOwn
  <1>3. CASE WriteCLI /\ ~dry
    <2>1. \A b \in Bin \ {CLI} : entry'[b] = entry[b]
      BY <1>3 DEF WriteCLI, SyncInv, TypeOK
    <2>2. QED  BY <1>1, <1>3, <2>1 DEF KeepsOwn, SyncInv, TypeOK
  <1>4. QED  BY <1>2, <1>3 DEF SyncSkills

LEMMA KeepsOwnStep == SyncInv /\ [Next]_vars => (SyncStep => KeepsOwn)
  <1> SUFFICES ASSUME SyncInv, [Next]_vars, SyncStep PROVE KeepsOwn  OBVIOUS
  <1>1. ~Owners
    BY DEF SyncStep, Owners, EditRegistry, Build, Clean, Break, Mend, UserEdits, round
  <1>2. ~Restart /\ ~UNCHANGED vars
    BY ExportAssumption DEF SyncStep, Restart, vars, SyncInv, TypeOK
  <1>3. Sync  BY <1>1, <1>2 DEF Next
  <1>4. CASE ReadRegistry \/ ScanProject \/ BeginLinks \/ ListNames \/ ListFails \/ EndSync \/ Tick
    BY <1>4
    DEF ReadRegistry, ScanProject, BeginLinks, ListNames, ListFails, EndSync, Tick,
        KeepsOwn, disk, world
  <1>5. ASSUME NEW b \in Bin, KeepEntry(b) PROVE KeepsOwn
    BY <1>5 DEF KeepEntry, KeepsOwn, disk, world
  <1>6. QED
    BY <1>3, <1>4, <1>5, LinkKeepsOwn, SymlinkKeepsOwn, ArchiveKeepsOwn, SkillsKeepsOwn
    DEF Sync

\* What somebody else keeps in ~/var/bin survives every step of ensureSymlink
\* and archiveOrphans unless its name was exported since the round began, or
\* it is a link that archiveOrphans cannot tell from the engine's (sync.go:184),
\* which is moved and never overwritten; GenerateCLIWrapper touches no name but
\* the CLI's; under --dry-run nothing on disk changes.
THEOREM SyncKeepsOwn == Spec => OwnEntriesKept
  <1>1. SyncInv /\ [Next]_vars =>
          [SyncStep =>
             /\ \A b \in absent : entry[b] \in Own /\ (b # CLI \/ pc # "skills") =>
                  \/ entry'[b] = entry[b]
                  \/ entry[b] = OwnWorkLink /\ pc = "archive" /\ entry'[b] = Free
             /\ dry => UNCHANGED <<disk, built>>]_vars
    BY KeepsOwnStep DEF KeepsOwn
  <1>2. QED  BY <1>1, SyncInvariant, PTL DEF Spec, OwnEntriesKept
=============================================================================
