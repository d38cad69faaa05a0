----------------------------- MODULE ConfigLoad -----------------------------
(***************************************************************************)
(* Load of config/config.go: the four roots are resolved, and the roster   *)
(* is put together from the inline list and the drop-in fragments          *)
(* (config/fragments.go), whatever state they are in.  Its two loops take  *)
(* one step for each entry.                                                *)
(***************************************************************************)
EXTENDS Naturals, FiniteSets, Sequences, SequencesExt

CONSTANTS ProjectName,   \* names a project may have
          ProjectPath,   \* paths a project may have
          MaxInline,     \* bound on the inline list
          MaxFragment    \* bound on the files in projects.d

VARIABLES input,    \* the files and the environment
          loaded,   \* what Load has made of them so far
          stage,    \* "start", "reading", "checking" or "loaded"
          raw,      \* the entries that were read
          at,       \* the entry the loop is at
          names     \* seen: the names the second loop has kept

configVars == <<input, loaded, stage, raw, at, names>>

\* A name or path that is empty, or of white space only.
Blank == "blank"

ProjectConfig == [name : ProjectName \cup {Blank}, path : ProjectPath \cup {Blank}]

\* What ParseFragment cannot read or unmarshal.
Malformed == [name |-> "malformed", path |-> "malformed"]

\* The bounds are numbers, and nobody calls a project what is not one.
ASSUME ConfigAssumption ==
  MaxInline \in Nat /\ MaxFragment \in Nat /\ Malformed \notin ProjectConfig

\* A root as its segments; the first may be the tilde, and none means unset.
Unset == <<>>

Root == {Unset, <<"~">>, <<"~", "x">>, <<"/", "x">>}

SystemConfig == [monitor : Root, daemon : Root, backups : Root, config : Root]

\* No root set.
NoRoots == [monitor |-> Unset, daemon |-> Unset, backups |-> Unset, config |-> Unset]

\* Before anything is loaded.
Nothing == [projects |-> <<>>, degraded |-> FALSE, system |-> NoRoots]

\* The config file was read, is not there, does not parse, or parses but has
\* fields of the wrong shape, which are then left empty.
File == {"read", "missing", "malformed", "misshapen"}

\* The rosters, with no root set, and the roots, with no roster.
Rosters ==
  {i \in [file : File, inline : BoundedSeq(ProjectConfig, MaxInline),
          dir : {"read", "missing", "unreadable"},
          fragments : BoundedSeq(ProjectConfig \cup {Malformed}, MaxFragment),
          system : {NoRoots}, home : {TRUE}, install : {Unset}] :
     /\ i.file \in {"missing", "malformed"} => i.inline = <<>>
     /\ i.dir # "read" => i.fragments = <<>>}

Roots ==
  [file : {"read"}, inline : {<<>>}, dir : {"missing"}, fragments : {<<>>},
   system : SystemConfig, home : BOOLEAN, install : {Unset, <<"/", "opt">>}]

-----------------------------------------------------------------------------
\* projectStructuralErrors.
StructuralErrors(p) ==
  {f \in {"name", "path"} : (IF f = "name" THEN p.name ELSE p.path) = Blank}

ExpandHome(path, home) ==
  IF path # Unset /\ Head(path) = "~" /\ home THEN <<"/", "home">> \o Tail(path) ELSE path

\* ResolveRoots: BackupsRoot follows DaemonRoot, so that is settled first.
ResolveRoots(s, i) ==
  LET Or(path, default) == IF path = Unset THEN default ELSE path
      install == Or(i.install, <<"~", "mesh", "prod">>)
      daemon == ExpandHome(Or(s.daemon, <<"~", "var">>), i.home)
  IN [monitor |-> ExpandHome(Or(s.monitor, install), i.home),
      daemon  |-> daemon,
      backups |-> ExpandHome(Or(s.backups, Append(daemon, "backups")), i.home),
      config  |-> ExpandHome(Or(s.config, <<"~", "etc">>), i.home)]

\* LintFragment, of a fragment by itself: no errors.
Lints(p) == p # Malformed /\ StructuralErrors(p) = {}

-----------------------------------------------------------------------------
\* Load reads the config file and resolves the roots; nothing about its inputs
\* makes it fail.  A directory of fragments that cannot be read is skipped with
\* a warning, one that is missing without.
Load ==
  /\ stage = "start"
  /\ stage' = "reading"
  /\ loaded' = [projects |-> <<>>,
                degraded |-> input.file \in {"malformed", "misshapen"} \/ input.dir = "unreadable",
                system |-> ResolveRoots(input.system, input)]
  /\ raw' = input.inline
  /\ at' = 1
  /\ UNCHANGED <<input, names>>

\* LoadProjectFragments, of one file: what does not parse is skipped with a
\* warning.
ParseFragment ==
  /\ stage = "reading" /\ at <= Len(input.fragments)
  /\ IF input.fragments[at] = Malformed
     THEN loaded' = [loaded EXCEPT !.degraded = TRUE] /\ UNCHANGED raw
     ELSE raw' = Append(raw, input.fragments[at]) /\ UNCHANGED loaded
  /\ at' = at + 1
  /\ UNCHANGED <<input, stage, names>>

\* Every fragment was read, and the entries are validated.
FragmentsRead ==
  /\ stage = "reading" /\ at > Len(input.fragments)
  /\ stage' = "checking"
  /\ at' = 1
  /\ UNCHANGED <<input, loaded, raw, names>>

\* Mutant: a name counts as seen although its entry was dropped.
ValidateSeenFirst ==
  /\ stage = "checking" /\ at <= Len(raw)
  /\ LET p == raw[at] IN
       /\ IF StructuralErrors(p) # {} \/ p.name \in names
          THEN loaded' = [loaded EXCEPT !.degraded = TRUE]
          ELSE loaded' = [loaded EXCEPT !.projects = Append(@, p)]
       /\ names' = names \cup {p.name}
  /\ at' = at + 1
  /\ UNCHANGED <<input, stage, raw>>

\* validateProjects, of one entry: it is dropped if it is unusable or its name
\* was seen.
ValidateProject ==
  /\ stage = "checking" /\ at <= Len(raw)
  /\ LET p == raw[at] IN
       IF StructuralErrors(p) # {} \/ p.name \in names
       THEN loaded' = [loaded EXCEPT !.degraded = TRUE] /\ UNCHANGED names
       ELSE loaded' = [loaded EXCEPT !.projects = Append(@, p)] /\ names' = names \cup {p.name}
  /\ at' = at + 1
  /\ UNCHANGED <<input, stage, raw>>

\* Load returns.
Loaded ==
  /\ stage = "checking" /\ at > Len(raw)
  /\ stage' = "loaded"
  /\ raw' = <<>> /\ at' = 0 /\ names' = {}
  /\ UNCHANGED <<input, loaded>>

\* The daemon ends, to be started again.
Unload ==
  /\ stage = "loaded"
  /\ stage' = "start"
  /\ loaded' = Nothing
  /\ UNCHANGED <<input, raw, at, names>>

ConfigInit ==
  /\ input \in Rosters \cup Roots
  /\ loaded = Nothing
  /\ stage = "start"
  /\ raw = <<>> /\ at = 0 /\ names = {}

ConfigNext == Load \/ ParseFragment \/ FragmentsRead \/ ValidateProject \/ Loaded \/ Unload

ConfigSpec == ConfigInit /\ [][ConfigNext]_configVars

-----------------------------------------------------------------------------
\* A call is under way or has returned a configuration.
ConfigTypeOK ==
  /\ stage \in {"start", "reading", "checking", "loaded"}
  /\ loaded.projects \in Seq(ProjectConfig)
  /\ loaded.degraded \in BOOLEAN
  /\ DOMAIN loaded.system = DOMAIN NoRoots
  /\ raw \in Seq(ProjectConfig)
  /\ at \in Nat
  /\ names \subseteq ProjectName

\* Everything that was declared, in the order in which it is looked at.
Declared == input.inline \o input.fragments

\* The entries that should make it: sound, and the first of their name.
Chosen ==
  {i \in 1 .. Len(Declared) :
     /\ Lints(Declared[i])
     /\ \A j \in 1 .. i - 1 : Lints(Declared[j]) => Declared[j].name # Declared[i].name}

\* One bad entry costs itself and nothing else: the roster is, in order, the
\* first sound entry of every name, so that what lint passes is loaded unless
\* its name is taken; the daemon calls itself degraded exactly when something
\* was lost; and resolving the roots again changes nothing.
LoadIsSound ==
  stage = "loaded" =>
    /\ Len(loaded.projects) = Cardinality(Chosen)
    /\ \A i \in Chosen :
         loaded.projects[Cardinality({j \in Chosen : j <= i})] = Declared[i]
    /\ loaded.degraded <=>
         \/ input.file \in {"malformed", "misshapen"} \/ input.dir = "unreadable"
         \/ Cardinality(Chosen) < Len(Declared)
    /\ ResolveRoots(loaded.system, input) = loaded.system
    /\ Unset \notin {loaded.system[f] : f \in DOMAIN loaded.system}
=============================================================================
