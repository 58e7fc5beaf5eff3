----------------------------- MODULE AgentConfig ----------------------------
(***************************************************************************)
(* What the agent is started with: internal/config/config.go, the part of  *)
(* cmd/kbeacon-agent/main.go before any goroutine runs, and controller.New.*)
(*                                                                         *)
(* A setting comes from the built-in defaults, the configuration file, the *)
(* environment or a flag.  The result decides which kinds are watched, in  *)
(* which namespaces, and the agent does not start with one that makes no   *)
(* sense.  In four places the code goes through the fifteen kinds one by   *)
(* one; they are sets here.                                                *)
(***************************************************************************)
EXTENDS Integers, Sequences, Functions

CONSTANTS
  Setting,       \* settings that are texts
  Duration,      \* those of them that are durations
  Interval,      \* the durations that are handed to the controller
  HasEnv, HasFlag,  \* those the environment, or a flag, may give
  Text,          \* their values
  Blank,         \* the empty text
  Valid,         \* texts that are durations other than zero
  Zero,          \* a text that is the duration zero
  Default,       \* the built-in settings
  Unset,         \* not given
  Namespace,     \* namespaces of the cluster
  Entry,         \* entries of namespace lists: namespaces, spaces around them
  Trim,          \* the entries without the spaces
  System,        \* the namespaces that are excluded by default
  Kind,          \* resource kinds
  Dynamic,       \* the custom resources among them
  DefaultKinds,
  Everywhere,    \* watching all namespaces
  NoFile,        \* no path to a file was given
  Broken,        \* a file that is not there or no YAML
  Sources        \* files, environments and flags the agent may be given

List == Seq(Entry)

ASSUME AgentConfigAssumption ==
  /\ Duration \subseteq Setting /\ Interval \subseteq Duration
  /\ HasEnv \subseteq Setting /\ HasFlag \subseteq Setting
  /\ Blank \in Text /\ Zero \in Text \ Valid /\ Valid \subseteq Text \ {Blank}
  /\ Default \in [Setting -> Text \ {Blank}]
  /\ \A s \in Duration : Default[s] \in Valid
  /\ Unset \notin Text /\ Unset \notin BOOLEAN /\ Unset \notin List
  /\ Namespace \subseteq Entry /\ Blank \in Entry \ Namespace
  /\ Trim \in [Entry -> Namespace \cup {Blank}]
  /\ Trim[Blank] = Blank /\ \A n \in Namespace : Trim[n] = n
  /\ System \in List /\ System # <<>>
  /\ Dynamic \subseteq Kind /\ DefaultKinds \subseteq Kind
  /\ Everywhere \notin Namespace

\* What a file, the environment or the flags may say; only an environment
\* variable may hold a truth value that does not parse, which is Blank here.
GivenBy(pulls) == [text    : [Setting -> Text \cup {Unset}],
                   pulls   : pulls \cup {Unset},
                   include : List \cup {Unset},
                   exclude : List \cup {Unset},
                   kinds   : [Kind -> BOOLEAN \cup {Unset}]]

ASSUME SourcesAssumption ==
  /\ NoFile # Broken
  /\ NoFile \notin GivenBy(BOOLEAN) /\ Broken \notin GivenBy(BOOLEAN)
  /\ \A s \in Sources : /\ s.file \in GivenBy(BOOLEAN) \cup {NoFile, Broken}
                        /\ s.env \in GivenBy(BOOLEAN \cup {Blank})
                        /\ s.flags \in GivenBy(BOOLEAN)

VARIABLES
  at,         \* how far main has come
  given,      \* file, env and flags
  cfg,        \* the configuration so far
  agent       \* what the controller was made with

vars == <<at, given, cfg, agent>>

-----------------------------------------------------------------------------

\* What a layer gives, or else what was there.
Or(new, old) == IF new = Unset THEN old ELSE new

\* Default.
DefaultConfig ==
  [text |-> Default, pulls |-> TRUE, include |-> <<>>, exclude |-> System,
   kinds |-> [k \in Kind |-> k \in DefaultKinds]]

\* yaml.Unmarshal into the defaults: what the file says, were it empty.
WithFile(c, f) ==
  [text    |-> [s \in Setting |-> Or(f.text[s], c.text[s])],
   pulls   |-> Or(f.pulls, c.pulls),
   include |-> Or(f.include, c.include),
   exclude |-> Or(f.exclude, c.exclude),
   kinds   |-> [k \in Kind |-> Or(f.kinds[k], c.kinds[k])]]

\* SplitCSV: entries without spaces, and none that is blank.
Split(list) ==
  LET upTo[n \in 0..Len(list)] ==
        IF n = 0 THEN <<>>
        ELSE IF Trim[list[n]] = Blank THEN upTo[n - 1]
        ELSE Append(upTo[n - 1], Trim[list[n]])
  IN  upTo[Len(list)]

OrSplit(new, old) == IF new = Unset THEN old ELSE Split(new)

\* Bug: the environment overrides with what is not set.
WithEnvBlank(c, e) ==
  [c EXCEPT !.text = [s \in Setting |-> IF s \in HasEnv THEN Or(e.text[s], Blank) ELSE c.text[s]],
            !.include = OrSplit(e.include, @),
            !.exclude = OrSplit(e.exclude, @)]

\* ApplyEnv: a variable that is empty is not set, and a truth value that does
\* not parse (Blank) is ignored.
WithEnv(c, e) ==
  [c EXCEPT !.text = [s \in Setting |->
                        IF s \in HasEnv /\ e.text[s] # Blank THEN Or(e.text[s], c.text[s])
                        ELSE c.text[s]],
            !.pulls = IF e.pulls = Blank THEN @ ELSE Or(e.pulls, @),
            !.include = OrSplit(e.include, @),
            !.exclude = OrSplit(e.exclude, @)]

\* main: a flag that was given overrides, were it empty.
WithFlags(c, f) ==
  [c EXCEPT !.text = [s \in Setting |->
                        IF s \in HasFlag THEN Or(f.text[s], c.text[s]) ELSE c.text[s]],
            !.pulls = Or(f.pulls, @),
            !.include = OrSplit(f.include, @),
            !.exclude = OrSplit(f.exclude, @)]

\* Normalize: what is empty gets its default, the excluded namespaces too.
Normalized(c) ==
  [c EXCEPT !.text = [s \in Setting |-> IF c.text[s] = Blank THEN Default[s] ELSE c.text[s]],
            !.exclude = IF @ = <<>> THEN System ELSE @]

\* NamespaceFilter.Include: blank entries say nothing, and entries are not
\* trimmed.
Passes(c, n) ==
  LET include == Range(c.include) \ {Blank}
  IN  /\ n # Blank
      /\ include # {} => n \in include
      /\ n \notin Range(c.exclude)

\* Bug: the first entry of a longer list is watched alone.
WatchedFirst(c) ==
  IF c.include # <<>> /\ Passes(c, Trim[c.include[1]]) THEN Trim[c.include[1]]
  ELSE Everywhere

\* newInformerFactory: one namespace is watched on its own when the list has
\* one entry and the filter lets it through.
Watched(c) ==
  IF Len(c.include) = 1 /\ Passes(c, Trim[c.include[1]]) THEN Trim[c.include[1]]
  ELSE Everywhere

Enabled(c) == {k \in Kind : c.kinds[k]}

\* Bug: one kind was forgotten in main's condition.
NeedsDynamicClientForSome(c) ==
  \E k \in Enabled(c) \cap Dynamic : k # CHOOSE j \in Dynamic : TRUE

\* main makes a dynamic client if a custom resource is enabled.
NeedsDynamicClient(c) == Enabled(c) \cap Dynamic # {}

\* New: kinds that get an informer and a place in synced.
Informers(c) == {k \in Enabled(c) : k \in Dynamic => NeedsDynamicClient(c)}

\* registerHandlers: an event of these asks for a rebuild.
Handled(c) == Informers(c)

\* enabledSyncs: Start waits for these.
Awaited(c) == Informers(c)

\* Status and CacheSyncStatus go by what is enabled.
AskedByStatus(c) == Enabled(c)

\* New: the controller replaces a duration of zero; a grace period of zero
\* stays.
IntervalOf(c, s) ==
  IF s \in Interval /\ c.text[s] = Zero THEN Default[s] ELSE c.text[s]

NoAgent == [started |-> FALSE]

\* New: what the controller is made of.
AgentOf(c) ==
  [started  |-> TRUE,
   watch    |-> Watched(c),
   handled  |-> Handled(c),
   awaited  |-> Awaited(c),
   asked    |-> AskedByStatus(c),
   pulls    |-> c.pulls,
   interval |-> [s \in Duration |-> IntervalOf(c, s)]]

Init ==
  /\ at = "defaults"
  /\ given \in Sources
  /\ cfg = DefaultConfig
  /\ agent = NoAgent

-----------------------------------------------------------------------------

\* Load, without a path.
LoadNoFile ==
  /\ at = "defaults"
  /\ given.file = NoFile
  /\ at' = "env"
  /\ UNCHANGED <<given, cfg, agent>>

\* Load: the file is not there or no YAML; main exits with 1.
LoadFails ==
  /\ at = "defaults"
  /\ given.file = Broken
  /\ at' = "failed"
  /\ UNCHANGED <<given, cfg, agent>>

\* Load: the file, and Normalize.
LoadFile ==
  /\ at = "defaults"
  /\ given.file \notin {NoFile, Broken}
  /\ cfg' = Normalized(WithFile(cfg, given.file))
  /\ at' = "env"
  /\ UNCHANGED <<given, agent>>

ApplyEnv ==
  /\ at = "env"
  /\ cfg' = WithEnv(cfg, given.env)
  /\ at' = "flags"
  /\ UNCHANGED <<given, agent>>

\* main: the flags, and Normalize again.
ApplyFlags ==
  /\ at = "flags"
  /\ cfg' = Normalized(WithFlags(cfg, given.flags))
  /\ at' = "durations"
  /\ UNCHANGED <<given, agent>>

GoodDurations == \A s \in Duration : cfg.text[s] \in Valid \cup {Zero}

\* main: a duration does not parse, or a client cannot be made; exit with 1.
StartFails ==
  /\ at \in {"durations", "clients"}
  /\ at = "durations" => ~GoodDurations
  /\ at' = "failed"
  /\ UNCHANGED <<given, cfg, agent>>

ParseDurations ==
  /\ at = "durations"
  /\ GoodDurations
  /\ at' = "clients"
  /\ UNCHANGED <<given, cfg, agent>>

\* main: clients and options; controller.New.
NewController ==
  /\ at = "clients"
  /\ at' = "started"
  /\ agent' = AgentOf(cfg)
  /\ UNCHANGED <<given, cfg>>

Next ==
  \/ LoadNoFile \/ LoadFails \/ LoadFile \/ ApplyEnv \/ ApplyFlags
  \/ ParseDurations \/ StartFails \/ NewController

Spec == Init /\ [][Next]_vars

-----------------------------------------------------------------------------

Config == [text : [Setting -> Text], pulls : BOOLEAN, include : List, exclude : List,
           kinds : [Kind -> BOOLEAN]]

\* Types of the variables.
TypeOK ==
  /\ at \in {"defaults", "env", "flags", "durations", "clients", "started", "failed"}
  /\ given \in Sources
  /\ cfg \in Config
  /\ agent.started => /\ agent.watch \in Namespace \cup {Everywhere}
                      /\ agent.handled \subseteq Kind /\ agent.awaited \subseteq Kind
                      /\ agent.asked \subseteq Kind
                      /\ agent.interval \in [Duration -> Text]

\* The text a source gives, where it can give this one.
InFile(s)  == IF given.file = NoFile THEN Unset ELSE given.file.text[s]
InEnv(s)   == IF s \in HasEnv THEN given.env.text[s] ELSE Unset
InFlags(s) == IF s \in HasFlag THEN given.flags.text[s] ELSE Unset

\* A setting that is in use comes from the nearest source that gives it,
\* flag before environment before file before default; an environment
\* variable that is empty gives nothing, while a flag that is empty hides the
\* other sources and brings the default back (Load, ApplyEnv, the flags in
\* main and the two calls of Normalize).
NearestSourceWins ==
  agent.started =>
    /\ \A s \in Setting :
         LET flag == InFlags(s)
             env == InEnv(s)
             nearest == IF flag # Unset THEN flag
                        ELSE IF env \notin {Unset, Blank} THEN env ELSE InFile(s)
         IN  cfg.text[s] = IF nearest \in {Unset, Blank} THEN Default[s] ELSE nearest
    /\ agent.pulls = IF given.flags.pulls # Unset THEN given.flags.pulls
                     ELSE IF given.env.pulls \notin {Unset, Blank} THEN given.env.pulls
                     ELSE IF given.file = NoFile THEN TRUE ELSE Or(given.file.pulls, TRUE)

\* The namespaces the nearest source lists, and those of the default: in an
\* environment variable and a flag without spaces and blank entries, in a
\* file as they are.
Listed(flag, env, file, default) ==
  {n \in Namespace :
     IF flag # Unset THEN \E i \in DOMAIN flag : Trim[flag[i]] = n
     ELSE IF env # Unset THEN \E i \in DOMAIN env : Trim[env[i]] = n
     ELSE n \in Range(Or(file, default))}

ListedToInclude ==
  Listed(given.flags.include, given.env.include,
         IF given.file = NoFile THEN Unset ELSE given.file.include, <<>>)

FileExclude == IF given.file = NoFile THEN Unset ELSE given.file.exclude

ListedToExclude ==
  Listed(given.flags.exclude, given.env.exclude, FileExclude, System)

\* What the operator wrote decides which namespaces are in the graph: none of
\* those excluded, none beside the included ones, and, when some namespace is
\* excluded, all those included that are not.  Nothing is said of what passes
\* when a source excludes none at all: the code then excludes the namespaces of
\* the system, where the documentation has every included one pass (SplitCSV,
\* Normalize, NamespaceFilter).
FilterIsAsWritten ==
  agent.started =>
    \A n \in Namespace :
      /\ Passes(cfg, n) => n \notin ListedToExclude
      /\ Passes(cfg, n) /\ ListedToInclude # {} => n \in ListedToInclude
      /\ ListedToExclude # {} /\ n \in ListedToInclude \ ListedToExclude
           => Passes(cfg, n)

\* The informers see every namespace whose objects pass the filter, and an
\* agent for one namespace asks the API server for that one only, which may be
\* all it is allowed to (newInformerFactory).
WatchFitsFilter ==
  agent.started =>
    /\ \A n \in Namespace : Passes(cfg, n) => agent.watch \in {n, Everywhere}
    /\ \A n \in Namespace : cfg.include = <<n>> /\ Passes(cfg, n) => agent.watch = n

\* From what the operator wrote of namespaces to what the agent sees: the filter
\* is the one that was written, and the informers watch what passes it, and no
\* more than they need (SplitCSV, Normalize, NamespaceFilter and
\* newInformerFactory).
NamespacesAsWritten == FilterIsAsWritten /\ WatchFitsFilter

\* Readiness is possible and the graph is kept up to date: each kind Status
\* asks for is one that Start waits for and that has a handler, and no informer
\* runs for a kind that is not enabled (New, registerHandlers, enabledSyncs,
\* Status and main's condition for a dynamic client go through the kinds one by
\* one).
KindsAgree ==
  agent.started =>
    /\ agent.asked = agent.awaited
    /\ agent.handled = agent.awaited
    /\ \A k \in Kind : k \in agent.asked <=> cfg.kinds[k]

\* No agent runs with a duration that does not parse, whichever source it
\* came from, and the controller's are never zero: a resync or a debounce of
\* zero is the default (main's checks, and New).
IntervalsMakeSense ==
  /\ agent.started => \A s \in Duration : agent.interval[s] \in Valid \cup {Zero}
  /\ agent.started => \A s \in Interval : agent.interval[s] \in Valid
  /\ at = "failed" => ~agent.started

\* An agent that runs can become ready and stay up to date: its values have
\* their types, the kinds it waits for, handles and reports are the enabled
\* ones, and it has intervals to work with (main's checks, New, Status).
AgentIsSound == TypeOK /\ KindsAgree /\ IntervalsMakeSense

=============================================================================
