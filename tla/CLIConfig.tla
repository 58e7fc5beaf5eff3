----------------------------- MODULE CLIConfig ------------------------------
(***************************************************************************)
(* The configuration file of the command line: cmd/kbeaconctl/cli_config.go*)
(* and the commands of main.go that read it.                               *)
(*                                                                         *)
(* A command is a process.  "config set" and "config unset" read the file, *)
(* change one key and write the whole file back with os.WriteFile, which   *)
(* truncates it and then writes once at its start; "config reset" removes  *)
(* it.  There is no lock, no temporary file and no rename, and any number  *)
(* of commands run at a time.                                              *)
(*                                                                         *)
(* The length of a document is abstracted: written over another one that   *)
(* is longer, it leaves a tail behind it and the file no longer parses.    *)
(***************************************************************************)
EXTENDS Integers

CONSTANTS
  Proc,          \* commands that may run at the same time
  Key,           \* the settings
  Value,
  None,          \* no value: omitempty leaves the key out
  Raw,           \* what a user types for a key
  Canonical,     \* the key a spelling stands for, None if it is not known
  Flags,         \* flags a client command may have
  Environ,       \* the environment's settings
  Default,       \* the built-in settings
  Absent, Empty, Torn,  \* no file; no content; content that does not parse
  MaxCommands    \* bound on the commands that are run

Setting == Value \cup {None}
Config == [Key -> Setting]

ASSUME CLIConfigAssumption ==
  /\ None \notin Value /\ None \notin Key
  /\ Absent \notin Config /\ Empty \notin Config /\ Torn \notin Config
  /\ Absent # Empty /\ Absent # Torn /\ Empty # Torn
  /\ Canonical \in [Raw -> Key \cup {None}]
  /\ Flags \subseteq Config
  /\ Environ \in Config
  /\ Default \in Config
  /\ MaxCommands \in Nat

VARIABLES
  file,          \* Absent, Empty, Torn or the configuration it holds
  pc,            \* where each command is
  cmd,           \* what it was asked to do
  cfg,           \* the configuration it holds
  unlinked,      \* commands whose open file has been removed
  started,       \* commands so far
  \* history
  settings,      \* what the completed commands add up to, one after another
  disturbed,     \* since the last undisturbed reset, a file was cut short or
                 \* changed between another command's reading and writing
  cut,           \* a file was cut short since then
  last,          \* the last command that wrote or removed the file
  given,         \* keys and values of the set commands
  bystanders,    \* commands that had read the file before it was torn
  seen           \* flags, settings and options of the last client command that
                 \* ran undisturbed

vars == <<file, pc, cmd, cfg, unlinked, started,
          settings, disturbed, cut, last, given, bystanders, seen>>

-----------------------------------------------------------------------------

Blank == [k \in Key |-> None]

Command ==
  [op : {"set"}, raw : Raw, value : Setting] \cup [op : {"unset"}, raw : Raw]
    \cup [op : {"reset"}] \cup [op : {"client"}, flags : Flags]

\* normalizeCLIConfigKey knows no such key, or the value is blank: exit status
\* 2, before the file is looked at.
Refused(c) ==
  \/ c.op \in {"set", "unset"} /\ Canonical[c.raw] = None
  \/ c.op = "set" /\ c.value = None

\* setCLIConfigValue, unsetCLIConfigValue; a reset leaves nothing.
Apply(c, old) ==
  IF c.op \in {"set", "unset"}
  THEN [old EXCEPT ![Canonical[c.raw]] = IF c.op = "set" THEN c.value ELSE None]
  ELSE Blank

\* Bug: a file that does not parse is taken for an empty one.
ParsesAnything(f) == TRUE

Parses(f) == f # Torn

\* Bug: a file that was cut to nothing holds the built-in settings.
ContentsOrDefault(f) ==
  CASE f = Empty            -> Default
    [] f \in {Absent, Torn} -> Blank
    [] OTHER                -> f

\* loadCLIConfig: no file and a blank file are the empty configuration.
Contents(f) == IF f \in {Absent, Empty, Torn} THEN Blank ELSE f

\* Bug: a value that is there is kept.
ChangedUnlessPresent(c, f) ==
  IF c.op = "set" /\ Contents(f)[Canonical[c.raw]] # None THEN Contents(f)
  ELSE Apply(c, Contents(f))

\* What a command makes of the file it reads: all the keys of the file, one of
\* them changed.
Changed(c, f) == Apply(c, Contents(f))

\* What one write at the start of the file leaves: the document, and the tail
\* of a longer one.
Overwritten(f, doc) == IF f \in {Empty, doc} THEN {doc} ELSE {doc, Torn}

\* firstNonEmpty over a flag, the environment, the file and the default.
Options(flags, stored) ==
  [k \in Key |->
     IF flags[k] # None THEN flags[k]
     ELSE IF Environ[k] # None THEN Environ[k]
     ELSE IF stored[k] # None THEN stored[k] ELSE Default[k]]

\* Commands that hold what they read and have not written it.
Holding == {p \in Proc : pc[p] \in {"open", "write"}}

\* The file is between a truncation and a write.
Writing == {p \in Proc : pc[p] = "write"}

TypeOK ==
  /\ file \in Config \cup {Absent, Empty, Torn}
  /\ pc \in [Proc -> {"idle", "load", "open", "write", "remove"}]
  /\ cmd \in [Proc -> Command]
  /\ \A p \in Proc : ~Refused(cmd[p])
  /\ cfg \in [Proc -> Config]
  /\ unlinked \subseteq Writing
  /\ started \in 0..MaxCommands
  /\ settings \in Config
  /\ disturbed \in BOOLEAN
  /\ cut \in BOOLEAN
  /\ given \subseteq Key \X Value
  /\ bystanders \subseteq Holding
  /\ seen \in [flags : Config, stored : Config, got : Config]

Init ==
  /\ file = Absent
  /\ pc = [p \in Proc |-> "idle"]
  /\ cmd = [p \in Proc |-> [op |-> "reset"]]
  /\ cfg = [p \in Proc |-> Blank]
  /\ unlinked = {}
  /\ started = 0
  /\ settings = Blank
  /\ disturbed = FALSE
  /\ cut = FALSE
  /\ last = [op |-> "reset"]
  /\ given = {}
  /\ bystanders = {}
  /\ seen = [flags |-> Blank, stored |-> Blank, got |-> Options(Blank, Blank)]

-----------------------------------------------------------------------------

\* runConfig, or run for a command of the API, up to its first use of the file.
Start(p, c) ==
  /\ pc[p] = "idle"
  /\ started < MaxCommands
  /\ started' = started + 1
  /\ IF Refused(c)
     THEN UNCHANGED <<pc, cmd, given>>
     ELSE /\ pc' = [pc EXCEPT ![p] = IF c.op = "reset" THEN "remove" ELSE "load"]
          /\ cmd' = [cmd EXCEPT ![p] = c]
          /\ given' = IF c.op = "set" THEN given \cup {<<Canonical[c.raw], c.value>>}
                      ELSE given
  /\ UNCHANGED <<file, cfg, unlinked, settings, disturbed, cut, last, bystanders, seen>>

\* loadCLIConfig finds content that is no document: the command ends there, with
\* exit status 1 for runConfig and 2 for a command of the API (main.go:119-122).
LoadFails(p) ==
  /\ pc[p] = "load"
  /\ ~Parses(file)
  /\ pc' = [pc EXCEPT ![p] = "idle"]
  /\ UNCHANGED <<file, cmd, cfg, unlinked, started,
                 settings, disturbed, cut, last, given, bystanders, seen>>

\* loadCLIConfig, and the change, in memory.
LoadAndChange(p) ==
  /\ pc[p] = "load"
  /\ cmd[p].op # "client"
  /\ Parses(file)
  /\ cfg' = [cfg EXCEPT ![p] = Changed(cmd[p], file)]
  /\ pc' = [pc EXCEPT ![p] = "open"]
  /\ UNCHANGED <<file, cmd, unlinked, started,
                 settings, disturbed, cut, last, given, bystanders, seen>>

\* A command of the API reads the file and resolves its options.
LoadAndUse(p) ==
  /\ pc[p] = "load"
  /\ cmd[p].op = "client"
  /\ Parses(file)
  /\ pc' = [pc EXCEPT ![p] = "idle"]
  /\ seen' = IF disturbed \/ Writing # {} THEN seen
             ELSE [flags |-> cmd[p].flags, stored |-> settings,
                   got |-> Options(cmd[p].flags, Contents(file))]
  /\ UNCHANGED <<file, cmd, cfg, unlinked, started,
                 settings, disturbed, cut, last, given, bystanders>>

\* Bug: a file is not truncated when it is opened.
OpenInPlace(p) ==
  /\ pc[p] = "open"
  /\ file' = IF file = Absent THEN Empty ELSE file
  /\ pc' = [pc EXCEPT ![p] = "write"]
  /\ disturbed' = (disturbed \/ Holding # {p})
  /\ bystanders' = {}
  /\ UNCHANGED <<cmd, cfg, unlinked, started, settings, cut, last, given, seen>>

\* saveCLIConfig: the directory is there, and os.WriteFile opens the file, new
\* or cut to nothing.
Open(p) ==
  /\ pc[p] = "open"
  /\ file' = Empty
  /\ pc' = [pc EXCEPT ![p] = "write"]
  /\ disturbed' = (disturbed \/ Holding # {p})
  /\ bystanders' = {}
  /\ UNCHANGED <<cmd, cfg, unlinked, started, settings, cut, last, given, seen>>

\* The directory or the file cannot be made or opened: exit status 1.
OpenFails(p) ==
  /\ pc[p] = "open"
  /\ pc' = [pc EXCEPT ![p] = "idle"]
  /\ bystanders' = bystanders \ {p}
  /\ UNCHANGED <<file, cmd, cfg, unlinked, started,
                 settings, disturbed, cut, last, given, seen>>

\* The content of the file becomes f while p ends its command.
EndWith(p, f) ==
  /\ file' = f
  /\ pc' = [pc EXCEPT ![p] = "idle"]
  /\ unlinked' = unlinked \ {p}
  /\ bystanders' = IF f = Torn /\ file # Torn THEN Holding \ {p}
                   ELSE bystanders \ {p}

\* os.WriteFile writes the document.  If the file was removed meanwhile, the
\* bytes go where no name leads to, and the command reports success.
Write(p) ==
  /\ pc[p] = "write"
  /\ \E f \in IF p \in unlinked THEN {file} ELSE Overwritten(file, cfg[p]) :
       EndWith(p, f)
  /\ settings' = Apply(cmd[p], settings)
  /\ disturbed' = (disturbed \/ Holding # {p})
  /\ last' = IF p \in unlinked THEN last ELSE cmd[p]
  /\ UNCHANGED <<cmd, cfg, started, cut, given, seen>>

\* The write fails, as on a full disk: some of the document is written to an
\* empty file; where there is content its space is there.
WriteFails(p) ==
  /\ pc[p] = "write"
  /\ \E f \in IF file = Empty /\ p \notin unlinked THEN {Empty, Torn} ELSE {file} :
       EndWith(p, f)
  /\ disturbed' = TRUE
  /\ cut' = TRUE
  /\ UNCHANGED <<cmd, cfg, started, settings, last, given, seen>>

\* config reset: os.Remove; no file is as good.  Commands that have the file
\* open keep it, without its name.
Remove(p) ==
  /\ pc[p] = "remove"
  /\ file' = Absent
  /\ pc' = [pc EXCEPT ![p] = "idle"]
  /\ unlinked' = Writing
  /\ settings' = Blank
  /\ disturbed' = (Holding # {})
  /\ cut' = (cut /\ Holding # {})
  /\ last' = cmd[p]
  /\ bystanders' = {}
  /\ UNCHANGED <<cmd, cfg, started, given, seen>>

\* The command is killed.  A file it has cut to nothing stays so.
Crash(p) ==
  /\ pc[p] # "idle"
  /\ pc' = [pc EXCEPT ![p] = "idle"]
  /\ unlinked' = unlinked \ {p}
  /\ bystanders' = bystanders \ {p}
  /\ disturbed' = (disturbed \/ pc[p] = "write")
  /\ cut' = (cut \/ pc[p] = "write")
  /\ UNCHANGED <<file, cmd, cfg, started, settings, last, given, seen>>

StartSome(p) == \E c \in Command : Start(p, c)

Step(p) ==
  \/ StartSome(p) \/ LoadFails(p) \/ LoadAndChange(p) \/ LoadAndUse(p)
  \/ Open(p) \/ OpenFails(p) \/ Write(p) \/ WriteFails(p) \/ Remove(p) \/ Crash(p)

Next == \E p \in Proc : Step(p)

Spec == Init /\ [][Next]_vars

-----------------------------------------------------------------------------
(* Properties.                                                             *)

\* Commands that do not meet, and are not cut short after they truncated the
\* file, add up: the file says what a store without files would, whatever else
\* was refused, failed or was killed in between; and after a reset on its own
\* this holds again, whatever state the file was in.
UndisturbedIsExact ==
  ~disturbed /\ Writing = {} => Parses(file) /\ Contents(file) = settings

\* However commands overlap, fail and are killed, what the file says of a key
\* is a value somebody set that key to.
ValuesWereGiven ==
  Parses(file) =>
    \A k \in Key : Contents(file)[k] # None => <<k, Contents(file)[k]>> \in given

\* When all commands have ended and none was cut short, the last one that
\* reached the file is in effect, though it may have undone others, unless the
\* file no longer parses.
LastCommandIsInEffect ==
  ~cut /\ (\A p \in Proc : pc[p] = "idle") /\ Parses(file) =>
    Contents(file) = Apply(last, Contents(file))

\* A file that does not parse is not written over by a command that found it
\* so: only a reset takes it away, or a command that had read it before.
TornNeedsReset ==
  [][file = Torn /\ bystanders = {} => file' \in {Torn, Absent}]_vars

\* A command of the API that meets no writer uses what the commands before it
\* add up to, unless a flag or the environment says otherwise.
ClientFollowsSettings ==
  \A k \in Key :
    LET due == {seen.flags[k], Environ[k], seen.stored[k]} \ {None}
    IN  /\ seen.got[k] \in due \/ (due = {} /\ seen.got[k] = Default[k])
        /\ seen.flags[k] # None => seen.got[k] = seen.flags[k]
        /\ seen.flags[k] = None /\ Environ[k] # None => seen.got[k] = Environ[k]

\* Nothing is made up on the way from the commands to the file and from the
\* file to a client: each value a file holds was given by a command, and each
\* option a client runs with comes from a flag, the environment, the commands
\* before it or the built-in settings, in this order (saveCLIConfig,
\* loadCLIConfig and firstNonEmpty).
ReadsAreExplained == TypeOK /\ ValuesWereGiven /\ ClientFollowsSettings

=============================================================================
