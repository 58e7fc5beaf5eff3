--------------------------- MODULE CLIConfigProofs ---------------------------
(***************************************************************************)
(* For any settings, any number of commands and any that run at a time:    *)
(* what may be lost when they overlap in one file, fail or are killed, and *)
(* what never is.                                                          *)
(***************************************************************************)
EXTENDS CLIConfig, TLAPS

-----------------------------------------------------------------------------
(* The operators.                                                          *)

\* The configuration without settings is a configuration.
LEMMA BlankType == Blank \in Config
BY DEF Blank, Config, Setting

\* A configuration is none of the three states of a file that is not one.
LEMMA ConfigFile ==
  ASSUME NEW c \in Config
  PROVE  /\ c \notin {Absent, Empty, Torn}
         /\ Parses(c)
         /\ Contents(c) = c
BY CLIConfigAssumption DEF CLIConfigAssumption, Parses, Contents

\* What a file says is always a configuration.
LEMMA ContentsType ==
  ASSUME NEW f \in Config \cup {Absent, Empty, Torn}
  PROVE  Contents(f) \in Config
BY BlankType DEF Contents

\* A command that is not refused has a key.
LEMMA KeyOfCommand ==
  ASSUME NEW c \in Command, ~Refused(c)
  PROVE  /\ c.op \in {"set", "unset", "reset", "client"}
         /\ c.op \in {"set", "unset"} => Canonical[c.raw] \in Key
         /\ c.op = "set" => c.value \in Value
BY CLIConfigAssumption DEF CLIConfigAssumption, Command, Refused, Setting

\* A command makes a configuration of a configuration.
LEMMA ApplyType ==
  ASSUME NEW c \in Command, ~Refused(c), NEW old \in Config
  PROVE  Apply(c, old) \in Config
BY KeyOfCommand, BlankType DEF Apply, Config, Setting

\* A command that was carried out has no more to do.
LEMMA ApplyTwice ==
  ASSUME NEW c \in Command, ~Refused(c), NEW old \in Config
  PROVE  Apply(c, Apply(c, old)) = Apply(c, old)
<1>1. CASE c.op = "set"
  <2>1. /\ Canonical[c.raw] \in Key /\ c.value \in Setting
        /\ Apply(c, old) = [old EXCEPT ![Canonical[c.raw]] = c.value]
    BY <1>1, KeyOfCommand DEF Apply, Setting
  <2> QED
    BY <1>1, <2>1 DEF Apply, Config
<1>2. CASE c.op = "unset"
  <2>1. /\ Canonical[c.raw] \in Key
        /\ Apply(c, old) = [old EXCEPT ![Canonical[c.raw]] = None]
    BY <1>2, KeyOfCommand DEF Apply, Setting
  <2> QED
    BY <1>2, <2>1 DEF Apply, Config
<1>3. CASE c.op \notin {"set", "unset"}
  BY <1>3 DEF Apply
<1> QED
  BY <1>1, <1>2, <1>3

\* A value a command leaves was there, or is the one the command sets.
LEMMA ApplyValues ==
  ASSUME NEW c \in Command, ~Refused(c), NEW old \in Config, NEW k \in Key,
         Apply(c, old)[k] # None
  PROVE  \/ Apply(c, old)[k] = old[k]
         \/ c.op = "set" /\ k = Canonical[c.raw] /\ Apply(c, old)[k] = c.value
BY KeyOfCommand DEF Apply, Config, Setting, Blank

\* What options a client gets: each is one of the four, in their order.
LEMMA OptionsType ==
  ASSUME NEW f \in Config, NEW g \in Config
  PROVE  Options(f, g) \in Config
BY CLIConfigAssumption DEF CLIConfigAssumption, Options, Config, Setting

-----------------------------------------------------------------------------
(* Types.                                                                  *)

\* The initial states have their types.
LEMMA InitTyped == Init => TypeOK
<1> SUFFICES ASSUME Init PROVE TypeOK
  OBVIOUS
<1>1. Options(Blank, Blank) \in Config
  BY BlankType, OptionsType
<1>2. [op |-> "reset"] \in Command /\ ~Refused([op |-> "reset"])
  BY DEF Command, Refused
<1>3. 0 \in 0..MaxCommands
  BY CLIConfigAssumption DEF CLIConfigAssumption
<1> QED
  BY <1>1, <1>2, <1>3, BlankType DEF Init, TypeOK, Holding, Writing

\* Who holds what it read, and who is writing, when one command goes on.
LEMMA PcStep ==
  ASSUME TypeOK, NEW p \in Proc, NEW s, pc' = [pc EXCEPT ![p] = s]
  PROVE  /\ pc'[p] = s
         /\ \A q \in Proc \ {p} : pc'[q] = pc[q]
         /\ Writing' = IF s = "write" THEN Writing \cup {p} ELSE Writing \ {p}
         /\ Holding' = IF s \in {"open", "write"} THEN Holding \cup {p} ELSE Holding \ {p}
BY DEF TypeOK, Writing, Holding

\* What Overwritten leaves is the document or a torn file.
LEMMA OverwrittenType ==
  ASSUME NEW f, NEW doc, NEW g \in Overwritten(f, doc)
  PROVE  /\ g \in {doc, Torn}
         /\ f = Empty => g = doc
BY DEF Overwritten

\* Every step keeps the types.
LEMMA StepTyped == TypeOK /\ [Next]_vars => TypeOK'
<1> SUFFICES ASSUME TypeOK, [Next]_vars PROVE TypeOK'
  OBVIOUS
<1>1. ASSUME NEW p \in Proc, NEW c \in Command, Start(p, c)
      PROVE  TypeOK'
  <2>1. started' \in 0..MaxCommands
    BY <1>1, CLIConfigAssumption DEF CLIConfigAssumption, Start, TypeOK
  <2>2. CASE Refused(c)
    BY <1>1, <2>1, <2>2 DEF Start, TypeOK, Writing, Holding
  <2>3. CASE ~Refused(c)
    <3>1. /\ pc' = [pc EXCEPT ![p] = IF c.op = "reset" THEN "remove" ELSE "load"]
          /\ cmd' = [cmd EXCEPT ![p] = c]
          /\ pc[p] = "idle"
      BY <1>1, <2>3 DEF Start
    <3>2. given' \subseteq Key \X Value
      BY <1>1, <2>3, KeyOfCommand DEF Start, TypeOK
    <3>3. Writing' = Writing /\ Holding' = Holding
      BY <3>1, PcStep DEF TypeOK, Writing, Holding
    <3> QED
      BY <1>1, <2>1, <2>3, <3>1, <3>2, <3>3 DEF Start, TypeOK
  <2> QED
    BY <2>2, <2>3
<1>2. ASSUME NEW p \in Proc, LoadFails(p)
      PROVE  TypeOK'
  <2>1. Writing' = Writing /\ Holding' = Holding
    BY <1>2, PcStep DEF LoadFails, Writing, Holding
  <2> QED
    BY <1>2, <2>1 DEF LoadFails, TypeOK
<1>3. ASSUME NEW p \in Proc, LoadAndChange(p)
      PROVE  TypeOK'
  <2>1. Writing' = Writing /\ Holding' = Holding \cup {p}
    BY <1>3, PcStep DEF LoadAndChange, Writing
  <2>2. Changed(cmd[p], file) \in Config
    BY ContentsType, ApplyType DEF TypeOK, Changed
  <2> QED
    BY <1>3, <2>1, <2>2 DEF LoadAndChange, TypeOK
<1>4. ASSUME NEW p \in Proc, LoadAndUse(p)
      PROVE  TypeOK'
  <2>1. Writing' = Writing /\ Holding' = Holding
    BY <1>4, PcStep DEF LoadAndUse, Writing, Holding
  <2>2. cmd[p] \in Command /\ cmd[p].op = "client"
    BY <1>4 DEF LoadAndUse, TypeOK
  <2>3. cmd[p].flags \in Config
    BY <2>2, CLIConfigAssumption DEF Command, CLIConfigAssumption
  <2>4. Options(cmd[p].flags, Contents(file)) \in Config
    BY <2>3, ContentsType, OptionsType DEF TypeOK
  <2>5. seen' \in [flags : Config, stored : Config, got : Config]
    BY <1>4, <2>3, <2>4 DEF LoadAndUse, TypeOK
  <2> QED
    BY <1>4, <2>1, <2>5 DEF LoadAndUse, TypeOK
<1>5. ASSUME NEW p \in Proc, Open(p)
      PROVE  TypeOK'
  <2>1. Writing' = Writing \cup {p}
    BY <1>5, PcStep DEF Open
  <2> QED
    BY <1>5, <2>1 DEF Open, TypeOK
<1>6. ASSUME NEW p \in Proc, OpenFails(p)
      PROVE  TypeOK'
  <2>1. Writing' = Writing /\ Holding' = Holding \ {p}
    BY <1>6, PcStep DEF OpenFails, Writing
  <2> QED
    BY <1>6, <2>1 DEF OpenFails, TypeOK
<1>7. ASSUME NEW p \in Proc, NEW f \in Config \cup {Absent, Empty, Torn}, EndWith(p, f)
      PROVE  /\ file' \in Config \cup {Absent, Empty, Torn}
             /\ pc' \in [Proc -> {"idle", "load", "open", "write", "remove"}]
             /\ unlinked' \subseteq Writing'
             /\ bystanders' \subseteq Holding'
  <2>1. Writing' = Writing \ {p} /\ Holding' = Holding \ {p}
    BY <1>7, PcStep DEF EndWith
  <2> QED
    BY <1>7, <2>1 DEF EndWith, TypeOK
<1>8. ASSUME NEW p \in Proc, Write(p)
      PROVE  TypeOK'
  <2>1. PICK f \in IF p \in unlinked THEN {file} ELSE Overwritten(file, cfg[p]) : EndWith(p, f)
    BY <1>8 DEF Write
  <2>2. f \in Config \cup {Absent, Empty, Torn}
    BY <2>1, OverwrittenType DEF TypeOK
  <2>3. settings' \in Config
    BY <1>8, ApplyType DEF Write, TypeOK
  <2> QED
    BY <1>7, <1>8, <2>1, <2>2, <2>3 DEF Write, TypeOK
<1>9. ASSUME NEW p \in Proc, WriteFails(p)
      PROVE  TypeOK'
  <2>1. PICK f \in Config \cup {Absent, Empty, Torn} : EndWith(p, f)
    BY <1>9 DEF WriteFails, TypeOK
  <2> QED
    BY <1>7, <1>9, <2>1 DEF WriteFails, TypeOK
<1>10. ASSUME NEW p \in Proc, Remove(p)
       PROVE  TypeOK'
  <2>1. Writing' = Writing
    BY <1>10, PcStep DEF Remove, Writing
  <2> QED
    BY <1>10, <2>1, BlankType DEF Remove, TypeOK
<1>11. ASSUME NEW p \in Proc, Crash(p)
       PROVE  TypeOK'
  <2>1. Writing' = Writing \ {p} /\ Holding' = Holding \ {p}
    BY <1>11, PcStep DEF Crash
  <2> QED
    BY <1>11, <2>1 DEF Crash, TypeOK
<1>12. CASE UNCHANGED vars
  BY <1>12 DEF vars, TypeOK, Writing, Holding
<1> QED
  BY <1>1, <1>2, <1>3, <1>4, <1>5, <1>6, <1>8, <1>9, <1>10, <1>11, <1>12
     DEF Next, Step, StartSome

\* The types of the file, of the commands and of what they hold.
THEOREM TypeCorrect == Spec => []TypeOK
BY InitTyped, StepTyped, PTL DEF Spec

-----------------------------------------------------------------------------
(* Undisturbed commands add up.                                            *)

(***************************************************************************)
(* Why: while nothing was disturbed, at most one command is between        *)
(* truncating and writing the file, and it holds what the settings will be *)
(* when it has written; and while none is, the file says the settings and  *)
(* every command that has read it holds what they would be after it.  A    *)
(* command that truncates or writes while another holds what it read is a  *)
(* disturbance, so none of these others ever writes undisturbed.           *)
(***************************************************************************)
UndisturbedInv ==
  ~disturbed =>
    /\ Writing = {} => Parses(file) /\ Contents(file) = settings
    /\ Writing = {} => \A p \in Holding : cfg[p] = Apply(cmd[p], settings)
    /\ \A p \in Writing : /\ Writing = {p}
                          /\ file = Empty
                          /\ p \notin unlinked
                          /\ cfg[p] = Apply(cmd[p], settings)

\* While nothing was disturbed every step leaves the file exact, or one command
\* between truncating and writing it.
LEMMA UndisturbedStep == TypeOK /\ UndisturbedInv /\ [Next]_vars => UndisturbedInv'
<1> SUFFICES ASSUME TypeOK, UndisturbedInv, [Next]_vars, ~disturbed'
             PROVE  UndisturbedInv'
  BY DEF UndisturbedInv
<1>1. ASSUME NEW p \in Proc, NEW c \in Command, Start(p, c)
      PROVE  UndisturbedInv'
  <2>1. Writing' = Writing /\ Holding' = Holding
    BY <1>1, PcStep DEF Start, Writing, Holding
  <2>2. \A q \in Holding : cmd'[q] = cmd[q]
    BY <1>1 DEF Start, Holding, TypeOK
  <2>3. Writing \subseteq Holding
    BY DEF Writing, Holding
  <2> QED
    BY <1>1, <2>1, <2>2, <2>3 DEF Start, UndisturbedInv
<1>2. ASSUME NEW p \in Proc, LoadFails(p) \/ LoadAndUse(p)
      PROVE  UndisturbedInv'
  <2>1. Writing' = Writing /\ Holding' = Holding
    BY <1>2, PcStep DEF LoadFails, LoadAndUse, Writing, Holding
  <2> QED
    BY <1>2, <2>1 DEF LoadFails, LoadAndUse, UndisturbedInv
<1>3. ASSUME NEW p \in Proc, LoadAndChange(p)
      PROVE  UndisturbedInv'
  <2>1. Writing' = Writing /\ Holding' = Holding \cup {p} /\ p \notin Writing
    BY <1>3, PcStep DEF LoadAndChange, Writing
  <2>2. cfg'[p] = Apply(cmd[p], Contents(file)) /\ \A q \in Proc \ {p} : cfg'[q] = cfg[q]
    BY <1>3 DEF LoadAndChange, Changed, TypeOK
  <2>3. Writing \subseteq Proc /\ Holding \subseteq Proc
    BY DEF Writing, Holding
  <2> QED
    BY <1>3, <2>1, <2>2, <2>3 DEF LoadAndChange, UndisturbedInv
<1>4. ASSUME NEW p \in Proc, Open(p)
      PROVE  UndisturbedInv'
  <2>1. ~disturbed /\ Holding = {p}
    BY <1>4 DEF Open
  <2>2. Writing = {} /\ Writing' = {p}
    BY <1>4, <2>1, PcStep DEF Open, Writing, Holding
  <2>3. p \notin unlinked /\ cfg[p] = Apply(cmd[p], settings)
    BY <2>1, <2>2 DEF TypeOK, UndisturbedInv
  <2> QED
    BY <1>4, <2>2, <2>3 DEF Open, UndisturbedInv
<1>5. ASSUME NEW p \in Proc, OpenFails(p) \/ (Crash(p) /\ pc[p] # "write")
      PROVE  UndisturbedInv'
  <2>1. Writing' = Writing /\ Holding' = Holding \ {p} /\ p \notin Writing
    BY <1>5, PcStep DEF OpenFails, Crash, Writing
  <2>2. UNCHANGED <<file, settings, cmd, cfg>> /\ unlinked' \subseteq unlinked
    BY <1>5 DEF OpenFails, Crash
  <2>3. ~disturbed
    BY <1>5 DEF OpenFails, Crash
  <2> QED
    BY <2>1, <2>2, <2>3 DEF UndisturbedInv, Parses, Contents
<1>6. ASSUME NEW p \in Proc, Write(p)
      PROVE  UndisturbedInv'
  <2>1. ~disturbed /\ Holding = {p} /\ p \in Writing
    BY <1>6 DEF Write, Writing
  <2>2. /\ file = Empty /\ p \notin unlinked
        /\ cfg[p] = Apply(cmd[p], settings)
    BY <2>1 DEF UndisturbedInv
  <2>3. PICK f \in Overwritten(file, cfg[p]) : EndWith(p, f)
    BY <1>6, <2>2 DEF Write
  <2>4. file' = cfg[p] /\ cfg[p] \in Config
    BY <2>2, <2>3, OverwrittenType DEF EndWith, TypeOK
  <2>5. Writing' = {} /\ Holding' = {}
    <3>1. Writing' = Writing \ {p} /\ Holding' = Holding \ {p}
      BY <2>3, PcStep DEF EndWith
    <3> QED
      BY <2>1, <3>1 DEF Writing, Holding
  <2>6. settings' = cfg[p]
    BY <1>6, <2>2 DEF Write
  <2>7. Parses(file') /\ Contents(file') = settings'
    BY <2>4, <2>6, ConfigFile
  <2>8. Parses(file)' /\ Contents(file)' = settings'
    BY <2>7 DEF Parses, Contents
  <2> QED
    BY <2>5, <2>8 DEF UndisturbedInv
<1>7. ASSUME NEW p \in Proc, WriteFails(p) \/ (Crash(p) /\ pc[p] = "write")
      PROVE  FALSE
  BY <1>7 DEF WriteFails, Crash
<1>8. ASSUME NEW p \in Proc, Remove(p)
      PROVE  UndisturbedInv'
  <2>1. Holding = {} /\ Holding' = Holding /\ Writing' = Writing
    BY <1>8, PcStep DEF Remove, Writing, Holding
  <2>2. Writing = {}
    BY <2>1 DEF Writing, Holding
  <2>3. Parses(file)' /\ Contents(file)' = settings'
    BY <1>8, CLIConfigAssumption DEF CLIConfigAssumption, Remove, Parses, Contents
  <2> QED
    BY <2>1, <2>2, <2>3 DEF UndisturbedInv
<1>9. CASE UNCHANGED vars
  BY <1>9 DEF vars, UndisturbedInv, Writing, Holding, Parses, Contents
<1> QED
  BY <1>1, <1>2, <1>3, <1>4, <1>5, <1>6, <1>7, <1>8, <1>9 DEF Next, Step, StartSome

\* Undisturbed histories are exact in every reachable state.
LEMMA UndisturbedInvariant == Spec => []UndisturbedInv
<1>1. Init => UndisturbedInv
  BY CLIConfigAssumption
     DEF CLIConfigAssumption, Init, UndisturbedInv, Writing, Holding, Parses, Contents
<1> QED
  BY <1>1, UndisturbedStep, TypeCorrect, PTL DEF Spec

\* Commands that do not meet and are not cut short add up, whatever else was
\* refused, failed or was killed in between; and after a reset on its own they
\* do so again.
THEOREM UndisturbedExact == Spec => []UndisturbedIsExact
<1>1. UndisturbedInv => UndisturbedIsExact
  BY DEF UndisturbedInv, UndisturbedIsExact
<1> QED
  BY <1>1, UndisturbedInvariant, PTL

-----------------------------------------------------------------------------
(* Nothing is made up.                                                     *)

\* All that a configuration says was given by a set command.
Given(c) == \A k \in Key : c[k] # None => <<k, c[k]>> \in given

(***************************************************************************)
(* Values get into the file through what a command holds, and into that    *)
(* from a file or from the command itself; what a client got is what its   *)
(* flags and the settings of that moment make.                             *)
(***************************************************************************)
GivenInv ==
  /\ file \in Config => Given(file)
  /\ \A p \in Proc : Given(cfg[p])
  /\ \A p \in Proc : pc[p] # "idle" /\ cmd[p].op = "set" =>
                       <<Canonical[cmd[p].raw], cmd[p].value>> \in given
  /\ seen.got = Options(seen.flags, seen.stored)

\* Each of these values stays given, and a command that ends brings none in.
LEMMA GivenKept ==
  ASSUME TypeOK, GivenInv, given \subseteq given', UNCHANGED <<cmd, cfg, seen>>,
         \A p \in Proc : pc'[p] = "idle" \/ pc[p] # "idle",
         file' \in Config => file' = file \/ \E p \in Proc : file' = cfg[p]
  PROVE  GivenInv'
BY DEF TypeOK, GivenInv, Given

\* No step brings a value into the file, or into what a command holds, that was
\* never given.
LEMMA GivenStep == TypeOK /\ UndisturbedInv /\ GivenInv /\ [Next]_vars => GivenInv'
<1> SUFFICES ASSUME TypeOK, UndisturbedInv, GivenInv, [Next]_vars
             PROVE  GivenInv'
  OBVIOUS
<1>1. ASSUME NEW p \in Proc, NEW c \in Command, Start(p, c)
      PROVE  GivenInv'
  <2>1. CASE Refused(c)
    BY <1>1, <2>1, GivenKept DEF Start
  <2>2. CASE ~Refused(c)
    <3>1. /\ pc' = [pc EXCEPT ![p] = IF c.op = "reset" THEN "remove" ELSE "load"]
          /\ cmd' = [cmd EXCEPT ![p] = c]
          /\ given \subseteq given'
          /\ c.op = "set" => <<Canonical[c.raw], c.value>> \in given'
          /\ UNCHANGED <<file, cfg, seen>>
      BY <1>1, <2>2 DEF Start
    <3>2. \A q \in Proc : pc'[q] # "idle" /\ cmd'[q].op = "set" =>
             <<Canonical[cmd'[q].raw], cmd'[q].value>> \in given'
      BY <3>1 DEF TypeOK, GivenInv
    <3> QED
      BY <3>1, <3>2 DEF GivenInv, Given
  <2> QED
    BY <2>1, <2>2
<1>2. ASSUME NEW p \in Proc,
             LoadFails(p) \/ Open(p) \/ OpenFails(p) \/ Remove(p) \/ Crash(p)
      PROVE  GivenInv'
  <2>1. /\ given' = given /\ UNCHANGED <<cmd, cfg, seen>>
        /\ \A q \in Proc : pc'[q] = "idle" \/ pc[q] # "idle"
    BY <1>2 DEF LoadFails, Open, OpenFails, Remove, Crash, TypeOK
  <2>2. file' \in Config => file' = file
    BY <1>2, ConfigFile DEF LoadFails, Open, OpenFails, Remove, Crash
  <2> QED
    BY <2>1, <2>2, GivenKept
<1>3. ASSUME NEW p \in Proc, LoadAndChange(p)
      PROVE  GivenInv'
  <2>1. Contents(file) \in Config /\ Given(Contents(file))
    BY <1>3, ContentsType DEF TypeOK, GivenInv, Given, Contents, Blank
  <2>2. cmd[p] \in Command /\ ~Refused(cmd[p]) /\ pc[p] # "idle"
    BY <1>3 DEF TypeOK, LoadAndChange
  <2>3. Given(Apply(cmd[p], Contents(file)))
    BY <2>1, <2>2, ApplyValues DEF Given, GivenInv
  <2>4. Given(cfg'[p]) /\ \A q \in Proc \ {p} : cfg'[q] = cfg[q]
    BY <1>3, <2>3 DEF LoadAndChange, Changed, TypeOK
  <2>5. \A q \in Proc : pc'[q] # "idle" => pc[q] # "idle"
    BY <1>3 DEF LoadAndChange, TypeOK
  <2>6. UNCHANGED <<file, cmd, given, seen>>
    BY <1>3 DEF LoadAndChange
  <2> QED
    BY <2>4, <2>5, <2>6 DEF GivenInv, Given
<1>4. ASSUME NEW p \in Proc, LoadAndUse(p)
      PROVE  GivenInv'
  <2>1. seen'.got = Options(seen'.flags, seen'.stored)
    <3>1. CASE disturbed \/ Writing # {}
      BY <1>4, <3>1 DEF LoadAndUse, GivenInv
    <3>2. CASE ~disturbed /\ Writing = {}
      BY <1>4, <3>2 DEF LoadAndUse, UndisturbedInv
    <3> QED
      BY <3>1, <3>2
  <2>2. UNCHANGED <<file, cmd, cfg, given>> /\ \A q \in Proc : pc'[q] # "idle" => pc[q] # "idle"
    BY <1>4 DEF LoadAndUse, TypeOK
  <2> QED
    BY <2>1, <2>2 DEF GivenInv, Given, Options
<1>5. ASSUME NEW p \in Proc, Write(p) \/ WriteFails(p)
      PROVE  GivenInv'
  <2>1. PICK f : f \in {file, cfg[p], Empty, Torn} /\ EndWith(p, f)
    BY <1>5, OverwrittenType DEF Write, WriteFails
  <2>2. file' \in Config => file' = file \/ file' = cfg[p]
    BY <2>1, ConfigFile DEF EndWith
  <2>3. \A q \in Proc : pc'[q] = "idle" \/ pc[q] # "idle"
    BY <2>1 DEF EndWith, TypeOK
  <2> QED
    BY <1>5, <2>2, <2>3, GivenKept DEF Write, WriteFails
<1>6. CASE UNCHANGED vars
  BY <1>6 DEF vars, GivenInv, Given, Options
<1> QED
  BY <1>1, <1>2, <1>3, <1>4, <1>5, <1>6 DEF Next, Step, StartSome

\* Every value in the file was given by a command.
LEMMA GivenInvariant == Spec => []GivenInv
<1>1. ASSUME Init PROVE GivenInv
  <2>1. file \notin Config
    BY <1>1, ConfigFile DEF Init
  <2>2. \A p \in Proc : Given(cfg[p])
    BY <1>1 DEF Init, Given, Blank
  <2> QED
    BY <1>1, <2>1, <2>2 DEF Init, GivenInv
<1> QED
  BY <1>1, TypeCorrect, UndisturbedInvariant, GivenStep, PTL DEF Spec

\* However commands overlap and end, a setting in the file is one that somebody
\* made, and a client that met no writer has each option from its flags, the
\* environment, the settings or the defaults, in this order.
THEOREM ReadsExplained == Spec => []ReadsAreExplained
<1>1. TypeOK /\ GivenInv => ValuesWereGiven
  <2> SUFFICES ASSUME TypeOK, GivenInv, Parses(file), NEW k \in Key, Contents(file)[k] # None
               PROVE  <<k, Contents(file)[k]>> \in given
    BY DEF ValuesWereGiven
  <2>1. file \in Config
    BY DEF TypeOK, Parses, Contents, Blank
  <2> QED
    BY <2>1, ConfigFile DEF GivenInv, Given
<1>2. TypeOK /\ GivenInv => ClientFollowsSettings
  BY DEF TypeOK, GivenInv, ClientFollowsSettings, Options
<1> QED
  BY <1>1, <1>2, TypeCorrect, GivenInvariant, PTL DEF ReadsAreExplained

-----------------------------------------------------------------------------
(* The last command.                                                       *)

(***************************************************************************)
(* A file that holds a configuration holds that of the last command that   *)
(* wrote it.  There is no file only after a reset, and then no command has *)
(* it open by its name; and it is empty only while such a command is about *)
(* to write it, unless one was cut short.                                  *)
(***************************************************************************)
LastInv ==
  /\ \A p \in Proc : pc[p] = "remove" => cmd[p].op = "reset"
  /\ \A p \in Holding : Apply(cmd[p], cfg[p]) = cfg[p]
  /\ file \in Config => Apply(last, file) = file
  /\ file = Absent => Apply(last, Blank) = Blank /\ Writing \subseteq unlinked
  /\ file = Empty /\ ~cut => Writing \ unlinked # {}

\* Only Start begins a reset.
LEMMA ResetKept ==
  ASSUME TypeOK, LastInv, NEW p \in Proc, NEW s \in {"idle", "open", "write"},
         pc' = [pc EXCEPT ![p] = s], cmd' = cmd
  PROVE  \A q \in Proc : pc'[q] = "remove" => cmd'[q].op = "reset"
BY DEF TypeOK, LastInv

\* Every step keeps what is known of the last write.
LEMMA LastStep == TypeOK /\ LastInv /\ [Next]_vars => LastInv'
<1> SUFFICES ASSUME TypeOK, LastInv, [Next]_vars
             PROVE  LastInv'
  OBVIOUS
<1> USE CLIConfigAssumption DEF CLIConfigAssumption
<1>1. ASSUME NEW p \in Proc, NEW c \in Command, Start(p, c)
      PROVE  LastInv'
  <2>1. Writing' = Writing /\ Holding' = Holding
    BY <1>1, PcStep, SMTT(30) DEF Start, Writing, Holding
  <2>2. \A q \in Holding : cmd'[q] = cmd[q]
    BY <1>1 DEF Start, Holding, TypeOK
  <2>3. \A q \in Proc : pc'[q] = "remove" => cmd'[q].op = "reset"
    BY <1>1 DEF Start, TypeOK, LastInv
  <2> QED
    BY <1>1, <2>1, <2>2, <2>3 DEF Start, LastInv
<1>2. ASSUME NEW p \in Proc, LoadFails(p) \/ LoadAndUse(p)
      PROVE  LastInv'
  <2>1. Writing' = Writing /\ Holding' = Holding
    BY <1>2, PcStep DEF LoadFails, LoadAndUse, Writing, Holding
  <2> QED
    BY ResetKept, <1>2, <2>1 DEF LoadFails, LoadAndUse, LastInv
<1>3. ASSUME NEW p \in Proc, LoadAndChange(p)
      PROVE  LastInv'
  <2>1. Writing' = Writing /\ Holding' = Holding \cup {p} /\ Holding \subseteq Proc
    BY <1>3, PcStep DEF LoadAndChange, Writing, Holding
  <2>2. cfg'[p] = Apply(cmd[p], Contents(file)) /\ \A q \in Proc \ {p} : cfg'[q] = cfg[q]
    BY <1>3 DEF LoadAndChange, Changed, TypeOK
  <2>3. Apply(cmd[p], cfg'[p]) = cfg'[p]
    BY <2>2, ContentsType, ApplyTwice DEF TypeOK
  <2> QED
    BY ResetKept, <1>3, <2>1, <2>2, <2>3 DEF LoadAndChange, LastInv
<1>4. ASSUME NEW p \in Proc, Open(p)
      PROVE  LastInv'
  <2>1. Writing' = Writing \cup {p} /\ Holding' = Holding
    BY <1>4, PcStep DEF Open, Holding
  <2>2. p \notin unlinked
    BY <1>4 DEF Open, TypeOK, Writing
  <2> QED
    BY ResetKept, <1>4, <2>1, <2>2, ConfigFile DEF Open, LastInv
<1>5. ASSUME NEW p \in Proc, OpenFails(p)
      PROVE  LastInv'
  <2>1. Writing' = Writing /\ Holding' = Holding \ {p}
    BY <1>5, PcStep DEF OpenFails, Writing
  <2> QED
    BY ResetKept, <1>5, <2>1 DEF OpenFails, LastInv
<1>6. ASSUME NEW p \in Proc, NEW f, EndWith(p, f)
      PROVE  /\ Writing' = Writing \ {p} /\ Holding' = Holding \ {p}
             /\ unlinked' = unlinked \ {p} /\ file' = f
             /\ cmd' = cmd => \A q \in Proc : pc'[q] = "remove" => cmd'[q].op = "reset"
  BY <1>6, PcStep, ResetKept DEF EndWith
<1>7. ASSUME NEW p \in Proc, Write(p)
      PROVE  LastInv'
  <2>1. PICK f \in IF p \in unlinked THEN {file} ELSE Overwritten(file, cfg[p]) : EndWith(p, f)
    BY <1>7 DEF Write
  <2>2. p \in Holding /\ cfg[p] \in Config
    BY <1>7 DEF Write, Holding, TypeOK
  <2>3. CASE p \in unlinked
    BY <1>6, <1>7, <2>1, <2>3 DEF Write, LastInv
  <2>4. CASE p \notin unlinked
    <3>1. file' \in {cfg[p], Torn} /\ last' = cmd[p]
      BY <1>7, <2>1, <2>4, OverwrittenType DEF Write, EndWith
    <3> QED
      BY <1>6, <1>7, <2>1, <2>2, <3>1, ConfigFile DEF Write, LastInv
  <2> QED
    BY <2>3, <2>4
<1>8. ASSUME NEW p \in Proc, WriteFails(p)
      PROVE  LastInv'
  <2>1. PICK f \in {file, Torn} : EndWith(p, f)
    BY <1>8 DEF WriteFails
  <2>2. cut' /\ UNCHANGED <<cmd, cfg, last>>
    BY <1>8 DEF WriteFails
  <2> QED
    BY <1>6, <2>1, <2>2, ConfigFile DEF LastInv
<1>9. ASSUME NEW p \in Proc, Remove(p)
      PROVE  LastInv'
  <2>1. Writing' = Writing /\ Holding' = Holding
    BY <1>9, PcStep DEF Remove, Writing, Holding
  <2>2. Apply(last', Blank) = Blank
    BY <1>9 DEF Remove, Apply, LastInv
  <2> QED
    BY ResetKept, <1>9, <2>1, <2>2, ConfigFile DEF Remove, LastInv
<1>10. ASSUME NEW p \in Proc, Crash(p)
       PROVE  LastInv'
  <2>1. Writing' = Writing \ {p} /\ Holding' = Holding \ {p}
    BY <1>10, PcStep DEF Crash
  <2>2. cut' \/ p \notin Writing
    BY <1>10 DEF Crash, Writing
  <2>3. cut => cut'
    BY <1>10 DEF Crash
  <2> QED
    BY ResetKept, <1>10, <2>1, <2>2, <2>3 DEF Crash, LastInv
<1>11. CASE UNCHANGED vars
  BY <1>11 DEF vars, LastInv, Writing, Holding
<1> QED
  BY <1>1, <1>2, <1>3, <1>4, <1>5, <1>7, <1>8, <1>9, <1>10, <1>11
     DEF Next, Step, StartSome

\* When all commands have ended and none was cut short, the last one that
\* reached the file is in effect, or the file no longer parses.
THEOREM LastInEffect == Spec => []LastCommandIsInEffect
<1>1. Init => LastInv
  BY CLIConfigAssumption, ConfigFile
     DEF CLIConfigAssumption, Init, LastInv, Apply, Writing, Holding
<1>2. TypeOK /\ LastInv => LastCommandIsInEffect
  <2> SUFFICES ASSUME TypeOK, LastInv, ~cut, \A p \in Proc : pc[p] = "idle", Parses(file)
               PROVE  Contents(file) = Apply(last, Contents(file))
    BY DEF LastCommandIsInEffect
  <2>1. Writing = {}
    BY DEF Writing
  <2>2. file \in Config \/ file = Absent
    BY <2>1 DEF TypeOK, LastInv, Parses
  <2>3. CASE file \in Config
    BY <2>3, ConfigFile DEF LastInv
  <2>4. CASE file = Absent
    BY <2>4 DEF LastInv, Contents
  <2> QED
    BY <2>2, <2>3, <2>4
<1> QED
  BY <1>1, <1>2, LastStep, TypeCorrect, PTL DEF Spec

-----------------------------------------------------------------------------
(* A torn file.                                                            *)

\* Who holds what it read while the file is torn read it before.
TornInv == file = Torn => Holding = bystanders

\* Every step keeps what is known of commands that found the file torn.
LEMMA TornStep == TypeOK /\ TornInv /\ [Next]_vars => TornInv'
<1> SUFFICES ASSUME TypeOK, TornInv, [Next]_vars, file' = Torn
             PROVE  Holding' = bystanders'
  BY DEF TornInv
<1> USE CLIConfigAssumption DEF CLIConfigAssumption
<1>1. ASSUME NEW p \in Proc, NEW c \in Command, Start(p, c)
      PROVE  Holding' = bystanders'
  <2>1. Holding' = Holding
    BY <1>1, PcStep, SMTT(30) DEF Start, Holding
  <2> QED
    BY <1>1, <2>1 DEF Start, TornInv
<1>2. ASSUME NEW p \in Proc, LoadFails(p) \/ LoadAndUse(p) \/ LoadAndChange(p)
      PROVE  Holding' = bystanders'
  BY <1>2, PcStep DEF LoadFails, LoadAndUse, LoadAndChange, Holding, TornInv, Parses
<1>3. ASSUME NEW p \in Proc, Open(p) \/ Remove(p)
      PROVE  FALSE
  BY <1>3 DEF Open, Remove
<1>4. ASSUME NEW p \in Proc, OpenFails(p) \/ Crash(p)
      PROVE  Holding' = bystanders'
  BY <1>4, PcStep DEF OpenFails, Crash, TornInv
<1>5. ASSUME NEW p \in Proc, Write(p) \/ WriteFails(p)
      PROVE  Holding' = bystanders'
  <2>1. PICK f : EndWith(p, f)
    BY <1>5 DEF Write, WriteFails
  <2>2. Holding' = Holding \ {p}
    BY <2>1, PcStep DEF EndWith
  <2> QED
    BY <2>1, <2>2 DEF EndWith, TornInv
<1>6. CASE UNCHANGED vars
  BY <1>6 DEF vars, TornInv, Holding
<1> QED
  BY <1>1, <1>2, <1>3, <1>4, <1>5, <1>6 DEF Next, Step, StartSome

\* A torn file is not written over by a command that found it torn.
THEOREM TornIsReset == Spec => TornNeedsReset
<1>1. Init => TornInv
  BY CLIConfigAssumption DEF CLIConfigAssumption, Init, TornInv
<1>2. ASSUME TypeOK, TornInv, [Next]_vars, file = Torn, bystanders = {}
      PROVE  file' \in {Torn, Absent}
  <2>1. \A p \in Proc : pc[p] \notin {"open", "write"}
    BY <1>2 DEF TornInv, Holding
  <2>2. ASSUME NEW p \in Proc, Open(p) \/ Write(p) \/ WriteFails(p)
        PROVE  FALSE
    BY <2>1, <2>2 DEF Open, Write, WriteFails
  <2> QED
    BY <1>2, <2>2 DEF Next, Step, StartSome, Start, LoadFails, LoadAndChange, LoadAndUse,
       OpenFails, Remove, Crash, vars
<1> QED
  BY <1>1, <1>2, TornStep, TypeCorrect, PTL DEF Spec, TornNeedsReset

=============================================================================
