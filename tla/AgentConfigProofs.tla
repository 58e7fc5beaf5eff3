--------------------------- MODULE AgentConfigProofs ---------------------------
(***************************************************************************)
(* For any settings, kinds, namespaces and sources: where the values an    *)
(* agent runs with come from, which namespaces it sees, and that it can    *)
(* become ready.  The invariant is that the configuration at each stage of *)
(* main is a function of the sources; what remains is about the operators. *)
(***************************************************************************)
EXTENDS AgentConfig, WellFoundedInduction, TLAPS

-----------------------------------------------------------------------------
(* SplitCSV.                                                               *)

\* Induction over the numbers up to a bound, for the set of those that fail.
LEMMA NoneFails ==
  ASSUME NEW n \in Nat, NEW bad \in SUBSET (0..n), 0 \notin bad,
         \A k \in 1..n : k - 1 \notin bad => k \notin bad
  PROVE  bad = {}
<1> SUFFICES ASSUME bad # {} PROVE FALSE
  OBVIOUS
<1> DEFINE less == {p \in Nat \X Nat : p[1] < p[2]}
<1>1. IsWellFoundedOn(less, Nat)
  BY NatLessThanWellFounded DEF OpToRel
<1>2. bad \subseteq Nat /\ \A i, j \in Nat : <<j, i>> \in less <=> j < i
  OBVIOUS
<1>3. PICK k \in bad : \A j \in bad : <<j, k>> \notin less
  <2> HIDE DEF less
  <2> QED
    BY <1>1, <1>2, WFMin
<1>4. k \in 1..n /\ k - 1 \in Nat /\ k - 1 < k
  OBVIOUS
<1>5. k - 1 \notin bad
  BY <1>2, <1>3, <1>4
<1> QED
  BY <1>3, <1>4, <1>5

\* Appending an entry adds it to what is in the sequence.
LEMMA RangeOfAppend ==
  ASSUME NEW S, NEW s \in Seq(S), NEW e \in S
  PROVE  Range(Append(s, e)) = Range(s) \cup {e}
<1> DEFINE t == Append(s, e)
<1>1. /\ DOMAIN t = 1..(Len(s) + 1) /\ DOMAIN s = 1..Len(s) /\ Len(s) \in Nat
      /\ \A i \in 1..Len(s) : t[i] = s[i]
      /\ t[Len(s) + 1] = e
  OBVIOUS
<1> HIDE DEF t
<1>2. \A i \in DOMAIN t : i \in DOMAIN s \/ i = Len(s) + 1
  BY <1>1
<1>3. \A i \in DOMAIN s : i \in DOMAIN t
  BY <1>1
<1>4. Len(s) + 1 \in DOMAIN t
  BY <1>1
<1>5. Range(t) \subseteq Range(s) \cup {e}
  BY <1>1, <1>2 DEF Range
<1>6. Range(s) \subseteq Range(t) /\ e \in Range(t)
  BY <1>1, <1>3, <1>4 DEF Range
<1> QED
  BY <1>5, <1>6 DEF t

\* What SplitCSV has after n entries, from what it had after n - 1.
SplitStep(list, g, n) ==
  IF n = 0 THEN <<>>
  ELSE IF Trim[list[n]] = Blank THEN g[n - 1]
  ELSE Append(g[n - 1], Trim[list[n]])

\* The loop has an outcome, with a sequence of namespaces after each entry.
LEMMA SplitSteps ==
  ASSUME NEW list \in List
  PROVE  \E g \in [0..Len(list) -> Seq(Namespace)] :
            \A n \in 0..Len(list) : g[n] = SplitStep(list, g, n)
<1> USE AgentConfigAssumption DEF AgentConfigAssumption, List
<1> DEFINE Runs(k) == \E g \in [0..k -> Seq(Namespace)] :
                         \A n \in 0..k : g[n] = SplitStep(list, g, n)
           bad == {k \in 0..Len(list) : ~Runs(k)}
<1>1. Runs(0)
  <2> DEFINE g == [n \in 0..0 |-> <<>>]
  <2>1. g \in [0..0 -> Seq(Namespace)] /\ \A n \in 0..0 : g[n] = SplitStep(list, g, n)
    BY DEF SplitStep
  <2> QED
    BY <2>1
<1>2. ASSUME NEW k \in 1..Len(list), Runs(k - 1)
      PROVE  Runs(k)
  <2>1. PICK g \in [0..(k - 1) -> Seq(Namespace)] :
               \A n \in 0..(k - 1) : g[n] = SplitStep(list, g, n)
    BY <1>2
  <2> DEFINE h == [n \in 0..k |-> IF n < k THEN g[n] ELSE SplitStep(list, g, k)]
  <2>2. Trim[list[k]] \in Namespace \cup {Blank} /\ g[k - 1] \in Seq(Namespace)
    OBVIOUS
  <2>3. SplitStep(list, g, k) \in Seq(Namespace)
    BY <2>2 DEF SplitStep
  <2>4. h \in [0..k -> Seq(Namespace)]
    BY <2>3
  <2>5. ASSUME NEW n \in 0..k
        PROVE  h[n] = SplitStep(list, h, n)
    <3>1. n # 0 => n - 1 \in 0..(k - 1) /\ h[n - 1] = g[n - 1]
      BY <2>4
    <3>2. SplitStep(list, h, n) = SplitStep(list, g, n)
      BY <3>1 DEF SplitStep
    <3>3. CASE n = k
      BY <3>2, <3>3
    <3>4. CASE n # k
      BY <2>1, <3>2, <3>4
    <3> QED
      BY <3>3, <3>4
  <2> QED
    BY <2>4, <2>5
<1>3. bad = {}
  <2> HIDE DEF Runs
  <2>1. Len(list) \in Nat /\ bad \in SUBSET (0..Len(list)) /\ 0 \notin bad
    BY <1>1
  <2>2. \A k \in 1..Len(list) : k - 1 \in 0..Len(list)
    OBVIOUS
  <2>3. \A k \in 1..Len(list) : k - 1 \notin bad => k \notin bad
    BY <1>2, <2>2
  <2> HIDE DEF bad
  <2> QED
    BY <2>1, <2>3, NoneFails
<1>4. Runs(Len(list))
  <2> HIDE DEF Runs
  <2> QED
    BY <1>3
<1> QED
  BY <1>4

\* SplitCSV leaves the entries that are not blank, without their spaces.
LEMMA SplitExact ==
  ASSUME NEW list \in List
  PROVE  /\ Split(list) \in Seq(Namespace)
         /\ Range(Split(list)) = {Trim[list[i]] : i \in DOMAIN list} \ {Blank}
<1> USE AgentConfigAssumption DEF AgentConfigAssumption, List
<1> DEFINE L == Len(list)
           Def(g) == [n \in 0..L |-> IF n = 0 THEN <<>>
                                     ELSE IF Trim[list[n]] = Blank THEN g[n - 1]
                                     ELSE Append(g[n - 1], Trim[list[n]])]
           f == CHOOSE g : g = Def(g)
           kept(n) == {Trim[list[i]] : i \in 1..n} \ {Blank}
           Right(n) == f[n] \in Seq(Namespace) /\ Range(f[n]) = kept(n)
           bad == {n \in 0..L : ~Right(n)}
<1>1. L \in Nat /\ DOMAIN list = 1..L
  OBVIOUS
<1>2. PICK g \in [0..L -> Seq(Namespace)] : \A n \in 0..L : g[n] = SplitStep(list, g, n)
  BY SplitSteps
<1>3. g = Def(g)
  BY <1>2 DEF SplitStep
<1>4. Split(list) = f[L]
  BY DEF Split
<1>5. f = Def(f)
  <2> HIDE DEF Def
  <2> QED
    BY <1>3
<1> HIDE DEF f
<1>6. Right(0)
  <2>1. f[0] = <<>>
    BY <1>1, <1>5
  <2> QED
    BY <2>1 DEF Range
<1>7. ASSUME NEW n \in 1..L, Right(n - 1)
      PROVE  Right(n)
  <2>1. n \in 0..L /\ n # 0 /\ n - 1 \in 0..L
    BY <1>1
  <2>2. f[n] = IF Trim[list[n]] = Blank THEN f[n - 1] ELSE Append(f[n - 1], Trim[list[n]])
    BY <1>5, <2>1
  <2>3. kept(n) = (kept(n - 1) \cup {Trim[list[n]]}) \ {Blank}
    BY <2>1
  <2>4. Trim[list[n]] \in Namespace \cup {Blank}
    BY <1>1
  <2>5. CASE Trim[list[n]] = Blank
    BY <1>7, <2>2, <2>3, <2>5
  <2>6. CASE Trim[list[n]] # Blank
    <3>1. f[n] = Append(f[n - 1], Trim[list[n]]) /\ Trim[list[n]] \in Namespace
      BY <2>2, <2>4, <2>6
    <3>2. Range(f[n]) = Range(f[n - 1]) \cup {Trim[list[n]]}
      BY <1>7, <3>1, RangeOfAppend
    <3> QED
      BY <1>7, <2>3, <2>6, <3>1, <3>2
  <2> QED
    BY <2>5, <2>6
<1>8. bad = {}
  <2> HIDE DEF Right
  <2>1. bad \in SUBSET (0..L) /\ 0 \notin bad
    BY <1>6
  <2>2. \A k \in 1..L : k - 1 \in 0..L
    BY <1>1
  <2>3. \A k \in 1..L : k - 1 \notin bad => k \notin bad
    BY <1>7, <2>2
  <2> HIDE DEF bad
  <2> QED
    BY <1>1, <2>1, <2>3, NoneFails
<1>9. Right(L)
  <2> HIDE DEF Right
  <2> QED
    BY <1>1, <1>8
<1> QED
  BY <1>1, <1>4, <1>9

-----------------------------------------------------------------------------
(* The layers of a configuration.                                          *)

\* The built-in configuration is one.
LEMMA DefaultTyped == DefaultConfig \in Config
BY AgentConfigAssumption DEF AgentConfigAssumption, DefaultConfig, Config, List

\* Each layer makes a configuration of a configuration.
LEMMA LayersTyped ==
  ASSUME NEW c \in Config
  PROVE  /\ \A f \in GivenBy(BOOLEAN) : WithFile(c, f) \in Config
         /\ \A e \in GivenBy(BOOLEAN \cup {Blank}) : WithEnv(c, e) \in Config
         /\ \A f \in GivenBy(BOOLEAN) : WithFlags(c, f) \in Config
         /\ Normalized(c) \in Config
<1> USE AgentConfigAssumption DEF AgentConfigAssumption, Config
<1>1. ASSUME NEW new \in List \cup {Unset}, NEW old \in List
      PROVE  OrSplit(new, old) \in List /\ Or(new, old) \in List
  <2>1. new # Unset => Split(new) \in Seq(Namespace)
    BY SplitExact
  <2> QED
    BY <2>1 DEF OrSplit, Or, List
<1>2. ASSUME NEW f \in GivenBy(BOOLEAN)
      PROVE  WithFile(c, f) \in Config
  BY <1>1 DEF WithFile, Or, GivenBy
<1>3. ASSUME NEW e \in GivenBy(BOOLEAN \cup {Blank})
      PROVE  WithEnv(c, e) \in Config
  <2>1. OrSplit(e.include, c.include) \in List /\ OrSplit(e.exclude, c.exclude) \in List
    BY <1>1 DEF GivenBy
  <2>2. (IF e.pulls = Blank THEN c.pulls ELSE Or(e.pulls, c.pulls)) \in BOOLEAN
    BY DEF GivenBy, Or
  <2>3. [s \in Setting |-> IF s \in HasEnv /\ e.text[s] # Blank THEN Or(e.text[s], c.text[s])
                           ELSE c.text[s]] \in [Setting -> Text]
    BY DEF GivenBy, Or
  <2> QED
    BY <2>1, <2>2, <2>3 DEF WithEnv
<1>4. ASSUME NEW f \in GivenBy(BOOLEAN)
      PROVE  WithFlags(c, f) \in Config
  <2>1. OrSplit(f.include, c.include) \in List /\ OrSplit(f.exclude, c.exclude) \in List
    BY <1>1 DEF GivenBy
  <2>2. Or(f.pulls, c.pulls) \in BOOLEAN
    BY DEF GivenBy, Or
  <2>3. [s \in Setting |-> IF s \in HasFlag THEN Or(f.text[s], c.text[s]) ELSE c.text[s]]
          \in [Setting -> Text]
    BY DEF GivenBy, Or
  <2> QED
    BY <2>1, <2>2, <2>3 DEF WithFlags
<1>5. Normalized(c) \in Config
  BY DEF Normalized
<1> QED
  BY <1>2, <1>3, <1>4, <1>5

\* What the configuration is after the file, the environment and the flags.
AfterFile == IF given.file = NoFile THEN DefaultConfig
             ELSE Normalized(WithFile(DefaultConfig, given.file))

AfterEnv == WithEnv(AfterFile, given.env)

AfterFlags == Normalized(WithFlags(AfterEnv, given.flags))

\* The sources give what they can give.
LEMMA SourcesTyped ==
  ASSUME given \in Sources
  PROVE  /\ given.file \notin {NoFile, Broken} => given.file \in GivenBy(BOOLEAN)
         /\ given.env \in GivenBy(BOOLEAN \cup {Blank})
         /\ given.flags \in GivenBy(BOOLEAN)
BY SourcesAssumption DEF SourcesAssumption

\* These are configurations.
LEMMA StagesTyped ==
  ASSUME given \in Sources, given.file # Broken
  PROVE  AfterFile \in Config /\ AfterEnv \in Config /\ AfterFlags \in Config
<1>1. AfterFile \in Config
  BY SourcesTyped, DefaultTyped, LayersTyped DEF AfterFile
<1>2. AfterEnv \in Config
  BY <1>1, SourcesTyped, LayersTyped DEF AfterEnv
<1> QED
  BY <1>1, <1>2, SourcesTyped, LayersTyped DEF AfterFlags

\* An agent made of a configuration has its types.
LEMMA AgentTyped ==
  ASSUME NEW c \in Config
  PROVE  /\ AgentOf(c).watch \in Namespace \cup {Everywhere}
         /\ AgentOf(c).handled \subseteq Kind /\ AgentOf(c).awaited \subseteq Kind
         /\ AgentOf(c).asked \subseteq Kind
         /\ AgentOf(c).interval \in [Duration -> Text]
<1> USE AgentConfigAssumption DEF AgentConfigAssumption, Config
<1>1. Watched(c) \in Namespace \cup {Everywhere}
  <2>1. Len(c.include) = 1 => Trim[c.include[1]] \in Namespace \cup {Blank}
    BY DEF List
  <2> QED
    BY <2>1 DEF Watched, Passes
<1>2. [s \in Duration |-> IntervalOf(c, s)] \in [Duration -> Text]
  BY DEF IntervalOf
<1> QED
  BY <1>1, <1>2 DEF AgentOf, Handled, Awaited, AskedByStatus, Informers, Enabled

-----------------------------------------------------------------------------
(***************************************************************************)
(* The inductive invariant: at each stage of main the configuration is     *)
(* what the sources so far make of the defaults, and main got past a file  *)
(* that can be read and durations that parse.                              *)
(***************************************************************************)
StageInv ==
  /\ given \in Sources
  /\ at \in {"defaults", "env", "flags", "durations", "clients", "started", "failed"}
  /\ at = "defaults" => cfg = DefaultConfig
  /\ at = "env" => cfg = AfterFile
  /\ at = "flags" => cfg = AfterEnv
  /\ at \in {"durations", "clients", "started"} => cfg = AfterFlags
  /\ at \notin {"defaults", "failed"} => given.file # Broken
  /\ at \in {"clients", "started"} => GoodDurations
  /\ at = "failed" => cfg \in Config
  /\ agent = IF at = "started" THEN AgentOf(cfg) ELSE NoAgent

\* The types follow from it.
LEMMA StageTyped == StageInv => TypeOK
<1> SUFFICES ASSUME StageInv PROVE TypeOK
  OBVIOUS
<1>1. cfg \in Config
  BY DefaultTyped, StagesTyped DEF StageInv
<1>2. agent.started => agent = AgentOf(cfg)
  BY DEF StageInv, NoAgent
<1> QED
  BY <1>1, <1>2, AgentTyped DEF StageInv, TypeOK

\* The configuration is a function of the sources at every stage.
LEMMA StageInvariant == Spec => []StageInv
<1>1. Init => StageInv
  BY DEF Init, StageInv
<1>2. StageInv /\ [Next]_vars => StageInv'
  <2> SUFFICES ASSUME StageInv, [Next]_vars PROVE StageInv'
    OBVIOUS
  <2> USE DEF StageInv
  <2>0. TypeOK
    BY StageTyped
  <2>1. CASE LoadNoFile
    BY <2>1, SourcesAssumption DEF SourcesAssumption, LoadNoFile, AfterFile
  <2>2. CASE LoadFails
    BY <2>2, <2>0 DEF LoadFails, TypeOK
  <2>3. CASE LoadFile
    BY <2>3 DEF LoadFile, AfterFile
  <2>4. CASE ApplyEnv
    BY <2>4 DEF ApplyEnv, AfterFile, AfterEnv
  <2>5. CASE ApplyFlags
    BY <2>5 DEF ApplyFlags, AfterFile, AfterEnv, AfterFlags
  <2>6. CASE ParseDurations
    BY <2>6 DEF ParseDurations, GoodDurations, AfterFile, AfterEnv, AfterFlags
  <2>7. CASE StartFails
    BY <2>7, <2>0 DEF StartFails, TypeOK
  <2>8. CASE NewController
    BY <2>8 DEF NewController, GoodDurations, AfterFile, AfterEnv, AfterFlags
  <2>9. CASE UNCHANGED vars
    BY <2>9 DEF vars, GoodDurations, AfterFile, AfterEnv, AfterFlags
  <2> QED
    BY <2>1, <2>2, <2>3, <2>4, <2>5, <2>6, <2>7, <2>8, <2>9 DEF Next
<1> QED
  BY <1>1, <1>2, PTL DEF Spec

-----------------------------------------------------------------------------
(* The agent that was started.                                             *)

\* A text of the configuration, layer by layer.
LEMMA TextOfStages ==
  ASSUME given \in Sources, given.file # Broken, NEW s \in Setting
  PROVE  /\ AfterFile.text[s] = IF InFile(s) \in {Unset, Blank} THEN Default[s] ELSE InFile(s)
         /\ AfterEnv.text[s] = IF InEnv(s) \in {Unset, Blank} THEN AfterFile.text[s] ELSE InEnv(s)
         /\ AfterFlags.text[s] = IF InFlags(s) = Unset THEN AfterEnv.text[s]
                                 ELSE IF InFlags(s) = Blank THEN Default[s] ELSE InFlags(s)
<1> USE AgentConfigAssumption, SourcesTyped DEF AgentConfigAssumption
<1>1. AfterFile.text[s] = IF InFile(s) \in {Unset, Blank} THEN Default[s] ELSE InFile(s)
  BY DEF AfterFile, InFile, DefaultConfig, WithFile, Normalized, Or
<1>2. AfterEnv.text[s] = IF InEnv(s) \in {Unset, Blank} THEN AfterFile.text[s] ELSE InEnv(s)
  BY StagesTyped DEF AfterEnv, InEnv, WithEnv, Or, Config
<1>3. AfterEnv.text[s] # Blank
  BY <1>1, <1>2
<1>4. WithFlags(AfterEnv, given.flags).text[s]
        = IF InFlags(s) = Unset THEN AfterEnv.text[s] ELSE InFlags(s)
  BY StagesTyped DEF InFlags, WithFlags, Or, Config
<1>5. WithFlags(AfterEnv, given.flags) \in Config
  BY StagesTyped, LayersTyped
<1>6. AfterFlags.text[s] = IF WithFlags(AfterEnv, given.flags).text[s] = Blank THEN Default[s]
                           ELSE WithFlags(AfterEnv, given.flags).text[s]
  BY <1>5 DEF AfterFlags, Normalized, Config
<1> QED
  BY <1>1, <1>2, <1>3, <1>4, <1>6

\* Whether pull Secrets are followed, layer by layer.
LEMMA PullsOfStages ==
  ASSUME given \in Sources, given.file # Broken
  PROVE  AfterFlags.pulls = IF given.flags.pulls # Unset THEN given.flags.pulls
                            ELSE IF given.env.pulls \notin {Unset, Blank} THEN given.env.pulls
                            ELSE IF given.file = NoFile THEN TRUE ELSE Or(given.file.pulls, TRUE)
<1> USE AgentConfigAssumption, SourcesTyped DEF AgentConfigAssumption
<1>1. AfterFile.pulls = IF given.file = NoFile THEN TRUE ELSE Or(given.file.pulls, TRUE)
  BY DEF AfterFile, DefaultConfig, WithFile, Normalized
<1>2. AfterEnv.pulls = IF given.env.pulls \in {Unset, Blank} THEN AfterFile.pulls
                       ELSE given.env.pulls
  BY StagesTyped DEF AfterEnv, WithEnv, Or, Config
<1>3. WithFlags(AfterEnv, given.flags) \in Config
  BY StagesTyped, LayersTyped
<1>4. AfterFlags.pulls = WithFlags(AfterEnv, given.flags).pulls
  BY <1>3 DEF AfterFlags, Normalized, Config
<1>5. AfterFlags.pulls = Or(given.flags.pulls, AfterEnv.pulls)
  BY <1>4, StagesTyped DEF WithFlags, Config
<1> QED
  BY <1>1, <1>2, <1>5 DEF Or

\* A setting in use comes from the nearest source that gives it.
THEOREM NearestWins == Spec => []NearestSourceWins
<1>1. StageInv => NearestSourceWins
  <2> SUFFICES ASSUME StageInv, agent.started
               PROVE  NearestSourceWins
    BY DEF NearestSourceWins
  <2>1. at = "started" /\ agent = AgentOf(AfterFlags) /\ cfg = AfterFlags
    BY DEF StageInv, NoAgent
  <2>2. given \in Sources /\ given.file # Broken
    BY <2>1 DEF StageInv
  <2>3. agent.pulls = AfterFlags.pulls
    BY <2>1 DEF AgentOf
  <2>4. ASSUME NEW s \in Setting
        PROVE  LET flag == InFlags(s)
                   env == InEnv(s)
                   nearest == IF flag # Unset THEN flag
                              ELSE IF env \notin {Unset, Blank} THEN env ELSE InFile(s)
               IN  cfg.text[s] = IF nearest \in {Unset, Blank} THEN Default[s] ELSE nearest
    BY <2>1, <2>2, TextOfStages
  <2> QED
    BY <2>2, <2>3, <2>4, PullsOfStages DEF NearestSourceWins
<1> QED
  BY <1>1, StageInvariant, PTL

\* The kinds an agent waits for, handles and reports are the enabled ones,
\* and its intervals are durations (New, Status, main's checks).
THEOREM SoundAgent == Spec => []AgentIsSound
<1>1. StageInv => AgentIsSound
  <2> SUFFICES ASSUME StageInv PROVE AgentIsSound
    OBVIOUS
  <2>1. agent.started => at = "started" /\ agent = AgentOf(cfg) /\ GoodDurations
    BY DEF StageInv, NoAgent
  <2>2. KindsAgree
    BY <2>1 DEF KindsAgree, AgentOf, Handled, Awaited, AskedByStatus, Informers, Enabled,
       NeedsDynamicClient
  <2>3. IntervalsMakeSense
    <3>1. agent.started => \A s \in Duration : agent.interval[s] = IntervalOf(cfg, s)
      BY <2>1 DEF AgentOf
    <3> QED
      BY <2>1, <3>1, AgentConfigAssumption
      DEF AgentConfigAssumption, IntervalsMakeSense, IntervalOf, GoodDurations, StageInv
  <2> QED
    BY <2>2, <2>3, StageTyped DEF AgentIsSound
<1> QED
  BY <1>1, StageInvariant, PTL

-----------------------------------------------------------------------------
(* Namespaces.                                                             *)

\* The list of the nearest source, without spaces and blank entries if it is
\* not a file's.
Nearest(flag, env, file, default) ==
  IF flag # Unset THEN Split(flag) ELSE IF env # Unset THEN Split(env) ELSE Or(file, default)

\* What a nearest list holds is what the sources list, and where it is not
\* the default and not empty some source has a list that is not empty.
LEMMA NearestExact ==
  ASSUME NEW flag \in List \cup {Unset}, NEW env \in List \cup {Unset},
         NEW file \in List \cup {Unset}, NEW default \in List
  PROVE  /\ Nearest(flag, env, file, default) \in List
         /\ Listed(flag, env, file, default)
              = Range(Nearest(flag, env, file, default)) \cap Namespace
         /\ \/ Nearest(flag, env, file, default) \in {<<>>, default}
            \/ \E list \in {flag, env, file} : list \notin {Unset, <<>>}
<1> USE AgentConfigAssumption DEF AgentConfigAssumption
<1>1. ASSUME NEW list \in List
      PROVE  /\ Split(list) \in List
             /\ \A n \in Namespace : n \in Range(Split(list))
                                       <=> \E i \in DOMAIN list : Trim[list[i]] = n
             /\ list = <<>> => Split(list) = <<>>
  <2>1. Split(list) \in Seq(Namespace)
    BY SplitExact
  <2>2. Range(Split(list)) = {Trim[list[i]] : i \in DOMAIN list} \ {Blank}
    BY SplitExact
  <2>3. list = <<>> => Split(list) = <<>>
    <3> SUFFICES ASSUME list = <<>>, Split(list) # <<>> PROVE FALSE
      OBVIOUS
    <3>1. Range(Split(list)) = {}
      BY <2>2
    <3>2. 1 \in DOMAIN Split(list)
      BY <2>1
    <3> QED
      BY <3>1, <3>2 DEF Range
  <2> QED
    BY <2>1, <2>2, <2>3 DEF List
<1>2. CASE flag # Unset
  BY <1>1, <1>2 DEF Nearest, Listed
<1>3. CASE flag = Unset /\ env # Unset
  BY <1>1, <1>3 DEF Nearest, Listed
<1>4. CASE flag = Unset /\ env = Unset
  BY <1>4 DEF Nearest, Listed, Or
<1> QED
  BY <1>2, <1>3, <1>4

\* The lists of the configuration: the nearest source's, and the namespaces of
\* the system where nothing would be excluded.
LEMMA ListsOfStages ==
  ASSUME given \in Sources, given.file # Broken
  PROVE  LET include == IF given.file = NoFile THEN Unset ELSE given.file.include
             exclude == Nearest(given.flags.exclude, given.env.exclude, FileExclude, System)
         IN  /\ AfterFlags.include = Nearest(given.flags.include, given.env.include, include, <<>>)
             /\ AfterFlags.exclude = IF exclude = <<>> THEN System ELSE exclude
<1> USE AgentConfigAssumption, SourcesTyped DEF AgentConfigAssumption
<1> DEFINE include == IF given.file = NoFile THEN Unset ELSE given.file.include
           orSystem(list) == IF list = <<>> THEN System ELSE list
<1>1. /\ AfterFile.include = Or(include, <<>>)
      /\ AfterFile.exclude = orSystem(Or(FileExclude, System))
  BY DEF AfterFile, FileExclude, DefaultConfig, WithFile, Normalized, Or
<1>2. /\ AfterEnv.include = OrSplit(given.env.include, AfterFile.include)
      /\ AfterEnv.exclude = OrSplit(given.env.exclude, AfterFile.exclude)
  BY StagesTyped DEF AfterEnv, WithEnv, Config
<1>3. WithFlags(AfterEnv, given.flags) \in Config
  BY StagesTyped, LayersTyped
<1>4. /\ WithFlags(AfterEnv, given.flags).include = OrSplit(given.flags.include, AfterEnv.include)
      /\ WithFlags(AfterEnv, given.flags).exclude = OrSplit(given.flags.exclude, AfterEnv.exclude)
  BY StagesTyped DEF WithFlags, Config
<1>5. /\ AfterFlags.include = OrSplit(given.flags.include, AfterEnv.include)
      /\ AfterFlags.exclude = orSystem(OrSplit(given.flags.exclude, AfterEnv.exclude))
  BY <1>3, <1>4 DEF AfterFlags, Normalized, Config
<1> QED
  BY <1>1, <1>2, <1>5 DEF Nearest, OrSplit

\* Blank entries aside, the filter is about the lists (NewNamespaceFilter).
LEMMA PassesExact ==
  ASSUME NEW c, NEW n \in Namespace
  PROVE  Passes(c, n) <=> /\ Range(c.include) \subseteq {Blank} \/ n \in Range(c.include)
                          /\ n \notin Range(c.exclude)
BY AgentConfigAssumption DEF AgentConfigAssumption, Passes

\* What was written of namespaces is what the graph has and the informers see.
THEOREM NamespacesWritten == Spec => []NamespacesAsWritten
<1> USE AgentConfigAssumption DEF AgentConfigAssumption
<1>1. StageInv => FilterIsAsWritten
  <2> SUFFICES ASSUME StageInv, agent.started, NEW n \in Namespace
               PROVE  /\ Passes(cfg, n) => n \notin ListedToExclude
                      /\ Passes(cfg, n) /\ ListedToInclude # {} => n \in ListedToInclude
                      /\ ListedToExclude # {} /\ n \in ListedToInclude \ ListedToExclude
                           => Passes(cfg, n)
    BY DEF FilterIsAsWritten
  <2> DEFINE include == IF given.file = NoFile THEN Unset ELSE given.file.include
             exclude == Nearest(given.flags.exclude, given.env.exclude, FileExclude, System)
  <2>1. at = "started" /\ cfg = AfterFlags /\ given \in Sources /\ given.file # Broken
    BY DEF StageInv, NoAgent
  <2>2. /\ given.flags.include \in List \cup {Unset} /\ given.env.include \in List \cup {Unset}
        /\ given.flags.exclude \in List \cup {Unset} /\ given.env.exclude \in List \cup {Unset}
        /\ include \in List \cup {Unset} /\ FileExclude \in List \cup {Unset}
    BY <2>1, SourcesTyped DEF GivenBy, FileExclude
  <2>3. <<>> \in List
    BY DEF List
  <2>4. ListedToInclude = Range(cfg.include) \cap Namespace
    <3>1. cfg.include = Nearest(given.flags.include, given.env.include, include, <<>>)
      BY <2>1, ListsOfStages
    <3>2. ListedToInclude = Listed(given.flags.include, given.env.include, include, <<>>)
      BY DEF ListedToInclude
    <3> HIDE DEF include
    <3> QED
      BY <2>2, <2>3, <3>1, <3>2, NearestExact, SMTT(30)
  <2>5. ListedToExclude = Range(exclude) \cap Namespace
    BY <2>2, NearestExact, SMTT(30) DEF ListedToExclude
  <2>6. cfg.exclude = IF exclude = <<>> THEN System ELSE exclude
    BY <2>1, ListsOfStages
  <2>7. exclude = <<>> => Range(exclude) = {}
    BY DEF Range
  <2> HIDE DEF exclude
  <2>8. Passes(cfg, n) => n \notin ListedToExclude
    BY <2>5, <2>6, <2>7, PassesExact
  <2>9. Passes(cfg, n) /\ ListedToInclude # {} => n \in ListedToInclude
    BY <2>4, PassesExact
  <2>10. ASSUME ListedToExclude # {}, n \in ListedToInclude \ ListedToExclude
         PROVE  Passes(cfg, n)
    <3>1. cfg.exclude = exclude
      BY <2>5, <2>6, <2>7, <2>10
    <3>2. n \notin Range(cfg.exclude)
      BY <2>5, <2>10, <3>1
    <3> QED
      BY <2>4, <2>10, <3>2, PassesExact
  <2> QED
    BY <2>8, <2>9, <2>10
<1>2. StageInv => WatchFitsFilter
  <2> SUFFICES ASSUME StageInv, agent.started, NEW n \in Namespace, Passes(cfg, n)
               PROVE  /\ agent.watch \in {n, Everywhere}
                      /\ cfg.include = <<n>> => agent.watch = n
    BY DEF WatchFitsFilter
  <2>1. agent.watch = Watched(cfg) /\ cfg.include \in List
    BY StageTyped DEF StageInv, NoAgent, AgentOf, TypeOK, Config
  <2>2. CASE Len(cfg.include) = 1
    <3>1. cfg.include = <<cfg.include[1]>> /\ Range(cfg.include) = {cfg.include[1]}
      BY <2>1, <2>2 DEF List, Range
    <3>2. cfg.include[1] \in {n, Blank}
      BY <3>1, PassesExact
    <3>3. Trim[cfg.include[1]] = cfg.include[1]
      BY <3>2
    <3>4. cfg.include[1] = Blank => Watched(cfg) = Everywhere
      BY <3>3 DEF Watched, Passes
    <3>5. cfg.include[1] = n => Watched(cfg) = n
      BY <2>2, <3>3 DEF Watched
    <3>6. cfg.include = <<n>> => cfg.include[1] = n
      OBVIOUS
    <3> QED
      BY <2>1, <3>2, <3>4, <3>5, <3>6
  <2>3. CASE Len(cfg.include) # 1
    <3>1. cfg.include # <<n>>
      <4>1. Len(<<n>>) = 1
        OBVIOUS
      <4> QED
        BY <2>3, <4>1
    <3> QED
      BY <2>1, <2>3, <3>1 DEF Watched
  <2> QED
    BY <2>2, <2>3
<1> QED
  BY <1>1, <1>2, StageInvariant, PTL DEF NamespacesAsWritten

=============================================================================
