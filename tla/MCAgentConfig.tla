--------------------------- MODULE MCAgentConfig ----------------------------
(***************************************************************************)
(* Four settings: the resync interval (all sources), the grace period and  *)
(* the debounce, and the discovery mode (file only); one kind of the core, *)
(* one more, and two custom resources.  File, environment and flags are    *)
(* taken in pairs: texts from all three sources with one list each, lists  *)
(* from all three sources, and kinds.                                      *)
(***************************************************************************)
EXTENDS AgentConfig

CONSTANTS Resync, Debounce, Grace, Mode, Ten, Five, Bad,
          A, B, Sys, SpacedA

Settings   == {Resync, Debounce, Grace, Mode}
Durations  == {Resync, Debounce, Grace}
Intervals  == {Resync, Debounce}
InEnvAndFlags == Intervals
Texts      == {Ten, Five, Bad, Blank, Zero}
Defaults   == [s \in Settings |-> Ten]
Namespaces == {A, B, Sys}
Entries    == {A, B, Sys, SpacedA, Blank}
Trimmed    == [e \in Entries |-> IF e = SpacedA THEN A ELSE e]
SystemNamespaces == <<Sys>>
ValidTexts == {Ten, Five}
CustomResources == {"Certificate", "Connector"}
DefaultKindsOn  == {"Secret", "Pod"}
Kinds      == {"Secret", "Pod", "Certificate", "Connector"}

Says(text, include, exclude, pulls, kinds) ==
  [text |-> text, include |-> include, exclude |-> exclude, pulls |-> pulls, kinds |-> kinds]

NoText  == [s \in Settings |-> Unset]
NoKinds == [k \in Kinds |-> Unset]
Silent  == Says(NoText, Unset, Unset, Unset, NoKinds)

\* What one source may say of the texts.
TextsOf(some, values) ==
  {Says([s \in Settings |-> IF s \in some THEN t[s] ELSE Unset], Unset, Unset, Unset, NoKinds) :
     t \in [some -> values \cup {Unset}]}

\* Lists as a file gives them, and as text that was split at the commas.
Lists == {<<>>, <<A>>, <<SpacedA>>, <<A, B>>, <<Blank, Sys>>, <<Sys>>}
ListsOf(lists) ==
  {Says(NoText, i, e, Unset, NoKinds) : i, e \in lists \cup {Unset}}

KindsOf == {Says(NoText, Unset, Unset, Unset, k) : k \in [Kinds -> BOOLEAN \cup {Unset}]}

Pulls(values) == {[Silent EXCEPT !.pulls = b] : b \in values}

Given(files, envs, flags) == [file : files, env : envs, flags : flags]

SourcesChecked ==
  Given({NoFile} \cup TextsOf({Resync, Mode}, Texts),
        TextsOf({Resync}, Texts), TextsOf({Resync}, Texts))
  \cup Given(TextsOf({Debounce, Grace}, Texts), {Silent}, TextsOf({Debounce}, Texts))
  \cup Given({NoFile} \cup ListsOf(Lists), ListsOf({<<A>>, <<SpacedA, Blank>>}),
             ListsOf({<<>>, <<B>>, <<A, B>>}))
  \cup Given({NoFile, Broken} \cup KindsOf, {Silent}, {Silent})
  \cup Given({NoFile} \cup Pulls({TRUE, FALSE}), Pulls({TRUE, FALSE, Unset, Blank}),
             Pulls({TRUE, FALSE, Unset}))

=============================================================================
