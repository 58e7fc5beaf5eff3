---------------------------- MODULE MCCLIConfig -----------------------------
(***************************************************************************)
(* Two settings with two values, one of them set by the environment, one   *)
(* with a default; two spellings of the namespace and one of nothing; two  *)
(* commands at a time, four in all.                                        *)
(***************************************************************************)
EXTENDS CLIConfig, TLC

CONSTANTS P1, P2, Namespace, Server, A, B

Procs     == {P1, P2}
Keys      == {Namespace, Server}
Values    == {A, B}
Spellings == {"namespace", "ns", "server", "colour"}
Spelled   == [s \in Spellings |->
                CASE s \in {"namespace", "ns"} -> Namespace
                  [] s = "server" -> Server
                  [] OTHER -> None]
NoSettings   == [k \in Keys |-> None]
FlagChoices  == {NoSettings, Namespace :> A @@ Server :> None}
Environment  == Namespace :> None @@ Server :> B
Defaults     == Namespace :> B @@ Server :> None
Symmetric    == Permutations(Procs)

=============================================================================
