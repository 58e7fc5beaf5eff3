-------------------------- MODULE MCAgentLifecycle --------------------------
(***************************************************************************)
(* One watched kind, whose content does not matter to main, and at most    *)
(* two requests at a time.                                                 *)
(***************************************************************************)
EXTENDS AgentLifecycle

CONSTANT Secret

Kinds   == {Secret}
Order   == <<Secret>>
OneItem == [r \in Resource |-> 1]
NoKinds == {}

=============================================================================
