------------------------- MODULE MCAgentConversation -------------------------
(* Instances of AgentConversation for TLC.                                  *)
EXTENDS AgentConversation

\* The first turn can be resumed, those after it answer with a text.
MCMaxRounds == [t \in 1..MaxTurns |-> IF t = 1 THEN 2 ELSE 1]
=============================================================================
