------------------------- MODULE MCCharacterHandoff -------------------------
EXTENDS CharacterHandoff, TLC

Symmetric == Permutations(Zones)

\* What happens while the links are prompt, and does not have to while they are slow:
\* the properties that hold on slow links do not look at it.
WhenPrompt == [p \in BOOLEAN |-> IF p THEN 1 ELSE 0]
OneMessage == [p \in BOOLEAN |-> 1]
Refusals == [p \in BOOLEAN |-> p]
=============================================================================
