--------------------------- MODULE SequenceNumbers ---------------------------
(***************************************************************************)
(* The sequence numbers of a reliable stream.  Every packet of a stream    *)
(* has a number that grows for ever; only its residue travels, in a        *)
(* uint16_t, and the two ends decide from two residues which packet is     *)
(* older.                                                                  *)
(***************************************************************************)
EXTENDS Integers

CONSTANTS SeqMod,    \* how many values a uint16_t holds: 2^16
          SeqWindow  \* the literal 10000 of CompareSequence

ASSUME SeqAssumption == /\ SeqMod \in Nat
                        /\ SeqWindow \in Nat \ {0}
                        /\ 2 * SeqWindow < SeqMod

Residue == 0 .. SeqMod - 1

\* Mutant of Wrap: a counter wider than the header field.
WrapNot(n) == n

\* The uint16_t that carries the number n.
Wrap(n) == n % SeqMod

\* How `actual' lies with respect to `expected', both being residues.
CompareSequence(expected, actual) ==
    LET diff == actual - expected
    IN  IF diff = 0 THEN "Current"
        ELSE IF diff > 0
             THEN IF diff > SeqWindow THEN "Past" ELSE "Future"
             ELSE IF diff < -SeqWindow THEN "Future" ELSE "Past"

\* What CompareSequence is meant to answer, on the unwrapped numbers.
TrueOrder(expected, actual) ==
    IF actual = expected THEN "Current"
    ELSE IF actual > expected THEN "Future" ELSE "Past"

\* Two numbers close enough for their residues to be compared.
Near(m, n) == m - n \in -SeqWindow .. SeqWindow
==============================================================================
