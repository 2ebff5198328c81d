--------------------------- MODULE MCCommandRetry ---------------------------
\* Two rules, the second of which allows no rerun; a pattern that must stop
\* the command and one that says the credentials or the clock are wrong.
EXTENDS CommandRetry

CONSTANTS busy, unready, denied, expired

TwoRules == <<busy, unready>>
TwoBudgets == [p \in {busy, unready} |-> IF p = busy THEN 2 ELSE 0]
=============================================================================
