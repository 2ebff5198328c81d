--------------------------- MODULE MCChatSession ---------------------------
\* One user asks two questions, one after the other; the agent of the first may
\* still be running while the second is answered. The run of s1 reports
\* progress on the way, that of s2 only its verdict.
EXTENDS ChatSession

CONSTANTS s1, s2

TwoStreams == {s1, s2}
ProgressOfOne == [s \in TwoStreams |-> IF s = s1 THEN 1 ELSE 0]
============================================================================
