---------------------------- MODULE MCRawDataSync ----------------------------
\* Serial: one handler, so requests run one after the other, on two records
\* with two profiles and batches of one row. Concurrent: two handlers work on
\* the same record, which may change.
EXTENDS RawDataSync

CONSTANTS h1, h2, i1, i2, u, v, zero, unknown, openai, skylark

OneHandler == {h1}
TwoHandlers == {h1, h2}
OneId == {i1}
TwoIds == {i1, i2}
TwoTexts == {u, v}
TwoFields == {zero, unknown}
TwoVals == {[text |-> u, field |-> zero], [text |-> v, field |-> unknown]}
OneProfile == {openai}
TwoProfiles == {openai, skylark}
=============================================================================
