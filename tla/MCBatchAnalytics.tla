--------------------------- MODULE MCBatchAnalytics ---------------------------
\* The nonkube job run by the local scheduler and the kube job overlap. The
\* records are edited down to none and up to more than there were.
EXTENDS BatchAnalytics

CONSTANTS nonkube, kube

TwoJobs == {nonkube, kube}
LocalJob == {nonkube}
EmptiedThenMore == [v \in 0..2 |-> CASE v = 0 -> 1 [] v = 1 -> 0 [] v = 2 -> 2]
=============================================================================
