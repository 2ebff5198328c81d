------------------------------- MODULE MCDbPool -------------------------------
\* The start-up thread and two request threads, a pool of one place, and a
\* second pool that some of them make when they find none. A query that falls
\* back to the simple search stands for the plain routes.
EXTENDS DbPool, TLC

CONSTANTS h1, h2, start, p1, p2

TwoHandlers == {h1, h2}
TwoPools == {p1, p2}
RoutesOfTwo == [h \in TwoHandlers |->
    IF h = h1 THEN {"stream"} ELSE {"catalog", "health", "version", "query"}]
AnyPool == Permutations(TwoPools)
===============================================================================
