---------------------------- MODULE MCQueryAgent ----------------------------
\* The loop of one request, with every plan of up to two calls and one in which
\* rows of a search leave generated SQL unrun.
EXTENDS QueryAgent

CONSTANT r1

OneRequest == {r1}

PlansUpTo(n) == UNION {[1..k -> Tools] : k \in 0..n}
MixedPlans == PlansUpTo(2) \union {<<"generate_sql", "semantic_search", "execute_sql">>}
=============================================================================
