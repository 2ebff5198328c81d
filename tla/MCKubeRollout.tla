---------------------------- MODULE MCKubeRollout ----------------------------
\* Two tools, one after the other.
EXTENDS KubeRollout
============================================================================
