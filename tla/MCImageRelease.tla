--------------------------- MODULE MCImageRelease ---------------------------
EXTENDS ImageRelease

(* One commit, whose tree changes twice; two deploys after nothing or all was deployed. *)
Commits == {0}
=============================================================================
