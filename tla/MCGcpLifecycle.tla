--------------------------- MODULE MCGcpLifecycle ---------------------------
EXTENDS GcpLifecycle, TLC

(* Two rows in the file and one that a user adds; the application in both its stacks; *)
(* two passwords, which are alike.                                                        *)
File == {1, 2}
Users == {3}
Both == {<<"nonkube", "kube">>}
AnyPassword == Permutations(Passwords)
=============================================================================
