---------------------------- MODULE MCHTTPServer ----------------------------
(* An instance of HTTPServer for TLC, with the batches of MCProverService. *)
EXTENDS HTTPServer, MCProverService, TLC

\* One good batch, and one whose roots commit to other balances.
HTTPRequests ==
  {Request(V1, Text(Alice), Text(Alice), b, 1, 1, "canonical") :
     b \in {<<0, 4, 1, 3>>, <<0, 4, 1, 4>>}}

\* The two servers are alike, and so are the keys.
Symmetry == Permutations({v1a, v1b}) \union Permutations({k1, k2})
=============================================================================
