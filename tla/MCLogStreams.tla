---------------------------- MODULE MCLogStreams ----------------------------
(* Model values for LogStreams: three requests, two of them of one user    *)
(* behind a proxy.                                                         *)
EXTENDS LogStreams, TLC

CONSTANTS r1, r2, r3, ip1, ip2

MCRemoteAddr ==
  r1 :> [ip |-> ip1, port |-> 1] @@ r2 :> [ip |-> ip1, port |-> 2] @@ r3 :> [ip |-> ip2, port |-> 3]

\* r1 and r2 come from one browser through a proxy, r3 directly.
MCForwarded == r1 :> ip1 @@ r2 :> ip1 @@ r3 :> NoHeader

=============================================================================
