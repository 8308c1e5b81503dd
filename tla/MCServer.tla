------------------------------ MODULE MCServer ------------------------------
(* Model-checking instances of Server: a and b call from one network.      *)
EXTENDS Server

CONSTANTS a, b, net, portA, portB

Hosts == [x \in Conns |-> net]

\* The port of b may be the first number of both addresses.
Ports == [x \in Conns |-> IF x = a THEN {portA} ELSE {portB, net}]

InRegistry(c) == pc[c] \notin {"new", "serving", "failed", "closed"}

\* The two directions of a connection are alike: inbound names the one that ends first.
\* A signal, a shared buffer and failing writes are looked at while ports differ from
\* hosts; a signal when nobody is in the registry, which stands still from then on, as
\* the shutdown does not touch it.
Bounds ==
  /\ \A c \in Conns : <<c, "inbound">> \in copying' => <<c, "outbound">> \in copying'
  /\ sink = "buffered" \/ process' # "up" \/ failed' # {} => KeysDiffer'
  /\ process' # process => snapshot = {} /\ doomed = None /\ \A c \in Conns : ~InRegistry(c)
  /\ process # "up" => UNCHANGED vars

\* A server with nothing left to do is not stuck, nor is one that has exited.
MCNext == (ServerNext /\ Bounds) \/ (process = "exited" /\ UNCHANGED serverVars)
MCSpec == ServerInit /\ [][MCNext]_serverVars /\ ServerFairness
=============================================================================
