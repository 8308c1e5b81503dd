------------------------------ MODULE MCMirror ------------------------------
(* Model-checking instance of Mirror: two connections to port 80, the answers on *)
(* one of them, and traffic between other ports.                             *)
EXTENDS Mirror

MCFlows == {"a", "b", "answer", "other"}
MCSrcPort == [f \in MCFlows |-> CASE f = "a" -> 1001 [] f = "b" -> 1002 [] f = "answer" -> 80 [] f = "other" -> 81]
MCDstPort == [f \in MCFlows |-> CASE f \in {"a", "b"} -> 80 [] OTHER -> 1001]

MCPackets ==
  {Chunk("a", i) : i \in 0 .. 2} \cup {Chunk("b", 1), Chunk("answer", 1), Chunk("other", 1)}

MCSpec == Init /\ [][Next \/ (pc = "returned" /\ UNCHANGED vars)]_vars /\ Fairness
=============================================================================
