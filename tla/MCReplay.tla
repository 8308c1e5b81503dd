------------------------------ MODULE MCReplay ------------------------------
(* Model-checking instances of Replay; the bounds are in the .cfg files.   *)
EXTENDS Replay

X == <<"x">>

P(body, from, to) == [body |-> body, from |-> from, to |-> to]

\* Data that resembles a magic header, and data too long for the scanner's buffer,
\* between "a" and "b"; "c" calls "a" too.
Odd == {
  P(<<T, Prefix>>, "b", "a"), P(<<Prefix, NL>>, "c", "a"), P(MagicHeader, "a", "b"),
  P(<<X, X, X, X, X, X>>, "a", "b")}

\* Data with a line that begins with a "t".
Lines == Odd \cup {P(<<X, NL, T>>, "b", "a")}

\* Records written within some 15 ns; a millisecond has 10 of them.
Times == [i \in 1 .. MaxPackets |-> CASE i = 1 -> 60 [] i = 2 -> 61 [] OTHER -> 75]

MCSpec == Init /\ [][Next \/ (pass \in {"done", "panic"} /\ UNCHANGED vars)]_vars /\ WF_vars(Next)
=============================================================================
