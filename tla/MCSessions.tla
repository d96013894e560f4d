---------------------------- MODULE MCSessions ----------------------------
(* Small instances of Sessions: all the clients behind one address.         *)
EXTENDS Sessions, TLC

CONSTANTS c1, c2, v1, h1, p1, p2

OneHost == [c \in Clients |-> h1]

\* The passwords are interchangeable, and so are the controllers.
Symmetry == {q @@ r : q \in Permutations(Passwords), r \in Permutations(Controllers)}
=============================================================================
