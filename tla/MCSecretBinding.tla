--------------------------- MODULE MCSecretBinding ---------------------------
(* Two pods that may hold one address one after the other.  p1 references    *)
(* s1 alone, p2 the whole of its owner; s1's placeholder may change.         *)
EXTENDS SecretBinding

CONSTANTS p1, p2, c1, c2, a, s1, s2, o1, o2, h1, k1, k2, k3

Containers == [p \in Pod |-> IF p = p1 THEN {c1} ELSE {c2}]
Addresses == [p \in Pod |-> IF p = p1 THEN {{}, {a}} ELSE {{a}}]
All(o) == [owner |-> o, keys |-> AllKeys]
Just(o, s) == [owner |-> o, keys |-> {s}]
References == [p \in Pod |-> IF p = p1 THEN {{Just(o1, s1), All(o2)}} ELSE {{All(o1)}}]
Owners == [s \in Secret |-> o1]
Offers == [s \in Secret |->
  IF s = s1 THEN {[key |-> k1, host |-> h1], [key |-> k2, host |-> h1]}
            ELSE {[key |-> k3, host |-> None]}]
=============================================================================
