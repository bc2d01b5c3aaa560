----------------------------- MODULE MCTlsPatch -----------------------------
(* Small instances of TlsPatch: connections c1 (TLS 1.3) and c2 (TLS 1.2),   *)
(* secret k allowed on both, secret j on c1 only.                            *)
EXTENDS TlsPatch

CONSTANTS c1, c2, k, j

Secrets2 == {k, j}
BothConns == {c1, c2}
AllowedOn == [s \in {k, j} |-> IF s = k THEN Conn ELSE Conn \cap {c1}]
Versions == [c \in Conn |-> IF c = c1 THEN "1.3" ELSE "1.2"]

\* No memory BIO, or one on c1.
SocketBios == [c \in Conn |-> FALSE]
MixedBios == [c \in Conn |-> c = c1]

AllTls12 == [c \in Conn |-> "1.2"]

Plain  == [len |-> 2, secrets |-> {}]
One    == [len |-> 2, secrets |-> {[off |-> 0, secret |-> k]}]
Narrow == [len |-> 1, secrets |-> {[off |-> 0, secret |-> j]}]
Two    == [len |-> 3, secrets |-> {[off |-> 0, secret |-> k], [off |-> 2, secret |-> j]}]
\* Two records, three placeholders in the first.
Long   == [len |-> 5, secrets |-> {[off |-> 0, secret |-> k], [off |-> 1, secret |-> j],
                                   [off |-> 3, secret |-> k]}]

JustNarrow == {Narrow}
AnyPayload == {Plain, One, Two}
PlainTwoOrLong == {Plain, Two, Long}
=============================================================================
