--------------------------- MODULE MCSocketPolicy ---------------------------
(* Hosts api and git behind one address x; secret s is restricted to api,    *)
(* secret t to x, behind which a load balancer may put y.                    *)
EXTENDS SocketPolicy

CONSTANTS api, git, x, y, s, t

Real == [h \in Host |-> x]
Balanced == [z \in Addr |-> IF z = x THEN {x, y} ELSE {z}]
HostOf == [v \in Secret |-> IF v = s THEN api ELSE None]
AddrOf == [v \in Secret |-> IF v = t THEN x ELSE None]
=============================================================================
