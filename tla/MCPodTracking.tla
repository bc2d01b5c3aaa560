--------------------------- MODULE MCPodTracking ---------------------------
(* Small instances of PodTracking: container g1, then g2, of one pod, or of  *)
(* two pods one of which may get the other's netns inode.                    *)
EXTENDS PodTracking

CONSTANTS p1, p2, g1, g2

OnePod == [g \in Cgroup |-> p1]
TwoPods == [g \in Cgroup |-> IF g = g1 THEN p1 ELSE p2]
=============================================================================
