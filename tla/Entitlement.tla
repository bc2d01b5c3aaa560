----------------------------- MODULE Entitlement -----------------------------
(***************************************************************************)
(* What the secret bindings of pkg/ebpf promise, without the maps that     *)
(* keep the promise: a container redeems a secret only while the bindings  *)
(* entitle it to.  A map operation that fails may leave it a secret it     *)
(* was entitled to, never give it another one, and the next complete sync  *)
(* takes that away too.                                                    *)
(***************************************************************************)
CONSTANTS Cgroup, Secret

VARIABLES
  entitled,    \* pairs the current bindings and snapshot grant
  redeemable,  \* pairs the data plane would rewrite
  leftover,    \* pairs no longer granted that a failed operation may keep
  faulty       \* an operation failed since the last complete sync

vars == <<entitled, redeemable, leftover, faulty>>

Pair == Cgroup \X Secret

Init ==
  /\ entitled = {}
  /\ redeemable = {}
  /\ leftover = {}
  /\ faulty = FALSE

\* Grants and revocations that reach the data plane.
Change ==
  /\ entitled' \in SUBSET Pair
  /\ faulty' = FALSE
  /\ leftover' = {}
  /\ redeemable' \in SUBSET entitled'

\* Grants and revocations while some map operation has failed: what was
\* granted before may stay.
ChangeInPart ==
  /\ entitled' \in SUBSET Pair
  /\ faulty' = TRUE
  /\ leftover' \in SUBSET (leftover \cup entitled)
  /\ redeemable' \in SUBSET (entitled' \cup leftover')

Next == Change \/ ChangeInPart

\* A failure does not outlive the syncs that follow it.
Settles == faulty ~> ~faulty

Spec == Init /\ [][Next]_vars /\ Settles
=============================================================================
