----------------------------- MODULE MCVirtualIP -----------------------------
(* Small instances of VirtualIP: fake IPs 1 .. n of one family or of two,    *)
(* one real address per host.                                                *)
EXTENDS VirtualIP, TLC

CONSTANTS api, git

Hosts2 == {api, git}

\* The hosts are interchangeable where they have no addresses.
HostSymmetry == Permutations({api, git})

OneFamily == [ip \in FakeIP |-> "v4"]
RealOf == [h \in {api, git} |-> [f \in Family |-> {h}]]
NoAddr == [h \in {api, git} |-> [f \in Family |-> {}]]
OneRange == {{1, 2}}
TwoRanges == {{1, 2}, {2, 3}}
TwoFamilies == [ip \in FakeIP |-> IF ip = 3 THEN "v6" ELSE "v4"]
=============================================================================
