# A TLA+ model of kloak

kloak keeps real secrets out of application processes. Pods see *placeholders*
(shadow values); eBPF programs replace them in the encrypted stream just before
a packet leaves the pod, provided the secret is bound to the pod and may go to
that destination. This directory holds TLA+ models of the parts of that
mechanism where the order of steps matters, the TLC configurations that check
them on small instances, and TLAPS proofs of the most important properties for
every instance.

Source paths are relative to the repository root. `PROJECT.json` maps every
definition that models code to its source lines.

## 1. The system

### Components

| Component | Source | State it keeps | Operations | Modelled in |
|---|---|---|---|---|
| Virtual IP planner | `pkg/ebpf/virtual_ip.go` | none (a pure function of the reservations, the watched hosts, the clock) | `planVirtualIPRanges`, `planVirtualIPs`, `evictOldestRetired`, `freeVirtualIP` | `VirtualIPPlan` |
| Virtual IP allocator | `pkg/ebpf/virtual_ip_linux.go` | pinned maps `vip_ip_host`, `vip_host_ip`, `vip_upstream`, `vip_config` | `sync`, `pruneUpstreams`, pin preparation, stop, restart | `VirtualIP` |
| DNS rewrite, connect redirect | `pkg/ebpf/bpf/tls_uprobe.c`, `helpers.h` | `vip_upstream`, `vip_sock_host`, `vip_sock_dst`, `vip_sock` | `tc_dns_rewrite`, `vip_connect4/6`, close tracepoint | `VirtualIP` |
| TLS patch pipeline | `pkg/ebpf/bpf/tls_uprobe.c`, `helpers.h` | `xor_pending`, `tc_pending`, `tc_tag_pending` | write uprobes, `bpf_xor_path`, `socket_filter_patches`, kprobe on `tcp_sendmsg`, `tc_egress_patch`, `tc_ghash_update` | `TlsPatch` |
| H extraction | `tls_uprobe.c` | `evp_h_cache`, `tls_conn_state`, `h_power_entries` | cipher-init hooks, `bpf_h_extract`, the kprobe's walk, the read at egress | `HKey`; an outcome in `TlsPatch` |
| SNI capture, socket policy, connect tracking | `tls_uprobe.c`, `helpers.h`, `pkg/ebpf/sni_check.go` | `sni_state`, `vip_sock_host`, `vip_sock_dst`, `conn_ip_map` | connect hooks, connect and close tracepoints, ClientHello kprobe, `socket_filter_patches` | `SocketPolicy`; its verdict in `TlsPatch` |
| Secret sync, pod bindings | `pkg/ebpf/sync.go`, `secret_binding.go`, `uprobe.go` | `secret_map`, `secret_acl`, `vip_pod_host`, `lastSnapshot`, `bindings` | `SyncSecrets`, `applySecrets`, `syncSecretACL`, `BindPod*`, `UnbindPod` | `SecretBinding`, against `Entitlement` |
| Secret sync controller | `pkg/controller/secret_sync.go` | work queue | `Reconcile` with retries and resync | what starts a sync in `SecretBinding` and `VirtualIP`, and their fairness |
| Uprobe and tc attachment | `pkg/ebpf/uprobe.go`, `tc_attach.go` | `tcAttached`, `cgroupToNetns`, `cgroupPaths`, uprobe links | `AttachTLS`, `attachTCEgress`, `UntrackExitedCgroup`, `ReleaseCgroupNetns` | `TcAttach` |
| Pod reconciler, NRI, exec events | `pkg/controller/reconciler.go`, `nri.go`, `uprobe.go` | `trackedPods`, `podKeyToUID`, `startedCgroups`, `exitedCgroups` | `Reconcile`, `PrepareSandbox`, `PrepareContainer`, `handleDelete`, `PollExecEvents` | `PodTracking`, on top of `TcAttach` |
| Secret reconciler, shadows | `pkg/controller/secret_reconciler.go`, `pkg/secrets/shadow.go` | shadow Secrets | `Reconcile`, `Generate` | not modelled |
| Trusted DNS servers | `pkg/controller/trusted_dns.go` | trusted-resolver map | watch of kube-dns | not modelled |
| Webhook, certificates | `pkg/webhook/` | certificate Secret, CA bundle | pod mutation; a certificate bootstrap nothing in `cmd/kloak` calls | not modelled |
| GF(2^128), offsets, secret sources, cgroups, command line | `gf128.go`, `*_offsets.go`, `pkg/secrets/`, `pkg/cgroups/`, `cmd/kloak/` | none of their own | parsing, tables, arithmetic, wiring | not modelled |

### How they interact

* The secret sync controller calls `SyncSecrets`: it writes `secret_map`, hands
  the watched hosts to `virtualIPAllocator.sync`, then takes `bindMu` and writes
  `secret_acl` and `vip_pod_host`.
* The allocator and the data plane share the pinned maps, one system call at a
  time and with no lock between them. A DNS answer for a watched host is
  rewritten to the host's fake IP and its real addresses are recorded in
  `vip_upstream`; a connect to the fake IP is redirected to one of them, and the
  host is recorded for the socket.
* A write of the application stages patches in `xor_pending` (by process); the
  kprobe on `tcp_sendmsg` filters them by what is recorded for the socket and
  moves them to `tc_pending` (by connection); `tc_egress_patch` applies them to
  the segment that carries the record; `tc_ghash_update` corrects the tag at
  once, or through `tc_tag_pending` when the tag is in a later segment.
* The correction of a tag needs H, the GHASH key of the connection, which the
  cipher-init hooks cache by cipher context and the write or the kprobe stores by
  SSL object in `tls_conn_state`; `copy_h_power_step` looks it up when the record
  leaves and computes its powers in a per-CPU array.
* The pod reconciler, the container runtime's NRI calls with the goroutines they
  leave behind, and the exec events attach uprobes and the tc program and bind
  containers to secrets, at the same time and for the same containers.

### What is hard, and what correct means

* **Virtual IPs.** Several maps are written one operation at a time, each may
  fail, the controller may stop in between, and data-plane programs run at any
  point. Correct: an address handed out is reserved for its host; a fake IP
  never leads to another host's addresses; a socket's recorded host is the one
  it reached; reservations survive as long as applications may cache them; and
  retries converge.
* **TLS patching.** Three hand-offs between four programs are keyed by process,
  by connection and by sequence number, while threads interleave, writes are
  pipelined, libraries buffer records, TCP cuts and resends segments. Correct: a
  secret leaves only where it may; a patched record still decrypts; every
  placeholder that should be replaced is.
* **What the data plane remembers of a socket or a key.** It is keyed by things
  the kernel and the allocator reuse: `struct sock` addresses, descriptors, SSL
  objects, cipher contexts. Correct: what is found is about the connection it is
  used for.
* **Bindings.** `secret_map` is written outside the lock the grants are computed
  under, grants and revocations are incremental, each operation may fail.
  Correct: the maps hold exactly what the bindings grant, a failure leaves at
  most what was granted before, and later syncs repair it.
* **Attachment and pod tracking.** Several actors attach the same netns and track
  the same containers while these start, exit and end, and inodes are reused.
  Correct: one program per pod, nothing left of a pod that ended, and every
  container that keeps running is served.

The hazards at their source lines are listed in `PROJECT.json`.

## 2. Modules

| Module | Models |
|---|---|
| `VirtualIPPlan` | the plan as a relation between reservations before and after |
| `VirtualIP` | sync step by step, stops, restarts and upgrades, DNS answers, connects; extends `VirtualIPPlan` |
| `VirtualIPProofs` | theorems about `VirtualIP`: what is resolvable, where a fake IP leads |
| `VirtualIPSyncProofs` | theorems about `VirtualIP`: what a sync takes away and what it repairs; extends `VirtualIPProofs` |
| `TlsPatch` | one process's TLS stream from write to packet |
| `TlsPatchProofs` | the policy theorem of `TlsPatch`, and theorems about the stream of connections without a memory BIO |
| `TlsRecordProofs` | theorems about the records the peer reads: they decrypt, and the first `XOR_MAX_MATCHES` placeholders of a write are replaced; extends `TlsPatchProofs` |
| `SocketPolicy` | what is recorded about sockets, and the decision which secrets may leave on one |
| `HKey` | where the H of a tag correction comes from |
| `SocketPolicyProofs`, `HKeyProofs` | theorems about these two |
| `Entitlement` | abstract: who may redeem which secret, with and without failures |
| `SecretBinding` | secret syncs, bindings and their maps; implements `Entitlement` |
| `SecretBindingProofs` | theorems about `SecretBinding`, the refinement among them |
| `TcAttach` | attaching uprobes and the tc program of a netns from several threads |
| `PodTracking` | pods and containers of a node, the reconciler, NRI calls, exec events; extends `TcAttach` |
| `PodTrackingProofs` | theorems about `PodTracking` and, through it, `TcAttach` |
| `MCVirtualIP`, `MCTlsPatch`, `MCSocketPolicy`, `MCHKey`, `MCSecretBinding`, `MCPodTracking` | the instances for TLC |

### VirtualIPPlan and VirtualIP

`planVirtualIPs` allocates hosts in sorted order from a hash-named slot. The
hash is arbitrary, so `PlanOK` leaves open which free address a new host gets,
which hosts go without when the map is full, and which of equally old retired
reservations is evicted; everything else (kept, reactivated, duplicated and
retired reservations, the retention, the shares of the families) is the code's.

One step of `VirtualIP` is one map operation of `sync`. `pc` is the loop it is in
(drop, release, prune, write, publish, unpublish), `todo` what is left of the
loop (Go iterates over a map, so in any order), `existing`, `current`,
`entries`, `want` and `dropped` are its locals. An operation of a phase in
`MayFail` may fail, and the step then does what the error branch does. `Stop` may
happen between any two operations and loses what is not pinned; `Restart` may
bring another range, and drops pins of `LostMaps`. A data-plane program is one
action per map access (`DnsLookup`, `DnsRead`, `DnsRecord`, `ConnectLookup`,
`ConnectRedirect`, ...). `Overlap` says whether a system call may fall between
two accesses of one program.

Simplifications: a real address stands for a DNS record and its expiry is left
open (`vip_upstream_record` may replace any address when the slots are full);
whether the pod is bound to the host (`vip_pod_host`) is left open; a connect
keeps the host it looked up at its start.

### TlsPatch

The unit of length stands for bytes: `HdrLen`, `NonceLen`, `TypeLen` and
`TagLen` for 5, 8, 1 and 16, a placeholder is one unit. Only the differences
between these lengths matter to the matching by length, and the instances keep
them distinct where the real ones are. The application (`SslWrite`, `Handshake`),
its library (`Emit`, `Flush`) and the kernel (`TcpSendmsg`, `Segment`,
`Deliver`) are external and drive the programs: the uprobe is part of
`SslWrite`, the kprobe is `Bridge`, tc egress is `EgressTag`, `EgressPass` and
`EgressPatch`. `patched` and `fixed` record what the peer received, and a tag
correction carries the positions it was computed for, so that decryption is a
comparison of sets instead of arithmetic in GF(2^128). A record `holds` the
placeholders the application wrote into it, all of them, each with its number in the
write; `staged` are those the uprobe found, which stops at `XOR_MAX_MATCHES`. The
kernel may evict an entry of `tc_pending` or `tc_tag_pending` (`Evict`) where
`Evicts`.

Simplifications: ciphertext is never mistaken for a record header; a connection
has its own SSL object and its own `tc_dest_key` as long as it exists; a lost
segment is sent again, possibly cut otherwise, before any later one; `Bound` and `Allowed` stand for `secret_acl` (`SecretBinding`) and
the verdict of `socket_filter_patches` (`SocketPolicy`; in audit mode they are
larger); reading H (`HKey`) succeeds once the keys exist, or may also fail when
`HMayFail`.

### SocketPolicy

A socket is a record in a *slot*, which stands for its `struct sock` address and
its descriptor, both reused; its cookie is its own. Besides its state it carries
what really happened on its current connection (the fake IP it was made
through, its destination, the handshake records written on it), which the
properties compare the maps with. A connect is the hook's verdict with what it
records, then SYN_SENT, or no route and no state change at all (`Unrouted`, which
leaves the records behind: `stale`); then the connection is established or fails,
and, apart from that, `connect()` returns (`ConnectReturns`), so that another thread
may close the descriptor in between. A connected socket may be dissolved and
connected again (`Disconnect`). The connect hooks, `tp_exit_connect`,
`tp_enter_close`, `tp_inet_sock_set_state` and the ClientHello kprobe are part of
the kernel operation they run in; `Keep` is `socket_filter_patches`. Entries of
LRU maps may go at any time; the connect hooks go away before the probes do
(`DetachHooks`) and come back with empty maps (`Restart`), up to `MaxStops` times. The parser of the ClientHello is its outcome: a host, encrypted SNI,
or something else.

### HKey

A key stands for the H it determines. `SslOpen`, `Rekey`, `OtherCipher` and
`SslFree` are the library's, with the uretprobe of `EVP_CipherInit` as
`CipherInitReturns`; a write goes through `bpf_h_extract` (`WriteExtracted`) once
the process is routed there, through the kprobe's walk (`WriteWalked`) before.
The kernel may evict an entry of `evp_h_cache` or `tls_conn_state`. At egress a CPU
computes the powers of the H that `tls_conn_state` holds; without an entry it goes on
with the powers it has, those of the record before, or none (`Egress`), and when the
entry goes between two steps of `copy_h_power_step`, with some of each
(`EgressTorn`, 0 in `powers`). `left` keeps the patched record that left last with the
key that encrypted it and the H its tag was corrected by. `overtaken`, `misread` and
`evicted` are history: they mark the three cases in which the code can use another
key's H.

### Entitlement and SecretBinding

`Entitlement` has no maps: pairs of a container and a secret are *entitled*,
*redeemable*, or *left over* from a failed operation. `SecretBinding` has the
maps. One step is one operation on `secret_map`, or one section under `bindMu`
with any subset of its operations failing, which is sound because a section
writes each key of `secret_acl` and `vip_pod_host` at most once and the data
plane reads single keys. `Promise` maps the state: entitled is what the bindings
grant over `lastSnapshot`, redeemable what `secret_acl` and `secret_map` together
let through.

### TcAttach and PodTracking

`TcAttach` has the containers, the netns inodes and what `TLSUprobeManager`
records. An attach is three steps: the uprobes with the reservation of the inode
(`AttachBegin`), opening the netns (`AttachOpen`), which needs a live process and keeps
the netns from going away, and the outcome of attaching the program
(`AttachSucceeds`, which may come after the process is gone and after its
reservation was released, so that the `CompareAndSwap` is lost; `AttachFails`). Any
thread may be between two of them. `PodTracking` adds the node
(pods, container starts and exits, statuses that come late) and the actors:
`Reconcile` is split where it releases its lock (`ReconcileStart`,
`ReconcileBind`, one `ReconcileAttach` and `ReconcileAttached` per container,
`ReconcileEnd`), `PrepareContainer` likewise, with its goroutine as a thread of
its own; `PollExec` and `RetryExec` are the exec events. A container either has a
TLS library in its file system or runs a script that runs a program with its
own, which only the exec event or the reconciler can find.

Left out: pods deleted by force or disabled while containers run, pods recreated
under their name before the deletion is reconciled (section 3.4), host network
pods, exec events lost to a full ring buffer.

## 3. Runs

### 3.1 Virtual IPs

Two hosts compete for two or three fake IPs and a map of one or two entries, so
that eviction, hand-over and hosts without an address all happen. Retention is
one unit of a clock that reaches at most two: before, at and after its end.
One stop is enough to interrupt a sync anywhere and resume from what it left;
`faults` has two, so that a range can change and change back around a release
that fails, and takes the hosts to be interchangeable (`HostSymmetry`; it checks
no liveness). One CPU and one socket suffice because programs share state only through the
maps.

| Run | Instance | Shows |
|---|---|---|
| `sync` | capacity 1, data plane, one stop, failed writes and unpublishes, any of the three pinned maps lost at the restart | `TypeOK`, `UpstreamOfHost`, `SocketReachesHost`, `CleanSyncAgrees`, `ReservedUntilReleased` |
| `faults` | failures in every phase but drop, two families, a range that drops an IPv4 address and adds IPv6, and may change back, two stops | `Resolvable`, `CleanSyncAgrees`, `ReservedUntilReleased`, `WatchedKeepsIP` |
| `converges` | failed reads and writes, one stop, fair retries | `Converges` |

The runs without sockets or CPUs leave the data plane out because the properties
they check are about the reservations, which the data plane does not write.
`sync` takes `Overlap` to be false and excludes failed deletes in `vip_upstream`,
which section 3.4 is about.

`FairSpec` assumes weak fairness of the steps of a sync and of a restart, and
strong fairness of starting a sync and of a *successful* operation.
`SecretSyncReconciler.Reconcile` (`secret_sync.go:44-53`) returns the error of a
failed sync, which the work queue retries with backoff, and requeues after
`DefaultSecretResyncPeriod` otherwise; the controller is a DaemonSet and is
restarted; a map operation retried again and again is assumed not to fail
forever. `Converges` is checked where every host has room and an address.

### 3.2 TLS patching

| Run | Instance | Shows |
|---|---|---|
| `patch` | one thread, socket BIO, request by request, TLS 1.2, writes of one and two records, one with more placeholders than `XOR_MAX_MATCHES`, cuts after the placeholders, two losses of whole records | `TypeOK`, `RecordsValid`, `Replaced`, `TagAhead` |
| `segments` | TLS 1.2 and 1.3, version unknown to the probes, cuts anywhere but inside a tag | `RecordsValid`, `TagAhead` |
| `policy` | two threads, a memory BIO on one connection and a socket on the other, lazy handshakes, pipelined writes, H failing, secrets deleted, one loss, evictions, cuts anywhere | `SecretOnlyWhereAllowed` |
| `sockets` | two sockets one after the other in one slot, each connected any number of times, two hosts behind one address, a load balancer, connects without a route, two stops | `TypeOK`, `KeptForHost`, `KeptForAddr`, `ServersSkipped` |
| `keys` | three connections and three keys over two SSL objects and two cipher contexts, one CPU, evictions | `TypeOK`, `CacheFresh`, `TagOfOwnKey` |

Two connections and two secrets, one allowed on both and one on a single
connection, are enough for any mix-up between two writes; two or three writes
let an entry outlive its own write. Records of at most four units of plaintext are
cut at every position. One slot suffices in `sockets` because every map is keyed
by the slot or by the cookie: sockets in different slots share nothing. Two
sockets let an entry outlive its socket and be met by the next; connects are not
counted, so a socket meets what any number of its earlier ones left; and two stops
put a restart with empty maps between two spans without hooks. In `keys` two
objects and two contexts let an address be reused while the other is in use, three
keys let one of two connections be rekeyed or a third one be opened, and one CPU is
the case in which powers of another record are found most easily; the addresses are
interchangeable, hence the symmetry. `CHECK_DEADLOCK` is off
where the bounds on writes, sockets or keys end the behaviour.

`patch` and `segments` describe the conditions under which patching is right:
application records have lengths that differ from the Finished record's, and no
segment ends, none is lost and nothing is evicted, where section 3.4 shows it to
matter. `policy` has no such restriction.

### 3.3 Bindings, attachment and pod tracking

| Run | Instance | Shows |
|---|---|---|
| `binding` | two pods that may hold one address, one with a reference to a data key and one to the whole Secret, a placeholder that changes, one change of the source, one section or operation that fails | `TypeOK`, `BindingsExact`, `SecretsExact`, `KeepsPromise`, `FaultsSettle`, `Heals` |
| `tracking` | two pods of one container, one after the other on one inode, one attach that fails, attaches that end after their process and their reservation are gone | `TypeOK`, `OneProgram`, `DedupSound`, `NothingLeft` |
| `served` | one pod of two containers, both with a TLS library | `OneProgram`, `RunningKept`, `Served` |

Two pods with a shared address are the smallest instance in which a revocation
may take what another pod holds, and one failed section is followed by any
sequence of good ones. In `tracking` one inode forces the second pod onto what
the first left behind; in `served` the second container meets the placeholder,
the binding and the netns record of the first; the container without a TLS
library is in `tracking`. Bindings, syncs and reconciles change and repeat without
bound; a pod's references are fixed, as its specification is.

`FairSpec` of `SecretBinding` is weak fairness of the sync worker: an event, the
backoff after an error and the resync period start the next sync
(`secret_sync.go:44-55`), and a sync takes no lock it could wait on forever.
`MaxFaults` bounds the failures, so that `Heals` says what happens after the last
one. `FairSpec` of `PodTracking` has weak fairness of each step of a reconcile
under way and of `Background`: attaches and what follows them (sequences of system
calls that end), the exec poller and its timers, the goroutines of
`PrepareContainer` and the kubelet's reports, together. A step of any of them stays
enabled until it is taken, so the one condition is weaker than one for each, and
cheaper to check. It also has strong fairness of starting the reconcile
of a queued pod, because the work queue is first in, first out, so that other
pods cannot keep one from its turn. Nothing is assumed of containers: they may
start, exit or stay as they are.

### 3.4 Where the code and its comments disagree, and where the properties stop

The run `unpatched` checks what a comment says and finds it violated: `Patched`
does not hold. `attachTCEgress` returns an error for an attach already in progress
"so the caller retries" (`uprobe.go:614-617`), but `attachTLS` logs it and succeeds
(`uprobe.go:1324`). When the attach in progress then fails, because its container
exited, nothing attaches the program while the other container runs. `PROJECT.json`
quotes the lines.

The same modules show the following when a run is changed as described; they
explain the conditions of the passing runs, the exceptions the properties name,
and the assumptions of the theorems.

| Change | Property lost | What happens |
|---|---|---|
| `sync` with `Overlap = TRUE` | `UpstreamOfHost` | a DNS program that looked a fake IP up before a sync handed it over stores the old host's addresses after the prune (`tls_uprobe.c:3598`; the comment at 511-512 has userspace delete them) |
| `sync` with `"prune"` in `MayFail` | `UpstreamOfHost` | a failed delete in `vip_upstream` is not repaired by the retry, which compares against the reservation already rewritten (`virtual_ip_linux.go:641`; 485-487 says "a retry fixes it") |
| `faults` with `"drop"` in `MayFail` | `Resolvable` | after a failed delete in `vip_host_ip` the reservation is released all the same |
| `faults` without `NoLeftover` in `WatchedKeepsIP` | `WatchedKeepsIP` | a release that failed when the range left an address leaves the host two active reservations; when the range comes back, the plan keeps the lowest (`virtual_ip.go:391`), not the published one, and the host loses the address applications have cached |
| `segments` with two threads | `RecordsValid` | the `tcp_sendmsg` of one thread takes the patches another one staged: `xor_pending`, called per-thread where it is declared (`tls_uprobe.c:692`), is keyed by process, and the first kprobe hit is not "the correct one" (2624-2625) |
| `patch` with `Pipelined = TRUE`, `Cuts = "records"` | `Replaced` | a second write replaces the `tc_pending` entry of the first (`tls_uprobe.c:2618`; the comment at 1141-1143 says `tcp_seq` in the key prevents it, the key at 1045-1050 has none) |
| `patch` without `h.nth < MaxMatches` in `Replaced` | `Replaced` | the scan of a write stops at `XOR_MAX_MATCHES`: a later placeholder is sent as it is |
| `patch` with `Evicts = TRUE` | `Replaced` | the entry of a write goes from `tc_pending`, an LRU map all connections share, before its segment leaves |
| `segments` with `Evicts = TRUE` | `RecordsValid` | the entry of a deferred tag goes from `tc_tag_pending` after its record was patched |
| `segments` with `Cuts = "anywhere"` | `TagAhead` | a tag split over two segments is never corrected, and its entry blocks the connection's later segments (`tls_uprobe.c:3039`; 1152-1155) |
| `segments` with `MaxLosses = 1`, `PartsLost = TRUE` | `RecordsValid` | the head of a record with a deferred tag is lost: the copy sent again is unpatched, its tag is still corrected |
| `segments` with a memory BIO on one connection, whole records | `RecordsValid` | the fallback to the first application-data record patches another write's record |
| `segments`, checking `Replaced` | `Replaced` | a placeholder behind the end of the first segment is never matched: the next one starts inside the record |
| `patch` with `LazyHandshake = TRUE` | `Replaced` | a write that performs the handshake is bridged to the handshake record |
| `segments` with `FinishedLen = 2` | `RecordsValid` | a Finished record as long as the write is patched instead |
| `segments` with `HdrLen = 2` | `RecordsValid` | a segment ends inside a header: the scan of the next record breaks off (`tls_uprobe.c:3153-3158`), and the TLS 1.3 Finished record in the same segment is patched instead |
| `patch` with a write of 5 whose placeholder is at 4, in its second record | `RecordsValid` | the patch is stored behind the text of the first record; its position is not compared with the record's length (`tls_uprobe.c:3219-3227`) |
| `patch` with `KnowsVersion = FALSE` (one of its writes is `MaxRecord + NonceLen - TypeLen` long) | `RecordsValid` | a full TLS 1.2 record has the length that a TLS 1.3 record of the whole write would have, and is patched by that layout |
| `patch` on TLS 1.3 with `Cuts = "records"` | `RecordsValid` | no record has the length of a write of two records; the search falls back to the first application-data record (`tls_uprobe.c:3169-3175`), the Finished record |
| `patch` with `Leading = 0` | `Replaced` | the search gives up before the record behind Finished |
| `patch` or `segments` with `ISN = 985` | `Replaced`, `RecordsValid`, `TagAhead` | the segment that crosses the end of the sequence space never contains `write_seq`; a tag is corrected for it, or not, by the same comparison |
| `sockets` without `sock[k].stale` in `KeptForHost` or `KeptForAddr` | the same | `vip_connect4` and `vip_connect6` record the host (`tls_uprobe.c:3672`) and the destination before the kernel looks for a route; a connect that finds none changes no state, and the entries survive. While the controller shuts down, with the connect hooks gone and the probes still there, a direct connect of the same socket meets them; the comment at 2133-2138 has them forgotten for this case |
| `sockets` without `\ unseen` in `ServersSkipped` | `ServersSkipped` | a descriptor closed by exec or dup2 leaves its `conn_ip_map` entry to the accepted one that reuses its number (`tls_uprobe.c:1274-1275`); one closed by another thread while `connect()` blocks gets its entry afterwards |
| `keys` without `left.misread` in `TagOfOwnKey` | `TagOfOwnKey` | a failed read in the cipher-init hook leaves an older H, which `bpf_h_extract` prefers to the context's own; the comment at 1562-1563 calls the cache "not a correctness dependency" |
| `keys` without `left.overtaken` in `TagOfOwnKey` | `TagOfOwnKey` | a write on a reused SSL object replaces the H a record still under way is corrected with |
| `keys` without `left.evicted` in `TagOfOwnKey` | `TagOfOwnKey` | the connection's entry went from `tls_conn_state`, an LRU map, and `copy_h_power_step` returns without a word (`tls_uprobe.c:1800-1802`): the tag is corrected with the powers of the record before |
| `keys` without `left.evicted` in `TypeOK` | `TypeOK` | the same on a CPU that has computed no powers yet, or half of them: the H is none |
| `tracking` without `\ unpinned` in `OneProgram` | `OneProgram` | a container's netns was recorded but its inode not pinned any more: the release of the earlier pod drops the entry of the pod that has the inode now (`uprobe.go:600-603`) |

Three more follow from reading the code and are outside the models. A pod
recreated under its name before its deletion is reconciled overwrites
`podKeyToUID`, and nothing releases the earlier pod's bindings. A pod deleted by
force while its containers run may be attached again by a goroutine or a retry
that passed its check before. The netns descriptor of a pod whose program was
attached by an exec event alone, with no `RecordCgroupNetns`, stays open until
`Close`.

## 4. Properties

Virtual IPs: `Resolvable` (an address in `vip_host_ip` is reserved for its host in
`vip_ip_host` at every point), `UpstreamOfHost` (a reserved fake IP leads only to
its host's addresses), `SocketReachesHost` (the host recorded for a socket is the
one it connected to), `CleanSyncAgrees` (a sync without failures leaves active
reservations and published addresses equal, whatever came before),
`ReservedUntilReleased` and `WatchedKeepsIP` (what no step may take away; the
latter excepts a host with a leftover of a failed release),
`Converges`.

TLS patching: `SecretOnlyWhereAllowed`, `RecordsValid` (every received record is
untouched, or patched where its own write had placeholders with a tag corrected
for exactly these patches), `Replaced` (of every write the first `XOR_MAX_MATCHES` placeholders are, where their
secret is bound and allowed), `TagAhead` (a deferred
correction still lies ahead of the peer).

Sockets and keys: `KeptForHost` and `KeptForAddr` (a restricted secret is kept
only on a connection that was itself made to, and itself named, what it is
restricted to; both except a connect without the hooks after one that failed before
SYN_SENT),
`ServersSkipped`, `CacheFresh` (a cached H is the context's),
`TagOfOwnKey` (a tag is corrected with the H of the key that encrypted the
record, but for three cases it names).

Bindings: `BindingsExact` (the incremental grants and revocations leave what a
full sync would), `SecretsExact`, `KeepsPromise` (every step is one of
`Entitlement`), `FaultsSettle` (the liveness part of `Entitlement`), `Heals`.

Pods: `OneProgram`, `DedupSound` (an entry with a descriptor means that this pod
is patched), `NothingLeft`, `RunningKept` (a running container is never
untracked), `Served` (one that keeps running is bound and attached for good).

Every property of a passing run has a mutant of the code's definitions that
breaks it, listed in `PROJECT.json`; the mutants stand next to the definitions
they change.

## 5. Proofs

All theorems hold for any sets of hosts, addresses, families, sockets, CPUs,
threads, connections, secrets, pods, containers and payloads, and any bounds.
They rest on the named assumptions of the modules, which TLC evaluates in the
runs: typing of the constants (`PlanConstants`, `VirtualIPConstants`,
`TlsPatchConstants`, `TcAttachAssumption`, ...), distinct placeholders
(`SecretsAssumption`), and that the value for "no entry" is not an entry
(`NoneAssumption`, `EntryAssumption`, `NoneIsNoEntry`). Conditions of single theorems are named
below; section 3.4 shows for each what happens without it. Every inductive
invariant was checked by TLC on an instance before it was proved.

### Virtual IPs (`VirtualIPProofs`, `VirtualIPSyncProofs`)

* `TypeCorrect`: `TypeOK`, inductive with `ProgOK`: a program that runs has found
  its host, fake IP and socket.
* `ResolvableAlways`: `Resolvable`, if deletes in `vip_host_ip` succeed and
  `vip_ip_host` is not lost. It is not inductive: that a release does not take a
  published address away depends on the plan and on the phases before. `SyncInv`
  adds
  - `PublishedOK`: a published address is actively reserved for its host and,
    during a sync, planned for it or about to be dropped;
  - `WantOK`: what will be published is planned;
  - `KeptOK`: up to the write phase the reservations the plan keeps are as read;
  - `TodoOK`: releases are outside the plan, writes inside;
  - `WrittenOK`: in the later phases a planned reservation is written, waits to
    be, or failed and is not published.

  The plan enters through one lemma, `PlanGives`: an address of `want` is an
  active entry of the plan, and a host that is not dropped keeps its own.
* `LeadsToHost` and `SocketsReachTheirHost`: `UpstreamOfHost` and
  `SocketReachesHost`, if deletes in `vip_host_ip` and `vip_upstream` succeed and no
  program overlaps a map write. Any pinned map may be lost. `DataInv` adds
  `Distinct` (no two hosts share an address), `PublishedUpstream` (a published
  address leads to its host even while the reservations are lost), `PrunedOK` (what
  the prune phase has established) and `ProgFresh` (what a program looked up still
  holds).
* `ReservationsAwaitRelease`: `ReservedUntilReleased`, without conditions.
  `ReleaseInv` says that until its turn a reservation is as the sync read it
  (`ReadOK`) and that the plan takes an address only for one of the three reasons
  (`TakenOK`, from the plan through the lemma `PlanTakes`).
* `CleanSyncRepairs`: `CleanSyncAgrees`, without conditions: any map may be lost and
  any operation may have failed before. `CleanInv` says of a sync without a failure
  that each reservation and each publication is as planned or has its turn to come
  (`EntriesDone`, `HostsDone`), and that the plan agrees with what it publishes
  (`PlanAgrees`).
* `WatchedHostsKeepTheirIP`: `WatchedKeepsIP`, under the conditions of
  `ResolvableAlways`. `KeepInv` joins `SyncInv` and `ReleaseInv` and adds that a host
  has one active address of a family in the plan (`PlanUnique`), that what is
  published was reserved when the sync began (`PublishedRead`), and that a host
  without a leftover is to keep what it has (`PublishedWanted`, `DropOK`). The proof
  attempt is what showed the exception `NoLeftover` to be needed: with one stop TLC
  did not meet the case.

### TLS patching (`TlsPatchProofs`, `TlsRecordProofs`)

* `PolicyHolds`: `SecretOnlyWhereAllowed`, without conditions. `PolicyInv` says that
  staged patches are of bound secrets (`XorBound`), that an entry in `tc_pending`
  holds only secrets allowed on its connection (`TcAllowed`), and that what was sent
  obeys the policy. Threads that mix their entries up, memory BIOs and losses can
  spoil a record, never the policy.
* `TypeCorrect`, for connections whose library writes to the socket (`SocketBio`).
  `StreamInv` adds `LayoutOK`: no two records begin at one position, and all end
  within what is queued. A flush of a memory BIO places several records at
  positions defined by recursion, which is why the theorems about the stream leave
  it to TLC.
* `TagStaysAhead`: `TagAhead` with any number of segments, writes and losses, under
  `SocketBio`, if TCP cuts no tag in two and as long as sequence numbers do not wrap
  around (`[]NoWrap`, a condition on the behaviour). `PendingOK` ties an entry of
  `tc_tag_pending` to one application-data record of the stream, to the sequence
  number of its tag and to what was sent; `CutBeforeTag` says that a segment that
  does not reach the end of the record does not reach its tag.
* `RecordsStayValid`: `RecordsValid`, with any number of connections, writes, records,
  segments and lost segments. Its conditions, which the runs `patch` and `segments`
  satisfy: one thread writes request by request on connections that are open, on a
  library that writes to the socket, H can be read, nothing is evicted, no tag is cut
  and no part of a record is lost (`Regular`); a write's placeholders are in its first record, a write
  of several records is one of TLS 1.2 and known to be, and no write has the length
  of a TLS 1.3 Finished record (`LengthsTell`); and, of the behaviour, that sequence
  numbers do not wrap around (`[]NoWrap`) and no segment ends inside a header
  (`[]HeadersWhole`). `RecordInv` has three layers on top of the invariants above.
  `ShapeInv`: a stream is a ClientHello, a Finished record and writes, without gaps.
  `EntryInv`: staged patches are those of the record the thread sends next, and an
  entry of `tc_pending` that may still be used is tied by its `write_seq` to the first
  record of its write, with every earlier write received. `PeerInv`: each patch and
  each correction that was received or is deferred is right for its record. The step
  that carries the proof is `TargetIsFirst`: the search of `tc_egress_patch`, by
  length, by fallback or from the head of the segment, finds that record or none.
* `RecordsValidBehind`: the same without `[]HeadersWhole`, for segments that end
  between records or behind a write's placeholders and a search that looks behind at
  least one leading record (`CutsBehind`).
* `PlaceholdersReplaced`: `Replaced`, under the conditions of `RecordsValidBehind`: of
  each write the first `XOR_MAX_MATCHES` placeholders; later ones reach the peer.
  `ReplaceInv` adds that the placeholders of a write are in its first record, staged
  while the thread holds it (`HeldOK`), that nothing follows the ClientHello before it
  was received (`AnsweredOK`), that only a record with placeholders is split, behind
  its header (`SplitOK`), and that a placeholder is either replaced or has an active
  entry of `tc_pending` with its patch, no part of its record having left (`WaitOK`).
  The proof shows that the first segment with bytes of a write begins with a record,
  contains `write_seq`, and is not held up by a deferred tag (`BeginsWithRecord`,
  `FirstAppThere`, `NoTagBefore`), so that the search finds the record (`PatchThere`).
  A segment sent again is not patched again: `Replaced` speaks of runs without losses.

### Sockets and keys (`SocketPolicyProofs`, `HKeyProofs`)

* `HostRestrictionHolds`, `AddrRestrictionHolds`, `ServersAreSkipped`, `TypeCorrect`:
  `KeptForHost`, `KeptForAddr`, `ServersSkipped` and `TypeOK`, without conditions on
  the constants or the behaviour, and with the exceptions the properties name
  (`stale`, `unseen`).
  `PolicyInv` says what each entry of a slot or a cookie is about (`HostOK`, `DstOK`,
  `SniOK`, `ClientOK`), and, what makes this inductive, that nothing is left where a
  later connection would find it (`Forgotten`, `SlotClean`, `CookieOK`).
* `CacheStaysFresh`, `OwnKeyCorrectsTag`, `TypeCorrect`: `CacheFresh`, `TagOfOwnKey` and
  `TypeOK`, likewise, with their exceptions (`unread`; `overtaken`, `misread`,
  `evicted`; a tag corrected without an H only where `evicted`). `FlightOK` says of a record under way what
  `TagOfOwnKey` says once it left; `MisreadKnown` that a write that finds an older H
  cannot spoil an earlier record of the same key unnoticed.

### Bindings (`SecretBindingProofs`)

* `IncrementsAreExact`, `SyncIsExact`, `TypeCorrect`: `BindingsExact`, `SecretsExact` and
  `TypeOK`. `UpsertOK` and `PruneOK` say what a sync has done so far.
* `BindingKeepsPromise`: `KeepsPromise`, the refinement of `Entitlement`. `EntryOK` (an
  entry of `secret_map` is under a placeholder of its own secret, whichever snapshot
  wrote it) makes it harmless that `secret_map` and `secret_acl` are written under
  different locks; `RedeemsOwn` is what follows for the mapped state, and each action
  is shown to be a step of `Entitlement` or a stutter.

### Pods (`PodTrackingProofs`)

* `AttachedOnce`, `DedupIsSound`, `NothingStaysBehind`, `RunningIsKept`, `TypeCorrect`:
  `OneProgram`, `DedupSound`, `NothingLeft`, `RunningKept` and `TypeOK`, for any number
  of pods, containers, inodes and failures. `TrackInv` says who will undo what is
  recorded for a container (`PrepOK`, `TrackOK`: the reconciler, the reconcile under
  way or the container's own goroutine) and who may touch the entry of a live pod's
  inode (`TcOK`: only its own containers, until a record outlives the netns; and the
  inode of an attach that holds a descriptor is no other live pod's).

### Only model-checked

* `Converges`, `FaultsSettle`, `Heals`, `Served`: liveness under fairness is out of the
  prover's reach.
* The violation of `Patched`: a counterexample of TLC's.
* `TypeOK` of `TlsPatch` with memory BIOs: the positions of the records of a flush are
  a recursive function of their lengths, and what such a definition computes for
  every input cannot be proved by induction here.

## 6. Plan

Done: the models of every component whose correctness depends on the order of
steps, and a proof of every safety property that a passing run checks. What would
come next:

1. The stream theorems with memory BIOs: an invariant that leaves the positions of
   the records of a flush open and only says that they are ordered and disjoint.
2. Weaker conditions than `Regular`: most are needed for `RecordsValid` or `Replaced`
   together (section 3.4), fewer for either alone.

## 7. Not modelled

* GF(2^128) arithmetic and AES-GCM themselves: 128-bit arithmetic is out of TLC's
  reach; a correction is modelled by the set of patches it is for.
* DNS and ClientHello parsing, TLS library offset tables and binary inspection,
  the parsing of secret sources, file system reads of cgroups, flags, wiring,
  metrics and logging: sequential, covered by unit tests, and no property here
  depends on more than their outcome.
* Shadow generation: one writer derives a shadow from its Secret. That no two
  placeholders share a prefix is an assumption of `SecretBinding`.
* Trusted DNS servers: one list of addresses recomputed from the API; `VirtualIP`
  leaves open which answers reach the rewrite.
* The webhook: a pure rewriting of manifests. Nothing in `cmd/kloak` calls its
  certificate bootstrap (`EnsureWebhookCerts`).
* The choice of interfaces, TCX and clsact in `attachTCEgress`, and the NRI
  connection itself.
