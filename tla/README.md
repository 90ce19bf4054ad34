# A TLA+ model of the user-space router

This directory keeps specifications of the router in `src/` (a Linux user-space
IPv4 router in C), the TLC configurations that check them on small instances and
proofs that TLAPS checks for every instance. File names without a directory are
those of the repository's `src/`; `README:n` is line n of the repository's README.

Contents: [the system](#1-the-system), [the plan](#2-the-plan),
[the modules](#3-the-modules), [the runs](#4-the-runs),
[fairness](#5-fairness), [the proofs](#6-the-proofs),
[disagreements](#7-where-code-and-documents-disagree),
[what is left out](#8-what-is-not-modelled).

## 1. The system

One process. The main thread receives Ethernet frames from a raw socket straight
into a block of the memory pool, answers ARP itself and hands IP frames to at most
four workers through a bounded queue. A worker filters and routes the frame; with
the next hop's MAC it sends the frame and frees the block, without it parks the
block in a chain of frames that wait for the same next hop and sends an ARP
request. A timer thread ages the ARP cache once a second and retries or gives up
the chains. A terminal thread, one thread per TCP connection and a UDP thread run
the commands.

| component (file) | state | operations | shared with, by |
|---|---|---|---|
| receive loop, timer (`main.c`) | `g_shutdown`, the socket, the block in hand | `rx_loop`, `timer_thread`, start-up and shutdown | everything, by calls |
| forwarding engine, pending table (`forward.c`) | `g_pend`: nodes with a chain of frames, retries, `last_sent`; one mutex | `forward_task`, `pend_enqueue`, `forward_flush_pending`, `pend_tick` | workers, receive loop and timer, by the mutex |
| ARP cache (`arp_table.c`) | slots, bucket heads, timeout; one rwlock | `arp_lookup`, `arp_insert`, `arp_tick`, `arp_delete` (never called) | the same threads, by the rwlock |
| ARP protocol (`arp_proto.c`) | none | `arp_handle_frame`, `arp_request` | called by the receive loop, by workers and by the timer |
| memory pool (`mempool.c`) | free stack, counters; one mutex | `mp_alloc`, `mp_free` | every thread that holds a frame |
| thread pool (`thread_pool.c`) | ring, indices, counters, shutdown flag; mutex, condition variables | `tpool_init`, `tpool_submit`, `tpool_shutdown`, `worker_main` | receive loop to workers, by the ring |
| route table (`route.c`) | array of routes; one rwlock | add, delete, clear, derive the connected ones, look up | workers and commands |
| interface table (`interface.c`) | array of interfaces, no lock | enumerate, set and clear an address, look up | workers, receive loop and commands, unlocked |
| firewall (`firewall.c`) | array of rules; one rwlock | add, delete, clear, check, parse | workers and commands |
| configuration (`config.c`) | parameters; one mutex; `router.conf` | serialize, save by temporary file and rename, load | commands, `putconf`, upgrade |
| upgrade (`upgrade.c`) | one session: file, digest, progress; one mutex | begin, write, finish, exec, abort | TCP connections |
| remote management (`remote.c`) | per connection: buffer, mode, bytes left | line protocol, `putconf`, `upgrade`, UDP queries | all commands, the configuration file |
| terminal (`terminal.c`) | none | the command table | all tables |
| `packet.c`, `utils.c`, `sha256.c`, `log.c` | a log level; text buffers | checksums, masks, hashing, logging | called everywhere |

What makes each of them hard, and what makes it correct:

* **Thread pool.** Workers sleep, wake late or for no reason; one signal per
  submission; the ring wraps and fills; a shutdown arrives with tasks queued.
  Correct when it is a FIFO in which every accepted task runs once, no task waits
  for a worker that sleeps, and shutdown returns after all of them.
* **Memory pool.** A block is allocated by one thread and freed by another, with
  the counters updated outside the lock and a fall-back to `malloc`. Correct when
  no block has two owners and none is lost.
* **ARP cache.** Index chains are relinked by insertion, eviction and ageing, and
  each operation reads the clock before it has the lock. Correct when it is a map
  that answers with what was learned last, evicts the least recently used entry
  and keeps nothing beyond the timeout.
* **Forwarding engine.** The receive loop and the timer flush, the timer gives
  chains up, workers enqueue and evict, all at once; a frame may be chained just
  after its next hop was learned. Correct when a frame always has exactly one
  owner, limits hold and every frame leaves, sent or discarded.
* **Route and interface tables.** Commands come from several threads; an address
  and its mask are two unlocked stores; a derivation reads the interfaces
  meanwhile. Correct when the connected routes end up those of the interfaces,
  the longest prefix wins and on-link subnets come first.
* **Firewall.** A first match under concurrent additions and deletions, over
  frames of any length; a rule must survive being written to and read from the
  file.
* **Configuration.** Concurrent savers share one temporary file; a crash may come
  between any two steps; a load is not atomic for the data path. Correct when the
  file is always one somebody saved, and what is saved is what is loaded.
* **Upgrade and remote management.** One upgrade session shared by connections
  that come and go; binary payload follows a command in the same stream; `execv`
  may fail. Correct when only a checked file is installed and a connection
  disturbs no session but its own.
* **Start-up and shutdown.** `g_shutdown` is polled; detached threads go on while
  `main` tears the pool down.

`PROJECT.json` lists these hazards with their lines, the properties that watch
them and those no property watches yet.

## 2. The plan

Order: the code every frame crosses first, then what changes its tables, then
management.

| step | module | what it is | state |
|---|---|---|---|
| 1 | `ThreadPool`, abstract `TaskQueue` | the pool, and the FIFO it implements; proofs | done |
| 2 | `MemPool` | the block pool; proofs | done |
| 3 | `Forward` | composes receive loop, queue, workers, pending table, ARP and timer, over abstract pool, queue and cache; proofs | done |
| 4 | `ArpTable`, abstract `ArpCache` | the cache and the map it implements; proofs | done |
| 5 | `RouteTable` | routes, interfaces, the commands that change them, the worker's decision; proofs | done |
| 6 | `PendTable` | the linked nodes of the pending table and eviction by `last_sent`, refining `Forward`'s map | to do |
| 7 | `Firewall`, `Cidr` | rules, first match, text to rule and back, saves and reloads by several operators; proofs | done |
| 8 | `ConfigStore` | savers, loaders and `putconf` on one file system with crashes, restarts and failing writes; proofs | done |
| 9 | `Remote`, composing `Upgrade` and `Sha256` | connections, their streams and modes; the upload session; the digest by blocks; proofs | done |
| 10 | `Router` | start-up, signals, shutdown and the exec of an upgrade, over the pool's promise; proofs | done |
| 11 | `RouteFile`, over `RouteTable` | the static routes in `router.conf`: unlocked save, load beside commands | model-checked; proofs to do |

Every invariant that a run checks has a theorem (section 6), except those of
`RouteFile`; so have both refinements and the action properties of `Remote` and
`Router`. Liveness stays with TLC. Steps 6 and the proofs of step 11 are what is left.

## 3. The modules

Conventions. A step is the code between two accesses to shared state: a section
under a mutex or rwlock is one step, an unlocked load or store of shared data is
one, and what a thread does with its own data joins the step before it. Names are
the source's. An operator named as a slip (`FullTooLate`, `DropNot`, ...) stands
right before the definition it could be mistaken for; no action uses it: the
properties are tried by putting it in.

### ThreadPool (`thread_pool.c`), TaskQueue

`q`, `head`, `tail`, `count`, `shutdown`, `nthreads` and the counters are the
fields of `tpool_t`; `pc` and `cur` say where a worker is and which task it
copied out. `Submit` and `SubmitRejected` are `tpool_submit`; `Take`, `Finish`,
`Wait`, `SpuriousWake` and `Leave` are the sections of `worker_main`; `Create` and
`CreateFails` the loop of `tpool_init`, whose clamp of the requested number is
`Clamp`; `Shutdown` and `Join` are `tpool_shutdown`. A woken worker competes for
the mutex with those that never slept. Tasks are numbered by submission.
`TaskQueue` says what callers rely on: a bounded FIFO, at most `width` tasks
running, every one finished before the shutdown returns. `not_full` is left out:
it is signalled and nobody waits on it.

### MemPool (`mempool.c`)

The stack of free indices is a function and a top, as in the code. Calls are cut
where the mutex is released: `Pop` or `FindEmpty`, `Malloc`, then `AllocReturns`
with the counter; `Push` or `Free`, then `FreeReturns`. Counters are modulo `U64`.
`failed` counts calls that returned NULL; it is there to state `CountersAgree`.

### ArpTable (`arp_table.c`), ArpCache

Slots and bucket heads are linked by index, with `hash_ip` any function. `Call` is the
reading of the clock, `arp_lookup`, `arp_insert` and `arp_tick` the locked section, so
the clock may move and others may run in between. `arp_set_timeout` stores the timeout
under no lock, when a configuration with `arp_timeout` is loaded; the auxiliary `limits` is
the set of timeouts in force since the pass of `arp_tick` in progress began, and each
slot is aged by one of them. `Unlink` walks the bucket as
`bucket_remove_locked` does; the age is an unsigned difference. A lookup stores
`last_seen` under the read lock; TLC interleaves such stores as whole steps.
`arp_tick` ages slot after slot, `AgeSlot`, so that `Aged` is the table after its
loop. `Contents` reads a table as a map from address and interface to MAC and
`last_seen`. `ArpCache` is the map. Its `call` has, for every thread, the operation, key,
MAC and time it was called with, and the refinement maps them to `pc`, `arg` and `now`:
a lookup answers for the key of its own call, with the MAC stored last, and misses
only a key that is not there; an insertion stores its own MAC under its own key, evicting
the least recently used entry when the map is full; ageing removes what is too old and
nothing else, except what was used after the clock was read (section 7).

### Forward (`forward.c`, `rx_loop`, `timer_thread`, `arp_proto.c`)

A frame is the block that holds it; of its bytes the model keeps the key (next hop and
egress interface) it resolves to, and draws the verdicts of firewall, routing and TTL,
since the tables may change at any time. `free` is the pool, `tasks` the queue,
`known` the keys the cache resolves, `pend` the pending table as a map from key to
chain and retries. `rxpc`/`rxblk`, `wpc`/`wblk`/`wkey` and `tpc`/`tkeys`/`tblk` are
the threads; `forward_flush_pending`, which two threads call, has its own
`fpc`/`fkey`/`fchain` per caller. `Enqueue` is `pend_enqueue` with its four outcomes
(`Merge`, `Overflow`, `NewNode`, `Evict`). `Refs(b)` are the places that hold block
`b`. Which chain is evicted depends on `last_sent` in the code and is any chain here.
Counters are left out. The pool, the queue and the cache appear as what `MemPool`,
`ThreadPool` and `ArpTable` are shown to provide.

### RouteTable (`route.c`, `interface.c`, commands, step 4 of `forward_task`)

`ip` and `len` are the addresses and masks of the interfaces, masks as prefix
lengths. `SetIp` and `SetMask` are the two stores of `setip` and `delip`;
`Derive` to `Derived` are `route_derive_connected`, which holds the route lock while it
reads the interfaces load by load: `TestIp` and `TestMask` are the tests of one
interface, `DeriveIp` and `DeriveDest` the address and the mask, loaded again, that make
the destination, `DeriveAppend` the mask loaded once more; `route_add`,
`route_del`, `Reload` and `Loaded` the other commands. `ReadIp`, `Compare` and
`LookUp` are the worker's unlocked scan of the interfaces, then the locked lookup.
`Lookup` is the loop of `route_lookup`; `Keep` is what the compacting loop that drops
the connected routes leaves of the array. `ClzOfZero` is what `__builtin_clz(0)`
evaluates to, which C leaves undefined; it stands in `Cidr`, the prefix
arithmetic of `utils.c`, which `Firewall` uses too; `Size[k]` is there the number of
addresses behind a mask of `W - k` bits. `covered` and `clipped` are history
variables: the interfaces no command touched while a worker was deciding, and
whether the latest derivation ran out of room.

### RouteFile (the `[route]` section, `config.c`)

Extends `RouteTable` with what `config_serialize`, `config_save` and `config_load` do with
static routes. A line is a record of destination, prefix length, gateway and
interface; an interface's name is its place in the table. `SaveBegin` loads the count,
`SaveLine` reads one entry, without the lock, and writes it with `prefix_len`, as
`config.c:136` and `:140` do, without the case for /32 that `cidr_to_str` has; `SaveEnd`
installs the lines or fails. `LoadBegin` opens the file and clears the static routes,
`LoadLine` is `parse_route_line` and `route_add`, which refuses a route that is there or
finds the table full; `LoadEnd` goes on to the derivation. `Unnamed` is the name
`?` of an interface without a name, which a load refuses; in a running process every
static route has an interface of the table, so only a file from elsewhere has such a
line. `Command` are the commands of `RouteTable`. History variables: `base`, the static
routes a save counted or the routes of the file a load opened; `calm`, whether a save met
nothing that moves or removes entries, or a load nothing at all.

### Firewall (`firewall.c`, rules in `config.c`)

`g_rules` and `g_n` are the array and its count; slots past the count keep what they
held. `rule_match`, `fw_check`, `fw_parse_rule`, `parse_filter_line`, `cidr_to_str`
and `fw_rule_to_line` are operators of the same names. Text is not modelled letter by
letter: a line is the record of its clauses, with the conversions that change meaning
kept (a missing clause is a wildcard, a wildcard source before a destination is
written `any`, a full mask loses its length, the old `[filter]` section knows one
clause, and an address there is refused if it has no length and anything follows it). What
`fw_parse_rule` refuses is refused: an action that is neither `drop` nor `allow`, a third
address, a port outside 0..65535. The buffer of a save has no limit here (section 8).
`Texts` and `Lines` are all the texts of rules and lines of a file in this
form, keywords from `Words`, `NoWord` for none. The module shares its proofs with
`RouteTable`, so what the two would both call `Init`, `Next`, `Spec`, `TypeOK` begins
with `Fw` here, and the threads that run commands are `Admins`. `addfw` and `delfw`
are the commands; `Count`, `ReadAction`, `ReadRest`, `Serialized` and `Write` a save,
whose reads take no lock; `Putconf`, `Open`, `fw_clear`, `LoadLine` and `Loaded` a
load, which takes the lock line by line. `base` and `calm` are history variables: the
rules a command should end with, and whether another one disturbed it, by any change
during a load, by a deletion or a clear during a save.

### ConfigStore (`config.c`, `putconf` of `remote.c`)

What `Firewall` and `RouteFile` leave out: the file itself. Writing and reading need not
give back what was written: `Reread` says which configuration the lines of a save
describe (that of a /32 route may be a /31, section 7), any function that once applied
changes nothing more; `Text(v)` is what a save of `v` puts into the file. An upload is what
its author wrote and is read as such. A configuration is a version, a file a
sequence of pieces, one per write of stdio; what is neither whole nor of one version
is `Odd`. Instead of inodes there are the four places a file can be in: `router.conf`,
the temporary file that all saves share, the one that all uploads share, and the
`router.conf` a power failure brings back while the directory is not on disk. A
handle `fd` follows its file when it is renamed over or unlinked, and writes at its
own offset. `SaveBegin`, `Write`, `SaveSync` and `SaveRename` are `config_save` (the
serialisation and the `fopen` are one step), `Fail`, `RenameFails` and `Unlink` its
failures; `LoadBegin`, `LoadOpen`, `LoadMissing` and `LoadRead` are `config_load`, whose
`LoadMissing` goes on with a save; `PutBegin` to `PutRename` are `putconf`, whose last
piece is written by an `fclose` nobody looks at. `Boot` is `main`'s own load before
other threads start; `Stop` ends the process anywhere (a signal, `exit`, an
upgrade), `Crash` the power, which loses unsynced data and an uncommitted rename;
`Commit` is the kernel writing the directory. The password, which `config_serialize`
omits, is not part of a version, and temporary files a dead process left behind are
taken as gone, since the next `fopen` empties them. History variables: `by`, who
installed a file and what it meant to write; `calm`, no operation of the same kind
overlapped; `saved`, what must go on running: what an undisturbed save read, and from
the first reload or restart what its lines describe.

### Sha256, Upgrade, Remote (`sha256.c`, `upgrade.c`, `remote.c`)

`Sha256` is the block buffering and padding of the digest: the compression of a block
is kept as the sequence of blocks, so two digests are equal when the padded messages
are. `Turns` is the loop of `sha256_update`, `Turn` its body. `Upgrade` is the one
session `g_up`: `Begin`, `Finish`, `FinishRefused` and `Abort` hold the lock and are
one step each, `Fwrite` and `Count` are the two halves of `upgrade_write`, which holds
none. `fp` is `"dangling"` after a `begin` refused the digest, and a write then kills
the process or disappears. A path of the program is the number of `(deleted)` suffixes
the kernel has put behind `/proc/self/exe`. `Remote` is one `conn_thread` per
connection: `Recv` takes any prefix of what is on its way, `Handle` one line,
`WriteChunk` and `WriteCount` or `WritePutconf` one chunk of payload, `FinishPutconf`
and `FinishUpgrade` are `bin_finish`, `ExecUpgrade` and `ExecReturns` the `execv` that
does not return and the one that does, `End` is what follows `conn_pump`. Lines arrive
as one token, payload byte by byte, and no byte is a line (`PeersAssumption`): the
model tells apart what the protocol means by a token, and `FramingSound` says that the
code never confuses the two. The peers are modelled as far as the protocol binds them:
a patient one waits for `OK` before it sends the payload, a hasty one does not, each
may vanish at any moment. `stolen` and `owner` are history variables: whether a
connection ended a session another one had begun, and who began the current one.

### Router (`main.c`)

The start-up calls in order, each succeeding, ending the program or only warning, as
`Fatal` and `Optional` say; `rx_loop` as `Check` and `Frame`; `Stop`, `Join` and `Close` the
shutdown; `Signal` and `TerminalExit` what raises `g_shutdown`, at any point from the
first instruction on. The pool is a counter of tasks and the places of its workers, as
`ThreadPool` has them in detail. `Bind` is the start of `tcp_thread` and `udp_thread`;
`Exec` an upgrade, which keeps the process and so its descriptors: `held` says that
a previous image's listening sockets are still open. `SignalEarly` is the signal that
falls between the test of the flag and `recvfrom`. `parked` says that frames wait in a
pending chain, where `Send`, the end of a `forward_task`, may leave its frame; `Wake` and
`Pass` are a pass of the timer thread, which nobody joins and which may straddle the
whole shutdown.

## 4. The runs

All passing runs stop with every reachable state explored. No run excludes deadlock
checking.

| run | instance | shows |
|---|---|---|
| `pool` | 3 slots, up to 3 workers (requested -1, 1, 2 or 5), 6 calls | the pool's invariants, that a shutdown returns, and that the pool implements `TaskQueue` |
| `mempool` | 2 arena blocks, 2 of malloc, 2 threads, counters modulo 5 | blocks are never shared or lost; counters agree with them even after wrapping |
| `arp` | 2 slots, 2 addresses in different buckets, each behind 2 interfaces, 2 MACs, timeout 1 or 2 set at any time (0 is refused), clock to 2 | chains are sound, keys unique, and the table implements `ArpCache` |
| `forward` | 1 worker, 2 + 1 blocks, 2 keys, queue of 2, one pending node of at most 2 frames, 1 retry, `recvfrom` may fail | one owner per block, no block lost but by such a failure, limits kept, every accepted frame leaves |
| `routes` | 2 interfaces, 2 operators, 1 worker, 2-bit addresses, 2 table entries | connected routes end up right, longest prefix, on-link first |
| `firewall` | 2 operators, 3 rules of which 2 fit, 2 files, 6 commands | an undisturbed save reads back, an undisturbed reload ends with the file and only opens meanwhile |
| `route_file` | 2 operators, 1 interface, 2 table entries, static routes of 0, 1 and 2 bits, `__builtin_clz(0)` as on ARM | a save that met additions only describes the routes it counted, a load nobody disturbed makes those of the file |
| `config` | `main` and 2 operators, 3 configurations of 2 pieces, of which the third reads back as the second, any number of crashes and restarts | `router.conf` is never a part or a mixture, and a restart finds what the last save's lines describe |
| `remote` | 2 connections, images of up to 3 bytes, buffer of 5, digest blocks of 2, one `(deleted)` path | streams are cut right, sessions belong to somebody, digests and installed programs are those sent |
| `router` | 2 workers, a queue of 2 | shutdown from any point of start-up and service: it returns, after every accepted task ran to its end |
| `host_route`, `remote_gone` | small instances of `RouteTable` and `Router` | a counterexample each: section 7 |

What the properties say, beyond each module's `TypeOK` (`FwTypeOK` in `Firewall`):

* `NoLostWakeup`: while a worker sleeps, every queued task has a worker of its own
  on the way to the mutex. `RingInOrder`: the ring is the latest submissions in
  order. `Conservation`: accepted = queued + in hand + executed, nothing twice.
  `DrainedAtExit` and `ShutdownReturns`: shutdown loses nothing and returns.
* `BlocksPartitioned`: free once, owned once or in one call. `CountersAgree`:
  `showpool`'s outstanding blocks.
* `ChainsSound`: exactly the used slots are reachable, each from its own bucket,
  and every chain ends. `KeysUnique`. `ImplementsArpCache`: each call's answer, what it
  stores and for which key, eviction and ageing are the abstract cache's.
* `SingleOwner` and `NoLeak`: each block is held in exactly one place, counting
  stack, queue, workers, chains, both flushers, receive loop and timer, unless an error
  of `recvfrom` lost it (`lost`, a history variable). `FramesLeave`: an accepted frame
  is eventually sent or discarded.
* `ConnectedInSync`: with no command in progress the connected routes are the
  interfaces' subnets. `LongestPrefix`: for every table reached and every
  destination. `OnLinkFirst`: a frame for a subnet nobody touched is not routed.
* `RoutesPersist` is `SavedRoutes` and `LoadedRoutes`: the lines of a save describe the static routes it counted, in their
  order (of two as long the first wins), whatever was added meanwhile and whichever
  interface was given another address; after a load no other static
  route is left or made than those of the file, and none is missing but what is there as a
  connected route, unless the table is full. A removal or a derivation during a save does
  lose routes (the hazard at `config.c:110`); `calm` excepts them.
* `SaveFaithful`: what a save writes is read back as the rules it counted, also
  when rules are added meanwhile. `ReloadFaithful`: a load ends with the rules of
  the file, in order, as many as fit. `ReloadOnlyOpens`: while it runs no frame is
  dropped that the whole file allows. The condition `calm` is needed: two loads, or
  a load and a save, or a deletion and a save that overlap do end with rules in the
  wrong order, or lost (the hazards at `config.c:323` and `:110`).
* `ConfWhole`: `router.conf` is whole and is what its installer meant to write, after
  any crash and beside operations of the other kind. Two overlapping saves (or two
  uploads) are excepted, because they do spoil each other's file (`config.c:151`,
  `remote.c:108`), and so are an `fclose` that failed and a power failure on an
  upload, which nothing syncs (`remote.c:200`). `RestartKeeps`: what an undisturbed save
  read goes on running, and from the first reload or restart what its lines describe,
  through failed saves, aborted uploads, kills and, once the directory is on disk, power
  failures. That the lines describe what was read is `SaveFaithful` for the rules and
  `RoutesPersist` for the routes, a /32 apart (section 7).
* `FramingSound`: no payload byte of a patient peer is read as a command and no
  command becomes payload. `NoStall`: a patient peer that sent everything is not left
  waiting. `SessionOwned`: a session in progress belongs to a connection whose end
  will end it, so no broken upload locks later ones out. `DigestOfUpload`: the running
  digest is that of the bytes in the file however they were cut.
  `InstallsWhatWasSent`: the program is replaced only by all that was announced, an
  ELF file with the announced digest. The last two except what follows a stolen
  session (section 7).
* `SocketOutlivesFrames`: a frame in the pool finds the raw socket open.
  `TasksDrained`: when `main` returns, `forward_task` has run to its end for every frame
  the pool accepted; what it parked is not drained (section 7). `ShutdownReturns` of
  `Router`: a request at any moment ends the process.

Why the bounds suffice. The ring of three wraps within six submissions and both fills
and empties with workers asleep. Two blocks and two threads give every overlap of two
calls with the stack empty, partly filled and full. Two slots for four keys, two in each
bucket and told apart by the interface only, are the least that collide, evict from a
foreign bucket, leave a chain of two and answer for the wrong interface; a clock of three
values separates fresh, old and expired, and two timeouts let one pass age by both. A
worker, the receive loop and the timer race for one node, which both flushers may
be about to detach; that more workers change nothing for ownership is proved, and for
`FramesLeave` a second worker makes the run too long. One pending node makes every
second key evict; chains of two overflow with the third frame; the heap block makes
the fall-back happen. Key `(2, 300)` does not fit `out_ifidx` and is sent to an
interface that does not exist. Two operators overlap two derivations, the table of
two is full with two static routes and overfull with two subnets besides, and prefixes of 0, 1 and 2
bits nest. In `route_file` a default route, the subnet of the interface and a host in it
compete for two entries, so that a load meets a connected route equal to a line, one that
is gone, and a full table. One file has more rules than fit, one a line that does not parse; the three
rules overlap, so every pair has a frame their order decides; six commands let a save
follow a load follow a save while the other operator runs three. A configuration of
two pieces is the least that can be torn and mixed; with two operators and `main`
every pair of operations overlaps; three configurations are one that reads back as
another, that other, and one more to change to. Nothing there counts, so the number of
commands, crashes and restarts is unbounded. Images of three bytes against a header of
two, a buffer of five and digest blocks of two make payload arrive in pieces, end with
a command behind it, fill a block exactly and pad into a second; two connections are
the least that steal a session; sessions begin again without end, also after a
restart. Two workers and two slots let a request find frames queued, in a worker and
none. The bounds that are not in the code are `MaxCalls` (calls of `tpool_submit`),
`MaxCommands` (commands begun), `MaxClock` (the clock stops), `HeapBlocks`/`Heap`
(what `malloc` can give), the sets of addresses, of static routes and of the timeouts
given, `PIECES` and `Versions`, `NetCap`
(tokens on their way to a connection), one ordinary line at a time behind others,
`MaxSuffix` (a program that runs from a `(deleted)` path is not upgraded there twice),
and which connection may upload what. `BLOCK`, `LENGTH`, `IBUF`, `LINE_MAX`,
`MAX_UPLOAD`, `MAX_CONFIG` (the 256 kB `putconf` accepts) and `TASK_CAP` are constants
of the code, scaled down. Larger constants are what the proofs are for.

Symmetry: threads and operators are interchangeable in the runs that check invariants
only. Run `arp` treats MACs and interface indexes as
interchangeable although it checks a refinement: that one is a safety property of
single steps, no definition names a MAC or an interface, and `ArpCache` treats them
alike too. The other runs with liveness or refinement use none.

## 5. Fairness

`ThreadPool`: every worker, and the main thread in creating workers and in joining
them, are weakly fair; a mutex is
free at every step boundary, so a thread ready to lock is not blocked for ever,
provided the scheduler runs it. Submissions, the shutdown request and spurious
wake-ups are not fair: frames need not arrive. `Forward`: workers, the timer (its
`sleep(1)` returns) and the flushes are weakly fair; the receive loop is fair only
in what it does without a frame. No fairness is assumed of the network: ARP may
never answer, and `FramesLeave` holds through the retry limit. It takes for granted that
the timer thread was started: `main` goes on with a warning when it was not
(`main.c:183`), and frames parked then stay. A worker's
disjuncts share one fairness condition because a worker is always in one place.

`Router`: `main` and each worker are weakly fair. So is the arrival of frames, because
the code needs it: a signal between the test of `g_shutdown` and `recvfrom`
interrupts nothing, and the same holds of `exit` typed at the terminal; the request is
seen with the next frame. On an interface without traffic it is not seen.

`MemPool`, `ArpTable`, `RouteTable`, `Firewall`, `ConfigStore` and `Remote` are checked
for safety only and have no fairness: a peer may fall silent at any point, and the code
sets no timeout on its connection. `NoStall` is the safe half of "every upload is
answered": the thread never waits for bytes nobody owes it.

## 6. The proofs

TLAPS checks, with no assumption but those named in the modules:

* `ThreadPoolProofs`, for every `TASK_CAP`, `POOL_THREADS`, set of requests and
  number of calls (`CapAssumption`, `ThreadsAssumption`, `RequestsAssumption`,
  `CallsAssumption`): `TypeCorrect`, `WakeupsSuffice`, `RingIsFifo`,
  `TasksConserved` and `ShutdownDrains`, the five invariants of run `pool`. The
  inductive invariant `Inv` conjoins them with two facts the code never states:
  `CreatedInv` (workers exist exactly up to `created`, all of them once `main`
  serves) and `ShutdownInv` (the flag is up exactly from the join on, nobody
  sleeps then, and a worker left only with the flag up and the ring empty). `NoLostWakeup` alone is
  inductive only with the cardinalities of the sets of workers by place
  (`AtFinite` and the step lemmas); `RingInOrder` needs the lemmas about `%` that
  start the module. `ImplementsQueue` maps ring, workers and flag to `TaskQueue` (the
  tasks of the ring in order, those in hand, those executed) and shows each step to be
  one of the abstract queue or none: taking the oldest, finishing any, closing, and
  returning from the shutdown only when all is done.
* `MemPoolProofs`, for every number of blocks and any set of threads
  (`PoolAssumption`): `TypeCorrect`, `NoBlockSharedOrLost` and `CountersRight`. For the
  first two the invariant is their conjunction; the step that matters is that
  `mp_free` finds room on the stack, `RoomToPush`: the stack holds distinct arena
  blocks and not the one being freed, so by counting it is not full. `CountersAgree`
  takes `Counted` besides: the blocks outside the pool are finitely many, and the
  difference of the two counters is their number modulo `U64`, which `Turn` and
  `PlusOne` carry across the wrap.
* `ArpTableProofs`, for every number of slots, threads and buckets, any hash function
  and any timeouts set in any order (`ArpAssumption`): `TypeCorrect`, `ChainsStaySound`, `KeysStayUnique`
  and `ImplementsMap`. A table is `Sound` if some rank falls along every link of the
  slots in use, each used slot is a head or somebody's next, and heads and links stay
  in their bucket. The rank makes every walk end (`WalkEnds`, `ChainIs`) and is what
  `ChainsSound` alone lacks to be inductive. `UnlinkSound`, `LinkSound`,
  `RefreshSound` and `AgeSlotSound` say what each operation makes of a sound table, also
  halfway through an eviction, when a slot in use is on no chain. The refinement
  maps the table to `Contents`, and each thread's place, arguments and clock to the call it
  is in, and shows that a lookup, an insertion (refresh, free
  slot or eviction of the least recently used) and an ageing pass are each the step of
  `ArpCache` of that name, or its stutter.
* `ForwardProofs`, for every number of workers, blocks, keys, interfaces, pending nodes
  and retries (`BlocksAssumption`, `KeysAssumption`, `CapsAssumption`): `TypeCorrect`,
  `OwnershipIsSingle` and `NothingLeaks`. A block's possible homes are the free set, the
  receive loop, the queue, each worker, each pending node, each flusher and the timer;
  `OwnedOnce` and `Owned` say at most one and at least one, `DistinctInv` that none of the
  sequences repeats a block, `ControlInv` what a thread's place says about its
  variables. Every action then is an instance of `Transfer`: some set of blocks leaves
  one home and enters another. The exception is `RxError`, whose block leaves its home
  for none (section 7): `NothingLeaks` is about all blocks but those it lost.
* `ConfigStoreProofs`, for every number of operators, configurations and pieces
  and any idempotent `Reread`
  (`StoreAssumption`): `TypeCorrect`, `SavesAreWhole` and `SavesAreKept`. `Alone`: a calm
  thread shares its temporary file with nobody. `Progress`: such a file holds exactly
  the pieces written so far. `Installed`: what a calm thread has renamed into place is
  whole, and no handle still leads there; the same of the file a power failure would
  bring back. `Kept`: the text of what was saved in peace is in `router.conf`, and in the
  hands of every thread that reloads, and otherwise what was saved is running; that a
  reload of a reloaded configuration changes nothing more is `TextFacts`. A handle that follows a rename is the case
  that needs care: `FollowFacts`, `InstallFacts` and `RemoveFacts` say where each one
  leads afterwards.
* `RouterProofs`, for every set of workers that is not empty and every queue
  (`CapAssumption`, `WorkersAssumption`): `TypeCorrect`, `SocketKept` and
  `GracefulShutdown` (the action property `TasksDrained`). `StartupOrder` and `TeardownOrder` say how the order of the calls in
  `main` divides its life; `PhaseInv` ties the socket, the workers and the queue to
  those phases, `LeftInv` says that a worker that left did so with the flag up and the
  queue empty.

* `RemoteProofs`, for every number of connections, any lines, uploads and sizes of
  buffer and block (`BlockAssumption`, `UploadAssumption`, `BufferAssumption`,
  `PeersAssumption`): `TypeCorrect`, `Framing`, `Answered`, `Ownership`, `DigestCorrect` and
  `Installed`, all the properties of run `remote`, and `DigestOfParts`. The module has three
  parts. `Cut(h, m, n)` says that a context has taken the first `n` bytes of `m`: whole
  blocks compressed, the rest in the buffer. `UpdateCuts` shows that `sha256_update`
  keeps it, however the bytes were cut, and `FinalIs` that `sha256_final` then gives
  the standard's `Digest`. `Streams` speaks of what a connection's peer has sent and its
  thread has not handled yet, `ibuf` and network joined: while payload is wanted it is
  the rest of the upload with ordinary lines behind it (`Payload`), otherwise lines, the
  last of which may ask for an upload a hasty peer has sent along (`Commands`), and
  `Placed` ties it to where peer and thread are. `FramingSound` and `NoStall` are what
  this says of the front and the length of the stream; neither is inductive without it.
  `Sess` ties the session to the stream of its owner: the file is what the owner has
  consumed of its upload (`SessionData`), the context a cut of the file (`HashSound`), both
  less the chunk that `upgrade_write` has written and not counted; nobody else is
  within an upload unless a session was stolen (`Undisturbed`). `DigestOfUpload` and
  `InstallsWhatWasSent`, an action property, follow from the two.

* `TableProofs`, about both tables.
  For `RouteTable`, with any number of interfaces, operators, workers and entries
  (`RouteAssumption`, `CidrAssumption`): `TypeCorrect`, `InSync`, `OnLinkWins` and
  `LongestWins`. The inductive invariant `RouteInv` adds three facts. `Control`: a
  derivation past its first test has an interface and room for its route. `Deriving`: unless
  some command is yet to derive (`Clean`), the connected routes so far are the subnets of
  the interfaces before the one being read (`SubnetsBelow`), so an address changed behind
  a derivation that runs is made good by a later one. `Deciding`: a
  worker's scan has not gone past an untouched interface whose subnet holds the
  destination, and the address it loaded from one is still there. `ConnectedInSync`
  speaks of quiet states only and is not inductive without the second, `OnLinkFirst` not
  without the third. `LongestWins` follows from the loop of `route_lookup` (`LookupIs`):
  what it holds after `k` entries is a match among them that `prefix_len` measures
  highest. It has the hypothesis `ClzOfZero >= W`, since `host_route` shows it false of the
  x86-64 build.
  For `Firewall`, with any threads, files, commands and numbers of rules
  (`FirewallAssumption`, `CidrAssumption`): `FwTypeCorrect`, `SaveReadsBack`,
  `ReloadEnds` and `ReloadNeverCloses`. The first part is about operators. `LineBack`: a
  rule that came from text, written out and read again, is the same rule, which needs
  that parsing has cut every address to its prefix (`Parsed`, `NetIs`) and holds whatever
  `ClzOfZero` is; `RulesAppend` and `RulesFirst`: the rules of a file are those of its
  lines joined. The second is the invariant `FwInv`, one conjunct per command an
  operator may be in: `Saving` (the lines made so far read back as the first of the rules
  counted, and the next ones are still in their slots), `Written`, `Opened` and
  `Loading` (the table is the rules of the lines read, as many as fit: `Holds`).
  `CommandKept` says what another operator may change meanwhile. `ReloadNeverCloses` then
  is `PrefixDecides`: the first match of a prefix is the first match of the whole.

Several of these rest on loops. What a recursive function computes is proved in two
steps: by `LoopRuns` there is a function that records the states the loop passes
through, by `Climb`, an induction over a set of numbers with a least element, an
invariant holds for each of them.

Model-checked only: `RoutesPersist`, which no proof has been written for; and, because the prover reasons about neither fairness nor `ENABLED`:
`ShutdownReturns` (of `ThreadPool` and of `Router`), `FramesLeave`, the absence of
deadlock, and the part of `ImplementsTaskQueue` that is the fairness of `TaskQueue`.

## 7. Where code and documents disagree

Two runs end in a counterexample:

* `host_route`: `prefix_len` of a /32 is `__builtin_clz(0)` (`utils.c:80`); the
  x86-64 build at `-O2` returns 31, and a /31 listed before a /32 wins. With 32,
  as ARM's instruction gives, `LongestPrefix` holds (run `routes`).
* `remote_gone`: README:28 and :216 say the upgraded router restarts itself by `execv`.
  The listening sockets of `tcp_thread` and `udp_thread` are not close-on-exec, so the
  new image inherits them, its own `bind` fails, both threads return, and remote
  management is gone until the process is restarted by hand.

Others met while modelling. The models contain them, with properties that say what is
left, but no run is kept for each:

* For the same reason `config_serialize`, which writes a static route with `prefix_len`
  (`config.c:136`, `:140`) and without the case for /32 that it has for rules
  (`config.c:47`), saves a host route as a /31, and it comes back as one; if its last bit is
  1 it then matches nothing, since `route_add` does not cut the destination to the mask.
  README:29 and :161 promise that what is saved is read again. `RoutesPersist` fails with
  `ClzOfZero` = `W` - 1 in the configuration of run `route_file`, and holds with `W`.
* When `recvfrom` fails, `rx_loop` continues without freeing its block (`main.c:99`).
* `arp_tick` reads the clock before it takes the lock (`arp_table.c:163`); an entry
  refreshed in the second between has a negative age, as an unsigned number older than
  any timeout, and is freed. `ArpCache` allows exactly this.
* README:171 says the forwarding path never calls `malloc` because `TASK_CAP <
  MP_COUNT`; frames parked in chains are not in that account.
* README:172 and `forward.c:18` say one request per chain; every frame that misses sends
  one, also when it joins a chain.
* A connection that once finished an upgrade whose `execv` failed keeps its mode, and
  its end aborts the session another connection has begun since (`remote.c:269`):
  `stolen`.
* `upgrade_exec` reads the path without the lock; a `begin` between rename and exec
  writes it anew, with the suffix `(deleted)` (`upgrade.c:70`, `:210`), and the exec
  fails with the old program already replaced.
* Payload that arrived in the same `recv` as its command stays in the buffer until
  something else arrives (`remote.c:174`); only a hasty peer sees it.
* `putconf` syncs nothing and ignores `fclose` (`remote.c:200`).
* README:159 and the help text at `terminal.c:54` document `addfw deny`;
  `fw_parse_rule` knows `drop` and `allow` only (`firewall.c:204`) and refuses `deny`.
* `config_serialize` adds up what `snprintf` would have written. Once the text exceeds the
  buffer (16384 bytes for a save, 1024 or 2048 for `showcfg`) `size - off` wraps
  (`config.c:114`) and the next `snprintf` writes behind the buffer; the test in
  `config.c:142` comes after that.
* Frames parked in pending chains when a shutdown is requested are neither sent nor freed:
  the timer takes no further pass (`main.c:72`), and `main` returns (`main.c:201`). They
  end with the process; a pass already begun may still send, also through the socket that
  `main.c:200` has closed.
* An address and a mask of an interface are two stores: a worker that reads the new
  address with the mask 0 of an interface that had none takes every destination for
  on-link (`interface.c:191`, `forward.c:257`).
* README:162 documents `exit` as saving and stopping; `cmd_exit` only stops.
* A `reload` without a file resets the ARP timeout in the configuration and not in the
  cache; a saved file lacks the password.

## 8. What is not modelled

Frame bytes, checksums and text, and with the text its length (the buffer of
`config_serialize`) and the eight rotating buffers in which `ipbuf` formats addresses for
all threads (`utils.c:54`); a command line of the remote protocol that `recv` cuts in two
(`remote.c:158`): a line is one token; the scalar settings of `config.c` beyond being
part of a version and the ARP timeout; counters other than those of the two pools; `arp_delete`, which has no caller;
the `show` commands and the UDP queries, which only read; the arithmetic of SHA-256's
compression and the parsing of a digest; the proxy-ARP decision, which only chooses
whether a request is answered, and both outcomes are drawn; failures of `ioctl`
beyond a command that changes nothing; the timer thread, detached, sending on the socket
after `main` has closed it; the rename of the new program reaching the disk after the
exec. Data races are modelled as interleaved whole loads and stores. `packet.c` and
`log.c` have no protocol worth a model; `legacy/` is an earlier program the build does
not include. The linked nodes of the pending table and the order of eviction by
`last_sent` are planned (step 6 of section 2); `Forward` has the table as a map.
