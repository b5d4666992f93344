# CXL-EBFI: models, checks and proofs

CXL-EBFI keeps lines of memory encrypted in an untrusted store. A trusted
metadata service orders the writes of each line with a counter, binds every
ciphertext to a key epoch, and erases the keys of old epochs. Verifiers at the
hosts (TVEs) encrypt and decrypt, and read under a ticket that names the current
version of a line. This directory holds TLA+ models of that system, translated
from its source, TLC runs on small instances, and TLAPS proofs for all instances.

## The system

| Component | Source | State | Operations | Talks to |
|---|---|---|---|---|
| Metadata service | `sim/cxl_ebfi_protocol.py` `MetadataService` | epoch, authoritative version per line, allocated counters, live and pending reference counts, pending reservations, consumed tokens, key handles, erased epochs | `reserve_write`, `authorize_encryption`, `commit_write`, `abort_write`, `expire_write`, `ratchet`, `revoke`, `register_tve`, `read_ticketed` | TVEs (provision, revoke), store (put) |
| TVE | same file, `TVE` | key handles, outstanding read requests, request counter | `begin_read`, `verify_ticket`, `cancel_read`, `enc`, `dec` | service (authorize, tickets), store (get) |
| Data store | same file, `DataStore` | ciphertext per line; untrusted | `put`, `get` | |
| RTL controller | `rtl/ebfi_metadata_ctrl.sv` | the service's state in registers, with a fixed number of reservation slots | the `OP_*` requests | one request per clock edge |
| Reference device and host | `sim/cxl_ebfi_ref.py` `Device`, `Host` | epoch, resident keys, counts, lines and versions; a read transaction at the host | `write`, `ratchet`, `maybe_migrate`, `verify`, `verify_stable` | |
| Rust reference | `sim/src/main.rs` | as the reference device, and the attacker's snapshots | same, `legacy_would_accept`, `build_attack` | |
| gem5 controller | `gem5-ebfi/src/ebfi_controller.cc` | LRU version cache, issue times of four queues, open requests | `delayReq`, `delayResp` | gem5 memory system |
| gem5 experiment | `gem5-ebfi/configs/ebfi_cxl.py` | warm-up, drain, measurement | `simulate`, `stats.reset` | controller, traffic generators |
| Experiment drivers | `gem5-ebfi/scripts/run_matrix.py`, `run_write_model.py`, `run_read_decomposition.py` | a directory for each case with its command and statistics, three result files | skip or launch, `extract_row`, `write_outputs` | gem5 (a child process), later invocations (through the files) |

What makes it hard: writers of one line interleave between reserve, encrypt and
commit; commits arrive in any order, also after an abort or an expired lease;
an epoch may leave the retention window while writes of it are in flight and
reads of it are under way; TVEs join late or refuse a revocation; the nonce
contains only the low bits of a counter that lives longer than a key; tickets
and data travel over an untrusted path; the hardware reuses slots whose
generation wraps; the timing model reserves turns at its units for packets that
become ready in another order, and decides at a response with what it noted at
the request; an experiment driver trusts whatever an earlier invocation, perhaps a
killed one, left in a directory.

Correctness, component by component:

- service: counts that gate erasure are exact; an unresolved reservation stays
  usable and a resolved one has no later effect; live lines stay readable by
  everyone registered; "erased" means erased everywhere; nonces are unique; a
  line is never rolled back; old epochs do get erased;
- reads: fresh, committed, at most once per request (by `FreshMemory`), and only a racing write (or
  a store that withholds data) makes an honest read fail;
- RTL: the same promises about writes with finite registers, and no confusion of
  a reused slot's reservations;
- device: needed keys stay resident, a compromise obtains no others, migration
  does not reuse a nonce, an honest read is never rejected; the Rust device does
  nothing the Python one does not, and its host is not fooled;
- timing: units are never oversubscribed, nothing leaves before its cryptography is
  done, delays do not grow with the load, the cache is LRU, and statistics
  should not be reset with warm-up requests in flight (see below: they may be);
- drivers: what is reported with `--force` was measured, to the end, on the exact case,
  with the settings asked for; without it, every row can be traced to a measurement
  under the same label, and command.json says to which; output files that belong
  together agree.

## Modules

| Module | What it is |
|---|---|
| `MetadataService` | the service, its TVEs' key handles and `enc`; one action per method |
| `TicketedReads` | extends it with the read path; every service step interleaves with every read step |
| `FreshMemory` | abstract: a read returns, once, content that was current during the read; implemented by `TicketedReads` |
| `WriteLedger` | abstract: counters only grow, writes resolve once, publication only goes up, erasure only of unreferenced old epochs; implemented by `MetadataService` and by `RtlMetadataController` |
| `RtlMetadataController` | the SystemVerilog controller |
| `EpochDevice` | the reference device and the host's stable read |
| `RustDevice` | the Rust device and host, and the answers its attacker builds; implements `EpochDevice` |
| `TimingController` | the gem5 controller with the packets around it, and the phases of an experiment |
| `ExperimentRunner` | the three drivers, what gem5 leaves on disk, and kills at any step |
| `MetadataServiceProofs` | theorems about `MetadataService`, and that it implements `WriteLedger` |
| `TicketedReadsProofs` | theorems about `TicketedReads`, and that it implements `FreshMemory`; extends the former |
| `RtlMetadataControllerProofs` | theorems about `RtlMetadataController`, and that it implements `WriteLedger` |
| `EpochDeviceProofs` | theorems about `EpochDevice` |
| `RustDeviceProofs` | that `RustDevice` implements `EpochDevice`, and what follows; uses the former |
| `TimingControllerProofs`, `ExperimentRunnerProofs` | theorems about `TimingController` and `ExperimentRunner` |
| `ModuloLemmas` | facts about remainders that three of them need |
| `MC*` | instances and symmetry sets for TLC |

Definitions whose comment begins with "Faulty:" are not part of any
specification. Each is a plausible error in the definition below it; substituting
it makes the named property fail, which shows that the property depends on that
code.

### How the models correspond to the code

*MetadataService.* Variables carry the names of the fields. The dict of pending
reservations, with its state string, is the two sets `pending` and `encrypted`.
`auth` has `NoVersion` where the dict has no entry. `handles[t][e]` is "absent",
"held" or "dropped" as the TVE's dict has no entry, a key, or `None`. A TVE's
writer identity is its own number and sessions do not change, as in the code,
where a TVE is never re-registered. MACs are ideal: calls range over reservations
that were issued. A call that returns `False` or raises before changing anything
is a stuttering step. `TryRetireEpochs` is part of every action whose method ends
with `_try_retire_epochs`, and reads the counts the method leaves; the
refusal of a commit to an erased epoch skips it, as the code does. `Encrypt` is
all of `enc`: it uses up the right first and looks the key up afterwards.
`RevokeAll` asks the TVEs in order and stops at the first that declines. The
shipped `TVE.revoke` always acknowledges, but its interface and the self test
(`cxl_ebfi_protocol.py:978`) allow a refusal: `MayRefuse` selects.
`AtomicReservation` is the constructor's switch for the broken baseline.

*TicketedReads.* A ticket is a member of a growing set, so it may be late,
repeated or misdelivered with no further action. `protocol_read` is the sequence
`BeginRead`, `ReadTicketed`, `VerifyTicket`, `Accept` or `Reject` (`CancelRead`
after a rejected ticket), and other hosts' calls may come between any two.
`Opens` is AES-GCM: key, nonce and AAD of the version must equal those of the
ciphertext, and the nonce has only the low bits of the counter. One guard is an
assumption about the callers and not a test of the code: `ReadTicketed` is called with request
ids that `BeginRead` has made (`n <= ridCounter[t]`). `read_ticketed` signs whatever id it is
given; all callers in the repository call `begin_read` first, and the freshness of a ticket rests
on it.

*RtlMetadataController.* Actions are the `case` branches that change a register.
A request acts only when its fields equal the registers of its slot, so actions
name the slot; a replayed token is then one that still equals a slot's registers.
Counts are 16 bits wide and wrap; generations wrap at `GenMod`; epoch and counter
stop at their limits, as the code does. A request that gets an error status is
a stuttering step.

*EpochDevice.* `Device` is sequential, so each method is one atomic action; the
concurrency is in the host's read transaction, which fetches version, data and
version in separate steps. `Opens` is `verify`, which `verify_stable` ends with; a
bare `verify` is a read whose two version fetches and verdict fall together. A
migration keeps content and counter and takes a
nonce of the new epoch's key.

*RustDevice.* Translated from `main.rs` by itself and then related to
`EpochDevice`, because the two programs are kept in step by hand ("the parallel,
systems-language implementation of the authoritative evaluation engine"). A HashMap's
missing entry is 0 (`or_insert(0)`, `unwrap_or(0)`); `saturating_sub` is `WindowStart`.
Here the writer is part of a version and of the AAD. `build_attack` and the
two acceptance rules change no state, so an attack is a set of answers that
an invariant ranges over. `history` keeps what `run_trial` snapshots: written
lines, not migrated ones. For the refinement the writer is forgotten, and the
number of times a nonce was used is the number of copies made with it.
`EpochDevice` has no reads there: `main.rs` binds its stable read to tests.

*TimingController.* gem5 has a clock; the model keeps times relative to now, so they
stay bounded: a due time is how much is left, and `Tick` takes one from all of
them. It is enabled when nothing is due, since events of a tick run before the
next. A queue's next issue time is at least "now", so one in the past is 0.
`delayReq` and `delayResp` are split by kind of packet and mode, one action for
each path through them; only reads and writes occur, as the traffic
generators make no others. The cache's map and list are one sequence for each set.
`flight[p].aead` and `.metadata` say when the controller reckoned the packet's AEAD
operation and lookup to finish: history, as is `later`, the order in which lines
were last used. Links, bridge and
memory are external; they move a packet on, and memory takes one of
`MemoryLatencies`. `ResetStats` runs after everything else of its tick.
Statistics counters are output only and left out.

*ExperimentRunner.* The three scripts have the same control and differ in their
tables, so one module models them and `program` says which one runs. A case is a profile
at a point; its directory is named by the profile and by `Label` of the point, any function:
the scripts print periods with `{period:g}`, so two points may share a label, and then a
directory. Settings that no label has are `config`. Base rows are looked up by the exact point, and
command.json has the exact point and the settings.

A stats.txt is described by what `extract_row` makes of it: `stat` answers 0.0 for what is
missing and averages over nothing are 0.0. Before gem5 exits the file is "empty" and gives a
row like any other, with latency 0.0, or "partial", with a latency that is not the final
one. A finished one is "complete", or "idle": no packet of the kind that is averaged, as with
`--read-percent` 0 or 100, so that its row reads 0.0 too (`ReadsZero`). gem5 is external: it
creates the file when it starts, fills it at `m5.stats.dump` and exits; which of the two a finished
run is, is left open.

A gem5 that fails and a driver that is killed together with it end the invocation and leave the disk
as it is. Two history variables record what the disk does not: `marks` says of a directory whether an
invocation has ended since gem5 last opened its stats.txt ("old"), whether that gem5 was stopped
("stopped"), and whether command.json was rewritten since ("unopened"); `torn`, whether an
invocation was killed while it wrote the outputs and none has finished since. Rows are a set:
a sweep that lists a point twice measures it twice and averages it twice, which
no property is about.

## Runs

All runs but those of `TimingController` use `CHECK_DEADLOCK FALSE`: the bounds on
epochs, tokens and reads stop the model where the program would go on (and the RTL
really stops at its last epoch when nothing is left to cancel). The timing model
is unbounded, so its runs check for deadlock too.

| Run | Instance | Shows |
|---|---|---|
| `service` | 2 lines, 2 TVEs that may refuse, 3 writes, 4 epochs, window 2, counter field of 3 values | type invariant, exact counts, usable reservations, readable lines, complete erasure, no rollback, no late effect |
| `nonces` | 1 line, 1 TVE, 4 writes, 3 epochs, counter field of 3 values, fair lease expiry | the forced ratchet precedes the wrap; erasure is prompt; old epochs are erased or hold a live line; implements `WriteLedger` |
| `reads` | 2 lines, 1 TVE, 2 reads, 3 writes, 3 epochs, counter field of 2 values | implements `FreshMemory`, so reads are fresh and happen once; tickets for another line are useless; only a racing write makes a read fail |
| `relay` | 2 lines, 2 TVEs, 1 read each | tickets for another TVE are useless: reads are fresh |
| `rtl` | 2 lines, 2 slots with one-bit generations, 4 epochs, counters to 2 | exact hardware counts, spent tokens stay dead, unique nonces; implements `WriteLedger` |
| `device` | 2 lines, 5 epochs, 3 writes each, counter field of 2 values, 1 read transaction | keys, nonces, what a compromise obtains; honest reads are never rejected, accepted content is current |
| `rust` | 2 lines, 2 writers, 4 epochs, 4 writes each, counter field of 3 values | the attacks; implements `EpochDevice`, its counts and resident keys included |
| `timing` | 3 packets, 3 lines, one set of two ways, all three modes | spacing at the AEAD unit, nothing leaves early, bounds on delay and on the optimistic window, LRU |
| `runner` | each of the 3 drivers, 2 invocations of a sweep with two periods that print alike or of one that shares a point and a label with it, 2 settings, with and without `--force` | a forced sweep reports only what it measured, also where labels coincide; where every other row comes from; command.json tells what stats.txt is of; the output files agree unless a kill fell between them |
| `retention_comment` | 1 line, 4 epochs | violation, see below |
| `warmup_drain` | 2 packets, serialized persistence | violation, see below |
| `baseline_delay` | 2 packets, baseline mode, a commit latency | violation, see below |

The bounds are the smallest at which the interesting cases meet. A counter field
of three values (two in `reads` and `device`) makes the wrap happen within
the writes allowed; with a window of two, four epochs let an epoch be created, used, left behind
and erased while a reservation of it is open (the device needs five to fill its
resident set); three writes give two racing
writes over an earlier version, four a late commit after the wrap; two TVEs
are enough for one to refuse after the other has dropped its key; generations of
one bit wrap within three reservations of a slot, and the four that the counters
allow can all fall to one slot. Three packets are one at work at a unit, one
that waits and one that overtakes; three lines compete for two ways. Two invocations are
one that leaves directories behind, finished or stopped, and one that resumes or forces over them;
the theorems hold for any number. Of the three periods two print alike and one does not, and of the two sweeps
one holds the two that print alike and the other one of each, so with two settings a case can
find its own result, another case's of the same sweep, and one left under other settings. Lines,
tokens and transactions are symmetric where the cfg says so; runs that check liveness use no symmetry.

### Fairness

Only `nonces` assumes any, for `OldEpochsErased`: for each token, if its reservation stays open, the
service eventually expires it. The docstring of `expire_write` says that wall-clock
lease validation is outside the program and that the method is what happens after
it decides; this is that decision being made some day. Nothing else is assumed
fair: no writer has to finish, no epoch has to advance. `MayRefuse` is
FALSE there, because a TVE that always refuses keeps its key for ever.

### Bounds on delay

`DelayBounded` and `OptimisticWindowBounded` hold under any load, with bounds
that depend only on the latencies and the number K of packets. They
need units that do not fall behind packets which come again as soon as they are done. The
properties leave this to the instance, and the theorems state it:

- `UnitsKeepUp`: `AeadIssue` at most `AeadLatency`; `MetadataIssue` at most `HitLatency`
  plus `AeadLatency`, the least time a verified read holds a packet; `ControlIssue` at most
  the persistence latencies that are configured, of which the reservation's is
  followed by encryption; a hit no slower than a miss;
- `LookupsKeepUp`, for the optimistic window only: `MetadataIssue` at most `AeadIssue`.
  Without it TLC finds that lookups of optimistic reads outlive their reads
  and pile up: not even a limit on outstanding packets holds that queue.

The code checks neither. The profiles and sensitivity sweeps of the scripts satisfy the first, `anchor_only`,
which has no AEAD, included; those that run optimistic mode satisfy the second.

The ratchet unit is the exception: it is busy for a whole `HkdfLatency`, and if that is longer than
`RatchetEvery` AEAD issues the ratchets of packets on their way wait for each other, so
`RatchetBound` is K of them; otherwise no ratchet waits. (A bound without that
case looks right on the instance, and the attempt to prove it showed that it is not.)
The bounds of the instance are tight: smaller by
one, each is violated. They are larger than one would like, because
turns at the AEAD unit are given in call order: a packet may wait for another's
metadata miss although the unit is idle meanwhile.

### Where the code differs from what is said of it

`ref.py:76` says of `RETENTION_W`: "epoch keys retained: current ..
current-(W-1); older erased". `ratchet` keeps an older key while a line is stored
under it, and nothing forces such a line to be rewritten or migrated. Run
`retention_comment` shows two ratchets after which epoch 1's key is resident; the
self test expects exactly that for a cold line. `ForwardIntegrity` is what
does hold: after a ratchet the resident keys are those of the window and of epochs
in which a line is stored, and none that an earlier ratchet erased.

`SUPPLEMENT.md:46` of gem5-ebfi says "Statistics are reset only after warm-up requests
drain". `ebfi_cxl.py:222` simulates a fixed `drain_us` and resets whatever is still
in flight. Run `warmup_drain` uses a drain long enough for a single write, but with
serialized persistence a second one queues behind the first and is answered after
the reset. The shipped sweep meets this with the default of 5 us, too: profiles
`ebfi_slow200_serial` and `ebfi_slow1000_serial` (`run_write_model.py:21`) have mean write
latencies of 8.8 us and 44.7 us at a period of 20 ns (`SUPPLEMENT.md:153`). Theorem
`DrainSuffices` says how long is long enough: the bounds on delay, one way out and one
back, and the slowest memory.

`README.md:15` of gem5-ebfi says "baseline: identical CXL-like link and memory, with no
EBFI delay". `delayReq` returns early in that mode, but `delayResp` tests the mode for
reads only, so with `write_commit_latency` set a baseline write's response is delayed
and touches the version cache: run `baseline_delay`. That latency is all there is to it:
theorem `BaselineNoDelay`.

### Resuming a sweep

Without `--force` the drivers take any stats.txt for the measurement of the case whose
label names its directory (`run_matrix.py:237`). `RowsTraceable` says, without a hypothesis, what
that comes to. A row was measured by the invocation on its case; or, without `--force` only, it was
measured for an earlier case of the same sweep whose label coincides (`--periods-ns 20,20.00001`
measures once and reports twice), or it was found in the directory, where some earlier invocation
had measured a case with the same label. In that last case the settings may be others than
those asked for, and if the last gem5 in that directory was stopped, the row may be unfinished
and looks like any other. If such a row, or a finished one of an idle run, reads 0.0 and is a base,
`write_outputs` divides by zero before it writes anything.

With `--force` none of this matters (`ForcedResultsClean`), not even labels that coincide: the
second case overwrites the directory of the first, whose row has been extracted by then. Nobody
can tell from the label what a stats.txt was measured on; from command.json one can
(`CommandTells`), unless the last gem5 was stopped before it opened stats.txt. No document of
the repository promises more of a resumed sweep, and the sweep scripts beside these drivers
pass `--force`, so these are limits stated here and not findings.

## Proofs

Every theorem is proved for all values of the constants that the named assumptions of
its module allow (finite sets, positive limits): any number of lines, TVEs, tokens,
epochs, packets, any width of fields and registers, any latencies. Each component has one
inductive invariant, a conjunction of named parts, and one lemma for each action or group of
actions that can disturb a part.

### The metadata service

| Theorem | Property |
|---|---|
| `TypeCorrect` | `TypeOK` |
| `CountsExact` | `AccountingExact` |
| `ReservationsUsable` | `PendingUsable` |
| `LinesReadable` | `LiveReadable` |
| `ErasureComplete` | `ErasedEverywhere` |
| `NoncesUnique` (assuming `AtomicReservation`) | `NonceUnique` |
| `VersionsAdvance` | `NeverRolledBack` |
| `LateCallsHarmless` | `NoLateEffect` |
| `ErasurePrompt` (assuming no refusals) | `PromptErasure` |
| `ServiceImplementsLedger` (assuming `AtomicReservation`) | `ImplementsWriteLedger` |

The properties are not inductive by themselves. `PendingUsable` needs the counts
to be exact (`CountInv`), because eligibility looks only at the counts; the
counts need to know which tokens are resolved (`TokenInv`); readability by later
TVEs needs that an epoch which is dead anywhere stays dead and unreferenced
(`KeyInv`, which also says that the service keeps the key of every epoch that is not erased, so
that a round some TVE refused is found again by the next pass, and that no TVE that registered in
between is left out of it); that a line never goes back in epoch, although commits compare
only counters, needs that counters and epochs of a line's reservations are
ordered alike (`OrderInv`); and what the store holds must have been sealed
(`SealInv`). Nonce uniqueness adds a window argument (`NonceInv`): the counters reserved for
one line in one epoch lie in an interval no longer than the number of writes
counted for it, which stays below the width of the field, so they differ
modulo the width (`ModuloDistinct`). For the refinement the same invariant makes pending
reservations distinct writes of the ledger, and the exact counts make an
erased epoch one that no write and no line refers to.

### Ticketed reads

| Theorem | Property |
|---|---|
| `ReadsTyped` | `ReadsTypeOK` |
| `ReadsFresh` (assuming `AtomicReservation`) | `FreshRead` |
| `UnracedReadsOpen` | `UnracedReadOpens` |
| `ReadsImplementMemory` (assuming `AtomicReservation`) | `ImplementsFreshMemory` |

The service's invariant is carried over, since read steps leave it alone, and joined by
four facts: a ticket names a version that has been published on its line
(`TicketInv`); what the store holds was published (`PublishedInv`); a request id is made
once and never used before (`RequestInv`); a ticket for a request was issued after it, so it
is no older than the version current then (`FloorInv`). That an accepted read has
the version of its ticket, although AES-GCM sees only the low bits of the counter, is
nonce uniqueness (`OpenedIsVerified`): the ciphertext that opens and the one
that was verified have the same key and nonce, so they are the same.

### The RTL controller

| Theorem | Property |
|---|---|
| `RtlTyped` | `TypeOK` |
| `RtlCountsExact` | `CountsExact` |
| `RtlSpentDead` | `SpentTokensDead` |
| `RtlNoncesUnique` | `NonceUnique` |
| `RtlImplementsLedger` | `ImplementsWriteLedger` |

Epochs and counters stop at their limits (`EpochInv`), and with fewer than 2^16 lines
and slots a count that is updated modulo 2^16 is the number of lines or slots
(`LiveCounted`, `WaitingCounted`). A reused slot's generation may wrap to that of a
spent token: what keeps the token dead is that it also names a line's counter, which is never
allocated twice (`TokenInv`). The same fact makes nonces unique (`SealInv`).

### The devices

| Theorem | Property |
|---|---|
| `DeviceTyped` | `TypeOK` |
| `DeviceKeysResident` | `NeededKeysResident` |
| `DeviceNoncesUnique` | `NonceUnique` |
| `DeviceReadsHonest` | `HonestReadNotRejected` |
| `DeviceReadsCurrent` | `AcceptedIsCurrent` |
| `DeviceForwardIntegrity` | `ForwardIntegrity` |
| `RustImplementsPython` | `ImplementsPython` |
| `RustTyped` | `TypeOK` |
| `RustNotFooled` | `OnlyLegacyFooled` |

The store agrees with the trusted versions (`StoreInv`), so the counts are those of the
stored lines (`CountInv`) and a key is resident while its epoch is in the window or
holds a line (`KeyInv`). `WindowInv` bounds the counters a line has used in the current
epoch by the writes that the guard has counted, and one: the
bootstrap ciphertext or a migrated one, which the guard does not count. That is why
the guard compares with one less than the width, and `SealInv` follows: ciphertexts with the
same key and nonce are the same. `ReadInv` says that what a read in progress has seen
lies in the line's past in that order; versions never return, so two equal ones
enclose no change.

`RustDeviceProofs` uses these theorems through the refinement: the invariant of the
Python device, at the mapped state, holds of the Rust one, and it is what makes each
copy of the Rust device a new one. `saturating_sub` makes no difference because there is no epoch
0 to keep. `OnlyLegacyFooled` adds that a snapshot is a copy made with the version it carries
(`HistoryInv`).

### The timing controller

| Theorem | Property |
|---|---|
| `TimingTyped` | `TypeOK` |
| `CacheMostRecent` | `CacheIsMostRecent` |
| `AeadTurns` | `AeadSpaced` |
| `NothingEarly` | `NothingLeavesEarly` |
| `DelaysBounded` (assuming `UnitsKeepUp`) | `DelayBounded` |
| `WindowBounded` (assuming `UnitsKeepUp` and `LookupsKeepUp`) | `OptimisticWindowBounded` |
| `DrainSuffices` (assuming `UnitsKeepUp` and a drain as long as a packet may take) | `ResetAfterDrain` |
| `BaselineNoDelay` (assuming that a commit takes no time) | `BaselineAddsNoDelay` |

Each operation of the controller moves one packet, gives it at most one turn at the AEAD
unit, releases it no earlier than its own cryptography is done, and
uses at most one line (`Good`); the invariants need look at no more of it
than that. `AeadInv` says that no turn given is later than the next one allows. The cache
needs that use orders the lines (`CacheInv`) and what erasing a line, or the last one of a full
set, and putting one in front does to a sequence (`FrontOrder`).

For the bounds on delay it is not enough to know how far ahead a queue's next issue is: the
packets that took the turns must be known still to be waiting. `Backlog` says so for any
unit and any measure of how long each packet still waits: from any time t on, the turns given
are no more than the packets that wait at least until t. A packet that comes
waits for nothing yet, so at most K - 1 turns are ahead of it (`BacklogRoom`); it accounts for its
own (`BacklogTake`); and a tick moves the next issue and all packets together
(`BacklogTick`). `DelayInv` has four backlogs, of packets that wait as long as they are due:

- `ControlInv` and `LookupInv`, of persistence and of verified lookups, whose operations are
  ready when they are called for, so that no turn is left out;
- `CryptoInv`, of AEAD with the slowest step before it taken off: a turn may be left idle for as
  long as that step takes, and a lookup or reservation delays those behind it by its own interval;
- `RatchetInv`, of ratchets with all that comes before them taken off.

`RatchetPaceInv` is for ratchets that take no longer than the writes between them: those writes
have moved the AEAD queue on, so the ratchet unit is free again when the next is due.

`OptimisticInv` is the backlog of lookups of optimistic reads that are still on their way. A read
that comes back stops waiting for its lookup and waits for AEAD instead: the backlog loses it,
and `PaceInv`, that the lookup queue is ahead of the AEAD queue by no more than the
reads on their way account for, pays for the loss. `InTimeInv` follows one read's lookup
from request to answer. `DrainInv` adds up what is left of a packet's way.

What a packet noted at its request is what the response finds (`NotedInv`), and `Hop` states once,
for every action, the one packet it moves and what it does to the queues.

### The experiment drivers

| Theorem | Property |
|---|---|
| `RunnerTyped` | `TypeOK` |
| `ForcedResults` | `ForcedResultsClean` |
| `RowsTraced` | `RowsTraceable` |
| `CommandsTell` | `CommandTells` |
| `FilesConsistent` | `FilesAgree`: raw results and summaries agree unless a kill fell between them |

`Label` is any function of the points, so the theorems hold whether or not labels coincide.
The files say nothing about how they came about, so the invariant follows the invocation
that is writing them. `CaseInv` says that the command of the current case is in its directory and
that once gem5 has exited with 0 the statistics there are finished and its own; `DirInv`, that a
directory holds statistics of cases with its own label. `OriginInv` is the heart: statistics on disk
are old (finished, or of a stopped gem5), or of the case at work, or have become a row of
the invocation, so whatever an unforced invocation reuses has an origin that `RowsTraceable` allows.
That an inherited row stays one needs `OldInv` and `LaunchInv`: without `--force`, gem5 runs only where
there are no statistics, and only statistics are old. `IdleInv`, that an ended invocation leaves no
rows, lets the next one begin clean; `FilesInv` relates the files already written to the rows while
the others are still old. `StatsStep`, `MarksStep` and `RowsStep` state once what any step does to a
directory, its marks and the rows, so the invariants need not go through the actions each.

### Only model-checked

`OldEpochsErased`, because liveness and ENABLED are outside the prover's reach. The three
properties that are violated are refuted by TLC; two of them have a theorem that says when
they hold, and `ForwardIntegrity` takes the place of the third. The baseline with `AtomicReservation = FALSE`
has no run of its own: the theorems that do not assume it cover it.

## Not modelled

- Byte layouts of nonce and AAD, key derivation, MACs and AES-GCM themselves: they
  are ideal, and only what makes two inputs differ is kept.
- `make_nonce`'s range errors: unreachable below 2^64 writes of a line.
- A ciphertext handed to `commit_write` other than the one `enc` produced:
  the interface does not bind the two, and the model passes the right one.
- Reset of the RTL: it clears every register, so it is the initial state; its README leaves the
  persistence journal out.
- A gem5 that outlives its killed driver, output files and command.json cut short by a kill inside
  one write, and the arithmetic of means and confidence intervals.
- Test and trial drivers (`run_trial`, `_run_three_writer_schedule`, `run_protocol_trace`,
  `make_traffic`): a `Next` is any interleaving of the operations, which contains every schedule
  they draw, and is mapped to none of them.
- Test harnesses, latencies and random choices of the trials, statistics,
  plots, workload generation and the probabilistic channel.
- `src/tla/CXL_EBFI_CrashRecovery.tla`: a design model with no program behind it.

## Plan

1. Done: `MetadataService`, its proofs, `TicketedReads` and `FreshMemory`.
2. Done: `WriteLedger`, `RtlMetadataController`, `EpochDevice`.
3. Done: `RustDevice`, shown to implement `EpochDevice`, and `TimingController`.
4. Done: `ExperimentRunner` and its proofs.
5. Done: proofs of the service's and the RTL's refinement of `WriteLedger`, of the ticketed
   reads and their refinement of `FreshMemory`, of both devices, and of the timing
   controller with its bounds on delay.
6. Left: reads against the RTL's ticket snapshots, and `EpochDevice` as a
   `FreshMemory` whose lines start published; the ledger's
   own invariant (nothing erased is referenced).
