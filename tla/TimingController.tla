--------------------------- MODULE TimingController ---------------------------
(***************************************************************************)
(* The gem5 timing model: EbfiController, which delays every memory        *)
(* request and response by what trusted-version lookup, AES-GCM, write     *)
(* persistence and ratchets would take, and the experiment around it       *)
(* (configs/ebfi_cxl.py): warm-up, drain, reset of the statistics,         *)
(* measurement.                                                            *)
(*                                                                         *)
(* The code adds and compares ticks only with the current one, so every    *)
(* time is kept relative to now: 0 is "now or earlier", and Tick moves all *)
(* of them one nearer.  The model is finite without a bound on time.       *)
(***************************************************************************)
EXTENDS Integers, Sequences, FiniteSets

CONSTANTS
    Packets,           \* max_outstanding_reqs packets, reused
    Lines,             \* line numbers: addr / lineSize
    Modes,             \* the modes a run may have been configured with
    Entries, Assoc,    \* metadata_cache_entries, metadata_cache_assoc
    HitLatency, MissLatency, MetadataIssue,
    AeadLatency, AeadIssue,
    ReservationLatency, CommitLatency, ControlIssue,
    RatchetEvery, HkdfLatency,
    MemoryLatencies,   \* what link and memory may take, there and back
    DrainTicks         \* drain_us

ASSUME PacketsAssumption == IsFiniteSet(Packets) /\ Lines \subseteq Nat
ASSUME ModesAssumption == Modes \subseteq {"baseline", "optimistic", "verified"}
ASSUME LatenciesAssumption ==
    /\ {HitLatency, MissLatency, MetadataIssue, AeadLatency, AeadIssue, ReservationLatency,
        CommitLatency, ControlIssue, RatchetEvery, HkdfLatency, DrainTicks} \subseteq Nat
    /\ MemoryLatencies \subseteq Nat

\* The constructor's fatal_if.
ASSUME CacheAssumption ==
    /\ Entries \in Nat /\ Assoc \in Nat
    /\ Entries > 0 => Assoc > 0 /\ Entries % Assoc = 0

Sets == IF Entries = 0 THEN 0 ELSE Entries \div Assoc

VARIABLES
    mode,
    cache,                  \* set -> its lines, the most recently used first
    metadataNextIssue, aeadNextIssue, writeControlNextIssue, ratchetNextIssue,
    writesSinceRatchet,
    requests,               \* packets between request and response -> RequestState
    flight,                 \* packet -> where it is
    stage, drainLeft,       \* of the experiment
    later                   \* history: <<a, b>> if line a was used no earlier than line b

cacheVars == <<cache, later>>
issueVars == <<metadataNextIssue, aeadNextIssue, writeControlNextIssue, ratchetNextIssue,
               writesSinceRatchet>>
stageVars == <<mode, stage, drainLeft>>
vars == <<cacheVars, issueVars, stageVars, requests, flight>>

Idle == [phase |-> "idle"]

\* "due" is when the packet leaves its phase; "aead" and "metadata" are history:
\* when the packet's own decryption or encryption and version lookup are done.
Flight(phase, isRead, line, due, aead, metadata) ==
    [phase |-> phase, isRead |-> isRead, line |-> line, due |-> due,
     aead |-> aead, metadata |-> metadata]

RequestState(isRead, latency, ready) ==
    [isRead |-> isRead, metadataLatency |-> latency, metadataReady |-> ready]

Init ==
    /\ mode \in Modes
    /\ cache = [s \in 0..(Sets - 1) |-> <<>>]
    /\ later = {}
    /\ metadataNextIssue = 0 /\ aeadNextIssue = 0
    /\ writeControlNextIssue = 0 /\ ratchetNextIssue = 0
    /\ writesSinceRatchet = 0
    /\ requests = [p \in {} |-> Idle]
    /\ flight = [p \in Packets |-> Idle]
    /\ stage = "warmup" /\ drainLeft = 0

-----------------------------------------------------------------------------
(* The trusted-version cache.                                              *)

Larger(a, b) == IF a >= b THEN a ELSE b
Members(s) == {s[i] : i \in DOMAIN s}

\* Where the line is found, or else the place that a new one takes: the next,
\* or in a full set the last.
Place(s, l) ==
    IF l \in Members(s) THEN CHOOSE i \in DOMAIN s : s[i] = l
    ELSE IF Len(s) < Assoc THEN Len(s) + 1 ELSE Len(s)

\* Faulty: a line used again stays where it is.
MoveToFrontFifo(s, l) ==
    IF l \in Members(s) THEN s
    ELSE LET k == Place(s, l)
         IN  [i \in 1..k |-> IF i = 1 THEN l ELSE s[i - 1]]

\* erase or pop_back, then push_front: the lines before that place move back.
MoveToFront(s, l) ==
    LET k == Place(s, l)
    IN  [i \in 1..Larger(Len(s), k) |->
            IF i = 1 THEN l ELSE IF i <= k THEN s[i - 1] ELSE s[i]]

Hit(l) == Entries > 0 /\ l \in Members(cache[l % Sets])
LookupLatency(l) == IF Hit(l) THEN HitLatency ELSE MissLatency

Used == {x[1] : x \in later}

\* What lookupMetadata and touchMetadata both do to the cache.
UseLine(l) ==
    /\ IF Entries = 0 THEN UNCHANGED cache
       ELSE cache' = [cache EXCEPT ![l % Sets] = MoveToFront(@, l)]
    /\ later' = {x \in later : x[2] # l} \cup {<<l, x>> : x \in Used \cup {l}}

-----------------------------------------------------------------------------
(* The four issue queues.                                                  *)

\* Faulty: the next issue is reckoned from when the operation was ready.
ScheduledFromReady(ready, next, issue, latency) ==
    [finish |-> Larger(ready, next) + latency, next |-> Larger(ready + issue, next)]

\* Faulty: the unit is held until the operation is finished.
ScheduledUnpipelined(ready, next, issue, latency) ==
    [finish |-> Larger(ready, next) + latency, next |-> Larger(ready, next) + latency]

Scheduled(ready, next, issue, latency) ==
    [finish |-> Larger(ready, next) + latency, next |-> Larger(ready, next) + issue]

ScheduledMetadata(ready, latency) ==
    Scheduled(ready, metadataNextIssue, MetadataIssue, latency)

ScheduledAead(ready) == Scheduled(ready, aeadNextIssue, AeadIssue, AeadLatency)

\* A persistence step that takes no time takes no turn either.
ScheduledControl(ready, latency) ==
    IF latency = 0 THEN [finish |-> ready, next |-> writeControlNextIssue]
    ELSE Scheduled(ready, writeControlNextIssue, ControlIssue, latency)

ScheduledRatchet(ready) == Scheduled(ready, ratchetNextIssue, HkdfLatency, HkdfLatency)

-----------------------------------------------------------------------------
(* delayReq, delayResp, and the packet's way through link and memory.      *)

\* The traffic generator is running and has a packet to spare.
CanRequest(p) == stage # "drain" /\ flight[p] = Idle

Accept(p, state, packet) ==
    /\ requests' = [q \in DOMAIN requests \cup {p} |-> IF q = p THEN state ELSE requests[q]]
    /\ flight' = [flight EXCEPT ![p] = packet]

\* delayReq of a read: no delay.  Optimistic mode issues the lookup now.
ReadRequest(p, l) ==
    LET latency == IF mode = "baseline" THEN 0 ELSE LookupLatency(l)
        lookup == ScheduledMetadata(0, latency)
        ready == IF mode = "optimistic" THEN lookup.finish ELSE 0
    IN  /\ CanRequest(p)
        /\ Accept(p, RequestState(TRUE, latency, ready),
                     Flight("outgoing", TRUE, l, 0, 0, ready))
        /\ IF mode = "baseline" THEN UNCHANGED cacheVars ELSE UseLine(l)
        /\ metadataNextIssue' =
              IF mode = "optimistic" THEN lookup.next ELSE metadataNextIssue
        /\ UNCHANGED <<aeadNextIssue, writeControlNextIssue, ratchetNextIssue,
                       writesSinceRatchet, stageVars>>

BaselineWriteRequest(p, l) ==
    /\ mode = "baseline" /\ CanRequest(p)
    /\ Accept(p, RequestState(FALSE, 0, 0), Flight("outgoing", FALSE, l, 0, 0, 0))
    /\ UNCHANGED <<cacheVars, issueVars, stageVars>>

\* Without ratchets nothing reads writesSinceRatchet, and it stays 0.
RatchetDue == RatchetEvery # 0 /\ writesSinceRatchet + 1 >= RatchetEvery

\* delayReq of a write: persist the reservation, encrypt, ratchet if due.
WriteRequest(p, l) ==
    LET control == ScheduledControl(0, ReservationLatency)
        aead == ScheduledAead(control.finish)
        ratchet == ScheduledRatchet(aead.finish)
        delay == IF RatchetDue THEN ratchet.finish ELSE aead.finish
    IN  /\ mode # "baseline" /\ CanRequest(p)
        /\ Accept(p, RequestState(FALSE, 0, 0),
                     Flight("outgoing", FALSE, l, delay, aead.finish, 0))
        /\ writeControlNextIssue' = control.next
        /\ aeadNextIssue' = aead.next
        /\ ratchetNextIssue' = IF RatchetDue THEN ratchet.next ELSE ratchetNextIssue
        /\ writesSinceRatchet' = IF RatchetDue \/ RatchetEvery = 0 THEN 0
                                 ELSE writesSinceRatchet + 1
        /\ UNCHANGED <<metadataNextIssue, cacheVars, stageVars>>

\* The link has more buffers than there can be packets: it never refuses one.
Send(p) ==
    /\ flight[p].phase = "outgoing" /\ flight[p].due = 0
    /\ \E latency \in MemoryLatencies : flight' = [flight EXCEPT
          ![p] = [@ EXCEPT !.phase = "memory", !.due = latency]]
    /\ UNCHANGED <<cacheVars, issueVars, stageVars, requests>>

\* Faulty: the state of an answered request stays behind.
ForgetNothing(p) == UNCHANGED requests

Forget(p) == requests' = [q \in DOMAIN requests \ {p} |-> requests[q]]

AtMemory(p, isRead) ==
    /\ flight[p].phase = "memory" /\ flight[p].due = 0
    /\ requests[p].isRead = isRead

Release(p, delay, aead, metadata) ==
    flight' = [flight EXCEPT ![p] = [@ EXCEPT !.phase = "incoming", !.due = delay,
                                              !.aead = aead, !.metadata = metadata]]

\* delayResp of a read.  Optimistic mode waits for AEAD only.
OptimisticReadResponse(p) ==
    LET aead == ScheduledAead(0)
    IN  /\ mode = "optimistic" /\ AtMemory(p, TRUE)
        /\ Release(p, aead.finish, aead.finish, requests[p].metadataReady)
        /\ aeadNextIssue' = aead.next
        /\ Forget(p)
        /\ UNCHANGED <<metadataNextIssue, writeControlNextIssue, ratchetNextIssue,
                       writesSinceRatchet, cacheVars, stageVars>>

\* Faulty: the lookup is waited for, but decryption does not wait for it.
ReadyWithData(lookup) == 0

\* Verified mode decrypts when the version is known.
ReadyWithVersion(lookup) == lookup.finish

VerifiedReadResponse(p) ==
    LET lookup == ScheduledMetadata(0, requests[p].metadataLatency)
        aead == ScheduledAead(ReadyWithVersion(lookup))
    IN  /\ mode = "verified" /\ AtMemory(p, TRUE)
        /\ Release(p, aead.finish, aead.finish, lookup.finish)
        /\ metadataNextIssue' = lookup.next
        /\ aeadNextIssue' = aead.next
        /\ Forget(p)
        /\ UNCHANGED <<writeControlNextIssue, ratchetNextIssue, writesSinceRatchet,
                       cacheVars, stageVars>>

BaselineReadResponse(p) ==
    /\ mode = "baseline" /\ AtMemory(p, TRUE)
    /\ Release(p, 0, 0, 0)
    /\ Forget(p)
    /\ UNCHANGED <<cacheVars, issueVars, stageVars>>

\* delayResp of a write: persist the commit; the version is now in the cache.
\* The mode is not looked at: this delays baseline writes, too.
WriteResponse(p) ==
    LET control == ScheduledControl(0, CommitLatency)
    IN  /\ AtMemory(p, FALSE)
        /\ Release(p, control.finish, 0, 0)
        /\ writeControlNextIssue' = control.next
        /\ UseLine(flight[p].line)
        /\ Forget(p)
        /\ UNCHANGED <<metadataNextIssue, aeadNextIssue, ratchetNextIssue,
                       writesSinceRatchet, stageVars>>

Deliver(p) ==
    /\ flight[p].phase = "incoming" /\ flight[p].due = 0
    /\ flight' = [flight EXCEPT ![p] = Idle]
    /\ UNCHANGED <<cacheVars, issueVars, stageVars, requests>>

-----------------------------------------------------------------------------
(* The experiment, and time.                                               *)

\* The warm-up generator exits.
EndWarmup ==
    /\ stage = "warmup"
    /\ stage' = "drain" /\ drainLeft' = DrainTicks
    /\ UNCHANGED <<mode, cacheVars, issueVars, requests, flight>>

NothingDue == \A p \in Packets : flight[p] # Idle => flight[p].due > 0

\* m5.simulate(drain_ticks) has returned, after everything else of that tick:
\* m5.stats.reset, second generator.
ResetStats ==
    /\ stage = "drain" /\ drainLeft = 0 /\ NothingDue
    /\ stage' = "measured"
    /\ UNCHANGED <<mode, drainLeft, cacheVars, issueVars, requests, flight>>

Nearer(t) == IF t > 0 THEN t - 1 ELSE 0

\* Time passes when nothing is due.
Tick ==
    /\ NothingDue
    /\ stage = "drain" => drainLeft > 0
    /\ flight' = [p \in Packets |-> IF flight[p] = Idle THEN Idle ELSE
          [flight[p] EXCEPT !.due = Nearer(@), !.aead = Nearer(@), !.metadata = Nearer(@)]]
    /\ requests' = [p \in DOMAIN requests |->
          [requests[p] EXCEPT !.metadataReady = Nearer(@)]]
    /\ metadataNextIssue' = Nearer(metadataNextIssue)
    /\ aeadNextIssue' = Nearer(aeadNextIssue)
    /\ writeControlNextIssue' = Nearer(writeControlNextIssue)
    /\ ratchetNextIssue' = Nearer(ratchetNextIssue)
    /\ drainLeft' = Nearer(drainLeft)
    /\ UNCHANGED <<mode, stage, cacheVars, writesSinceRatchet>>

\* The traffic generators may issue any read or write of any line at any moment.
Next ==
    \/ \E p \in Packets, l \in Lines :
          ReadRequest(p, l) \/ BaselineWriteRequest(p, l) \/ WriteRequest(p, l)
    \/ \E p \in Packets :
          \/ Send(p)
          \/ BaselineReadResponse(p) \/ OptimisticReadResponse(p) \/ VerifiedReadResponse(p)
          \/ WriteResponse(p)
          \/ Deliver(p)
    \/ EndWarmup
    \/ ResetStats
    \/ Tick

Spec == Init /\ [][Next]_vars

-----------------------------------------------------------------------------
PacketState == {Idle} \cup
    [phase : {"outgoing", "memory", "incoming"}, isRead : BOOLEAN, line : Lines,
     due : Nat, aead : Nat, metadata : Nat]

TypeOK ==
    /\ mode \in Modes
    /\ cache \in [0..(Sets - 1) -> Seq(Lines)]
    /\ later \subseteq Lines \X Lines
    /\ metadataNextIssue \in Nat /\ aeadNextIssue \in Nat
    /\ writeControlNextIssue \in Nat /\ ratchetNextIssue \in Nat
    /\ writesSinceRatchet \in Nat
    /\ DOMAIN requests \subseteq Packets
    /\ \A p \in DOMAIN requests : requests[p] \in
          [isRead : BOOLEAN, metadataLatency : Nat, metadataReady : Nat]
    /\ flight \in [Packets -> PacketState]
    /\ stage \in {"warmup", "drain", "measured"} /\ drainLeft \in Nat
    /\ {p \in Packets : flight[p].phase \in {"outgoing", "memory"}} = DOMAIN requests

\* Each set of the cache holds the lines of that set used last, in order: no
\* interleaving of lookups at requests with touches at write responses makes it
\* keep a line twice or drop one out of turn.
CacheIsMostRecent == Entries > 0 => \A s \in DOMAIN cache :
    LET c == cache[s]
    IN  /\ \A i, j \in DOMAIN c : i < j => c[i] # c[j] /\ <<c[i], c[j]>> \in later
        /\ \A l \in Used \ Members(c) : l % Sets = s =>
              Len(c) = Assoc /\ \A i \in DOMAIN c : <<l, c[i]>> \notin later

\* AEAD operations of different packets, whichever path they come by and
\* whenever they are ready, finish at least an issue interval apart.
AeadSpaced == \A p, q \in Packets :
    p # q /\ flight[p] # Idle /\ flight[q] # Idle
          /\ flight[p].aead > 0 /\ flight[q].aead >= flight[p].aead
    => flight[q].aead - flight[p].aead >= AeadIssue

\* In no mode but baseline does a read reach the host before it was decrypted,
\* or a write the link before it was encrypted; and verified mode
\* decrypts with the version at hand.
NothingLeavesEarly == \A p \in Packets :
    flight[p] # Idle /\ flight[p].phase # "memory" =>
        /\ flight[p].due >= flight[p].aead
        /\ mode = "verified" /\ flight[p].isRead /\ flight[p].metadata > 0 =>
              flight[p].aead >= flight[p].metadata + AeadLatency

-----------------------------------------------------------------------------
(* Bounds on delay.                                                        *)

K == Cardinality(Packets)

\* The bounds need units that do not fall behind packets which come again as soon
\* as they are done.  Those of all profiles of the scripts do not.
UnitsKeepUp ==
    /\ HitLatency <= MissLatency /\ AeadIssue <= AeadLatency
    /\ MetadataIssue <= HitLatency + AeadLatency
    /\ ReservationLatency > 0 => ControlIssue <= ReservationLatency + AeadLatency
    /\ CommitLatency > 0 => ControlIssue <= CommitLatency

\* With a longer MetadataIssue optimistic lookups outlive their reads and pile up.
LookupsKeepUp == MetadataIssue <= AeadIssue

\* The last of K packets: the slowest step before AEAD, then a turn for each
\* other packet at the unit that gives turns most slowly.
SlowestStep == Larger(MissLatency, ReservationLatency)
SlowestTurn == Larger(AeadIssue, Larger(MetadataIssue, ControlIssue))
CryptoBound == SlowestStep + AeadLatency + (K - 1) * SlowestTurn

\* A ratchet that takes no longer than the writes between two has not to wait.
RatchetBound ==
    IF RatchetEvery = 0 THEN 0
    ELSE IF HkdfLatency <= RatchetEvery * AeadIssue THEN HkdfLatency
    ELSE K * HkdfLatency
CommitBound == (K - 1) * ControlIssue + CommitLatency

\* Every delay is bounded by the latencies and the number of packets, under any
\* load: no queue grows.  But a packet may wait for the slowest step of another
\* while the AEAD unit is idle, because turns are given in call order.
DelayBounded == \A p \in Packets :
    LET f == flight[p]
    IN  f # Idle =>
        /\ f.phase = "incoming" => f.due <= IF f.isRead THEN CryptoBound ELSE CommitBound
        /\ f.phase = "outgoing" => f.due <= CryptoBound + RatchetBound

\* How long data of an optimistic read may be used before its check is done:
\* what decryption and the way to memory do not hide of a miss.
OptimisticWindowBounded == \A p \in Packets :
    mode = "optimistic" /\ flight[p] # Idle /\ flight[p].phase = "incoming" =>
        \E latency \in MemoryLatencies :
            flight[p].metadata - flight[p].due <=
                Larger(0, (K - 1) * MetadataIssue + MissLatency - latency - AeadLatency)

\* "baseline: identical CXL-like link and memory, with no EBFI delay" (README.md
\* of gem5-ebfi).  The code delays the response of a baseline write, too.
BaselineAddsNoDelay == \A p \in Packets :
    mode = "baseline" /\ flight[p] # Idle /\ flight[p].phase # "memory" => flight[p].due = 0

\* "Statistics are reset only after warm-up requests drain" (SUPPLEMENT.md).
\* The code waits a fixed time and resets whatever is in flight.  It holds when
\* that time is as long as all packets may take.
ResetAfterDrain == [][stage = "drain" /\ stage' = "measured" =>
                        \A p \in Packets : flight[p] = Idle]_vars
=============================================================================
