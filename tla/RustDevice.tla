------------------------------ MODULE RustDevice ------------------------------
(***************************************************************************)
(* The Rust implementation (sim/src/main.rs) of the device and host, with  *)
(* the attacker of its trials: write, ratchet and migrate_on_read change   *)
(* the device; the attacker records what writes leave in the store and     *)
(* builds its answers from the records; Host::verify judges them.          *)
(*                                                                         *)
(* It is translated from the Rust source alone, and shown to do nothing    *)
(* that the model of the Python device (EpochDevice) does not do.          *)
(***************************************************************************)
EXTENDS Integers, Sequences, FiniteSets

CONSTANTS
    Lines, Hosts,
    MaxEpoch, MaxCtr,  \* bounds on epochs and on writes of a line
    CtrLimit,          \* ctr_limit, and the values of the nonce's counter field
    RetentionW

ASSUME SetsAssumption == IsFiniteSet(Lines) /\ IsFiniteSet(Hosts) /\ 0 \in Hosts
ASSUME LimitAssumption ==
    /\ MaxEpoch \in Nat \ {0} /\ MaxCtr \in Nat
    /\ CtrLimit \in Nat \ {0} /\ RetentionW \in Nat \ {0}

Epochs == 1..MaxEpoch

VARIABLES
    currentEpoch,
    epochKeys,        \* epochs with a resident key
    epochRefcount, epochAddrWrites,
    lines,            \* line -> StoredLine, on the untrusted path
    auth,             \* line -> trusted Version
    history,          \* run_trial: line -> snapshots taken after its writes
    copies            \* history: line, epoch and counter of all encryptions

vars == <<currentEpoch, epochKeys, epochRefcount, epochAddrWrites, lines, auth,
          history, copies>>

Version(epoch, ctr, writer) == [epoch |-> epoch, ctr |-> ctr, writer |-> writer]

\* A ciphertext is what it was sealed under, and whether it is still intact.
Enc(l, v) == [line |-> l, sealed |-> v, intact |-> TRUE]
Stored(ct, v) == [ct |-> ct, version |-> v]

Init ==
    LET zero == Version(1, 0, 0)
    IN  /\ currentEpoch = 1
        /\ epochKeys = {1}
        /\ epochRefcount = [e \in Epochs |-> IF e = 1 THEN Cardinality(Lines) ELSE 0]
        /\ epochAddrWrites = [e \in Epochs |-> [l \in Lines |-> 0]]
        /\ auth = [l \in Lines |-> zero]
        /\ lines = [l \in Lines |-> Stored(Enc(l, zero), zero)]
        /\ history = [l \in Lines |-> <<>>]
        /\ copies = {[line |-> l, epoch |-> 1, ctr |-> 0] : l \in Lines}

-----------------------------------------------------------------------------
(* Device.                                                                 *)

\* Faulty: the window is one epoch too long.
WindowStartLate(epoch) == IF epoch >= RetentionW THEN epoch - RetentionW ELSE 0

\* saturating_sub(RETENTION_W - 1)
WindowStart(epoch) == IF epoch >= RetentionW - 1 THEN epoch - (RetentionW - 1) ELSE 0

Drops(e, epoch) == e < WindowStart(epoch) /\ epochRefcount[e] = 0

RatchetStep ==
    /\ currentEpoch + 1 \in Epochs
    /\ currentEpoch' = currentEpoch + 1
    /\ epochKeys' = {e \in epochKeys \cup {currentEpoch'} : ~Drops(e, currentEpoch')}

Ratchet ==
    /\ RatchetStep
    /\ UNCHANGED <<epochRefcount, epochAddrWrites, lines, auth, history, copies>>

\* Faulty: the line that replaces another is not counted.
ReplaceUncounted(l, v) ==
    /\ lines' = [lines EXCEPT ![l] = Stored(Enc(l, v), v)]
    /\ auth' = [auth EXCEPT ![l] = v]
    /\ epochRefcount' = [epochRefcount EXCEPT ![lines[l].version.epoch] = @ - 1]
    /\ copies' = copies \cup {[line |-> l, epoch |-> v.epoch, ctr |-> v.ctr]}

\* The common end of write and maybe_migrate: dec_ref of the replaced line's
\* epoch, the new line and version, a reference to its epoch.
Replace(l, v) ==
    LET old == lines[l].version.epoch
        dropped == [epochRefcount EXCEPT ![old] = @ - 1]
    IN  /\ lines' = [lines EXCEPT ![l] = Stored(Enc(l, v), v)]
        /\ auth' = [auth EXCEPT ![l] = v]
        /\ epochRefcount' = [dropped EXCEPT ![v.epoch] = @ + 1]
        /\ copies' = copies \cup {[line |-> l, epoch |-> v.epoch, ctr |-> v.ctr]}

MustRatchet(l) == epochAddrWrites[currentEpoch][l] + 1 >= CtrLimit

\* Device::write by host h, and the snapshot run_trial takes of it.
Write(l, h) ==
    /\ auth[l].ctr < MaxCtr
    /\ IF MustRatchet(l) THEN RatchetStep ELSE UNCHANGED <<currentEpoch, epochKeys>>
    /\ Replace(l, Version(currentEpoch', auth[l].ctr + 1, h))
    /\ epochAddrWrites' = [epochAddrWrites EXCEPT ![currentEpoch'][l] = @ + 1]
    /\ history' = [history EXCEPT ![l] = Append(@, lines'[l])]

\* maybe_migrate, before a read with migrate_on_read: counter and writer stay.
\* Without the old key it panics.
MaybeMigrate(l) ==
    LET old == lines[l].version
    IN  /\ old.epoch < WindowStart(currentEpoch)
        /\ old.epoch \in epochKeys
        /\ Replace(l, Version(currentEpoch, old.ctr, old.writer))
        /\ UNCHANGED <<currentEpoch, epochKeys, epochAddrWrites, history>>

Next ==
    \/ Ratchet
    \/ \E l \in Lines, h \in Hosts : Write(l, h)
    \/ \E l \in Lines : MaybeMigrate(l)

Spec == Init /\ [][Next]_vars

-----------------------------------------------------------------------------
(* Host, and the answers an attacker builds.  None of them changes state.  *)

\* GCM with the key of an epoch, and nonce and AAD made of line and version.
Decrypts(ct, l, v) ==
    /\ v.epoch \in epochKeys
    /\ ct.intact /\ ct.line = l
    /\ ct.sealed.epoch = v.epoch /\ ct.sealed.writer = v.writer
    /\ ct.sealed.ctr % CtrLimit = v.ctr % CtrLimit

\* Faulty: the version that came with the answer is believed.
VerifyEchoed(l, resp) == Decrypts(resp.ct, l, resp.version)

Verify(l, resp) == Decrypts(resp.ct, l, auth[l])

\* The rule of the earlier design, which believes the echoed version.
LegacyWouldAccept(l, resp) ==
    /\ Decrypts(resp.ct, l, resp.version)
    /\ resp.version.epoch + 1 >= currentEpoch

\* .rev().find(...): the last snapshot that qualifies, if any.
LastSnapshot(l, found) ==
    {history[l][i] : i \in {j \in found : \A k \in found : k <= j}}

SameEpochReplay(l) == LastSnapshot(l, {i \in DOMAIN history[l] :
    LET v == history[l][i].version IN v.epoch = auth[l].epoch /\ v.ctr < auth[l].ctr})
OldEpochReplay(l) == LastSnapshot(l, {i \in DOMAIN history[l] :
    history[l][i].version.epoch < auth[l].epoch})
Tamper(l) == {[lines[l] EXCEPT !.ct.intact = FALSE]}

\* build_attack: the answers of each kind, none or one.
BuildAttack(l) == SameEpochReplay(l) \cup OldEpochReplay(l) \cup Tamper(l)

-----------------------------------------------------------------------------
VersionType == [epoch : Epochs, ctr : 0..MaxCtr, writer : Hosts]
StoredType == [ct : [line : Lines, sealed : VersionType, intact : {TRUE}],
               version : VersionType]

TypeOK ==
    /\ currentEpoch \in Epochs
    /\ epochKeys \subseteq Epochs
    /\ epochRefcount \in [Epochs -> Nat]
    /\ epochAddrWrites \in [Epochs -> [Lines -> Nat]]
    /\ lines \in [Lines -> StoredType]
    /\ auth \in [Lines -> VersionType]
    /\ history \in [Lines -> Seq(StoredType)]
    /\ copies \subseteq [line : Lines, epoch : Epochs, ctr : 0..MaxCtr]

\* Of the answers the attacker builds the host accepts none, although counters
\* wrap in the nonce and snapshots outlive migrations; the earlier rule accepts
\* every replay of an epoch it has not left behind (run_trial expects
\* violations_accepted = 0, test same_epoch_replay_rejected_but_legacy_accepts).
OnlyLegacyFooled == \A l \in Lines :
    /\ \A resp \in BuildAttack(l) : ~Verify(l, resp)
    /\ \A resp \in SameEpochReplay(l) :
          auth[l].epoch + 1 >= currentEpoch => LegacyWouldAccept(l, resp)

-----------------------------------------------------------------------------
(* The Python device.  It has no writer; how often a nonce was used is the *)
(* number of copies made with it.                                          *)

Plain(v) == [epoch |-> v.epoch, ctr |-> v.ctr]
PlainLine(s) == [line |-> s.ct.line, epoch |-> s.ct.sealed.epoch, ctr |-> s.ct.sealed.ctr]
PlainLines == [l \in Lines |-> PlainLine(lines[l])]
PlainAuth == [l \in Lines |-> Plain(auth[l])]
CopiesOf(e, l, n) == {c \in copies : c.line = l /\ c.epoch = e /\ c.ctr % CtrLimit = n}
Fields == 0..(CtrLimit - 1)
PlainSealed == [e \in Epochs |-> [l \in Lines |-> [n \in Fields |->
                   Cardinality(CopiesOf(e, l, n))]]]

Python == INSTANCE EpochDevice WITH
    Reads <- {}, read <- <<>>,
    lines <- PlainLines, auth <- PlainAuth, sealed <- PlainSealed

\* "the parallel, systems-language implementation of the authoritative
\* evaluation engine": every step of the Rust device is one of the Python device.
ImplementsPython == Python!Spec
=============================================================================
