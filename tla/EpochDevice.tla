----------------------------- MODULE EpochDevice -----------------------------
(***************************************************************************)
(* The reference device and host of sim/cxl_ebfi_ref.py: a device that     *)
(* serializes writes itself, keeps old keys while a line needs them, and   *)
(* may move a line to the current epoch when it is served; and the host's  *)
(* read transaction, which takes the trusted version before and after the  *)
(* data and retries when a write has crossed it.                           *)
(*                                                                         *)
(* A ciphertext is named by what it was sealed under: line, epoch, counter.*)
(* Its content is that of the write with this line and counter, which a    *)
(* migration keeps.  The writer id is left out: it is part of the AAD, but *)
(* a line and counter have only one writer.  So is the host's anchor,      *)
(* which verify overwrites before use.                                     *)
(***************************************************************************)
EXTENDS Integers, FiniteSets

CONSTANTS
    Lines,
    Reads,       \* read transactions that may be in progress at once
    MaxEpoch,    \* bound on the epochs reached
    MaxCtr,      \* bound on the writes of a line
    CtrLimit,    \* ctr_limit, and the number of values of the nonce's counter field
    RetentionW

ASSUME LinesAssumption == IsFiniteSet(Lines)
ASSUME BoundsAssumption == MaxEpoch \in Nat \ {0} /\ MaxCtr \in Nat
ASSUME LimitAssumption == CtrLimit \in Nat \ {0} /\ RetentionW \in Nat \ {0}

Epochs == 1..MaxEpoch
Counters == 0..MaxCtr

VARIABLES
    currentEpoch,
    epochKeys,        \* epochs whose key is resident
    epochRefcount,    \* epoch -> lines stored in the epoch
    epochAddrWrites,  \* epoch, line -> writes, for the nonce guard
    lines,            \* line -> its stored ciphertext
    auth,             \* line -> trusted version
    copies,           \* history: every ciphertext the store was ever given
    sealed,           \* history: epoch, line, counter field -> encryptions
    read              \* transaction -> how far it has come

deviceVars == <<currentEpoch, epochKeys, epochRefcount, epochAddrWrites,
                lines, auth, copies, sealed>>
vars == <<deviceVars, read>>

Version == [epoch : Epochs, ctr : Counters]
StoredLine == [line : Lines, epoch : Epochs, ctr : Counters]
Sealed(l, v) == [line |-> l, epoch |-> v.epoch, ctr |-> v.ctr]

Idle == [phase |-> "idle"]
Finished(status, honest) == [phase |-> status, honest |-> honest]

\* Every line starts as zeros encrypted in epoch 1 with counter 0.
Init ==
    /\ currentEpoch = 1
    /\ epochKeys = {1}
    /\ epochRefcount = [e \in Epochs |-> IF e = 1 THEN Cardinality(Lines) ELSE 0]
    /\ epochAddrWrites = [e \in Epochs |-> [l \in Lines |-> 0]]
    /\ auth = [l \in Lines |-> [epoch |-> 1, ctr |-> 0]]
    /\ lines = [l \in Lines |-> Sealed(l, auth[l])]
    /\ copies = {lines[l] : l \in Lines}
    /\ sealed = [e \in Epochs |-> [l \in Lines |-> [n \in 0..(CtrLimit - 1) |->
                    IF e = 1 /\ n = 0 THEN 1 ELSE 0]]]
    /\ read = [i \in Reads |-> Idle]

-----------------------------------------------------------------------------
(* The device.                                                             *)

\* The first epoch of the retention window.
Cutoff(epoch) == epoch - RetentionW + 1

\* Faulty: a key is dropped when its epoch leaves the window.
DroppableByAge(e, epoch) == e < Cutoff(epoch)

\* Faulty: the key that has just left the window is the only one looked at.
DroppableAtEdge(e, epoch) == e = Cutoff(epoch) - 1 /\ epochRefcount[e] = 0

Droppable(e, epoch) == e < Cutoff(epoch) /\ epochRefcount[e] = 0

AdvanceEpoch ==
    LET new == currentEpoch + 1
    IN  /\ new \in Epochs
        /\ currentEpoch' = new
        /\ epochKeys' = {e \in epochKeys : ~Droppable(e, new)} \cup {new}

\* compromise: the resident keys, not the root they were derived from.
Captured == epochKeys

Ratchet ==
    /\ AdvanceEpoch
    /\ UNCHANGED <<epochRefcount, epochAddrWrites, lines, auth, copies, sealed, read>>

\* Faulty: the ciphertext stored is not counted.
StoreUncounted(l, v) ==
    /\ lines' = [lines EXCEPT ![l] = Sealed(l, v)]
    /\ auth' = [auth EXCEPT ![l] = v]
    /\ epochRefcount' = [epochRefcount EXCEPT ![lines[l].epoch] = @ - 1]
    /\ copies' = copies \cup {Sealed(l, v)}
    /\ sealed' = [sealed EXCEPT ![v.epoch][l][v.ctr % CtrLimit] = @ + 1]

\* What write and maybe_migrate both do: encrypt, move the reference from the
\* epoch of the ciphertext replaced, store it and its version.
StoreAs(l, v) ==
    /\ lines' = [lines EXCEPT ![l] = Sealed(l, v)]
    /\ auth' = [auth EXCEPT ![l] = v]
    /\ epochRefcount' = [e \in Epochs |->
          epochRefcount[e] - (IF e = lines[l].epoch THEN 1 ELSE 0)
                           + (IF e = v.epoch THEN 1 ELSE 0)]
    /\ copies' = copies \cup {Sealed(l, v)}
    /\ sealed' = [sealed EXCEPT ![v.epoch][l][v.ctr % CtrLimit] = @ + 1]

\* Faulty: the comparison lets one write too many through.
WritesExhaustedLate(l) == epochAddrWrites[currentEpoch][l] >= CtrLimit

WritesExhausted(l) == epochAddrWrites[currentEpoch][l] + 1 >= CtrLimit

Write(l) ==
    /\ auth[l].ctr < MaxCtr
    /\ IF WritesExhausted(l) THEN AdvanceEpoch ELSE UNCHANGED <<currentEpoch, epochKeys>>
    /\ StoreAs(l, [epoch |-> currentEpoch', ctr |-> auth[l].ctr + 1])
    /\ epochAddrWrites' = [epochAddrWrites EXCEPT ![currentEpoch'][l] = @ + 1]
    /\ UNCHANGED read

\* maybe_migrate: same content and counter, new epoch; not a write, so not
\* counted by the nonce guard.  Without the old key it raises KeyError.
Migrate(l) ==
    /\ lines[l].epoch < Cutoff(currentEpoch)
    /\ lines[l].epoch \in epochKeys
    /\ UNCHANGED <<currentEpoch, epochKeys, epochAddrWrites, read>>
    /\ StoreAs(l, [epoch |-> currentEpoch, ctr |-> lines[l].ctr])

-----------------------------------------------------------------------------
(* The host: version, data, version, and verify_stable.                    *)

BeginRead(i, l) ==
    /\ read[i].phase \in {"idle", "accept", "retry", "reject"}
    /\ read' = [read EXCEPT ![i] = [phase |-> "begun", line |-> l, before |-> auth[l]]]
    /\ UNCHANGED deviceVars

\* What verify is given in run_trial: the stored line, or a substitute. The
\* untrusted path may answer with any ciphertext it has seen, which is more than
\* the replays of the trials (an altered one never decrypts and is left out);
\* "honest" is history: it was the one stored for the line at that moment.
Fetch(i, c) ==
    /\ read[i].phase = "begun"
    /\ LET r == read[i]
       IN  read' = [read EXCEPT ![i] = [phase |-> "fetched", line |-> r.line,
                       before |-> r.before, resp |-> c, honest |-> c = lines[r.line]]]
    /\ UNCHANGED deviceVars

FetchAfter(i) ==
    /\ read[i].phase = "fetched"
    /\ LET r == read[i]
       IN  read' = [read EXCEPT ![i] = [phase |-> "checked", line |-> r.line,
                       before |-> r.before, after |-> auth[r.line],
                       resp |-> r.resp, honest |-> r.honest]]
    /\ UNCHANGED deviceVars

\* Faulty: neither the key nor the AAD depends on the epoch.
OpensAnyEpoch(l, v, c) ==
    v.epoch \in epochKeys /\ c.line = l /\ c.ctr % CtrLimit = v.ctr % CtrLimit

\* verify: the ciphertext decrypts under key, nonce and AAD of the version.
Opens(l, v, c) ==
    /\ v.epoch \in epochKeys
    /\ c.line = l /\ c.epoch = v.epoch /\ c.ctr % CtrLimit = v.ctr % CtrLimit

\* Faulty: the versions before and after the data are not compared.
AlwaysStable(r) == TRUE

\* No write or migration crossed the read, as far as the versions tell.
Stable(r) == r.before = r.after /\ r.after = auth[r.line]

\* verify_stable
Complete(i) ==
    /\ read[i].phase = "checked"
    /\ LET r == read[i]
           status == IF ~Stable(r) THEN "retry"
                     ELSE IF Opens(r.line, auth[r.line], r.resp) THEN "accept" ELSE "reject"
       IN  read' = [read EXCEPT ![i] = Finished(status, r.honest)]
    /\ UNCHANGED deviceVars

Next ==
    \/ Ratchet
    \/ \E l \in Lines : Write(l)
    \/ \E l \in Lines : Migrate(l)
    \/ \E i \in Reads, l \in Lines : BeginRead(i, l)
    \/ \E i \in Reads, c \in copies : Fetch(i, c)
    \/ \E i \in Reads : FetchAfter(i)
    \/ \E i \in Reads : Complete(i)

Spec == Init /\ [][Next]_vars

-----------------------------------------------------------------------------
ReadState ==
    {Idle} \cup {Finished(s, h) : s \in {"accept", "retry", "reject"}, h \in BOOLEAN}
    \cup [phase : {"begun"}, line : Lines, before : Version]
    \cup [phase : {"fetched"}, line : Lines, before : Version,
          resp : StoredLine, honest : BOOLEAN]
    \cup [phase : {"checked"}, line : Lines, before : Version, after : Version,
          resp : StoredLine, honest : BOOLEAN]

TypeOK ==
    /\ currentEpoch \in Epochs
    /\ epochKeys \subseteq Epochs
    /\ epochRefcount \in [Epochs -> Nat]
    /\ epochAddrWrites \in [Epochs -> [Lines -> Nat]]
    /\ lines \in [Lines -> StoredLine]
    /\ auth \in [Lines -> Version]
    /\ copies \subseteq StoredLine
    /\ sealed \in [Epochs -> [Lines -> [0..(CtrLimit - 1) -> Nat]]]
    /\ read \in [Reads -> ReadState]

\* The key that a write, a migration or an honest read of any line needs is
\* resident: no KeyError in maybe_migrate, no line lost to a ratchet.
NeededKeysResident ==
    /\ currentEpoch \in epochKeys
    /\ \A l \in Lines : auth[l].epoch \in epochKeys /\ lines[l] = Sealed(l, auth[l])

\* No GCM nonce is used twice under one key.  The guard counts writes only, yet
\* the bootstrap ciphertext (counter 0) and migrated ones (which keep their
\* counter) take nonces of the same key too.
NonceUnique == \A e \in Epochs, l \in Lines : \A n \in 0..(CtrLimit - 1) :
    sealed[e][l][n] <= 1

\* Forward integrity: whoever compromises the device after a ratchet obtains the
\* keys of the window and of epochs in which a line was still stored, and never
\* again one that an earlier ratchet erased.
ForwardIntegrity == [][
    /\ currentEpoch' # currentEpoch => Captured' =
          {e \in Epochs : \/ Cutoff(currentEpoch') <= e /\ e <= currentEpoch'
                          \/ \E l \in Lines : lines[l].epoch = e}
    /\ \A e \in 1..currentEpoch : e \notin Captured => e \notin Captured']_vars

\* A host never takes an honest answer for an attack: whatever writes, ratchets
\* and migrations cross the read, it ends in accept or retry.
HonestReadNotRejected == \A i \in Reads :
    read[i].phase = "reject" => ~read[i].honest

\* What a read accepts is the content the line had all the time, from before
\* the data were fetched until the verdict: no older copy, of this epoch or of
\* another, and no A-B-A of versions.
AcceptedIsCurrent == [][\A i \in Reads :
    read[i].phase = "checked" /\ read'[i].phase = "accept" =>
        /\ read[i].resp.line = read[i].line
        /\ read[i].resp.ctr = auth[read[i].line].ctr
        /\ read[i].before.ctr = auth[read[i].line].ctr]_vars

\* "epoch keys retained: current .. current-(W-1); older erased" (comment of
\* RETENTION_W).  The code keeps an older key while a line needs it.
OnlyWindowRetained == \A e \in epochKeys : e >= Cutoff(currentEpoch)
=============================================================================
