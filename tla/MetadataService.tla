--------------------------- MODULE MetadataService ---------------------------
(***************************************************************************)
(* The trusted metadata service of sim/cxl_ebfi_protocol.py: it orders the *)
(* writes of every line by handing out reservations, publishes ciphertext  *)
(* and metadata together, advances the key epoch, and erases the keys of   *)
(* old epochs once nothing refers to them and every verifier (TVE) has     *)
(* acknowledged.                                                           *)
(*                                                                         *)
(* One action per method.  A caller may present any reservation ever       *)
(* issued at any time; a rejected call changes nothing, so it is a         *)
(* stuttering step here.  Keys and MACs are ideal: a reservation is        *)
(* accepted only if the service issued it.  A writer identity is the       *)
(* identity of its TVE, and a 16-byte random token is a fresh member of    *)
(* Token.                                                                  *)
(***************************************************************************)
EXTENDS Integers, FiniteSets

CONSTANTS
    Lines,              \* cache lines
    Token,              \* reservation tokens; its size bounds the writes begun
    NoData,             \* what the store answers for a line never written
    MaxTve,             \* bound on the TVEs that register
    MaxEpoch,           \* bound on the epochs reached
    CtrLimit,           \* ref.CTR_LIMIT: values of the nonce's counter field
    RetentionW,         \* ref.RETENTION_W
    AtomicReservation,  \* atomic_reservation: FALSE is the broken baseline
    MayRefuse           \* may a TVE decline to acknowledge a revocation?

ASSUME LinesAssumption == IsFiniteSet(Lines)
ASSUME TokenAssumption == NoData \notin Token
ASSUME BoundsAssumption == MaxTve \in Nat /\ MaxEpoch \in Nat \ {0}
ASSUME LimitAssumption == CtrLimit \in Nat \ {0} /\ RetentionW \in Nat \ {0}
ASSUME ModeAssumption == AtomicReservation \in BOOLEAN /\ MayRefuse \in BOOLEAN

Tves == 1..MaxTve
Epochs == 1..MaxEpoch

VARIABLES
    currentEpoch,
    auth,            \* line -> authoritative Version
    allocCtr,        \* line -> last counter allocated
    epochWrites,     \* epoch, line -> reservations made
    refcount,        \* epoch -> lines whose Version is in the epoch
    pendingRefcount, \* epoch -> unresolved reservations of the epoch
    pending,         \* reservations not yet resolved
    encrypted,       \* those of them whose encryption right is used
    consumed,        \* tokens of the resolved ones
    ntves,           \* TVEs 1..ntves are registered, in this order
    handles,         \* TVE, epoch -> "absent", "held" or "dropped" (None)
    deviceHandles,   \* epochs whose key the service still holds
    erased,
    store,           \* line -> token under which its ciphertext was sealed
    issued,          \* history: every reservation ever issued
    sealed           \* history: token -> encryptions done under it

keyVars == <<currentEpoch, handles, deviceHandles, erased>>
lineVars == <<auth, refcount, allocCtr, store>>
resvVars == <<pending, encrypted, consumed, pendingRefcount>>
vars == <<keyVars, lineVars, resvVars, epochWrites, ntves, issued, sealed>>

Version == [epoch : Epochs, ctr : Nat, writer : Tves]
\* The absent entry of the dict "auth": its counter is below every real one.
NoVersion == [epoch |-> 0, ctr |-> 0, writer |-> 0]
Reservation == [line : Lines, epoch : Epochs, ctr : Nat \ {0},
                tve : Tves, token : Token]
VersionOf(r) == [epoch |-> r.epoch, ctr |-> r.ctr, writer |-> r.tve]

Init ==
    /\ currentEpoch = 1
    /\ auth = [l \in Lines |-> NoVersion]
    /\ allocCtr = [l \in Lines |-> 0]
    /\ epochWrites = [e \in Epochs |-> [l \in Lines |-> 0]]
    /\ refcount = [e \in Epochs |-> 0]
    /\ pendingRefcount = [e \in Epochs |-> 0]
    /\ pending = {} /\ encrypted = {} /\ consumed = {}
    /\ ntves = 0
    /\ handles = [t \in Tves |-> [e \in Epochs |-> "absent"]]
    /\ deviceHandles = {1}
    /\ erased = {}
    /\ store = [l \in Lines |-> NoData]
    /\ issued = {}
    /\ sealed = [k \in Token |-> 0]

-----------------------------------------------------------------------------
(* Retirement of epochs.                                                   *)

\* Faulty: an unresolved reservation does not protect its epoch.
EligibleDespitePending(e, current, live, waiting) ==
    e < current - RetentionW + 1 /\ live[e] = 0

\* Faulty: a live line does not protect its epoch.
EligibleDespiteLines(e, current, live, waiting) ==
    e < current - RetentionW + 1 /\ waiting[e] = 0

\* An epoch may be revoked below the retention window when no live line and
\* no unresolved reservation refers to it.
Eligible(e, current, live, waiting) ==
    /\ e < current - RetentionW + 1
    /\ live[e] = 0
    /\ waiting[e] = 0

\* The TVEs are asked in registration order and the first refusal ends the
\* round: acks[e] of them have acknowledged.
Acknowledgements(revoked) ==
    IF MayRefuse THEN [revoked -> 0..ntves] ELSE [revoked -> {ntves}]

\* Faulty: the first acknowledgement is taken for all of them.
RevokeAny(revoked, device, held) ==
    \E acks \in Acknowledgements(revoked) :
        LET done == {e \in revoked : acks[e] > 0 \/ ntves = 0}
        IN  /\ handles' = [t \in Tves |-> [e \in Epochs |->
                              IF e \in revoked /\ t <= acks[e]
                              THEN "dropped" ELSE held[t][e]]]
            /\ deviceHandles' = device \ done
            /\ erased' = erased \cup done

\* Every TVE that acknowledges drops its handle at once; the service drops its
\* own and declares the epoch erased only when all have.
RevokeAll(revoked, device, held) ==
    \E acks \in Acknowledgements(revoked) :
        LET done == {e \in revoked : acks[e] = ntves}
        IN  /\ handles' = [t \in Tves |-> [e \in Epochs |->
                              IF e \in revoked /\ t <= acks[e]
                              THEN "dropped" ELSE held[t][e]]]
            /\ deviceHandles' = device \ done
            /\ erased' = erased \cup done

\* _try_retire_epochs, which ends most operations and so reads the counts
\* that the operation leaves behind.
TryRetireEpochs(current, live, waiting, device, held) ==
    RevokeAll({e \in device : Eligible(e, current, live, waiting)}, device, held)

\* provision: every registered TVE gets the key of the new epoch.
Provisioned(new) ==
    [t \in Tves |-> IF t <= ntves THEN [handles[t] EXCEPT ![new] = "held"]
                                   ELSE handles[t]]

\* ratchet
AdvanceEpoch ==
    LET new == currentEpoch + 1
    IN  /\ new \in Epochs
        /\ currentEpoch' = new
        /\ TryRetireEpochs(new, refcount, pendingRefcount,
                           deviceHandles \cup {new}, Provisioned(new))

Ratchet ==
    /\ AdvanceEpoch
    /\ UNCHANGED <<lineVars, resvVars, epochWrites, ntves, issued, sealed>>

\* revoke called from outside, to retry after a refusal.
Revoke(e) ==
    /\ Eligible(e, currentEpoch, refcount, pendingRefcount)
    /\ e \notin erased
    /\ RevokeAll({e}, deviceHandles, handles)
    /\ UNCHANGED <<currentEpoch, lineVars, resvVars, epochWrites, ntves, issued, sealed>>

-----------------------------------------------------------------------------
(* Writes: reserve, encrypt, then commit or abort.                         *)

\* Faulty: a new TVE gets the key of the current epoch only.
RegisterWithCurrentKey ==
    /\ ntves < MaxTve
    /\ ntves' = ntves + 1
    /\ handles' = [handles EXCEPT ![ntves + 1][currentEpoch] = "held"]
    /\ UNCHANGED <<currentEpoch, deviceHandles, erased, lineVars, resvVars,
                   epochWrites, issued, sealed>>

\* TVE.__init__ and register_tve: a new TVE gets every key the service holds.
RegisterTVE ==
    /\ ntves < MaxTve
    /\ ntves' = ntves + 1
    /\ handles' = [handles EXCEPT ![ntves + 1] =
                      [e \in Epochs |-> IF e \in deviceHandles THEN "held" ELSE @[e]]]
    /\ UNCHANGED <<currentEpoch, deviceHandles, erased, lineVars, resvVars,
                   epochWrites, issued, sealed>>

\* Faulty: the comparison lets one write too many through.
WritesExhaustedLate(l) == epochWrites[currentEpoch][l] > CtrLimit

\* One more write would use up the counter field of the line's nonce.
WritesExhausted(l) == epochWrites[currentEpoch][l] + 1 >= CtrLimit

\* Faulty: the counter moves only at the commit.
AllocAtCommit(l) == allocCtr[l]

\* The counter moves when it is reserved; in the baseline only at the commit.
AllocAfterReserve(l) == IF AtomicReservation THEN allocCtr[l] + 1 ELSE allocCtr[l]

ReserveWrite(t, l, token) ==
    /\ t <= ntves
    /\ \A r \in issued : r.token # token
    /\ IF WritesExhausted(l) THEN AdvanceEpoch ELSE UNCHANGED keyVars
    /\ LET r == [line |-> l, epoch |-> currentEpoch', ctr |-> allocCtr[l] + 1,
                 tve |-> t, token |-> token]
       IN  /\ issued' = issued \cup {r}
           /\ pending' = pending \cup {r}
           /\ pendingRefcount' = [pendingRefcount EXCEPT ![r.epoch] = @ + 1]
           /\ epochWrites' = [epochWrites EXCEPT ![r.epoch][l] = @ + 1]
    /\ allocCtr' = [allocCtr EXCEPT ![l] = AllocAfterReserve(l)]
    /\ UNCHANGED <<auth, refcount, store, encrypted, consumed, ntves, sealed>>

\* authorize_encryption: the right is unused, and it is this TVE's.
EncryptionAuthorized(t, r) ==
    /\ r \in pending /\ r \notin encrypted
    /\ r.tve = t
    /\ r.epoch \notin erased
    /\ handles[t][r.epoch] # "absent"

\* TVE.enc: the right is used up before the key is looked up, so a dropped
\* handle loses the right and produces no ciphertext.
Encrypt(t, r) ==
    /\ EncryptionAuthorized(t, r)
    /\ encrypted' = encrypted \cup {r}
    /\ sealed' = IF handles[t][r.epoch] = "held"
                 THEN [sealed EXCEPT ![r.token] = @ + 1] ELSE sealed
    /\ UNCHANGED <<keyVars, lineVars, pending, consumed, pendingRefcount,
                   epochWrites, ntves, issued>>

\* Faulty: the token is marked consumed but stays in the pending table.
RetireLeavesPending(r) ==
    /\ UNCHANGED <<pending, encrypted>>
    /\ consumed' = consumed \cup {r.token}
    /\ pendingRefcount' = [pendingRefcount EXCEPT ![r.epoch] = @ - 1]

\* _retire_pending
RetirePending(r) ==
    /\ pending' = pending \ {r}
    /\ encrypted' = encrypted \ {r}
    /\ consumed' = consumed \cup {r.token}
    /\ pendingRefcount' = [pendingRefcount EXCEPT ![r.epoch] = @ - 1]

\* Faulty: no retirement pass after an abort.
AbortWithoutPass(r) ==
    /\ r \in pending
    /\ RetirePending(r)
    /\ UNCHANGED <<keyVars, lineVars, epochWrites, ntves, issued, sealed>>

\* abort_write, and expire_write, which is the same transition.
AbortWrite(r) ==
    /\ r \in pending
    /\ RetirePending(r)
    /\ TryRetireEpochs(currentEpoch, refcount, pendingRefcount', deviceHandles, handles)
    /\ UNCHANGED <<currentEpoch, lineVars, epochWrites, ntves, issued, sealed>>

\* Faulty: the later commit wins, whatever the counters say.
SupersedesAlways(r) == TRUE

\* A commit whose counter is not above the line's is late.
Supersedes(r) == r.ctr > auth[r.line].ctr

\* Faulty: the reference of the version replaced is not given back.
OnlyNewReference(r) == [refcount EXCEPT ![r.epoch] = @ + 1]

\* The reference moves from the epoch of the old version to the new one.
MovedReference(r) ==
    [e \in Epochs |-> refcount[e] - (IF e = auth[r.line].epoch THEN 1 ELSE 0)
                                  + (IF e = r.epoch THEN 1 ELSE 0)]

Publish(r) ==
    /\ auth' = [auth EXCEPT ![r.line] = VersionOf(r)]
    /\ store' = [store EXCEPT ![r.line] = r.token]
    /\ refcount' = MovedReference(r)
    /\ allocCtr' = IF ~AtomicReservation /\ r.ctr > allocCtr[r.line]
                   THEN [allocCtr EXCEPT ![r.line] = r.ctr] ELSE allocCtr

\* Faulty: no retirement pass after a refused late commit.
CommitWithoutPass(r) ==
    /\ r \in pending /\ r \in encrypted
    /\ RetirePending(r)
    /\ IF r.epoch \in erased \/ ~Supersedes(r)
       THEN UNCHANGED <<lineVars, handles, deviceHandles, erased>>
       ELSE /\ Publish(r)
            /\ TryRetireEpochs(currentEpoch, refcount', pendingRefcount',
                               deviceHandles, handles)
    /\ UNCHANGED <<currentEpoch, epochWrites, ntves, issued, sealed>>

\* commit_write: the linearization point of a write, or the refusal of one.
CommitWrite(r) ==
    /\ r \in pending /\ r \in encrypted
    /\ RetirePending(r)
    /\ IF r.epoch \in erased
       THEN UNCHANGED <<lineVars, handles, deviceHandles, erased>>
       ELSE /\ IF Supersedes(r) THEN Publish(r) ELSE UNCHANGED lineVars
            /\ TryRetireEpochs(currentEpoch, refcount', pendingRefcount',
                               deviceHandles, handles)
    /\ UNCHANGED <<currentEpoch, epochWrites, ntves, issued, sealed>>

-----------------------------------------------------------------------------
Next ==
    \/ RegisterTVE
    \/ \E t \in Tves, l \in Lines, k \in Token : ReserveWrite(t, l, k)
    \/ \E t \in Tves, r \in issued : Encrypt(t, r)
    \/ \E r \in issued : CommitWrite(r)
    \/ \E r \in issued : AbortWrite(r)
    \/ Ratchet
    \/ \E e \in Epochs : Revoke(e)

Spec == Init /\ [][Next]_vars

\* Lease expiry: the service does decide, some day, that a reservation nobody
\* resolves has expired (docstring of expire_write).
LeaseExpiry == \A k \in Token :
    WF_vars(\E r \in issued : r.token = k /\ AbortWrite(r))
FairSpec == Spec /\ LeaseExpiry

-----------------------------------------------------------------------------
TypeOK ==
    /\ currentEpoch \in Epochs
    /\ auth \in [Lines -> Version \cup {NoVersion}]
    /\ allocCtr \in [Lines -> Nat]
    /\ epochWrites \in [Epochs -> [Lines -> Nat]]
    /\ refcount \in [Epochs -> Nat]
    /\ pendingRefcount \in [Epochs -> Nat]
    /\ issued \subseteq Reservation
    /\ pending \subseteq issued
    /\ encrypted \subseteq pending
    /\ consumed \subseteq Token
    /\ ntves \in 0..MaxTve
    /\ handles \in [Tves -> [Epochs -> {"absent", "held", "dropped"}]]
    /\ deviceHandles \subseteq Epochs
    /\ erased \subseteq Epochs
    /\ store \in [Lines -> Token \cup {NoData}]
    /\ sealed \in [Token -> Nat]

\* The counts that gate erasure are exact (accounting_ok, and the two underflow
\* assertions of _retire_pending and commit_write can never be raised), through
\* aborts, late commits and lines that move between epochs.
AccountingExact == \A e \in Epochs :
    /\ refcount[e] = Cardinality({l \in Lines : auth[l].epoch = e})
    /\ pendingRefcount[e] = Cardinality({r \in pending : r.epoch = e})

\* No GCM nonce is used twice under one key: the key is the epoch's, the nonce
\* is the line and the low bits of the counter (make_nonce), so two ciphertexts
\* of one line and epoch differ in the counter modulo CTR_LIMIT, and no
\* reservation seals two ciphertexts.
NonceUnique ==
    /\ \A k \in Token : sealed[k] <= 1
    /\ \A r, s \in issued :
          /\ sealed[r.token] > 0 /\ sealed[s.token] > 0
          /\ r.line = s.line /\ r.epoch = s.epoch
          /\ r.ctr % CtrLimit = s.ctr % CtrLimit
          => r = s

\* A reservation stays usable until it is resolved: whatever epochs pass, its
\* epoch is not erased and its TVE still holds the key, so enc does not lose
\* the right it has just consumed and commit does not meet an erased epoch.
PendingUsable == \A r \in pending :
    /\ r.epoch \notin erased
    /\ r.tve <= ntves /\ handles[r.tve][r.epoch] = "held"

\* Every live line can be read by every registered TVE, the ones that joined
\* long after the write included: the store has the ciphertext of the
\* authoritative version, and the TVE holds the key of its epoch.
LiveReadable == \A l \in Lines : auth[l] # NoVersion =>
    /\ \E r \in issued : /\ r.line = l /\ VersionOf(r) = auth[l]
                         /\ r.token = store[l] /\ sealed[r.token] > 0
    /\ \A t \in 1..ntves : handles[t][auth[l].epoch] = "held"

\* "Erased" is said of an epoch only when no key of it is left anywhere, and a
\* TVE that registers afterwards does not obtain one. Of any other epoch the
\* service keeps the key: a round that a TVE has refused half way is taken up
\* again by the next retirement pass, and a TVE that has obtained the key since
\* is asked too.
ErasedEverywhere ==
    /\ deviceHandles = (1..currentEpoch) \ erased
    /\ \A e \in erased, t \in Tves : handles[t][e] # "held"

\* Erasure is prompt: when every TVE acknowledges, no operation leaves behind an
\* epoch that could be revoked (forward secrecy does not wait for a later call).
PromptErasure == ~MayRefuse =>
    \A e \in deviceHandles : ~Eligible(e, currentEpoch, refcount, pendingRefcount)

\* Late commits never roll a line back: neither its counter nor its epoch ever
\* decreases, although commit_write compares only the counters and writers of
\* different epochs race.
NeverRolledBack == [][\A l \in Lines : auth'[l] # auth[l] =>
    auth'[l].ctr > auth[l].ctr /\ auth'[l].epoch >= auth[l].epoch]_vars

\* A resolved reservation has no later effect: its token is never pending again,
\* seals nothing more and is not published (late calls after abort or expiry).
NoLateEffect == [][\A r \in issued : r.token \in consumed =>
    /\ r \notin pending' /\ r.token \in consumed'
    /\ sealed'[r.token] = sealed[r.token]
    /\ store'[r.line] = r.token => store[r.line] = r.token]_vars

\* No forgotten reservation pins a key: with lease expiry and TVEs that
\* acknowledge, an epoch that has left the window is erased, or is the epoch of
\* a line somebody committed.
OldEpochsErased == \A e \in Epochs :
    e < currentEpoch - RetentionW + 1 ~> (e \in erased \/ refcount[e] > 0)

\* The service keeps the promises of a write ledger, although one call may force
\* a ratchet, erase epochs and begin a write at once.
Ledger == INSTANCE WriteLedger WITH
    epoch <- currentEpoch,
    top <- allocCtr,
    version <- [l \in Lines |-> [epoch |-> auth[l].epoch, ctr |-> auth[l].ctr]],
    open <- {[line |-> r.line, epoch |-> r.epoch, ctr |-> r.ctr] : r \in pending}
ImplementsWriteLedger == Ledger!Spec
=============================================================================
