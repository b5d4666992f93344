------------------------ MODULE RtlMetadataController ------------------------
(***************************************************************************)
(* The metadata controller in hardware, rtl/ebfi_metadata_ctrl.sv.  It     *)
(* takes one request per clock edge; each operation that changes a         *)
(* register is an action, reset is the initial state.  Requests that are   *)
(* answered with an error, and OP_TICKET, change no register but the       *)
(* response, which the next clock edge replaces and which is left out, as  *)
(* is the writer id, which is stored and returned and decides nothing.     *)
(*                                                                         *)
(* A reservation is a token: a slot, the slot's generation, and the line,  *)
(* epoch and counter it names.  A request takes effect only if its token   *)
(* equals the registers of its slot (token_matches), so an action names    *)
(* the slot, and whoever holds such a token may have sent the request.     *)
(***************************************************************************)
EXTENDS Integers, FiniteSets

CONSTANTS
    NumLines, NumSlots,
    NumEpochs,     \* a power of two: epochs are EPOCH_BITS wide
    CtrMax,        \* the counter with all bits set
    GenMod,        \* 2^GEN_BITS
    RetentionW

WordSize == 65536   \* the reference counts are 16 bits wide

ASSUME SizesAssumption ==
    /\ NumLines \in Nat \ {0} /\ NumLines < WordSize
    /\ NumSlots \in Nat \ {0} /\ NumSlots < WordSize
    /\ NumEpochs \in Nat \ {0, 1}
    /\ CtrMax \in Nat \ {0} /\ GenMod \in Nat \ {0} /\ RetentionW \in Nat \ {0}

Lines == 0..(NumLines - 1)
Slots == 0..(NumSlots - 1)
Epochs == 0..(NumEpochs - 1)
Counters == 0..CtrMax

VARIABLES
    current_epoch,
    alloc_ctr,         \* line -> last counter allocated
    auth,              \* line -> auth_valid, auth_epoch and auth_ctr
    live_refcount,     \* epoch -> 16-bit count of lines
    pending_refcount,  \* epoch -> 16-bit count of slots
    epoch_valid, epoch_erased,
    slot_state,
    slot_token,        \* the other slot_* registers
    spent,             \* history: tokens committed, refused as stale or cancelled
    sealed             \* history: line, counter -> encryptions authorized

epochVars == <<current_epoch, epoch_valid, epoch_erased>>
lineVars == <<auth, live_refcount>>
slotVars == <<slot_state, slot_token, pending_refcount>>
vars == <<epochVars, lineVars, slotVars, alloc_ctr, spent, sealed>>

Token == [slot : Slots, generation : 0..(GenMod - 1), line : Lines,
          epoch : Epochs, ctr : Counters]
Word16 == 0..(WordSize - 1)
Increment(n) == (n + 1) % WordSize
Decrement(n) == (n - 1) % WordSize

Init ==
    /\ current_epoch = 1
    /\ alloc_ctr = [l \in Lines |-> 0]
    /\ auth = [l \in Lines |-> [valid |-> FALSE, epoch |-> 0, ctr |-> 0]]
    /\ live_refcount = [e \in Epochs |-> 0]
    /\ pending_refcount = [e \in Epochs |-> 0]
    /\ epoch_valid = [e \in Epochs |-> e = 1]
    /\ epoch_erased = [e \in Epochs |-> FALSE]
    /\ slot_state = [s \in Slots |-> "FREE"]
    /\ slot_token = [s \in Slots |-> [slot |-> s, generation |-> 0, line |-> 0,
                                      epoch |-> 0, ctr |-> 0]]
    /\ spent = {}
    /\ sealed = [l \in Lines |-> [c \in Counters |-> 0]]

-----------------------------------------------------------------------------
FreeSlots == {s \in Slots : slot_state[s] = "FREE"}
FreeSlot == CHOOSE s \in FreeSlots : \A x \in FreeSlots : s <= x

\* Faulty: no check for a counter with all bits set.
CanReserveLate(l) == FreeSlots # {}

\* Otherwise ST_FULL, or ST_OVERFLOW.
CanReserve(l) == FreeSlots # {} /\ alloc_ctr[l] # CtrMax

Reserve(l) ==
    /\ CanReserve(l)
    /\ LET s == FreeSlot
           ctr == (alloc_ctr[l] + 1) % (CtrMax + 1)
           k == [slot |-> s, generation |-> (slot_token[s].generation + 1) % GenMod,
                 line |-> l, epoch |-> current_epoch, ctr |-> ctr]
       IN  /\ alloc_ctr' = [alloc_ctr EXCEPT ![l] = ctr]
           /\ slot_state' = [slot_state EXCEPT ![s] = "RESERVED"]
           /\ slot_token' = [slot_token EXCEPT ![s] = k]
    /\ pending_refcount' = [pending_refcount EXCEPT ![current_epoch] = Increment(@)]
    /\ UNCHANGED <<epochVars, lineVars, spent, sealed>>

Encrypt(s) ==
    LET k == slot_token[s]
    IN  /\ slot_state[s] = "RESERVED"
        /\ epoch_valid[k.epoch] /\ ~epoch_erased[k.epoch]
        /\ slot_state' = [slot_state EXCEPT ![s] = "ENCRYPTED"]
        /\ sealed' = [sealed EXCEPT ![k.line][k.ctr] = @ + 1]
        /\ UNCHANGED <<epochVars, lineVars, slot_token, pending_refcount, alloc_ctr, spent>>

\* The slot's other registers keep their values.
FreeTheSlot(s) ==
    /\ slot_state' = [slot_state EXCEPT ![s] = "FREE"]
    /\ pending_refcount' = [pending_refcount EXCEPT ![slot_token[s].epoch] = Decrement(@)]
    /\ spent' = spent \cup {slot_token[s]}
    /\ UNCHANGED slot_token

Supersedes(k) == auth[k.line].valid => k.ctr > auth[k.line].ctr

\* Faulty: the first version of a line gives back a reference it never took.
MovedFromAnyVersion(k) ==
    [live_refcount EXCEPT ![auth[k.line].epoch] = Decrement(@), ![k.epoch] = Increment(@)]

\* live_refcount after the version of a line moves to k: nothing to count when
\* the epoch stays, and no old version to discount on the first commit.
MovedReference(k) ==
    LET old == auth[k.line]
    IN  CASE ~old.valid -> [live_refcount EXCEPT ![k.epoch] = Increment(@)]
          [] old.valid /\ old.epoch # k.epoch ->
                [live_refcount EXCEPT ![old.epoch] = Decrement(@), ![k.epoch] = Increment(@)]
          [] OTHER -> live_refcount

Commit(s) ==
    LET k == slot_token[s]
    IN  /\ slot_state[s] = "ENCRYPTED"
        /\ FreeTheSlot(s)
        /\ IF Supersedes(k)
           THEN /\ auth' = [auth EXCEPT ![k.line] =
                               [valid |-> TRUE, epoch |-> k.epoch, ctr |-> k.ctr]]
                /\ live_refcount' = MovedReference(k)
           ELSE UNCHANGED lineVars
        /\ UNCHANGED <<epochVars, alloc_ctr, sealed>>

\* Faulty: cancelling the newest reservation of a line gives its counter back.
CancelReclaims(s) ==
    LET k == slot_token[s]
    IN  /\ slot_state[s] # "FREE"
        /\ FreeTheSlot(s)
        /\ alloc_ctr' = IF alloc_ctr[k.line] = k.ctr
                        THEN [alloc_ctr EXCEPT ![k.line] = @ - 1] ELSE alloc_ctr
        /\ UNCHANGED <<epochVars, lineVars, sealed>>

Cancel(s) ==
    /\ slot_state[s] # "FREE"
    /\ FreeTheSlot(s)
    /\ UNCHANGED <<epochVars, lineVars, alloc_ctr, sealed>>

\* Faulty: the last epoch is not recognised.
AdvanceUnchecked ==
    /\ current_epoch' = current_epoch + 1
    /\ epoch_valid' = [epoch_valid EXCEPT ![current_epoch + 1] = TRUE]
    /\ epoch_erased' = [epoch_erased EXCEPT ![current_epoch + 1] = FALSE]
    /\ UNCHANGED <<lineVars, slotVars, alloc_ctr, spent, sealed>>

\* The last epoch is never left: ST_OVERFLOW.
Advance ==
    /\ current_epoch # NumEpochs - 1
    /\ current_epoch' = current_epoch + 1
    /\ epoch_valid' = [epoch_valid EXCEPT ![current_epoch + 1] = TRUE]
    /\ epoch_erased' = [epoch_erased EXCEPT ![current_epoch + 1] = FALSE]
    /\ UNCHANGED <<lineVars, slotVars, alloc_ctr, spent, sealed>>

\* Faulty: open reservations do not hold their epoch.
RevocableWhilePending(e) ==
    epoch_valid[e] /\ e + RetentionW <= current_epoch /\ live_refcount[e] = 0

\* Otherwise ST_UNINIT, or ST_BLOCKED.
Revocable(e) ==
    /\ epoch_valid[e] /\ ~epoch_erased[e]
    /\ e + RetentionW <= current_epoch
    /\ live_refcount[e] = 0
    /\ pending_refcount[e] = 0

Revoke(e) ==
    /\ Revocable(e)
    /\ epoch_valid' = [epoch_valid EXCEPT ![e] = FALSE]
    /\ epoch_erased' = [epoch_erased EXCEPT ![e] = TRUE]
    /\ UNCHANGED <<current_epoch, lineVars, slotVars, alloc_ctr, spent, sealed>>

Next ==
    \/ \E l \in Lines : Reserve(l)
    \/ \E s \in Slots : Encrypt(s)
    \/ \E s \in Slots : Commit(s)
    \/ \E s \in Slots : Cancel(s)
    \/ Advance
    \/ \E e \in Epochs : Revoke(e)

Spec == Init /\ [][Next]_vars

-----------------------------------------------------------------------------
Occupied == {s \in Slots : slot_state[s] # "FREE"}

TypeOK ==
    /\ current_epoch \in Epochs
    /\ alloc_ctr \in [Lines -> Counters]
    /\ auth \in [Lines -> [valid : BOOLEAN, epoch : Epochs, ctr : Counters]]
    /\ live_refcount \in [Epochs -> Word16]
    /\ pending_refcount \in [Epochs -> Word16]
    /\ epoch_valid \in [Epochs -> BOOLEAN]
    /\ epoch_erased \in [Epochs -> BOOLEAN]
    /\ slot_state \in [Slots -> {"FREE", "RESERVED", "ENCRYPTED"}]
    /\ slot_token \in [Slots -> Token]
    /\ spent \subseteq Token
    /\ sealed \in [Lines -> [Counters -> Nat]]

\* The two counts that gate erasure are exact although they are updated field
\* by field, wrap at 16 bits, and skip the update when the epoch stays.
CountsExact == \A e \in Epochs :
    /\ live_refcount[e] = Cardinality({l \in Lines : auth[l].valid /\ auth[l].epoch = e})
    /\ pending_refcount[e] = Cardinality({s \in Occupied : slot_token[s].epoch = e})

\* A token that has been committed, refused or cancelled never matches again,
\* although slots are reused and their generation wraps after 2^GEN_BITS.
SpentTokensDead == \A s \in Occupied : slot_token[s] \notin spent

\* No line and counter is authorized for encryption twice, in any epoch: GCM
\* nonces are unique for as long as the controller is powered.
NonceUnique == \A l \in Lines, c \in Counters : sealed[l][c] <= 1

\* The controller keeps the promises of a write ledger.
Ledger == INSTANCE WriteLedger WITH
    epoch <- current_epoch,
    top <- alloc_ctr,
    version <- [l \in Lines |-> [epoch |-> auth[l].epoch, ctr |-> auth[l].ctr]],
    open <- {[line |-> slot_token[s].line, epoch |-> slot_token[s].epoch,
              ctr |-> slot_token[s].ctr] : s \in Occupied},
    erased <- {e \in Epochs : epoch_erased[e]}
ImplementsWriteLedger == Ledger!Spec
=============================================================================
