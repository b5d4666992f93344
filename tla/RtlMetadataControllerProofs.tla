---------------------- MODULE RtlMetadataControllerProofs ----------------------
(***************************************************************************)
(* Theorems about RtlMetadataController: for any number of lines and slots *)
(* up to 65535, any widths of epochs, counters and generations, and any    *)
(* retention window.                                                       *)
(***************************************************************************)
EXTENDS RtlMetadataController, ModuloLemmas, FiniteSetTheorems, WellFoundedInduction

\* Only epochs that have been entered are valid or erased.
EpochInv ==
    /\ 1 <= current_epoch
    /\ \A e \in Epochs : epoch_valid[e] \/ epoch_erased[e] => 1 <= e /\ e <= current_epoch

\* The registers of a line without a version keep their reset values.
VersionInv == \A l \in Lines : ~auth[l].valid => auth[l].epoch = 0 /\ auth[l].ctr = 0

\* Reservations of a line have distinct counters, the spent ones included; this
\* and not the generation of a slot is what keeps a spent token dead.
TokenInv ==
    /\ \A s \in Slots : slot_token[s].slot = s
    /\ \A s \in Occupied : 1 <= slot_token[s].ctr
                           /\ slot_token[s].ctr <= alloc_ctr[slot_token[s].line]
    /\ \A s, x \in Occupied : slot_token[s].line = slot_token[x].line
                              /\ slot_token[s].ctr = slot_token[x].ctr => s = x
    /\ \A k \in spent : k.ctr <= alloc_ctr[k.line]
    /\ \A k \in spent, s \in Occupied :
          k.line = slot_token[s].line => k.ctr # slot_token[s].ctr

\* Nothing is sealed before its reservation is encrypted.
SealInv ==
    /\ \A l \in Lines, c \in Counters : c > alloc_ctr[l] => sealed[l][c] = 0
    /\ \A s \in Slots : slot_state[s] = "RESERVED" =>
          sealed[slot_token[s].line][slot_token[s].ctr] = 0
    /\ NonceUnique

Live(e) == {l \in Lines : auth[l].valid /\ auth[l].epoch = e}
Waiting(e) == {s \in Occupied : slot_token[s].epoch = e}

-----------------------------------------------------------------------------
(* What the operations do to the slots.                                    *)

\* The sizes, as the provers need them.
LEMMA Sizes ==
    /\ WordSize \in Nat /\ WordSize > 1
    /\ NumLines \in Nat /\ NumLines < WordSize
    /\ NumSlots \in Nat /\ NumSlots < WordSize
    /\ NumEpochs \in Nat /\ NumEpochs > 1
    /\ CtrMax \in Nat /\ CtrMax > 0
    /\ GenMod \in Nat /\ GenMod > 0
    /\ RetentionW \in Nat /\ RetentionW > 0
BY SizesAssumption DEF WordSize

LEMMA FreeSlotIsFree == ASSUME FreeSlots # {} PROVE FreeSlot \in FreeSlots
<1>1. FreeSlots \subseteq Nat
  BY Sizes DEF FreeSlots, Slots
<1>2. PICK s \in FreeSlots : \A x \in FreeSlots : <<x, s>> \notin OpToRel(<, Nat)
  BY <1>1, WFMin, NatLessThanWellFounded, Zenon
<1>3. \A x \in FreeSlots : ~(x < s)
  BY <1>1, <1>2, Zenon DEF OpToRel
<1>4. \A x \in FreeSlots : s <= x
  BY <1>1, <1>3
<1>5. QED
  BY <1>2, <1>4 DEF FreeSlot

\* A reservation takes a free slot and the next counter, which does not wrap.
Reserved(l, s, k) ==
    /\ slot_state[s] = "FREE"
    /\ k.slot = s /\ k.line = l /\ k.epoch = current_epoch
    /\ k.ctr = alloc_ctr[l] + 1
    /\ alloc_ctr' = [alloc_ctr EXCEPT ![l] = k.ctr]
    /\ slot_state' = [slot_state EXCEPT ![s] = "RESERVED"]
    /\ slot_token' = [slot_token EXCEPT ![s] = k]
    /\ pending_refcount' = [pending_refcount EXCEPT ![current_epoch] = Increment(@)]
    /\ UNCHANGED <<epochVars, lineVars, spent, sealed>>

LEMMA ReserveEffect ==
    ASSUME TypeOK, NEW l \in Lines, Reserve(l)
    PROVE  \E s \in Slots, k \in Token : Reserved(l, s, k)
<1> DEFINE s == FreeSlot
           ctr == (alloc_ctr[l] + 1) % (CtrMax + 1)
           k == [slot |-> s, generation |-> (slot_token[s].generation + 1) % GenMod,
                 line |-> l, epoch |-> current_epoch, ctr |-> ctr]
<1>1. s \in Slots /\ slot_state[s] = "FREE"
  BY FreeSlotIsFree DEF Reserve, CanReserve, FreeSlots
<1>2. ctr = alloc_ctr[l] + 1 /\ ctr \in Counters
  <2>1. alloc_ctr[l] \in 0..CtrMax /\ alloc_ctr[l] # CtrMax /\ CtrMax \in Nat
    BY Sizes DEF Reserve, CanReserve, TypeOK, Counters
  <2>2. alloc_ctr[l] + 1 \in Nat /\ CtrMax + 1 \in Nat /\ alloc_ctr[l] + 1 < CtrMax + 1
    BY <2>1
  <2>3. ctr = alloc_ctr[l] + 1
    BY <2>2, SmallModulo
  <2>4. QED
    BY <2>1, <2>2, <2>3 DEF Counters
<1>3. (slot_token[s].generation + 1) % GenMod \in 0..(GenMod - 1)
  BY <1>1, Sizes, ModuloRange DEF TypeOK, Token
<1>4. k \in Token
  BY <1>1, <1>2, <1>3 DEF Token, TypeOK
<1>5. Reserved(l, s, k)
  BY <1>1, <1>2 DEF Reserve, Reserved
<1>6. QED
  BY <1>1, <1>4, <1>5

LEMMA WordSteps == \A n \in Word16 : Increment(n) \in Word16 /\ Decrement(n) \in Word16
BY Sizes, ModuloRange DEF Word16, Increment, Decrement

\* A commit publishes, or changes nothing but its slot.
Published(k) ==
    /\ Supersedes(k)
    /\ auth' = [auth EXCEPT ![k.line] = [valid |-> TRUE, epoch |-> k.epoch, ctr |-> k.ctr]]
    /\ live_refcount' = MovedReference(k)

LEMMA CommitEffect ==
    ASSUME NEW s, Commit(s)
    PROVE  /\ slot_state[s] = "ENCRYPTED" /\ FreeTheSlot(s)
           /\ UNCHANGED <<epochVars, alloc_ctr, sealed>>
           /\ Published(slot_token[s]) \/ UNCHANGED lineVars
BY DEF Commit, Published

\* What a commit does to the count of each epoch.
Moved(k, e) ==
    IF auth[k.line].valid /\ auth[k.line].epoch = k.epoch THEN live_refcount[e]
    ELSE IF e = k.epoch THEN Increment(live_refcount[e])
    ELSE IF auth[k.line].valid /\ e = auth[k.line].epoch THEN Decrement(live_refcount[e])
    ELSE live_refcount[e]

LEMMA MovedByEpoch ==
    ASSUME TypeOK, NEW k \in Token
    PROVE  MovedReference(k) = [e \in Epochs |-> Moved(k, e)]
<1> DEFINE old == auth[k.line]
<1>1. /\ live_refcount \in [Epochs -> Word16] /\ k.epoch \in Epochs
      /\ old.valid \in BOOLEAN /\ old.epoch \in Epochs
  BY DEF TypeOK, Token
<1>2. CASE ~old.valid
  <2>1. MovedReference(k) =
           [live_refcount EXCEPT ![k.epoch] = Increment(live_refcount[k.epoch])]
    BY <1>2 DEF MovedReference
  <2>2. QED
    BY <1>1, <1>2, <2>1 DEF Moved
<1>3. CASE old.valid /\ old.epoch # k.epoch
  <2>1. MovedReference(k) =
           [live_refcount EXCEPT ![old.epoch] = Decrement(live_refcount[old.epoch]),
                                 ![k.epoch] = Increment(live_refcount[k.epoch])]
    BY <1>3 DEF MovedReference
  <2>2. QED
    BY <1>1, <1>3, <2>1 DEF Moved
<1>4. CASE old.valid /\ old.epoch = k.epoch
  <2>1. MovedReference(k) = live_refcount
    BY <1>4 DEF MovedReference
  <2>2. QED
    BY <1>1, <1>4, <2>1 DEF Moved
<1>5. QED
  BY <1>1, <1>2, <1>3, <1>4

LEMMA MovedTyped ==
    ASSUME TypeOK, NEW k \in Token PROVE MovedReference(k) \in [Epochs -> Word16]
<1>1. \A e \in Epochs : Moved(k, e) \in Word16
  BY WordSteps DEF Moved, TypeOK
<1>2. QED
  BY <1>1, MovedByEpoch

LEMMA TypeStep == TypeOK /\ [Next]_vars => TypeOK'
<1>. SUFFICES ASSUME TypeOK, [Next]_vars PROVE TypeOK'
  OBVIOUS
<1>1. \A n \in Word16 : Increment(n) \in Word16 /\ Decrement(n) \in Word16
  BY WordSteps
<1>2. ASSUME NEW l \in Lines, Reserve(l) PROVE TypeOK'
  <2>1. PICK s \in Slots, k \in Token : Reserved(l, s, k)
    BY <1>2, ReserveEffect
  <2>2. k.ctr \in Counters
    BY DEF Token
  <2>3. QED
    BY <1>1, <2>1, <2>2 DEF Reserved, TypeOK, epochVars, lineVars
<1>3. ASSUME NEW s \in Slots, Encrypt(s) PROVE TypeOK'
  <2>1. slot_token[s].line \in Lines /\ slot_token[s].ctr \in Counters
    BY DEF TypeOK, Token
  <2>2. sealed' \in [Lines -> [Counters -> Nat]]
    BY <1>3, <2>1 DEF Encrypt, TypeOK
  <2>3. QED
    BY <1>3, <2>2 DEF Encrypt, TypeOK, epochVars, lineVars
<1>4. ASSUME NEW s \in Slots, FreeTheSlot(s)
      PROVE  /\ slot_state' \in [Slots -> {"FREE", "RESERVED", "ENCRYPTED"}]
             /\ pending_refcount' \in [Epochs -> Word16]
             /\ spent' \subseteq Token /\ slot_token' = slot_token
  BY <1>1, <1>4 DEF FreeTheSlot, TypeOK
<1>5. ASSUME NEW s \in Slots, Commit(s) PROVE TypeOK'
  <2>1. slot_token[s].line \in Lines /\ slot_token[s].epoch \in Epochs
        /\ slot_token[s].ctr \in Counters
    BY DEF TypeOK, Token
  <2>2. /\ FreeTheSlot(s) /\ UNCHANGED <<epochVars, alloc_ctr, sealed>>
        /\ Published(slot_token[s]) \/ UNCHANGED lineVars
    BY <1>5, CommitEffect
  <2>3. /\ auth' \in [Lines -> [valid : BOOLEAN, epoch : Epochs, ctr : Counters]]
        /\ live_refcount' \in [Epochs -> Word16]
    <3>1. CASE UNCHANGED lineVars
      BY <3>1 DEF TypeOK, lineVars
    <3>2. CASE Published(slot_token[s])
      <4>1. slot_token[s] \in Token
        BY DEF TypeOK
      <4>2. live_refcount' \in [Epochs -> Word16]
        BY <3>2, <4>1, MovedTyped DEF Published
      <4>3. [valid |-> TRUE, epoch |-> slot_token[s].epoch, ctr |-> slot_token[s].ctr]
               \in [valid : BOOLEAN, epoch : Epochs, ctr : Counters]
        BY <2>1
      <4>4. QED
        BY <2>1, <3>2, <4>2, <4>3 DEF Published, TypeOK
    <3>3. QED
      BY <2>2, <3>1, <3>2
  <2>4. QED
    BY <1>4, <2>2, <2>3 DEF TypeOK, epochVars
<1>6. ASSUME NEW s \in Slots, Cancel(s) PROVE TypeOK'
  BY <1>4, <1>6 DEF Cancel, TypeOK, epochVars, lineVars
<1>7. CASE Advance
  <2>1. current_epoch + 1 \in Epochs
    BY <1>7, Sizes DEF Advance, TypeOK, Epochs
  <2>2. QED
    BY <1>7, <2>1 DEF Advance, TypeOK, lineVars, slotVars
<1>8. ASSUME NEW e \in Epochs, Revoke(e) PROVE TypeOK'
  BY <1>8 DEF Revoke, TypeOK, lineVars, slotVars
<1>9. CASE UNCHANGED vars
  BY <1>9 DEF vars, epochVars, lineVars, slotVars, TypeOK
<1>10. QED
  BY <1>2, <1>3, <1>5, <1>6, <1>7, <1>8, <1>9 DEF Next

\* The slots in use after each operation.
LEMMA Occupies ==
    ASSUME TypeOK, NEW l \in Lines, NEW s \in Slots, NEW k \in Token, Reserved(l, s, k)
    PROVE  /\ s \notin Occupied /\ Occupied' = Occupied \cup {s}
           /\ slot_token'[s] = k
           /\ \A x \in Slots \ {s} : slot_token'[x] = slot_token[x]
BY DEF Reserved, Occupied, TypeOK

LEMMA Frees ==
    ASSUME TypeOK, NEW s \in Slots, slot_state[s] # "FREE", FreeTheSlot(s)
    PROVE  s \in Occupied /\ Occupied' = Occupied \ {s} /\ slot_token' = slot_token
BY DEF FreeTheSlot, Occupied, TypeOK

LEMMA KeepsSlots ==
    ASSUME TypeOK, \/ Advance \/ UNCHANGED vars
                   \/ \E e \in Epochs : Revoke(e)
                   \/ \E s \in Slots : Encrypt(s)
    PROVE  Occupied' = Occupied /\ slot_token' = slot_token
           /\ UNCHANGED <<pending_refcount, alloc_ctr, spent, lineVars>>
<1>1. CASE \E s \in Slots : Encrypt(s)
  BY <1>1 DEF Encrypt, Occupied, TypeOK
<1>2. CASE Advance \/ UNCHANGED vars \/ \E e \in Epochs : Revoke(e)
  BY <1>2 DEF Advance, Revoke, vars, slotVars, lineVars, Occupied
<1>3. QED
  BY <1>1, <1>2

-----------------------------------------------------------------------------
(* The counts.                                                             *)

\* There are never more references than a count can hold.
LEMMA CountsFit ==
    /\ IsFiniteSet(Lines) /\ IsFiniteSet(Slots)
    /\ \A S \in SUBSET Lines : IsFiniteSet(S) /\ Cardinality(S) \in Word16
    /\ \A S \in SUBSET Slots : IsFiniteSet(S) /\ Cardinality(S) \in Word16
<1>1. ASSUME NEW n \in Nat, 0 < n, n < WordSize
      PROVE  /\ IsFiniteSet(0..(n - 1))
             /\ \A S \in SUBSET (0..(n - 1)) : IsFiniteSet(S) /\ Cardinality(S) \in Word16
  <2>1. IsFiniteSet(0..(n - 1)) /\ Cardinality(0..(n - 1)) = n
    BY <1>1, FS_Interval
  <2>2. ASSUME NEW S \in SUBSET (0..(n - 1))
        PROVE  IsFiniteSet(S) /\ Cardinality(S) \in Word16
    <3>1. IsFiniteSet(S) /\ Cardinality(S) <= n /\ Cardinality(S) \in Nat
      BY <2>1, FS_Subset, FS_CardinalityType
    <3>2. QED
      BY <1>1, <3>1, Sizes DEF Word16
  <2>3. QED
    BY <2>1, <2>2
<1>2. NumLines \in Nat /\ 0 < NumLines /\ NumSlots \in Nat /\ 0 < NumSlots
  BY SizesAssumption
<1>3. QED
  BY <1>1, <1>2, Sizes DEF Lines, Slots

\* So counting up and down is not modular.
LEMMA NoWrap ==
    /\ \A n \in Word16 : n + 1 \in Word16 => Increment(n) = n + 1
    /\ \A n \in Word16 : n > 0 => Decrement(n) = n - 1
BY Sizes, SmallModulo DEF Word16, Increment, Decrement

LiveCounted == \A e \in Epochs : live_refcount[e] = Cardinality(Live(e))
WaitingCounted == \A e \in Epochs : pending_refcount[e] = Cardinality(Waiting(e))

LEMMA ReserveCounts ==
    ASSUME TypeOK, WaitingCounted, NEW l \in Lines, NEW s \in Slots, NEW k \in Token,
           Reserved(l, s, k)
    PROVE  WaitingCounted'
<1>. SUFFICES ASSUME NEW e \in Epochs PROVE pending_refcount'[e] = Cardinality(Waiting(e)')
  BY DEF WaitingCounted
<1>1. /\ s \notin Waiting(e)
      /\ Waiting(e)' = IF e = current_epoch THEN Waiting(e) \cup {s} ELSE Waiting(e)
  <2>1. k.epoch = current_epoch /\ Occupied \subseteq Slots
    BY DEF Reserved, Occupied
  <2>2. QED
    BY <2>1, Occupies DEF Waiting
<1>2. Waiting(e) \in SUBSET Slots /\ Waiting(e) \cup {s} \in SUBSET Slots
  BY DEF Waiting, Occupied
<1>3. /\ Cardinality(Waiting(e) \cup {s}) = Cardinality(Waiting(e)) + 1
      /\ Cardinality(Waiting(e)) \in Word16 /\ Cardinality(Waiting(e) \cup {s}) \in Word16
  BY <1>1, <1>2, CountsFit, FS_AddElement
<1>4. /\ pending_refcount[e] = Cardinality(Waiting(e))
      /\ pending_refcount'[e] = IF e = current_epoch THEN Increment(pending_refcount[e])
                                                     ELSE pending_refcount[e]
  BY DEF Reserved, WaitingCounted, TypeOK
<1>5. QED
  BY <1>1, <1>3, <1>4, NoWrap

LEMMA FreeCounts ==
    ASSUME TypeOK, WaitingCounted, NEW s \in Slots, slot_state[s] # "FREE", FreeTheSlot(s)
    PROVE  WaitingCounted'
<1>. SUFFICES ASSUME NEW e \in Epochs PROVE pending_refcount'[e] = Cardinality(Waiting(e)')
  BY DEF WaitingCounted
<1>1. Waiting(e)' = Waiting(e) \ {s} /\ (s \in Waiting(e) <=> e = slot_token[s].epoch)
  BY Frees DEF Waiting
<1>2. Waiting(e) \in SUBSET Slots
  BY DEF Waiting, Occupied
<1>3. /\ IsFiniteSet(Waiting(e)) /\ Cardinality(Waiting(e)) \in Word16
      /\ Cardinality(Waiting(e) \ {s}) \in Word16
      /\ Cardinality(Waiting(e) \ {s}) =
            IF s \in Waiting(e) THEN Cardinality(Waiting(e)) - 1 ELSE Cardinality(Waiting(e))
  BY <1>2, CountsFit, FS_RemoveElement
<1>4. /\ pending_refcount[e] = Cardinality(Waiting(e))
      /\ pending_refcount'[e] = IF e = slot_token[s].epoch THEN Decrement(pending_refcount[e])
                                                           ELSE pending_refcount[e]
  BY DEF FreeTheSlot, WaitingCounted, TypeOK
<1>5. s \in Waiting(e) => Cardinality(Waiting(e)) > 0
  BY <1>3, Sizes DEF Word16
<1>6. QED
  BY <1>1, <1>3, <1>4, <1>5, NoWrap

LEMMA PublishCounts ==
    ASSUME TypeOK, LiveCounted, NEW k \in Token, Published(k)
    PROVE  LiveCounted'
<1>. SUFFICES ASSUME NEW e \in Epochs PROVE live_refcount'[e] = Cardinality(Live(e)')
  BY DEF LiveCounted
<1> DEFINE old == auth[k.line]
           wasLive == old.valid /\ old.epoch = e
<1>1. k.line \in Lines /\ k.epoch \in Epochs
  BY DEF Token
<1>2. /\ k.line \in Live(e) <=> wasLive
      /\ Live(e)' = IF e = k.epoch THEN Live(e) \cup {k.line} ELSE Live(e) \ {k.line}
  BY <1>1 DEF Live, Published, TypeOK
<1>3. /\ Live(e) \in SUBSET Lines /\ Live(e) \cup {k.line} \in SUBSET Lines
      /\ Live(e) \ {k.line} \in SUBSET Lines
  BY <1>1 DEF Live
<1>4. /\ IsFiniteSet(Live(e)) /\ Cardinality(Live(e)) \in Word16
      /\ Cardinality(Live(e) \cup {k.line}) \in Word16
      /\ Cardinality(Live(e) \ {k.line}) \in Word16
  BY <1>3, CountsFit
<1>5. /\ Cardinality(Live(e) \cup {k.line}) =
            IF k.line \in Live(e) THEN Cardinality(Live(e)) ELSE Cardinality(Live(e)) + 1
      /\ Cardinality(Live(e) \ {k.line}) =
            IF k.line \in Live(e) THEN Cardinality(Live(e)) - 1 ELSE Cardinality(Live(e))
  BY <1>4, FS_AddElement, FS_RemoveElement
<1>6. live_refcount[e] = Cardinality(Live(e))
  BY DEF LiveCounted
<1>7. live_refcount'[e] = Moved(k, e)
  BY MovedByEpoch DEF Published
<1>8. Moved(k, e) = IF e = k.epoch
                    THEN IF wasLive THEN live_refcount[e] ELSE Increment(live_refcount[e])
                    ELSE IF wasLive THEN Decrement(live_refcount[e]) ELSE live_refcount[e]
  BY DEF Moved
<1>9. wasLive => Cardinality(Live(e)) > 0 \/ e = k.epoch
  BY <1>2, <1>4, <1>5, Sizes DEF Word16
<1>. HIDE DEF wasLive
<1>10. QED
  BY <1>2, <1>4, <1>5, <1>6, <1>7, <1>8, <1>9, NoWrap

LEMMA CountStep ==
    TypeOK /\ LiveCounted /\ WaitingCounted /\ [Next]_vars => LiveCounted' /\ WaitingCounted'
<1>. SUFFICES ASSUME TypeOK, LiveCounted, WaitingCounted, [Next]_vars
              PROVE  LiveCounted' /\ WaitingCounted'
  OBVIOUS
<1>1. UNCHANGED lineVars => LiveCounted'
  BY DEF lineVars, LiveCounted, Live
<1>2. ASSUME NEW l \in Lines, Reserve(l) PROVE LiveCounted' /\ WaitingCounted'
  <2>1. PICK s \in Slots, k \in Token : Reserved(l, s, k)
    BY <1>2, ReserveEffect
  <2>2. QED
    BY <1>1, <2>1, ReserveCounts DEF Reserved
<1>3. ASSUME NEW s \in Slots, Commit(s) PROVE LiveCounted' /\ WaitingCounted'
  <2>1. slot_token[s] \in Token
    BY DEF TypeOK
  <2>2. WaitingCounted'
    BY <1>3, CommitEffect, FreeCounts
  <2>3. QED
    BY <1>1, <1>3, <2>1, <2>2, CommitEffect, PublishCounts
<1>4. ASSUME NEW s \in Slots, Cancel(s) PROVE LiveCounted' /\ WaitingCounted'
  BY <1>1, <1>4, FreeCounts DEF Cancel
<1>5. ASSUME \/ Advance \/ UNCHANGED vars
             \/ \E e \in Epochs : Revoke(e)
             \/ \E s \in Slots : Encrypt(s)
      PROVE  LiveCounted' /\ WaitingCounted'
  BY <1>1, <1>5, KeepsSlots DEF WaitingCounted, Waiting
<1>6. QED
  BY <1>2, <1>3, <1>4, <1>5 DEF Next

-----------------------------------------------------------------------------
(* Epochs, versions, tokens and ciphertexts.                               *)

LEMMA EpochStep == TypeOK /\ EpochInv /\ [Next]_vars => EpochInv'
<1>. SUFFICES ASSUME TypeOK, EpochInv, [Next]_vars PROVE EpochInv'
  OBVIOUS
<1>1. CASE UNCHANGED epochVars
  BY <1>1 DEF EpochInv, epochVars
<1>2. CASE Advance
  <2>1. current_epoch \in Nat /\ \A e \in Epochs : e \in Nat
    BY Sizes DEF TypeOK, Epochs
  <2>2. \A e \in Epochs : e # current_epoch + 1 =>
           epoch_valid'[e] = epoch_valid[e] /\ epoch_erased'[e] = epoch_erased[e]
    BY <1>2 DEF Advance, TypeOK
  <2>3. current_epoch' = current_epoch + 1
    BY <1>2 DEF Advance
  <2>4. QED
    BY <2>1, <2>2, <2>3 DEF EpochInv
<1>3. ASSUME NEW e \in Epochs, Revoke(e) PROVE EpochInv'
  BY <1>3 DEF Revoke, Revocable, EpochInv, TypeOK
<1>4. (\E l \in Lines : Reserve(l)) => UNCHANGED epochVars
  BY DEF Reserve
<1>5. (\E s \in Slots : Encrypt(s) \/ Commit(s) \/ Cancel(s)) => UNCHANGED epochVars
  BY DEF Encrypt, Commit, Cancel
<1>6. QED
  BY <1>1, <1>2, <1>3, <1>4, <1>5 DEF Next, vars

LEMMA VersionStep == TypeOK /\ VersionInv /\ [Next]_vars => VersionInv'
<1>. SUFFICES ASSUME TypeOK, VersionInv, [Next]_vars PROVE VersionInv'
  OBVIOUS
<1>1. CASE UNCHANGED auth
  BY <1>1 DEF VersionInv
<1>2. ASSUME NEW s \in Slots, Commit(s) PROVE VersionInv'
  <2>1. CASE Published(slot_token[s])
    BY <2>1 DEF Published, VersionInv, TypeOK
  <2>2. QED
    BY <1>1, <1>2, <2>1, CommitEffect DEF lineVars
<1>3. QED
  BY <1>1, <1>2 DEF Next, Reserve, Encrypt, Cancel, Advance, Revoke, vars, lineVars

LEMMA TokenStep == TypeOK /\ TokenInv /\ [Next]_vars => TokenInv'
<1>. SUFFICES ASSUME TypeOK, TokenInv, [Next]_vars PROVE TokenInv'
  OBVIOUS
<1>1. /\ \A l \in Lines : alloc_ctr[l] \in Nat
      /\ \A s \in Slots : slot_token[s] \in Token
      /\ \A k \in Token : k.line \in Lines /\ k.ctr \in Nat
      /\ spent \subseteq Token /\ Occupied \subseteq Slots
  BY Sizes DEF TypeOK, Token, Counters, Occupied
<1>2. ASSUME NEW l \in Lines, Reserve(l) PROVE TokenInv'
  <2>1. PICK s \in Slots, k \in Token : Reserved(l, s, k)
    BY <1>2, ReserveEffect
  <2>2. /\ Occupied' = Occupied \cup {s} /\ s \notin Occupied
        /\ slot_token'[s] = k /\ \A x \in Slots \ {s} : slot_token'[x] = slot_token[x]
    BY <2>1, Occupies
  <2>3. k.slot = s /\ k.line = l /\ k.ctr = alloc_ctr[l] + 1 /\ spent' = spent
    BY <2>1 DEF Reserved
  <2>4. /\ alloc_ctr'[l] = k.ctr /\ \A x \in Lines \ {l} : alloc_ctr'[x] = alloc_ctr[x]
    BY <2>1 DEF Reserved, TypeOK
  <2>5. \A x \in Lines : alloc_ctr[x] <= alloc_ctr'[x] /\ alloc_ctr'[x] \in Nat
    BY <1>1, <2>3, <2>4
  <2>6. \A x \in Occupied : /\ slot_token'[x] = slot_token[x]
                            /\ slot_token[x].line = l => slot_token[x].ctr < k.ctr
    BY <1>1, <2>2, <2>3 DEF TokenInv
  <2>7. \A x \in spent : x.line = l => x.ctr < k.ctr
    BY <1>1, <2>3 DEF TokenInv
  <2>8. \A x \in Slots : slot_token'[x].slot = x
    BY <2>2, <2>3 DEF TokenInv
  <2>9. \A x \in Occupied' : 1 <= slot_token'[x].ctr
                             /\ slot_token'[x].ctr <= alloc_ctr'[slot_token'[x].line]
    <3>1. \A x \in Occupied : 1 <= slot_token'[x].ctr
                              /\ slot_token'[x].ctr <= alloc_ctr'[slot_token'[x].line]
      BY <1>1, <2>5, <2>6 DEF TokenInv
    <3>2. QED
      BY <1>1, <2>2, <2>3, <2>4, <3>1
  <2>10. \A x, y \in Occupied' : slot_token'[x].line = slot_token'[y].line
                                /\ slot_token'[x].ctr = slot_token'[y].ctr => x = y
    BY <1>1, <2>2, <2>3, <2>6 DEF TokenInv
  <2>11. \A x \in spent' : x.ctr <= alloc_ctr'[x.line]
    BY <1>1, <2>3, <2>5 DEF TokenInv
  <2>12. \A x \in spent', y \in Occupied' :
            x.line = slot_token'[y].line => x.ctr # slot_token'[y].ctr
    BY <1>1, <2>2, <2>3, <2>6, <2>7 DEF TokenInv
  <2>13. QED
    BY <2>8, <2>9, <2>10, <2>11, <2>12 DEF TokenInv
<1>3. ASSUME NEW s \in Slots, slot_state[s] # "FREE", FreeTheSlot(s), alloc_ctr' = alloc_ctr
      PROVE  TokenInv'
  <2>1. s \in Occupied /\ Occupied' = Occupied \ {s} /\ slot_token' = slot_token
    BY <1>3, Frees
  <2>2. spent' = spent \cup {slot_token[s]}
    BY <1>3 DEF FreeTheSlot
  <2>3. QED
    BY <1>1, <1>3, <2>1, <2>2 DEF TokenInv
<1>4. ASSUME NEW s \in Slots, Commit(s) \/ Cancel(s) PROVE TokenInv'
  BY <1>3, <1>4, CommitEffect DEF Cancel
<1>5. ASSUME \/ Advance \/ UNCHANGED vars
             \/ \E e \in Epochs : Revoke(e)
             \/ \E s \in Slots : Encrypt(s)
      PROVE  TokenInv'
  BY <1>5, KeepsSlots DEF TokenInv
<1>6. QED
  BY <1>2, <1>4, <1>5 DEF Next

LEMMA SealStep == TypeOK /\ TokenInv /\ SealInv /\ [Next]_vars => SealInv'
<1>. SUFFICES ASSUME TypeOK, TokenInv, SealInv, [Next]_vars PROVE SealInv'
  OBVIOUS
<1>1. /\ \A l \in Lines : alloc_ctr[l] \in Nat
      /\ \A s \in Slots : slot_token[s].line \in Lines /\ slot_token[s].ctr \in Counters
      /\ \A c \in Counters : c \in Nat
  BY Sizes DEF TypeOK, Token, Counters
<1>2. ASSUME NEW l \in Lines, Reserve(l) PROVE SealInv'
  <2>1. PICK s \in Slots, k \in Token : Reserved(l, s, k)
    BY <1>2, ReserveEffect
  <2>2. /\ slot_token'[s] = k /\ \A x \in Slots \ {s} : slot_token'[x] = slot_token[x]
        /\ \A x \in Slots \ {s} : slot_state'[x] = slot_state[x]
    BY <2>1, Occupies DEF Reserved, TypeOK
  <2>3. /\ k.line = l /\ k.ctr = alloc_ctr[l] + 1 /\ k.ctr \in Counters
        /\ sealed' = sealed
        /\ alloc_ctr'[l] = k.ctr /\ \A x \in Lines \ {l} : alloc_ctr'[x] = alloc_ctr[x]
    BY <2>1 DEF Reserved, Token, TypeOK
  <2>4. sealed[l][k.ctr] = 0
    BY <1>1, <2>3 DEF SealInv
  <2>5. \A x \in Lines, c \in Counters : c > alloc_ctr'[x] => sealed'[x][c] = 0
    BY <1>1, <2>3 DEF SealInv
  <2>6. \A x \in Slots : slot_state'[x] = "RESERVED" =>
           sealed'[slot_token'[x].line][slot_token'[x].ctr] = 0
    BY <2>2, <2>3, <2>4 DEF SealInv
  <2>7. QED
    BY <2>3, <2>5, <2>6 DEF SealInv, NonceUnique
<1>3. ASSUME NEW s \in Slots, Encrypt(s) PROVE SealInv'
  <2> DEFINE l == slot_token[s].line
             c == slot_token[s].ctr
  <2>1. l \in Lines /\ c \in Counters /\ s \in Occupied /\ c <= alloc_ctr[l]
    BY <1>1, <1>3 DEF Encrypt, Occupied, TokenInv
  <2>2. sealed[l][c] = 0
    BY <1>3 DEF Encrypt, SealInv
  <2>3. \A x \in Lines, y \in Counters :
           sealed'[x][y] = IF x = l /\ y = c THEN 1 ELSE sealed[x][y]
    BY <1>3, <2>1, <2>2 DEF Encrypt, TypeOK
  <2>4. /\ slot_token' = slot_token /\ alloc_ctr' = alloc_ctr /\ slot_state'[s] = "ENCRYPTED"
        /\ \A x \in Slots \ {s} : slot_state'[x] = slot_state[x]
    BY <1>3 DEF Encrypt, TypeOK
  <2>5. \A x \in Slots : slot_state'[x] = "RESERVED" =>
           x # s /\ slot_state[x] = "RESERVED" /\ x \in Occupied
    BY <2>4 DEF Occupied
  <2>6. \A x \in Slots : slot_state'[x] = "RESERVED" =>
           ~(slot_token[x].line = l /\ slot_token[x].ctr = c)
    BY <2>1, <2>5 DEF TokenInv
  <2> HIDE DEF l, c
  <2>7. \A x \in Slots : slot_state'[x] = "RESERVED" =>
           sealed'[slot_token'[x].line][slot_token'[x].ctr] = 0
    BY <1>1, <2>3, <2>4, <2>5, <2>6 DEF SealInv
  <2>8. \A x \in Lines, y \in Counters : y > alloc_ctr'[x] => sealed'[x][y] = 0
    BY <1>1, <2>1, <2>3, <2>4 DEF SealInv
  <2>9. NonceUnique'
    BY <2>3 DEF SealInv, NonceUnique
  <2>10. QED
    BY <2>7, <2>8, <2>9 DEF SealInv
<1>4. ASSUME NEW s \in Slots, Commit(s) \/ Cancel(s) PROVE SealInv'
  <2>1. /\ FreeTheSlot(s) /\ alloc_ctr' = alloc_ctr /\ sealed' = sealed
    BY <1>4, CommitEffect DEF Cancel
  <2>2. \A x \in Slots : slot_state'[x] = "RESERVED" => slot_state[x] = "RESERVED"
    BY <2>1 DEF FreeTheSlot, TypeOK
  <2>3. QED
    BY <2>1, <2>2 DEF SealInv, NonceUnique, FreeTheSlot
<1>5. CASE Advance \/ UNCHANGED vars \/ \E e \in Epochs : Revoke(e)
  BY <1>5 DEF Advance, Revoke, vars, slotVars, SealInv, NonceUnique
<1>6. QED
  BY <1>2, <1>3, <1>4, <1>5 DEF Next

-----------------------------------------------------------------------------
(* The theorems.                                                           *)

IInv == TypeOK /\ EpochInv /\ VersionInv /\ TokenInv /\ SealInv
        /\ LiveCounted /\ WaitingCounted

LEMMA InitIInv == Init => IInv
<1>. SUFFICES ASSUME Init PROVE IInv
  OBVIOUS
<1>1. TypeOK
  <2>1. /\ 0 \in Lines /\ 0 \in Epochs /\ 1 \in Epochs /\ 0 \in Counters
        /\ 0 \in 0..(GenMod - 1) /\ 0 \in Word16
    BY Sizes, SizesAssumption DEF Lines, Epochs, Counters, Word16
  <2>2. \A s \in Slots : slot_token[s] \in Token
    BY <2>1 DEF Init, Token
  <2>3. slot_token \in [Slots -> Token]
    BY <2>2 DEF Init
  <2>4. auth \in [Lines -> [valid : BOOLEAN, epoch : Epochs, ctr : Counters]]
    BY <2>1 DEF Init
  <2>5. sealed \in [Lines -> [Counters -> Nat]] /\ alloc_ctr \in [Lines -> Counters]
    BY <2>1 DEF Init
  <2>6. live_refcount \in [Epochs -> Word16] /\ pending_refcount \in [Epochs -> Word16]
    BY <2>1 DEF Init
  <2>7. epoch_valid \in [Epochs -> BOOLEAN] /\ epoch_erased \in [Epochs -> BOOLEAN]
    BY DEF Init
  <2>8. slot_state \in [Slots -> {"FREE", "RESERVED", "ENCRYPTED"}]
    BY DEF Init
  <2>9. current_epoch \in Epochs /\ spent \subseteq Token
    BY <2>1 DEF Init
  <2>10. QED
    BY <2>3, <2>4, <2>5, <2>6, <2>7, <2>8, <2>9 DEF TypeOK
<1>2. Occupied = {} /\ \A e \in Epochs : Live(e) = {} /\ Waiting(e) = {}
  BY DEF Init, Occupied, Live, Waiting
<1>3. LiveCounted /\ WaitingCounted
  BY <1>2, FS_EmptySet DEF Init, LiveCounted, WaitingCounted
<1>4. EpochInv /\ VersionInv
  <2>1. \A e \in Epochs : epoch_valid[e] \/ epoch_erased[e] => e = 1
    BY DEF Init
  <2>2. current_epoch = 1 /\ 1 <= 1
    BY DEF Init
  <2>3. EpochInv
    BY <2>1, <2>2 DEF EpochInv
  <2>4. VersionInv
    BY DEF Init, VersionInv
  <2>5. QED
    BY <2>3, <2>4
<1>5. TokenInv /\ SealInv
  BY <1>2 DEF Init, TokenInv, SealInv, NonceUnique
<1>6. QED
  BY <1>1, <1>3, <1>4, <1>5 DEF IInv

LEMMA Inductive == Spec => []IInv
<1>1. IInv /\ [Next]_vars => IInv'
  BY TypeStep, EpochStep, VersionStep, TokenStep, SealStep, CountStep DEF IInv
<1>2. QED
  BY <1>1, InitIInv, PTL DEF Spec

\* Every register keeps its width: counters and epochs stop at their limits.
THEOREM RtlTyped == Spec => []TypeOK
BY Inductive, PTL DEF IInv

\* live_refcount and pending_refcount are exact although they wrap at 16 bits:
\* there are never more lines or slots than they can count.
THEOREM RtlCountsExact == Spec => []CountsExact
<1>1. IInv => CountsExact
  BY DEF IInv, LiveCounted, WaitingCounted, CountsExact, Live, Waiting
<1>2. QED
  BY <1>1, Inductive, PTL

\* A committed, refused or cancelled token never matches a slot again, for
\* generations of any width, also none at all.
THEOREM RtlSpentDead == Spec => []SpentTokensDead
<1>1. IInv => SpentTokensDead
  BY DEF IInv, TokenInv, SpentTokensDead
<1>2. QED
  BY <1>1, Inductive, PTL

\* OP_ENC authorizes no line and counter twice, in whatever epoch.
THEOREM RtlNoncesUnique == Spec => []NonceUnique
<1>1. IInv => NonceUnique
  BY DEF IInv, SealInv
<1>2. QED
  BY <1>1, Inductive, PTL

-----------------------------------------------------------------------------
(* What each operation is to the ledger.                                   *)

WriteOf(k) == [line |-> k.line, epoch |-> k.epoch, ctr |-> k.ctr]
OpenWrites == {WriteOf(slot_token[s]) : s \in Occupied}
Versions == [l \in Lines |-> [epoch |-> auth[l].epoch, ctr |-> auth[l].ctr]]
Erased == {e \in Epochs : epoch_erased[e]}

LEMMA LedgerInit == Init => Ledger!Init
<1>. SUFFICES ASSUME Init PROVE Ledger!Init
  OBVIOUS
<1>1. Occupied = {} /\ Erased = {}
  BY DEF Init, Occupied, Erased
<1>2. OpenWrites = {}
  BY <1>1 DEF OpenWrites
<1>3. Versions = [l \in Lines |-> [epoch |-> 0, ctr |-> 0]]
  BY DEF Init, Versions
<1>4. QED
  BY <1>1, <1>2, <1>3 DEF Init, Ledger!Init, OpenWrites, WriteOf, Versions, Erased

LEMMA ReserveOpens ==
    ASSUME TypeOK, NEW l \in Lines, Reserve(l)
    PROVE  Ledger!Open(l) /\ current_epoch' = current_epoch
<1>1. PICK s \in Slots, k \in Token : Reserved(l, s, k)
  BY ReserveEffect
<1>2. alloc_ctr[l] \in Nat /\ k.ctr = alloc_ctr[l] + 1
  BY <1>1, Sizes DEF Reserved, TypeOK, Counters
<1>3. /\ alloc_ctr'[l] = k.ctr /\ alloc_ctr'[l] > alloc_ctr[l]
      /\ alloc_ctr' = [alloc_ctr EXCEPT ![l] = alloc_ctr'[l]]
  BY <1>1, <1>2 DEF Reserved, TypeOK
<1>4. current_epoch' = current_epoch /\ Versions' = Versions
  BY <1>1 DEF Reserved, epochVars, lineVars, Versions
<1>5. OpenWrites' = OpenWrites \cup {WriteOf(k)}
  <2>1. /\ Occupied' = Occupied \cup {s} /\ slot_token'[s] = k
        /\ \A x \in Occupied : slot_token'[x] = slot_token[x]
    BY <1>1, Occupies DEF Occupied
  <2>2. QED
    BY <2>1 DEF OpenWrites
<1>6. WriteOf(k) = [line |-> l, epoch |-> current_epoch', ctr |-> alloc_ctr'[l]]
  BY <1>1, <1>3, <1>4 DEF Reserved, WriteOf
<1>7. OpenWrites' = OpenWrites
         \cup {[line |-> l, epoch |-> current_epoch', ctr |-> alloc_ctr'[l]]}
  BY <1>5, <1>6
<1>8. QED
  BY <1>3, <1>4, <1>7 DEF Ledger!Open, OpenWrites, WriteOf, Versions

\* Occupied slots hold different writes, so freeing one leaves those of the others.
LEMMA FreeDrops ==
    ASSUME TypeOK, TokenInv, NEW s \in Slots, slot_state[s] # "FREE", FreeTheSlot(s)
    PROVE  /\ WriteOf(slot_token[s]) \in OpenWrites
           /\ OpenWrites' = OpenWrites \ {WriteOf(slot_token[s])}
<1>1. s \in Occupied /\ Occupied' = Occupied \ {s} /\ slot_token' = slot_token
  BY Frees
<1>2. \A x \in Occupied : WriteOf(slot_token[x]) = WriteOf(slot_token[s]) => x = s
  BY <1>1 DEF WriteOf, TokenInv
<1>3. QED
  BY <1>1, <1>2 DEF OpenWrites

LEMMA CancelIsDrop ==
    ASSUME TypeOK, TokenInv, NEW s \in Slots, Cancel(s)
    PROVE  /\ WriteOf(slot_token[s]) \in OpenWrites /\ Ledger!Drop(WriteOf(slot_token[s]))
           /\ current_epoch' = current_epoch
<1>1. /\ slot_state[s] # "FREE" /\ FreeTheSlot(s)
      /\ UNCHANGED <<current_epoch, auth, alloc_ctr>>
  BY DEF Cancel, epochVars, lineVars
<1>2. Versions' = Versions
  BY <1>1 DEF Versions
<1>3. QED
  BY <1>1, <1>2, FreeDrops DEF Ledger!Drop, OpenWrites, WriteOf, Versions

LEMMA CommitResolves ==
    ASSUME TypeOK, VersionInv, TokenInv, NEW s \in Slots, Commit(s)
    PROVE  /\ WriteOf(slot_token[s]) \in OpenWrites
           /\ \/ Ledger!Drop(WriteOf(slot_token[s]))
              \/ Ledger!Publish(WriteOf(slot_token[s]))
           /\ current_epoch' = current_epoch
<1> DEFINE k == slot_token[s]
<1>1. /\ slot_state[s] # "FREE" /\ FreeTheSlot(s)
      /\ UNCHANGED <<current_epoch, alloc_ctr>>
      /\ Published(k) \/ UNCHANGED lineVars
  BY CommitEffect DEF epochVars
<1>2. s \in Occupied /\ k.line \in Lines /\ k.ctr \in Nat /\ 1 <= k.ctr
  <2>1. s \in Occupied
    BY <1>1, Frees
  <2>2. k \in Token /\ Counters \subseteq Nat
    BY Sizes DEF TypeOK, Counters
  <2>3. QED
    BY <2>1, <2>2 DEF Token, TokenInv
<1>3. WriteOf(k) \in OpenWrites /\ OpenWrites' = OpenWrites \ {WriteOf(k)}
  BY <1>1, FreeDrops
<1>4. CASE UNCHANGED lineVars
  <2>1. Versions' = Versions
    BY <1>4 DEF lineVars, Versions
  <2>2. QED
    BY <1>1, <1>3, <2>1 DEF Ledger!Drop, OpenWrites, WriteOf, Versions
<1>5. CASE Published(k)
  <2>1. k.ctr > auth[k.line].ctr
    <3>1. CASE auth[k.line].valid
      BY <1>5, <3>1 DEF Published, Supersedes
    <3>2. CASE ~auth[k.line].valid
      BY <1>2, <3>2 DEF VersionInv
    <3>3. QED
      BY <3>1, <3>2
  <2>2. WriteOf(k).ctr > Versions[WriteOf(k).line].ctr
    BY <1>2, <2>1 DEF WriteOf, Versions
  <2>3. auth' = [auth EXCEPT ![k.line] = [valid |-> TRUE, epoch |-> k.epoch, ctr |-> k.ctr]]
    BY <1>5 DEF Published
  <2>4. Versions' = [Versions EXCEPT ![k.line] = [epoch |-> k.epoch, ctr |-> k.ctr]]
    BY <1>2, <2>3 DEF Versions, TypeOK
  <2>5. QED
    BY <1>1, <1>3, <2>2, <2>4 DEF Ledger!Publish, OpenWrites, WriteOf, Versions
<1>6. QED
  BY <1>1, <1>3, <1>4, <1>5

\* An epoch is erased when its counts are zero, and the counts are exact.
LEMMA RevokeErases ==
    ASSUME IInv, NEW e \in Epochs, Revoke(e)
    PROVE  Erased \subseteq Erased' /\ Ledger!Erase
<1>. USE DEF IInv
<1>1. /\ e + RetentionW <= current_epoch /\ current_epoch' = current_epoch
      /\ UNCHANGED <<auth, slot_state, slot_token>>
      /\ epoch_erased' = [epoch_erased EXCEPT ![e] = TRUE]
      /\ live_refcount[e] = 0 /\ pending_refcount[e] = 0 /\ epoch_valid[e]
  BY DEF Revoke, Revocable, lineVars, slotVars
<1>2. Erased' = Erased \cup {e}
  BY <1>1 DEF Erased, TypeOK
<1>3. Live(e) = {} /\ Waiting(e) = {}
  <2>1. Live(e) \in SUBSET Lines /\ Waiting(e) \in SUBSET Slots
    BY DEF Live, Waiting, Occupied
  <2>2. IsFiniteSet(Live(e)) /\ IsFiniteSet(Waiting(e))
    BY <2>1, CountsFit
  <2>3. Cardinality(Live(e)) = 0 /\ Cardinality(Waiting(e)) = 0
    BY <1>1 DEF LiveCounted, WaitingCounted
  <2>4. QED
    BY <2>2, <2>3, FS_EmptySet
<1>4. e # 0
  BY <1>1, Sizes DEF EpochInv, TypeOK, Epochs
<1>5. \A l \in Lines : Versions'[l].epoch # e
  BY <1>1, <1>3, <1>4 DEF Versions, Live, VersionInv
<1>6. \A w \in OpenWrites' : w.epoch # e
  <2>1. \A s \in Occupied : slot_token[s].epoch # e
    BY <1>3 DEF Waiting
  <2>2. Occupied' = Occupied /\ slot_token' = slot_token
    BY <1>1 DEF Occupied
  <2>3. QED
    BY <2>1, <2>2 DEF OpenWrites, WriteOf
<1>7. QED
  BY <1>1, <1>2, <1>5, <1>6 DEF Ledger!Erase, OpenWrites, WriteOf, Versions, Erased

\* Only revocation erases: what advancing opens was never erased.
LEMMA OthersEraseNothing ==
    ASSUME IInv, \/ Advance \/ UNCHANGED epochVars
    PROVE  Erased' = Erased
<1>1. CASE Advance
  <2>1. current_epoch + 1 \in Epochs /\ ~epoch_erased[current_epoch + 1]
    BY <1>1, Sizes DEF IInv, Advance, TypeOK, Epochs, EpochInv
  <2>2. QED
    BY <1>1, <2>1 DEF Advance, Erased, IInv, TypeOK
<1>2. CASE UNCHANGED epochVars
  BY <1>2 DEF epochVars, Erased
<1>3. QED
  BY <1>1, <1>2

LEMMA LedgerStep == IInv /\ [Next]_vars => [Ledger!Next]_Ledger!vars
<1>. SUFFICES ASSUME IInv, [Next]_vars PROVE Ledger!Next
  OBVIOUS
<1>. USE DEF IInv
<1>1. current_epoch' \in {current_epoch, current_epoch + 1}
  BY ReserveOpens, CancelIsDrop, CommitResolves
     DEF Next, Encrypt, Advance, Revoke, vars, epochVars
<1>2. Erased \subseteq Erased' /\ Ledger!Erase
  <2>1. CASE \E e \in Epochs : Revoke(e)
    BY <2>1, RevokeErases
  <2>2. CASE Advance \/ UNCHANGED epochVars
    <3>1. Erased' = Erased
      BY <2>2, OthersEraseNothing
    <3>2. QED
      BY <3>1 DEF Ledger!Erase, Erased
  <2>3. QED
    BY <2>1, <2>2 DEF Next, Reserve, Encrypt, Commit, Cancel, vars, epochVars
<1>3. \/ \E l \in Lines : Ledger!Open(l)
      \/ \E w \in OpenWrites : Ledger!Drop(w) \/ Ledger!Publish(w)
      \/ UNCHANGED <<alloc_ctr, Versions, OpenWrites>>
  <2>1. ASSUME \/ Advance \/ UNCHANGED vars
               \/ \E e \in Epochs : Revoke(e)
               \/ \E s \in Slots : Encrypt(s)
        PROVE  UNCHANGED <<alloc_ctr, Versions, OpenWrites>>
    BY <2>1, KeepsSlots DEF lineVars, Versions, OpenWrites
  <2>2. ASSUME NEW s \in Slots, Commit(s) \/ Cancel(s)
        PROVE  \E w \in OpenWrites : Ledger!Drop(w) \/ Ledger!Publish(w)
    <3>1. \/ Commit(s)
          \/ Cancel(s)
      BY <2>2
    <3>2. /\ WriteOf(slot_token[s]) \in OpenWrites
          /\ \/ Ledger!Drop(WriteOf(slot_token[s]))
             \/ Ledger!Publish(WriteOf(slot_token[s]))
      BY <3>1, CancelIsDrop, CommitResolves
    <3>3. QED
      BY <3>2 DEF Ledger!Drop, Ledger!Publish
  <2>3. ASSUME NEW l \in Lines, Reserve(l) PROVE Ledger!Open(l)
    BY <2>3, ReserveOpens
  <2>4. QED
    BY <2>1, <2>2, <2>3 DEF Next
<1>4. QED
  BY <1>1, <1>2, <1>3 DEF Ledger!Next, OpenWrites, WriteOf, Versions, Erased

\* The hardware controller implements the ledger: for any number of lines and
\* slots up to 65535 it keeps the promises the Python service keeps.
THEOREM RtlImplementsLedger == Spec => ImplementsWriteLedger
<1>1. IInv /\ [Next]_vars => [Ledger!Next]_Ledger!vars
  BY LedgerStep
<1>2. QED
  BY <1>1, LedgerInit, Inductive, PTL DEF Spec, ImplementsWriteLedger, Ledger!Spec
=============================================================================
