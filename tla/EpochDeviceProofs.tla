--------------------------- MODULE EpochDeviceProofs ---------------------------
(***************************************************************************)
(* Theorems about EpochDevice: for any finite set of lines, any number of  *)
(* reads at once, any epochs and counters, any width of the nonce's        *)
(* counter field and any retention window.                                 *)
(***************************************************************************)
EXTENDS EpochDevice, ModuloLemmas, FiniteSetTheorems

\* The versions a line takes never return: neither part ever decreases.
NoNewer(v, w) == v.epoch <= w.epoch /\ v.ctr <= w.ctr

\* The values of the nonce's counter field.
Fields == 0..(CtrLimit - 1)

TypeInv ==
    /\ currentEpoch \in Epochs
    /\ epochKeys \subseteq 1..currentEpoch
    /\ epochAddrWrites \in [Epochs -> [Lines -> Nat]]
    /\ lines \in [Lines -> StoredLine]
    /\ auth \in [Lines -> Version]
    /\ copies \subseteq StoredLine
    /\ sealed \in [Epochs -> [Lines -> [Fields -> Nat]]]

\* The store holds the ciphertext of each line's trusted version.
StoreInv == \A l \in Lines :
    /\ lines[l] = Sealed(l, auth[l]) /\ lines[l] \in copies
    /\ auth[l].epoch <= currentEpoch

StoredIn(e) == {l \in Lines : lines[l].epoch = e}
CountInv == epochRefcount = [e \in Epochs |-> Cardinality(StoredIn(e))]

\* A key is kept as long as its epoch is in the window or holds a line.
KeyInv ==
    /\ \A e \in 1..currentEpoch : e >= Cutoff(currentEpoch) => e \in epochKeys
    /\ \A l \in Lines : auth[l].epoch \in epochKeys

\* Nothing is written in an epoch to come, and the counters a line has used in
\* the current epoch are no more than the guard has counted, and one: the
\* bootstrap ciphertext or a migrated one.
WindowInv ==
    /\ \A c \in copies : c.epoch <= currentEpoch
    /\ \A e \in Epochs, l \in Lines : e > currentEpoch => epochAddrWrites[e][l] = 0
    /\ \A l \in Lines : auth[l].epoch < currentEpoch =>
          /\ epochAddrWrites[currentEpoch][l] = 0
          /\ \A c \in copies : c.line = l => c.epoch # currentEpoch
    /\ \A c \in copies : c.epoch = currentEpoch =>
          /\ c.ctr <= auth[c.line].ctr
          /\ auth[c.line].ctr <= c.ctr + epochAddrWrites[currentEpoch][c.line]

\* Ciphertexts with the same key and nonce are the same, and sealed once.
SealInv ==
    /\ \A c, d \in copies :
          /\ c.line = d.line /\ c.epoch = d.epoch
          /\ c.ctr % CtrLimit = d.ctr % CtrLimit
          => c = d
    /\ \A e \in Epochs, l \in Lines : \A n \in Fields :
          /\ sealed[e][l][n] <= 1
          /\ sealed[e][l][n] # 0 =>
                \E c \in copies : c.line = l /\ c.epoch = e /\ c.ctr % CtrLimit = n

\* What a read in progress has seen is in the line's past, in that order.
Seen(r) ==
    /\ r.phase \in {"begun", "fetched", "checked"} =>
          r.line \in Lines /\ r.before \in Version /\ NoNewer(r.before, auth[r.line])
    /\ r.phase \in {"fetched", "checked"} =>
          /\ r.resp \in copies /\ r.honest \in BOOLEAN
          /\ r.honest => /\ r.resp.line = r.line /\ NoNewer(r.before, r.resp)
                         /\ NoNewer(r.resp, auth[r.line])
    /\ r.phase = "checked" => r.after \in Version

ReadInv == \A i \in Reads : Seen(read[i])

Inv == TypeInv /\ StoreInv /\ CountInv /\ KeyInv /\ WindowInv /\ SealInv
ReadsInv == read \in [Reads -> ReadState] /\ ReadInv /\ HonestReadNotRejected

-----------------------------------------------------------------------------
(* The operations of the device.                                           *)

LEMMA Bounds ==
    /\ MaxEpoch \in Nat /\ MaxEpoch >= 1 /\ MaxCtr \in Nat
    /\ CtrLimit \in Nat /\ CtrLimit >= 1 /\ RetentionW \in Nat /\ RetentionW >= 1
    /\ \A e \in Epochs : e \in Nat /\ e >= 1
    /\ \A c \in Counters : c \in Nat
    /\ \A e \in Epochs : Cutoff(e) \in Int /\ Cutoff(e) <= e
BY BoundsAssumption, LimitAssumption DEF Epochs, Counters, Cutoff

\* What a write or a migration stores: the next version of a line, in the
\* current epoch, with a nonce that the line has not used in it.
Stores(l, v) ==
    /\ StoreAs(l, v)
    /\ v \in Version /\ v.epoch = currentEpoch' /\ NoNewer(auth[l], v)
    /\ \A c \in copies : c.line = l /\ c.epoch = v.epoch =>
          c.ctr % CtrLimit # v.ctr % CtrLimit
    /\ epochAddrWrites' \in [Epochs -> [Lines -> Nat]]
    /\ \A e \in Epochs, k \in Lines :
          (e # currentEpoch' \/ k # l) => epochAddrWrites'[e][k] = epochAddrWrites[e][k]
    /\ \A c \in copies : c.line = l /\ c.epoch = v.epoch =>
          /\ c.ctr <= v.ctr
          /\ v.ctr <= c.ctr + epochAddrWrites'[v.epoch][l]

\* The epoch stays, or the next one begins.
Epoch == AdvanceEpoch \/ UNCHANGED <<currentEpoch, epochKeys>>

LEMMA EpochMoves ==
    ASSUME Inv, Epoch
    PROVE  /\ currentEpoch' \in Epochs /\ currentEpoch <= currentEpoch'
           /\ currentEpoch' # currentEpoch => AdvanceEpoch /\ currentEpoch' = currentEpoch + 1
BY Bounds DEF Epoch, AdvanceEpoch, Inv, TypeInv

LEMMA WriteStores ==
    ASSUME Inv, NEW l \in Lines, Write(l)
    PROVE  Stores(l, [epoch |-> currentEpoch', ctr |-> auth[l].ctr + 1]) /\ Epoch
<1> DEFINE v == [epoch |-> currentEpoch', ctr |-> auth[l].ctr + 1]
<1>. USE DEF Inv
<1>1. Epoch /\ StoreAs(l, v)
  BY DEF Write, Epoch
<1>2. /\ currentEpoch' \in Epochs /\ currentEpoch \in Nat /\ currentEpoch <= currentEpoch'
      /\ currentEpoch' # currentEpoch => currentEpoch' = currentEpoch + 1
  BY <1>1, EpochMoves, Bounds DEF TypeInv
<1>3. auth[l] \in Version /\ auth[l].ctr \in Nat /\ auth[l].epoch \in Nat
  BY Bounds DEF TypeInv, Version
<1>4. v \in Version /\ NoNewer(auth[l], v)
  <2>1. auth[l].ctr + 1 \in Counters
    BY <1>3, Bounds DEF Write, Counters
  <2>2. auth[l].epoch <= currentEpoch'
    BY <1>2, <1>3 DEF StoreInv
  <2>3. QED
    BY <1>2, <1>3, <2>1, <2>2 DEF Version, NoNewer
<1>5. /\ epochAddrWrites' \in [Epochs -> [Lines -> Nat]]
      /\ epochAddrWrites'[currentEpoch'][l] = epochAddrWrites[currentEpoch'][l] + 1
      /\ \A e \in Epochs, k \in Lines :
            (e # currentEpoch' \/ k # l) => epochAddrWrites'[e][k] = epochAddrWrites[e][k]
  BY <1>2 DEF Write, TypeInv
<1>6. ASSUME NEW c \in copies, c.line = l, c.epoch = v.epoch
      PROVE  /\ c.ctr <= v.ctr /\ v.ctr <= c.ctr + epochAddrWrites'[v.epoch][l]
             /\ c.ctr % CtrLimit # v.ctr % CtrLimit
  <2>1. currentEpoch' = currentEpoch /\ ~WritesExhausted(l)
    <3>1. c.epoch <= currentEpoch /\ c.epoch \in Nat
      BY Bounds DEF WindowInv, TypeInv, StoredLine
    <3>2. currentEpoch' = currentEpoch
      BY <1>2, <1>6, <3>1
    <3>3. QED
      BY <1>2, <3>2 DEF Write, AdvanceEpoch
  <2>2. /\ c.ctr \in Nat /\ c.ctr <= auth[l].ctr
        /\ auth[l].ctr <= c.ctr + epochAddrWrites[currentEpoch][l]
    BY <1>6, <2>1, Bounds DEF WindowInv, TypeInv, StoredLine
  <2>3. epochAddrWrites[currentEpoch][l] \in Nat
        /\ epochAddrWrites[currentEpoch][l] + 1 < CtrLimit
    BY <2>1, Bounds DEF WritesExhausted, TypeInv
  <2>4. c.ctr <= v.ctr /\ v.ctr <= c.ctr + epochAddrWrites'[v.epoch][l]
    BY <1>3, <1>5, <2>1, <2>2, <2>3
  <2>5. c.ctr - v.ctr < CtrLimit /\ v.ctr - c.ctr < CtrLimit /\ c.ctr # v.ctr
    BY <1>3, <2>2, <2>3, Bounds
  <2>6. c.ctr % CtrLimit # v.ctr % CtrLimit
    BY <1>3, <2>2, <2>5, ModuloDistinct, LimitAssumption
  <2>7. QED
    BY <2>4, <2>6
<1>7. QED
  BY <1>1, <1>4, <1>5, <1>6 DEF Stores

LEMMA MigrateStores ==
    ASSUME Inv, NEW l \in Lines, Migrate(l)
    PROVE  Stores(l, [epoch |-> currentEpoch, ctr |-> auth[l].ctr]) /\ Epoch
<1> DEFINE v == [epoch |-> currentEpoch, ctr |-> auth[l].ctr]
<1>. USE DEF Inv
<1>1. /\ Epoch /\ currentEpoch' = currentEpoch /\ epochAddrWrites' = epochAddrWrites
      /\ StoreAs(l, [epoch |-> currentEpoch, ctr |-> lines[l].ctr])
      /\ lines[l].epoch < Cutoff(currentEpoch)
  BY DEF Migrate, Epoch
<1>2. lines[l].ctr = auth[l].ctr /\ lines[l].epoch = auth[l].epoch
  <2>1. lines[l] = [line |-> l, epoch |-> auth[l].epoch, ctr |-> auth[l].ctr]
    BY DEF StoreInv, Sealed
  <2>2. QED
    BY <2>1
<1>3. auth[l].epoch < currentEpoch
  BY <1>1, <1>2, Bounds DEF TypeInv, Version
<1>4. \A c \in copies : c.line = l => c.epoch # currentEpoch
  BY <1>3 DEF WindowInv
<1>5. v \in Version /\ NoNewer(auth[l], v)
  BY <1>3, Bounds DEF TypeInv, Version, NoNewer
<1>6. epochAddrWrites' \in [Epochs -> [Lines -> Nat]]
  BY <1>1 DEF TypeInv
<1>7. QED
  BY <1>1, <1>2, <1>4, <1>5, <1>6 DEF Stores

\* Every step of the device is one of these; a host's step changes nothing of it.
Device ==
    \/ \E l \in Lines, v \in Version : Stores(l, v) /\ Epoch
    \/ Epoch /\ UNCHANGED <<epochRefcount, epochAddrWrites, lines, auth, copies, sealed>>

LEMMA DeviceSteps == Inv /\ [Next]_vars => Device
<1>. SUFFICES ASSUME Inv, [Next]_vars PROVE Device
  OBVIOUS
<1>1. ASSUME NEW l \in Lines, Write(l) PROVE Device
  <2>1. Stores(l, [epoch |-> currentEpoch', ctr |-> auth[l].ctr + 1]) /\ Epoch
    BY <1>1, WriteStores
  <2>2. [epoch |-> currentEpoch', ctr |-> auth[l].ctr + 1] \in Version
    BY <2>1 DEF Stores
  <2>3. QED
    BY <2>1, <2>2 DEF Device, Stores
<1>2. ASSUME NEW l \in Lines, Migrate(l) PROVE Device
  <2>1. Stores(l, [epoch |-> currentEpoch, ctr |-> auth[l].ctr]) /\ Epoch
    BY <1>2, MigrateStores
  <2>2. [epoch |-> currentEpoch, ctr |-> auth[l].ctr] \in Version
    BY <2>1 DEF Stores
  <2>3. QED
    BY <2>1, <2>2 DEF Device, Stores
<1>3. CASE Ratchet
  BY <1>3 DEF Ratchet, Device, Epoch
<1>4. CASE UNCHANGED deviceVars
  BY <1>4 DEF deviceVars, Device, Epoch
<1>5. QED
  BY <1>1, <1>2, <1>3, <1>4
     DEF Next, BeginRead, Fetch, FetchAfter, Complete, vars, deviceVars

-----------------------------------------------------------------------------
(* The invariant, part by part.                                            *)

\* What storing a version does to each line.
LEMMA StoredLines ==
    ASSUME TypeInv, NEW l \in Lines, NEW v \in Version, Stores(l, v)
    PROVE  /\ Sealed(l, v) \in StoredLine
           /\ lines'[l] = Sealed(l, v) /\ auth'[l] = v
           /\ \A k \in Lines \ {l} : lines'[k] = lines[k] /\ auth'[k] = auth[k]
           /\ lines' \in [Lines -> StoredLine] /\ auth' \in [Lines -> Version]
           /\ copies' = copies \cup {Sealed(l, v)}
<1>1. Sealed(l, v) \in StoredLine
  BY DEF Sealed, StoredLine, Version
<1>2. /\ lines' = [lines EXCEPT ![l] = Sealed(l, v)] /\ auth' = [auth EXCEPT ![l] = v]
      /\ copies' = copies \cup {Sealed(l, v)}
  BY DEF Stores, StoreAs
<1>3. QED
  BY <1>1, <1>2 DEF TypeInv

LEMMA EpochTyped ==
    ASSUME Inv, Epoch
    PROVE  currentEpoch' \in Epochs /\ epochKeys' \subseteq 1..currentEpoch'
<1>1. CASE UNCHANGED <<currentEpoch, epochKeys>>
  BY <1>1 DEF Inv, TypeInv
<1>2. CASE AdvanceEpoch
  <2>1. /\ currentEpoch' = currentEpoch + 1 /\ currentEpoch' \in Epochs
        /\ epochKeys' \subseteq epochKeys \cup {currentEpoch'}
    BY <1>2 DEF AdvanceEpoch
  <2>2. currentEpoch \in Nat /\ epochKeys \subseteq 1..currentEpoch
    BY Bounds DEF Inv, TypeInv
  <2>3. currentEpoch + 1 \in 1..(currentEpoch + 1)
        /\ 1..currentEpoch \subseteq 1..(currentEpoch + 1)
    BY <2>2
  <2>4. QED
    BY <2>1, <2>2, <2>3
<1>3. QED
  BY <1>1, <1>2 DEF Epoch

LEMMA TypeStep == Inv /\ Device => TypeInv'
<1>. SUFFICES ASSUME Inv, Device PROVE TypeInv'
  OBVIOUS
<1>. USE DEF Inv
<1>1. currentEpoch' \in Epochs /\ epochKeys' \subseteq 1..currentEpoch'
  BY EpochTyped DEF Device
<1>2. ASSUME NEW l \in Lines, NEW v \in Version, Stores(l, v) PROVE TypeInv'
  <2>1. v.ctr % CtrLimit \in Fields /\ v.epoch \in Epochs
    BY Bounds, ModuloRange DEF Version, Fields
  <2>2. sealed' \in [Epochs -> [Lines -> [Fields -> Nat]]]
    <3>1. sealed' = [sealed EXCEPT ![v.epoch][l][v.ctr % CtrLimit] =
                        sealed[v.epoch][l][v.ctr % CtrLimit] + 1]
      BY <1>2 DEF Stores, StoreAs
    <3>2. QED
      BY <2>1, <3>1 DEF TypeInv
  <2>3. /\ lines' \in [Lines -> StoredLine] /\ auth' \in [Lines -> Version]
        /\ copies' \subseteq StoredLine
    BY <1>2, StoredLines DEF TypeInv
  <2>4. epochAddrWrites' \in [Epochs -> [Lines -> Nat]]
    BY <1>2 DEF Stores
  <2>5. QED
    BY <1>1, <2>2, <2>3, <2>4 DEF TypeInv
<1>3. CASE UNCHANGED <<epochRefcount, epochAddrWrites, lines, auth, copies, sealed>>
  BY <1>1, <1>3 DEF TypeInv
<1>4. QED
  BY <1>2, <1>3 DEF Device

LEMMA StoreStep == Inv /\ Device => StoreInv'
<1>. SUFFICES ASSUME Inv, Device PROVE StoreInv'
  OBVIOUS
<1>1. currentEpoch \in Nat /\ currentEpoch' \in Nat /\ currentEpoch <= currentEpoch'
      /\ \A l \in Lines : auth[l].epoch \in Nat
  BY EpochMoves, Bounds DEF Device, Inv, TypeInv, Version
<1>2. ASSUME NEW l \in Lines, NEW v \in Version, Stores(l, v),
             NEW k \in Lines
      PROVE  /\ lines'[k] = Sealed(k, auth'[k]) /\ lines'[k] \in copies'
             /\ auth'[k].epoch <= currentEpoch'
  <2>1. CASE k = l
    BY <1>1, <1>2, <2>1, StoredLines DEF Stores, Inv
  <2>2. CASE k # l
    BY <1>1, <1>2, <2>2, StoredLines DEF Inv, StoreInv
  <2>3. QED
    BY <2>1, <2>2
<1>3. CASE UNCHANGED <<epochRefcount, epochAddrWrites, lines, auth, copies, sealed>>
  BY <1>1, <1>3 DEF Inv, StoreInv
<1>4. QED
  BY <1>2, <1>3 DEF Device, StoreInv

LEMMA StoredFinite ==
    \A e : IsFiniteSet(StoredIn(e)) /\ Cardinality(StoredIn(e)) \in Nat
BY LinesAssumption, FS_Subset, FS_CardinalityType DEF StoredIn

LEMMA CountStep == Inv /\ Device => CountInv'
<1>. SUFFICES ASSUME Inv, Device PROVE CountInv'
  OBVIOUS
<1>1. ASSUME NEW l \in Lines, NEW v \in Version, Stores(l, v) PROVE CountInv'
  <2>1. epochRefcount' = [e \in Epochs |->
            epochRefcount[e] - (IF e = lines[l].epoch THEN 1 ELSE 0)
                             + (IF e = v.epoch THEN 1 ELSE 0)]
    BY <1>1 DEF Stores, StoreAs
  <2>2. ASSUME NEW e \in Epochs
        PROVE  epochRefcount'[e] = Cardinality(StoredIn(e)')
    <3>1. StoredIn(e)' = IF e = v.epoch THEN StoredIn(e) \cup {l} ELSE StoredIn(e) \ {l}
      <4>1. lines'[l].epoch = v.epoch /\ \A k \in Lines \ {l} : lines'[k] = lines[k]
        <5>1. TypeInv /\ Sealed(l, v).epoch = v.epoch
          BY DEF Inv, Sealed
        <5>2. QED
          BY <1>1, <5>1, StoredLines
      <4>2. QED
        BY <4>1 DEF StoredIn
    <3>2. l \in StoredIn(e) <=> e = lines[l].epoch
      BY DEF StoredIn
    <3>3. /\ Cardinality(StoredIn(e) \cup {l}) =
                IF l \in StoredIn(e) THEN Cardinality(StoredIn(e))
                                     ELSE Cardinality(StoredIn(e)) + 1
          /\ Cardinality(StoredIn(e) \ {l}) =
                IF l \in StoredIn(e) THEN Cardinality(StoredIn(e)) - 1
                                     ELSE Cardinality(StoredIn(e))
      BY StoredFinite, FS_AddElement, FS_RemoveElement
    <3>4. epochRefcount[e] = Cardinality(StoredIn(e)) /\ Cardinality(StoredIn(e)) \in Nat
      BY StoredFinite DEF Inv, CountInv
    <3>5. epochRefcount'[e] = epochRefcount[e] - (IF e = lines[l].epoch THEN 1 ELSE 0)
                                               + (IF e = v.epoch THEN 1 ELSE 0)
      BY <2>1
    <3>6. QED
      BY <3>1, <3>2, <3>3, <3>4, <3>5
  <2>3. QED
    BY <2>1, <2>2 DEF CountInv
<1>2. CASE UNCHANGED <<epochRefcount, epochAddrWrites, lines, auth, copies, sealed>>
  BY <1>2 DEF Inv, CountInv, StoredIn
<1>3. QED
  BY <1>1, <1>2 DEF Device

\* A key that lines need is not droppable, because the counts are exact.
LEMMA NeededNotDroppable ==
    ASSUME Inv, NEW l \in Lines, NEW epoch PROVE ~Droppable(auth[l].epoch, epoch)
<1>1. auth[l].epoch \in Epochs /\ l \in StoredIn(auth[l].epoch)
  BY DEF Inv, TypeInv, Version, StoreInv, StoredIn, Sealed
<1>2. Cardinality(StoredIn(auth[l].epoch)) # 0
  BY <1>1, StoredFinite, FS_EmptySet
<1>3. QED
  BY <1>1, <1>2 DEF Inv, CountInv, Droppable

LEMMA KeyStep == Inv /\ Device => KeyInv'
<1>. SUFFICES ASSUME Inv, Device PROVE KeyInv'
  OBVIOUS
<1>1. /\ \A e \in 1..currentEpoch' : e >= Cutoff(currentEpoch') => e \in epochKeys'
      /\ \A l \in Lines : auth[l].epoch \in epochKeys'
      /\ currentEpoch' \in epochKeys'
  <2>1. CASE UNCHANGED <<currentEpoch, epochKeys>>
    BY <2>1, Bounds DEF Inv, KeyInv, TypeInv
  <2>2. CASE AdvanceEpoch
    <3>1. /\ currentEpoch' = currentEpoch + 1 /\ currentEpoch \in Nat
          /\ epochKeys' = {e \in epochKeys : ~Droppable(e, currentEpoch')}
                             \cup {currentEpoch'}
      BY <2>2, Bounds DEF AdvanceEpoch, Inv, TypeInv
    <3>2. \A l \in Lines : auth[l].epoch \in epochKeys'
      BY <3>1, NeededNotDroppable DEF Inv, KeyInv
    <3>3. ASSUME NEW e \in 1..currentEpoch', e >= Cutoff(currentEpoch')
          PROVE  e \in epochKeys'
      <4>1. CASE e = currentEpoch'
        BY <3>1, <4>1
      <4>2. CASE e # currentEpoch'
        <5>1. e \in 1..currentEpoch /\ e >= Cutoff(currentEpoch)
          BY <3>1, <3>3, <4>2, Bounds DEF Cutoff
        <5>2. ~Droppable(e, currentEpoch')
          BY <3>1, <3>3, Bounds DEF Droppable, Cutoff
        <5>3. QED
          BY <3>1, <5>1, <5>2 DEF Inv, KeyInv
      <4>3. QED
        BY <4>1, <4>2
    <3>4. QED
      BY <3>1, <3>2, <3>3
  <2>3. QED
    BY <2>1, <2>2 DEF Device, Epoch
<1>2. ASSUME NEW l \in Lines, NEW v \in Version, Stores(l, v)
      PROVE  \A k \in Lines : auth'[k].epoch \in epochKeys'
  BY <1>1, <1>2, StoredLines DEF Stores, Inv
<1>3. QED
  BY <1>1, <1>2 DEF Device, KeyInv

LEMMA WindowStep == Inv /\ Device => WindowInv'
<1>. SUFFICES ASSUME Inv, Device PROVE WindowInv'
  OBVIOUS
<1>. DEFINE now == currentEpoch'
<1>1. /\ currentEpoch \in Nat /\ now \in Nat /\ now \in Epochs
      /\ now = currentEpoch \/ now = currentEpoch + 1
      /\ \A l \in Lines : auth[l].epoch \in Nat /\ auth[l].epoch <= currentEpoch
      /\ \A c \in copies : c.epoch \in Nat /\ c.epoch <= currentEpoch /\ c.line \in Lines
  BY EpochMoves, Bounds DEF Device, Inv, TypeInv, StoreInv, WindowInv, Version, StoredLine
<1>. HIDE DEF now
\* The invariant with the epoch moved on and nothing stored yet.
<1>2. /\ \A c \in copies : c.epoch <= now
      /\ \A e \in Epochs, l \in Lines : e > now => epochAddrWrites[e][l] = 0
      /\ \A l \in Lines : auth[l].epoch < now =>
            /\ epochAddrWrites[now][l] = 0
            /\ \A c \in copies : c.line = l => c.epoch # now
      /\ \A c \in copies : c.epoch = now =>
            /\ c.ctr <= auth[c.line].ctr
            /\ auth[c.line].ctr <= c.ctr + epochAddrWrites[now][c.line]
  <2>1. CASE now = currentEpoch
    BY <2>1 DEF Inv, WindowInv
  <2>2. CASE now = currentEpoch + 1
    <3>1. \A e \in Epochs : e > now => e > currentEpoch
      BY <1>1, <2>2, Bounds
    <3>2. now > currentEpoch /\ \A c \in copies : c.epoch <= now /\ c.epoch # now
      BY <1>1, <2>2
    <3>3. QED
      BY <1>1, <3>1, <3>2 DEF Inv, WindowInv
  <2>3. QED
    BY <1>1, <2>1, <2>2
<1>3. ASSUME NEW l \in Lines, NEW v \in Version, Stores(l, v) PROVE WindowInv'
  <2>1. /\ v.epoch = now /\ v.ctr \in Nat
        /\ copies' = copies \cup {Sealed(l, v)} /\ auth'[l] = v
        /\ \A k \in Lines \ {l} : auth'[k] = auth[k]
    BY <1>3, StoredLines, Bounds DEF Stores, Inv, Version, now
  <2>2. Sealed(l, v).line = l /\ Sealed(l, v).epoch = now /\ Sealed(l, v).ctr = v.ctr
    BY <2>1 DEF Sealed
  <2>3. /\ epochAddrWrites'[now][l] \in Nat
        /\ \A e \in Epochs, k \in Lines : (e # now \/ k # l) =>
              epochAddrWrites'[e][k] = epochAddrWrites[e][k]
    BY <1>1, <1>3 DEF Stores, now
  <2>4. \A c \in copies' : c.epoch <= now
    BY <1>1, <1>2, <2>1, <2>2
  <2>5. \A e \in Epochs, k \in Lines : e > now => epochAddrWrites'[e][k] = 0
    BY <1>1, <1>2, <2>3, Bounds
  <2>6. ASSUME NEW k \in Lines, auth'[k].epoch < now
        PROVE  /\ epochAddrWrites'[now][k] = 0
               /\ \A c \in copies' : c.line = k => c.epoch # now
    <3>1. k # l /\ auth[k].epoch < now
      BY <1>1, <2>1, <2>6
    <3>2. QED
      BY <1>1, <1>2, <2>1, <2>2, <2>3, <3>1
  <2>7. ASSUME NEW c \in copies', c.epoch = now
        PROVE  /\ c.ctr <= auth'[c.line].ctr
               /\ auth'[c.line].ctr <= c.ctr + epochAddrWrites'[now][c.line]
    <3>1. CASE c = Sealed(l, v)
      BY <2>1, <2>2, <2>3, <3>1
    <3>2. CASE c \in copies /\ c.line = l
      <4>1. c.ctr <= v.ctr /\ v.ctr <= c.ctr + epochAddrWrites'[v.epoch][l]
        BY <1>3, <2>1, <2>7, <3>2 DEF Stores
      <4>2. QED
        BY <2>1, <3>2, <4>1
    <3>3. CASE c \in copies /\ c.line # l
      BY <1>1, <1>2, <2>1, <2>3, <2>7, <3>3
    <3>4. QED
      BY <2>1, <3>1, <3>2, <3>3
  <2>8. QED
    BY <2>4, <2>5, <2>6, <2>7 DEF WindowInv, now
<1>4. CASE UNCHANGED <<epochRefcount, epochAddrWrites, lines, auth, copies, sealed>>
  BY <1>2, <1>4 DEF WindowInv, now
<1>5. QED
  BY <1>3, <1>4 DEF Device

LEMMA SealStep == Inv /\ Device => SealInv'
<1>. SUFFICES ASSUME Inv, Device PROVE SealInv'
  OBVIOUS
<1>1. ASSUME NEW l \in Lines, NEW v \in Version, Stores(l, v) PROVE SealInv'
  <2>. DEFINE new == Sealed(l, v)
              f == v.ctr % CtrLimit
  <2>1. /\ new.line = l /\ new.epoch = v.epoch /\ new.ctr = v.ctr
        /\ copies' = copies \cup {new}
        /\ \A c \in copies : c.line = l /\ c.epoch = v.epoch => c.ctr % CtrLimit # f
    BY <1>1, StoredLines DEF Stores, Inv, Sealed
  <2>2. v.epoch \in Epochs /\ f \in Fields
    BY Bounds, ModuloRange DEF Version, Fields
  <2>3. sealed' = [sealed EXCEPT ![v.epoch][l][f] = sealed[v.epoch][l][f] + 1]
    BY <1>1 DEF Stores, StoreAs
  <2>. HIDE DEF new
  <2>4. ASSUME NEW c \in copies', NEW d \in copies', c.line = d.line, c.epoch = d.epoch,
               c.ctr % CtrLimit = d.ctr % CtrLimit
        PROVE  c = d
    BY <2>1, <2>4 DEF Inv, SealInv
  <2>. HIDE DEF f
  <2>5. ASSUME NEW e \in Epochs, NEW k \in Lines, NEW n \in Fields
        PROVE  /\ sealed'[e][k][n] <= 1
               /\ sealed'[e][k][n] # 0 =>
                     \E c \in copies' : c.line = k /\ c.epoch = e /\ c.ctr % CtrLimit = n
    <3>1. /\ sealed[e][k][n] <= 1 /\ sealed[e][k][n] \in Nat
          /\ sealed[e][k][n] # 0 =>
                \E c \in copies : c.line = k /\ c.epoch = e /\ c.ctr % CtrLimit = n
      BY DEF Inv, SealInv, TypeInv
    <3>2. CASE e = v.epoch /\ k = l /\ n = f
      <4>1. sealed[e][k][n] = 0
        BY <2>1, <3>1, <3>2
      <4>2. sealed'[e][k][n] = 1
        BY <2>2, <2>3, <3>2, <4>1 DEF Inv, TypeInv
      <4>3. new.ctr % CtrLimit = n
        BY <2>1, <3>2 DEF f
      <4>4. QED
        BY <2>1, <3>2, <4>2, <4>3
    <3>3. CASE ~(e = v.epoch /\ k = l /\ n = f)
      <4>1. sealed'[e][k][n] = sealed[e][k][n]
        BY <2>2, <2>3, <3>3 DEF Inv, TypeInv
      <4>2. QED
        BY <2>1, <3>1, <4>1
    <3>4. QED
      BY <3>2, <3>3
  <2>6. QED
    BY <2>4, <2>5 DEF SealInv
<1>2. CASE UNCHANGED <<epochRefcount, epochAddrWrites, lines, auth, copies, sealed>>
  BY <1>2 DEF Inv, SealInv
<1>3. QED
  BY <1>1, <1>2 DEF Device

LEMMA DeviceStep == Inv /\ [Next]_vars => Inv'
BY DeviceSteps, TypeStep, StoreStep, CountStep, KeyStep, WindowStep, SealStep DEF Inv

-----------------------------------------------------------------------------
(* The reads.                                                              *)

LEMMA VersionsRise ==
    Inv /\ Device => copies \subseteq copies' /\ \A l \in Lines : NoNewer(auth[l], auth'[l])
<1>. SUFFICES ASSUME Inv, Device
     PROVE  copies \subseteq copies' /\ \A l \in Lines : NoNewer(auth[l], auth'[l])
  OBVIOUS
<1>1. \A l \in Lines : NoNewer(auth[l], auth[l])
  BY Bounds DEF Inv, TypeInv, Version, NoNewer
<1>2. ASSUME NEW l \in Lines, NEW v \in Version, Stores(l, v)
      PROVE  copies \subseteq copies' /\ \A k \in Lines : NoNewer(auth[k], auth'[k])
  <2>1. /\ copies' = copies \cup {Sealed(l, v)} /\ auth'[l] = v /\ NoNewer(auth[l], v)
        /\ \A k \in Lines \ {l} : auth'[k] = auth[k]
    BY <1>2, StoredLines DEF Stores, Inv
  <2>2. ASSUME NEW k \in Lines PROVE NoNewer(auth[k], auth'[k])
    BY <1>1, <2>1 DEF NoNewer
  <2>3. QED
    BY <2>1, <2>2
<1>3. CASE UNCHANGED <<epochRefcount, epochAddrWrites, lines, auth, copies, sealed>>
  BY <1>1, <1>3 DEF NoNewer
<1>4. QED
  BY <1>2, <1>3 DEF Device

\* Whatever the device does meanwhile, what a read has seen stays in the past.
LEMMA PastStaysPast ==
    ASSUME Inv, Device, NEW r, Seen(r)
    PROVE  Seen(r)'
<1>1. copies \subseteq copies' /\ \A l \in Lines : NoNewer(auth[l], auth'[l])
  BY VersionsRise
<1>2. /\ \A l \in Lines : auth[l] \in Version /\ auth'[l] \in Version
      /\ copies \subseteq StoredLine
  BY TypeStep DEF Inv, TypeInv
<1>3. \A v \in Version \cup StoredLine : v.epoch \in Nat /\ v.ctr \in Nat
  BY Bounds DEF Version, StoredLine
<1>4. ASSUME NEW v \in Version \cup StoredLine, NEW l \in Lines, NoNewer(v, auth[l])
      PROVE  NoNewer(v, auth'[l])
  BY <1>1, <1>2, <1>3, <1>4 DEF NoNewer
<1>5. QED
  BY <1>1, <1>2, <1>4 DEF Seen

\* It is enough to look at the transaction that takes a step.
LEMMA OneRead ==
    ASSUME Inv, ReadsInv, UNCHANGED deviceVars, NEW i \in Reads, NEW r \in ReadState,
           read' = [read EXCEPT ![i] = r], Seen(r), r.phase = "reject" => ~r.honest
    PROVE  ReadsInv'
<1>1. read' \in [Reads -> ReadState] /\ read'[i] = r
      /\ \A j \in Reads \ {i} : read'[j] = read[j]
  BY DEF ReadsInv
<1>2. auth' = auth /\ copies' = copies
  BY DEF deviceVars
<1>3. \A j \in Reads : Seen(read[j])
  BY DEF ReadsInv, ReadInv, Seen
<1>4. \A j \in Reads : Seen(read'[j])
  BY <1>1, <1>3
<1>5. ReadInv'
  BY <1>2, <1>4 DEF ReadInv, Seen
<1>6. HonestReadNotRejected'
  BY <1>1 DEF ReadsInv, HonestReadNotRejected
<1>7. QED
  BY <1>1, <1>5, <1>6 DEF ReadsInv

LEMMA VersionsReflexive ==
    ASSUME Inv, NEW l \in Lines
    PROVE  /\ auth[l] \in Version /\ NoNewer(auth[l], auth[l])
           /\ lines[l] \in copies /\ lines[l] \in StoredLine
           /\ lines[l].line = l /\ lines[l].epoch = auth[l].epoch
           /\ lines[l].ctr = auth[l].ctr
<1>1. lines[l] = [line |-> l, epoch |-> auth[l].epoch, ctr |-> auth[l].ctr]
  BY DEF Inv, StoreInv, Sealed
<1>2. auth[l] \in Version /\ lines[l] \in copies /\ lines[l] \in StoredLine
  BY DEF Inv, TypeInv, StoreInv
<1>3. NoNewer(auth[l], auth[l])
  BY <1>2, Bounds DEF Version, NoNewer
<1>4. QED
  BY <1>1, <1>2, <1>3

LEMMA ReadStep == Inv /\ ReadsInv /\ [Next]_vars => ReadsInv'
<1>. SUFFICES ASSUME Inv, ReadsInv, [Next]_vars PROVE ReadsInv'
  OBVIOUS
<1>1. \A i \in Reads : Seen(read[i]) /\ read[i] \in ReadState
  BY DEF ReadsInv, ReadInv, Seen
<1>2. CASE UNCHANGED read
  <2>1. \A i \in Reads : Seen(read[i])'
    <3>1. ASSUME NEW i \in Reads PROVE Seen(read[i])'
      <4>1. PICK r : r = read[i]
        OBVIOUS
      <4>2. Seen(r)
        BY <1>1, <4>1
      <4>3. Seen(r)'
        BY <4>2, DeviceSteps, PastStaysPast
      <4>4. QED
        BY <1>2, <4>1, <4>3 DEF Seen
    <3>2. QED
      BY <3>1
  <2>2. QED
    BY <1>2, <2>1 DEF ReadsInv, ReadInv, Seen, HonestReadNotRejected
<1>3. ASSUME NEW i \in Reads, NEW l \in Lines, BeginRead(i, l) PROVE ReadsInv'
  <2>. DEFINE r == [phase |-> "begun", line |-> l, before |-> auth[l]]
  <2>1. UNCHANGED deviceVars /\ read' = [read EXCEPT ![i] = r]
    BY <1>3 DEF BeginRead
  <2>2. r \in ReadState /\ Seen(r) /\ r.phase # "reject"
    BY VersionsReflexive DEF ReadState, Seen
  <2>3. QED
    BY <2>1, <2>2, OneRead
<1>4. ASSUME NEW i \in Reads, NEW c \in copies, Fetch(i, c) PROVE ReadsInv'
  <2>. DEFINE q == read[i]
              r == [phase |-> "fetched", line |-> q.line, before |-> q.before,
                    resp |-> c, honest |-> c = lines[q.line]]
  <2>1. UNCHANGED deviceVars /\ read' = [read EXCEPT ![i] = r] /\ q.phase = "begun"
    BY <1>4 DEF Fetch
  <2>2. q.line \in Lines /\ q.before \in Version /\ NoNewer(q.before, auth[q.line])
        /\ c \in StoredLine
    BY <1>1, <2>1 DEF Seen, Inv, TypeInv
  <2>3. r \in ReadState
    BY <2>2 DEF ReadState
  <2>4. c = lines[q.line] =>
           c.line = q.line /\ NoNewer(q.before, c) /\ NoNewer(c, auth[q.line])
    BY <2>2, VersionsReflexive DEF NoNewer
  <2>5. Seen(r)
    BY <2>2, <2>4 DEF Seen
  <2>6. QED
    BY <2>1, <2>3, <2>5, OneRead
<1>5. ASSUME NEW i \in Reads, FetchAfter(i) PROVE ReadsInv'
  <2>. DEFINE q == read[i]
              r == [phase |-> "checked", line |-> q.line, before |-> q.before,
                    after |-> auth[q.line], resp |-> q.resp, honest |-> q.honest]
  <2>1. UNCHANGED deviceVars /\ read' = [read EXCEPT ![i] = r] /\ q.phase = "fetched"
    BY <1>5 DEF FetchAfter
  <2>2. /\ q.line \in Lines /\ q.before \in Version /\ NoNewer(q.before, auth[q.line])
        /\ q.resp \in copies /\ q.resp \in StoredLine /\ q.honest \in BOOLEAN
        /\ q.honest => /\ q.resp.line = q.line /\ NoNewer(q.before, q.resp)
                       /\ NoNewer(q.resp, auth[q.line])
        /\ auth[q.line] \in Version
    BY <1>1, <2>1 DEF Seen, Inv, TypeInv
  <2>3. r \in ReadState
    BY <2>2 DEF ReadState
  <2>4. Seen(r)
    BY <2>2 DEF Seen
  <2>5. QED
    BY <2>1, <2>3, <2>4, OneRead
<1>6. ASSUME NEW i \in Reads, Complete(i) PROVE ReadsInv'
  <2>. DEFINE q == read[i]
              status == IF ~Stable(q) THEN "retry"
                        ELSE IF Opens(q.line, auth[q.line], q.resp)
                             THEN "accept" ELSE "reject"
              r == Finished(status, q.honest)
  <2>1. UNCHANGED deviceVars /\ read' = [read EXCEPT ![i] = r] /\ q.phase = "checked"
    BY <1>6 DEF Complete
  <2>2. /\ q.line \in Lines /\ q.resp \in StoredLine /\ q.honest \in BOOLEAN
        /\ q.honest => /\ q.resp.line = q.line /\ NoNewer(q.before, q.resp)
                       /\ NoNewer(q.resp, auth[q.line])
    BY <1>1, <2>1 DEF Seen, Inv, TypeInv
  <2>3. status \in {"accept", "retry", "reject"} /\ r.phase = status /\ r.honest = q.honest
    BY DEF Finished
  <2>4. r \in ReadState /\ Seen(r)
    BY <2>2, <2>3 DEF ReadState, Seen
  <2>5. ASSUME q.honest, Stable(q) PROVE Opens(q.line, auth[q.line], q.resp)
    <3>1. q.before = auth[q.line] /\ auth[q.line] \in Version
      BY <2>2, <2>5, VersionsReflexive DEF Stable
    <3>2. q.resp.epoch = auth[q.line].epoch /\ q.resp.ctr = auth[q.line].ctr
      BY <2>2, <2>5, <3>1, Bounds DEF NoNewer, Version, StoredLine
    <3>3. QED
      BY <2>2, <2>5, <3>2 DEF Opens, Inv, KeyInv
  <2>6. r.phase = "reject" => ~r.honest
    BY <2>3, <2>5
  <2>7. QED
    BY <2>1, <2>4, <2>6, OneRead
<1>7. QED
  BY <1>2, <1>3, <1>4, <1>5, <1>6 DEF Next, Ratchet, Write, Migrate, vars

-----------------------------------------------------------------------------
(* The theorems.                                                           *)

LEMMA InitInv == Init => Inv /\ ReadsInv
<1>. SUFFICES ASSUME Init PROVE Inv /\ ReadsInv
  OBVIOUS
<1>. DEFINE first == [epoch |-> 1, ctr |-> 0]
<1>1. /\ 1 \in Epochs /\ 0 \in Counters /\ 0 \in Fields /\ first \in Version
      /\ 0 % CtrLimit = 0
  BY Bounds, SmallModulo DEF Epochs, Counters, Fields, Version
<1>2. /\ currentEpoch = 1 /\ epochKeys = {1}
      /\ auth = [l \in Lines |-> first]
      /\ epochAddrWrites = [e \in Epochs |-> [l \in Lines |-> 0]]
      /\ \A l \in Lines : lines[l] = Sealed(l, first)
      /\ copies = {Sealed(l, first) : l \in Lines}
      /\ sealed = [e \in Epochs |-> [l \in Lines |-> [n \in Fields |->
                      IF e = 1 /\ n = 0 THEN 1 ELSE 0]]]
  BY DEF Init, Fields
<1>3. \A l \in Lines : /\ Sealed(l, first) \in StoredLine
                       /\ Sealed(l, first).line = l /\ Sealed(l, first).epoch = 1
                       /\ Sealed(l, first).ctr = 0
  BY <1>1 DEF Sealed, StoredLine
<1>4. TypeInv
  <2>1. lines \in [Lines -> StoredLine]
    BY <1>1, <1>3 DEF Init
  <2>2. copies \subseteq StoredLine /\ auth \in [Lines -> Version]
    BY <1>1, <1>2, <1>3
  <2>3. sealed \in [Epochs -> [Lines -> [Fields -> Nat]]]
    BY <1>2
  <2>4. epochAddrWrites \in [Epochs -> [Lines -> Nat]]
    BY <1>2
  <2>5. QED
    BY <1>1, <1>2, <2>1, <2>2, <2>3, <2>4 DEF TypeInv
<1>5. StoreInv
  BY <1>2 DEF StoreInv
<1>6. CountInv
  <2>1. ASSUME NEW e \in Epochs
        PROVE  epochRefcount[e] = Cardinality(StoredIn(e))
    <3>1. StoredIn(e) = IF e = 1 THEN Lines ELSE {}
      BY <1>2, <1>3 DEF StoredIn
    <3>2. QED
      BY <3>1, FS_EmptySet DEF Init
  <2>2. QED
    BY <2>1 DEF Init, CountInv
<1>7. KeyInv
  BY <1>2 DEF KeyInv
<1>8. WindowInv
  <2>1. \A c \in copies : c.line \in Lines /\ c.epoch = 1 /\ c.ctr = 0
    BY <1>2, <1>3
  <2>2. \A l \in Lines : auth[l].epoch = 1 /\ auth[l].ctr = 0
    BY <1>2
  <2>3. \A e \in Epochs, l \in Lines : epochAddrWrites[e][l] = 0
    BY <1>2
  <2>4. \A l \in Lines : ~(auth[l].epoch < currentEpoch)
    BY <1>2, <2>2
  <2>5. \A c \in copies :
           /\ c.epoch <= currentEpoch
           /\ c.ctr <= auth[c.line].ctr
           /\ auth[c.line].ctr <= c.ctr + epochAddrWrites[currentEpoch][c.line]
    <3>1. ASSUME NEW c \in copies
          PROVE  /\ c.epoch = 1 /\ c.ctr = 0 /\ auth[c.line].ctr = 0
                 /\ epochAddrWrites[1][c.line] = 0
      BY <1>1, <2>1, <2>2, <2>3
    <3>2. currentEpoch = 1
      BY <1>2
    <3>3. QED
      BY <3>1, <3>2
  <2>6. QED
    BY <2>3, <2>4, <2>5 DEF WindowInv
<1>9. SealInv
  <2>1. \A c, d \in copies : c.line = d.line => c = d
    BY <1>2, <1>3
  <2>2. ASSUME NEW e \in Epochs, NEW l \in Lines, NEW n \in Fields
        PROVE  /\ sealed[e][l][n] <= 1
               /\ sealed[e][l][n] # 0 =>
                     \E c \in copies : c.line = l /\ c.epoch = e /\ c.ctr % CtrLimit = n
    <3>1. sealed[e][l][n] = IF e = 1 /\ n = 0 THEN 1 ELSE 0
      BY <1>2
    <3>2. Sealed(l, first) \in copies
      BY <1>2
    <3>3. QED
      BY <1>1, <1>3, <3>1, <3>2
  <2>3. QED
    BY <2>1, <2>2 DEF SealInv
<1>10. ReadsInv
  BY DEF Init, ReadsInv, ReadState, Idle, ReadInv, Seen, HonestReadNotRejected
<1>11. QED
  BY <1>4, <1>5, <1>6, <1>7, <1>8, <1>9, <1>10 DEF Inv

LEMMA Inductive == Spec => [](Inv /\ ReadsInv)
<1>1. Inv /\ ReadsInv /\ [Next]_vars => (Inv /\ ReadsInv)'
  BY DeviceStep, ReadStep
<1>2. QED
  BY <1>1, InitInv, PTL DEF Spec

\* Every variable keeps its type; in particular the guarded counts never go
\* below zero, because they are the numbers of stored lines.
THEOREM DeviceTyped == Spec => []TypeOK
<1>1. Inv /\ ReadsInv => TypeOK
  <2>. SUFFICES ASSUME Inv, ReadsInv PROVE TypeOK
    OBVIOUS
  <2>1. epochRefcount \in [Epochs -> Nat]
    BY StoredFinite DEF Inv, CountInv
  <2>2. epochKeys \subseteq Epochs
    <3>1. 1..currentEpoch \subseteq Epochs
      BY Bounds DEF Inv, TypeInv, Epochs
    <3>2. QED
      BY <3>1 DEF Inv, TypeInv
  <2>3. QED
    BY <2>1, <2>2 DEF TypeOK, Inv, TypeInv, ReadsInv, Fields
<1>2. QED
  BY <1>1, Inductive, PTL

\* The key any write, migration or honest read needs is resident, so neither
\* maybe_migrate nor verify fails for want of a key.
THEOREM DeviceKeysResident == Spec => []NeededKeysResident
<1>1. Inv => NeededKeysResident
  <2>. SUFFICES ASSUME Inv PROVE NeededKeysResident
    OBVIOUS
  <2>1. currentEpoch \in 1..currentEpoch /\ currentEpoch >= Cutoff(currentEpoch)
    BY Bounds DEF Inv, TypeInv
  <2>2. QED
    BY <2>1 DEF Inv, KeyInv, StoreInv, NeededKeysResident
<1>2. QED
  BY <1>1, Inductive, PTL

\* The guard of write suffices for bootstrap and migrated ciphertexts too: no
\* nonce is used twice under one key, for every width of the counter field.
THEOREM DeviceNoncesUnique == Spec => []NonceUnique
<1>1. Inv => NonceUnique
  BY DEF Inv, SealInv, NonceUnique, Fields
<1>2. QED
  BY <1>1, Inductive, PTL

\* An honest answer is accepted or retried, whatever crosses the read.
THEOREM DeviceReadsHonest == Spec => []HonestReadNotRejected
<1>1. ReadsInv => HonestReadNotRejected
  BY DEF ReadsInv
<1>2. QED
  BY <1>1, Inductive, PTL

\* What verify_stable accepts is the content of the line from before the fetch
\* to the verdict, although the nonce has only the low bits of the counter.
THEOREM DeviceReadsCurrent == Spec => AcceptedIsCurrent
<1>1. ASSUME Inv, ReadsInv, [Next]_vars, NEW i \in Reads,
             read[i].phase = "checked", read'[i].phase = "accept"
      PROVE  /\ read[i].resp.line = read[i].line
             /\ read[i].resp.ctr = auth[read[i].line].ctr
             /\ read[i].before.ctr = auth[read[i].line].ctr
  <2>. DEFINE q == read[i]
  <2>1. Complete(i)
    <3>1. read'[i] # read[i]
      BY <1>1
    <3>2. PICK j \in Reads : \/ \E l \in Lines : BeginRead(j, l)
                             \/ \E c \in copies : Fetch(j, c)
                             \/ FetchAfter(j)
                             \/ Complete(j)
      BY <1>1, <3>1 DEF Next, Ratchet, Write, Migrate, vars
    <3>3. \A k \in Reads \ {j} : read'[k] = read[k]
      BY <1>1, <3>2 DEF ReadsInv, BeginRead, Fetch, FetchAfter, Complete
    <3>4. j = i
      BY <3>1, <3>3
    <3>5. QED
      BY <1>1, <3>2, <3>4 DEF BeginRead, Fetch, FetchAfter
  <2>2. Stable(q) /\ Opens(q.line, auth[q.line], q.resp)
    <3>. DEFINE status == IF ~Stable(q) THEN "retry"
                          ELSE IF Opens(q.line, auth[q.line], q.resp)
                               THEN "accept" ELSE "reject"
    <3>1. read' = [read EXCEPT ![i] = Finished(status, q.honest)]
      BY <2>1 DEF Complete
    <3>2. read'[i] = Finished(status, q.honest)
      BY <1>1, <3>1 DEF ReadsInv
    <3>3. status = "accept"
      BY <1>1, <3>2 DEF Finished
    <3>4. QED
      BY <3>3
  <2>3. q.line \in Lines /\ q.resp \in copies /\ q.before = auth[q.line]
    BY <1>1, <2>2 DEF ReadsInv, ReadInv, Seen, Stable
  <2>4. /\ lines[q.line] \in copies /\ lines[q.line].line = q.line
        /\ lines[q.line].epoch = auth[q.line].epoch /\ lines[q.line].ctr = auth[q.line].ctr
    BY <1>1, <2>3, VersionsReflexive
  <2>5. q.resp = lines[q.line]
    BY <1>1, <2>2, <2>3, <2>4 DEF Opens, Inv, SealInv
  <2>6. QED
    BY <2>3, <2>4, <2>5
<1>2. Inv /\ ReadsInv /\ [Next]_vars =>
         \A i \in Reads : read[i].phase = "checked" /\ read'[i].phase = "accept" =>
             /\ read[i].resp.line = read[i].line
             /\ read[i].resp.ctr = auth[read[i].line].ctr
             /\ read[i].before.ctr = auth[read[i].line].ctr
  BY <1>1
<1>3. QED
  BY <1>2, Inductive, PTL DEF Spec, AcceptedIsCurrent

\* A compromise after a ratchet obtains the keys of the window and of epochs
\* with stored lines, exactly, and no key once erased comes back.
THEOREM DeviceForwardIntegrity == Spec => ForwardIntegrity
<1>1. ASSUME Inv, [Next]_vars
      PROVE  /\ currentEpoch' # currentEpoch => Captured' =
                   {e \in Epochs : \/ Cutoff(currentEpoch') <= e /\ e <= currentEpoch'
                                   \/ \E l \in Lines : lines[l].epoch = e}
             /\ \A e \in 1..currentEpoch : e \notin Captured => e \notin Captured'
  <2>1. Epoch
    BY <1>1, DeviceSteps DEF Device
  <2>2. CASE UNCHANGED <<currentEpoch, epochKeys>>
    BY <2>2 DEF Captured
  <2>3. CASE AdvanceEpoch
    <3>1. /\ currentEpoch' = currentEpoch + 1 /\ currentEpoch' \in Epochs
          /\ epochKeys' = {e \in epochKeys : ~Droppable(e, currentEpoch')}
                             \cup {currentEpoch'}
          /\ currentEpoch \in Nat /\ epochKeys \subseteq 1..currentEpoch
      BY <1>1, <2>3, Bounds DEF AdvanceEpoch, Inv, TypeInv
    <3>2. \A e \in 1..currentEpoch : e \notin Captured => e \notin Captured'
      BY <3>1 DEF Captured
    <3>3. ASSUME NEW e \in Epochs
          PROVE  e \in epochKeys' <=>
                    \/ Cutoff(currentEpoch') <= e /\ e <= currentEpoch'
                    \/ \E l \in Lines : lines[l].epoch = e
      <4>1. epochRefcount[e] = 0 <=> ~\E l \in Lines : lines[l].epoch = e
        <5>1. epochRefcount[e] = Cardinality(StoredIn(e))
          BY <1>1 DEF Inv, CountInv
        <5>2. QED
          BY <5>1, StoredFinite, FS_EmptySet DEF StoredIn
      <4>2. e \in Nat /\ e >= 1 /\ Cutoff(currentEpoch') \in Int
            /\ Cutoff(currentEpoch') <= currentEpoch'
            /\ Cutoff(currentEpoch) <= Cutoff(currentEpoch')
            /\ Cutoff(currentEpoch) \in Int
        BY <3>1, Bounds DEF Cutoff
      <4>3. CASE e = currentEpoch'
        BY <3>1, <4>2, <4>3
      <4>4. CASE e # currentEpoch'
        <5>1. e \in epochKeys' <=> e \in epochKeys /\ ~Droppable(e, currentEpoch')
          BY <3>1, <4>4
        <5>2. (Cutoff(currentEpoch') <= e /\ e <= currentEpoch') => e \in epochKeys
          BY <1>1, <3>1, <4>2, <4>4 DEF Inv, KeyInv
        <5>3. (\E l \in Lines : lines[l].epoch = e) => e \in epochKeys
          BY <1>1, VersionsReflexive DEF Inv, KeyInv
        <5>4. e \in epochKeys => e <= currentEpoch'
          BY <3>1
        <5>5. QED
          BY <4>1, <4>2, <5>1, <5>2, <5>3, <5>4 DEF Droppable
      <4>5. QED
        BY <4>3, <4>4
    <3>4. epochKeys' \subseteq Epochs
      <4>1. epochKeys' \subseteq 1..currentEpoch' /\ currentEpoch' \in Epochs
        BY <1>1, <2>1, EpochTyped
      <4>2. 1..currentEpoch' \subseteq Epochs
        BY <4>1, Bounds DEF Epochs
      <4>3. QED
        BY <4>1, <4>2
    <3>5. QED
      BY <3>2, <3>3, <3>4 DEF Captured
  <2>4. QED
    BY <2>1, <2>2, <2>3 DEF Epoch
<1>2. QED
  BY <1>1, Inductive, PTL DEF Spec, ForwardIntegrity
=============================================================================
