--------------------------- MODULE RustDeviceProofs ---------------------------
(***************************************************************************)
(* RustDevice implements EpochDevice, for any finite sets of lines and     *)
(* hosts, any epochs and counters, any width of the nonce's counter field  *)
(* and any retention window; and what follows for its host.                *)
(*                                                                         *)
(* The invariant of the Python device, proved in EpochDeviceProofs, holds  *)
(* of the Rust one through the refinement, and is what makes the           *)
(* refinement a step-by-step one: it says that each copy is new.           *)
(***************************************************************************)
EXTENDS RustDevice, FiniteSetTheorems, TLAPS

\* The same instance as Python, with the theorems about it.
P == INSTANCE EpochDeviceProofs WITH
    Reads <- {}, read <- <<>>,
    lines <- PlainLines, auth <- PlainAuth, sealed <- PlainSealed

\* What is stored is what the trusted version says, and a snapshot is a copy
\* that was made with the version it carries.
StoreInv ==
    /\ auth \in [Lines -> VersionType]
    /\ lines = [l \in Lines |-> Stored(Enc(l, auth[l]), auth[l])]
    /\ IsFiniteSet(copies)

HistoryInv ==
    /\ history \in [Lines -> Seq(StoredType)]
    /\ \A l \in Lines : \A i \in DOMAIN history[l] :
          LET s == history[l][i]
          IN  /\ s = Stored(Enc(l, s.version), s.version)
              /\ [line |-> l, epoch |-> s.version.epoch, ctr |-> s.version.ctr] \in copies

-----------------------------------------------------------------------------
(* The parts of the invariant of EpochDevice, in the terms of RustDevice.  *)

LEMMA Limits ==
    /\ MaxEpoch \in Nat /\ MaxEpoch >= 1 /\ MaxCtr \in Nat
    /\ CtrLimit \in Nat /\ CtrLimit >= 1 /\ RetentionW \in Nat /\ RetentionW >= 1
    /\ \A e \in Epochs : e \in Nat /\ e >= 1
BY LimitAssumption DEF Epochs

\* The assumptions of EpochDevice, as its instance needs them.
LEMMA Assumptions ==
    /\ P!IsFiniteSet(Lines) /\ MaxEpoch \in Nat \ {0} /\ MaxCtr \in Nat
    /\ CtrLimit \in Nat \ {0} /\ RetentionW \in Nat \ {0}
BY SetsAssumption, LimitAssumption DEF IsFiniteSet, P!IsFiniteSet

LEMMA SameCardinality == \A S : P!Cardinality(S) = Cardinality(S)
BY DEF Cardinality, P!Cardinality

LEMMA PythonKeeps == P!Inv /\ [P!Next]_P!vars => P!Inv'
BY P!DeviceStep, Assumptions

LEMMA PythonStarts == P!Init => P!Inv
BY P!InitInv, Assumptions

LEMMA Known ==
    ASSUME P!Inv, StoreInv
    PROVE  /\ currentEpoch \in Epochs /\ epochKeys \subseteq 1..currentEpoch
           /\ epochAddrWrites \in [Epochs -> [Lines -> Nat]]
           /\ copies \subseteq [line : Lines, epoch : Epochs, ctr : 0..MaxCtr]
           /\ epochRefcount \in [Epochs -> Nat]
           /\ \A l \in Lines :
                 /\ auth[l].epoch \in Epochs /\ auth[l].ctr \in 0..MaxCtr
                 /\ auth[l].epoch <= currentEpoch /\ auth[l].epoch \in epochKeys
                 /\ [line |-> l, epoch |-> auth[l].epoch, ctr |-> auth[l].ctr] \in copies
                 /\ lines[l].version = auth[l]
                 /\ PlainLine(lines[l]) =
                       [line |-> l, epoch |-> auth[l].epoch, ctr |-> auth[l].ctr]
                 /\ PlainAuth[l] = [epoch |-> auth[l].epoch, ctr |-> auth[l].ctr]
<1>1. P!TypeInv /\ P!StoreInv /\ P!KeyInv /\ P!CountInv
  BY DEF P!Inv
<1>2. /\ currentEpoch \in Epochs /\ epochKeys \subseteq 1..currentEpoch
      /\ epochAddrWrites \in [Epochs -> [Lines -> Nat]]
      /\ copies \subseteq [line : Lines, epoch : Epochs, ctr : 0..MaxCtr]
  BY <1>1 DEF P!TypeInv, P!Epochs, Epochs, P!StoredLine, P!Counters
<1>3. epochRefcount \in [Epochs -> Nat]
  <2>1. \A e : P!Cardinality(P!StoredIn(e)) \in Nat
    BY P!StoredFinite, Assumptions
  <2>2. QED
    BY <1>1, <2>1 DEF P!CountInv, P!Epochs, Epochs
<1>4. ASSUME NEW l \in Lines
      PROVE  /\ auth[l].epoch \in Epochs /\ auth[l].ctr \in 0..MaxCtr
             /\ lines[l].version = auth[l]
             /\ PlainLine(lines[l]) =
                   [line |-> l, epoch |-> auth[l].epoch, ctr |-> auth[l].ctr]
             /\ PlainAuth[l] = [epoch |-> auth[l].epoch, ctr |-> auth[l].ctr]
  BY DEF StoreInv, VersionType, Stored, Enc, PlainLine, PlainAuth, Plain
<1>5. ASSUME NEW l \in Lines
      PROVE  /\ auth[l].epoch <= currentEpoch /\ auth[l].epoch \in epochKeys
             /\ [line |-> l, epoch |-> auth[l].epoch, ctr |-> auth[l].ctr] \in copies
  <2>1. PlainAuth[l].epoch <= currentEpoch /\ PlainLines[l] \in copies
        /\ PlainAuth[l].epoch \in epochKeys
    BY <1>1 DEF P!StoreInv, P!KeyInv
  <2>2. PlainLines[l] = [line |-> l, epoch |-> auth[l].epoch, ctr |-> auth[l].ctr]
    BY <1>4 DEF PlainLines
  <2>3. PlainAuth[l].epoch = auth[l].epoch
    BY DEF PlainAuth, Plain
  <2>4. QED
    BY <2>1, <2>2, <2>3
<1>6. QED
  BY <1>2, <1>3, <1>4, <1>5

\* A line never has a copy of what it is about to store.
LEMMA Fresh ==
    ASSUME P!Inv, StoreInv, NEW l \in Lines, NEW e \in Epochs, NEW n \in Nat,
           \/ e = currentEpoch + 1
           \/ e = currentEpoch /\ n = auth[l].ctr + 1
           \/ e = currentEpoch /\ auth[l].epoch < currentEpoch
    PROVE  [line |-> l, epoch |-> e, ctr |-> n] \notin copies
<1>1. /\ \A c \in copies : c.epoch <= currentEpoch
      /\ PlainAuth[l].epoch < currentEpoch =>
            \A c \in copies : c.line = l => c.epoch # currentEpoch
      /\ \A c \in copies : c.epoch = currentEpoch => c.ctr <= PlainAuth[c.line].ctr
  BY DEF P!Inv, P!WindowInv
<1>2. /\ currentEpoch \in Nat /\ auth[l].ctr \in Nat
      /\ PlainAuth[l].epoch = auth[l].epoch /\ PlainAuth[l].ctr = auth[l].ctr
  <2>1. PlainAuth[l] = [epoch |-> auth[l].epoch, ctr |-> auth[l].ctr]
        /\ currentEpoch \in Epochs /\ auth[l].ctr \in 0..MaxCtr
    BY Known
  <2>2. QED
    BY <2>1, Limits
<1>. DEFINE c == [line |-> l, epoch |-> e, ctr |-> n]
<1>3. c.line = l /\ c.epoch = e /\ c.ctr = n
  OBVIOUS
<1>. HIDE DEF c
<1>4. c \notin copies
  BY <1>1, <1>2, <1>3
<1>5. QED
  BY <1>4 DEF c

-----------------------------------------------------------------------------
(* Every step of the Rust device is one of the Python device.              *)

\* saturating_sub makes no difference: there is no epoch 0.
LEMMA SameDrops ==
    ASSUME P!Inv, StoreInv, NEW e \in Nat, e >= 1, NEW now \in Nat
    PROVE  /\ e < WindowStart(now) <=> e < Python!Cutoff(now)
           /\ Drops(e, now) <=> Python!Droppable(e, now)
BY Limits DEF WindowStart, Python!Cutoff, Drops, Python!Droppable

LEMMA RatchetSame ==
    ASSUME P!Inv, StoreInv, RatchetStep
    PROVE  Python!AdvanceEpoch /\ currentEpoch' = currentEpoch + 1
           /\ currentEpoch' \in Epochs
<1>. DEFINE now == currentEpoch'
<1>1. /\ now = currentEpoch + 1 /\ now \in Epochs /\ now \in Nat /\ now >= 1
      /\ epochKeys' = {e \in epochKeys \cup {now} : ~Drops(e, now)}
      /\ \A e \in epochKeys : e \in Nat /\ e >= 1
  BY Known, Limits DEF RatchetStep
<1>2. ~Drops(now, now)
  BY <1>1, Limits DEF Drops, WindowStart
<1>3. epochKeys' = {e \in epochKeys : ~Python!Droppable(e, now)} \cup {now}
  BY <1>1, <1>2, SameDrops
<1>4. QED
  BY <1>1, <1>3 DEF Python!AdvanceEpoch, Python!Epochs, Epochs

LEMMA NestedExcept ==
    ASSUME NEW A, NEW B, NEW C, NEW S \in [A -> [B -> [C -> Nat]]],
           NEW T \in [A -> [B -> [C -> Nat]]], NEW a \in A, NEW b \in B, NEW c \in C,
           \A x \in A, y \in B, z \in C :
              T[x][y][z] = IF x = a /\ y = b /\ z = c THEN S[x][y][z] + 1 ELSE S[x][y][z]
    PROVE  T = [S EXCEPT ![a][b][c] = S[a][b][c] + 1]
<1>. DEFINE R == [S EXCEPT ![a][b][c] = S[a][b][c] + 1]
<1>1. R \in [A -> [B -> [C -> Nat]]]
  OBVIOUS
<1>2. ASSUME NEW x \in A, NEW y \in B, NEW z \in C
      PROVE  R[x][y][z] = IF x = a /\ y = b /\ z = c THEN S[x][y][z] + 1 ELSE S[x][y][z]
  OBVIOUS
<1>. HIDE DEF R
<1>3. ASSUME NEW x \in A, NEW y \in B PROVE T[x][y] = R[x][y]
  <2>1. T[x][y] \in [C -> Nat] /\ R[x][y] \in [C -> Nat]
    BY <1>1
  <2>2. \A z \in C : T[x][y][z] = R[x][y][z]
    BY <1>2
  <2>3. QED
    BY <2>1, <2>2
<1>4. ASSUME NEW x \in A PROVE T[x] = R[x]
  <2>1. T[x] \in [B -> [C -> Nat]] /\ R[x] \in [B -> [C -> Nat]]
    BY <1>1
  <2>2. QED
    BY <1>3, <2>1
<1>5. T = R
  BY <1>1, <1>4
<1>6. QED
  BY <1>5 DEF R

LEMMA ReplaceSame ==
    ASSUME P!Inv, StoreInv, NEW l \in Lines, NEW v \in VersionType, Replace(l, v),
           NEW p, p = Plain(v),
           [line |-> l, epoch |-> v.epoch, ctr |-> v.ctr] \notin copies
    PROVE  Python!StoreAs(l, p)
<1>. DEFINE new == [line |-> l, epoch |-> v.epoch, ctr |-> v.ctr]
<1>1. /\ v.epoch \in Epochs /\ v.ctr \in Nat /\ p.epoch = v.epoch /\ p.ctr = v.ctr
      /\ new.line = l /\ new.epoch = v.epoch /\ new.ctr = v.ctr
      /\ Python!Sealed(l, p) = new
  BY Limits DEF VersionType, Plain, Python!Sealed
<1>2. /\ lines' = [lines EXCEPT ![l] = Stored(Enc(l, v), v)]
      /\ auth' = [auth EXCEPT ![l] = v]
      /\ copies' = copies \cup {new}
  BY DEF Replace
<1>3. PlainLines' = [PlainLines EXCEPT ![l] = new]
  <2>1. lines'[l] = Stored(Enc(l, v), v) /\ \A k \in Lines \ {l} : lines'[k] = lines[k]
    BY <1>2 DEF StoreInv
  <2>2. PlainLine(Stored(Enc(l, v), v)) = new
    BY DEF PlainLine, Stored, Enc
  <2>3. QED
    BY <2>1, <2>2 DEF PlainLines, PlainLine
<1>4. PlainAuth' = [PlainAuth EXCEPT ![l] = p]
  BY <1>2 DEF PlainAuth, Plain, StoreInv
<1>5. epochRefcount' = [e \in Epochs |->
          epochRefcount[e] - (IF e = PlainLines[l].epoch THEN 1 ELSE 0)
                           + (IF e = p.epoch THEN 1 ELSE 0)]
  <2>. DEFINE old == lines[l].version.epoch
              dropped == [epochRefcount EXCEPT ![old] = epochRefcount[old] - 1]
  <2>1. epochRefcount' = [dropped EXCEPT ![v.epoch] = dropped[v.epoch] + 1]
    BY DEF Replace
  <2>2. PlainLines[l].epoch = old /\ old \in Epochs /\ epochRefcount \in [Epochs -> Nat]
    <3>1. PlainLines[l] = PlainLine(lines[l])
      BY DEF PlainLines
    <3>2. /\ PlainLine(lines[l]) = [line |-> l, epoch |-> auth[l].epoch, ctr |-> auth[l].ctr]
          /\ lines[l].version = auth[l] /\ auth[l].epoch \in Epochs
          /\ epochRefcount \in [Epochs -> Nat]
      BY Known
    <3>3. QED
      BY <3>1, <3>2
  <2>3. \A e \in Epochs :
           dropped[e] = epochRefcount[e] - (IF e = old THEN 1 ELSE 0)
    BY <2>2
  <2>4. dropped = [e \in Epochs |-> dropped[e]]
    BY <2>2
  <2>. HIDE DEF dropped
  <2>5. \A e \in Epochs : epochRefcount'[e] = dropped[e] + (IF e = v.epoch THEN 1 ELSE 0)
    BY <1>1, <2>1, <2>2, <2>3, <2>4
  <2>6. epochRefcount' = [e \in Epochs |-> epochRefcount'[e]]
    BY <2>1, <2>4
  <2>7. QED
    BY <1>1, <2>2, <2>3, <2>5, <2>6
<1>6. PlainSealed' = [PlainSealed EXCEPT ![p.epoch][l][p.ctr % CtrLimit] =
                         PlainSealed[p.epoch][l][p.ctr % CtrLimit] + 1]
  <2>. DEFINE f == v.ctr % CtrLimit
  <2>1. f \in Fields
    BY <1>1, Assumptions, P!ModuloRange, Limits DEF Fields
  <2>2. ASSUME NEW e \in Epochs, NEW k \in Lines, NEW n \in Fields
        PROVE  Cardinality(CopiesOf(e, k, n)') =
                  IF e = v.epoch /\ k = l /\ n = f
                  THEN Cardinality(CopiesOf(e, k, n)) + 1 ELSE Cardinality(CopiesOf(e, k, n))
    <3>1. CopiesOf(e, k, n)' = IF e = v.epoch /\ k = l /\ n = f
                               THEN CopiesOf(e, k, n) \cup {new} ELSE CopiesOf(e, k, n)
      BY <1>1, <1>2 DEF CopiesOf
    <3>2. IsFiniteSet(CopiesOf(e, k, n)) /\ new \notin CopiesOf(e, k, n)
      BY FS_Subset DEF StoreInv, CopiesOf
    <3>3. QED
      BY <3>1, <3>2, FS_AddElement
  <2>. HIDE DEF f
  <2>3. ASSUME NEW e \in Epochs, NEW k \in Lines, NEW n \in Fields
        PROVE  PlainSealed'[e][k][n] = IF e = v.epoch /\ k = l /\ n = f
                                       THEN PlainSealed[e][k][n] + 1 ELSE PlainSealed[e][k][n]
    <3>1. PlainSealed[e][k][n] = Cardinality(CopiesOf(e, k, n))
      BY DEF PlainSealed
    <3>2. PlainSealed'[e][k][n] = Cardinality(CopiesOf(e, k, n)')
      BY DEF PlainSealed
    <3>3. QED
      BY <2>2, <3>1, <3>2
  <2>4. /\ PlainSealed \in [Epochs -> [Lines -> [Fields -> Nat]]]
        /\ PlainSealed' \in [Epochs -> [Lines -> [Fields -> Nat]]]
    <3>1. IsFiniteSet(copies) /\ IsFiniteSet(copies')
      BY <1>2, FS_AddElement DEF StoreInv
    <3>2. ASSUME NEW e \in Epochs, NEW k \in Lines, NEW n \in Fields
          PROVE  Cardinality(CopiesOf(e, k, n)) \in Nat
                 /\ Cardinality(CopiesOf(e, k, n)') \in Nat
      BY <3>1, FS_Subset, FS_CardinalityType DEF CopiesOf
    <3>3. QED
      BY <3>2 DEF PlainSealed
  <2>5. PlainSealed' = [PlainSealed EXCEPT ![v.epoch][l][f] = PlainSealed[v.epoch][l][f] + 1]
    <3>1. PICK S, T : S = PlainSealed /\ T = PlainSealed'
      OBVIOUS
    <3>2. /\ S \in [Epochs -> [Lines -> [Fields -> Nat]]]
          /\ T \in [Epochs -> [Lines -> [Fields -> Nat]]]
          /\ \A e \in Epochs, k \in Lines, n \in Fields :
                T[e][k][n] = IF e = v.epoch /\ k = l /\ n = f
                             THEN S[e][k][n] + 1 ELSE S[e][k][n]
      BY <2>3, <2>4, <3>1
    <3>3. T = [S EXCEPT ![v.epoch][l][f] = S[v.epoch][l][f] + 1]
      <4>1. PICK e \in Epochs : e = v.epoch
        BY <1>1
      <4>2. \A x \in Epochs, y \in Lines, z \in Fields :
               T[x][y][z] = IF x = e /\ y = l /\ z = f THEN S[x][y][z] + 1 ELSE S[x][y][z]
        BY <3>2, <4>1
      <4>3. T = [S EXCEPT ![e][l][f] = S[e][l][f] + 1]
        BY <2>1, <3>2, <4>2, NestedExcept
      <4>4. QED
        BY <4>1, <4>3
    <3>4. QED
      BY <3>1, <3>3
  <2>6. QED
    BY <1>1, <2>5 DEF f
<1>7. QED
  BY <1>1, <1>2, <1>3, <1>4, <1>5, <1>6
     DEF Python!StoreAs, Python!Epochs, Epochs, PlainLines, PlainLine, PlainAuth,
         PlainSealed, CopiesOf, Fields, P!StoreAs

LEMMA WriteSame ==
    ASSUME P!Inv, StoreInv, NEW l \in Lines, NEW h \in Hosts, Write(l, h)
    PROVE  Python!Write(l)
<1>1. PICK v : v = Version(currentEpoch', auth[l].ctr + 1, h)
  OBVIOUS
<1>2. PICK p : p = Plain(v)
  OBVIOUS
<1>3. /\ auth[l].ctr < MaxCtr
      /\ IF MustRatchet(l) THEN RatchetStep ELSE UNCHANGED <<currentEpoch, epochKeys>>
      /\ epochAddrWrites' = [epochAddrWrites EXCEPT ![currentEpoch'][l] =
                                epochAddrWrites[currentEpoch'][l] + 1]
  BY DEF Write
<1>4. Replace(l, v)
  BY <1>1 DEF Write, Replace
<1>5. /\ IF MustRatchet(l) THEN Python!AdvanceEpoch ELSE UNCHANGED <<currentEpoch, epochKeys>>
      /\ currentEpoch' \in Epochs
      /\ currentEpoch' = currentEpoch \/ currentEpoch' = currentEpoch + 1
  BY <1>3, RatchetSame, Known
<1>6. auth[l].ctr \in Nat /\ auth[l].ctr + 1 \in 0..MaxCtr
  <2>1. auth[l].ctr \in 0..MaxCtr
    BY Known
  <2>2. QED
    BY <1>3, <2>1, Limits
<1>7. v \in VersionType /\ v.epoch = currentEpoch' /\ v.ctr = auth[l].ctr + 1
  BY <1>1, <1>5, <1>6 DEF Version, VersionType
<1>8. [line |-> l, epoch |-> v.epoch, ctr |-> v.ctr] \notin copies
  BY <1>5, <1>6, <1>7, Fresh
<1>9. Python!StoreAs(l, p)
  BY <1>2, <1>4, <1>7, <1>8, ReplaceSame
<1>10. PlainAuth[l].ctr = auth[l].ctr
  BY DEF PlainAuth, Plain
<1>11. p = [epoch |-> currentEpoch', ctr |-> PlainAuth[l].ctr + 1]
  BY <1>2, <1>7, <1>10 DEF Plain
<1>12. Python!StoreAs(l, [epoch |-> currentEpoch', ctr |-> PlainAuth[l].ctr + 1])
  BY <1>9, <1>11 DEF Python!StoreAs
<1>13. MustRatchet(l) <=> Python!WritesExhausted(l)
  BY DEF MustRatchet, Python!WritesExhausted
<1>14. QED
  BY <1>3, <1>5, <1>10, <1>12, <1>13 DEF Python!Write, PlainAuth

LEMMA MigrateSame ==
    ASSUME P!Inv, StoreInv, NEW l \in Lines, MaybeMigrate(l)
    PROVE  Python!Migrate(l)
<1>1. PICK old : old = lines[l].version
  OBVIOUS
<1>2. PICK v : v = Version(currentEpoch, old.ctr, old.writer)
  OBVIOUS
<1>3. PICK p : p = Plain(v)
  OBVIOUS
<1>4. /\ old.epoch < WindowStart(currentEpoch) /\ old.epoch \in epochKeys
      /\ UNCHANGED <<currentEpoch, epochKeys, epochAddrWrites>>
  BY <1>1 DEF MaybeMigrate
<1>5. Replace(l, v)
  BY <1>1, <1>2 DEF MaybeMigrate, Replace
<1>6. /\ old = auth[l] /\ auth[l] \in VersionType
      /\ auth[l].epoch \in Epochs /\ auth[l].ctr \in 0..MaxCtr /\ currentEpoch \in Epochs
  BY <1>1, Known DEF StoreInv
<1>7. v \in VersionType /\ v.epoch = currentEpoch /\ v.ctr = auth[l].ctr
  BY <1>2, <1>6 DEF Version, VersionType
<1>8. old.epoch < Python!Cutoff(currentEpoch) /\ auth[l].epoch < currentEpoch
  BY <1>4, <1>6, SameDrops, Limits DEF Python!Cutoff
<1>9. [line |-> l, epoch |-> v.epoch, ctr |-> v.ctr] \notin copies
  BY <1>6, <1>7, <1>8, Fresh, Limits
<1>10. Python!StoreAs(l, p)
  BY <1>3, <1>5, <1>7, <1>9, ReplaceSame
<1>11. PlainLines[l].epoch = old.epoch /\ PlainLines[l].ctr = old.ctr
  <2>1. PlainLines[l] = PlainLine(lines[l])
    BY DEF PlainLines
  <2>2. PlainLine(lines[l]) = [line |-> l, epoch |-> auth[l].epoch, ctr |-> auth[l].ctr]
    BY Known
  <2>3. QED
    BY <1>6, <2>1, <2>2
<1>12. p = [epoch |-> currentEpoch, ctr |-> PlainLines[l].ctr]
  BY <1>3, <1>6, <1>7, <1>11 DEF Plain
<1>13. Python!StoreAs(l, [epoch |-> currentEpoch, ctr |-> PlainLines[l].ctr])
  BY <1>10, <1>12 DEF Python!StoreAs
<1>14. QED
  BY <1>4, <1>8, <1>11, <1>13 DEF Python!Migrate, PlainLines, PlainLine

\* The two instances of EpochDevice are the same.
LEMMA SameInstance ==
    /\ Python!Init <=> P!Init
    /\ [Python!Next]_Python!vars <=> [P!Next]_P!vars
<1>1. Python!Init <=> P!Init
  BY DEF Python!Init, P!Init, Python!Epochs, P!Epochs, Python!Sealed, P!Sealed,
         Python!Idle, P!Idle, Python!Cardinality, P!Cardinality, PlainLines, PlainLine,
         PlainAuth, PlainSealed, CopiesOf, Fields
<1>2. Python!AdvanceEpoch <=> P!AdvanceEpoch
  BY DEF Python!AdvanceEpoch, P!AdvanceEpoch, Python!Epochs, P!Epochs,
         Python!Droppable, P!Droppable, Python!Cutoff, P!Cutoff
<1>3. ASSUME NEW l, NEW v PROVE Python!StoreAs(l, v) <=> P!StoreAs(l, v)
  BY DEF Python!StoreAs, P!StoreAs, Python!Epochs, P!Epochs, Python!Sealed, P!Sealed,
         PlainLines, PlainLine, PlainAuth, PlainSealed, CopiesOf, Fields
<1>4. ASSUME NEW l PROVE Python!Write(l) <=> P!Write(l)
  BY <1>2, <1>3 DEF Python!Write, P!Write, Python!WritesExhausted, P!WritesExhausted
<1>5. ASSUME NEW l PROVE Python!Migrate(l) <=> P!Migrate(l)
  BY <1>3 DEF Python!Migrate, P!Migrate, Python!Cutoff, P!Cutoff
<1>6. Python!Ratchet <=> P!Ratchet
  BY <1>2 DEF Python!Ratchet, P!Ratchet
<1>7. Python!vars = P!vars /\ Python!vars' = P!vars'
  BY DEF Python!vars, P!vars, Python!deviceVars, P!deviceVars
<1>8. Python!Next <=> P!Next
  BY <1>4, <1>5, <1>6 DEF Python!Next, P!Next
<1>9. QED
  BY <1>1, <1>7, <1>8

LEMMA NextSame == P!Inv /\ StoreInv /\ [Next]_vars => [Python!Next]_Python!vars
<1>. SUFFICES ASSUME P!Inv, StoreInv, [Next]_vars PROVE [Python!Next]_Python!vars
  OBVIOUS
<1>1. ASSUME NEW l \in Lines, NEW h \in Hosts, Write(l, h) PROVE Python!Next
  BY <1>1, WriteSame DEF Python!Next
<1>2. ASSUME NEW l \in Lines, MaybeMigrate(l) PROVE Python!Next
  BY <1>2, MigrateSame DEF Python!Next
<1>3. ASSUME Ratchet PROVE Python!Next
  <2>1. UNCHANGED <<epochRefcount, epochAddrWrites, PlainLines, PlainAuth, copies, PlainSealed>>
    BY <1>3 DEF Ratchet, PlainLines, PlainAuth, PlainSealed, CopiesOf
  <2>2. Python!AdvanceEpoch
    BY <1>3, RatchetSame DEF Ratchet
  <2>3. Python!Ratchet
    BY <2>1, <2>2 DEF Python!Ratchet
  <2>4. QED
    BY <2>3 DEF Python!Next
<1>4. ASSUME UNCHANGED vars PROVE UNCHANGED Python!vars
  <2>1. UNCHANGED <<PlainLines, PlainAuth, PlainSealed>>
    BY <1>4 DEF vars, PlainLines, PlainAuth, PlainSealed, CopiesOf
  <2>2. QED
    BY <1>4, <2>1 DEF vars, Python!vars, Python!deviceVars
<1>5. QED
  BY <1>1, <1>2, <1>3, <1>4 DEF Next

\* Common to a write and a migration.
LEMMA ReplaceKeeps ==
    ASSUME StoreInv, NEW l \in Lines, NEW v \in VersionType, Replace(l, v)
    PROVE  StoreInv' /\ lines'[l] = Stored(Enc(l, v), v) /\ copies \subseteq copies'
           /\ [line |-> l, epoch |-> v.epoch, ctr |-> v.ctr] \in copies'
<1>1. /\ lines' = [lines EXCEPT ![l] = Stored(Enc(l, v), v)]
      /\ auth' = [auth EXCEPT ![l] = v]
      /\ copies' = copies \cup {[line |-> l, epoch |-> v.epoch, ctr |-> v.ctr]}
  BY DEF Replace
<1>2. auth' \in [Lines -> VersionType] /\ IsFiniteSet(copies')
  BY <1>1, FS_AddElement DEF StoreInv
<1>3. \A k \in Lines : lines'[k] = Stored(Enc(k, auth'[k]), auth'[k])
  BY <1>1 DEF StoreInv
<1>4. lines' = [k \in Lines |-> lines'[k]]
  BY <1>1 DEF StoreInv
<1>5. QED
  BY <1>1, <1>2, <1>3, <1>4 DEF StoreInv

\* The version a write or a migration gives to the line.
LEMMA NewVersions ==
    ASSUME P!Inv, StoreInv, NEW l \in Lines
    PROVE  /\ \A h \in Hosts : Write(l, h) =>
                 \E v \in VersionType : Replace(l, v)
                    /\ history' = [history EXCEPT ![l] = Append(history[l], lines'[l])]
           /\ MaybeMigrate(l) =>
                 \E v \in VersionType : Replace(l, v) /\ history' = history
<1>1. ASSUME NEW h \in Hosts, Write(l, h)
      PROVE  \E v \in VersionType : Replace(l, v)
                /\ history' = [history EXCEPT ![l] = Append(history[l], lines'[l])]
  <2>1. PICK v : v = Version(currentEpoch', auth[l].ctr + 1, h)
    OBVIOUS
  <2>2. Replace(l, v) /\ auth[l].ctr < MaxCtr
    BY <1>1, <2>1 DEF Write, Replace
  <2>3. currentEpoch' \in Epochs
    BY <1>1, RatchetSame, Known DEF Write
  <2>4. auth[l].ctr + 1 \in 0..MaxCtr
    <3>1. auth[l].ctr \in 0..MaxCtr
      BY Known
    <3>2. QED
      BY <2>2, <3>1, Limits
  <2>5. v \in VersionType
    BY <2>1, <2>3, <2>4 DEF Version, VersionType
  <2>6. QED
    BY <1>1, <2>2, <2>5 DEF Write
<1>2. ASSUME MaybeMigrate(l)
      PROVE  \E v \in VersionType : Replace(l, v) /\ history' = history
  <2>1. PICK v : v = Version(currentEpoch, lines[l].version.ctr, lines[l].version.writer)
    OBVIOUS
  <2>2. Replace(l, v) /\ history' = history
    BY <1>2, <2>1 DEF MaybeMigrate, Replace
  <2>3. lines[l].version = auth[l] /\ currentEpoch \in Epochs /\ auth[l] \in VersionType
    BY Known DEF StoreInv
  <2>4. v \in VersionType
    BY <2>1, <2>3 DEF Version, VersionType
  <2>5. QED
    BY <2>2, <2>4
<1>3. QED
  BY <1>1, <1>2

LEMMA StoreStep == P!Inv /\ StoreInv /\ [Next]_vars => StoreInv'
<1>. SUFFICES ASSUME P!Inv, StoreInv, [Next]_vars PROVE StoreInv'
  OBVIOUS
<1>1. ASSUME NEW l \in Lines, \/ MaybeMigrate(l)
                              \/ \E h \in Hosts : Write(l, h)
      PROVE  StoreInv'
  <2>1. PICK v \in VersionType : Replace(l, v)
    BY <1>1, NewVersions
  <2>2. QED
    BY <2>1, ReplaceKeeps
<1>2. CASE Ratchet \/ UNCHANGED vars
  BY <1>2 DEF Ratchet, vars, StoreInv
<1>3. QED
  BY <1>1, <1>2 DEF Next

LEMMA HistoryStep == P!Inv /\ StoreInv /\ HistoryInv /\ [Next]_vars => HistoryInv'
<1>. SUFFICES ASSUME P!Inv, StoreInv, HistoryInv, [Next]_vars PROVE HistoryInv'
  OBVIOUS
<1>1. ASSUME NEW l \in Lines, NEW h \in Hosts, Write(l, h) PROVE HistoryInv'
  <2>1. PICK v \in VersionType : Replace(l, v)
           /\ history' = [history EXCEPT ![l] = Append(history[l], lines'[l])]
    BY <1>1, NewVersions
  <2>2. PICK s : s = Stored(Enc(l, v), v)
    OBVIOUS
  <2>3. /\ lines'[l] = s /\ copies \subseteq copies'
        /\ [line |-> l, epoch |-> v.epoch, ctr |-> v.ctr] \in copies'
    BY <2>1, <2>2, ReplaceKeeps
  <2>4. s \in StoredType /\ s.version = v /\ s = Stored(Enc(l, s.version), s.version)
    BY <2>2 DEF Stored, Enc, StoredType
  <2>5. /\ history' \in [Lines -> Seq(StoredType)]
        /\ history'[l] = Append(history[l], s)
        /\ \A k \in Lines \ {l} : history'[k] = history[k]
    BY <2>1, <2>3, <2>4 DEF HistoryInv
  <2>6. ASSUME NEW k \in Lines, NEW i \in DOMAIN history'[k]
        PROVE  LET t == history'[k][i]
               IN  /\ t = Stored(Enc(k, t.version), t.version)
                   /\ [line |-> k, epoch |-> t.version.epoch, ctr |-> t.version.ctr]
                         \in copies'
    <3>1. CASE k = l /\ i = Len(history[l]) + 1
      <4>1. history'[k][i] = s
        BY <2>5, <3>1 DEF HistoryInv
      <4>2. QED
        BY <2>3, <2>4, <3>1, <4>1
    <3>2. CASE ~(k = l /\ i = Len(history[l]) + 1)
      <4>1. i \in DOMAIN history[k] /\ history'[k][i] = history[k][i]
        BY <2>5, <2>6, <3>2 DEF HistoryInv
      <4>2. QED
        BY <2>3, <4>1 DEF HistoryInv
    <3>3. QED
      BY <3>1, <3>2
  <2>7. QED
    BY <2>5, <2>6 DEF HistoryInv
<1>2. ASSUME NEW l \in Lines, MaybeMigrate(l) PROVE HistoryInv'
  <2>1. PICK v \in VersionType : Replace(l, v) /\ history' = history
    BY <1>2, NewVersions
  <2>2. copies \subseteq copies'
    BY <2>1, ReplaceKeeps
  <2>3. QED
    BY <2>1, <2>2 DEF HistoryInv
<1>3. CASE Ratchet \/ UNCHANGED vars
  BY <1>3 DEF Ratchet, vars, HistoryInv
<1>4. QED
  BY <1>1, <1>2, <1>3 DEF Next

LEMMA InitSame == Init => Python!Init /\ StoreInv /\ HistoryInv
<1>. SUFFICES ASSUME Init PROVE Python!Init /\ StoreInv /\ HistoryInv
  OBVIOUS
<1>1. PICK zero : zero = Version(1, 0, 0)
  OBVIOUS
<1>2. /\ zero \in VersionType /\ zero.epoch = 1 /\ zero.ctr = 0
      /\ Plain(zero) = [epoch |-> 1, ctr |-> 0] /\ 1 \in Epochs
  BY <1>1, Limits, SetsAssumption DEF Version, VersionType, Plain, Epochs
<1>3. /\ auth = [l \in Lines |-> zero]
      /\ lines = [l \in Lines |-> Stored(Enc(l, zero), zero)]
      /\ copies = {[line |-> l, epoch |-> 1, ctr |-> 0] : l \in Lines}
      /\ history = [l \in Lines |-> <<>>]
  BY <1>1 DEF Init
<1>4. StoreInv
  <2>1. IsFiniteSet(copies)
    <3>. DEFINE f == [l \in Lines |-> [line |-> l, epoch |-> 1, ctr |-> 0]]
    <3>1. f \in Surjection(Lines, copies)
      BY <1>3 DEF Surjection
    <3>2. QED
      BY <3>1, SetsAssumption, FS_Surjection
  <2>2. QED
    BY <1>2, <1>3, <2>1 DEF StoreInv
<1>5. HistoryInv
  BY <1>3 DEF HistoryInv
<1>6. PlainAuth = [l \in Lines |-> [epoch |-> 1, ctr |-> 0]]
  BY <1>2, <1>3 DEF PlainAuth
<1>7. PlainLines = [l \in Lines |-> [line |-> l, epoch |-> 1, ctr |-> 0]]
  <2>1. ASSUME NEW l \in Lines
        PROVE  PlainLine(lines[l]) = [line |-> l, epoch |-> 1, ctr |-> 0]
    BY <1>2, <1>3 DEF PlainLine, Stored, Enc
  <2>2. QED
    BY <2>1 DEF PlainLines
<1>8. PlainSealed = [e \in Epochs |-> [l \in Lines |-> [n \in Fields |->
                       IF e = 1 /\ n = 0 THEN 1 ELSE 0]]]
  <2>1. ASSUME NEW e \in Epochs, NEW l \in Lines, NEW n \in Fields
        PROVE  Cardinality(CopiesOf(e, l, n)) = IF e = 1 /\ n = 0 THEN 1 ELSE 0
    <3>1. 0 % CtrLimit = 0
      BY Limits, P!SmallModulo, Assumptions
    <3>2. CopiesOf(e, l, n) = IF e = 1 /\ n = 0 THEN {[line |-> l, epoch |-> 1, ctr |-> 0]}
                                               ELSE {}
      BY <1>3, <3>1 DEF CopiesOf
    <3>3. QED
      BY <3>2, FS_Singleton, FS_EmptySet
  <2>2. QED
    BY <2>1 DEF PlainSealed
<1>9. copies = {PlainLines[l] : l \in Lines}
  BY <1>3, <1>7
<1>10. <<>> = [i \in {} |-> Python!Idle]
  OBVIOUS
<1>11. /\ currentEpoch = 1 /\ epochKeys = {1}
       /\ epochRefcount = [e \in Epochs |-> IF e = 1 THEN Cardinality(Lines) ELSE 0]
       /\ epochAddrWrites = [e \in Epochs |-> [l \in Lines |-> 0]]
  BY DEF Init
<1>12. Python!Cardinality(Lines) = Cardinality(Lines)
  BY DEF Cardinality, Python!Cardinality
<1>13. PlainLines = [l \in Lines |-> Python!Sealed(l, PlainAuth[l])]
  BY <1>6, <1>7 DEF Python!Sealed
<1>14. Python!Init
  BY <1>6, <1>8, <1>9, <1>10, <1>11, <1>12, <1>13
     DEF Python!Init, Python!Epochs, Epochs, Fields
<1>15. QED
  BY <1>4, <1>5, <1>14

-----------------------------------------------------------------------------
(* The theorems.                                                           *)

RustInv == P!Inv /\ StoreInv /\ HistoryInv

LEMMA Inductive == Spec => []RustInv
<1>1. Init => RustInv
  BY InitSame, SameInstance, PythonStarts DEF RustInv
<1>2. RustInv /\ [Next]_vars => RustInv'
  BY NextSame, SameInstance, PythonKeeps, StoreStep, HistoryStep DEF RustInv
<1>3. QED
  BY <1>1, <1>2, PTL DEF Spec

\* Every step of the Rust device is one of the Python device: what EpochDevice
\* promises about keys and nonces holds of main.rs too.
THEOREM RustImplementsPython == Spec => ImplementsPython
<1>1. RustInv /\ [Next]_vars => [Python!Next]_Python!vars
  BY NextSame DEF RustInv
<1>2. QED
  BY <1>1, InitSame, Inductive, PTL DEF Spec, ImplementsPython, Python!Spec

\* Every variable keeps its type; in particular no reference count goes below
\* zero, although dec_ref subtracts without a check from a signed count.
THEOREM RustTyped == Spec => []TypeOK
<1>1. RustInv => TypeOK
  <2>. SUFFICES ASSUME RustInv PROVE TypeOK
    OBVIOUS
  <2>1. epochKeys \subseteq Epochs
    <3>1. currentEpoch \in Epochs /\ epochKeys \subseteq 1..currentEpoch
      BY Known DEF RustInv
    <3>2. 1..currentEpoch \subseteq Epochs
      BY <3>1, Limits DEF Epochs
    <3>3. QED
      BY <3>1, <3>2
  <2>2. lines \in [Lines -> StoredType]
    BY DEF RustInv, StoreInv, Stored, Enc, StoredType, VersionType
  <2>3. QED
    BY <2>1, <2>2, Known DEF RustInv, StoreInv, HistoryInv, TypeOK
<1>2. QED
  BY <1>1, Inductive, PTL

\* The host accepts none of the answers the attacker of the trials builds, and
\* the earlier rule every recent replay.
THEOREM RustNotFooled == Spec => []OnlyLegacyFooled
<1>1. ASSUME RustInv, NEW l \in Lines
      PROVE  /\ \A resp \in BuildAttack(l) : ~Verify(l, resp)
             /\ \A resp \in SameEpochReplay(l) :
                   auth[l].epoch + 1 >= currentEpoch => LegacyWouldAccept(l, resp)
  <2>1. ASSUME NEW found, NEW resp \in LastSnapshot(l, found), found \subseteq DOMAIN history[l]
        PROVE  \E i \in found : resp = history[l][i]
    BY DEF LastSnapshot
  <2>2. ASSUME NEW resp \in SameEpochReplay(l)
        PROVE  /\ resp = Stored(Enc(l, resp.version), resp.version)
               /\ [line |-> l, epoch |-> resp.version.epoch, ctr |-> resp.version.ctr] \in copies
               /\ resp.version.epoch = auth[l].epoch /\ resp.version.ctr < auth[l].ctr
    BY <1>1, <2>1 DEF SameEpochReplay, RustInv, HistoryInv
  <2>3. ASSUME NEW resp \in OldEpochReplay(l)
        PROVE  /\ resp = Stored(Enc(l, resp.version), resp.version)
               /\ resp.version.epoch < auth[l].epoch
    <3>. DEFINE found == {i \in DOMAIN history[l] :
                             history[l][i].version.epoch < auth[l].epoch}
    <3>1. PICK i \in found : resp = history[l][i]
      BY <2>1 DEF OldEpochReplay
    <3>2. QED
      BY <1>1, <3>1 DEF RustInv, HistoryInv
  <2>4. /\ auth[l] \in VersionType /\ auth[l].epoch \in Epochs /\ auth[l].ctr \in 0..MaxCtr
        /\ auth[l].epoch \in epochKeys /\ currentEpoch \in Epochs
        /\ [line |-> l, epoch |-> auth[l].epoch, ctr |-> auth[l].ctr] \in copies
    BY <1>1, Known DEF RustInv, StoreInv
  \* The only ciphertext of a line that opens in an epoch under a counter is the
  \* one sealed with it.
  <2>5. ASSUME NEW c \in copies, NEW d \in copies, c.line = d.line, c.epoch = d.epoch,
               c.ctr % CtrLimit = d.ctr % CtrLimit
        PROVE  c = d
    BY <1>1, <2>5 DEF RustInv, P!Inv, P!SealInv
  <2>6. ASSUME NEW resp \in SameEpochReplay(l)
        PROVE  ~Verify(l, resp) /\ (auth[l].epoch + 1 >= currentEpoch => LegacyWouldAccept(l, resp))
    <3>1. /\ resp.ct.intact /\ resp.ct.line = l /\ resp.ct.sealed = resp.version
      <4>1. PICK u : u = resp.version
        OBVIOUS
      <4>2. resp = Stored(Enc(l, u), u)
        BY <2>2, <4>1
      <4>3. QED
        BY <4>2 DEF Stored, Enc
    <3>2. resp.version.ctr % CtrLimit # auth[l].ctr % CtrLimit
      <4>. DEFINE c == [line |-> l, epoch |-> resp.version.epoch, ctr |-> resp.version.ctr]
                  d == [line |-> l, epoch |-> auth[l].epoch, ctr |-> auth[l].ctr]
      <4>1. c.line = d.line /\ c.epoch = d.epoch /\ c \in copies /\ d \in copies
            /\ c.ctr = resp.version.ctr /\ d.ctr = auth[l].ctr
        BY <2>2, <2>4, <2>6
      <4>. HIDE DEF c, d
      <4>2. c.ctr # d.ctr
        <5>1. c.ctr \in 0..MaxCtr /\ d.ctr \in 0..MaxCtr /\ c.ctr < d.ctr
          BY <1>1, <2>2, <4>1, Known DEF RustInv
        <5>2. QED
          BY <5>1, Limits
      <4>3. QED
        BY <2>5, <4>1, <4>2
    <3>3. ~Verify(l, resp)
      BY <3>1, <3>2 DEF Verify, Decrypts
    <3>4. auth[l].epoch + 1 >= currentEpoch => LegacyWouldAccept(l, resp)
      BY <2>2, <2>4, <2>6, <3>1 DEF LegacyWouldAccept, Decrypts
    <3>5. QED
      BY <3>3, <3>4
  <2>7. ASSUME NEW resp \in OldEpochReplay(l) PROVE ~Verify(l, resp)
    <3>1. resp.ct.sealed = resp.version
      BY <2>3, <2>7 DEF Stored, Enc
    <3>2. resp.version.epoch # auth[l].epoch
      BY <2>3, <2>4, <2>7, Limits
    <3>3. QED
      BY <3>1, <3>2 DEF Verify, Decrypts
  <2>8. ASSUME NEW resp \in Tamper(l) PROVE ~Verify(l, resp)
    <3>1. lines[l] = Stored(Enc(l, auth[l]), auth[l])
      BY <1>1 DEF RustInv, StoreInv
    <3>2. ~resp.ct.intact
      BY <2>8, <3>1 DEF Tamper, Stored, Enc
    <3>3. QED
      BY <3>2 DEF Verify, Decrypts
  <2>9. QED
    BY <2>6, <2>7, <2>8 DEF BuildAttack
<1>2. RustInv => OnlyLegacyFooled
  BY <1>1 DEF OnlyLegacyFooled
<1>3. QED
  BY <1>2, Inductive, PTL
=============================================================================
