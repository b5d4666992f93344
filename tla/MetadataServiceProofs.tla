----------------------- MODULE MetadataServiceProofs -----------------------
(***************************************************************************)
(* The safety theorems of MetadataService, for every number of lines,      *)
(* tokens, TVEs and epochs, every counter width and every retention        *)
(* window, and its refinement of WriteLedger.  The inductive invariant has *)
(* seven parts, each proved from the ones before it.                       *)
(***************************************************************************)
EXTENDS MetadataService, ModuloLemmas, FiniteSetTheorems

\* TypeOK without the claim that the two counts never go below zero, which
\* only their exactness gives.
TypeInv ==
    /\ currentEpoch \in Epochs
    /\ auth \in [Lines -> Version \cup {NoVersion}]
    /\ allocCtr \in [Lines -> Nat]
    /\ epochWrites \in [Epochs -> [Lines -> Nat]]
    /\ refcount \in [Epochs -> Int]
    /\ pendingRefcount \in [Epochs -> Int]
    /\ issued \subseteq Reservation
    /\ pending \subseteq issued
    /\ encrypted \subseteq pending
    /\ consumed \subseteq Token
    /\ ntves \in 0..MaxTve
    /\ handles \in [Tves -> [Epochs -> {"absent", "held", "dropped"}]]
    /\ deviceHandles \subseteq Epochs
    /\ erased \subseteq Epochs
    /\ store \in [Lines -> Token \cup {NoData}]
    /\ sealed \in [Token -> Nat]

Live(e) == {l \in Lines : auth[l].epoch = e}
Waiting(e) == {r \in pending : r.epoch = e}

CountInv ==
    /\ IsFiniteSet(pending)
    /\ \A e \in Epochs : /\ refcount[e] = Cardinality(Live(e))
                         /\ pendingRefcount[e] = Cardinality(Waiting(e))

\* What is known of the reservations issued so far.
TokenInv ==
    /\ \A r, s \in issued : r.token = s.token => r = s
    /\ \A r \in issued : r.epoch <= currentEpoch /\ r.tve <= ntves
    /\ \A r \in pending : r.token \notin consumed
    /\ \A k \in consumed : \E r \in issued : r.token = k

\* An epoch that nothing can refer to again.
Dead(e) == Eligible(e, currentEpoch, refcount, pendingRefcount)

KeyInv ==
    /\ deviceHandles \cup erased = 1..currentEpoch
    /\ deviceHandles \cap erased = {}
    /\ \A t \in Tves, e \in Epochs :
          handles[t][e] = "held" => t <= ntves /\ e \in deviceHandles
    /\ \A t \in Tves, e \in deviceHandles :
          t <= ntves => handles[t][e] = "held" \/ Dead(e)
    /\ \A e \in erased : Dead(e)

\* Counters grow with the epochs: a later reservation of a line has neither a
\* smaller counter nor a smaller epoch.
OrderInv ==
    /\ \A r \in issued : r.ctr <= allocCtr[r.line] + 1
    /\ \A r, s \in issued : r.line = s.line /\ r.ctr < s.ctr => r.epoch <= s.epoch

\* What was sealed, and the ciphertext behind every authoritative version.
SealInv ==
    /\ \A k \in Token : sealed[k] > 0 => \E r \in issued : r.token = k
    /\ \A r \in pending \ encrypted : sealed[r.token] = 0
    /\ \A r \in encrypted : sealed[r.token] = 1
    /\ \A k \in Token : sealed[k] <= 1
    /\ \A l \in Lines : auth[l] # NoVersion =>
          \E r \in issued : /\ r.line = l /\ VersionOf(r) = auth[l]
                            /\ r.token = store[l] /\ sealed[r.token] > 0

\* With atomic reservation: the counters of a line's reservations are distinct,
\* and those of one epoch lie in a window narrower than the counter field.
NonceInv ==
    /\ \A r \in issued : r.ctr <= allocCtr[r.line]
    /\ \A r, s \in issued : r.line = s.line /\ r.ctr = s.ctr => r = s
    /\ \A r \in issued : r.epoch = currentEpoch =>
          allocCtr[r.line] - epochWrites[currentEpoch][r.line] < r.ctr
    /\ \A r, s \in issued : r.line = s.line /\ r.epoch = s.epoch =>
          r.ctr - s.ctr < CtrLimit
-----------------------------------------------------------------------------
HandleMap == [Tves -> [Epochs -> {"absent", "held", "dropped"}]]

\* The effect of one round of revocation: handles are only ever dropped, and an
\* epoch moves from the service to the erased ones only when every registered
\* TVE has dropped it.
LEMMA RevokeEffect ==
    ASSUME NEW revoked, NEW device, NEW held \in HandleMap,
           RevokeAll(revoked, device, held)
    PROVE  /\ handles' \in HandleMap
           /\ \A t \in Tves, e \in Epochs :
                 \/ handles'[t][e] = held[t][e]
                 \/ e \in revoked /\ handles'[t][e] = "dropped"
           /\ deviceHandles' \subseteq device /\ erased \subseteq erased'
           /\ \A e \in device : e \notin deviceHandles' => e \in erased'
           /\ \A e \in erased' : e \notin erased => e \in revoked
           /\ \A e \in erased' : e \notin erased =>
                 /\ e \notin deviceHandles'
                 /\ \A t \in Tves : t <= ntves /\ e \in Epochs => handles'[t][e] = "dropped"
<1>1. PICK acks \in Acknowledgements(revoked) :
        LET done == {e \in revoked : acks[e] = ntves}
        IN  /\ handles' = [t \in Tves |-> [e \in Epochs |->
                              IF e \in revoked /\ t <= acks[e]
                              THEN "dropped" ELSE held[t][e]]]
            /\ deviceHandles' = device \ done
            /\ erased' = erased \cup done
  BY DEF RevokeAll
<1>2. /\ handles' \in HandleMap
      /\ \A t \in Tves, e \in Epochs :
            \/ handles'[t][e] = held[t][e]
            \/ e \in revoked /\ handles'[t][e] = "dropped"
  BY <1>1 DEF HandleMap
<1>3. QED
  BY <1>1, <1>2

\* The same of the retirement pass that ends an operation.
LEMMA RetireEffect ==
    ASSUME NEW current, NEW live, NEW waiting,
           NEW device, NEW held \in HandleMap,
           TryRetireEpochs(current, live, waiting, device, held)
    PROVE  /\ handles' \in HandleMap
           /\ \A t \in Tves, e \in Epochs :
                 \/ handles'[t][e] = held[t][e]
                 \/ /\ e \in device /\ Eligible(e, current, live, waiting)
                    /\ handles'[t][e] = "dropped"
           /\ deviceHandles' \subseteq device /\ erased \subseteq erased'
           /\ \A e \in device : e \notin deviceHandles' => e \in erased'
           /\ \A e \in erased' : e \notin erased =>
                 e \in device /\ Eligible(e, current, live, waiting)
           /\ \A e \in erased' : e \notin erased =>
                 /\ e \notin deviceHandles'
                 /\ \A t \in Tves : t <= ntves /\ e \in Epochs => handles'[t][e] = "dropped"
<1> DEFINE revoked == {e \in device : Eligible(e, current, live, waiting)}
<1>1. RevokeAll(revoked, device, held)
  BY DEF TryRetireEpochs
<1>2. \A e : e \in revoked <=> e \in device /\ Eligible(e, current, live, waiting)
  OBVIOUS
<1> HIDE DEF revoked
<1>3. /\ handles' \in HandleMap
      /\ deviceHandles' \subseteq device /\ erased \subseteq erased'
      /\ \A e \in device : e \notin deviceHandles' => e \in erased'
  BY <1>1, RevokeEffect
<1>4. ASSUME NEW t \in Tves, NEW e \in Epochs
      PROVE  handles'[t][e] = held[t][e] \/ (e \in revoked /\ handles'[t][e] = "dropped")
  BY <1>1, RevokeEffect
<1>5. \A e \in erased' : e \notin erased => e \in revoked
  BY <1>1, RevokeEffect
<1>6. \A e \in erased' : e \notin erased =>
        /\ e \notin deviceHandles'
        /\ \A t \in Tves : t <= ntves /\ e \in Epochs => handles'[t][e] = "dropped"
  BY <1>1, RevokeEffect
<1>7. QED
  BY <1>2, <1>3, <1>4, <1>5, <1>6

LEMMA RevokeTypes ==
    ASSUME TypeInv,
           NEW revoked \in SUBSET Epochs, NEW device \in SUBSET Epochs,
           NEW held \in HandleMap, RevokeAll(revoked, device, held)
    PROVE  /\ handles' \in HandleMap
           /\ deviceHandles' \subseteq Epochs /\ erased' \subseteq Epochs
<1>1. /\ handles' \in HandleMap
      /\ deviceHandles' \subseteq device
      /\ \A e \in erased' : e \notin erased => e \in revoked
  BY RevokeEffect
<1>2. erased \subseteq Epochs
  BY DEF TypeInv
<1>3. QED
  BY <1>1, <1>2

LEMMA KeyTypes ==
    ASSUME TypeInv, NEW current, NEW live, NEW waiting,
           NEW device \in SUBSET Epochs, NEW held \in HandleMap,
           TryRetireEpochs(current, live, waiting, device, held)
    PROVE  /\ handles' \in HandleMap
           /\ deviceHandles' \subseteq Epochs /\ erased' \subseteq Epochs
<1>1. /\ handles' \in HandleMap
      /\ deviceHandles' \subseteq device
      /\ \A e \in erased' : e \notin erased => e \in device
  BY RetireEffect
<1>2. erased \subseteq Epochs
  BY DEF TypeInv
<1>3. QED
  BY <1>1, <1>2

-----------------------------------------------------------------------------
\* Initially and after every action the variables have their types.
LEMMA TypeInit == Init => TypeInv
  BY BoundsAssumption DEF Init, TypeInv, Epochs, Tves, Version, NoVersion, Reservation

LEMMA AdvanceTypes ==
    ASSUME TypeInv, AdvanceEpoch
    PROVE  /\ currentEpoch' \in Epochs /\ currentEpoch' = currentEpoch + 1
           /\ handles' \in HandleMap
           /\ deviceHandles' \subseteq Epochs /\ erased' \subseteq Epochs
<1>1. Provisioned(currentEpoch + 1) \in HandleMap
  BY DEF TypeInv, Provisioned, HandleMap
<1>2. QED
  BY <1>1, KeyTypes DEF TypeInv, AdvanceEpoch

LEMMA TypeStep == TypeInv /\ [Next]_vars => TypeInv'
<1> SUFFICES ASSUME TypeInv, [Next]_vars PROVE TypeInv'
  OBVIOUS
<1> USE DEF keyVars, lineVars, resvVars
<1>1. CASE RegisterTVE
  BY <1>1, BoundsAssumption DEF RegisterTVE, TypeInv, Tves
<1>2. ASSUME NEW t \in Tves, NEW l \in Lines, NEW k \in Token, ReserveWrite(t, l, k)
      PROVE  TypeInv'
  <2>1. /\ currentEpoch' \in Epochs
        /\ handles' \in HandleMap
        /\ deviceHandles' \subseteq Epochs /\ erased' \subseteq Epochs
    BY <1>2, AdvanceTypes DEF ReserveWrite, TypeInv, HandleMap
  <2> DEFINE r == [line |-> l, epoch |-> currentEpoch', ctr |-> allocCtr[l] + 1,
                   tve |-> t, token |-> k]
  <2>2. r \in Reservation
    BY <2>1 DEF Reservation, TypeInv
  <2>3. /\ issued' = issued \cup {r} /\ pending' = pending \cup {r}
        /\ pendingRefcount' = [pendingRefcount EXCEPT ![r.epoch] = @ + 1]
        /\ epochWrites' = [epochWrites EXCEPT ![r.epoch][l] = @ + 1]
        /\ allocCtr' = [allocCtr EXCEPT ![l] = AllocAfterReserve(l)]
        /\ UNCHANGED <<auth, refcount, store, encrypted, consumed, ntves, sealed>>
    BY <1>2 DEF ReserveWrite
  <2>4. /\ pendingRefcount' \in [Epochs -> Int]
        /\ epochWrites' \in [Epochs -> [Lines -> Nat]]
    BY <2>1, <2>3 DEF TypeInv
  <2>5. allocCtr' \in [Lines -> Nat]
    BY <2>3 DEF TypeInv, AllocAfterReserve
  <2>6. issued' \subseteq Reservation /\ pending' \subseteq issued'
        /\ encrypted' \subseteq pending'
    <3> HIDE DEF r
    <3>1. QED
      BY <2>2, <2>3 DEF TypeInv
  <2> HIDE DEF r
  <2>7. QED
    BY <2>1, <2>3, <2>4, <2>5, <2>6 DEF TypeInv, HandleMap
<1>3. ASSUME NEW t \in Tves, NEW r \in issued, Encrypt(t, r) PROVE TypeInv'
  BY <1>3 DEF Encrypt, EncryptionAuthorized, TypeInv, Reservation
<1>4. ASSUME NEW r \in issued, RetirePending(r)
      PROVE  /\ pending' \subseteq issued /\ encrypted' \subseteq pending'
             /\ consumed' \subseteq Token
             /\ pendingRefcount' \in [Epochs -> Int]
  BY <1>4 DEF RetirePending, TypeInv, Reservation
<1>5. ASSUME NEW r \in issued, CommitWrite(r) PROVE TypeInv'
  <2>1. /\ handles' \in HandleMap
        /\ deviceHandles' \subseteq Epochs /\ erased' \subseteq Epochs
    BY <1>5, KeyTypes DEF CommitWrite, TypeInv, HandleMap
  <2>2. /\ auth' \in [Lines -> Version \cup {NoVersion}]
        /\ store' \in [Lines -> Token \cup {NoData}]
        /\ refcount' \in [Epochs -> Int]
        /\ allocCtr' \in [Lines -> Nat]
    <3>1. VersionOf(r) \in Version /\ r \in Reservation
      BY DEF TypeInv, Reservation, Version, VersionOf
    <3>2. CASE Publish(r)
      BY <3>1, <3>2 DEF Publish, MovedReference, TypeInv, Reservation
    <3>3. CASE UNCHANGED lineVars
      BY <3>3 DEF TypeInv
    <3>4. QED
      BY <1>5, <3>2, <3>3 DEF CommitWrite
  <2>3. RetirePending(r) /\ UNCHANGED <<currentEpoch, epochWrites, ntves, issued, sealed>>
    BY <1>5 DEF CommitWrite
  <2>4. QED
    BY <1>4, <2>1, <2>2, <2>3 DEF TypeInv, HandleMap
<1>6. ASSUME NEW r \in issued, AbortWrite(r) PROVE TypeInv'
  <2>1. /\ handles' \in HandleMap
        /\ deviceHandles' \subseteq Epochs /\ erased' \subseteq Epochs
    BY <1>6, KeyTypes DEF AbortWrite, TypeInv, HandleMap
  <2>2. QED
    BY <1>4, <1>6, <2>1 DEF AbortWrite, TypeInv, HandleMap
<1>7. CASE Ratchet
  BY <1>7, AdvanceTypes DEF Ratchet, TypeInv, HandleMap
<1>8. ASSUME NEW e \in Epochs, Revoke(e) PROVE TypeInv'
  <2>1. RevokeAll({e}, deviceHandles, handles)
    BY <1>8 DEF Revoke
  <2>2. /\ handles' \in HandleMap
        /\ deviceHandles' \subseteq Epochs /\ erased' \subseteq Epochs
    <3>1. {e} \in SUBSET Epochs /\ deviceHandles \in SUBSET Epochs
          /\ handles \in HandleMap
      BY DEF TypeInv, HandleMap
    <3>2. QED
      BY <2>1, <3>1, RevokeTypes
  <2>3. QED
    BY <1>8, <2>2 DEF Revoke, TypeInv, HandleMap
<1>9. CASE UNCHANGED vars
  BY <1>9 DEF vars, TypeInv
<1>10. QED
  BY <1>1, <1>2, <1>3, <1>5, <1>6, <1>7, <1>8, <1>9 DEF Next
-----------------------------------------------------------------------------
(* The counts are exact.                                                   *)

\* Giving one line another version moves one reference.
LEMMA MovedCount ==
    ASSUME NEW f \in [Lines -> Version \cup {NoVersion}], NEW x \in Lines,
           NEW v \in Version, NEW e \in Epochs
    PROVE  Cardinality({l \in Lines : [f EXCEPT ![x] = v][l].epoch = e})
             = Cardinality({l \in Lines : f[l].epoch = e})
                 - (IF e = f[x].epoch THEN 1 ELSE 0) + (IF e = v.epoch THEN 1 ELSE 0)
<1> DEFINE S == {l \in Lines : f[l].epoch = e}
           R == {l \in Lines : [f EXCEPT ![x] = v][l].epoch = e}
<1>1. IsFiniteSet(S) /\ Cardinality(S) \in Nat
  BY LinesAssumption, FS_Subset, FS_CardinalityType
<1>2. x \in S <=> e = f[x].epoch
  OBVIOUS
<1>3. R = IF e = v.epoch THEN S \cup {x} ELSE S \ {x}
  OBVIOUS
<1> HIDE DEF S, R
<1>4. /\ Cardinality(S \cup {x}) = IF x \in S THEN Cardinality(S) ELSE Cardinality(S) + 1
      /\ Cardinality(S \ {x}) = IF x \in S THEN Cardinality(S) - 1 ELSE Cardinality(S)
  BY <1>1, FS_AddElement, FS_RemoveElement
<1>5. Cardinality(R) = Cardinality(S) - (IF e = f[x].epoch THEN 1 ELSE 0)
                                      + (IF e = v.epoch THEN 1 ELSE 0)
  BY <1>1, <1>2, <1>3, <1>4
<1>6. QED
  BY <1>5 DEF R, S

LEMMA CountInit == Init => CountInv
<1> SUFFICES ASSUME Init PROVE CountInv
  OBVIOUS
<1>1. \A e \in Epochs : Live(e) = {} /\ Waiting(e) = {}
  BY DEF Init, Live, Waiting, NoVersion, Epochs
<1>2. QED
  BY <1>1, FS_EmptySet DEF Init, CountInv

\* The two halves of CountInv.
LiveCounted == \A e \in Epochs : refcount[e] = Cardinality(Live(e))
WaitingCounted == /\ IsFiniteSet(pending)
                  /\ \A e \in Epochs : pendingRefcount[e] = Cardinality(Waiting(e))

LEMMA RetireCount ==
    ASSUME TypeInv, WaitingCounted, NEW r \in pending, RetirePending(r)
    PROVE  WaitingCounted'
<1>1. IsFiniteSet(pending')
  BY FS_RemoveElement DEF RetirePending, WaitingCounted
<1>2. ASSUME NEW e \in Epochs
      PROVE  pendingRefcount'[e] = Cardinality(Waiting(e)')
  <2>1. IsFiniteSet(Waiting(e)) /\ Cardinality(Waiting(e)) \in Nat
    BY FS_Subset, FS_CardinalityType DEF Waiting, WaitingCounted
  <2>2. Waiting(e)' = IF r.epoch = e THEN Waiting(e) \ {r} ELSE Waiting(e)
    BY DEF Waiting, RetirePending
  <2>3. r \in Waiting(e) <=> r.epoch = e
    BY DEF Waiting
  <2>4. Cardinality(Waiting(e) \ {r}) =
           IF r \in Waiting(e) THEN Cardinality(Waiting(e)) - 1 ELSE Cardinality(Waiting(e))
    BY <2>1, FS_RemoveElement
  <2>5. pendingRefcount'[e] = IF r.epoch = e THEN pendingRefcount[e] - 1 ELSE pendingRefcount[e]
    BY DEF RetirePending, TypeInv
  <2>6. pendingRefcount[e] = Cardinality(Waiting(e))
    BY DEF WaitingCounted
  <2>7. QED
    BY <2>1, <2>2, <2>3, <2>4, <2>5, <2>6
<1>3. QED
  BY <1>1, <1>2 DEF WaitingCounted

LEMMA ReserveCount ==
    ASSUME TypeInv, WaitingCounted, NEW r, r \notin pending, r.epoch \in Epochs,
           pending' = pending \cup {r},
           pendingRefcount' = [pendingRefcount EXCEPT ![r.epoch] = @ + 1]
    PROVE  WaitingCounted'
<1>1. IsFiniteSet(pending')
  BY FS_AddElement DEF WaitingCounted
<1>2. ASSUME NEW e \in Epochs
      PROVE  pendingRefcount'[e] = Cardinality(Waiting(e)')
  <2>1. IsFiniteSet(Waiting(e)) /\ Cardinality(Waiting(e)) \in Nat
    BY FS_Subset, FS_CardinalityType DEF Waiting, WaitingCounted
  <2>2. Waiting(e)' = IF r.epoch = e THEN Waiting(e) \cup {r} ELSE Waiting(e)
    BY DEF Waiting
  <2>3. Cardinality(Waiting(e) \cup {r}) = Cardinality(Waiting(e)) + 1
    BY <2>1, FS_AddElement DEF Waiting
  <2>4. pendingRefcount'[e] = IF r.epoch = e THEN pendingRefcount[e] + 1 ELSE pendingRefcount[e]
    BY DEF TypeInv
  <2>5. pendingRefcount[e] = Cardinality(Waiting(e))
    BY DEF WaitingCounted
  <2>6. QED
    BY <2>1, <2>2, <2>3, <2>4, <2>5
<1>3. QED
  BY <1>1, <1>2 DEF WaitingCounted

LEMMA PublishCount ==
    ASSUME TypeInv, LiveCounted, NEW r \in issued, Publish(r)
    PROVE  LiveCounted'
<1> SUFFICES ASSUME NEW e \in Epochs PROVE refcount'[e] = Cardinality(Live(e)')
  BY DEF LiveCounted
<1>1. VersionOf(r) \in Version /\ r.line \in Lines /\ VersionOf(r).epoch = r.epoch
  BY DEF TypeInv, Reservation, Version, VersionOf
<1>2. auth' = [auth EXCEPT ![r.line] = VersionOf(r)]
  BY DEF Publish
<1>3. auth \in [Lines -> Version \cup {NoVersion}]
  BY DEF TypeInv
<1>4. Cardinality(Live(e)') = Cardinality(Live(e))
         - (IF e = auth[r.line].epoch THEN 1 ELSE 0) + (IF e = r.epoch THEN 1 ELSE 0)
  BY <1>1, <1>2, <1>3, MovedCount DEF Live
<1>5. refcount'[e] = refcount[e] - (IF e = auth[r.line].epoch THEN 1 ELSE 0)
                                 + (IF e = r.epoch THEN 1 ELSE 0)
  BY DEF Publish, MovedReference
<1>6. QED
  BY <1>4, <1>5 DEF LiveCounted

LEMMA CountStep == TypeInv /\ CountInv /\ [Next]_vars => CountInv'
<1> SUFFICES ASSUME TypeInv, LiveCounted, WaitingCounted, [Next]_vars
             PROVE  LiveCounted' /\ WaitingCounted'
  BY DEF CountInv, LiveCounted, WaitingCounted
<1>1. ASSUME UNCHANGED <<auth, refcount>> PROVE LiveCounted'
  BY <1>1 DEF LiveCounted, Live
<1>2. ASSUME UNCHANGED <<pending, pendingRefcount>> PROVE WaitingCounted'
  BY <1>2 DEF WaitingCounted, Waiting
<1>3. ASSUME NEW t \in Tves, NEW l \in Lines, NEW k \in Token, ReserveWrite(t, l, k)
      PROVE  LiveCounted' /\ WaitingCounted'
  <2> DEFINE r == [line |-> l, epoch |-> currentEpoch', ctr |-> allocCtr[l] + 1,
                   tve |-> t, token |-> k]
  <2>1. r \notin pending
    BY <1>3 DEF ReserveWrite, TypeInv
  <2>2. currentEpoch' \in Epochs
    BY <1>3 DEF ReserveWrite, AdvanceEpoch, keyVars, TypeInv
  <2>3. /\ pending' = pending \cup {r}
        /\ pendingRefcount' = [pendingRefcount EXCEPT ![r.epoch] = @ + 1]
    BY <1>3 DEF ReserveWrite
  <2>4. r.epoch \in Epochs
    BY <2>2
  <2> HIDE DEF r
  <2>5. WaitingCounted'
    BY <2>1, <2>3, <2>4, ReserveCount
  <2>6. QED
    BY <1>1, <1>3, <2>5 DEF ReserveWrite
<1>4. ASSUME NEW r \in issued, CommitWrite(r) PROVE LiveCounted' /\ WaitingCounted'
  <2>1. WaitingCounted'
    BY <1>4, RetireCount DEF CommitWrite
  <2>2. Publish(r) \/ UNCHANGED lineVars
    BY <1>4 DEF CommitWrite
  <2>3. QED
    BY <1>1, <2>1, <2>2, PublishCount DEF lineVars
<1>5. ASSUME NEW r \in issued, AbortWrite(r) PROVE LiveCounted' /\ WaitingCounted'
  BY <1>1, <1>5, RetireCount DEF AbortWrite, lineVars
<1>6. CASE RegisterTVE \/ Ratchet
  BY <1>1, <1>2, <1>6 DEF RegisterTVE, Ratchet, lineVars, resvVars
<1>7. ASSUME NEW t \in Tves, NEW r \in issued, Encrypt(t, r)
      PROVE  LiveCounted' /\ WaitingCounted'
  BY <1>1, <1>2, <1>7 DEF Encrypt, lineVars
<1>8. ASSUME NEW e \in Epochs, Revoke(e) PROVE LiveCounted' /\ WaitingCounted'
  BY <1>1, <1>2, <1>8 DEF Revoke, lineVars, resvVars
<1>9. CASE UNCHANGED vars
  BY <1>1, <1>2, <1>9 DEF vars, lineVars, resvVars
<1>10. QED
  BY <1>3, <1>4, <1>5, <1>6, <1>7, <1>8, <1>9 DEF Next

\* Exact counts are never negative, so they have their types.
LEMMA ExactCounts ==
    ASSUME TypeInv, CountInv
    PROVE  TypeOK /\ AccountingExact
<1>1. ASSUME NEW e \in Epochs PROVE refcount[e] \in Nat /\ pendingRefcount[e] \in Nat
  <2>1. IsFiniteSet(Live(e))
    BY LinesAssumption, FS_Subset DEF Live
  <2>2. IsFiniteSet(Waiting(e))
    BY FS_Subset DEF CountInv, Waiting
  <2>3. Cardinality(Live(e)) \in Nat /\ Cardinality(Waiting(e)) \in Nat
    BY <2>1, <2>2, FS_CardinalityType
  <2>4. QED
    BY <2>3 DEF CountInv
<1>2. TypeOK
  BY <1>1 DEF TypeInv, TypeOK
<1>3. AccountingExact
  BY DEF CountInv, AccountingExact, Live, Waiting
<1>4. QED
  BY <1>2, <1>3
-----------------------------------------------------------------------------
(* Tokens.                                                                 *)

LEMMA TokenInit == Init => TokenInv
  BY DEF Init, TokenInv

LEMMA EpochAdvances ==
    ASSUME TypeInv, [Next]_vars
    PROVE  /\ currentEpoch \in Nat /\ ntves \in Nat /\ ntves' \in Nat
           /\ currentEpoch' = currentEpoch \/ currentEpoch' = currentEpoch + 1
           /\ ntves <= ntves'
<1>1. currentEpoch \in Nat /\ ntves \in Nat
  BY DEF TypeInv, Epochs
<1>2. AdvanceEpoch => currentEpoch' = currentEpoch + 1
  BY DEF AdvanceEpoch
<1>3. currentEpoch' = currentEpoch \/ currentEpoch' = currentEpoch + 1
  <2>1. ASSUME NEW t \in Tves, NEW l \in Lines, NEW k \in Token, ReserveWrite(t, l, k)
        PROVE  AdvanceEpoch \/ UNCHANGED currentEpoch
    BY <2>1 DEF ReserveWrite, keyVars
  <2>2. ASSUME NEW t \in Tves, NEW r \in issued, Encrypt(t, r) PROVE UNCHANGED currentEpoch
    BY <2>2 DEF Encrypt, keyVars
  <2>3. ASSUME NEW r \in issued, CommitWrite(r) \/ AbortWrite(r) PROVE UNCHANGED currentEpoch
    BY <2>3 DEF CommitWrite, AbortWrite
  <2>4. ASSUME NEW e \in Epochs, Revoke(e) PROVE UNCHANGED currentEpoch
    BY <2>4 DEF Revoke
  <2>5. QED
    BY <1>2, <2>1, <2>2, <2>3, <2>4 DEF Next, vars, keyVars, RegisterTVE, Ratchet
<1>4. ntves' = ntves \/ ntves' = ntves + 1
  <2>1. RegisterTVE => ntves' = ntves + 1
    BY DEF RegisterTVE
  <2>2. \A t \in Tves, l \in Lines, k \in Token : ReserveWrite(t, l, k) => ntves' = ntves
    BY DEF ReserveWrite
  <2>3. \A r \in issued : AbortWrite(r) \/ CommitWrite(r) => ntves' = ntves
    BY DEF AbortWrite, CommitWrite
  <2>4. \A t \in Tves, r \in issued : Encrypt(t, r) => ntves' = ntves
    BY DEF Encrypt
  <2>5. Ratchet \/ (\E e \in Epochs : Revoke(e)) => ntves' = ntves
    BY DEF Ratchet, Revoke
  <2>6. QED
    BY <2>1, <2>2, <2>3, <2>4, <2>5 DEF Next, vars
<1>5. QED
  BY <1>1, <1>3, <1>4

LEMMA TokenStep == TypeInv /\ TokenInv /\ [Next]_vars => TokenInv'
<1> SUFFICES ASSUME TypeInv, TokenInv, [Next]_vars PROVE TokenInv'
  OBVIOUS
<1>1. /\ currentEpoch \in Nat /\ currentEpoch' \in Nat /\ currentEpoch <= currentEpoch'
      /\ ntves \in Nat /\ ntves' \in Nat /\ ntves <= ntves'
      /\ \A r \in issued : r.epoch \in Nat /\ r.tve \in Nat
  <2>1. \A r \in issued : r.epoch \in Nat /\ r.tve \in Nat
    BY DEF TypeInv, Epochs, Tves, Reservation
  <2>2. QED
    BY <2>1, EpochAdvances
<1>2. ASSUME UNCHANGED <<issued, pending, consumed>> PROVE TokenInv'
  BY <1>1, <1>2 DEF TokenInv
<1>3. ASSUME NEW t \in Tves, NEW l \in Lines, NEW k \in Token, ReserveWrite(t, l, k)
      PROVE  TokenInv'
  <2> DEFINE r == [line |-> l, epoch |-> currentEpoch', ctr |-> allocCtr[l] + 1,
                   tve |-> t, token |-> k]
  <2>1. /\ issued' = issued \cup {r} /\ pending' = pending \cup {r}
        /\ consumed' = consumed /\ ntves' = ntves /\ t <= ntves
        /\ \A s \in issued : s.token # k
    BY <1>3 DEF ReserveWrite
  <2>2. r.token = k /\ r.epoch = currentEpoch' /\ r.tve = t
    OBVIOUS
  <2> HIDE DEF r
  <2>3. r.token \notin consumed
    BY <2>1, <2>2 DEF TokenInv
  <2>4. QED
    BY <1>1, <2>1, <2>2, <2>3 DEF TokenInv
<1>4. ASSUME NEW r \in issued, RetirePending(r), issued' = issued
      PROVE  TokenInv'
  BY <1>1, <1>4 DEF RetirePending, TokenInv, TypeInv
<1>5. ASSUME NEW r \in issued, CommitWrite(r) \/ AbortWrite(r) PROVE TokenInv'
  BY <1>4, <1>5 DEF CommitWrite, AbortWrite
<1>6. CASE RegisterTVE \/ Ratchet \/ UNCHANGED vars
  BY <1>2, <1>6 DEF RegisterTVE, Ratchet, vars, resvVars
<1>7. ASSUME NEW t \in Tves, NEW r \in issued, Encrypt(t, r) PROVE TokenInv'
  BY <1>2, <1>7 DEF Encrypt
<1>8. ASSUME NEW e \in Epochs, Revoke(e) PROVE TokenInv'
  BY <1>2, <1>8 DEF Revoke, resvVars
<1>9. QED
  BY <1>3, <1>5, <1>6, <1>7, <1>8 DEF Next

-----------------------------------------------------------------------------
(* Keys: what is erased or dropped is dead, and stays dead.                *)

LEMMA KeyInit == Init => KeyInv
  BY BoundsAssumption DEF Init, KeyInv, Epochs, Tves

\* The epoch of an unresolved reservation, and that of a live line, is not dead.
LEMMA ReferencedNotDead ==
    ASSUME TypeInv, CountInv
    PROVE  /\ \A r \in pending : pendingRefcount[r.epoch] > 0 /\ ~Dead(r.epoch)
           /\ \A l \in Lines : auth[l] # NoVersion =>
                 refcount[auth[l].epoch] > 0 /\ ~Dead(auth[l].epoch)
<1>1. ASSUME NEW r \in pending PROVE pendingRefcount[r.epoch] > 0
  <2>1. IsFiniteSet(Waiting(r.epoch)) /\ Waiting(r.epoch) # {}
    BY FS_Subset DEF CountInv, Waiting
  <2>2. QED
    BY <2>1, FS_EmptySet, FS_CardinalityType DEF CountInv, TypeInv, Reservation
<1>2. ASSUME NEW l \in Lines, auth[l] # NoVersion PROVE refcount[auth[l].epoch] > 0
  <2>1. IsFiniteSet(Live(auth[l].epoch)) /\ Live(auth[l].epoch) # {}
    BY LinesAssumption, FS_Subset DEF Live
  <2>2. auth[l].epoch \in Epochs
    BY <1>2 DEF TypeInv, Version
  <2>3. QED
    BY <2>1, <2>2, FS_EmptySet, FS_CardinalityType DEF CountInv
<1>3. QED
  BY <1>1, <1>2 DEF Dead, Eligible

LEMMA DeadStaysDead ==
    ASSUME TypeInv, CountInv, CountInv', [Next]_vars, NEW e \in Epochs, Dead(e)
    PROVE  Dead(e)'
<1>1. /\ currentEpoch \in Int /\ RetentionW \in Nat /\ RetentionW >= 1 /\ e \in Int
      /\ currentEpoch' = currentEpoch \/ currentEpoch' = currentEpoch + 1
  BY EpochAdvances, LimitAssumption DEF Epochs
<1>2. e < currentEpoch - RetentionW + 1 /\ refcount[e] = 0 /\ pendingRefcount[e] = 0
  BY DEF Dead, Eligible
<1>3. e < currentEpoch' - RetentionW + 1 /\ e # currentEpoch'
  BY <1>1, <1>2
<1>4. pendingRefcount'[e] = 0
  <2>1. ASSUME NEW t \in Tves, NEW l \in Lines, NEW k \in Token, ReserveWrite(t, l, k)
        PROVE  pendingRefcount'[e] = 0
    BY <1>2, <1>3, <2>1 DEF ReserveWrite, TypeInv
  <2>2. ASSUME NEW r \in pending, RetirePending(r) PROVE pendingRefcount'[e] = 0
    BY <1>2, <2>2, ReferencedNotDead DEF RetirePending, TypeInv
  <2>3. ASSUME NEW r \in issued, CommitWrite(r) \/ AbortWrite(r)
        PROVE  r \in pending /\ RetirePending(r)
    BY <2>3 DEF CommitWrite, AbortWrite
  <2>4. RegisterTVE \/ Ratchet \/ UNCHANGED vars => UNCHANGED pendingRefcount
    BY DEF RegisterTVE, Ratchet, vars, resvVars
  <2>5. \A t \in Tves, r \in issued : Encrypt(t, r) => UNCHANGED pendingRefcount
    BY DEF Encrypt
  <2>6. \A x \in Epochs : Revoke(x) => UNCHANGED pendingRefcount
    BY DEF Revoke, resvVars
  <2>7. QED
    BY <1>2, <2>1, <2>2, <2>3, <2>4, <2>5, <2>6 DEF Next
<1>5. refcount'[e] = 0
  <2>1. ASSUME NEW r \in pending, Publish(r) PROVE refcount'[e] = 0
    <3>1. refcount'[e] = 0 \/ refcount'[e] = -1
      BY <1>2, <2>1, ReferencedNotDead DEF Publish, MovedReference
    <3>2. refcount'[e] \in Nat
      <4>1. IsFiniteSet(Live(e)')
        BY LinesAssumption, FS_Subset DEF Live
      <4>2. QED
        BY <4>1, FS_CardinalityType DEF CountInv
    <3>3. QED
      BY <3>1, <3>2
  <2>2. CASE UNCHANGED refcount
    BY <1>2, <2>2
  <2>3. ASSUME NEW r \in issued, CommitWrite(r) PROVE refcount'[e] = 0
    <3>1. r \in pending /\ (refcount' = refcount \/ Publish(r))
      BY <2>3 DEF CommitWrite, lineVars
    <3>2. QED
      BY <1>2, <2>1, <3>1
  <2>4. \/ UNCHANGED refcount
        \/ \E r \in issued : CommitWrite(r)
    <3>1. RegisterTVE \/ Ratchet \/ UNCHANGED vars => UNCHANGED refcount
      BY DEF RegisterTVE, Ratchet, vars, lineVars
    <3>2. \A t \in Tves, l \in Lines, k \in Token :
             ReserveWrite(t, l, k) => UNCHANGED refcount
      BY DEF ReserveWrite
    <3>3. \A t \in Tves, r \in issued : Encrypt(t, r) => UNCHANGED refcount
      BY DEF Encrypt, lineVars
    <3>4. \A r \in issued : AbortWrite(r) => UNCHANGED refcount
      BY DEF AbortWrite, lineVars
    <3>5. \A x \in Epochs : Revoke(x) => UNCHANGED refcount
      BY DEF Revoke, lineVars
    <3>6. QED
      BY <3>1, <3>2, <3>3, <3>4, <3>5 DEF Next
  <2>5. QED
    BY <2>2, <2>3, <2>4
<1>6. QED
  BY <1>3, <1>4, <1>5 DEF Dead, Eligible

\* A round of revocation of dead epochs keeps the invariant.
LEMMA KeyAfterRevoke ==
    ASSUME NEW revoked, NEW device \in SUBSET Epochs, NEW held \in HandleMap,
           RevokeAll(revoked, device, held), revoked \subseteq device,
           TypeInv, ntves' = ntves, currentEpoch' \in Epochs,
           \A e \in Epochs : Dead(e) => Dead(e)',
           \A e \in revoked : Dead(e)',
           device \cup erased = 1..currentEpoch', device \cap erased = {},
           \A t \in Tves, e \in Epochs : held[t][e] = "held" => t <= ntves /\ e \in device,
           \A t \in Tves, e \in device : t <= ntves => held[t][e] = "held" \/ Dead(e),
           \A e \in erased : Dead(e)
    PROVE  KeyInv'
<1>1. /\ deviceHandles' \subseteq device /\ erased \subseteq erased'
      /\ \A e \in device : e \notin deviceHandles' => e \in erased'
  BY RevokeEffect
<1>2. \A e \in erased' : e \notin erased => e \in revoked
  BY RevokeEffect
<1>3. \A e \in erased' : e \notin erased =>
        /\ e \notin deviceHandles'
        /\ \A t \in Tves : t <= ntves /\ e \in Epochs => handles'[t][e] = "dropped"
  BY RevokeEffect
<1>4. ASSUME NEW t \in Tves, NEW e \in Epochs
      PROVE  handles'[t][e] = held[t][e] \/ (e \in revoked /\ handles'[t][e] = "dropped")
  BY RevokeEffect
<1>5. deviceHandles' \cup erased' = 1..currentEpoch'
  BY <1>1, <1>2
<1>6. deviceHandles' \cap erased' = {}
  BY <1>1, <1>3
<1>7. ASSUME NEW t \in Tves, NEW e \in Epochs, handles'[t][e] = "held"
      PROVE  t <= ntves' /\ e \in deviceHandles'
  BY <1>1, <1>3, <1>4, <1>7
<1>8. ASSUME NEW t \in Tves, NEW e \in deviceHandles', t <= ntves'
      PROVE  handles'[t][e] = "held" \/ Dead(e)'
  BY <1>1, <1>4, <1>8
<1>9. \A e \in erased' : Dead(e)'
  BY <1>2 DEF TypeInv
<1>10. QED
  BY <1>5, <1>6, <1>7, <1>8, <1>9 DEF KeyInv

\* The same of the retirement pass, whose epochs are dead in the state it leaves.
LEMMA KeyAfterRetire ==
    ASSUME NEW current, NEW live, NEW waiting,
           NEW device \in SUBSET Epochs, NEW held \in HandleMap,
           TryRetireEpochs(current, live, waiting, device, held),
           TypeInv, ntves' = ntves, currentEpoch' \in Epochs,
           \A e \in Epochs : Dead(e) => Dead(e)',
           \A e \in device : Eligible(e, current, live, waiting) => Dead(e)',
           device \cup erased = 1..currentEpoch', device \cap erased = {},
           \A t \in Tves, e \in Epochs : held[t][e] = "held" => t <= ntves /\ e \in device,
           \A t \in Tves, e \in device : t <= ntves => held[t][e] = "held" \/ Dead(e),
           \A e \in erased : Dead(e)
    PROVE  KeyInv'
<1> DEFINE revoked == {e \in device : Eligible(e, current, live, waiting)}
<1>1. RevokeAll(revoked, device, held)
  BY DEF TryRetireEpochs
<1>2. revoked \subseteq device /\ \A e \in revoked : Dead(e)'
  OBVIOUS
<1> HIDE DEF revoked
<1>3. QED
  BY <1>1, <1>2, KeyAfterRevoke

LEMMA KeyAfterAdvance ==
    ASSUME TypeInv, KeyInv, AdvanceEpoch, ntves' = ntves,
           \A e \in Epochs : Dead(e) => Dead(e)',
           \A e \in Epochs : Eligible(e, currentEpoch', refcount, pendingRefcount) => Dead(e)'
    PROVE  KeyInv'
<1> DEFINE new == currentEpoch + 1
           device == deviceHandles \cup {new}
<1>1. /\ new \in Epochs /\ currentEpoch' = new
      /\ TryRetireEpochs(new, refcount, pendingRefcount, device, Provisioned(new))
  BY DEF AdvanceEpoch
<1>2. device \in SUBSET Epochs /\ Provisioned(new) \in HandleMap
  BY <1>1 DEF TypeInv, Provisioned, HandleMap
<1>3. device \cup erased = 1..currentEpoch' /\ device \cap erased = {}
  BY <1>1 DEF KeyInv, TypeInv, Epochs
<1>4. \A t \in Tves, e \in Epochs :
        Provisioned(new)[t][e] = "held" => t <= ntves /\ e \in device
  BY <1>1 DEF Provisioned, KeyInv, TypeInv
<1>5. \A t \in Tves, e \in device :
        t <= ntves => Provisioned(new)[t][e] = "held" \/ Dead(e)
  BY <1>1 DEF Provisioned, KeyInv, TypeInv
<1>6. \A e \in erased : Dead(e)
  BY DEF KeyInv
<1>7. \A e \in device : Eligible(e, new, refcount, pendingRefcount) => Dead(e)'
  BY <1>1, <1>2
<1>8. currentEpoch' \in Epochs
  BY <1>1
<1> HIDE DEF device, new
<1>9. QED
  BY <1>1, <1>2, <1>3, <1>4, <1>5, <1>6, <1>7, <1>8, KeyAfterRetire

LEMMA KeyStep == TypeInv /\ CountInv /\ KeyInv /\ [Next]_vars => KeyInv'
<1> SUFFICES ASSUME TypeInv, CountInv, KeyInv, [Next]_vars PROVE KeyInv'
  OBVIOUS
<1>1. \A e \in Epochs : Dead(e) => Dead(e)'
  BY CountStep, DeadStaysDead
<1>2. /\ currentEpoch' \in Epochs /\ deviceHandles \in SUBSET Epochs /\ handles \in HandleMap
      /\ deviceHandles \subseteq Epochs /\ erased \subseteq Epochs
  BY TypeStep DEF TypeInv, HandleMap
<1>3. ASSUME UNCHANGED <<currentEpoch, handles, deviceHandles, erased, ntves>> PROVE KeyInv'
  BY <1>1, <1>2, <1>3 DEF KeyInv
<1>4. CASE RegisterTVE
  <2>1. /\ ntves' = ntves + 1 /\ ntves < MaxTve /\ ntves \in Nat
        /\ UNCHANGED <<currentEpoch, deviceHandles, erased>>
        /\ handles' = [handles EXCEPT ![ntves + 1] =
                          [e \in Epochs |-> IF e \in deviceHandles THEN "held" ELSE @[e]]]
    BY <1>4 DEF RegisterTVE, TypeInv
  <2>2. ASSUME NEW t \in Tves, NEW e \in Epochs, handles'[t][e] = "held"
        PROVE  t <= ntves' /\ e \in deviceHandles'
    BY <1>2, <2>1, <2>2 DEF KeyInv, HandleMap, Tves
  <2>3. ASSUME NEW t \in Tves, NEW e \in deviceHandles', t <= ntves'
        PROVE  handles'[t][e] = "held" \/ Dead(e)'
    BY <1>1, <1>2, <2>1, <2>3 DEF KeyInv, HandleMap, Tves
  <2>4. \A e \in erased' : Dead(e)'
    BY <1>1, <1>2, <2>1 DEF KeyInv
  <2>5. QED
    BY <2>1, <2>2, <2>3, <2>4 DEF KeyInv
<1>5. ASSUME NEW t \in Tves, NEW l \in Lines, NEW k \in Token, ReserveWrite(t, l, k)
      PROVE  KeyInv'
  <2>1. CASE UNCHANGED keyVars
    BY <1>3, <1>5, <2>1 DEF ReserveWrite, keyVars
  <2>2. CASE AdvanceEpoch
    <3>1. ASSUME NEW e \in Epochs, Eligible(e, currentEpoch', refcount, pendingRefcount)
          PROVE  Dead(e)'
      <4>1. e # currentEpoch'
        <5>1. currentEpoch' \in Int /\ RetentionW \in Int /\ RetentionW >= 1
          BY <1>2, LimitAssumption DEF Epochs
        <5>2. e < currentEpoch' - RetentionW + 1
          BY <3>1 DEF Eligible
        <5>3. QED
          BY <5>1, <5>2
      <4>2. pendingRefcount'[e] = pendingRefcount[e] /\ refcount' = refcount
        BY <1>5, <4>1 DEF ReserveWrite, TypeInv
      <4>3. QED
        BY <3>1, <4>2 DEF Eligible, Dead
    <3>2. ntves' = ntves
      BY <1>5 DEF ReserveWrite
    <3>3. QED
      BY <1>1, <2>2, <3>1, <3>2, KeyAfterAdvance
  <2>3. QED
    BY <1>5, <2>1, <2>2 DEF ReserveWrite
<1>6. ASSUME ntves' = ntves, currentEpoch' = currentEpoch,
             TryRetireEpochs(currentEpoch, refcount', pendingRefcount', deviceHandles, handles)
      PROVE  KeyInv'
  <2>1. \A e \in deviceHandles : Eligible(e, currentEpoch, refcount', pendingRefcount') => Dead(e)'
    BY <1>6 DEF Eligible, Dead
  <2>2. /\ deviceHandles \cup erased = 1..currentEpoch' /\ deviceHandles \cap erased = {}
        /\ \A t \in Tves, e \in Epochs :
              handles[t][e] = "held" => t <= ntves /\ e \in deviceHandles
        /\ \A t \in Tves, e \in deviceHandles :
              t <= ntves => handles[t][e] = "held" \/ Dead(e)
        /\ \A e \in erased : Dead(e)
    BY <1>6 DEF KeyInv
  <2>3. QED
    BY <1>1, <1>2, <1>6, <2>1, <2>2, KeyAfterRetire
<1>7. ASSUME NEW r \in issued, CommitWrite(r) PROVE KeyInv'
  BY <1>3, <1>6, <1>7 DEF CommitWrite
<1>8. ASSUME NEW r \in issued, AbortWrite(r) PROVE KeyInv'
  <2>1. refcount' = refcount
    BY <1>8 DEF AbortWrite, lineVars
  <2>2. QED
    BY <1>6, <1>8, <2>1 DEF AbortWrite
<1>9. CASE Ratchet
  <2>1. /\ AdvanceEpoch /\ ntves' = ntves
        /\ refcount' = refcount /\ pendingRefcount' = pendingRefcount
    BY <1>9 DEF Ratchet, lineVars, resvVars
  <2>2. \A e \in Epochs : Eligible(e, currentEpoch', refcount, pendingRefcount) => Dead(e)'
    BY <2>1 DEF Dead, Eligible
  <2>3. QED
    BY <1>1, <2>1, <2>2, KeyAfterAdvance
<1>10. ASSUME NEW e \in Epochs, Revoke(e) PROVE KeyInv'
  <2>1. /\ RevokeAll({e}, deviceHandles, handles) /\ Dead(e) /\ e \notin erased
        /\ ntves' = ntves /\ currentEpoch' = currentEpoch
    BY <1>10 DEF Revoke, Dead
  <2>2. e \in deviceHandles
    <3>1. currentEpoch \in Int /\ RetentionW \in Int /\ RetentionW >= 1
      BY LimitAssumption DEF Epochs, TypeInv
    <3>2. e < currentEpoch - RetentionW + 1
      BY <2>1 DEF Dead, Eligible
    <3>3. e \in 1..currentEpoch
      BY <3>1, <3>2 DEF Epochs
    <3>4. QED
      BY <2>1, <3>3 DEF KeyInv
  <2>3. /\ deviceHandles \cup erased = 1..currentEpoch' /\ deviceHandles \cap erased = {}
        /\ \A t \in Tves, x \in Epochs :
              handles[t][x] = "held" => t <= ntves /\ x \in deviceHandles
        /\ \A t \in Tves, x \in deviceHandles :
              t <= ntves => handles[t][x] = "held" \/ Dead(x)
        /\ \A x \in erased : Dead(x)
    BY <2>1 DEF KeyInv
  <2>4. {e} \subseteq deviceHandles /\ \A x \in {e} : Dead(x)'
    BY <1>1, <2>1, <2>2
  <2>5. QED
    BY <1>1, <1>2, <2>1, <2>3, <2>4, KeyAfterRevoke
<1>11. QED
  BY <1>3, <1>4, <1>5, <1>7, <1>8, <1>9, <1>10
     DEF Next, vars, keyVars, Encrypt
-----------------------------------------------------------------------------
(* What unresolved reservations and live lines can rely on.                *)

LEMMA Usable ==
    ASSUME TypeInv, CountInv, TokenInv, KeyInv
    PROVE  PendingUsable
<1> SUFFICES ASSUME NEW r \in pending
             PROVE  /\ r.epoch \notin erased /\ r.tve <= ntves
                    /\ handles[r.tve][r.epoch] = "held"
  BY DEF PendingUsable
<1>1. ~Dead(r.epoch)
  BY ReferencedNotDead
<1>2. r.epoch \in Epochs /\ r.tve \in Tves /\ r.epoch \in 1..currentEpoch /\ r.tve <= ntves
  BY DEF TypeInv, Reservation, TokenInv, Epochs
<1>3. r.epoch \notin erased /\ r.epoch \in deviceHandles
  BY <1>1, <1>2 DEF KeyInv
<1>4. QED
  BY <1>1, <1>2, <1>3 DEF KeyInv

LEMMA SealInit == Init => SealInv
  BY DEF Init, SealInv

LEMMA SealStep ==
    TypeInv /\ CountInv /\ TokenInv /\ KeyInv /\ SealInv /\ [Next]_vars => SealInv'
<1> SUFFICES ASSUME TypeInv, CountInv, TokenInv, KeyInv, SealInv, [Next]_vars PROVE SealInv'
  OBVIOUS
<1>1. ASSUME UNCHANGED <<issued, pending, encrypted, sealed, auth, store>> PROVE SealInv'
  BY <1>1 DEF SealInv, VersionOf
<1>2. ASSUME NEW t \in Tves, NEW l \in Lines, NEW k \in Token, ReserveWrite(t, l, k)
      PROVE  SealInv'
  <2> DEFINE r == [line |-> l, epoch |-> currentEpoch', ctr |-> allocCtr[l] + 1,
                   tve |-> t, token |-> k]
  <2>1. /\ issued' = issued \cup {r} /\ pending' = pending \cup {r}
        /\ UNCHANGED <<encrypted, sealed, auth, store>>
        /\ \A s \in issued : s.token # k
    BY <1>2 DEF ReserveWrite
  <2>2. r.token = k
    OBVIOUS
  <2> HIDE DEF r
  <2>3. sealed[k] = 0
    BY <2>1 DEF SealInv, TypeInv
  <2>4. /\ \A x \in Token : sealed'[x] > 0 => \E s \in issued' : s.token = x
        /\ \A s \in pending' \ encrypted' : sealed'[s.token] = 0
        /\ \A s \in encrypted' : sealed'[s.token] = 1
        /\ \A x \in Token : sealed'[x] <= 1
    BY <2>1, <2>2, <2>3 DEF SealInv
  <2>5. \A x \in Lines : auth'[x] # NoVersion =>
          \E s \in issued' : /\ s.line = x /\ VersionOf(s) = auth'[x]
                             /\ s.token = store'[x] /\ sealed'[s.token] > 0
    BY <2>1 DEF SealInv
  <2>6. QED
    BY <2>4, <2>5 DEF SealInv, VersionOf
<1>3. ASSUME NEW t \in Tves, NEW r \in issued, Encrypt(t, r) PROVE SealInv'
  <2>1. /\ r \in pending /\ r \notin encrypted /\ r.tve = t
        /\ encrypted' = encrypted \cup {r}
        /\ sealed' = IF handles[t][r.epoch] = "held"
                     THEN [sealed EXCEPT ![r.token] = @ + 1] ELSE sealed
        /\ UNCHANGED <<issued, pending, auth, store>>
    BY <1>3 DEF Encrypt, EncryptionAuthorized, lineVars
  <2>2. handles[t][r.epoch] = "held"
    BY <2>1, Usable DEF PendingUsable
  <2>3. sealed' = [sealed EXCEPT ![r.token] = 1] /\ r.token \in Token
    <3>1. r.token \in Token /\ sealed[r.token] = 0
      BY <2>1 DEF SealInv, TypeInv, Reservation
    <3>2. sealed' = [sealed EXCEPT ![r.token] = sealed[r.token] + 1]
      BY <2>1, <2>2
    <3>3. QED
      BY <3>1, <3>2
  <2>4. \A s \in issued : s # r => s.token \in Token /\ s.token # r.token
    BY <2>1 DEF TokenInv, TypeInv, Reservation
  <2>5. \A x \in Token : sealed'[x] = IF x = r.token THEN 1 ELSE sealed[x]
    BY <2>3 DEF TypeInv
  <2>6. /\ \A x \in Token : sealed'[x] > 0 => \E s \in issued' : s.token = x
        /\ \A s \in pending' \ encrypted' : sealed'[s.token] = 0
        /\ \A s \in encrypted' : sealed'[s.token] = 1
        /\ \A x \in Token : sealed'[x] <= 1
    <3>1. pending \subseteq issued /\ encrypted \subseteq issued
      BY DEF TypeInv
    <3>2. \A x \in Token : sealed'[x] > 0 => \E s \in issued' : s.token = x
      BY <2>1, <2>5 DEF SealInv
    <3>3. \A s \in pending' \ encrypted' : sealed'[s.token] = 0
      BY <2>1, <2>4, <2>5, <3>1 DEF SealInv
    <3>4. \A s \in encrypted' : sealed'[s.token] = 1
      BY <2>1, <2>3, <2>4, <2>5, <3>1 DEF SealInv
    <3>5. \A x \in Token : sealed'[x] <= 1
      BY <2>5 DEF SealInv
    <3>6. QED
      BY <3>2, <3>3, <3>4, <3>5
  <2>7. \A x \in Lines : auth'[x] # NoVersion =>
          \E s \in issued' : /\ s.line = x /\ VersionOf(s) = auth'[x]
                             /\ s.token = store'[x] /\ sealed'[s.token] > 0
    BY <2>1, <2>3, <2>4, <2>5 DEF SealInv
  <2>8. QED
    BY <2>6, <2>7 DEF SealInv, VersionOf
<1>4. ASSUME NEW r \in issued, RetirePending(r), UNCHANGED <<issued, sealed, auth, store>>
      PROVE  SealInv'
  BY <1>4 DEF RetirePending, SealInv, VersionOf
<1>5. ASSUME NEW r \in encrypted, Publish(r), RetirePending(r), UNCHANGED <<issued, sealed>>
      PROVE  SealInv'
  <2>1. /\ r \in issued /\ r.line \in Lines /\ sealed[r.token] = 1
        /\ pending' = pending \ {r} /\ encrypted' = encrypted \ {r}
        /\ auth' = [auth EXCEPT ![r.line] = VersionOf(r)]
        /\ store' = [store EXCEPT ![r.line] = r.token]
    BY <1>5 DEF Publish, RetirePending, SealInv, TypeInv, Reservation
  <2>2. \A x \in Lines : auth'[x] # NoVersion =>
          \E s \in issued' : /\ s.line = x /\ VersionOf(s) = auth'[x]
                             /\ s.token = store'[x] /\ sealed'[s.token] > 0
    <3>1. ASSUME NEW x \in Lines, x # r.line
          PROVE  auth'[x] = auth[x] /\ store'[x] = store[x]
      BY <2>1, <3>1 DEF TypeInv
    <3>2. auth'[r.line] = VersionOf(r) /\ store'[r.line] = r.token
      BY <2>1 DEF TypeInv
    <3>3. QED
      BY <1>5, <2>1, <3>1, <3>2 DEF SealInv
  <2>3. QED
    BY <1>5, <2>1, <2>2 DEF SealInv, VersionOf
<1>6. ASSUME NEW r \in issued, CommitWrite(r) PROVE SealInv'
  <2>1. /\ r \in encrypted /\ RetirePending(r) /\ UNCHANGED <<issued, sealed>>
        /\ Publish(r) \/ UNCHANGED lineVars
    BY <1>6 DEF CommitWrite
  <2>2. QED
    BY <1>4, <1>5, <2>1 DEF lineVars
<1>7. ASSUME NEW r \in issued, AbortWrite(r) PROVE SealInv'
  BY <1>4, <1>7 DEF AbortWrite, lineVars
<1>8. QED
  BY <1>1, <1>2, <1>3, <1>6, <1>7
     DEF Next, vars, lineVars, resvVars, RegisterTVE, Ratchet, Revoke

-----------------------------------------------------------------------------
(* Counters.                                                               *)

\* Only reserve_write issues reservations, and no step lowers a counter.
LEMMA IssuedByReserve ==
    ASSUME [Next]_vars
    PROVE  \/ issued' = issued
           \/ \E t \in Tves, l \in Lines, k \in Token : ReserveWrite(t, l, k)
<1>1. ASSUME NEW r \in issued, CommitWrite(r) \/ AbortWrite(r) PROVE issued' = issued
  BY <1>1 DEF CommitWrite, AbortWrite
<1>2. ASSUME NEW t \in Tves, NEW r \in issued, Encrypt(t, r) PROVE issued' = issued
  BY <1>2 DEF Encrypt
<1>3. QED
  BY <1>1, <1>2 DEF Next, vars, RegisterTVE, Ratchet, Revoke

LEMMA AllocGrows ==
    ASSUME TypeInv, [Next]_vars, NEW l \in Lines
    PROVE  allocCtr[l] \in Nat /\ allocCtr'[l] \in Nat /\ allocCtr[l] <= allocCtr'[l]
<1>1. allocCtr[l] \in Nat /\ allocCtr'[l] \in Nat
  BY TypeStep DEF TypeInv
<1>2. ASSUME NEW t \in Tves, NEW x \in Lines, NEW k \in Token, ReserveWrite(t, x, k)
      PROVE  allocCtr[l] <= allocCtr'[l]
  BY <1>1, <1>2 DEF ReserveWrite, AllocAfterReserve, TypeInv
<1>3. ASSUME NEW r \in issued, Publish(r) PROVE allocCtr[l] <= allocCtr'[l]
  <2>1. allocCtr' = allocCtr \/ (/\ r.ctr > allocCtr[r.line]
                                /\ allocCtr' = [allocCtr EXCEPT ![r.line] = r.ctr])
    BY <1>3 DEF Publish
  <2>2. r.ctr \in Nat
    BY DEF TypeInv, Reservation
  <2>3. QED
    BY <1>1, <2>1, <2>2 DEF TypeInv
<1>4. ASSUME NEW r \in issued, CommitWrite(r) PROVE allocCtr[l] <= allocCtr'[l]
  BY <1>1, <1>3, <1>4 DEF CommitWrite, lineVars
<1>5. ASSUME NEW r \in issued, AbortWrite(r) PROVE allocCtr[l] <= allocCtr'[l]
  BY <1>1, <1>5 DEF AbortWrite, lineVars
<1>6. CASE RegisterTVE \/ Ratchet \/ (\E e \in Epochs : Revoke(e)) \/ UNCHANGED vars
  <2>1. allocCtr' = allocCtr
    BY <1>6 DEF vars, lineVars, RegisterTVE, Ratchet, Revoke
  <2>2. QED
    BY <1>1, <2>1
<1>7. ASSUME NEW t \in Tves, NEW r \in issued, Encrypt(t, r)
      PROVE  allocCtr[l] <= allocCtr'[l]
  BY <1>1, <1>7 DEF lineVars, Encrypt
<1>8. QED
  BY <1>1, <1>2, <1>4, <1>5, <1>6, <1>7 DEF Next

LEMMA OrderInit == Init => OrderInv
  BY DEF Init, OrderInv

LEMMA OrderStep == TypeInv /\ TokenInv /\ OrderInv /\ [Next]_vars => OrderInv'
<1> SUFFICES ASSUME TypeInv, TokenInv, OrderInv, [Next]_vars PROVE OrderInv'
  OBVIOUS
<1>1. \A r \in issued : r.line \in Lines /\ r.ctr \in Nat /\ r.epoch \in Nat
  BY DEF TypeInv, Reservation, Epochs
<1>2. CASE issued' = issued
  BY <1>1, <1>2, AllocGrows DEF OrderInv
<1>3. ASSUME NEW t \in Tves, NEW l \in Lines, NEW k \in Token, ReserveWrite(t, l, k)
      PROVE  OrderInv'
  <2> DEFINE n == [line |-> l, epoch |-> currentEpoch', ctr |-> allocCtr[l] + 1,
                   tve |-> t, token |-> k]
  <2>1. issued' = issued \cup {n}
    BY <1>3 DEF ReserveWrite
  <2>2. /\ n.line = l /\ n.ctr = allocCtr[l] + 1 /\ n.epoch = currentEpoch'
        /\ n.ctr \in Nat
    BY DEF TypeInv
  <2> HIDE DEF n
  <2>3. \A r \in issued : r.epoch <= n.epoch
    BY <1>1, <2>2, EpochAdvances DEF TokenInv
  <2>4. \A r \in issued : r.line = n.line => r.ctr <= n.ctr
    BY <2>2 DEF OrderInv
  <2>5. \A r \in issued' : r.ctr <= allocCtr'[r.line] + 1
    BY <1>1, <2>1, <2>2, AllocGrows DEF OrderInv
  <2>6. ASSUME NEW r \in issued', NEW s \in issued', r.line = s.line, r.ctr < s.ctr
        PROVE  r.epoch <= s.epoch
    BY <1>1, <2>1, <2>2, <2>3, <2>4, <2>6 DEF OrderInv
  <2>7. QED
    BY <2>5, <2>6 DEF OrderInv
<1>4. QED
  BY <1>2, <1>3, IssuedByReserve

LEMMA NonceInit == Init => NonceInv
  BY DEF Init, NonceInv

LEMMA NonceStep ==
    ASSUME AtomicReservation
    PROVE  TypeInv /\ TokenInv /\ NonceInv /\ [Next]_vars => NonceInv'
<1> SUFFICES ASSUME TypeInv, TokenInv, NonceInv, [Next]_vars PROVE NonceInv'
  OBVIOUS
<1>1. \A r \in issued : r.line \in Lines /\ r.ctr \in Nat /\ r.epoch \in Nat
  BY DEF TypeInv, Reservation, Epochs
<1>2. ASSUME issued' = issued, allocCtr' = allocCtr,
             currentEpoch' = currentEpoch, epochWrites' = epochWrites
      PROVE  NonceInv'
  BY <1>2 DEF NonceInv
<1>3. CASE Ratchet
  <2>1. UNCHANGED <<issued, allocCtr>> /\ currentEpoch' = currentEpoch + 1
    BY <1>3 DEF Ratchet, AdvanceEpoch, lineVars
  <2>2. \A r \in issued : r.epoch # currentEpoch'
    BY <1>1, <2>1, EpochAdvances DEF TokenInv
  <2>3. QED
    BY <2>1, <2>2 DEF NonceInv
<1>4. ASSUME NEW t \in Tves, NEW l \in Lines, NEW k \in Token, ReserveWrite(t, l, k)
      PROVE  NonceInv'
  <2> DEFINE n == [line |-> l, epoch |-> currentEpoch', ctr |-> allocCtr[l] + 1,
                   tve |-> t, token |-> k]
  <2>1. /\ issued' = issued \cup {n}
        /\ allocCtr' = [allocCtr EXCEPT ![l] = allocCtr[l] + 1]
        /\ epochWrites' = [epochWrites EXCEPT ![currentEpoch'][l] = @ + 1]
    BY <1>4 DEF ReserveWrite, AllocAfterReserve
  <2>2. /\ n.line = l /\ n.ctr = allocCtr[l] + 1 /\ n.epoch = currentEpoch'
        /\ n.ctr \in Nat /\ allocCtr[l] \in Nat
    BY DEF TypeInv
  <2> HIDE DEF n
  <2>3. \A x \in Lines : /\ allocCtr[x] \in Nat
                         /\ allocCtr'[x] = IF x = l THEN allocCtr[l] + 1 ELSE allocCtr[x]
    BY <2>1 DEF TypeInv
  <2>4. currentEpoch' \in Epochs
    BY TypeStep DEF TypeInv
  <2>5. /\ epochWrites[currentEpoch'] \in [Lines -> Nat]
        /\ \A x \in Lines : epochWrites'[currentEpoch'][x] =
              IF x = l THEN epochWrites[currentEpoch'][l] + 1 ELSE epochWrites[currentEpoch'][x]
    BY <2>1, <2>4 DEF TypeInv
  \* A reservation that is in the epoch of the new one was made without an
  \* epoch change, and the guard leaves room in the counter field.
  <2>6. ASSUME NEW r \in issued, r.epoch = currentEpoch'
        PROVE  /\ currentEpoch' = currentEpoch
               /\ epochWrites[currentEpoch][l] + 1 < CtrLimit
    <3>1. currentEpoch' = currentEpoch
      BY <1>1, <2>6, EpochAdvances DEF TokenInv
    <3>2. ~WritesExhausted(l)
      BY <1>4, <3>1, EpochAdvances DEF ReserveWrite, AdvanceEpoch
    <3>3. epochWrites[currentEpoch][l] \in Nat /\ CtrLimit \in Nat
      BY LimitAssumption DEF TypeInv
    <3>4. QED
      BY <3>1, <3>2, <3>3 DEF WritesExhausted
  <2>7. \A r \in issued' : r.ctr <= allocCtr'[r.line]
    BY <1>1, <2>1, <2>2, <2>3 DEF NonceInv
  <2>8. ASSUME NEW r \in issued', NEW s \in issued', r.line = s.line, r.ctr = s.ctr
        PROVE  r = s
    BY <1>1, <2>1, <2>2, <2>3, <2>8 DEF NonceInv
  <2>9. ASSUME NEW r \in issued', r.epoch = currentEpoch'
        PROVE  allocCtr'[r.line] - epochWrites'[currentEpoch'][r.line] < r.ctr
    <3>1. CASE r = n
      BY <2>2, <2>3, <2>5, <3>1
    <3>2. CASE r \in issued
      <4>1. /\ currentEpoch' = currentEpoch /\ r.line \in Lines /\ r.ctr \in Nat
            /\ allocCtr[r.line] - epochWrites[currentEpoch][r.line] < r.ctr
        BY <1>1, <2>6, <2>9, <3>2 DEF NonceInv
      <4>2. QED
        BY <2>3, <2>5, <4>1
    <3>3. QED
      BY <2>1, <3>1, <3>2
  <2>10. ASSUME NEW r \in issued, r.line = l, r.epoch = currentEpoch'
         PROVE  n.ctr - r.ctr < CtrLimit /\ r.ctr - n.ctr < CtrLimit
    <3>1. /\ currentEpoch' = currentEpoch /\ epochWrites[currentEpoch][l] + 1 < CtrLimit
          /\ allocCtr[l] - epochWrites[currentEpoch][l] < r.ctr /\ r.ctr <= allocCtr[l]
      BY <2>6, <2>10 DEF NonceInv
    <3>2. r.ctr \in Nat /\ CtrLimit \in Nat /\ epochWrites[currentEpoch][l] \in Nat
      BY <1>1, <2>5, <3>1, LimitAssumption
    <3>3. QED
      BY <2>2, <3>1, <3>2
  <2>11. n.ctr - n.ctr < CtrLimit
    BY <2>2, LimitAssumption
  <2>12. ASSUME NEW r \in issued', NEW s \in issued', r.line = s.line, r.epoch = s.epoch
         PROVE  r.ctr - s.ctr < CtrLimit
    BY <2>1, <2>2, <2>10, <2>11, <2>12 DEF NonceInv
  <2>13. QED
    BY <2>7, <2>8, <2>9, <2>12 DEF NonceInv
<1>5. ASSUME NEW r \in issued, CommitWrite(r) PROVE NonceInv'
  <2>1. UNCHANGED <<issued, currentEpoch, epochWrites>> /\ allocCtr' = allocCtr
    BY <1>5 DEF CommitWrite, Publish, lineVars
  <2>2. QED
    BY <1>2, <2>1
<1>6. ASSUME NEW r \in issued, AbortWrite(r) PROVE NonceInv'
  BY <1>2, <1>6 DEF AbortWrite, lineVars
<1>7. ASSUME NEW t \in Tves, NEW r \in issued, Encrypt(t, r) PROVE NonceInv'
  BY <1>2, <1>7 DEF Encrypt, keyVars, lineVars
<1>8. CASE RegisterTVE \/ (\E e \in Epochs : Revoke(e)) \/ UNCHANGED vars
  BY <1>2, <1>8 DEF RegisterTVE, Revoke, vars, keyVars, lineVars
<1>9. QED
  BY <1>3, <1>4, <1>5, <1>6, <1>7, <1>8 DEF Next
-----------------------------------------------------------------------------
(* The theorems.                                                           *)

IInv == TypeInv /\ CountInv /\ TokenInv /\ KeyInv /\ OrderInv /\ SealInv

LEMMA Inductive == Spec => []IInv
<1>1. Init => IInv
  BY TypeInit, CountInit, TokenInit, KeyInit, OrderInit, SealInit DEF IInv
<1>2. IInv /\ [Next]_vars => IInv'
  BY TypeStep, CountStep, TokenStep, KeyStep, OrderStep, SealStep DEF IInv
<1>3. QED
  BY <1>1, <1>2, PTL DEF Spec

\* Every variable keeps its type; in particular neither reference count of
\* protocol.py can go below zero.
THEOREM TypeCorrect == Spec => []TypeOK
<1>1. IInv => TypeOK
  BY ExactCounts DEF IInv
<1>2. QED
  BY <1>1, Inductive, PTL

\* refcount and pending_refcount are exact in every reachable state, so the
\* underflow assertions of commit_write and _retire_pending never fire.
THEOREM CountsExact == Spec => []AccountingExact
<1>1. IInv => AccountingExact
  BY ExactCounts DEF IInv
<1>2. QED
  BY <1>1, Inductive, PTL

\* A reservation can be encrypted under and committed for as long as it is
\* pending, whatever ratchets, revocations and partial refusals happen meanwhile.
THEOREM ReservationsUsable == Spec => []PendingUsable
<1>1. IInv => PendingUsable
  BY Usable DEF IInv
<1>2. QED
  BY <1>1, Inductive, PTL

LEMMA Readable == IInv => LiveReadable
<1> SUFFICES ASSUME IInv, NEW l \in Lines, auth[l] # NoVersion
             PROVE  /\ \E r \in issued : /\ r.line = l /\ VersionOf(r) = auth[l]
                                        /\ r.token = store[l] /\ sealed[r.token] > 0
                    /\ \A t \in 1..ntves : handles[t][auth[l].epoch] = "held"
  BY DEF LiveReadable
<1>1. PICK r \in issued : /\ r.line = l /\ VersionOf(r) = auth[l]
                          /\ r.token = store[l] /\ sealed[r.token] > 0
  BY DEF IInv, SealInv
<1>2. auth[l].epoch = r.epoch /\ r.epoch \in 1..currentEpoch
  BY <1>1 DEF VersionOf, IInv, TokenInv, TypeInv, Reservation, Epochs
<1>3. ~Dead(r.epoch)
  BY <1>2, ReferencedNotDead DEF IInv
<1>4. r.epoch \in deviceHandles
  BY <1>2, <1>3 DEF IInv, KeyInv
<1>5. 1..ntves \subseteq Tves
  BY BoundsAssumption DEF IInv, TypeInv, Tves
<1>6. \A t \in 1..ntves : handles[t][r.epoch] = "held"
  BY <1>3, <1>4, <1>5 DEF IInv, KeyInv
<1>7. QED
  BY <1>1, <1>2, <1>6

\* Every registered TVE can decrypt every live line.
THEOREM LinesReadable == Spec => []LiveReadable
BY Readable, Inductive, PTL

\* No TVE, early or late, and not the service, has the key of an erased epoch;
\* the service has that of every other.
THEOREM ErasureComplete == Spec => []ErasedEverywhere
<1>1. IInv => ErasedEverywhere
  BY DEF IInv, KeyInv, ErasedEverywhere, TypeInv
<1>2. QED
  BY <1>1, Inductive, PTL

LEMMA NoncesDiffer == IInv /\ NonceInv => NonceUnique
<1> SUFFICES ASSUME IInv, NonceInv, NEW r \in issued, NEW s \in issued,
                    r.line = s.line, r.epoch = s.epoch,
                    r.ctr % CtrLimit = s.ctr % CtrLimit
             PROVE  r = s
  BY DEF NonceUnique, IInv, SealInv
<1>1. r.ctr - s.ctr < CtrLimit /\ s.ctr - r.ctr < CtrLimit
  BY DEF NonceInv
<1>2. r.ctr \in Nat /\ s.ctr \in Nat
  BY DEF IInv, TypeInv, Reservation
<1>3. r.ctr = s.ctr
  BY <1>1, <1>2, ModuloDistinct, LimitAssumption
<1>4. QED
  BY <1>3 DEF NonceInv

LEMMA NonceInvariant == ASSUME AtomicReservation PROVE Spec => []NonceInv
<1>1. IInv /\ NonceInv /\ [Next]_vars => NonceInv'
  BY NonceStep DEF IInv
<1>2. QED
  BY <1>1, NonceInit, Inductive, PTL DEF Spec

\* With atomic reservation no GCM nonce repeats under one key.
THEOREM NoncesUnique == ASSUME AtomicReservation PROVE Spec => []NonceUnique
BY NoncesDiffer, Inductive, NonceInvariant, PTL

\* A step that changes the authoritative version of a line is a commit of that
\* line that supersedes it.
LEMMA AuthByPublish ==
    ASSUME [Next]_vars, NEW l \in Lines, auth'[l] # auth[l], TypeInv
    PROVE  \E r \in encrypted : r.line = l /\ Supersedes(r) /\ auth'[l] = VersionOf(r)
<1>1. ASSUME NEW r \in issued, CommitWrite(r)
      PROVE  \E s \in encrypted : s.line = l /\ Supersedes(s) /\ auth'[l] = VersionOf(s)
  <2>1. r \in encrypted /\ Supersedes(r) /\ auth' = [auth EXCEPT ![r.line] = VersionOf(r)]
    BY <1>1 DEF CommitWrite, lineVars, Publish
  <2>2. r.line = l /\ auth'[l] = VersionOf(r)
    BY <2>1 DEF TypeInv
  <2>3. QED
    BY <2>1, <2>2
<1>2. ASSUME NEW r \in issued, AbortWrite(r) PROVE FALSE
  BY <1>2 DEF AbortWrite, lineVars
<1>3. ASSUME NEW t \in Tves, NEW r \in issued, Encrypt(t, r) PROVE FALSE
  BY <1>3 DEF Encrypt, lineVars
<1>4. ASSUME NEW t \in Tves, NEW x \in Lines, NEW k \in Token, ReserveWrite(t, x, k)
      PROVE  FALSE
  BY <1>4 DEF ReserveWrite
<1>5. ASSUME RegisterTVE \/ Ratchet \/ (\E e \in Epochs : Revoke(e)) \/ UNCHANGED vars
      PROVE  FALSE
  BY <1>5 DEF RegisterTVE, Ratchet, Revoke, vars, lineVars
<1>6. QED
  BY <1>1, <1>2, <1>3, <1>4, <1>5 DEF Next

\* Neither the counter nor the epoch of a line ever decreases.
THEOREM VersionsAdvance == Spec => NeverRolledBack
<1>1. IInv /\ [Next]_vars =>
        [\A l \in Lines : auth'[l] # auth[l] =>
            auth'[l].ctr > auth[l].ctr /\ auth'[l].epoch >= auth[l].epoch]_vars
  <2> SUFFICES ASSUME IInv, [Next]_vars, NEW l \in Lines, auth'[l] # auth[l]
               PROVE  auth'[l].ctr > auth[l].ctr /\ auth'[l].epoch >= auth[l].epoch
    OBVIOUS
  <2>1. PICK r \in encrypted : r.line = l /\ Supersedes(r) /\ auth'[l] = VersionOf(r)
    BY AuthByPublish DEF IInv
  <2>2. /\ r \in issued /\ r.epoch \in Nat /\ r.ctr \in Nat
        /\ r.ctr > auth[l].ctr /\ auth'[l].ctr = r.ctr /\ auth'[l].epoch = r.epoch
    BY <2>1 DEF IInv, TypeInv, Reservation, Epochs, Supersedes, VersionOf
  <2>3. CASE auth[l] = NoVersion
    BY <2>2, <2>3 DEF NoVersion
  <2>4. CASE auth[l] # NoVersion
    <3>1. PICK s \in issued : s.line = l /\ VersionOf(s) = auth[l]
      BY <2>4 DEF IInv, SealInv
    <3>2. s.ctr = auth[l].ctr /\ s.epoch = auth[l].epoch /\ s.epoch \in Nat /\ s.ctr \in Nat
      <4>1. VersionOf(s).ctr = s.ctr /\ VersionOf(s).epoch = s.epoch
        BY DEF VersionOf
      <4>2. s.epoch \in Nat /\ s.ctr \in Nat
        <5>1. s \in Reservation
          BY DEF IInv, TypeInv
        <5>2. QED
          BY <5>1 DEF Reservation, Epochs
      <4>3. QED
        BY <3>1, <4>1, <4>2
    <3>3. s.epoch <= r.epoch
      <4>1. s.line = r.line /\ s.ctr < r.ctr
        BY <2>1, <2>2, <3>1, <3>2
      <4>2. QED
        BY <2>2, <4>1 DEF IInv, OrderInv
    <3>4. QED
      BY <2>2, <3>2, <3>3
  <2>5. QED
    BY <2>3, <2>4
<1>2. QED
  BY <1>1, Inductive, PTL DEF Spec, NeverRolledBack

\* A reservation that was committed, aborted or expired has no later effect.
THEOREM LateCallsHarmless == Spec => NoLateEffect
<1>1. IInv /\ [Next]_vars =>
        [\A r \in issued : r.token \in consumed =>
            /\ r \notin pending' /\ r.token \in consumed'
            /\ sealed'[r.token] = sealed[r.token]
            /\ store'[r.line] = r.token => store[r.line] = r.token]_vars
  <2> SUFFICES ASSUME IInv, [Next]_vars, NEW r \in issued, r.token \in consumed
               PROVE  /\ r \notin pending' /\ r.token \in consumed'
                      /\ sealed'[r.token] = sealed[r.token]
                      /\ store'[r.line] = r.token => store[r.line] = r.token
    OBVIOUS
  <2>1. \A s \in pending : s.token # r.token
    BY DEF IInv, TokenInv
  <2>2. r \notin pending /\ r.token \in Token /\ r.line \in Lines
    BY <2>1 DEF IInv, TypeInv, Reservation
  <2>3. ASSUME UNCHANGED <<pending, consumed, sealed, store>>
        PROVE  /\ r \notin pending' /\ r.token \in consumed'
               /\ sealed'[r.token] = sealed[r.token]
               /\ store'[r.line] = r.token => store[r.line] = r.token
    BY <2>2, <2>3
  <2>4. ASSUME NEW t \in Tves, NEW l \in Lines, NEW k \in Token, ReserveWrite(t, l, k)
        PROVE  /\ r \notin pending' /\ UNCHANGED <<consumed, sealed, store>>
    BY <2>2, <2>4 DEF ReserveWrite
  <2>5. ASSUME NEW t \in Tves, NEW s \in issued, Encrypt(t, s)
        PROVE  /\ UNCHANGED <<pending, consumed, store>>
               /\ sealed'[r.token] = sealed[r.token]
    <3>1. s \in pending /\ UNCHANGED <<pending, consumed, store>>
          /\ (sealed' = sealed \/ sealed' = [sealed EXCEPT ![s.token] = @ + 1])
      BY <2>5 DEF Encrypt, EncryptionAuthorized, lineVars
    <3>2. QED
      BY <2>1, <2>2, <3>1 DEF IInv, TypeInv
  <2>6. ASSUME NEW s \in pending, RetirePending(s)
        PROVE  r \notin pending' /\ r.token \in consumed'
    BY <2>2, <2>6 DEF RetirePending
  <2>7. ASSUME NEW s \in issued, CommitWrite(s)
        PROVE  /\ r \notin pending' /\ r.token \in consumed' /\ sealed' = sealed
               /\ store'[r.line] = r.token => store[r.line] = r.token
    <3>1. /\ s \in pending /\ RetirePending(s) /\ sealed' = sealed
          /\ store' = store \/ store' = [store EXCEPT ![s.line] = s.token]
      BY <2>7 DEF CommitWrite, Publish, lineVars
    <3>2. store'[r.line] = r.token => store[r.line] = r.token
      BY <2>1, <2>2, <3>1 DEF IInv, TypeInv
    <3>3. QED
      BY <2>6, <3>1, <3>2
  <2>8. ASSUME NEW s \in issued, AbortWrite(s)
        PROVE  /\ r \notin pending' /\ r.token \in consumed'
               /\ UNCHANGED <<sealed, store>>
    BY <2>6, <2>8 DEF AbortWrite, lineVars
  <2>9. CASE RegisterTVE \/ Ratchet \/ (\E e \in Epochs : Revoke(e)) \/ UNCHANGED vars
    BY <2>3, <2>9 DEF RegisterTVE, Ratchet, Revoke, vars, lineVars, resvVars
  <2>10. QED
    BY <2>2, <2>4, <2>5, <2>7, <2>8, <2>9 DEF Next
<1>2. QED
  BY <1>1, Inductive, PTL DEF Spec, NoLateEffect

-----------------------------------------------------------------------------
(* Prompt erasure, when every TVE acknowledges.                            *)

LEMMA RevokedAreGone ==
    ASSUME ~MayRefuse, NEW revoked, NEW device, NEW held, RevokeAll(revoked, device, held)
    PROVE  deviceHandles' \subseteq device /\ revoked \cap deviceHandles' = {}
<1>1. PICK acks \in [revoked -> {ntves}] :
        deviceHandles' = device \ {e \in revoked : acks[e] = ntves}
  BY DEF RevokeAll, Acknowledgements
<1>2. QED
  BY <1>1

LEMMA RetiredAreGone ==
    ASSUME ~MayRefuse, NEW current, NEW live, NEW waiting, NEW device, NEW held,
           TryRetireEpochs(current, live, waiting, device, held)
    PROVE  \A e \in deviceHandles' : e \in device /\ ~Eligible(e, current, live, waiting)
<1> DEFINE revoked == {e \in device : Eligible(e, current, live, waiting)}
<1>1. RevokeAll(revoked, device, held)
  BY DEF TryRetireEpochs
<1>2. \A e \in device : Eligible(e, current, live, waiting) => e \in revoked
  OBVIOUS
<1> HIDE DEF revoked
<1>3. deviceHandles' \subseteq device /\ revoked \cap deviceHandles' = {}
  BY <1>1, RevokedAreGone
<1>4. QED
  BY <1>2, <1>3

LEMMA PromptStep ==
    ASSUME ~MayRefuse
    PROVE  IInv /\ PromptErasure /\ [Next]_vars => PromptErasure'
<1> SUFFICES ASSUME IInv, PromptErasure, [Next]_vars, NEW e \in deviceHandles'
             PROVE  ~Dead(e)'
  BY DEF PromptErasure, Dead
<1>1. TypeInv /\ TypeInv' /\ e \in Epochs
  BY TypeStep DEF IInv, TypeInv
<1>2. \A x \in deviceHandles : ~Dead(x)
  BY DEF PromptErasure, Dead
<1>3. ASSUME UNCHANGED <<currentEpoch, refcount, pendingRefcount, deviceHandles>>
      PROVE  ~Dead(e)'
  BY <1>2, <1>3 DEF Dead, Eligible
<1>4. ASSUME currentEpoch' = currentEpoch,
             TryRetireEpochs(currentEpoch, refcount', pendingRefcount', deviceHandles, handles)
      PROVE  ~Dead(e)'
  <2>1. ~Eligible(e, currentEpoch, refcount', pendingRefcount')
    BY <1>4, RetiredAreGone
  <2>2. QED
    BY <1>4, <2>1 DEF Dead, Eligible
<1>5. ASSUME AdvanceEpoch PROVE ~Eligible(e, currentEpoch', refcount, pendingRefcount)
  BY <1>5, RetiredAreGone DEF AdvanceEpoch
<1>6. ASSUME NEW t \in Tves, NEW l \in Lines, NEW k \in Token, ReserveWrite(t, l, k)
      PROVE  ~Dead(e)'
  <2>1. ~Eligible(e, currentEpoch', refcount, pendingRefcount)
    BY <1>2, <1>5, <1>6 DEF ReserveWrite, keyVars, Dead, Eligible
  <2>2. refcount' = refcount /\ (pendingRefcount'[e] = pendingRefcount[e]
                                 \/ pendingRefcount'[e] = pendingRefcount[e] + 1)
    BY <1>1, <1>6 DEF ReserveWrite, TypeInv
  <2>3. pendingRefcount[e] \in Nat
    BY <1>1, ExactCounts DEF IInv, TypeOK
  <2>4. QED
    BY <2>1, <2>2, <2>3 DEF Dead, Eligible
<1>7. ASSUME NEW r \in issued, CommitWrite(r) PROVE ~Dead(e)'
  <2>1. r.epoch \notin erased
    BY <1>7, Usable DEF CommitWrite, PendingUsable, IInv
  <2>2. QED
    BY <1>4, <1>7, <2>1 DEF CommitWrite
<1>8. ASSUME NEW r \in issued, AbortWrite(r) PROVE ~Dead(e)'
  <2>1. refcount' = refcount
    BY <1>8 DEF AbortWrite, lineVars
  <2>2. QED
    BY <1>4, <1>8, <2>1 DEF AbortWrite
<1>9. CASE Ratchet
  BY <1>5, <1>9 DEF Ratchet, lineVars, resvVars, Dead, Eligible
<1>10. ASSUME NEW x \in Epochs, Revoke(x) PROVE ~Dead(e)'
  <2>1. /\ RevokeAll({x}, deviceHandles, handles)
        /\ UNCHANGED <<currentEpoch, refcount, pendingRefcount>>
    BY <1>10 DEF Revoke, lineVars, resvVars
  <2>2. e \in deviceHandles
    BY <2>1, RevokedAreGone
  <2>3. QED
    BY <1>2, <2>1, <2>2 DEF Dead, Eligible
<1>11. ASSUME NEW t \in Tves, NEW r \in issued, Encrypt(t, r) PROVE ~Dead(e)'
  BY <1>3, <1>11 DEF Encrypt, keyVars, lineVars
<1>12. CASE RegisterTVE \/ UNCHANGED vars
  BY <1>3, <1>12 DEF RegisterTVE, vars, keyVars, lineVars, resvVars
<1>13. QED
  BY <1>6, <1>7, <1>8, <1>9, <1>10, <1>11, <1>12 DEF Next

\* When every TVE acknowledges, no key outlives its last reference past the
\* operation that removed it.
THEOREM ErasurePrompt == ASSUME ~MayRefuse PROVE Spec => []PromptErasure
<1>1. Init => PromptErasure
  BY LimitAssumption DEF Init, PromptErasure, Eligible
<1>2. QED
  BY <1>1, PromptStep, Inductive, PTL DEF Spec

-----------------------------------------------------------------------------
(* The refinement of WriteLedger.                                          *)

\* A reservation as the ledger sees it.
WriteOf(r) == [line |-> r.line, epoch |-> r.epoch, ctr |-> r.ctr]
OpenWrites == {WriteOf(r) : r \in pending}
Versions == [l \in Lines |-> [epoch |-> auth[l].epoch, ctr |-> auth[l].ctr]]

LEMMA LedgerInit == Init => Ledger!Init
BY DEF Init, Ledger!Init, NoVersion

\* What is erased stays erased.
LEMMA ErasedGrows == TypeInv /\ [Next]_vars => erased \subseteq erased'
<1>. SUFFICES ASSUME TypeInv, [Next]_vars PROVE erased \subseteq erased'
  OBVIOUS
<1>1. ASSUME NEW revoked, NEW device, NEW held, RevokeAll(revoked, device, held)
      PROVE  erased \subseteq erased'
  BY <1>1 DEF RevokeAll
<1>2. ASSUME NEW current, NEW live, NEW waiting, NEW device, NEW held,
             TryRetireEpochs(current, live, waiting, device, held)
      PROVE  erased \subseteq erased'
  BY <1>1, <1>2 DEF TryRetireEpochs
<1>3. AdvanceEpoch => erased \subseteq erased'
  BY <1>2 DEF AdvanceEpoch
<1>4. ASSUME NEW t \in Tves, NEW l \in Lines, NEW k \in Token, ReserveWrite(t, l, k)
      PROVE  erased \subseteq erased'
  BY <1>3, <1>4 DEF ReserveWrite, keyVars
<1>5. ASSUME NEW r \in issued, CommitWrite(r) PROVE erased \subseteq erased'
  BY <1>2, <1>5 DEF CommitWrite
<1>6. ASSUME NEW r \in issued, AbortWrite(r) PROVE erased \subseteq erased'
  BY <1>2, <1>6 DEF AbortWrite
<1>7. ASSUME NEW e \in Epochs, Revoke(e) PROVE erased \subseteq erased'
  BY <1>1, <1>7 DEF Revoke
<1>8. ASSUME NEW t \in Tves, NEW r \in issued, Encrypt(t, r) PROVE erased \subseteq erased'
  BY <1>8 DEF Encrypt, keyVars
<1>9. CASE Ratchet
  BY <1>3, <1>9 DEF Ratchet
<1>10. CASE RegisterTVE \/ UNCHANGED vars
  BY <1>10 DEF RegisterTVE, vars, keyVars
<1>11. QED
  BY <1>4, <1>5, <1>6, <1>7, <1>8, <1>9, <1>10 DEF Next

\* What is erased is outside the window and unreferenced.
ErasedClear == \A e \in erased :
    /\ e + RetentionW <= currentEpoch
    /\ \A l \in Lines : auth[l].epoch # e
    /\ \A r \in pending : r.epoch # e

LEMMA ErasedIsClear == IInv => ErasedClear
<1>. SUFFICES ASSUME IInv, NEW e \in erased
              PROVE  /\ e + RetentionW <= currentEpoch
                     /\ \A l \in Lines : auth[l].epoch # e
                     /\ \A r \in pending : r.epoch # e
  BY DEF ErasedClear
<1>1. Dead(e)
  BY DEF IInv, KeyInv
<1>2. e \in Nat \ {0} /\ currentEpoch \in Nat
  BY BoundsAssumption DEF IInv, TypeInv, Epochs
<1>3. e < currentEpoch - RetentionW + 1
  BY <1>1 DEF Dead, Eligible
<1>4. e + RetentionW <= currentEpoch
  BY <1>2, <1>3, LimitAssumption
<1>5. /\ \A r \in pending : ~Dead(r.epoch)
      /\ \A l \in Lines : auth[l] # NoVersion => ~Dead(auth[l].epoch)
  BY ReferencedNotDead DEF IInv
<1>6. ASSUME NEW l \in Lines PROVE auth[l].epoch # e
  <2>1. CASE auth[l] = NoVersion
    BY <1>2, <2>1 DEF NoVersion
  <2>2. QED
    BY <1>1, <1>5, <2>1
<1>7. QED
  BY <1>1, <1>4, <1>5, <1>6

-----------------------------------------------------------------------------
(* What each operation is to the ledger.                                   *)

LEMMA ReserveOpens ==
    ASSUME AtomicReservation, TypeInv, NEW t \in Tves, NEW l \in Lines, NEW k \in Token,
           ReserveWrite(t, l, k)
    PROVE  Ledger!Open(l)
<1>1. allocCtr[l] \in Nat /\ allocCtr' = [allocCtr EXCEPT ![l] = allocCtr[l] + 1]
  BY DEF ReserveWrite, AllocAfterReserve, TypeInv
<1>2. /\ allocCtr'[l] = allocCtr[l] + 1
      /\ allocCtr' = [allocCtr EXCEPT ![l] = allocCtr'[l]]
      /\ allocCtr'[l] > allocCtr[l]
  BY <1>1 DEF TypeInv
<1>3. PICK r : /\ pending' = pending \cup {r}
               /\ WriteOf(r) = [line |-> l, epoch |-> currentEpoch', ctr |-> allocCtr'[l]]
  <2>. DEFINE r == [line |-> l, epoch |-> currentEpoch', ctr |-> allocCtr[l] + 1,
                    tve |-> t, token |-> k]
  <2>1. pending' = pending \cup {r}
    BY DEF ReserveWrite
  <2>2. WriteOf(r) = [line |-> l, epoch |-> currentEpoch', ctr |-> allocCtr'[l]]
    BY <1>2 DEF WriteOf
  <2>3. QED
    BY <2>1, <2>2
<1>4. OpenWrites' = OpenWrites \cup
          {[line |-> l, epoch |-> currentEpoch', ctr |-> allocCtr'[l]]}
  <2>1. OpenWrites' = OpenWrites \cup {WriteOf(r)}
    BY <1>3 DEF OpenWrites
  <2>2. QED
    BY <1>3, <2>1
<1>5. Versions' = Versions
  BY DEF ReserveWrite, Versions
<1>6. QED
  BY <1>2, <1>4, <1>5 DEF Ledger!Open, OpenWrites, WriteOf, Versions

\* Two pending reservations are different writes, so resolving one leaves the
\* writes of the others.
LEMMA ResolveDrops ==
    ASSUME TypeInv, NonceInv, NEW r \in pending, RetirePending(r)
    PROVE  OpenWrites' = OpenWrites \ {WriteOf(r)}
<1>1. \A s \in pending : WriteOf(s) = WriteOf(r) => s = r
  BY DEF WriteOf, TypeInv, NonceInv
<1>2. QED
  BY <1>1 DEF RetirePending, OpenWrites

LEMMA AbortIsDrop ==
    ASSUME TypeInv, NonceInv, NEW r \in issued, AbortWrite(r)
    PROVE  Ledger!Drop(WriteOf(r)) /\ WriteOf(r) \in OpenWrites
<1>1. r \in pending /\ RetirePending(r) /\ allocCtr' = allocCtr /\ auth' = auth
  BY DEF AbortWrite, lineVars
<1>2. OpenWrites' = OpenWrites \ {WriteOf(r)} /\ Versions' = Versions
  BY <1>1, ResolveDrops DEF Versions
<1>3. QED
  BY <1>1, <1>2 DEF Ledger!Drop, OpenWrites, WriteOf, Versions

LEMMA CommitResolves ==
    ASSUME AtomicReservation, TypeInv, NonceInv, NEW r \in issued, CommitWrite(r)
    PROVE  /\ WriteOf(r) \in OpenWrites
           /\ Ledger!Drop(WriteOf(r)) \/ Ledger!Publish(WriteOf(r))
<1>1. r \in pending /\ RetirePending(r)
  BY DEF CommitWrite
<1>2. OpenWrites' = OpenWrites \ {WriteOf(r)} /\ WriteOf(r) \in OpenWrites
  BY <1>1, ResolveDrops DEF OpenWrites
<1>3. CASE UNCHANGED lineVars
  <2>1. allocCtr' = allocCtr /\ Versions' = Versions
    BY <1>3 DEF lineVars, Versions
  <2>2. QED
    BY <1>2, <2>1 DEF Ledger!Drop, OpenWrites, WriteOf, Versions
<1>4. CASE Supersedes(r) /\ Publish(r)
  <2>1. allocCtr' = allocCtr /\ auth' = [auth EXCEPT ![r.line] = VersionOf(r)]
    BY <1>4 DEF Publish
  <2>2. r.line \in Lines
    BY DEF TypeInv, Reservation
  <2>3. Versions' = [Versions EXCEPT ![r.line] = [epoch |-> r.epoch, ctr |-> r.ctr]]
    BY <2>1, <2>2 DEF Versions, VersionOf, TypeInv
  <2>4. WriteOf(r).ctr > Versions[WriteOf(r).line].ctr
    BY <1>4, <2>2 DEF Supersedes, Versions, WriteOf
  <2>5. QED
    BY <1>2, <2>1, <2>3, <2>4 DEF Ledger!Publish, OpenWrites, WriteOf, Versions
<1>5. QED
  BY <1>2, <1>3, <1>4 DEF CommitWrite

LEMMA LedgerStep ==
    ASSUME AtomicReservation
    PROVE  IInv /\ NonceInv /\ ErasedClear' /\ [Next]_vars => [Ledger!Next]_Ledger!vars
<1>. SUFFICES ASSUME IInv, NonceInv, [Next]_vars, ErasedClear'
              PROVE  Ledger!Next
  OBVIOUS
<1>. USE DEF IInv
<1>1. currentEpoch' \in {currentEpoch, currentEpoch + 1}
  BY EpochAdvances
<1>2. erased \subseteq erased' /\ Ledger!Erase
  BY ErasedGrows DEF Ledger!Erase, ErasedClear
<1>3. ASSUME UNCHANGED <<allocCtr, auth, pending>>
      PROVE  UNCHANGED <<allocCtr, Versions, OpenWrites>>
  BY <1>3 DEF Versions, OpenWrites
<1>4. \/ \E l \in Lines : Ledger!Open(l)
      \/ \E w \in OpenWrites : Ledger!Drop(w) \/ Ledger!Publish(w)
      \/ UNCHANGED <<allocCtr, Versions, OpenWrites>>
  <2>1. ASSUME NEW t \in Tves, NEW l \in Lines, NEW k \in Token, ReserveWrite(t, l, k)
        PROVE  Ledger!Open(l)
    BY <2>1, ReserveOpens
  <2>2. ASSUME NEW r \in issued, CommitWrite(r)
        PROVE  \E w \in OpenWrites : Ledger!Drop(w) \/ Ledger!Publish(w)
    BY <2>2, CommitResolves
  <2>3. ASSUME NEW r \in issued, AbortWrite(r)
        PROVE  \E w \in OpenWrites : Ledger!Drop(w) \/ Ledger!Publish(w)
    BY <2>3, AbortIsDrop
  <2>4. ASSUME \/ RegisterTVE \/ Ratchet \/ UNCHANGED vars
               \/ \E t \in Tves, r \in issued : Encrypt(t, r)
               \/ \E e \in Epochs : Revoke(e)
        PROVE  UNCHANGED <<allocCtr, auth, pending>>
    BY <2>4 DEF RegisterTVE, Ratchet, Encrypt, Revoke, vars, lineVars, resvVars
  <2>5. QED
    BY <1>3, <2>1, <2>2, <2>3, <2>4 DEF Next
<1>5. QED
  BY <1>1, <1>2, <1>4 DEF Ledger!Next, OpenWrites, WriteOf, Versions

\* The service implements the ledger: MetadataService of protocol.py keeps the
\* promises of WriteLedger in every interleaving.
THEOREM ServiceImplementsLedger == ASSUME AtomicReservation PROVE Spec => ImplementsWriteLedger
<1>1. IInv /\ NonceInv /\ ErasedClear' /\ [Next]_vars => [Ledger!Next]_Ledger!vars
  BY LedgerStep
<1>2. QED
  BY <1>1, LedgerInit, Inductive, ErasedIsClear, NonceInvariant, PTL
     DEF Spec, ImplementsWriteLedger, Ledger!Spec
=============================================================================
