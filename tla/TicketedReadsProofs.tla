-------------------------- MODULE TicketedReadsProofs --------------------------
(***************************************************************************)
(* TicketedReads is correct and implements FreshMemory, for any lines,     *)
(* TVEs, tokens, epochs, reads, counter width and window.  The invariant   *)
(* of the service is carried over and six facts about reads are added.     *)
(***************************************************************************)
EXTENDS TicketedReads, MetadataServiceProofs

Begun == outstanding \cup {d.read : d \in verified}
Requests == Begun \cup {a.read : a \in accepted}

\* The store holds nothing that was not published, and published tokens belong
\* to reservations.
PublishedInv ==
    /\ \A l \in Lines : store[l] # NoData => store[l] \in published
    /\ \A k \in published : \E r \in issued : r.token = k

\* The version of a write that was published on the line.
HasBeen(l, v) ==
    /\ \E r \in issued : /\ r.line = l /\ VersionOf(r) = v
                         /\ r.token \in published /\ sealed[r.token] > 0
    /\ v.ctr <= auth[l].ctr

TicketInv == \A k \in tickets :
    /\ HasBeen(k.line, k.version)
    /\ k.n <= ridCounter[k.tve]

\* A request id is used once, and never before it is made.
RequestInv ==
    /\ \A rd \in Requests :
          /\ rd.n <= ridCounter[rd.tve] /\ rd.tve <= ntves
          /\ rd.floor <= auth[rd.line].ctr
    /\ \A rd, x \in outstanding : rd.tve = x.tve /\ rd.n = x.n => rd = x
    /\ \A d \in verified : d.read \notin outstanding
    /\ \A d, x \in verified : d.read = x.read => d = x

\* A ticket is issued after its request was made, so it is no older.
FloorInv ==
    /\ \A k \in tickets, rd \in outstanding :
          k.tve = rd.tve /\ k.n = rd.n /\ k.line = rd.line => rd.floor <= k.version.ctr
    /\ \A d \in verified : /\ HasBeen(d.read.line, d.version)
                           /\ d.read.floor <= d.version.ctr

ReadTypes ==
    /\ ridCounter \in [Tves -> 0..MaxReads]
    /\ outstanding \subseteq Read
    /\ tickets \subseteq Ticket
    /\ verified \subseteq [read : Read, version : Version]
    /\ accepted \subseteq [read : Read, token : Token]
    /\ published \subseteq Token
-----------------------------------------------------------------------------
(* What a step of the service does to what reads depend on.                *)

\* A step publishes one encrypted reservation that supersedes its line, or
\* nothing.
LEMMA OnePublication ==
    ASSUME TypeInv, [Next]_vars
    PROVE  \/ UNCHANGED <<auth, store>>
           \/ \E r \in encrypted : /\ Supersedes(r) /\ issued' = issued
                                   /\ auth' = [auth EXCEPT ![r.line] = VersionOf(r)]
                                   /\ store' = [store EXCEPT ![r.line] = r.token]
<1>1. ASSUME NEW r \in issued, CommitWrite(r)
      PROVE  \/ UNCHANGED <<auth, store>>
             \/ /\ r \in encrypted /\ Supersedes(r) /\ issued' = issued
                /\ auth' = [auth EXCEPT ![r.line] = VersionOf(r)]
                /\ store' = [store EXCEPT ![r.line] = r.token]
  BY <1>1 DEF CommitWrite, Publish, lineVars
<1>2. ASSUME \/ RegisterTVE \/ Ratchet \/ UNCHANGED vars
             \/ \E t \in Tves, l \in Lines, k \in Token : ReserveWrite(t, l, k)
             \/ \E t \in Tves, r \in issued : Encrypt(t, r)
             \/ \E r \in issued : AbortWrite(r)
             \/ \E e \in Epochs : Revoke(e)
      PROVE  UNCHANGED <<auth, store>>
  BY <1>2 DEF RegisterTVE, Ratchet, ReserveWrite, Encrypt, AbortWrite, Revoke, vars, lineVars
<1>3. QED
  BY <1>1, <1>2 DEF Next

LEMMA IssuedGrows == ASSUME [Next]_vars PROVE issued \subseteq issued'
BY IssuedByReserve DEF ReserveWrite

LEMMA TvesGrow == ASSUME TypeInv, [Next]_vars PROVE ntves \in Nat /\ ntves' \in Nat /\ ntves <= ntves'
<1>1. ntves \in Nat /\ ntves' \in Nat
  BY TypeStep, BoundsAssumption DEF TypeInv
<1>2. ASSUME \/ Ratchet \/ UNCHANGED vars
             \/ \E t \in Tves, l \in Lines, k \in Token : ReserveWrite(t, l, k)
             \/ \E t \in Tves, r \in issued : Encrypt(t, r)
             \/ \E e \in Epochs : Revoke(e)
      PROVE  ntves' = ntves
  BY <1>2 DEF vars, Ratchet, ReserveWrite, Encrypt, Revoke
<1>3. ASSUME NEW r \in issued, CommitWrite(r) \/ AbortWrite(r) PROVE ntves' = ntves
  BY <1>3 DEF CommitWrite, AbortWrite
<1>4. CASE RegisterTVE
  BY <1>1, <1>4 DEF RegisterTVE
<1>5. QED
  BY <1>1, <1>2, <1>3, <1>4 DEF Next

LEMMA SealedStays ==
    ASSUME TypeInv, [Next]_vars, NEW k \in Token, sealed[k] > 0
    PROVE  sealed'[k] > 0
<1>1. ASSUME NEW t \in Tves, NEW r \in issued, Encrypt(t, r) PROVE sealed'[k] > 0
  <2>1. sealed' = sealed \/ sealed' = [sealed EXCEPT ![r.token] = @ + 1]
    BY <1>1 DEF Encrypt
  <2>2. QED
    BY <2>1 DEF TypeInv
<1>2. ASSUME \/ RegisterTVE \/ Ratchet \/ UNCHANGED vars
             \/ \E t \in Tves, l \in Lines, x \in Token : ReserveWrite(t, l, x)
             \/ \E r \in issued : CommitWrite(r) \/ AbortWrite(r)
             \/ \E e \in Epochs : Revoke(e)
      PROVE  sealed' = sealed
  BY <1>2 DEF RegisterTVE, Ratchet, ReserveWrite, CommitWrite, AbortWrite, Revoke, vars
<1>3. QED
  BY <1>1, <1>2 DEF Next

LEMMA CounterGrows ==
    ASSUME TypeInv, [Next]_vars, NEW l \in Lines
    PROVE  auth[l].ctr \in Nat /\ auth'[l].ctr \in Nat /\ auth[l].ctr <= auth'[l].ctr
<1>1. auth[l].ctr \in Nat /\ auth'[l].ctr \in Nat
  BY TypeStep DEF TypeInv, Version, NoVersion
<1>2. ASSUME auth'[l] # auth[l] PROVE auth[l].ctr <= auth'[l].ctr
  <2>1. PICK r \in encrypted : r.line = l /\ Supersedes(r) /\ auth'[l] = VersionOf(r)
    BY <1>2, AuthByPublish
  <2>2. auth'[l].ctr > auth[l].ctr
    BY <2>1 DEF Supersedes, VersionOf
  <2>3. QED
    BY <1>1, <2>2
<1>3. QED
  BY <1>1, <1>2

\* The line's own version is one.
LEMMA CurrentHasBeen ==
    ASSUME IInv, PublishedInv, NEW l \in Lines, auth[l] # NoVersion
    PROVE  HasBeen(l, auth[l]) /\ auth[l] \in Version
<1>1. PICK r \in issued : /\ r.line = l /\ VersionOf(r) = auth[l]
                          /\ r.token = store[l] /\ sealed[r.token] > 0
  BY DEF IInv, SealInv
<1>2. r.token # NoData
  BY TokenAssumption DEF IInv, TypeInv, Reservation
<1>3. auth[l].ctr \in Nat /\ auth[l] \in Version
  BY DEF IInv, TypeInv, Version
<1>4. QED
  BY <1>1, <1>2, <1>3 DEF HasBeen, PublishedInv

\* What has been a version stays one.
LEMMA HasBeenStays ==
    ASSUME TypeInv, [Next]_vars, published \subseteq published',
           NEW l \in Lines, NEW v, v.ctr \in Nat, HasBeen(l, v)
    PROVE  HasBeen(l, v)'
<1>1. PICK r \in issued : /\ r.line = l /\ VersionOf(r) = v
                          /\ r.token \in published /\ sealed[r.token] > 0
  BY DEF HasBeen
<1>2. r.token \in Token
  BY DEF TypeInv, Reservation
<1>3. r \in issued' /\ r.token \in published' /\ sealed'[r.token] > 0
  BY <1>1, <1>2, IssuedGrows, SealedStays
<1>4. v.ctr <= auth'[l].ctr
  BY CounterGrows DEF HasBeen
<1>5. VersionOf(r)' = v
  BY <1>1 DEF VersionOf
<1>6. QED
  BY <1>1, <1>3, <1>4, <1>5 DEF HasBeen
-----------------------------------------------------------------------------
(* The invariant.                                                          *)

ReadStep ==
    \/ \E t \in Tves, l \in Lines : BeginRead(t, l)
    \/ \E t \in Tves, n \in ReadId, l \in Lines : ReadTicketed(t, n, l)
    \/ \E k \in tickets, t \in Tves, l \in Lines, rd \in outstanding :
          VerifyTicket(k, t, l, rd)
    \/ \E rd \in outstanding : CancelRead(rd)
    \/ \E d \in verified, r \in issued : Accept(d, r)
    \/ \E d \in verified : Reject(d)

\* Every step is a step of the service, for the reads possibly a stutter, and
\* what was published stays published.
LEMMA StepShape ==
    ASSUME [ReadsNext]_allVars
    PROVE  /\ [Next]_vars
           /\ published \subseteq published'
           /\ ServiceStep \/ ReadStep \/ UNCHANGED allVars
           /\ ~ServiceStep => UNCHANGED <<vars, published>>
<1>1. ReadStep => UNCHANGED <<vars, published>>
  BY DEF ReadStep, BeginRead, ReadTicketed, VerifyTicket, CancelRead, Accept, Reject
<1>2. ServiceStep \/ ReadStep \/ UNCHANGED allVars
  BY DEF ReadsNext, ReadStep
<1>3. ServiceStep => Next /\ published \subseteq published'
  BY DEF ServiceStep
<1>4. UNCHANGED allVars => UNCHANGED <<vars, published>>
  BY DEF allVars
<1>5. QED
  BY <1>1, <1>2, <1>3, <1>4

LEMMA PublishedStep ==
    ASSUME IInv, PublishedInv, [ReadsNext]_allVars
    PROVE  PublishedInv'
<1>1. CASE ServiceStep
  <2>1. published' = published \cup ({store'[l] : l \in Lines} \ {NoData})
    BY <1>1 DEF ServiceStep
  <2>2. issued \subseteq issued'
    BY StepShape, IssuedGrows
  <2>3. ASSUME NEW l \in Lines, store'[l] # NoData
        PROVE  \E r \in issued' : r.token = store'[l]
    <3>1. CASE UNCHANGED <<auth, store>>
      BY <2>2, <2>3, <3>1 DEF PublishedInv
    <3>2. CASE \E r \in encrypted : store' = [store EXCEPT ![r.line] = r.token]
      <4>1. PICK r \in encrypted : store' = [store EXCEPT ![r.line] = r.token]
        BY <3>2
      <4>2. r \in issued /\ (store'[l] = store[l] \/ store'[l] = r.token)
        BY <4>1 DEF IInv, TypeInv
      <4>3. QED
        BY <2>2, <2>3, <4>2 DEF PublishedInv
    <3>3. QED
      BY <3>1, <3>2, StepShape, OnePublication DEF IInv
  <2>4. QED
    BY <2>1, <2>2, <2>3 DEF PublishedInv
<1>2. CASE UNCHANGED <<vars, published>>
  BY <1>2 DEF PublishedInv, vars, lineVars
<1>3. QED
  BY <1>1, <1>2, StepShape

LEMMA ReadTypesStep ==
    ASSUME IInv, ReadTypes, PublishedInv, [ReadsNext]_allVars
    PROVE  ReadTypes'
<1>1. CASE ServiceStep
  <2>1. UNCHANGED readVars /\ published' = published \cup ({store'[l] : l \in Lines} \ {NoData})
    BY <1>1 DEF ServiceStep
  <2>2. store' \in [Lines -> Token \cup {NoData}]
    BY TypeStep, StepShape DEF TypeInv, IInv
  <2>3. QED
    BY <2>1, <2>2 DEF ReadTypes, readVars
<1>2. ASSUME NEW t \in Tves, NEW l \in Lines, BeginRead(t, l) PROVE ReadTypes'
  <2>1. ridCounter[t] + 1 \in 0..MaxReads /\ auth[l].ctr \in Nat
    BY <1>2, StepShape, CounterGrows, MaxReadsAssumption DEF BeginRead, ReadId, IInv
  <2>2. [tve |-> t, n |-> ridCounter[t] + 1, line |-> l, floor |-> auth[l].ctr] \in Read
    BY <1>2, <2>1 DEF BeginRead, Read
  <2>3. QED
    BY <1>2, <2>1, <2>2 DEF BeginRead, ReadTypes
<1>3. ASSUME NEW t \in Tves, NEW n \in ReadId, NEW l \in Lines, ReadTicketed(t, n, l)
      PROVE  ReadTypes'
  <2>1. auth[l] \in Version
    BY <1>3, CurrentHasBeen DEF ReadTicketed
  <2>2. [line |-> l, version |-> auth[l], tve |-> t, n |-> n] \in Ticket
    BY <2>1 DEF Ticket
  <2>3. QED
    BY <1>3, <2>2 DEF ReadTicketed, ReadTypes
<1>4. ASSUME NEW k \in tickets, NEW t \in Tves, NEW l \in Lines, NEW rd \in outstanding,
             VerifyTicket(k, t, l, rd)
      PROVE  ReadTypes'
  BY <1>4 DEF VerifyTicket, ReadTypes, Ticket
<1>5. ASSUME NEW rd \in outstanding, CancelRead(rd) PROVE ReadTypes'
  BY <1>5 DEF CancelRead, ReadTypes
<1>6. ASSUME NEW d \in verified, NEW r \in issued, Accept(d, r) PROVE ReadTypes'
  <2>1. r.token \in Token /\ d.read \in Read
    BY DEF IInv, TypeInv, Reservation, ReadTypes
  <2>2. QED
    BY <1>6, <2>1 DEF Accept, ReadTypes
<1>7. ASSUME NEW d \in verified, Reject(d) PROVE ReadTypes'
  BY <1>7 DEF Reject, ReadTypes
<1>8. CASE UNCHANGED allVars
  BY <1>8 DEF ReadTypes, allVars, readVars
<1>9. QED
  BY <1>1, <1>2, <1>3, <1>4, <1>5, <1>6, <1>7, <1>8, StepShape DEF ReadStep

LEMMA RequestsGrow ==
    ASSUME IInv, ReadTypes, PublishedInv, [ReadsNext]_allVars, NEW x \in Tves
    PROVE  /\ ridCounter[x] \in Nat /\ ridCounter'[x] \in Nat
           /\ ridCounter[x] <= ridCounter'[x]
<1>1. ridCounter[x] \in Nat /\ ridCounter'[x] \in Nat
  BY ReadTypesStep, MaxReadsAssumption DEF ReadTypes
<1>2. ASSUME NEW t \in Tves, NEW l \in Lines, BeginRead(t, l)
      PROVE  ridCounter[x] <= ridCounter'[x]
  BY <1>1, <1>2 DEF BeginRead, ReadTypes
<1>3. ASSUME ReadStep, \A t \in Tves, l \in Lines : ~BeginRead(t, l)
      PROVE  ridCounter' = ridCounter
  BY <1>3 DEF ReadStep, ReadTicketed, VerifyTicket, CancelRead, Accept, Reject
<1>4. ServiceStep \/ UNCHANGED allVars => ridCounter' = ridCounter
  BY DEF ServiceStep, allVars, readVars
<1>5. QED
  BY <1>1, <1>2, <1>3, <1>4, StepShape

LEMMA TicketStep ==
    ASSUME IInv, ReadTypes, PublishedInv, TicketInv, [ReadsNext]_allVars
    PROVE  TicketInv'
<1>1. ASSUME NEW l \in Lines, NEW v, v.ctr \in Nat, HasBeen(l, v) PROVE HasBeen(l, v)'
  BY <1>1, StepShape, HasBeenStays DEF IInv
<1>2. ASSUME NEW k \in tickets PROVE HasBeen(k.line, k.version)'
  BY <1>1 DEF TicketInv, ReadTypes, Ticket, Version
<1>4. ASSUME NEW k \in tickets PROVE k.n <= ridCounter'[k.tve]
  BY RequestsGrow DEF TicketInv, ReadTypes, Ticket, ReadId
<1>5. ASSUME NEW t \in Tves, NEW n \in ReadId, NEW l \in Lines, ReadTicketed(t, n, l)
      PROVE  TicketInv'
  <2>1. PICK k : k = [line |-> l, version |-> auth[l], tve |-> t, n |-> n]
    OBVIOUS
  <2>2. /\ tickets' = tickets \cup {k} /\ ridCounter' = ridCounter
        /\ n <= ridCounter[t] /\ auth[l] # NoVersion
    BY <1>5, <2>1 DEF ReadTicketed
  <2>3. HasBeen(k.line, k.version) /\ k.line \in Lines /\ k.version \in Version
    BY <2>1, <2>2, CurrentHasBeen
  <2>4. HasBeen(k.line, k.version)'
    BY <1>1, <2>3 DEF Version
  <2>5. k.n <= ridCounter'[k.tve]
    BY <2>1, <2>2
  <2>6. QED
    BY <1>2, <1>4, <2>2, <2>4, <2>5 DEF TicketInv
<1>6. ASSUME tickets' = tickets PROVE TicketInv'
  BY <1>2, <1>4, <1>6 DEF TicketInv
<1>7. ASSUME ReadStep, \A t \in Tves, n \in ReadId, l \in Lines : ~ReadTicketed(t, n, l)
      PROVE  tickets' = tickets
  BY <1>7 DEF ReadStep, BeginRead, VerifyTicket, CancelRead, Accept, Reject
<1>8. ServiceStep \/ UNCHANGED allVars => tickets' = tickets
  BY DEF ServiceStep, allVars, readVars
<1>9. QED
  BY <1>5, <1>6, <1>7, <1>8, StepShape

\* A verified read has still begun and not ended.
LEMMA VerifyKeepsBegun ==
    ASSUME NEW k \in tickets, NEW t \in Tves, NEW l \in Lines, NEW rd \in outstanding,
           VerifyTicket(k, t, l, rd)
    PROVE  Begun' = Begun
<1>1. PICK d : d = [read |-> rd, version |-> k.version]
  OBVIOUS
<1>2. outstanding' = outstanding \ {rd} /\ verified' = verified \cup {d} /\ d.read = rd
  BY <1>1 DEF VerifyTicket
<1>3. {x.read : x \in verified'} = {x.read : x \in verified} \cup {rd}
  BY <1>2
<1>4. QED
  BY <1>2, <1>3 DEF Begun

LEMMA RequestStep ==
    ASSUME IInv, ReadTypes, PublishedInv, RequestInv, [ReadsNext]_allVars
    PROVE  RequestInv'
<1>1. Requests \subseteq Read
  BY DEF Requests, Begun, ReadTypes
<1>2. ASSUME NEW rd \in Requests
      PROVE  /\ rd.n <= ridCounter'[rd.tve] /\ rd.tve <= ntves'
             /\ rd.floor <= auth'[rd.line].ctr
  <2>1. /\ rd.tve \in Tves /\ rd.tve \in Nat /\ rd.n \in Nat
        /\ rd.line \in Lines /\ rd.floor \in Nat
    BY <1>1 DEF Read, Tves, ReadId
  <2>2. rd.n <= ridCounter[rd.tve] /\ rd.tve <= ntves /\ rd.floor <= auth[rd.line].ctr
    BY DEF RequestInv
  <2>3. rd.n <= ridCounter'[rd.tve]
    BY <2>1, <2>2, RequestsGrow
  <2>4. rd.tve <= ntves'
    BY <2>1, <2>2, StepShape, TvesGrow DEF IInv
  <2>5. rd.floor <= auth'[rd.line].ctr
    BY <2>1, <2>2, StepShape, CounterGrows DEF IInv
  <2>6. QED
    BY <2>3, <2>4, <2>5
<1>3. ASSUME NEW t \in Tves, NEW l \in Lines, BeginRead(t, l) PROVE RequestInv'
  <2>1. PICK rd : rd = [tve |-> t, n |-> ridCounter[t] + 1, line |-> l, floor |-> auth[l].ctr]
    OBVIOUS
  <2>2. /\ outstanding' = outstanding \cup {rd} /\ UNCHANGED <<verified, accepted, auth, ntves>>
        /\ t <= ntves /\ ridCounter'[t] = ridCounter[t] + 1
    BY <1>3, <2>1 DEF BeginRead, vars, lineVars, ReadTypes
  <2>3. Requests' = Requests \cup {rd}
    BY <2>2 DEF Requests, Begun
  <2>4. ridCounter[t] \in Nat /\ auth[l].ctr \in Nat
    BY RequestsGrow, StepShape, CounterGrows DEF IInv
  <2>5. rd.n <= ridCounter'[rd.tve] /\ rd.tve <= ntves' /\ rd.floor <= auth'[rd.line].ctr
    BY <2>1, <2>2, <2>4
  <2>6. ASSUME NEW x \in Requests PROVE ~(x.tve = rd.tve /\ x.n = rd.n)
    <3>1. x.n <= ridCounter[x.tve] /\ x.n \in Nat
      BY <1>1 DEF RequestInv, Read, ReadId
    <3>2. QED
      BY <2>1, <2>4, <3>1
  <2>7. /\ \A x \in outstanding : x \in Requests
        /\ \A d \in verified : d.read \in Requests
    BY DEF Requests, Begun
  <2>8. QED
    BY <1>2, <2>2, <2>3, <2>5, <2>6, <2>7 DEF RequestInv
<1>4. ASSUME Requests' \subseteq Requests, outstanding' \subseteq outstanding,
             verified' \subseteq verified
      PROVE  RequestInv'
  BY <1>2, <1>4 DEF RequestInv
<1>5. ASSUME NEW k \in tickets, NEW t \in Tves, NEW l \in Lines, NEW rd \in outstanding,
             VerifyTicket(k, t, l, rd)
      PROVE  RequestInv'
  <2>1. /\ outstanding' = outstanding \ {rd} /\ accepted' = accepted
        /\ verified' = verified \cup {[read |-> rd, version |-> k.version]}
    BY <1>5 DEF VerifyTicket
  <2>2. Requests' = Requests
    BY <1>5, <2>1, VerifyKeepsBegun DEF Requests
  <2>3. \A d \in verified : d.read # rd
    BY DEF RequestInv
  <2>4. QED
    BY <1>2, <2>1, <2>2, <2>3 DEF RequestInv
<1>6. ASSUME NEW rd \in outstanding, CancelRead(rd) PROVE RequestInv'
  BY <1>4, <1>6 DEF CancelRead, Requests, Begun
<1>7. ASSUME NEW d \in verified, NEW r \in issued, Accept(d, r) PROVE RequestInv'
  <2>1. /\ verified' = verified \ {d} /\ outstanding' = outstanding
        /\ accepted' = accepted \cup {[read |-> d.read, token |-> r.token]}
    BY <1>7 DEF Accept
  <2>2. Requests' \subseteq Requests
    BY <2>1 DEF Requests, Begun
  <2>3. QED
    BY <1>4, <2>1, <2>2
<1>8. ASSUME NEW d \in verified, Reject(d) PROVE RequestInv'
  BY <1>4, <1>8 DEF Reject, Requests, Begun
<1>9. ASSUME NEW t \in Tves, NEW n \in ReadId, NEW l \in Lines, ReadTicketed(t, n, l)
      PROVE  RequestInv'
  BY <1>4, <1>9 DEF ReadTicketed, Requests, Begun
<1>10. CASE ServiceStep \/ UNCHANGED allVars
  BY <1>4, <1>10 DEF ServiceStep, allVars, readVars, Requests, Begun
<1>11. QED
  BY <1>3, <1>5, <1>6, <1>7, <1>8, <1>9, <1>10, StepShape DEF ReadStep

LEMMA FloorStep ==
    ASSUME IInv, ReadTypes, PublishedInv, TicketInv, RequestInv, FloorInv,
           [ReadsNext]_allVars
    PROVE  FloorInv'
<1>1. ASSUME NEW l \in Lines, NEW v, v.ctr \in Nat, HasBeen(l, v) PROVE HasBeen(l, v)'
  BY <1>1, StepShape, HasBeenStays DEF IInv
<1>2. ASSUME NEW d \in verified
      PROVE  HasBeen(d.read.line, d.version)' /\ d.read.floor <= d.version.ctr
  BY <1>1 DEF FloorInv, ReadTypes, Read, Version
<1>3. ASSUME NEW t \in Tves, NEW l \in Lines, BeginRead(t, l) PROVE FloorInv'
  <2>1. PICK rd : rd = [tve |-> t, n |-> ridCounter[t] + 1, line |-> l, floor |-> auth[l].ctr]
    OBVIOUS
  <2>2. outstanding' = outstanding \cup {rd} /\ UNCHANGED <<tickets, verified>>
    BY <1>3, <2>1 DEF BeginRead
  <2>3. ASSUME NEW k \in tickets PROVE ~(k.tve = rd.tve /\ k.n = rd.n)
    <3>1. k.n <= ridCounter[k.tve] /\ k.n \in Nat
      BY DEF TicketInv, ReadTypes, Ticket, ReadId
    <3>2. ridCounter[t] \in Nat
      BY RequestsGrow
    <3>3. QED
      BY <2>1, <3>1, <3>2
  <2>4. QED
    BY <1>2, <2>2, <2>3 DEF FloorInv
<1>4. ASSUME NEW t \in Tves, NEW n \in ReadId, NEW l \in Lines, ReadTicketed(t, n, l)
      PROVE  FloorInv'
  <2>1. PICK k : k = [line |-> l, version |-> auth[l], tve |-> t, n |-> n]
    OBVIOUS
  <2>2. tickets' = tickets \cup {k} /\ UNCHANGED <<outstanding, verified>>
    BY <1>4, <2>1 DEF ReadTicketed
  <2>3. \A rd \in outstanding : rd.floor <= auth[rd.line].ctr
    BY DEF RequestInv, Requests, Begun
  <2>4. QED
    BY <1>2, <2>1, <2>2, <2>3 DEF FloorInv
<1>5. ASSUME NEW k \in tickets, NEW t \in Tves, NEW l \in Lines, NEW rd \in outstanding,
             VerifyTicket(k, t, l, rd)
      PROVE  FloorInv'
  <2>1. PICK d : d = [read |-> rd, version |-> k.version]
    OBVIOUS
  <2>2. /\ outstanding' \subseteq outstanding /\ tickets' = tickets
        /\ verified' = verified \cup {d}
    BY <1>5, <2>1 DEF VerifyTicket
  <2>3. k.line = rd.line /\ k.tve = rd.tve /\ k.n = rd.n
    BY <1>5 DEF VerifyTicket, TicketMatches
  <2>4. HasBeen(d.read.line, d.version) /\ d.read.floor <= d.version.ctr
    BY <2>1, <2>3 DEF TicketInv, FloorInv
  <2>5. d.read.line \in Lines /\ d.version.ctr \in Nat
    BY <2>1 DEF ReadTypes, Read, Ticket, Version
  <2>6. HasBeen(d.read.line, d.version)'
    BY <1>1, <2>4, <2>5
  <2>7. QED
    BY <1>2, <2>2, <2>4, <2>6 DEF FloorInv
<1>6. ASSUME tickets' = tickets, outstanding' \subseteq outstanding, verified' \subseteq verified
      PROVE  FloorInv'
  BY <1>2, <1>6 DEF FloorInv
<1>7. ASSUME \/ \E rd \in outstanding : CancelRead(rd)
             \/ \E d \in verified, r \in issued : Accept(d, r)
             \/ \E d \in verified : Reject(d)
      PROVE  FloorInv'
  BY <1>6, <1>7 DEF CancelRead, Accept, Reject
<1>8. CASE ServiceStep \/ UNCHANGED allVars
  BY <1>6, <1>8 DEF ServiceStep, allVars, readVars
<1>9. QED
  BY <1>3, <1>4, <1>5, <1>7, <1>8, StepShape DEF ReadStep

-----------------------------------------------------------------------------
(* What a read returns.                                                    *)

\* The ciphertext that opens under a verified version is the one that was
\* published as that version: no other has its key, nonce and AAD.
LEMMA OpenedIsVerified ==
    ASSUME IInv, NonceInv, ReadTypes, FloorInv, NEW d \in verified, NEW r \in issued,
           Opens(d.read.tve, d.read.line, d.version, r)
    PROVE  /\ r.token \in published /\ r.line = d.read.line /\ r.ctr = d.version.ctr
           /\ d.read.floor <= r.ctr /\ r.ctr <= auth[r.line].ctr
<1>1. PICK s \in issued : /\ s.line = d.read.line /\ VersionOf(s) = d.version
                          /\ s.token \in published /\ sealed[s.token] > 0
  BY DEF FloorInv, HasBeen
<1>2. s.epoch = d.version.epoch /\ s.ctr = d.version.ctr
  BY <1>1 DEF VersionOf
<1>3. NonceUnique
  BY NoncesDiffer
<1>4. r = s
  BY <1>1, <1>2, <1>3 DEF Opens, NonceUnique
<1>5. QED
  BY <1>1, <1>2, <1>4 DEF FloorInv, HasBeen

LEMMA FreshStep ==
    ASSUME IInv, NonceInv, ReadTypes, PublishedInv, FloorInv, FreshRead,
           [ReadsNext]_allVars
    PROVE  FreshRead'
<1>1. ASSUME NEW a, a \in accepted
      PROVE  /\ a.token \in published'
             /\ \E r \in issued' : /\ r.token = a.token
                                   /\ r.line = a.read.line
                                   /\ r.ctr >= a.read.floor
                                   /\ r.ctr <= auth'[r.line].ctr
  <2>1. PICK r \in issued : /\ r.token = a.token /\ r.line = a.read.line
                            /\ r.ctr >= a.read.floor /\ r.ctr <= auth[r.line].ctr
    BY <1>1 DEF FreshRead
  <2>2. r.line \in Lines /\ r.ctr \in Nat
    BY DEF IInv, TypeInv, Reservation
  <2>3. r \in issued' /\ r.ctr <= auth'[r.line].ctr
    BY <2>1, <2>2, StepShape, IssuedGrows, CounterGrows DEF IInv
  <2>4. QED
    BY <1>1, <2>1, <2>3, StepShape DEF FreshRead
<1>2. ASSUME NEW d \in verified, NEW r \in issued, Accept(d, r) PROVE FreshRead'
  <2>1. PICK a : a = [read |-> d.read, token |-> r.token]
    OBVIOUS
  <2>2. /\ accepted' = accepted \cup {a} /\ Opens(d.read.tve, d.read.line, d.version, r)
        /\ UNCHANGED <<published, issued, auth>>
    BY <1>2, <2>1 DEF Accept, vars, lineVars
  <2>3. r.ctr \in Nat /\ d.read.floor \in Nat
    BY DEF IInv, TypeInv, Reservation, ReadTypes, Read
  <2>4. /\ a.token \in published'
        /\ \E x \in issued' : /\ x.token = a.token
                              /\ x.line = a.read.line
                              /\ x.ctr >= a.read.floor
                              /\ x.ctr <= auth'[x.line].ctr
    BY <2>1, <2>2, <2>3, OpenedIsVerified
  <2>5. QED
    BY <1>1, <2>2, <2>4 DEF FreshRead
<1>3. ASSUME ReadStep, \A d \in verified, r \in issued : ~Accept(d, r)
      PROVE  accepted' = accepted
  BY <1>3 DEF ReadStep, BeginRead, ReadTicketed, VerifyTicket, CancelRead, Reject
<1>4. ServiceStep \/ UNCHANGED allVars => accepted' = accepted
  BY DEF ServiceStep, allVars, readVars
<1>5. accepted' = accepted => FreshRead'
  BY <1>1 DEF FreshRead
<1>6. QED
  BY <1>2, <1>3, <1>4, <1>5, StepShape

RInv == IInv /\ ReadTypes /\ PublishedInv /\ TicketInv /\ RequestInv /\ FloorInv

LEMMA ReadsInductive == ReadsSpec => []RInv
<1>1. ReadsInit => RInv
  <2>1. ReadsInit => IInv
    BY TypeInit, CountInit, TokenInit, KeyInit, OrderInit, SealInit DEF ReadsInit, IInv
  <2>2. ReadsInit => ReadTypes /\ PublishedInv /\ TicketInv /\ RequestInv /\ FloorInv
    BY MaxReadsAssumption DEF ReadsInit, Init, ReadTypes, PublishedInv, TicketInv,
       RequestInv, Requests, Begun, FloorInv
  <2>3. QED
    BY <2>1, <2>2 DEF RInv
<1>2. RInv /\ [ReadsNext]_allVars => RInv'
  <2>. SUFFICES ASSUME RInv, [ReadsNext]_allVars PROVE RInv'
    OBVIOUS
  <2>1. IInv'
    BY StepShape, TypeStep, CountStep, TokenStep, KeyStep, OrderStep, SealStep DEF RInv, IInv
  <2>2. QED
    BY <2>1, ReadTypesStep, PublishedStep, TicketStep, RequestStep, FloorStep DEF RInv
<1>3. QED
  BY <1>1, <1>2, PTL DEF ReadsSpec

LEMMA ReadsNonces == ASSUME AtomicReservation PROVE ReadsSpec => []NonceInv
<1>1. ReadsInit => NonceInv
  BY NonceInit DEF ReadsInit
<1>2. RInv /\ NonceInv /\ [ReadsNext]_allVars => NonceInv'
  BY StepShape, NonceStep DEF RInv, IInv
<1>3. QED
  BY <1>1, <1>2, ReadsInductive, PTL DEF ReadsSpec

\* The states of the read path have their types: in particular no ticket is
\* ever issued for a line that was never written.
THEOREM ReadsTyped == ReadsSpec => []ReadsTypeOK
<1>1. RInv => ReadsTypeOK
  BY ExactCounts DEF RInv, IInv, ReadTypes, ReadsTypeOK
<1>2. QED
  BY <1>1, ReadsInductive, PTL

\* protocol_read returns only content that was committed on its line and was
\* current at some moment since the read began.
THEOREM ReadsFresh == ASSUME AtomicReservation PROVE ReadsSpec => []FreshRead
<1>1. ReadsInit => FreshRead
  BY DEF ReadsInit, FreshRead
<1>2. RInv /\ NonceInv /\ FreshRead /\ [ReadsNext]_allVars => FreshRead'
  BY FreshStep DEF RInv
<1>3. QED
  BY <1>1, <1>2, ReadsInductive, ReadsNonces, PTL DEF ReadsSpec

\* A read that no write overtook opens what the store holds: the key of its
\* epoch has not been dropped meanwhile.
THEOREM UnracedReadsOpen == ReadsSpec => []UnracedReadOpens
<1>1. RInv => UnracedReadOpens
  <2>. SUFFICES ASSUME RInv, NEW d \in verified, d.version = auth[d.read.line]
                PROVE  \E r \in issued :
                          /\ r.token = store[d.read.line]
                          /\ Opens(d.read.tve, d.read.line, d.version, r)
    BY DEF UnracedReadOpens
  <2>. DEFINE l == d.read.line
  <2>1. l \in Lines /\ auth[l] # NoVersion /\ d.read.tve \in 1..ntves
    <3>1. d.read \in Read /\ d.version \in Version /\ d.read \in Requests
      BY DEF RInv, ReadTypes, Requests, Begun
    <3>2. d.read.tve <= ntves /\ d.version.epoch # 0
      BY <3>1 DEF RInv, RequestInv, Version, Epochs
    <3>3. QED
      BY <3>1, <3>2 DEF Read, Tves, NoVersion, RInv, IInv, TypeInv
  <2>2. PICK r \in issued : /\ r.line = l /\ VersionOf(r) = auth[l]
                            /\ r.token = store[l] /\ sealed[r.token] > 0
    BY <2>1 DEF RInv, IInv, SealInv
  <2>3. handles[d.read.tve][auth[l].epoch] = "held"
    BY <2>1, Readable DEF RInv, LiveReadable
  <2>4. r.epoch = d.version.epoch /\ r.ctr = d.version.ctr /\ r.tve = d.version.writer
    BY <2>2 DEF VersionOf
  <2>5. QED
    BY <2>2, <2>3, <2>4 DEF Opens
<1>2. QED
  BY <1>1, ReadsInductive, PTL

-----------------------------------------------------------------------------
(* The refinement of FreshMemory.                                          *)

Current == [l \in Lines |-> auth[l].ctr]
Written == {<<r.line, r.ctr>> : r \in {x \in issued : x.token \in published}}
VersionRead(k) == (CHOOSE r \in issued : r.token = k).ctr
Returned == {[read |-> a.read, version |-> VersionRead(a.token)] : a \in accepted}

LEMMA ReadVersion ==
    ASSUME TokenInv, NEW r \in issued PROVE VersionRead(r.token) = r.ctr
<1>1. (CHOOSE x \in issued : x.token = r.token) = r
  BY DEF TokenInv
<1>2. QED
  BY <1>1 DEF VersionRead

\* A step of the service publishes one larger version of one line, or nothing.
LEMMA ServicePublishes ==
    ASSUME IInv, IInv', PublishedInv, ServiceStep
    PROVE  UNCHANGED <<Current, Written>> \/ \E l \in Lines :
              /\ Current'[l] > Current[l]
              /\ Current' = [Current EXCEPT ![l] = Current'[l]]
              /\ Written' = Written \cup {<<l, Current'[l]>>}
<1>1. /\ published' = published \cup ({store'[l] : l \in Lines} \ {NoData})
      /\ [Next]_vars
  BY DEF ServiceStep
<1>2. CASE UNCHANGED <<auth, store>>
  <2>1. Current' = Current
    BY <1>2 DEF Current
  <2>2. published' = published
    BY <1>1, <1>2 DEF PublishedInv
  <2>3. {x \in issued' : x.token \in published'} = {x \in issued : x.token \in published}
    <3>1. issued \subseteq issued'
      BY <1>1, IssuedGrows
    <3>2. ASSUME NEW x \in issued', x.token \in published PROVE x \in issued
      <4>1. PICK r \in issued : r.token = x.token
        BY <3>2 DEF PublishedInv
      <4>2. r \in issued' /\ r = x
        BY <3>1, <4>1 DEF IInv, TokenInv
      <4>3. QED
        BY <4>2
    <3>3. QED
      BY <2>2, <3>1, <3>2
  <2>4. QED
    BY <2>1, <2>3 DEF Written
<1>3. ASSUME NEW r \in encrypted, Supersedes(r), issued' = issued,
             auth' = [auth EXCEPT ![r.line] = VersionOf(r)],
             store' = [store EXCEPT ![r.line] = r.token]
      PROVE  \E l \in Lines : /\ Current'[l] > Current[l]
                             /\ Current' = [Current EXCEPT ![l] = Current'[l]]
                             /\ Written' = Written \cup {<<l, Current'[l]>>}
  <2>1. r \in issued /\ r.line \in Lines /\ r.token # NoData
    BY TokenAssumption DEF IInv, TypeInv, Reservation
  <2>2. /\ Current'[r.line] = r.ctr /\ r.ctr > Current[r.line]
        /\ Current' = [Current EXCEPT ![r.line] = Current'[r.line]]
    BY <1>3, <2>1 DEF Current, Supersedes, VersionOf, IInv, TypeInv
  <2>3. published' = published \cup {r.token}
    <3>1. \A l \in Lines : store'[l] = IF l = r.line THEN r.token ELSE store[l]
      BY <1>3 DEF IInv, TypeInv
    <3>2. QED
      BY <1>1, <2>1, <3>1 DEF PublishedInv
  <2>4. {x \in issued' : x.token \in published'} =
            {x \in issued : x.token \in published} \cup {r}
    <3>1. \A x \in issued : x.token = r.token => x = r
      BY <2>1 DEF IInv, TokenInv
    <3>2. QED
      BY <1>3, <2>1, <2>3, <3>1
  <2>5. Written' = Written \cup {<<r.line, r.ctr>>}
    BY <2>4 DEF Written
  <2>6. QED
    BY <2>1, <2>2, <2>5
<1>4. QED
  BY <1>1, <1>2, <1>3, OnePublication DEF IInv

LEMMA ReturnedStays ==
    ASSUME IInv, IInv', FreshRead, issued \subseteq issued', accepted' = accepted
    PROVE  Returned' = Returned
<1>1. ASSUME NEW a \in accepted PROVE VersionRead(a.token)' = VersionRead(a.token)
  <2>1. PICK r \in issued : r.token = a.token
    BY DEF FreshRead
  <2>2. VersionRead(r.token) = r.ctr
    BY ReadVersion DEF IInv
  <2>3. (CHOOSE x \in issued' : x.token = r.token) = r
    BY DEF IInv, TokenInv
  <2>4. VersionRead(a.token)' = r.ctr
    BY <2>1, <2>3 DEF VersionRead
  <2>5. QED
    BY <2>1, <2>2, <2>4
<1>2. QED
  BY <1>1 DEF Returned

LEMMA MemoryInit == ReadsInit => Memory!Init
BY DEF ReadsInit, Init, NoVersion, Memory!Init

LEMMA MemoryService ==
    ASSUME RInv, RInv', FreshRead, ServiceStep
    PROVE  [Memory!Next]_Memory!vars
<1>1. UNCHANGED <<Begun, Returned>>
  <2>1. UNCHANGED <<outstanding, verified, accepted>> /\ [Next]_vars
    BY DEF ServiceStep, readVars
  <2>2. Returned' = Returned
    BY <2>1, IssuedGrows, ReturnedStays DEF RInv
  <2>3. QED
    BY <2>1, <2>2 DEF Begun
<1>2. CASE UNCHANGED <<Current, Written>>
  BY <1>1, <1>2 DEF Memory!vars, Current, Written, Begun, Returned, VersionRead
<1>3. ASSUME NEW l \in Lines, Current'[l] > Current[l],
             Current' = [Current EXCEPT ![l] = Current'[l]],
             Written' = Written \cup {<<l, Current'[l]>>}
      PROVE  Memory!Publish(l)
  BY <1>1, <1>3 DEF Memory!Publish, Current, Written, Begun, Returned, VersionRead
<1>4. QED
  BY <1>2, <1>3, ServicePublishes DEF RInv, Memory!Next

LEMMA BeginIsBegin ==
    ASSUME RInv, NEW t \in Tves, NEW l \in Lines, BeginRead(t, l)
    PROVE  \E n \in ReadId : Memory!Begin(t, n, l)
<1>1. PICK n \in ReadId : n = ridCounter[t] + 1
  BY DEF BeginRead
<1>2. /\ outstanding' = outstanding \cup {[tve |-> t, n |-> n, line |-> l, floor |-> auth[l].ctr]}
      /\ UNCHANGED <<auth, issued, published, verified, accepted>>
  BY <1>1 DEF BeginRead, vars, lineVars
<1>3. /\ UNCHANGED <<Current, Written, Returned>>
      /\ Begun' = Begun \cup {[tve |-> t, n |-> n, line |-> l, floor |-> Current[l]]}
  BY <1>2 DEF Current, Written, Returned, VersionRead, Begun
<1>4. \A x \in Begun \cup {y.read : y \in Returned} : x \in Requests
  BY DEF Requests, Returned
<1>5. \A x \in Requests : ~(x.tve = t /\ x.n = n)
  <2>1. ASSUME NEW x \in Requests, x.tve = t, x.n = n PROVE FALSE
    <3>1. ridCounter[t] \in Nat /\ x.n <= ridCounter[x.tve]
      BY MaxReadsAssumption DEF RInv, ReadTypes, RequestInv
    <3>2. QED
      BY <1>1, <2>1, <3>1
  <2>2. QED
    BY <2>1
<1>6. QED
  BY <1>3, <1>4, <1>5 DEF Memory!Begin, Current, Written, Returned, VersionRead, Begun

\* Cancelling and rejecting end a read that has begun, and only that one.
LEMMA EndsOne ==
    ASSUME RequestInv, NEW rd,
           \/ rd \in outstanding /\ outstanding' = outstanding \ {rd} /\ verified' = verified
           \/ \E d \in verified : /\ rd = d.read /\ verified' = verified \ {d}
                                 /\ outstanding' = outstanding
    PROVE  rd \in Begun /\ Begun' = Begun \ {rd}
<1>1. CASE rd \in outstanding /\ outstanding' = outstanding \ {rd} /\ verified' = verified
  BY <1>1 DEF RequestInv, Begun
<1>2. ASSUME NEW d \in verified, rd = d.read, verified' = verified \ {d},
             outstanding' = outstanding
      PROVE  rd \in Begun /\ Begun' = Begun \ {rd}
  <2>1. \A x \in verified : x.read = rd => x = d
    BY <1>2 DEF RequestInv
  <2>2. {x.read : x \in verified'} = {x.read : x \in verified} \ {rd}
    BY <1>2, <2>1
  <2>3. rd \notin outstanding
    BY <1>2 DEF RequestInv
  <2>4. QED
    BY <1>2, <2>2, <2>3 DEF Begun
<1>3. QED
  BY <1>1, <1>2

LEMMA EndIsFail ==
    ASSUME RInv, NEW rd, rd \in Begun, Begun' = Begun \ {rd},
           UNCHANGED <<vars, published, accepted>>
    PROVE  Memory!Fail(rd)
<1>1. UNCHANGED <<Current, Written, Returned>>
  BY DEF Current, Written, Returned, VersionRead, vars, lineVars
<1>2. QED
  BY <1>1 DEF Memory!Fail, Current, Written, Returned, VersionRead, Begun

LEMMA AcceptIsReturn ==
    ASSUME RInv, NonceInv, NEW d \in verified, NEW r \in issued, Accept(d, r)
    PROVE  \E rd \in Begun : \E w \in Written : Memory!Return(rd, w[2])
<1>1. PICK rd : rd = d.read
  OBVIOUS
<1>2. PICK v : v = r.ctr
  OBVIOUS
<1>3. /\ r.token \in published /\ r.line = rd.line
      /\ rd.floor <= v /\ v <= Current[rd.line]
  <2>1. r.line \in Lines
    BY DEF RInv, IInv, TypeInv, Reservation
  <2>2. QED
    BY <1>1, <1>2, <2>1, OpenedIsVerified DEF RInv, Accept, Current
<1>4. <<rd.line, v>> \in Written
  BY <1>2, <1>3 DEF Written
<1>5. /\ UNCHANGED <<Current, Written>> /\ rd \in Begun /\ Begun' = Begun \ {rd}
      /\ issued' = issued
  <2>1. /\ verified' = verified \ {d} /\ outstanding' = outstanding
        /\ UNCHANGED <<auth, issued, published>>
    BY DEF Accept, vars, lineVars
  <2>2. QED
    BY <1>1, <2>1, EndsOne DEF RInv, Current, Written
<1>6. Returned' = Returned \cup {[read |-> rd, version |-> v]}
  <2>1. accepted' = accepted \cup {[read |-> rd, token |-> r.token]}
    BY <1>1 DEF Accept
  <2>2. PICK a : a = [read |-> rd, token |-> r.token]
    OBVIOUS
  <2>3. VersionRead(a.token) = v
    BY <1>2, <2>2, ReadVersion DEF RInv, IInv
  <2>4. \A k : VersionRead(k)' = VersionRead(k)
    BY <1>5 DEF VersionRead
  <2>5. QED
    BY <2>1, <2>2, <2>3, <2>4 DEF Returned
<1>7. Memory!Return(rd, v)
  BY <1>3, <1>4, <1>5, <1>6 DEF Memory!Return, Current, Written, Returned, VersionRead, Begun
<1>8. <<rd.line, v>>[2] = v
  OBVIOUS
<1>9. PICK w : w = <<rd.line, v>>
  OBVIOUS
<1>10. QED
  BY <1>4, <1>5, <1>7, <1>9

LEMMA MemoryStep ==
    ASSUME RInv, RInv', NonceInv, FreshRead, [ReadsNext]_allVars
    PROVE  [Memory!Next]_Memory!vars
<1>1. CASE ServiceStep
  BY <1>1, MemoryService
<1>2. ASSUME NEW t \in Tves, NEW l \in Lines, BeginRead(t, l) PROVE Memory!Next
  BY <1>2, BeginIsBegin DEF Memory!Next
<1>3. ASSUME UNCHANGED <<vars, published, accepted>>, Begun' = Begun
      PROVE  UNCHANGED Memory!vars
  BY <1>3 DEF Memory!vars, Begun, vars, lineVars
<1>4. ASSUME NEW t \in Tves, NEW n \in ReadId, NEW l \in Lines, ReadTicketed(t, n, l)
      PROVE  UNCHANGED Memory!vars
  BY <1>3, <1>4 DEF ReadTicketed, Begun
<1>5. ASSUME NEW k \in tickets, NEW t \in Tves, NEW l \in Lines, NEW rd \in outstanding,
             VerifyTicket(k, t, l, rd)
      PROVE  UNCHANGED Memory!vars
  BY <1>3, <1>5, VerifyKeepsBegun DEF VerifyTicket
<1>6. ASSUME NEW rd \in outstanding, CancelRead(rd) PROVE Memory!Next
  BY <1>6, EndsOne, EndIsFail DEF CancelRead, RInv, Memory!Next, Begun
<1>7. ASSUME NEW d \in verified, Reject(d) PROVE Memory!Next
  <2>1. PICK rd : rd = d.read
    OBVIOUS
  <2>2. rd \in Begun /\ Begun' = Begun \ {rd} /\ UNCHANGED <<vars, published, accepted>>
    BY <1>7, <2>1, EndsOne DEF Reject, RInv
  <2>3. QED
    BY <2>2, EndIsFail DEF Memory!Next, Begun
<1>8. ASSUME NEW d \in verified, NEW r \in issued, Accept(d, r) PROVE Memory!Next
  BY <1>8, AcceptIsReturn DEF Memory!Next, Begun, Written
<1>9. UNCHANGED allVars => UNCHANGED Memory!vars
  BY <1>3 DEF allVars, readVars, Begun
<1>10. QED
  BY <1>1, <1>2, <1>4, <1>5, <1>6, <1>7, <1>8, <1>9, StepShape DEF ReadStep

\* The ticketed protocol is a fresh memory: what protocol_read returns is what
\* some memory with nothing but version numbers could return.
THEOREM ReadsImplementMemory ==
    ASSUME AtomicReservation PROVE ReadsSpec => ImplementsFreshMemory
<1>1. RInv /\ RInv' /\ NonceInv /\ FreshRead /\ [ReadsNext]_allVars => [Memory!Next]_Memory!vars
  BY MemoryStep
<1>2. QED
  BY <1>1, MemoryInit, ReadsInductive, ReadsNonces, ReadsFresh, PTL
     DEF ReadsSpec, ImplementsFreshMemory, Memory!Spec
=============================================================================
