------------------------ MODULE TimingControllerProofs ------------------------
(***************************************************************************)
(* Theorems of TimingController for any packets, lines, cache geometry,    *)
(* latencies and issue intervals: types, the version cache, the spacing of *)
(* AEAD operations, the order of cryptography and release, the bounds on   *)
(* delay and on the window of optimistic mode, and when the experiment's   *)
(* own claims about its baseline and its drain are true.                   *)
(***************************************************************************)
EXTENDS TimingController, FiniteSetTheorems, TLAPS

LEMMA LatencyTypes ==
    /\ HitLatency \in Nat /\ MissLatency \in Nat /\ MetadataIssue \in Nat
    /\ AeadLatency \in Nat /\ AeadIssue \in Nat /\ ReservationLatency \in Nat
    /\ CommitLatency \in Nat /\ ControlIssue \in Nat /\ RatchetEvery \in Nat
    /\ HkdfLatency \in Nat /\ DrainTicks \in Nat /\ MemoryLatencies \subseteq Nat
BY LatenciesAssumption

\* An operation starts when it is ready and its turn has come.
LEMMA ScheduledTimes ==
    ASSUME NEW ready \in Nat, NEW next \in Nat, NEW issue \in Nat, NEW latency \in Nat
    PROVE  LET x == Scheduled(ready, next, issue, latency)
           IN  /\ x.finish \in Nat /\ x.next \in Nat
               /\ x.finish >= ready + latency /\ x.finish >= next + latency
               /\ x.finish + issue = x.next + latency
BY DEF Scheduled, Larger

LEMMA ControlTimes ==
    ASSUME writeControlNextIssue \in Nat, NEW latency \in Nat
    PROVE  /\ ScheduledControl(0, latency).finish \in Nat
           /\ ScheduledControl(0, latency).next \in Nat
BY ScheduledTimes, LatencyTypes DEF ScheduledControl

LEMMA NearerType == ASSUME NEW t \in Nat PROVE Nearer(t) \in Nat
BY DEF Nearer

-----------------------------------------------------------------------------
(* The version cache.                                                      *)

Before(a, b) == <<a, b>> \in later

\* "later" orders the lines ever used; a set holds used lines of its own.
CacheInv ==
    /\ later \subseteq Lines \X Lines
    /\ cache \in [0..(Sets - 1) -> Seq(Lines)]
    /\ \A a, b : Before(a, b) => Before(a, a) /\ Before(b, b)
    /\ \A a, b : Before(a, b) /\ Before(b, a) => a = b
    /\ \A s \in DOMAIN cache :
          /\ Len(cache[s]) <= Assoc
          /\ \A i \in DOMAIN cache[s] : cache[s][i] \in Used /\ cache[s][i] % Sets = s

\* What UseLine does to one set: the line is in front, its old place or the
\* last one is gone, and the order of the others is as before.
LEMMA PlaceInSet ==
    ASSUME NEW s \in Seq(Lines), NEW l \in Lines, Len(s) <= Assoc, Assoc \in Nat \ {0}
    PROVE  /\ Place(s, l) \in 1..Assoc /\ Place(s, l) <= Len(s) + 1
           /\ Place(s, l) = Len(s) + 1 => Len(s) < Assoc
           /\ l \in Members(s) => Place(s, l) \in DOMAIN s /\ s[Place(s, l)] = l
           /\ l \notin Members(s) => Place(s, l) >= Len(s)
           /\ l \notin Members(s) /\ Len(s) < Assoc => Place(s, l) = Len(s) + 1
<1>1. Len(s) \in Nat /\ DOMAIN s = 1..Len(s)
  OBVIOUS
<1>2. CASE l \in Members(s)
  <2>1. \E i \in DOMAIN s : s[i] = l
    BY <1>2 DEF Members
  <2>2. Place(s, l) = CHOOSE i \in DOMAIN s : s[i] = l
    BY <1>2 DEF Place
  <2>3. Place(s, l) \in DOMAIN s /\ s[Place(s, l)] = l
    BY <2>1, <2>2
  <2>4. QED
    BY <1>1, <1>2, <2>3
<1>3. CASE l \notin Members(s)
  <2>1. Place(s, l) = IF Len(s) < Assoc THEN Len(s) + 1 ELSE Len(s)
    BY <1>3 DEF Place
  <2>2. QED
    BY <1>1, <1>3, <2>1
<1>4. QED
  BY <1>2, <1>3

LEMMA FrontType ==
    ASSUME NEW s \in Seq(Lines), NEW l \in Lines, Len(s) <= Assoc, Assoc \in Nat \ {0},
           NEW m, m = Len(s), NEW k, k = Place(s, l), NEW c, c = MoveToFront(s, l),
           NEW n, n = Larger(m, k)
    PROVE  /\ c \in Seq(Lines) /\ Len(c) = n /\ n <= Assoc
           /\ \A i \in 1..n : c[i] = IF i = 1 THEN l ELSE IF i <= k THEN s[i - 1] ELSE s[i]
<1>. DEFINE f == [i \in 1..n |-> IF i = 1 THEN l ELSE IF i <= k THEN s[i - 1] ELSE s[i]]
<1>1. k \in 1..Assoc /\ k <= Len(s) + 1 /\ Len(s) \in Nat /\ DOMAIN s = 1..Len(s)
  BY PlaceInSet
<1>2. n \in Nat /\ n <= Assoc /\ n >= Len(s) /\ n <= Len(s) + 1 /\ (n > Len(s) => n = k)
  BY <1>1 DEF Larger
<1>3. ASSUME NEW i \in 1..n PROVE f[i] \in Lines
  <2>1. CASE i = 1
    BY <2>1
  <2>2. CASE i # 1 /\ i <= k
    <3>1. i - 1 \in 1..Len(s)
      BY <1>1, <2>2
    <3>2. QED
      BY <3>1, <2>2
  <2>3. CASE i # 1 /\ i > k
    <3>1. i \in 1..Len(s)
      BY <1>1, <1>2, <2>3
    <3>2. QED
      BY <1>1, <3>1, <2>3
  <2>4. QED
    BY <1>1, <2>1, <2>2, <2>3
<1>4. f \in [1..n -> Lines]
  BY <1>3
<1>5. f \in Seq(Lines) /\ Len(f) = n
  BY <1>2, <1>4
<1>6. MoveToFront(s, l) = f
  BY DEF MoveToFront
<1>7. QED
  BY <1>2, <1>5, <1>6

\* The lines behind the front are lines of the old set, in the old order; a
\* line falls out only at the end of a full set.
LEMMA FrontOrder ==
    ASSUME NEW s \in Seq(Lines), NEW l \in Lines, Len(s) <= Assoc, Assoc \in Nat \ {0},
           \A i, j \in DOMAIN s : i < j => s[i] # s[j],
           NEW c, c = MoveToFront(s, l)
    PROVE  /\ c \in Seq(Lines) /\ Len(c) <= Assoc /\ DOMAIN c = 1..Len(c) /\ Len(c) \in Nat
           /\ 1 \in DOMAIN c /\ c[1] = l
           /\ Len(s) = Assoc => Len(c) = Assoc
           /\ \A j \in DOMAIN c : j > 1 =>
                 \E b \in DOMAIN s : s[b] = c[j] /\ c[j] # l
           /\ \A i, j \in DOMAIN c : 1 < i /\ i < j =>
                 \E a, b \in DOMAIN s : a < b /\ s[a] = c[i] /\ s[b] = c[j]
           /\ \A x \in Members(s) \ Members(c) :
                 /\ Len(s) = Assoc /\ x = s[Assoc] /\ l \notin Members(s)
<1>1. PICK k, m, n : k = Place(s, l) /\ m = Len(s) /\ n = Larger(m, k)
  OBVIOUS
<1>2. /\ m \in Nat /\ k \in 1..Assoc /\ k <= m + 1 /\ m <= Assoc /\ (k = m + 1 => m < Assoc)
      /\ l \in Members(s) => k <= m /\ s[k] = l
      /\ l \notin Members(s) => k >= m
      /\ l \notin Members(s) /\ m < Assoc => k = m + 1
  BY <1>1, PlaceInSet
<1>3. /\ c \in Seq(Lines) /\ Len(c) = n /\ n <= Assoc
      /\ \A i \in 1..n : c[i] = IF i = 1 THEN l ELSE IF i <= k THEN s[i - 1] ELSE s[i]
  BY <1>1, FrontType
<1>4. /\ DOMAIN c = 1..n /\ DOMAIN s = 1..m /\ n \in Nat /\ k \in Nat /\ k >= 1
      /\ n >= 1 /\ n >= m /\ n >= k /\ (n > m => n = k)
  BY <1>1, <1>2, <1>3 DEF Larger
<1>. DEFINE old(i) == IF i <= k THEN i - 1 ELSE i
<1>5. ASSUME NEW i \in DOMAIN c, i > 1
      PROVE  old(i) \in DOMAIN s /\ s[old(i)] = c[i] /\ old(i) # k
  BY <1>2, <1>3, <1>4, <1>5
<1>6. c[1] = l /\ 1 \in DOMAIN c
  BY <1>3, <1>4
<1>7. ASSUME NEW j \in DOMAIN c, j > 1 PROVE \E b \in DOMAIN s : s[b] = c[j] /\ c[j] # l
  <2>1. old(j) \in DOMAIN s /\ s[old(j)] = c[j] /\ old(j) # k
    BY <1>5, <1>7
  <2>2. CASE l \in Members(s)
    <3>1. k \in DOMAIN s /\ s[k] = l
      BY <1>2, <1>4, <2>2
    <3>2. old(j) \in Int /\ k \in Int
      BY <1>4, <2>1
    <3>3. old(j) < k \/ k < old(j)
      BY <2>1, <3>2
    <3>. HIDE DEF old
    <3>4. s[old(j)] # s[k]
      BY <2>1, <3>1, <3>3
    <3>5. QED
      BY <2>1, <3>1, <3>4
  <2>3. CASE l \notin Members(s)
    <3>. HIDE DEF old
    <3>1. QED
      BY <2>1, <2>3 DEF Members
  <2>4. QED
    BY <2>2, <2>3
<1>8. ASSUME NEW i \in DOMAIN c, NEW j \in DOMAIN c, 1 < i, i < j
      PROVE  \E a, b \in DOMAIN s : a < b /\ s[a] = c[i] /\ s[b] = c[j]
  <2>1. j > 1 /\ i \in Int /\ j \in Int /\ k \in Int
    BY <1>4, <1>8
  <2>2. old(i) < old(j)
    BY <1>8, <2>1
  <2>3. /\ old(i) \in DOMAIN s /\ s[old(i)] = c[i]
        /\ old(j) \in DOMAIN s /\ s[old(j)] = c[j]
    BY <1>5, <1>8, <2>1
  <2>. HIDE DEF old
  <2>4. QED
    BY <2>2, <2>3
<1>9. ASSUME NEW x \in Members(s) \ Members(c)
      PROVE  Len(s) = Assoc /\ x = s[Assoc] /\ l \notin Members(s)
  <2>1. PICK b \in DOMAIN s : s[b] = x
    BY DEF Members
  <2>2. x # l
    BY <1>6 DEF Members
  \* Every place but k is found again.
  <2>3. b = k
    <3>1. CASE b < k
      <4>1. b + 1 \in 1..n /\ b + 1 > 1 /\ b + 1 <= k /\ (b + 1) - 1 = b
        BY <1>2, <1>4, <3>1
      <4>2. c[b + 1] = s[b]
        BY <1>3, <4>1
      <4>3. QED
        BY <1>4, <2>1, <4>1, <4>2 DEF Members
    <3>2. CASE b > k
      <4>1. b \in 1..n /\ b > 1 /\ ~(b <= k) /\ b # 1
        BY <1>2, <1>4, <3>2
      <4>2. c[b] = s[b]
        BY <1>3, <4>1
      <4>3. QED
        BY <1>4, <2>1, <4>1, <4>2 DEF Members
    <3>3. QED
      BY <1>4, <3>1, <3>2
  <2>4. l \notin Members(s)
    BY <1>2, <2>1, <2>2, <2>3
  <2>5. m = Assoc
    BY <1>2, <1>4, <2>3, <2>4
  <2>6. k = Assoc
    BY <1>2, <1>4, <2>4, <2>5
  <2>7. QED
    BY <1>1, <2>1, <2>3, <2>4, <2>5, <2>6
<1>10. Len(s) = Assoc => Len(c) = Assoc
  BY <1>1, <1>2, <1>3, <1>4
<1>11. QED
  BY <1>3, <1>4, <1>6, <1>7, <1>8, <1>9, <1>10

LEMMA UsedLines ==
    ASSUME NEW L, L \subseteq Lines \X Lines, \A a, b : <<a, b>> \in L => <<a, a>> \in L
    PROVE  \A a : a \in {x[1] : x \in L} <=> <<a, a>> \in L
<1>1. ASSUME NEW a, a \in {x[1] : x \in L} PROVE <<a, a>> \in L
  <2>1. PICK x \in L : a = x[1]
    BY <1>1
  <2>2. x = <<x[1], x[2]>>
    OBVIOUS
  <2>3. QED
    BY <2>1, <2>2
<1>2. ASSUME NEW a, <<a, a>> \in L PROVE a \in {x[1] : x \in L}
  <2>1. PICK x \in L : x = <<a, a>>
    BY <1>2
  <2>2. x[1] = a
    BY <2>1
  <2>3. QED
    BY <2>1, <2>2
<1>3. QED
  BY <1>1, <1>2

\* Using a line puts it before all others and leaves their order.
LEMMA UseOrder ==
    ASSUME CacheInv, NEW l \in Lines, UseLine(l)
    PROVE  /\ \A a, b : Before(a, b)' <=> \/ Before(a, b) /\ b # l
                                          \/ a = l /\ (b = l \/ Before(b, b))
           /\ later' \subseteq Lines \X Lines
           /\ \A a, b : Before(a, b)' => Before(a, a)' /\ Before(b, b)'
           /\ \A a, b : Before(a, b)' /\ Before(b, a)' => a = b
           /\ \A a : a \in Used <=> Before(a, a)
           /\ Used' = Used \cup {l}
<1>1. later' = {x \in later : x[2] # l} \cup {<<l, x>> : x \in Used \cup {l}}
  BY DEF UseLine
<1>2. \A a : a \in Used <=> Before(a, a)
  BY UsedLines DEF CacheInv, Used, Before
<1>3. ASSUME NEW a, NEW b
      PROVE  Before(a, b)' <=> \/ Before(a, b) /\ b # l
                               \/ a = l /\ (b = l \/ Before(b, b))
  <2>1. <<a, b>> \in {x \in later : x[2] # l} <=> Before(a, b) /\ b # l
    BY DEF Before
  <2>2. <<a, b>> \in {<<l, x>> : x \in Used \cup {l}} <=> a = l /\ (b = l \/ Before(b, b))
    BY <1>2
  <2>3. QED
    BY <1>1, <2>1, <2>2 DEF Before
<1>4. later' \subseteq Lines \X Lines
  <2>1. ASSUME NEW a \in Used PROVE a \in Lines
    <3>1. <<a, a>> \in Lines \X Lines
      BY <1>2 DEF CacheInv, Before
    <3>2. QED
      BY <3>1
  <2>2. QED
    BY <1>1, <2>1 DEF CacheInv
<1>5. ASSUME NEW a, NEW b, Before(a, b)' PROVE Before(a, a)' /\ Before(b, b)'
  BY <1>3, <1>5 DEF CacheInv
<1>6. ASSUME NEW a, NEW b, Before(a, b)', Before(b, a)' PROVE a = b
  BY <1>3, <1>6 DEF CacheInv
<1>7. ASSUME NEW a PROVE a \in Used' <=> Before(a, a)'
  BY <1>4, <1>5, UsedLines DEF Used, Before
<1>8. Used' = Used \cup {l}
  BY <1>2, <1>3, <1>7
<1>9. QED
  BY <1>2, <1>3, <1>4, <1>5, <1>6, <1>8

\* A set is well filled and in order.
SetInv(c, s) ==
    /\ c \in Seq(Lines) /\ Len(c) <= Assoc
    /\ \A i \in DOMAIN c : c[i] \in Used /\ c[i] % Sets = s
    /\ \A i, j \in DOMAIN c : i < j => c[i] # c[j] /\ Before(c[i], c[j])
    /\ \A x \in Used \ Members(c) : x % Sets = s =>
          Len(c) = Assoc /\ \A i \in DOMAIN c : ~Before(x, c[i])

\* A set the line does not belong to is as good as before.
LEMMA OtherSet ==
    ASSUME CacheInv, NEW l \in Lines, UseLine(l), NEW s, l % Sets # s,
           NEW c, SetInv(c, s)
    PROVE  SetInv(c, s)'
<1>1. \A i \in DOMAIN c : c[i] # l
  BY DEF SetInv
<1>2. \A a, b : a # l /\ b # l => (Before(a, b)' <=> Before(a, b))
  BY UseOrder
<1>3. Used' = Used \cup {l}
  BY UseOrder
<1>4. \A x \in Used' \ Members(c) : x % Sets = s => x \in Used \ Members(c) /\ x # l
  BY <1>3
<1>5. QED
  BY <1>1, <1>2, <1>3, <1>4 DEF SetInv

LEMMA UsedSet ==
    ASSUME CacheInv, NEW l \in Lines, UseLine(l), Assoc \in Nat \ {0},
           NEW s, l % Sets = s, NEW c, SetInv(c, s),
           NEW d, d = MoveToFront(c, l)
    PROVE  SetInv(d, s)'
<1>. /\ c \in Seq(Lines) /\ Len(c) <= Assoc
     /\ \A i, j \in DOMAIN c : i < j => c[i] # c[j]
  BY DEF SetInv
<1>1. /\ d \in Seq(Lines) /\ Len(d) <= Assoc /\ DOMAIN d = 1..Len(d) /\ Len(d) \in Nat
      /\ 1 \in DOMAIN d /\ d[1] = l
      /\ Len(c) = Assoc => Len(d) = Assoc
  BY FrontOrder
<1>2. \A j \in DOMAIN d : j > 1 => \E b \in DOMAIN c : c[b] = d[j] /\ d[j] # l
  BY FrontOrder
<1>3. \A i, j \in DOMAIN d : 1 < i /\ i < j =>
          \E a, b \in DOMAIN c : a < b /\ c[a] = d[i] /\ c[b] = d[j]
  BY FrontOrder
<1>4. \A x \in Members(c) \ Members(d) :
            Len(c) = Assoc /\ x = c[Assoc] /\ l \notin Members(c)
  BY FrontOrder
<1>5. /\ \A a, b : Before(a, b)' <=> \/ Before(a, b) /\ b # l
                                     \/ a = l /\ (b = l \/ Before(b, b))
      /\ Used' = Used \cup {l}
      /\ \A a : a \in Used <=> Before(a, a)
  BY UseOrder
<1>6. ASSUME NEW i \in DOMAIN d PROVE i \in Nat /\ (i = 1 \/ i > 1)
  <2>1. Len(d) \in Nat /\ i \in 1..Len(d)
    BY <1>1
  <2>2. QED
    BY <2>1
<1>7. ASSUME NEW i \in DOMAIN d PROVE d[i] \in Used' /\ d[i] % Sets = s
  <2>1. CASE i = 1
    BY <1>1, <1>5, <2>1
  <2>2. CASE i > 1
    BY <1>2, <1>5, <2>2 DEF SetInv
  <2>3. QED
    BY <1>6, <2>1, <2>2
<1>8. ASSUME NEW i \in DOMAIN d, NEW j \in DOMAIN d, i < j
      PROVE  d[i] # d[j] /\ Before(d[i], d[j])'
  <2>1. j > 1
    BY <1>6, <1>8
  <2>2. PICK b \in DOMAIN c : c[b] = d[j] /\ d[j] # l
    BY <1>2, <2>1
  <2>3. CASE i = 1
    <3>1. Before(d[j], d[j])
      BY <1>5, <2>2 DEF SetInv
    <3>2. Before(l, d[j])'
      BY <1>5, <3>1
    <3>3. d[i] = l
      BY <1>1, <2>3
    <3>4. d[i] # d[j]
      BY <2>2, <3>3
    <3>5. Before(d[i], d[j])'
      BY <3>2, <3>3 DEF Before
    <3>6. QED
      BY <3>4, <3>5
  <2>4. CASE i > 1
    <3>1. PICK a \in DOMAIN c, e \in DOMAIN c : a < e /\ c[a] = d[i] /\ c[e] = d[j]
      BY <1>3, <1>8, <2>4
    <3>2. d[i] # d[j] /\ Before(d[i], d[j])
      BY <3>1 DEF SetInv
    <3>3. QED
      BY <1>5, <2>2, <3>2
  <2>5. QED
    BY <1>6, <2>3, <2>4
<1>9. ASSUME NEW x \in Used' \ Members(d), x % Sets = s
      PROVE  Len(d) = Assoc /\ \A i \in DOMAIN d : ~Before(x, d[i])'
  <2>1. x # l /\ x \in Used
    BY <1>1, <1>5 DEF Members
  <2>2. Len(c) = Assoc /\ \A i \in DOMAIN d : d[i] # l => ~Before(x, d[i])
    <3>1. CASE x \notin Members(c)
      <4>1. Len(c) = Assoc /\ \A i \in DOMAIN c : ~Before(x, c[i])
        BY <1>9, <2>1, <3>1 DEF SetInv
      <4>2. QED
        BY <1>1, <1>2, <1>6, <4>1
    <3>2. CASE x \in Members(c)
      <4>1. Len(c) = Assoc /\ x = c[Assoc]
        BY <1>4, <3>2
      <4>2. ASSUME NEW i \in DOMAIN d, d[i] # l PROVE ~Before(x, d[i])
        <5>1. i > 1
          BY <1>1, <1>6, <4>2
        <5>2. PICK b \in DOMAIN c : c[b] = d[i]
          BY <1>2, <5>1
        <5>3. d[i] # x
          BY DEF Members
        <5>4. DOMAIN c = 1..Len(c) /\ Len(c) \in Nat
          OBVIOUS
        <5>5. b < Assoc /\ Assoc \in DOMAIN c
          BY <4>1, <5>2, <5>3, <5>4
        <5>6. Before(c[b], c[Assoc])
          BY <5>5 DEF SetInv
        <5>7. QED
          BY <4>1, <5>2, <5>3, <5>6 DEF CacheInv
      <4>3. QED
        BY <4>1, <4>2
    <3>3. QED
      BY <3>1, <3>2
  <2>3. ASSUME NEW i \in DOMAIN d PROVE ~Before(x, d[i])'
    BY <1>5, <2>1, <2>2
  <2>4. QED
    BY <1>1, <2>2, <2>3
<1>10. QED
  BY <1>1, <1>7, <1>8, <1>9 DEF SetInv

LEMMA SetsAreGood ==
    ASSUME CacheInv, CacheIsMostRecent, NEW s \in DOMAIN cache
    PROVE  SetInv(cache[s], s) /\ Entries > 0 /\ Assoc \in Nat \ {0}
<1>1. DOMAIN cache = 0..(Sets - 1) /\ cache[s] \in Seq(Lines)
  BY DEF CacheInv
<1>2. Entries # 0
  <2>1. ASSUME Entries = 0 PROVE FALSE
    <3>1. s \in 0..(0 - 1)
      BY <1>1, <2>1 DEF Sets
    <3>2. QED
      BY <3>1
  <2>2. QED
    BY <2>1
<1>3. Entries > 0 /\ Assoc \in Nat \ {0}
  BY <1>2, CacheAssumption
<1>4. QED
  BY <1>1, <1>3 DEF CacheInv, CacheIsMostRecent, SetInv, Before

\* Using a line keeps the sets in order, whoever uses it.
LEMMA UseLineKeeps ==
    ASSUME CacheInv, CacheIsMostRecent, NEW l \in Lines, UseLine(l)
    PROVE  CacheInv' /\ CacheIsMostRecent'
<1>1. /\ DOMAIN cache' = DOMAIN cache
      /\ \A s \in DOMAIN cache : cache'[s] = IF s = l % Sets THEN MoveToFront(cache[s], l)
                                              ELSE cache[s]
  <2>1. CASE Entries = 0
    <3>1. \A s : s \notin DOMAIN cache
      BY <2>1, SetsAreGood
    <3>2. QED
      BY <2>1, <3>1 DEF UseLine
  <2>2. CASE Entries # 0
    BY <2>2 DEF UseLine
  <2>3. QED
    BY <2>1, <2>2
<1>2. ASSUME NEW s \in DOMAIN cache PROVE SetInv(cache[s], s)'
  <2>1. SetInv(cache[s], s) /\ Assoc \in Nat \ {0}
    BY SetsAreGood
  <2>2. PICK c, d : c = cache[s] /\ d = cache'[s]
    OBVIOUS
  <2>3. CASE s = l % Sets
    <3>1. d = MoveToFront(c, l)
      BY <1>1, <2>2, <2>3
    <3>2. QED
      BY <2>1, <2>2, <2>3, <3>1, UsedSet
  <2>4. CASE s # l % Sets
    BY <1>1, <2>1, <2>2, <2>4, OtherSet
  <2>5. QED
    BY <2>3, <2>4
<1>3. cache' \in [0..(Sets - 1) -> Seq(Lines)]
  <2>1. cache' = [s \in DOMAIN cache |-> cache'[s]]
    BY DEF CacheInv, UseLine
  <2>2. QED
    BY <1>1, <1>2, <2>1 DEF SetInv, CacheInv
<1>4. CacheInv'
  <2>1. /\ later' \subseteq Lines \X Lines
        /\ \A a, b : Before(a, b)' => Before(a, a)' /\ Before(b, b)'
        /\ \A a, b : Before(a, b)' /\ Before(b, a)' => a = b
    BY UseOrder
  <2>2. QED
    BY <1>1, <1>2, <1>3, <2>1 DEF CacheInv, SetInv
<1>5. CacheIsMostRecent'
  BY <1>1, <1>2 DEF CacheIsMostRecent, SetInv, Before
<1>6. QED
  BY <1>4, <1>5

-----------------------------------------------------------------------------
(* Types.                                                                  *)

RequestStates == [isRead : BOOLEAN, metadataLatency : Nat, metadataReady : Nat]

FlightTypes ==
    /\ DOMAIN requests \subseteq Packets
    /\ \A p \in DOMAIN requests : requests[p] \in RequestStates
    /\ flight \in [Packets -> PacketState]
    /\ {p \in Packets : flight[p].phase \in {"outgoing", "memory"}} = DOMAIN requests

ClockTypes ==
    /\ mode \in Modes
    /\ metadataNextIssue \in Nat /\ aeadNextIssue \in Nat
    /\ writeControlNextIssue \in Nat /\ ratchetNextIssue \in Nat
    /\ writesSinceRatchet \in Nat
    /\ stage \in {"warmup", "drain", "measured"} /\ drainLeft \in Nat

LEMMA AcceptTypes ==
    ASSUME FlightTypes, NEW p \in Packets, flight[p] = Idle,
           NEW state \in RequestStates, NEW packet \in PacketState, packet.phase = "outgoing",
           Accept(p, state, packet)
    PROVE  FlightTypes'
<1>1. /\ DOMAIN requests' = DOMAIN requests \cup {p}
      /\ \A q \in DOMAIN requests' : requests'[q] = IF q = p THEN state ELSE requests[q]
      /\ flight' = [flight EXCEPT ![p] = packet]
  BY DEF Accept
<1>2. \A q \in Packets : flight'[q] = IF q = p THEN packet ELSE flight[q]
  BY <1>1 DEF FlightTypes
<1>3. flight' \in [Packets -> PacketState]
  BY <1>1 DEF FlightTypes
<1>4. {q \in Packets : flight'[q].phase \in {"outgoing", "memory"}} =
          {q \in Packets : flight[q].phase \in {"outgoing", "memory"}} \cup {p}
  BY <1>2
<1>5. DOMAIN requests' \subseteq Packets /\ \A q \in DOMAIN requests' : requests'[q] \in RequestStates
  BY <1>1 DEF FlightTypes
<1>6. QED
  BY <1>1, <1>3, <1>4, <1>5 DEF FlightTypes

\* A packet that is somewhere has the fields of one.
LEMMA PacketFields ==
    ASSUME FlightTypes, NEW p \in Packets, flight[p] # Idle
    PROVE  flight[p] \in [phase : {"outgoing", "memory", "incoming"}, isRead : BOOLEAN,
                          line : Lines, due : Nat, aead : Nat, metadata : Nat]
BY DEF FlightTypes, PacketState

LEMMA ReleaseTypes ==
    ASSUME FlightTypes, NEW p \in Packets, flight[p].phase = "memory",
           NEW delay \in Nat, NEW aead \in Nat, NEW metadata \in Nat,
           Release(p, delay, aead, metadata), Forget(p)
    PROVE  /\ FlightTypes'
           /\ \E f \in PacketState :
                 /\ flight' = [flight EXCEPT ![p] = f] /\ f # Idle
                 /\ f.phase = "incoming" /\ f.due = delay /\ f.aead = aead
                 /\ f.metadata = metadata /\ f.isRead = flight[p].isRead
<1>1. PICK g : g = flight[p]
  OBVIOUS
<1>2. g \in [phase : {"outgoing", "memory", "incoming"}, isRead : BOOLEAN,
             line : Lines, due : Nat, aead : Nat, metadata : Nat]
  BY <1>1, PacketFields DEF Idle
<1>3. PICK f : f = [g EXCEPT !.phase = "incoming", !.due = delay,
                             !.aead = aead, !.metadata = metadata]
  OBVIOUS
<1>4. /\ f \in PacketState /\ f.phase = "incoming" /\ f.due = delay /\ f.aead = aead
      /\ f.metadata = metadata /\ f.isRead = g.isRead
  BY <1>2, <1>3 DEF PacketState
<1>5. flight' = [flight EXCEPT ![p] = f]
  BY <1>1, <1>3 DEF Release
<1>6. /\ DOMAIN requests' = DOMAIN requests \ {p}
      /\ \A q \in DOMAIN requests' : requests'[q] = requests[q]
  BY DEF Forget
<1>7. \A q \in Packets : flight'[q] = IF q = p THEN f ELSE flight[q]
  BY <1>5 DEF FlightTypes
<1>8. flight' \in [Packets -> PacketState]
  BY <1>4, <1>5 DEF FlightTypes
<1>9. {q \in Packets : flight'[q].phase \in {"outgoing", "memory"}} =
          {q \in Packets : flight[q].phase \in {"outgoing", "memory"}} \ {p}
  BY <1>4, <1>7
<1>10. FlightTypes'
  BY <1>6, <1>8, <1>9 DEF FlightTypes
<1>11. f # Idle
  BY <1>4 DEF Idle
<1>12. QED
  BY <1>1, <1>4, <1>5, <1>10, <1>11

\* The phases of the other packets and the requests stay.
LEMMA MoveTypes ==
    ASSUME FlightTypes, NEW p \in Packets, NEW f \in PacketState,
           flight' = [flight EXCEPT ![p] = f], requests' = requests,
           f.phase \in {"outgoing", "memory"} <=> flight[p].phase \in {"outgoing", "memory"}
    PROVE  FlightTypes'
<1>1. \A q \in Packets : flight'[q] = IF q = p THEN f ELSE flight[q]
  BY DEF FlightTypes
<1>2. flight' \in [Packets -> PacketState]
  BY DEF FlightTypes
<1>3. {q \in Packets : flight'[q].phase \in {"outgoing", "memory"}} =
          {q \in Packets : flight[q].phase \in {"outgoing", "memory"}}
  BY <1>1
<1>4. QED
  BY <1>2, <1>3 DEF FlightTypes

-----------------------------------------------------------------------------
(* What one action does to one packet.                                     *)

\* It takes a turn of the AEAD unit, or leaves the unit alone.
Turn(p, f) ==
    \/ /\ aeadNextIssue' = aeadNextIssue
       /\ f # Idle => f.aead = 0 \/ (flight[p] # Idle /\ f.aead = flight[p].aead)
    \/ \E ready \in Nat : /\ f.aead = ScheduledAead(ready).finish
                         /\ aeadNextIssue' = ScheduledAead(ready).next

\* Released when its cryptography is done.
Timely(f) ==
    f # Idle /\ f.phase # "memory" =>
        /\ f.due >= f.aead
        /\ mode = "verified" /\ f.isRead /\ f.metadata > 0 =>
              f.aead >= f.metadata + AeadLatency

Move == \E p \in Packets, f \in PacketState :
    /\ flight' = [flight EXCEPT ![p] = f]
    /\ Turn(p, f) /\ Timely(f)

CacheStep == UNCHANGED cacheVars \/ \E l \in Lines : UseLine(l)

Good == FlightTypes' /\ ClockTypes' /\ mode' = mode /\ Move /\ CacheStep

LEMMA AeadTimes ==
    ASSUME ClockTypes, NEW ready \in Nat
    PROVE  /\ ScheduledAead(ready).finish \in Nat /\ ScheduledAead(ready).next \in Nat
           /\ ScheduledAead(ready).finish >= ready + AeadLatency
           /\ ScheduledAead(ready).finish >= aeadNextIssue + AeadLatency
           /\ ScheduledAead(ready).finish + AeadIssue = ScheduledAead(ready).next + AeadLatency
BY ScheduledTimes, LatencyTypes DEF ScheduledAead, ClockTypes

LEMMA MetadataTimes ==
    ASSUME ClockTypes, NEW latency \in Nat
    PROVE  /\ ScheduledMetadata(0, latency).finish \in Nat
           /\ ScheduledMetadata(0, latency).next \in Nat
BY ScheduledTimes, LatencyTypes DEF ScheduledMetadata, ClockTypes

LEMMA ReadRequestGood ==
    ASSUME FlightTypes, ClockTypes, NEW p \in Packets, NEW l \in Lines, ReadRequest(p, l)
    PROVE  Good
<1>1. PICK latency : latency = IF mode = "baseline" THEN 0 ELSE LookupLatency(l)
  OBVIOUS
<1>2. latency \in Nat
  BY <1>1, LatencyTypes DEF LookupLatency
<1>3. PICK ready : ready = IF mode = "optimistic" THEN ScheduledMetadata(0, latency).finish ELSE 0
  OBVIOUS
<1>4. ready \in Nat /\ (mode = "verified" => ready = 0)
  BY <1>2, <1>3, MetadataTimes
<1>5. PICK f : f = Flight("outgoing", TRUE, l, 0, 0, ready)
  OBVIOUS
<1>6. /\ f \in PacketState /\ f # Idle /\ f.phase = "outgoing" /\ f.isRead = TRUE
      /\ f.due = 0 /\ f.aead = 0 /\ f.metadata = ready
  BY <1>4, <1>5 DEF Flight, PacketState, Idle
<1>7. /\ flight[p] = Idle /\ Accept(p, RequestState(TRUE, latency, ready), f)
      /\ UNCHANGED <<aeadNextIssue, writeControlNextIssue, ratchetNextIssue,
                     writesSinceRatchet, stageVars>>
      /\ metadataNextIssue' = IF mode = "optimistic" THEN ScheduledMetadata(0, latency).next
                              ELSE metadataNextIssue
      /\ CacheStep
  BY <1>1, <1>3, <1>5 DEF ReadRequest, CanRequest, CacheStep
<1>8. RequestState(TRUE, latency, ready) \in RequestStates
  BY <1>2, <1>4 DEF RequestState, RequestStates
<1>9. FlightTypes'
  BY <1>6, <1>7, <1>8, AcceptTypes
<1>10. ClockTypes' /\ mode' = mode
  BY <1>2, <1>7, MetadataTimes DEF ClockTypes, stageVars
<1>11. Turn(p, f) /\ Timely(f)
  BY <1>4, <1>6, <1>7 DEF Turn, Timely
<1>12. QED
  BY <1>6, <1>7, <1>9, <1>10, <1>11 DEF Good, Move, Accept

LEMMA BaselineWriteGood ==
    ASSUME FlightTypes, ClockTypes, NEW p \in Packets, NEW l \in Lines,
           BaselineWriteRequest(p, l)
    PROVE  Good
<1>1. PICK f : f = Flight("outgoing", FALSE, l, 0, 0, 0)
  OBVIOUS
<1>2. /\ f \in PacketState /\ f # Idle /\ f.phase = "outgoing" /\ f.isRead = FALSE
      /\ f.due = 0 /\ f.aead = 0 /\ f.metadata = 0
  BY <1>1 DEF Flight, PacketState, Idle
<1>3. /\ flight[p] = Idle /\ Accept(p, RequestState(FALSE, 0, 0), f)
      /\ UNCHANGED <<cacheVars, issueVars, stageVars>>
  BY <1>1 DEF BaselineWriteRequest, CanRequest
<1>4. RequestState(FALSE, 0, 0) \in RequestStates
  BY DEF RequestState, RequestStates
<1>5. FlightTypes'
  BY <1>2, <1>3, <1>4, AcceptTypes
<1>6. ClockTypes' /\ mode' = mode /\ aeadNextIssue' = aeadNextIssue
  BY <1>3 DEF ClockTypes, stageVars, issueVars
<1>7. Turn(p, f) /\ Timely(f)
  BY <1>2, <1>6 DEF Turn, Timely
<1>8. QED
  BY <1>2, <1>3, <1>5, <1>6, <1>7 DEF Good, Move, Accept, CacheStep

LEMMA WriteRequestGood ==
    ASSUME FlightTypes, ClockTypes, NEW p \in Packets, NEW l \in Lines, WriteRequest(p, l)
    PROVE  Good
<1>1. PICK start : start = ScheduledControl(0, ReservationLatency).finish
  OBVIOUS
<1>2. start \in Nat /\ ScheduledControl(0, ReservationLatency).next \in Nat
  BY <1>1, ControlTimes, LatencyTypes DEF ClockTypes
<1>3. PICK aead : aead = ScheduledAead(start).finish
  OBVIOUS
<1>4. aead \in Nat /\ ScheduledAead(start).next \in Nat
  BY <1>2, <1>3, AeadTimes
<1>5. PICK delay : delay = IF RatchetDue THEN ScheduledRatchet(aead).finish ELSE aead
  OBVIOUS
<1>6. /\ ScheduledRatchet(aead).finish \in Nat /\ ScheduledRatchet(aead).next \in Nat
      /\ ScheduledRatchet(aead).finish >= aead + HkdfLatency
  BY <1>4, ScheduledTimes, LatencyTypes DEF ScheduledRatchet, ClockTypes
<1>7. delay \in Nat /\ delay >= aead
  BY <1>4, <1>5, <1>6, LatencyTypes
<1>8. PICK f : f = Flight("outgoing", FALSE, l, delay, aead, 0)
  OBVIOUS
<1>9. /\ f \in PacketState /\ f # Idle /\ f.phase = "outgoing" /\ f.isRead = FALSE
      /\ f.due = delay /\ f.aead = aead /\ f.metadata = 0
  BY <1>4, <1>7, <1>8 DEF Flight, PacketState, Idle
<1>10. /\ flight[p] = Idle /\ Accept(p, RequestState(FALSE, 0, 0), f)
       /\ UNCHANGED <<metadataNextIssue, cacheVars, stageVars>>
       /\ writeControlNextIssue' = ScheduledControl(0, ReservationLatency).next
       /\ aeadNextIssue' = ScheduledAead(start).next
       /\ ratchetNextIssue' = IF RatchetDue THEN ScheduledRatchet(aead).next
                              ELSE ratchetNextIssue
       /\ writesSinceRatchet' \in {0, writesSinceRatchet + 1}
  BY <1>1, <1>3, <1>5, <1>8 DEF WriteRequest, CanRequest
<1>11. RequestState(FALSE, 0, 0) \in RequestStates
  BY DEF RequestState, RequestStates
<1>12. FlightTypes'
  BY <1>9, <1>10, <1>11, AcceptTypes
<1>13. ClockTypes' /\ mode' = mode
  BY <1>2, <1>4, <1>6, <1>10 DEF ClockTypes, stageVars
<1>14. Turn(p, f) /\ Timely(f)
  BY <1>2, <1>3, <1>7, <1>9, <1>10 DEF Turn, Timely
<1>15. QED
  BY <1>9, <1>10, <1>12, <1>13, <1>14 DEF Good, Move, Accept, CacheStep

LEMMA SendGood ==
    ASSUME FlightTypes, ClockTypes, NEW p \in Packets, Send(p)
    PROVE  Good
<1>1. flight[p] # Idle
  BY DEF Send, Idle
<1>2. PICK g : g = flight[p] /\ g # Idle
  BY <1>1
<1>3. g \in [phase : {"outgoing", "memory", "incoming"}, isRead : BOOLEAN,
             line : Lines, due : Nat, aead : Nat, metadata : Nat]
  BY <1>2, PacketFields
<1>4. PICK latency \in MemoryLatencies :
          flight' = [flight EXCEPT ![p] = [@ EXCEPT !.phase = "memory", !.due = latency]]
  BY DEF Send
<1>5. PICK f : f = [g EXCEPT !.phase = "memory", !.due = latency]
  OBVIOUS
<1>6. f \in PacketState /\ f.phase = "memory" /\ f.aead = g.aead
  BY <1>3, <1>5, LatencyTypes DEF PacketState
<1>7. flight' = [flight EXCEPT ![p] = f]
  BY <1>2, <1>4, <1>5
<1>8. FlightTypes'
  BY <1>6, <1>7, MoveTypes DEF Send
<1>9. ClockTypes' /\ mode' = mode /\ aeadNextIssue' = aeadNextIssue /\ CacheStep
  BY DEF Send, ClockTypes, stageVars, issueVars, CacheStep
<1>10. Turn(p, f) /\ Timely(f)
  BY <1>2, <1>6, <1>9 DEF Turn, Timely
<1>11. QED
  BY <1>6, <1>7, <1>8, <1>9, <1>10 DEF Good, Move

\* The answer of a packet at memory is released "delay" from now.
LEMMA AnswerGood ==
    ASSUME FlightTypes, ClockTypes', mode' = mode, CacheStep, NEW p \in Packets,
           flight[p].phase = "memory",
           NEW delay \in Nat, NEW aead \in Nat, NEW metadata \in Nat,
           Release(p, delay, aead, metadata), Forget(p), delay >= aead,
           mode = "verified" /\ flight[p].isRead /\ metadata > 0 =>
               aead >= metadata + AeadLatency,
           \/ aead = 0 /\ aeadNextIssue' = aeadNextIssue
           \/ \E ready \in Nat : /\ aead = ScheduledAead(ready).finish
                                /\ aeadNextIssue' = ScheduledAead(ready).next
    PROVE  Good
<1>1. FlightTypes'
  BY ReleaseTypes
<1>2. PICK f \in PacketState :
         /\ flight' = [flight EXCEPT ![p] = f] /\ f # Idle
         /\ f.phase = "incoming" /\ f.due = delay /\ f.aead = aead
         /\ f.metadata = metadata /\ f.isRead = flight[p].isRead
  BY ReleaseTypes
<1>3. Turn(p, f)
  BY <1>2 DEF Turn
<1>4. Timely(f)
  BY <1>2 DEF Timely
<1>5. QED
  BY <1>1, <1>2, <1>3, <1>4 DEF Good, Move

\* The request of a packet at memory is known.
LEMMA AtMemoryFacts ==
    ASSUME FlightTypes, NEW p \in Packets, NEW isRead, AtMemory(p, isRead)
    PROVE  /\ flight[p].phase = "memory" /\ flight[p].line \in Lines
           /\ requests[p] \in RequestStates
<1>1. flight[p].phase = "memory"
  BY DEF AtMemory
<1>2. flight[p].line \in Lines
  BY <1>1, PacketFields DEF Idle
<1>3. QED
  BY <1>1, <1>2 DEF FlightTypes

LEMMA OptimisticGood ==
    ASSUME FlightTypes, ClockTypes, NEW p \in Packets, OptimisticReadResponse(p)
    PROVE  Good
<1>1. PICK aead : aead = ScheduledAead(0).finish
  OBVIOUS
<1>2. aead \in Nat /\ ScheduledAead(0).next \in Nat
  BY <1>1, AeadTimes
<1>3. PICK metadata : metadata = requests[p].metadataReady
  OBVIOUS
<1>4. /\ mode = "optimistic" /\ AtMemory(p, TRUE)
      /\ Release(p, aead, aead, metadata) /\ Forget(p)
      /\ aeadNextIssue' = ScheduledAead(0).next
      /\ UNCHANGED <<metadataNextIssue, writeControlNextIssue, ratchetNextIssue,
                     writesSinceRatchet, cacheVars, stageVars>>
  BY <1>1, <1>3 DEF OptimisticReadResponse
<1>5. flight[p].phase = "memory" /\ metadata \in Nat
  BY <1>3, <1>4, AtMemoryFacts DEF RequestStates
<1>6. ClockTypes' /\ mode' = mode /\ CacheStep
  BY <1>2, <1>4 DEF ClockTypes, stageVars, CacheStep
<1>7. QED
  BY <1>1, <1>2, <1>4, <1>5, <1>6, AnswerGood

LEMMA VerifiedGood ==
    ASSUME FlightTypes, ClockTypes, NEW p \in Packets, VerifiedReadResponse(p)
    PROVE  Good
<1>1. PICK latency : latency = requests[p].metadataLatency
  OBVIOUS
<1>2. PICK lookup : lookup = ScheduledMetadata(0, latency).finish
  OBVIOUS
<1>3. PICK aead : aead = ScheduledAead(lookup).finish
  OBVIOUS
<1>4. /\ AtMemory(p, TRUE) /\ Release(p, aead, aead, lookup) /\ Forget(p)
      /\ metadataNextIssue' = ScheduledMetadata(0, latency).next
      /\ aeadNextIssue' = ScheduledAead(lookup).next
      /\ UNCHANGED <<writeControlNextIssue, ratchetNextIssue, writesSinceRatchet,
                     cacheVars, stageVars>>
  BY <1>1, <1>2, <1>3 DEF VerifiedReadResponse, ReadyWithVersion
<1>5. flight[p].phase = "memory" /\ latency \in Nat
  BY <1>1, <1>4, AtMemoryFacts DEF RequestStates
<1>6. lookup \in Nat /\ ScheduledMetadata(0, latency).next \in Nat
  BY <1>2, <1>5, MetadataTimes
<1>7. aead \in Nat /\ ScheduledAead(lookup).next \in Nat /\ aead >= lookup + AeadLatency
  BY <1>3, <1>6, AeadTimes
<1>8. ClockTypes' /\ mode' = mode /\ CacheStep
  BY <1>4, <1>6, <1>7 DEF ClockTypes, stageVars, CacheStep
<1>9. QED
  BY <1>3, <1>4, <1>5, <1>6, <1>7, <1>8, AnswerGood

LEMMA BaselineReadGood ==
    ASSUME FlightTypes, ClockTypes, NEW p \in Packets, BaselineReadResponse(p)
    PROVE  Good
<1>1. /\ AtMemory(p, TRUE) /\ Release(p, 0, 0, 0) /\ Forget(p)
      /\ UNCHANGED <<cacheVars, issueVars, stageVars>>
  BY DEF BaselineReadResponse
<1>2. flight[p].phase = "memory"
  BY <1>1, AtMemoryFacts
<1>3. ClockTypes' /\ mode' = mode /\ CacheStep /\ aeadNextIssue' = aeadNextIssue
  BY <1>1 DEF ClockTypes, stageVars, issueVars, CacheStep
<1>4. QED
  BY <1>1, <1>2, <1>3, AnswerGood

LEMMA WriteResponseGood ==
    ASSUME FlightTypes, ClockTypes, NEW p \in Packets, WriteResponse(p)
    PROVE  Good
<1>1. PICK delay : delay = ScheduledControl(0, CommitLatency).finish
  OBVIOUS
<1>2. delay \in Nat /\ ScheduledControl(0, CommitLatency).next \in Nat
  BY <1>1, ControlTimes, LatencyTypes DEF ClockTypes
<1>3. /\ AtMemory(p, FALSE) /\ Release(p, delay, 0, 0) /\ Forget(p)
      /\ writeControlNextIssue' = ScheduledControl(0, CommitLatency).next
      /\ UseLine(flight[p].line)
      /\ UNCHANGED <<metadataNextIssue, aeadNextIssue, ratchetNextIssue,
                     writesSinceRatchet, stageVars>>
  BY <1>1 DEF WriteResponse
<1>4. flight[p].phase = "memory" /\ flight[p].line \in Lines
  BY <1>3, AtMemoryFacts
<1>5. ClockTypes' /\ mode' = mode
  BY <1>2, <1>3 DEF ClockTypes, stageVars
<1>6. CacheStep
  BY <1>3, <1>4 DEF CacheStep
<1>7. QED
  BY <1>2, <1>3, <1>4, <1>5, <1>6, AnswerGood

LEMMA DeliverGood ==
    ASSUME FlightTypes, ClockTypes, NEW p \in Packets, Deliver(p)
    PROVE  Good
<1>1. /\ flight[p].phase = "incoming" /\ flight' = [flight EXCEPT ![p] = Idle]
      /\ UNCHANGED <<cacheVars, issueVars, stageVars, requests>>
  BY DEF Deliver
<1>2. Idle \in PacketState /\ Idle.phase = "idle"
  BY DEF PacketState, Idle
<1>3. FlightTypes'
  BY <1>1, <1>2, MoveTypes
<1>4. ClockTypes' /\ mode' = mode /\ CacheStep /\ aeadNextIssue' = aeadNextIssue
  BY <1>1 DEF ClockTypes, stageVars, issueVars, CacheStep
<1>5. Turn(p, Idle) /\ Timely(Idle)
  BY <1>4 DEF Turn, Timely
<1>6. QED
  BY <1>1, <1>2, <1>3, <1>4, <1>5 DEF Good, Move

\* Every action but those of the experiment and of time.
LEMMA ActionsGood ==
    ASSUME FlightTypes, ClockTypes, [Next]_vars
    PROVE  Good \/ EndWarmup \/ ResetStats \/ Tick \/ UNCHANGED vars
<1>1. ASSUME NEW p \in Packets, NEW l \in Lines,
             ReadRequest(p, l) \/ BaselineWriteRequest(p, l) \/ WriteRequest(p, l)
      PROVE  Good
  BY <1>1, ReadRequestGood, BaselineWriteGood, WriteRequestGood
<1>2. ASSUME NEW p \in Packets,
             \/ Send(p)
             \/ BaselineReadResponse(p) \/ OptimisticReadResponse(p) \/ VerifiedReadResponse(p)
             \/ WriteResponse(p)
             \/ Deliver(p)
      PROVE  Good
  BY <1>2, SendGood, BaselineReadGood, OptimisticGood, VerifiedGood, WriteResponseGood,
     DeliverGood
<1>3. QED
  BY <1>1, <1>2 DEF Next

-----------------------------------------------------------------------------
(* Time.                                                                   *)

\* All times of a packet come one nearer, nothing else of it changes.
LEMMA TickPacket ==
    ASSUME FlightTypes, Tick, NEW p \in Packets
    PROVE  /\ flight[p] = Idle => flight'[p] = Idle
           /\ flight[p] # Idle =>
                 /\ flight'[p] \in PacketState /\ flight'[p] # Idle
                 /\ flight'[p].phase = flight[p].phase /\ flight'[p].isRead = flight[p].isRead
                 /\ flight'[p].due = Nearer(flight[p].due)
                 /\ flight'[p].aead = Nearer(flight[p].aead)
                 /\ flight'[p].metadata = Nearer(flight[p].metadata)
<1>1. flight'[p] = IF flight[p] = Idle THEN Idle ELSE
          [flight[p] EXCEPT !.due = Nearer(@), !.aead = Nearer(@), !.metadata = Nearer(@)]
  BY DEF Tick
<1>2. ASSUME flight[p] # Idle
      PROVE  /\ flight'[p] \in PacketState /\ flight'[p] # Idle
             /\ flight'[p].phase = flight[p].phase /\ flight'[p].isRead = flight[p].isRead
             /\ flight'[p].due = Nearer(flight[p].due)
             /\ flight'[p].aead = Nearer(flight[p].aead)
             /\ flight'[p].metadata = Nearer(flight[p].metadata)
  <2>1. PICK g : g = flight[p]
    OBVIOUS
  <2>2. g \in [phase : {"outgoing", "memory", "incoming"}, isRead : BOOLEAN,
               line : Lines, due : Nat, aead : Nat, metadata : Nat]
    BY <1>2, <2>1, PacketFields
  <2>3. Nearer(g.due) \in Nat /\ Nearer(g.aead) \in Nat /\ Nearer(g.metadata) \in Nat
    BY <2>2, NearerType
  <2>4. PICK due, aead, metadata : /\ due = Nearer(g.due) /\ aead = Nearer(g.aead)
                                   /\ metadata = Nearer(g.metadata)
    OBVIOUS
  <2>5. PICK f : f = [g EXCEPT !.due = due, !.aead = aead, !.metadata = metadata]
    OBVIOUS
  <2>6. flight'[p] = f
    BY <1>1, <1>2, <2>1, <2>4, <2>5
  <2>7. /\ f \in PacketState /\ f.phase = g.phase /\ f.isRead = g.isRead
        /\ f.due = due /\ f.aead = aead /\ f.metadata = metadata
    BY <2>2, <2>3, <2>4, <2>5 DEF PacketState
  <2>8. f # Idle
    BY <2>2, <2>7 DEF Idle
  <2>9. QED
    BY <2>1, <2>4, <2>6, <2>7, <2>8
<1>3. QED
  BY <1>1, <1>2

LEMMA TickTypes ==
    ASSUME FlightTypes, ClockTypes, Tick
    PROVE  FlightTypes' /\ ClockTypes'
<1>1. flight' \in [Packets -> PacketState]
  <2>1. flight' = [p \in Packets |-> flight'[p]]
    BY DEF Tick
  <2>2. Idle \in PacketState
    BY DEF PacketState
  <2>3. \A p \in Packets : flight'[p] \in PacketState
    BY <2>2, TickPacket
  <2>4. QED
    BY <2>1, <2>3
<1>2. {p \in Packets : flight'[p].phase \in {"outgoing", "memory"}} =
          {p \in Packets : flight[p].phase \in {"outgoing", "memory"}}
  BY TickPacket
<1>3. DOMAIN requests' = DOMAIN requests
  BY DEF Tick
<1>4. ASSUME NEW p \in DOMAIN requests PROVE requests'[p] \in RequestStates
  <2>1. PICK r \in RequestStates : r = requests[p]
    BY DEF FlightTypes
  <2>2. Nearer(r.metadataReady) \in Nat
    BY NearerType DEF RequestStates
  <2>3. requests'[p] = [r EXCEPT !.metadataReady = Nearer(r.metadataReady)]
    BY <2>1 DEF Tick
  <2>4. QED
    BY <2>2, <2>3 DEF RequestStates
<1>5. ClockTypes'
  BY NearerType DEF ClockTypes, Tick
<1>6. QED
  BY <1>1, <1>2, <1>3, <1>4, <1>5 DEF FlightTypes

-----------------------------------------------------------------------------
(* The spacing of AEAD operations, and what is released when.              *)

\* No operation given a turn is later than the next turn allows.
AeadInv == \A p \in Packets :
    flight[p] # Idle /\ flight[p].aead > 0 =>
        flight[p].aead + AeadIssue <= aeadNextIssue + AeadLatency

LEMMA MoveSpaced ==
    ASSUME FlightTypes, ClockTypes, AeadInv, AeadSpaced, Move
    PROVE  AeadInv' /\ AeadSpaced'
<1>1. PICK p \in Packets, f \in PacketState :
          flight' = [flight EXCEPT ![p] = f] /\ Turn(p, f)
  BY DEF Move
<1>2. \A q \in Packets : flight'[q] = IF q = p THEN f ELSE flight[q]
  BY <1>1 DEF FlightTypes
<1>3. aeadNextIssue \in Nat /\ AeadIssue \in Nat /\ AeadLatency \in Nat
  BY LatencyTypes DEF ClockTypes
<1>4. \A q \in Packets : flight[q] # Idle => flight[q].aead \in Nat
  BY PacketFields
<1>5. CASE /\ aeadNextIssue' = aeadNextIssue
           /\ f # Idle => f.aead = 0 \/ (flight[p] # Idle /\ f.aead = flight[p].aead)
  <2>1. \A q \in Packets : flight'[q] # Idle /\ flight'[q].aead > 0 =>
            flight[q] # Idle /\ flight[q].aead = flight'[q].aead
    BY <1>2, <1>5
  <2>2. AeadInv'
    BY <1>5, <2>1 DEF AeadInv
  <2>3. \A q \in Packets : flight'[q] # Idle => flight'[q].aead \in Nat
    BY <1>2, <1>4, <1>5
  <2>4. ASSUME NEW a \in Packets, NEW b \in Packets, a # b,
               flight'[a] # Idle, flight'[b] # Idle,
               flight'[a].aead > 0, flight'[b].aead >= flight'[a].aead
        PROVE  flight'[b].aead - flight'[a].aead >= AeadIssue
    <3>1. flight'[b].aead > 0
      BY <2>3, <2>4
    <3>2. /\ flight[a] # Idle /\ flight[a].aead = flight'[a].aead
          /\ flight[b] # Idle /\ flight[b].aead = flight'[b].aead
      BY <2>1, <2>4, <3>1
    <3>3. QED
      BY <2>4, <3>2 DEF AeadSpaced
  <2>5. QED
    BY <2>2, <2>4 DEF AeadSpaced
<1>6. ASSUME NEW ready \in Nat, f.aead = ScheduledAead(ready).finish,
             aeadNextIssue' = ScheduledAead(ready).next
      PROVE  AeadInv' /\ AeadSpaced'
  <2>1. /\ f.aead \in Nat /\ aeadNextIssue' \in Nat
        /\ f.aead >= aeadNextIssue + AeadLatency
        /\ f.aead + AeadIssue = aeadNextIssue' + AeadLatency
    BY <1>6, AeadTimes
  \* Every other operation is done an interval before this one.
  <2>2. \A q \in Packets : q # p /\ flight[q] # Idle /\ flight[q].aead > 0 =>
            flight[q].aead + AeadIssue <= f.aead
    BY <1>3, <1>4, <2>1 DEF AeadInv
  <2>3. AeadInv'
    <3>1. ASSUME NEW q \in Packets, flight'[q] # Idle, flight'[q].aead > 0
          PROVE  flight'[q].aead + AeadIssue <= aeadNextIssue' + AeadLatency
      <4>1. CASE q = p
        BY <1>2, <1>3, <2>1, <4>1
      <4>2. CASE q # p
        <5>1. flight[q].aead \in Nat /\ flight[q].aead + AeadIssue <= f.aead
          BY <1>2, <1>4, <2>2, <3>1, <4>2
        <5>2. QED
          BY <1>2, <1>3, <2>1, <4>2, <5>1
      <4>3. QED
        BY <4>1, <4>2
    <3>2. QED
      BY <3>1 DEF AeadInv
  <2>4. ASSUME NEW a \in Packets, NEW b \in Packets, a # b,
               flight'[a] # Idle, flight'[b] # Idle,
               flight'[a].aead > 0, flight'[b].aead >= flight'[a].aead
        PROVE  flight'[b].aead - flight'[a].aead >= AeadIssue
    <3>1. CASE a # p /\ b # p
      <4>1. flight'[a] = flight[a] /\ flight'[b] = flight[b]
        BY <1>2, <3>1
      <4>2. QED
        BY <2>4, <4>1 DEF AeadSpaced
    <3>2. CASE b = p
      <4>1. flight'[a] = flight[a] /\ flight'[b] = f
        BY <1>2, <2>4, <3>2
      <4>2. flight[a].aead \in Nat /\ flight[a].aead + AeadIssue <= f.aead
        BY <1>4, <2>2, <2>4, <3>2, <4>1
      <4>3. QED
        BY <1>3, <2>1, <4>1, <4>2
    <3>3. CASE a = p
      <4>1. flight'[a] = f /\ flight'[b] = flight[b]
        BY <1>2, <2>4, <3>3
      <4>2. flight[b].aead \in Nat /\ flight[b].aead > 0
        BY <1>4, <2>1, <2>4, <4>1
      <4>3. flight[b].aead + AeadIssue <= f.aead
        BY <2>2, <2>4, <3>3, <4>1, <4>2
      <4>4. QED
        BY <1>3, <2>1, <2>4, <4>1, <4>2, <4>3
    <3>4. QED
      BY <3>1, <3>2, <3>3
  <2>5. QED
    BY <2>3, <2>4 DEF AeadSpaced
<1>7. QED
  BY <1>1, <1>5, <1>6 DEF Turn

LEMMA TickSpaced ==
    ASSUME FlightTypes, ClockTypes, AeadInv, AeadSpaced, Tick
    PROVE  AeadInv' /\ AeadSpaced'
<1>1. aeadNextIssue \in Nat /\ AeadIssue \in Nat /\ AeadLatency \in Nat
      /\ aeadNextIssue' = Nearer(aeadNextIssue)
  BY LatencyTypes DEF ClockTypes, Tick
<1>2. ASSUME NEW p \in Packets, flight'[p] # Idle
      PROVE  /\ flight[p] # Idle /\ flight[p].aead \in Nat
             /\ flight'[p].aead = Nearer(flight[p].aead)
  BY <1>2, TickPacket, PacketFields
<1>3. ASSUME NEW p \in Packets, flight'[p] # Idle, flight'[p].aead > 0
      PROVE  flight'[p].aead + AeadIssue <= aeadNextIssue' + AeadLatency
  <2>1. PICK t \in Nat : t = flight[p].aead /\ flight'[p].aead = Nearer(t) /\ flight[p] # Idle
    BY <1>2, <1>3
  <2>2. t > 1 /\ flight'[p].aead = t - 1
    BY <1>3, <2>1 DEF Nearer
  <2>3. t + AeadIssue <= aeadNextIssue + AeadLatency
    BY <2>1, <2>2 DEF AeadInv
  <2>4. QED
    BY <1>1, <2>2, <2>3 DEF Nearer
<1>4. ASSUME NEW a \in Packets, NEW b \in Packets, a # b,
             flight'[a] # Idle, flight'[b] # Idle,
             flight'[a].aead > 0, flight'[b].aead >= flight'[a].aead
      PROVE  flight'[b].aead - flight'[a].aead >= AeadIssue
  <2>1. PICK s \in Nat, t \in Nat :
            /\ s = flight[a].aead /\ flight'[a].aead = Nearer(s) /\ flight[a] # Idle
            /\ t = flight[b].aead /\ flight'[b].aead = Nearer(t) /\ flight[b] # Idle
    BY <1>2, <1>4
  <2>2. /\ s > 1 /\ flight'[a].aead = s - 1 /\ t > 1 /\ flight'[b].aead = t - 1 /\ t >= s
    BY <1>4, <2>1 DEF Nearer
  <2>3. t - s >= AeadIssue
    BY <1>4, <2>1, <2>2 DEF AeadSpaced
  <2>4. QED
    BY <1>1, <2>2, <2>3
<1>5. QED
  BY <1>3, <1>4 DEF AeadInv, AeadSpaced

LEMMA MoveTimely ==
    ASSUME FlightTypes, NothingLeavesEarly, Move, mode' = mode
    PROVE  NothingLeavesEarly'
<1>1. PICK p \in Packets, f \in PacketState :
          flight' = [flight EXCEPT ![p] = f] /\ Timely(f)
  BY DEF Move
<1>2. \A q \in Packets : flight'[q] = IF q = p THEN f ELSE flight[q]
  BY <1>1 DEF FlightTypes
<1>3. QED
  BY <1>1, <1>2 DEF NothingLeavesEarly, Timely

LEMMA TickTimely ==
    ASSUME FlightTypes, NothingLeavesEarly, Tick
    PROVE  NothingLeavesEarly'
<1>1. mode' = mode /\ AeadLatency \in Nat
  BY LatencyTypes DEF Tick
<1>2. ASSUME NEW p \in Packets, flight'[p] # Idle, flight'[p].phase # "memory"
      PROVE  /\ flight'[p].due >= flight'[p].aead
             /\ mode' = "verified" /\ flight'[p].isRead /\ flight'[p].metadata > 0 =>
                   flight'[p].aead >= flight'[p].metadata + AeadLatency
  <2>1. /\ flight[p] # Idle /\ flight[p].phase # "memory"
        /\ flight'[p].isRead = flight[p].isRead
        /\ flight'[p].due = Nearer(flight[p].due)
        /\ flight'[p].aead = Nearer(flight[p].aead)
        /\ flight'[p].metadata = Nearer(flight[p].metadata)
    BY <1>2, TickPacket
  <2>2. flight[p].due \in Nat /\ flight[p].aead \in Nat /\ flight[p].metadata \in Nat
    BY <2>1, PacketFields
  <2>3. PICK d \in Nat, a \in Nat, m \in Nat :
            d = flight[p].due /\ a = flight[p].aead /\ m = flight[p].metadata
    BY <2>2
  <2>4. d >= a /\ (mode = "verified" /\ flight[p].isRead /\ m > 0 => a >= m + AeadLatency)
    BY <2>1, <2>3 DEF NothingLeavesEarly
  <2>5. flight'[p].due = Nearer(d) /\ flight'[p].aead = Nearer(a) /\ flight'[p].metadata = Nearer(m)
    BY <2>1, <2>3
  <2>6. Nearer(d) >= Nearer(a)
    BY <2>4 DEF Nearer
  <2>7. ASSUME mode = "verified", flight[p].isRead, Nearer(m) > 0
        PROVE  Nearer(a) >= Nearer(m) + AeadLatency
    <3>1. m > 1 /\ Nearer(m) = m - 1
      BY <2>7 DEF Nearer
    <3>2. a >= m + AeadLatency
      BY <2>4, <2>7, <3>1
    <3>3. QED
      BY <1>1, <3>1, <3>2 DEF Nearer
  <2>8. QED
    BY <1>1, <2>1, <2>5, <2>6, <2>7
<1>3. QED
  BY <1>2 DEF NothingLeavesEarly

-----------------------------------------------------------------------------
(* The theorems.                                                           *)

TimingInv ==
    /\ FlightTypes /\ ClockTypes /\ CacheInv /\ CacheIsMostRecent
    /\ AeadInv /\ AeadSpaced /\ NothingLeavesEarly

LEMMA TimingInitial == Init => TimingInv
<1>. SUFFICES ASSUME Init PROVE TimingInv
  OBVIOUS
<1>1. \A p \in Packets : flight[p] = Idle
  BY DEF Init
<1>2. FlightTypes
  <2>1. Idle \in PacketState /\ Idle.phase = "idle"
    BY DEF PacketState, Idle
  <2>2. flight \in [Packets -> PacketState]
    BY <2>1 DEF Init
  <2>3. {p \in Packets : flight[p].phase \in {"outgoing", "memory"}} = {}
    BY <1>1, <2>1
  <2>4. DOMAIN requests = {}
    BY DEF Init
  <2>5. QED
    BY <2>2, <2>3, <2>4 DEF FlightTypes
<1>3. ClockTypes
  BY DEF Init, ClockTypes
<1>4. later = {} /\ Used = {} /\ \A s \in DOMAIN cache : cache[s] = <<>>
  BY DEF Init, Used
<1>5. DOMAIN <<>> = {} /\ Len(<<>>) = 0 /\ <<>> \in Seq(Lines)
  OBVIOUS
<1>6. ASSUME NEW s \in DOMAIN cache PROVE Assoc >= 0
  BY CacheAssumption
<1>7. cache \in [0..(Sets - 1) -> Seq(Lines)]
  BY <1>5 DEF Init
<1>8. CacheInv
  BY <1>4, <1>5, <1>6, <1>7 DEF CacheInv, Before
<1>9. CacheIsMostRecent
  BY <1>4, <1>5 DEF CacheIsMostRecent
<1>10. AeadInv /\ AeadSpaced /\ NothingLeavesEarly
  BY <1>1 DEF AeadInv, AeadSpaced, NothingLeavesEarly
<1>11. QED
  BY <1>2, <1>3, <1>8, <1>9, <1>10 DEF TimingInv

LEMMA SameCache ==
    ASSUME CacheInv, CacheIsMostRecent, UNCHANGED cacheVars
    PROVE  CacheInv' /\ CacheIsMostRecent'
BY DEF CacheInv, CacheIsMostRecent, cacheVars, Used, Before

LEMMA TimingStep == TimingInv /\ [Next]_vars => TimingInv'
<1>. SUFFICES ASSUME TimingInv, [Next]_vars PROVE TimingInv'
  OBVIOUS
<1>. USE DEF TimingInv
<1>1. Good \/ EndWarmup \/ ResetStats \/ Tick \/ UNCHANGED vars
  BY ActionsGood
<1>2. CASE Good
  <2>1. CacheInv' /\ CacheIsMostRecent'
    BY <1>2, SameCache, UseLineKeeps DEF Good, CacheStep
  <2>2. AeadInv' /\ AeadSpaced' /\ NothingLeavesEarly'
    BY <1>2, MoveSpaced, MoveTimely DEF Good
  <2>3. QED
    BY <1>2, <2>1, <2>2 DEF Good
<1>3. CASE EndWarmup \/ ResetStats \/ UNCHANGED vars
  <2>1. /\ UNCHANGED <<mode, cacheVars, issueVars, requests, flight>>
        /\ stage' \in {stage, "drain", "measured"} /\ drainLeft' \in {drainLeft, DrainTicks}
    BY <1>3 DEF EndWarmup, ResetStats, vars, stageVars
  <2>2. CacheInv' /\ CacheIsMostRecent'
    BY <2>1, SameCache
  <2>3. FlightTypes'
    BY <2>1 DEF FlightTypes
  <2>4. ClockTypes'
    BY <2>1, LatencyTypes DEF ClockTypes, issueVars
  <2>5. AeadInv' /\ AeadSpaced' /\ NothingLeavesEarly'
    BY <2>1 DEF AeadInv, AeadSpaced, NothingLeavesEarly, issueVars
  <2>6. QED
    BY <2>2, <2>3, <2>4, <2>5
<1>4. CASE Tick
  <2>1. CacheInv' /\ CacheIsMostRecent'
    BY <1>4, SameCache DEF Tick
  <2>2. QED
    BY <1>4, <2>1, TickTypes, TickSpaced, TickTimely
<1>5. QED
  BY <1>1, <1>2, <1>3, <1>4

THEOREM TimingInvariant == Spec => []TimingInv
<1>1. Init => TimingInv
  BY TimingInitial
<1>2. TimingInv /\ [Next]_vars => TimingInv'
  BY TimingStep
<1>3. QED
  BY <1>1, <1>2, PTL DEF Spec

\* Every variable keeps its type; the controller has a RequestState (ebfi_controller.cc,
\* delayReq and delayResp) for exactly the packets that are on their way to memory.
THEOREM TimingTyped == Spec => []TypeOK
<1>1. TimingInv => TypeOK
  BY DEF TimingInv, FlightTypes, ClockTypes, CacheInv, TypeOK, RequestStates
<1>2. QED
  BY <1>1, TimingInvariant, PTL

\* lookupMetadata and touchMetadata keep in every set of the version cache the
\* lines used last, in order and once, for any geometry and any number of packets.
THEOREM CacheMostRecent == Spec => []CacheIsMostRecent
<1>1. TimingInv => CacheIsMostRecent
  BY DEF TimingInv
<1>2. QED
  BY <1>1, TimingInvariant, PTL

\* scheduleAead never lets two operations finish less than an issue interval
\* apart, although turns are given for times in the future and in any order.
THEOREM AeadTurns == Spec => []AeadSpaced
<1>1. TimingInv => AeadSpaced
  BY DEF TimingInv
<1>2. QED
  BY <1>1, TimingInvariant, PTL

\* What delayReq and delayResp add is enough for the packet's own cryptography,
\* and in verified mode for the lookup before it, for any latencies.
THEOREM NothingEarly == Spec => []NothingLeavesEarly
<1>1. TimingInv => NothingLeavesEarly
  BY DEF TimingInv
<1>2. QED
  BY <1>1, TimingInvariant, PTL

-----------------------------------------------------------------------------
(* Backlogs.                                                               *)

\* If "next" is the next issue time of a unit with the given interval, then the
\* packets that wait account for all the turns given: for every t, they that wait
\* for t or longer are enough for the turns from t on.
Holding(wait, t) == {p \in Packets : wait[p] >= t}
Backlog(next, issue, wait) ==
    \A t \in 1..next : next < t + issue * Cardinality(Holding(wait, t))

LEMMA Products ==
    ASSUME NEW i \in Nat, NEW x \in Nat, NEW c \in Nat, NEW d \in Nat, i <= x, c <= d
    PROVE  /\ i * c \in Nat /\ i * c <= x * d
           /\ x * (c + 1) = x * c + x
<1>1. i * c <= x * c
  BY Z3
<1>2. x * c <= x * d
  BY Z3
<1>3. i * c \in Nat /\ x * c \in Nat /\ x * d \in Nat
  BY Z3
<1>4. x * (c + 1) = x * c + x
  BY Z3
<1>5. QED
  BY <1>1, <1>2, <1>3, <1>4

LEMMA HoldingSize ==
    ASSUME NEW h, NEW t
    PROVE  /\ K \in Nat /\ IsFiniteSet(Holding(h, t))
           /\ Cardinality(Holding(h, t)) \in Nat
           /\ \A p \in Packets : K >= 1 /\
                 (p \notin Holding(h, t) => Cardinality(Holding(h, t)) <= K - 1)
<1>1. IsFiniteSet(Packets) /\ Holding(h, t) \subseteq Packets
  BY PacketsAssumption DEF Holding
<1>2. /\ K \in Nat /\ IsFiniteSet(Holding(h, t))
      /\ Cardinality(Holding(h, t)) \in Nat
  BY <1>1, FS_Subset, FS_CardinalityType DEF K
<1>3. ASSUME NEW p \in Packets
      PROVE  K >= 1 /\ (p \notin Holding(h, t) => Cardinality(Holding(h, t)) <= K - 1)
  <2>1. IsFiniteSet(Packets \ {p}) /\ Cardinality(Packets \ {p}) = K - 1
    BY <1>1, FS_RemoveElement DEF K
  <2>2. Cardinality(Packets \ {p}) \in Nat
    BY <2>1, FS_CardinalityType
  <2>3. ASSUME p \notin Holding(h, t) PROVE Cardinality(Holding(h, t)) <= K - 1
    <3>1. Holding(h, t) \subseteq Packets \ {p}
      BY <1>1, <2>3
    <3>2. QED
      BY <2>1, <3>1, FS_Subset
  <2>4. QED
    BY <1>2, <2>1, <2>2, <2>3
<1>4. QED
  BY <1>2, <1>3

\* Whoever comes finds no longer a backlog than all others can account for.
LEMMA BacklogRoom ==
    ASSUME NEW n \in Int, NEW issue \in Nat, NEW h \in [Packets -> Nat], Backlog(n, issue, h),
           NEW p \in Packets, h[p] = 0
    PROVE  n <= issue * (K - 1)
<1>1. PICK c : c = Cardinality(Holding(h, 1))
  OBVIOUS
<1>2. c \in Nat /\ K - 1 \in Nat /\ c <= K - 1
  <2>1. p \notin Holding(h, 1)
    BY DEF Holding
  <2>2. QED
    BY <1>1, <2>1, HoldingSize
<1>3. issue * c <= issue * (K - 1) /\ issue * c \in Nat
  BY <1>2, Products
<1>4. PICK m : m = issue * c
  OBVIOUS
<1>5. issue * (K - 1) \in Nat
  BY <1>2, Products
<1>6. CASE n >= 1
  <2>1. n < 1 + issue * c
    BY <1>1, <1>6 DEF Backlog
  <2>2. QED
    BY <1>3, <1>4, <1>5, <2>1
<1>7. QED
  BY <1>5, <1>6

\* One more turn, for a packet that waits until the next can be given.
LEMMA BacklogTake ==
    ASSUME NEW n \in Int, NEW issue \in Nat, NEW h \in [Packets -> Nat], Backlog(n, issue, h),
           NEW p \in Packets, h[p] = 0, NEW d \in Nat,
           NEW x \in Nat, issue <= x, NEW n1 \in Int, n1 <= n + x, n1 <= d
    PROVE  Backlog(n1, x, [h EXCEPT ![p] = d])
<1>1. PICK h1 : h1 = [h EXCEPT ![p] = d]
  OBVIOUS
<1>2. ASSUME NEW t \in 1..n1 PROVE n1 < t + x * Cardinality(Holding(h1, t))
  <2>1. p \notin Holding(h, t) /\ Holding(h1, t) = Holding(h, t) \cup {p}
    BY <1>1 DEF Holding
  <2>2. PICK c : c = Cardinality(Holding(h, t))
    OBVIOUS
  <2>3. IsFiniteSet(Holding(h, t)) /\ c \in Nat
    BY <2>2, HoldingSize
  <2>4. Cardinality(Holding(h1, t)) = c + 1
    BY <2>1, <2>2, <2>3, FS_AddElement
  <2>5. issue * c <= x * c /\ issue * c \in Nat /\ x * c \in Nat /\ x * (c + 1) = x * c + x
    BY <2>3, Products
  <2>6. PICK m, k : m = issue * c /\ k = x * c
    OBVIOUS
  <2>7. CASE t <= n
    <3>1. n < t + issue * c
      BY <2>2, <2>7 DEF Backlog
    <3>2. QED
      BY <2>4, <2>5, <2>6, <3>1
  <2>8. CASE t > n
    BY <2>4, <2>5, <2>6, <2>8
  <2>9. QED
    BY <2>7, <2>8
<1>3. QED
  BY <1>1, <1>2 DEF Backlog

\* Packets that wait longer account for more.
LEMMA BacklogKeep ==
    ASSUME NEW n \in Int, NEW issue \in Nat, NEW h \in [Packets -> Nat], Backlog(n, issue, h),
           NEW h1 \in [Packets -> Nat], \A p \in Packets : h[p] <= h1[p]
    PROVE  Backlog(n, issue, h1)
<1>1. ASSUME NEW t \in 1..n PROVE n < t + issue * Cardinality(Holding(h1, t))
  <2>1. Holding(h, t) \subseteq Holding(h1, t)
    BY DEF Holding
  <2>2. PICK c, d : c = Cardinality(Holding(h, t)) /\ d = Cardinality(Holding(h1, t))
    OBVIOUS
  <2>3. c \in Nat /\ d \in Nat /\ IsFiniteSet(Holding(h1, t))
    BY <2>2, HoldingSize
  <2>4. c <= d
    BY <2>1, <2>2, <2>3, FS_Subset
  <2>5. issue * c <= issue * d /\ issue * c \in Nat /\ issue * d \in Nat
    BY <2>3, <2>4, Products
  <2>6. PICK m, k : m = issue * c /\ k = issue * d
    OBVIOUS
  <2>7. n < t + issue * c
    BY <2>2 DEF Backlog
  <2>8. QED
    BY <2>2, <2>5, <2>6, <2>7
<1>2. QED
  BY <1>1 DEF Backlog

LEMMA BacklogTick ==
    ASSUME NEW n \in Int, NEW issue \in Nat, NEW h \in [Packets -> Nat], Backlog(n, issue, h),
           NEW h1 \in [Packets -> Nat], \A p \in Packets : h1[p] = Nearer(h[p]),
           NEW n1 \in Int, n1 <= n - 1 \/ n1 <= 0
    PROVE  Backlog(n1, issue, h1)
<1>1. ASSUME NEW t \in 1..n1 PROVE n1 < t + issue * Cardinality(Holding(h1, t))
  <2>1. Holding(h1, t) = Holding(h, t + 1)
    BY DEF Holding, Nearer
  <2>2. PICK c : c = Cardinality(Holding(h1, t))
    OBVIOUS
  <2>3. c \in Nat
    BY <2>2, HoldingSize
  <2>4. issue * c \in Nat
    BY <2>3, Products
  <2>5. PICK m : m = issue * c
    OBVIOUS
  <2>6. t + 1 \in 1..n /\ n1 <= n - 1
    OBVIOUS
  <2>7. n < (t + 1) + issue * c
    BY <2>1, <2>2, <2>6 DEF Backlog
  <2>8. QED
    BY <2>2, <2>4, <2>5, <2>6, <2>7
<1>2. QED
  BY <1>1 DEF Backlog

-----------------------------------------------------------------------------
(* What the actions do to a packet and to its request.                     *)

\* What was noted at a request still holds of the packet.
Noted(r, f) ==
    /\ r.isRead = f.isRead /\ r.metadataReady = f.metadata
    /\ r.metadataLatency <= MissLatency
    /\ mode # "baseline" /\ f.isRead => r.metadataLatency >= HitLatency
NotedInv == \A p \in DOMAIN requests : Noted(requests[p], flight[p])

\* Packet p becomes f: it sets out, goes on to memory, is answered, or is done.
SetsOut(p, f) == flight[p] = Idle /\ stage # "drain" /\ f.phase = "outgoing"
GoesOn(p, f) ==
    /\ flight[p].phase = "outgoing" /\ flight[p].due = 0
    /\ f.phase = "memory" /\ f.due \in MemoryLatencies
    /\ f.isRead = flight[p].isRead /\ f.metadata = flight[p].metadata
IsAnswered(p, f) ==
    /\ flight[p].phase = "memory" /\ flight[p].due = 0
    /\ f.phase = "incoming" /\ f.isRead = flight[p].isRead
IsDone(p, f) == flight[p].phase = "incoming" /\ flight[p].due = 0 /\ f = Idle

Hop(p, f) ==
    /\ f \in PacketState /\ flight' = [flight EXCEPT ![p] = f]
    /\ UNCHANGED stageVars /\ NotedInv'
    /\ SetsOut(p, f) \/ GoesOn(p, f) \/ IsAnswered(p, f) \/ IsDone(p, f)

LEMMA SetsOutHop ==
    ASSUME FlightTypes, NotedInv, NEW p \in Packets, CanRequest(p), NEW f \in PacketState,
           f.phase = "outgoing", NEW r, Noted(r, f), Accept(p, r, f), UNCHANGED stageVars
    PROVE  Hop(p, f) /\ SetsOut(p, f)
<1>1. /\ DOMAIN requests' = DOMAIN requests \cup {p}
      /\ \A q \in DOMAIN requests' : requests'[q] = IF q = p THEN r ELSE requests[q]
      /\ flight' = [flight EXCEPT ![p] = f]
  BY DEF Accept
<1>2. \A q \in Packets : flight'[q] = IF q = p THEN f ELSE flight[q]
  BY <1>1 DEF FlightTypes
<1>3. mode' = mode
  BY DEF stageVars
<1>4. ASSUME NEW q \in DOMAIN requests' PROVE Noted(requests[q], flight[q])'
  <2>1. q \in Packets
    BY <1>1 DEF FlightTypes
  <2>2. CASE q = p
    BY <1>1, <1>2, <1>3, <2>1, <2>2 DEF Noted
  <2>3. CASE q # p
    <3>1. requests'[q] = requests[q] /\ flight'[q] = flight[q] /\ Noted(requests[q], flight[q])
      BY <1>1, <1>2, <2>1, <2>3 DEF NotedInv
    <3>2. QED
      BY <1>3, <3>1 DEF Noted
  <2>4. QED
    BY <2>2, <2>3
<1>5. NotedInv'
  BY <1>4 DEF NotedInv
<1>6. QED
  BY <1>1, <1>5 DEF Hop, SetsOut, CanRequest

LEMMA AnswerHop ==
    ASSUME FlightTypes, NotedInv, NEW p \in Packets,
           flight[p].phase = "memory", flight[p].due = 0,
           NEW delay \in Nat, NEW aead \in Nat, NEW metadata \in Nat,
           Release(p, delay, aead, metadata), Forget(p), UNCHANGED stageVars
    PROVE  \E f \in PacketState : /\ Hop(p, f) /\ IsAnswered(p, f)
                                  /\ f.isRead = requests[p].isRead
                                  /\ f.due = delay /\ f.metadata = metadata
<1>1. PICK f \in PacketState :
         /\ flight' = [flight EXCEPT ![p] = f] /\ f # Idle
         /\ f.phase = "incoming" /\ f.due = delay /\ f.aead = aead
         /\ f.metadata = metadata /\ f.isRead = flight[p].isRead
  BY ReleaseTypes
<1>2. p \in DOMAIN requests
  BY <1>1 DEF FlightTypes
<1>3. f.isRead = requests[p].isRead
  BY <1>1, <1>2 DEF NotedInv, Noted
<1>4. \A q \in Packets : flight'[q] = IF q = p THEN f ELSE flight[q]
  BY <1>1 DEF FlightTypes
<1>5. /\ DOMAIN requests' = DOMAIN requests \ {p}
      /\ \A q \in DOMAIN requests' : requests'[q] = requests[q]
  BY DEF Forget
<1>6. mode' = mode
  BY DEF stageVars
<1>7. ASSUME NEW q \in DOMAIN requests' PROVE Noted(requests[q], flight[q])'
  <2>1. q \in DOMAIN requests /\ q \in Packets /\ q # p
    BY <1>5 DEF FlightTypes
  <2>2. requests'[q] = requests[q] /\ flight'[q] = flight[q] /\ Noted(requests[q], flight[q])
    BY <1>4, <1>5, <2>1 DEF NotedInv
  <2>3. QED
    BY <1>6, <2>2 DEF Noted
<1>8. NotedInv'
  BY <1>7 DEF NotedInv
<1>9. IsAnswered(p, f)
  BY <1>1 DEF IsAnswered
<1>10. QED
  BY <1>1, <1>3, <1>8, <1>9 DEF Hop

\* delayReq of a read, in numbers.
LEMMA ReadRequestHop ==
    ASSUME FlightTypes, ClockTypes, NotedInv, UnitsKeepUp,
           NEW p \in Packets, NEW l \in Lines, ReadRequest(p, l)
    PROVE  \E f \in PacketState :
              /\ Hop(p, f) /\ SetsOut(p, f) /\ f.isRead = TRUE /\ f.due = 0
              /\ UNCHANGED <<aeadNextIssue, writeControlNextIssue, ratchetNextIssue,
                             writesSinceRatchet>>
              /\ mode # "optimistic" => metadataNextIssue' = metadataNextIssue
              /\ mode = "optimistic" =>
                    /\ metadataNextIssue' = metadataNextIssue + MetadataIssue
                    /\ f.metadata <= metadataNextIssue + MissLatency
<1>1. PICK latency : latency = IF mode = "baseline" THEN 0 ELSE LookupLatency(l)
  OBVIOUS
<1>2. latency \in Nat /\ latency <= MissLatency /\ (mode # "baseline" => latency >= HitLatency)
  BY <1>1, LatencyTypes DEF LookupLatency, UnitsKeepUp
<1>3. PICK ready : ready = IF mode = "optimistic" THEN ScheduledMetadata(0, latency).finish ELSE 0
  OBVIOUS
<1>4. /\ ScheduledMetadata(0, latency).finish = metadataNextIssue + latency
      /\ ScheduledMetadata(0, latency).next = metadataNextIssue + MetadataIssue
  BY <1>2, LatencyTypes DEF ScheduledMetadata, Scheduled, Larger, ClockTypes
<1>5. ready \in Nat
  BY <1>2, <1>3, MetadataTimes
<1>6. PICK f : f = Flight("outgoing", TRUE, l, 0, 0, ready)
  OBVIOUS
<1>7. /\ f \in PacketState /\ f.phase = "outgoing" /\ f.isRead = TRUE
      /\ f.due = 0 /\ f.metadata = ready
  BY <1>5, <1>6 DEF Flight, PacketState
<1>8. PICK r : r = RequestState(TRUE, latency, ready)
  OBVIOUS
<1>9. /\ CanRequest(p) /\ Accept(p, r, f)
      /\ UNCHANGED <<aeadNextIssue, writeControlNextIssue, ratchetNextIssue,
                     writesSinceRatchet, stageVars>>
      /\ metadataNextIssue' = IF mode = "optimistic" THEN ScheduledMetadata(0, latency).next
                              ELSE metadataNextIssue
  BY <1>1, <1>3, <1>6, <1>8 DEF ReadRequest
<1>10. Noted(r, f)
  BY <1>2, <1>7, <1>8 DEF Noted, RequestState
<1>11. Hop(p, f) /\ SetsOut(p, f)
  BY <1>7, <1>9, <1>10, SetsOutHop
<1>12. mode = "optimistic" => f.metadata <= metadataNextIssue + MissLatency
  BY <1>2, <1>3, <1>4, <1>7, LatencyTypes DEF ClockTypes
<1>13. QED
  BY <1>4, <1>7, <1>9, <1>11, <1>12

LEMMA WriteNoted ==
    ASSUME NEW r, r = RequestState(FALSE, 0, 0), NEW f, f.isRead = FALSE, f.metadata = 0
    PROVE  Noted(r, f)
<1>1. /\ r.isRead = FALSE /\ r.metadataReady = 0 /\ r.metadataLatency = 0
      /\ 0 <= MissLatency
  BY LatencyTypes DEF RequestState
<1>2. ~f.isRead
  OBVIOUS
<1>3. r.isRead = f.isRead /\ r.metadataReady = f.metadata /\ r.metadataLatency <= MissLatency
  BY <1>1
<1>4. QED
  BY <1>2, <1>3, Zenon DEF Noted

LEMMA BaselineWriteHop ==
    ASSUME FlightTypes, NotedInv, NEW p \in Packets, NEW l \in Lines,
           BaselineWriteRequest(p, l)
    PROVE  \E f \in PacketState :
              /\ Hop(p, f) /\ SetsOut(p, f) /\ f.isRead = FALSE /\ f.due = 0
              /\ mode = "baseline" /\ UNCHANGED issueVars
<1>1. PICK f, r : f = Flight("outgoing", FALSE, l, 0, 0, 0) /\ r = RequestState(FALSE, 0, 0)
  OBVIOUS
<1>2. /\ f \in PacketState /\ f.phase = "outgoing" /\ f.isRead = FALSE
      /\ f.due = 0 /\ f.metadata = 0
  BY <1>1 DEF Flight, PacketState
<1>3. /\ CanRequest(p) /\ Accept(p, r, f) /\ UNCHANGED <<issueVars, stageVars>>
      /\ mode = "baseline"
  BY <1>1 DEF BaselineWriteRequest
<1>4. Noted(r, f)
  BY <1>1, <1>2, WriteNoted
<1>5. QED
  BY <1>2, <1>3, <1>4, SetsOutHop

\* delayReq of a write: a turn of the control unit, if that takes time, one of
\* the AEAD unit, and one of the ratchet unit, if it is due.
LEMMA WriteRequestHop ==
    ASSUME FlightTypes, ClockTypes, NotedInv,
           NEW p \in Packets, NEW l \in Lines, WriteRequest(p, l)
    PROVE  \E f \in PacketState, start \in Nat, aead \in Nat :
              /\ Hop(p, f) /\ SetsOut(p, f) /\ f.isRead = FALSE /\ f.metadata = 0
              /\ mode # "baseline"
              /\ start = ScheduledControl(0, ReservationLatency).finish
              /\ aead = ScheduledAead(start).finish
              /\ writeControlNextIssue' = ScheduledControl(0, ReservationLatency).next
              /\ aeadNextIssue' = ScheduledAead(start).next
              /\ metadataNextIssue' = metadataNextIssue
              /\ \/ /\ RatchetDue /\ f.due = Larger(aead, ratchetNextIssue) + HkdfLatency
                    /\ ratchetNextIssue' = f.due /\ writesSinceRatchet' = 0
                 \/ /\ ~RatchetDue /\ f.due = aead
                    /\ ratchetNextIssue' = ratchetNextIssue
                    /\ writesSinceRatchet' = IF RatchetEvery = 0 THEN 0
                                             ELSE writesSinceRatchet + 1
<1>1. PICK start : start = ScheduledControl(0, ReservationLatency).finish
  OBVIOUS
<1>2. start \in Nat
  BY <1>1, ControlTimes, LatencyTypes DEF ClockTypes
<1>3. PICK aead : aead = ScheduledAead(start).finish
  OBVIOUS
<1>4. aead \in Nat
  BY <1>2, <1>3, AeadTimes
<1>5. PICK ratchet : ratchet = Larger(aead, ratchetNextIssue) + HkdfLatency
  OBVIOUS
<1>6. /\ ScheduledRatchet(aead).finish = ratchet /\ ScheduledRatchet(aead).next = ratchet
      /\ ratchet \in Nat
  BY <1>4, <1>5, LatencyTypes DEF ScheduledRatchet, Scheduled, Larger, ClockTypes
<1>7. PICK delay : delay = IF RatchetDue THEN ratchet ELSE aead
  OBVIOUS
<1>8. PICK f, r : /\ f = Flight("outgoing", FALSE, l, delay, aead, 0)
                  /\ r = RequestState(FALSE, 0, 0)
  OBVIOUS
<1>9. /\ f \in PacketState /\ f.phase = "outgoing" /\ f.isRead = FALSE
      /\ f.due = delay /\ f.metadata = 0
  BY <1>4, <1>6, <1>7, <1>8 DEF Flight, PacketState
<1>10. /\ CanRequest(p) /\ Accept(p, r, f) /\ mode # "baseline"
       /\ UNCHANGED <<metadataNextIssue, stageVars>>
       /\ writeControlNextIssue' = ScheduledControl(0, ReservationLatency).next
       /\ aeadNextIssue' = ScheduledAead(start).next
       /\ ratchetNextIssue' = IF RatchetDue THEN ratchet ELSE ratchetNextIssue
       /\ writesSinceRatchet' = IF RatchetDue \/ RatchetEvery = 0 THEN 0
                                ELSE writesSinceRatchet + 1
  BY <1>1, <1>3, <1>6, <1>7, <1>8 DEF WriteRequest
<1>11. Noted(r, f)
  BY <1>8, <1>9, WriteNoted
<1>12. Hop(p, f) /\ SetsOut(p, f)
  BY <1>9, <1>10, <1>11, SetsOutHop
<1>13. \/ /\ RatchetDue /\ f.due = Larger(aead, ratchetNextIssue) + HkdfLatency
          /\ ratchetNextIssue' = f.due /\ writesSinceRatchet' = 0
       \/ /\ ~RatchetDue /\ f.due = aead
          /\ ratchetNextIssue' = ratchetNextIssue
          /\ writesSinceRatchet' = IF RatchetEvery = 0 THEN 0 ELSE writesSinceRatchet + 1
  BY <1>5, <1>7, <1>9, <1>10
<1>14. QED
  BY <1>1, <1>2, <1>3, <1>4, <1>9, <1>10, <1>12, <1>13

LEMMA SendHop ==
    ASSUME FlightTypes, NotedInv, NEW p \in Packets, Send(p)
    PROVE  \E f \in PacketState : Hop(p, f) /\ GoesOn(p, f) /\ UNCHANGED issueVars
<1>1. flight[p] # Idle
  BY DEF Send, Idle
<1>2. PICK g : g = flight[p]
  OBVIOUS
<1>3. g \in [phase : {"outgoing", "memory", "incoming"}, isRead : BOOLEAN,
             line : Lines, due : Nat, aead : Nat, metadata : Nat]
  BY <1>1, <1>2, PacketFields
<1>4. PICK latency \in MemoryLatencies :
          flight' = [flight EXCEPT ![p] = [@ EXCEPT !.phase = "memory", !.due = latency]]
  BY DEF Send
<1>5. PICK f : f = [g EXCEPT !.phase = "memory", !.due = latency]
  OBVIOUS
<1>6. /\ f \in PacketState /\ f.phase = "memory" /\ f.due = latency
      /\ f.isRead = g.isRead /\ f.metadata = g.metadata
  BY <1>3, <1>5, LatencyTypes DEF PacketState
<1>7. flight' = [flight EXCEPT ![p] = f]
  BY <1>2, <1>4, <1>5
<1>8. GoesOn(p, f)
  BY <1>2, <1>6 DEF Send, GoesOn
<1>9. \A q \in Packets : flight'[q] = IF q = p THEN f ELSE flight[q]
  BY <1>7 DEF FlightTypes
<1>10. requests' = requests /\ UNCHANGED stageVars /\ mode' = mode /\ UNCHANGED issueVars
  BY DEF Send, stageVars
<1>11. ASSUME NEW q \in DOMAIN requests PROVE Noted(requests[q], flight[q])'
  <2>1. q \in Packets /\ Noted(requests[q], flight[q])
    BY DEF NotedInv, FlightTypes
  <2>2. PICK h : h = flight'[q] /\ h.isRead = flight[q].isRead /\ h.metadata = flight[q].metadata
    BY <1>2, <1>6, <1>9, <2>1
  <2>3. QED
    BY <1>10, <2>1, <2>2 DEF Noted
<1>12. NotedInv'
  BY <1>10, <1>11 DEF NotedInv
<1>13. QED
  BY <1>6, <1>7, <1>8, <1>10, <1>12 DEF Hop

LEMMA DeliverHop ==
    ASSUME FlightTypes, NotedInv, NEW p \in Packets, Deliver(p)
    PROVE  Idle \in PacketState /\ Hop(p, Idle) /\ IsDone(p, Idle) /\ UNCHANGED issueVars
<1>1. /\ flight[p].phase = "incoming" /\ flight[p].due = 0
      /\ flight' = [flight EXCEPT ![p] = Idle]
      /\ requests' = requests /\ UNCHANGED stageVars /\ mode' = mode /\ UNCHANGED issueVars
  BY DEF Deliver, stageVars
<1>2. Idle \in PacketState
  BY DEF PacketState
<1>3. p \notin DOMAIN requests
  BY <1>1 DEF FlightTypes
<1>4. \A q \in DOMAIN requests : q \in Packets /\ flight'[q] = flight[q]
  BY <1>1, <1>3 DEF FlightTypes
<1>5. NotedInv'
  BY <1>1, <1>4 DEF NotedInv, Noted
<1>6. QED
  BY <1>1, <1>2, <1>5 DEF Hop, IsDone

LEMMA BaselineReadHop ==
    ASSUME FlightTypes, NotedInv, NEW p \in Packets, BaselineReadResponse(p)
    PROVE  \E f \in PacketState :
              /\ Hop(p, f) /\ IsAnswered(p, f) /\ f.due = 0 /\ f.metadata = 0
              /\ mode = "baseline" /\ UNCHANGED issueVars
<1>1. /\ mode = "baseline" /\ AtMemory(p, TRUE) /\ Release(p, 0, 0, 0) /\ Forget(p)
      /\ UNCHANGED <<issueVars, stageVars>>
  BY DEF BaselineReadResponse
<1>2. PICK f \in PacketState : /\ Hop(p, f) /\ IsAnswered(p, f)
                               /\ f.isRead = requests[p].isRead /\ f.due = 0 /\ f.metadata = 0
  BY <1>1, AnswerHop DEF AtMemory
<1>3. QED
  BY <1>1, <1>2

LEMMA OptimisticReadHop ==
    ASSUME FlightTypes, ClockTypes, NotedInv, NEW p \in Packets, OptimisticReadResponse(p)
    PROVE  \E f \in PacketState :
              /\ Hop(p, f) /\ IsAnswered(p, f) /\ f.isRead
              /\ f.metadata = flight[p].metadata
              /\ f.due = aeadNextIssue + AeadLatency
              /\ aeadNextIssue' = aeadNextIssue + AeadIssue
              /\ mode = "optimistic"
              /\ UNCHANGED <<metadataNextIssue, writeControlNextIssue, ratchetNextIssue,
                             writesSinceRatchet>>
<1>1. PICK aead : aead = ScheduledAead(0).finish
  OBVIOUS
<1>2. /\ aead = aeadNextIssue + AeadLatency /\ aead \in Nat
      /\ ScheduledAead(0).next = aeadNextIssue + AeadIssue
  BY <1>1, LatencyTypes DEF ScheduledAead, Scheduled, Larger, ClockTypes
<1>3. PICK metadata : metadata = requests[p].metadataReady
  OBVIOUS
<1>4. /\ mode = "optimistic" /\ AtMemory(p, TRUE)
      /\ Release(p, aead, aead, metadata) /\ Forget(p)
      /\ aeadNextIssue' = ScheduledAead(0).next
      /\ UNCHANGED <<metadataNextIssue, writeControlNextIssue, ratchetNextIssue,
                     writesSinceRatchet, stageVars>>
  BY <1>1, <1>3 DEF OptimisticReadResponse
<1>5. flight[p].phase = "memory" /\ requests[p] \in RequestStates
  BY <1>4, AtMemoryFacts
<1>6. metadata \in Nat /\ p \in DOMAIN requests
  BY <1>3, <1>5 DEF RequestStates, FlightTypes
<1>7. metadata = flight[p].metadata
  BY <1>3, <1>6 DEF NotedInv, Noted
<1>8. PICK f \in PacketState : /\ Hop(p, f) /\ IsAnswered(p, f)
                               /\ f.isRead = requests[p].isRead /\ f.due = aead /\ f.metadata = metadata
  BY <1>2, <1>4, <1>6, AnswerHop DEF AtMemory
<1>9. QED
  BY <1>2, <1>4, <1>7, <1>8 DEF AtMemory

\* The lookup's turn, and then AEAD.
LEMMA VerifiedReadHop ==
    ASSUME FlightTypes, ClockTypes, NotedInv, NEW p \in Packets, VerifiedReadResponse(p)
    PROVE  \E f \in PacketState, latency \in Nat :
              /\ Hop(p, f) /\ IsAnswered(p, f) /\ f.isRead
              /\ HitLatency <= latency /\ latency <= MissLatency
              /\ metadataNextIssue' = metadataNextIssue + MetadataIssue
              /\ f.due = ScheduledAead(metadataNextIssue + latency).finish
              /\ aeadNextIssue' = ScheduledAead(metadataNextIssue + latency).next
              /\ mode = "verified"
              /\ UNCHANGED <<writeControlNextIssue, ratchetNextIssue, writesSinceRatchet>>
<1>1. PICK latency : latency = requests[p].metadataLatency
  OBVIOUS
<1>2. PICK lookup : lookup = ScheduledMetadata(0, latency).finish
  OBVIOUS
<1>3. PICK aead : aead = ScheduledAead(lookup).finish
  OBVIOUS
<1>4. /\ mode = "verified" /\ AtMemory(p, TRUE)
      /\ Release(p, aead, aead, lookup) /\ Forget(p)
      /\ metadataNextIssue' = ScheduledMetadata(0, latency).next
      /\ aeadNextIssue' = ScheduledAead(lookup).next
      /\ UNCHANGED <<writeControlNextIssue, ratchetNextIssue, writesSinceRatchet, stageVars>>
  BY <1>1, <1>2, <1>3 DEF VerifiedReadResponse, ReadyWithVersion
<1>5. flight[p].phase = "memory" /\ requests[p] \in RequestStates
  BY <1>4, AtMemoryFacts
<1>6. latency \in Nat /\ p \in DOMAIN requests
  BY <1>1, <1>5 DEF RequestStates, FlightTypes
<1>7. HitLatency <= latency /\ latency <= MissLatency
  BY <1>1, <1>4, <1>6 DEF NotedInv, Noted, AtMemory
<1>8. /\ lookup = metadataNextIssue + latency /\ lookup \in Nat
      /\ ScheduledMetadata(0, latency).next = metadataNextIssue + MetadataIssue
  BY <1>2, <1>6, LatencyTypes DEF ScheduledMetadata, Scheduled, Larger, ClockTypes
<1>9. aead \in Nat
  BY <1>3, <1>8, AeadTimes
<1>10. PICK f \in PacketState : /\ Hop(p, f) /\ IsAnswered(p, f)
                                /\ f.isRead = requests[p].isRead /\ f.due = aead
  BY <1>4, <1>8, <1>9, AnswerHop DEF AtMemory
<1>11. QED
  BY <1>3, <1>4, <1>6, <1>7, <1>8, <1>10 DEF AtMemory

\* A turn of the control unit, if it takes time.
LEMMA WriteResponseHop ==
    ASSUME FlightTypes, ClockTypes, NotedInv, NEW p \in Packets, WriteResponse(p)
    PROVE  \E f \in PacketState :
              /\ Hop(p, f) /\ IsAnswered(p, f) /\ ~f.isRead /\ f.metadata = 0
              /\ f.due = ScheduledControl(0, CommitLatency).finish
              /\ writeControlNextIssue' = ScheduledControl(0, CommitLatency).next
              /\ UNCHANGED <<metadataNextIssue, aeadNextIssue, ratchetNextIssue,
                             writesSinceRatchet>>
<1>1. PICK delay : delay = ScheduledControl(0, CommitLatency).finish
  OBVIOUS
<1>2. delay \in Nat
  BY <1>1, ControlTimes, LatencyTypes DEF ClockTypes
<1>3. /\ AtMemory(p, FALSE) /\ Release(p, delay, 0, 0) /\ Forget(p)
      /\ writeControlNextIssue' = ScheduledControl(0, CommitLatency).next
      /\ UNCHANGED <<metadataNextIssue, aeadNextIssue, ratchetNextIssue,
                     writesSinceRatchet, stageVars>>
  BY <1>1 DEF WriteResponse
<1>4. PICK f \in PacketState : /\ Hop(p, f) /\ IsAnswered(p, f)
                               /\ f.isRead = requests[p].isRead /\ f.due = delay /\ f.metadata = 0
  BY <1>2, <1>3, AnswerHop DEF AtMemory
<1>5. QED
  BY <1>1, <1>3, <1>4 DEF AtMemory

\* Every move is that of one packet.
LEMMA MoveHop ==
    ASSUME FlightTypes, ClockTypes, UnitsKeepUp, NotedInv, Next
    PROVE  (\E p \in Packets, f \in PacketState : Hop(p, f)) \/ EndWarmup \/ ResetStats \/ Tick
<1>1. ASSUME NEW p \in Packets, NEW l \in Lines,
             ReadRequest(p, l) \/ BaselineWriteRequest(p, l) \/ WriteRequest(p, l)
      PROVE  \E f \in PacketState : Hop(p, f)
  BY <1>1, ReadRequestHop, BaselineWriteHop, WriteRequestHop
<1>2. ASSUME NEW p \in Packets,
             \/ Send(p)
             \/ BaselineReadResponse(p) \/ OptimisticReadResponse(p) \/ VerifiedReadResponse(p)
             \/ WriteResponse(p)
             \/ Deliver(p)
      PROVE  \E f \in PacketState : Hop(p, f)
  BY <1>2, SendHop, BaselineReadHop, OptimisticReadHop, VerifiedReadHop, WriteResponseHop,
     DeliverHop
<1>3. QED
  BY <1>1, <1>2 DEF Next

LEMMA TickNoted ==
    ASSUME FlightTypes, NotedInv, Tick
    PROVE  NotedInv'
<1>1. ASSUME NEW p \in DOMAIN requests' PROVE Noted(requests[p], flight[p])'
  <2>1. p \in DOMAIN requests /\ p \in Packets /\ flight[p] # Idle
    <3>1. DOMAIN requests' = DOMAIN requests
      BY DEF Tick
    <3>2. p \in {q \in Packets : flight[q].phase \in {"outgoing", "memory"}}
      BY <3>1 DEF FlightTypes
    <3>3. QED
      BY <3>1, <3>2 DEF Idle
  <2>2. PICK r \in RequestStates : r = requests[p]
    BY <2>1 DEF FlightTypes
  <2>3. requests'[p] = [r EXCEPT !.metadataReady = Nearer(r.metadataReady)]
    BY <2>1, <2>2 DEF Tick
  <2>4. PICK r1 : r1 = requests'[p]
    OBVIOUS
  <2>5. /\ r1.isRead = r.isRead /\ r1.metadataLatency = r.metadataLatency
        /\ r1.metadataReady = Nearer(r.metadataReady)
    BY <2>2, <2>3, <2>4 DEF RequestStates
  <2>6. flight'[p].isRead = flight[p].isRead /\ flight'[p].metadata = Nearer(flight[p].metadata)
    BY <2>1, TickPacket
  <2>7. Noted(r, flight[p]) /\ mode' = mode
    BY <2>1, <2>2 DEF NotedInv, Tick
  <2>8. QED
    BY <2>4, <2>5, <2>6, <2>7 DEF Noted
<1>2. QED
  BY <1>1 DEF NotedInv

LEMMA NotedStep ==
    ASSUME TimingInv, NotedInv, [Next]_vars, UnitsKeepUp
    PROVE  NotedInv'
<1>1. FlightTypes /\ ClockTypes
  BY DEF TimingInv
<1>2. CASE \E p \in Packets, f \in PacketState : Hop(p, f)
  BY <1>2 DEF Hop
<1>3. CASE EndWarmup \/ ResetStats \/ UNCHANGED vars
  BY <1>3 DEF NotedInv, Noted, EndWarmup, ResetStats, vars, stageVars
<1>4. CASE Tick
  BY <1>1, <1>4, TickNoted
<1>5. QED
  BY <1>1, <1>2, <1>3, <1>4, MoveHop

-----------------------------------------------------------------------------
(* Bounded delays.                                                         *)

\* How long the controller still holds each packet.
Held(f) == IF f.phase \in {"outgoing", "incoming"} THEN f.due ELSE 0
Waiting == [p \in Packets |-> Held(flight[p])]

\* A unit whose operations are ready when they are called for is never idle while
\* a turn is outstanding.  One behind a slower step may be, for as long as that
\* step takes; and a ratchet follows everything else.
ControlInv == Backlog(writeControlNextIssue, ControlIssue, Waiting)
LookupInv == mode = "verified" => Backlog(metadataNextIssue, MetadataIssue, Waiting)
CryptoInv == Backlog(aeadNextIssue - SlowestStep, SlowestTurn, Waiting)
RatchetInv == Backlog(ratchetNextIssue - CryptoBound, HkdfLatency, Waiting)

\* The writes since the last ratchet have moved the AEAD unit on.
RatchetPaceInv ==
    HkdfLatency <= RatchetEvery * AeadIssue /\ ratchetNextIssue > 0 =>
        ratchetNextIssue + (writesSinceRatchet + 1) * AeadIssue
            <= aeadNextIssue + AeadLatency + HkdfLatency

DelayInv ==
    ControlInv /\ LookupInv /\ CryptoInv /\ RatchetInv /\ RatchetPaceInv /\ DelayBounded

LEMMA BoundTypes ==
    ASSUME NEW p \in Packets
    PROVE  /\ K \in Nat /\ K - 1 \in Nat
           /\ SlowestStep \in Nat /\ SlowestTurn \in Nat
           /\ (K - 1) * SlowestTurn \in Nat /\ (K - 1) * ControlIssue \in Nat
           /\ CryptoBound \in Nat /\ CommitBound \in Nat /\ RatchetBound \in Nat
           /\ K * HkdfLatency = (K - 1) * HkdfLatency + HkdfLatency
           /\ (K - 1) * HkdfLatency \in Nat
<1>1. K \in Nat /\ K - 1 \in Nat
  BY HoldingSize
<1>2. SlowestStep \in Nat /\ SlowestTurn \in Nat
  BY LatencyTypes DEF SlowestStep, SlowestTurn, Larger
<1>3. PICK k : k = K - 1
  OBVIOUS
<1>4. SlowestTurn * k \in Nat /\ ControlIssue * k \in Nat /\ HkdfLatency * k \in Nat
  BY <1>1, <1>2, <1>3, Products, LatencyTypes
<1>5. HkdfLatency * (k + 1) = HkdfLatency * k + HkdfLatency
  BY <1>1, <1>3, Products, LatencyTypes
<1>6. /\ k * SlowestTurn = SlowestTurn * k /\ k * ControlIssue = ControlIssue * k
      /\ k * HkdfLatency = HkdfLatency * k /\ K * HkdfLatency = HkdfLatency * (k + 1)
  BY <1>1, <1>2, <1>3, LatencyTypes, Z3
<1>7. CryptoBound \in Nat /\ CommitBound \in Nat
  BY <1>2, <1>3, <1>4, <1>6, LatencyTypes DEF CryptoBound, CommitBound
<1>8. RatchetBound \in Nat
  BY <1>4, <1>5, <1>6, LatencyTypes DEF RatchetBound
<1>9. QED
  BY <1>1, <1>2, <1>3, <1>4, <1>5, <1>6, <1>7, <1>8

\* A packet that moves is not held, before it moves.
LEMMA WaitingHop ==
    ASSUME FlightTypes, NEW p \in Packets, NEW f \in PacketState, Hop(p, f)
    PROVE  /\ Waiting \in [Packets -> Nat] /\ Waiting[p] = 0
           /\ Waiting' = [Waiting EXCEPT ![p] = Held(f)] /\ Held(f) \in Nat
           /\ f.phase \in {"outgoing", "incoming"} => Held(f) = f.due
<1>1. ASSUME NEW g \in PacketState PROVE Held(g) \in Nat
  BY DEF Held, PacketState, Idle
<1>2. \A q \in Packets : flight[q] \in PacketState
  BY DEF FlightTypes
<1>3. Waiting \in [Packets -> Nat]
  BY <1>1, <1>2 DEF Waiting
<1>4. Waiting[p] = 0
  BY DEF Waiting, Held, Hop, SetsOut, GoesOn, IsAnswered, IsDone, Idle
<1>5. \A q \in Packets : flight'[q] = IF q = p THEN f ELSE flight[q]
  BY DEF Hop, FlightTypes
<1>6. Waiting' = [Waiting EXCEPT ![p] = Held(f)]
  BY <1>5 DEF Waiting
<1>7. f.phase \in {"outgoing", "incoming"} => Held(f) = f.due
  BY DEF Held
<1>8. QED
  BY <1>1, <1>3, <1>4, <1>6, <1>7

LEMMA BoundedHop ==
    ASSUME FlightTypes, DelayBounded, NEW p \in Packets, NEW f \in PacketState, Hop(p, f),
           f.phase = "incoming" => f.due <= IF f.isRead THEN CryptoBound ELSE CommitBound,
           f.phase = "outgoing" => f.due <= CryptoBound + RatchetBound
    PROVE  DelayBounded'
<1>1. \A q \in Packets : flight'[q] = IF q = p THEN f ELSE flight[q]
  BY DEF Hop, FlightTypes
<1>2. QED
  BY <1>1 DEF DelayBounded

\* A unit that gives no turn.
LEMMA UnitIdle ==
    ASSUME FlightTypes, NEW p \in Packets, NEW f \in PacketState, Hop(p, f),
           NEW n \in Int, NEW issue \in Nat, Backlog(n, issue, Waiting)
    PROVE  Backlog(n, issue, Waiting')
<1>1. PICK h, h1 : h = Waiting /\ h1 = Waiting'
  OBVIOUS
<1>2. h \in [Packets -> Nat] /\ h1 = [h EXCEPT ![p] = Held(f)] /\ Held(f) \in Nat /\ h[p] = 0
  BY <1>1, WaitingHop
<1>3. h1 \in [Packets -> Nat] /\ \A q \in Packets : h[q] <= h1[q]
  BY <1>2
<1>4. QED
  BY <1>1, <1>2, <1>3, BacklogKeep

\* A unit that gives a turn to the packet that moves.
LEMMA UnitTurn ==
    ASSUME FlightTypes, NEW p \in Packets, NEW f \in PacketState, Hop(p, f),
           NEW n \in Int, NEW issue \in Nat, Backlog(n, issue, Waiting),
           NEW x \in Nat, issue <= x, NEW n1 \in Int, n1 <= n + x, n1 <= Held(f)
    PROVE  Backlog(n1, x, Waiting')
<1>1. PICK h, d : h = Waiting /\ d = Held(f)
  OBVIOUS
<1>2. h \in [Packets -> Nat] /\ Waiting' = [h EXCEPT ![p] = d] /\ d \in Nat /\ h[p] = 0
  BY <1>1, WaitingHop
<1>3. Backlog(n1, x, [h EXCEPT ![p] = d])
  BY <1>1, <1>2, BacklogTake
<1>4. QED
  BY <1>2, <1>3

LEMMA UnitRoom ==
    ASSUME FlightTypes, NEW p \in Packets, NEW f \in PacketState, Hop(p, f),
           NEW n \in Int, NEW issue \in Nat, Backlog(n, issue, Waiting)
    PROVE  n <= issue * (K - 1)
<1>1. PICK h : h = Waiting
  OBVIOUS
<1>2. h \in [Packets -> Nat] /\ h[p] = 0
  BY <1>1, WaitingHop
<1>3. QED
  BY <1>1, <1>2, BacklogRoom

LEMMA NoBacklog == \A h, issue : Backlog(0, issue, h)
BY DEF Backlog

\* AEAD starts when the unit's turn has come, or when the step before it is done.
LEMMA CryptoTurn ==
    ASSUME FlightTypes, ClockTypes, UnitsKeepUp, CryptoInv,
           NEW p \in Packets, NEW f \in PacketState, Hop(p, f),
           NEW n \in Nat, NEW issue \in Nat, issue <= SlowestTurn, Backlog(n, issue, Waiting),
           NEW ready \in Nat, ready <= n + SlowestStep,
           aeadNextIssue' = ScheduledAead(ready).next, ScheduledAead(ready).finish <= Held(f)
    PROVE  CryptoInv' /\ ScheduledAead(ready).finish <= CryptoBound
<1>1. PICK a, s, x, k : a = aeadNextIssue /\ s = SlowestStep /\ x = SlowestTurn /\ k = K - 1
  OBVIOUS
<1>2. /\ a \in Nat /\ s \in Nat /\ x \in Nat /\ k \in Nat /\ x * k \in Nat
      /\ AeadIssue \in Nat /\ AeadLatency \in Nat /\ AeadIssue <= AeadLatency /\ AeadIssue <= x
      /\ Held(f) \in Nat
  BY <1>1, BoundTypes, Products, LatencyTypes, WaitingHop
     DEF ClockTypes, SlowestTurn, Larger, UnitsKeepUp
<1>3. PICK b : b = Larger(ready, a)
  OBVIOUS
<1>4. /\ ScheduledAead(ready).finish = b + AeadLatency
      /\ aeadNextIssue' = b + AeadIssue
  BY <1>1, <1>3 DEF ScheduledAead, Scheduled
<1>5. b \in Nat /\ b >= ready /\ b >= a /\ b \in {ready, a}
  BY <1>2, <1>3 DEF Larger
<1>6. aeadNextIssue' - s <= Held(f)
  BY <1>2, <1>4, <1>5
<1>7. n <= issue * k /\ issue * k <= x * k /\ issue * k \in Nat /\ a - s <= x * k
  BY <1>1, <1>2, UnitRoom, Products DEF CryptoInv
<1>8. PICK m, y : m = issue * k /\ y = x * k
  OBVIOUS
<1>9. Backlog(aeadNextIssue' - s, x, Waiting')
  <2>1. CASE b = ready
    <3>1. aeadNextIssue' - s <= n + x /\ aeadNextIssue' - s \in Int
      BY <1>1, <1>2, <1>4, <1>5, <2>1
    <3>2. QED
      BY <1>1, <1>2, <1>6, <3>1, UnitTurn
  <2>2. CASE b = a
    <3>1. /\ aeadNextIssue' - s <= (a - s) + x
          /\ aeadNextIssue' - s \in Int /\ a - s \in Int
      BY <1>2, <1>4, <1>5, <2>2
    <3>2. Backlog(a - s, x, Waiting)
      BY <1>1 DEF CryptoInv
    <3>3. QED
      BY <1>2, <1>6, <3>1, <3>2, UnitTurn
  <2>3. QED
    BY <1>5, <2>1, <2>2
<1>10. CryptoInv'
  BY <1>1, <1>9 DEF CryptoInv
<1>11. b <= s + y
  BY <1>1, <1>2, <1>5, <1>7, <1>8
<1>12. CryptoBound = s + AeadLatency + y
  <2>1. k * x = x * k
    BY <1>2, Z3
  <2>2. QED
    BY <1>1, <1>8, <2>1 DEF CryptoBound
<1>13. QED
  BY <1>2, <1>4, <1>5, <1>7, <1>8, <1>10, <1>11, <1>12

\* A step that holds no packet and asks for no turn but, in optimistic mode, a lookup's.
LEMMA QuietDelays ==
    ASSUME FlightTypes, ClockTypes, ClockTypes', DelayInv,
           NEW p \in Packets, NEW f \in PacketState, Hop(p, f), Held(f) = 0,
           UNCHANGED <<aeadNextIssue, writeControlNextIssue, ratchetNextIssue,
                       writesSinceRatchet>>,
           mode # "optimistic" => metadataNextIssue' = metadataNextIssue
    PROVE  DelayInv'
<1>1. /\ aeadNextIssue \in Nat /\ writeControlNextIssue \in Nat /\ ratchetNextIssue \in Nat
      /\ metadataNextIssue \in Nat /\ aeadNextIssue - SlowestStep \in Int
      /\ ratchetNextIssue - CryptoBound \in Int
      /\ SlowestTurn \in Nat
  BY BoundTypes DEF ClockTypes
<1>2. mode' = mode
  BY DEF Hop, stageVars
<1>3. ControlInv'
  BY <1>1, UnitIdle, LatencyTypes DEF DelayInv, ControlInv
<1>4. LookupInv'
  BY <1>1, <1>2, UnitIdle, LatencyTypes DEF DelayInv, LookupInv
<1>5. CryptoInv'
  BY <1>1, UnitIdle DEF DelayInv, CryptoInv
<1>6. RatchetInv'
  BY <1>1, UnitIdle, LatencyTypes DEF DelayInv, RatchetInv
<1>7. RatchetPaceInv'
  BY DEF DelayInv, RatchetPaceInv
<1>8. f.phase \in {"outgoing", "incoming"} => f.due = 0
  BY WaitingHop
<1>9. DelayBounded'
  BY <1>8, BoundTypes, BoundedHop DEF DelayInv
<1>10. QED
  BY <1>3, <1>4, <1>5, <1>6, <1>7, <1>9 DEF DelayInv

LEMMA OptimisticDelays ==
    ASSUME FlightTypes, ClockTypes, ClockTypes', UnitsKeepUp, NotedInv, DelayInv,
           NEW p \in Packets, OptimisticReadResponse(p)
    PROVE  DelayInv'
<1>1. PICK f \in PacketState :
         /\ Hop(p, f) /\ IsAnswered(p, f) /\ f.isRead
         /\ f.due = aeadNextIssue + AeadLatency
         /\ aeadNextIssue' = aeadNextIssue + AeadIssue
         /\ mode = "optimistic"
         /\ UNCHANGED <<metadataNextIssue, writeControlNextIssue, ratchetNextIssue,
                        writesSinceRatchet>>
  BY OptimisticReadHop
<1>2. /\ aeadNextIssue \in Nat /\ writeControlNextIssue \in Nat /\ ratchetNextIssue \in Nat
      /\ ratchetNextIssue - CryptoBound \in Int /\ SlowestTurn \in Nat /\ SlowestStep \in Nat
  BY BoundTypes DEF ClockTypes
<1>3. mode' = mode /\ f.phase = "incoming"
  BY <1>1 DEF Hop, stageVars, IsAnswered
<1>4. Held(f) = f.due
  BY <1>1, <1>3, WaitingHop
<1>5. /\ ScheduledAead(0).finish = f.due /\ ScheduledAead(0).next = aeadNextIssue'
  BY <1>1, <1>2 DEF ScheduledAead, Scheduled, Larger
<1>6. CryptoInv' /\ f.due <= CryptoBound
  <2>1. Backlog(0, 0, Waiting) /\ CryptoInv
    BY NoBacklog DEF DelayInv
  <2>2. f.due \in Nat /\ f.due <= Held(f)
    BY <1>1, <1>2, <1>4, LatencyTypes
  <2>3. QED
    BY <1>1, <1>2, <1>5, <2>1, <2>2, CryptoTurn
<1>7. ControlInv'
  BY <1>1, <1>2, UnitIdle, LatencyTypes DEF DelayInv, ControlInv
<1>8. LookupInv'
  BY <1>1, <1>3 DEF LookupInv
<1>9. RatchetInv'
  BY <1>1, <1>2, UnitIdle, LatencyTypes DEF DelayInv, RatchetInv
<1>10. RatchetPaceInv'
  <2>1. PICK m : m = (writesSinceRatchet + 1) * AeadIssue
    OBVIOUS
  <2>2. m \in Nat
    BY <2>1, Products, LatencyTypes DEF ClockTypes
  <2>3. QED
    BY <1>1, <1>2, <2>1, <2>2, LatencyTypes DEF DelayInv, RatchetPaceInv
<1>11. DelayBounded'
  BY <1>1, <1>3, <1>6, BoundedHop DEF DelayInv
<1>12. QED
  BY <1>6, <1>7, <1>8, <1>9, <1>10, <1>11 DEF DelayInv

LEMMA VerifiedDelays ==
    ASSUME FlightTypes, ClockTypes, ClockTypes', UnitsKeepUp, NotedInv, DelayInv,
           NEW p \in Packets, VerifiedReadResponse(p)
    PROVE  DelayInv'
<1>1. PICK f \in PacketState, latency \in Nat :
         /\ Hop(p, f) /\ IsAnswered(p, f) /\ f.isRead
         /\ HitLatency <= latency /\ latency <= MissLatency
         /\ metadataNextIssue' = metadataNextIssue + MetadataIssue
         /\ f.due = ScheduledAead(metadataNextIssue + latency).finish
         /\ aeadNextIssue' = ScheduledAead(metadataNextIssue + latency).next
         /\ mode = "verified"
         /\ UNCHANGED <<writeControlNextIssue, ratchetNextIssue, writesSinceRatchet>>
  BY VerifiedReadHop
<1>2. PICK ready : ready = metadataNextIssue + latency
  OBVIOUS
<1>3. /\ aeadNextIssue \in Nat /\ writeControlNextIssue \in Nat /\ ratchetNextIssue \in Nat
      /\ metadataNextIssue \in Nat /\ ready \in Nat
      /\ ratchetNextIssue - CryptoBound \in Int /\ SlowestTurn \in Nat
  BY <1>2, BoundTypes DEF ClockTypes
<1>4. mode' = mode /\ f.phase = "incoming"
  BY <1>1 DEF Hop, stageVars, IsAnswered
<1>5. /\ f.due \in Nat /\ f.due >= ready + AeadLatency /\ Held(f) = f.due
      /\ aeadNextIssue' >= aeadNextIssue
  <2>1. f.due = Larger(ready, aeadNextIssue) + AeadLatency
    BY <1>1, <1>2 DEF ScheduledAead, Scheduled
  <2>2. aeadNextIssue' = Larger(ready, aeadNextIssue) + AeadIssue
    BY <1>1, <1>2 DEF ScheduledAead, Scheduled
  <2>3. QED
    BY <1>1, <1>3, <1>4, <2>1, <2>2, WaitingHop, LatencyTypes DEF Larger
<1>6. Backlog(metadataNextIssue, MetadataIssue, Waiting)
  BY <1>1 DEF DelayInv, LookupInv
<1>7. CryptoInv' /\ f.due <= CryptoBound
  <2>1. MetadataIssue <= SlowestTurn /\ latency <= SlowestStep /\ MetadataIssue \in Nat
    BY <1>1, LatencyTypes DEF SlowestTurn, SlowestStep, Larger
  <2>2. ready <= metadataNextIssue + SlowestStep
    BY <1>1, <1>2, <1>3, <2>1, BoundTypes
  <2>3. CryptoInv /\ ScheduledAead(ready).finish <= Held(f)
    BY <1>1, <1>2, <1>5 DEF DelayInv
  <2>4. QED
    BY <1>1, <1>2, <1>3, <1>6, <2>1, <2>2, <2>3, CryptoTurn
<1>8. ControlInv'
  BY <1>1, <1>3, UnitIdle, LatencyTypes DEF DelayInv, ControlInv
\* The packet is held for its lookup and AEAD, hence for the lookup's turn.
<1>9. LookupInv'
  <2>1. metadataNextIssue' <= Held(f)
    BY <1>1, <1>2, <1>3, <1>5, LatencyTypes DEF UnitsKeepUp
  <2>2. Backlog(metadataNextIssue', MetadataIssue, Waiting')
    BY <1>1, <1>3, <1>6, <2>1, UnitTurn, LatencyTypes
  <2>3. QED
    BY <2>2 DEF LookupInv
<1>10. RatchetInv'
  BY <1>1, <1>3, UnitIdle, LatencyTypes DEF DelayInv, RatchetInv
<1>11. RatchetPaceInv'
  <2>1. PICK m : m = (writesSinceRatchet + 1) * AeadIssue
    OBVIOUS
  <2>2. m \in Nat
    BY <2>1, Products, LatencyTypes DEF ClockTypes
  <2>3. QED
    BY <1>1, <1>3, <1>5, <2>1, <2>2, LatencyTypes DEF DelayInv, RatchetPaceInv, ClockTypes
<1>12. DelayBounded'
  BY <1>1, <1>4, <1>7, BoundedHop DEF DelayInv
<1>13. QED
  BY <1>7, <1>8, <1>9, <1>10, <1>11, <1>12 DEF DelayInv

\* The control unit, whose operations are always ready.
LEMMA ControlTurn ==
    ASSUME FlightTypes, ClockTypes, ControlInv,
           NEW p \in Packets, NEW f \in PacketState, Hop(p, f),
           NEW latency \in Nat,
           writeControlNextIssue' = ScheduledControl(0, latency).next,
           latency > 0 => writeControlNextIssue + ControlIssue <= Held(f)
    PROVE  /\ ControlInv'
           /\ ScheduledControl(0, latency).finish \in Nat
           /\ IF latency = 0 THEN ScheduledControl(0, latency).finish = 0
              ELSE ScheduledControl(0, latency).finish = writeControlNextIssue + latency
           /\ ScheduledControl(0, latency).finish <= (K - 1) * ControlIssue + latency
<1>1. /\ writeControlNextIssue \in Nat /\ ControlIssue \in Nat /\ (K - 1) * ControlIssue \in Nat
      /\ K - 1 \in Nat
  BY BoundTypes, LatencyTypes DEF ClockTypes
<1>2. CASE latency = 0
  <2>1. writeControlNextIssue' = writeControlNextIssue /\ ScheduledControl(0, latency).finish = 0
    BY <1>2 DEF ScheduledControl
  <2>2. ControlInv'
    BY <1>1, <2>1, UnitIdle DEF ControlInv
  <2>3. QED
    BY <1>1, <1>2, <2>1, <2>2
<1>3. CASE latency # 0
  <2>1. /\ writeControlNextIssue' = writeControlNextIssue + ControlIssue
        /\ ScheduledControl(0, latency).finish = writeControlNextIssue + latency
    BY <1>1, <1>3 DEF ScheduledControl, Scheduled, Larger
  <2>2. /\ writeControlNextIssue' \in Int /\ writeControlNextIssue' <= Held(f)
        /\ writeControlNextIssue' <= writeControlNextIssue + ControlIssue
    BY <1>1, <1>3, <2>1
  <2>3. ControlInv'
    BY <1>1, <2>1, <2>2, UnitTurn DEF ControlInv
  <2>4. writeControlNextIssue <= ControlIssue * (K - 1)
    BY <1>1, UnitRoom DEF ControlInv
  <2>5. ControlIssue * (K - 1) = (K - 1) * ControlIssue
    BY <1>1, Z3
  <2>6. PICK m : m = (K - 1) * ControlIssue
    OBVIOUS
  <2>7. QED
    BY <1>1, <1>3, <2>1, <2>3, <2>4, <2>5, <2>6
<1>4. QED
  BY <1>2, <1>3

LEMMA WriteResponseDelays ==
    ASSUME FlightTypes, ClockTypes, ClockTypes', UnitsKeepUp, NotedInv, DelayInv,
           NEW p \in Packets, WriteResponse(p)
    PROVE  DelayInv'
<1>1. PICK f \in PacketState :
         /\ Hop(p, f) /\ IsAnswered(p, f) /\ ~f.isRead
         /\ f.due = ScheduledControl(0, CommitLatency).finish
         /\ writeControlNextIssue' = ScheduledControl(0, CommitLatency).next
         /\ UNCHANGED <<metadataNextIssue, aeadNextIssue, ratchetNextIssue,
                        writesSinceRatchet>>
  BY WriteResponseHop
<1>2. /\ aeadNextIssue \in Nat /\ writeControlNextIssue \in Nat /\ ratchetNextIssue \in Nat
      /\ metadataNextIssue \in Nat /\ aeadNextIssue - SlowestStep \in Int
      /\ ratchetNextIssue - CryptoBound \in Int
      /\ SlowestTurn \in Nat
  BY BoundTypes DEF ClockTypes
<1>3. mode' = mode /\ f.phase = "incoming"
  BY <1>1 DEF Hop, stageVars, IsAnswered
<1>4. Held(f) = f.due
  BY <1>1, <1>3, WaitingHop
<1>5. CommitLatency > 0 => writeControlNextIssue + ControlIssue <= Held(f)
  <2>1. ASSUME CommitLatency > 0 PROVE f.due = writeControlNextIssue + CommitLatency
    BY <1>1, <1>2, <2>1, LatencyTypes DEF ScheduledControl, Scheduled, Larger
  <2>2. QED
    BY <1>2, <1>4, <2>1, LatencyTypes DEF UnitsKeepUp
<1>6. ControlInv' /\ f.due <= CommitBound
  BY <1>1, <1>5, ControlTurn, LatencyTypes DEF DelayInv, CommitBound
<1>7. LookupInv'
  BY <1>1, <1>2, <1>3, UnitIdle, LatencyTypes DEF DelayInv, LookupInv
<1>8. CryptoInv'
  BY <1>1, <1>2, UnitIdle DEF DelayInv, CryptoInv
<1>9. RatchetInv'
  BY <1>1, <1>2, UnitIdle, LatencyTypes DEF DelayInv, RatchetInv
<1>10. RatchetPaceInv'
  BY <1>1 DEF DelayInv, RatchetPaceInv
<1>11. DelayBounded'
  BY <1>1, <1>3, <1>6, BoundedHop DEF DelayInv
<1>12. QED
  BY <1>6, <1>7, <1>8, <1>9, <1>10, <1>11 DEF DelayInv

\* If a ratchet takes no longer than the writes between two, it starts at once.
LEMMA RatchetPace ==
    ASSUME ClockTypes, RatchetPaceInv, RatchetDue, HkdfLatency <= RatchetEvery * AeadIssue
    PROVE  ratchetNextIssue <= aeadNextIssue + AeadLatency
<1>1. PICK w : w = writesSinceRatchet + 1
  OBVIOUS
<1>2. w \in Nat /\ RatchetEvery <= w
  BY <1>1 DEF ClockTypes, RatchetDue
<1>3. RatchetEvery * AeadIssue <= w * AeadIssue
  BY <1>2, Products, LatencyTypes, Z3
<1>4. PICK m, n : m = w * AeadIssue /\ n = RatchetEvery * AeadIssue
  OBVIOUS
<1>5. m \in Nat /\ n \in Nat
  BY <1>2, <1>4, Products, LatencyTypes
<1>6. CASE ratchetNextIssue > 0
  <2>1. ratchetNextIssue + m <= aeadNextIssue + AeadLatency + HkdfLatency
    BY <1>1, <1>4, <1>6 DEF RatchetPaceInv
  <2>2. QED
    BY <1>3, <1>4, <1>5, <2>1, LatencyTypes DEF ClockTypes
<1>7. QED
  BY <1>6, LatencyTypes DEF ClockTypes

LEMMA WriteRequestDelays ==
    ASSUME FlightTypes, ClockTypes, ClockTypes', UnitsKeepUp, NotedInv, DelayInv,
           NEW p \in Packets, NEW l \in Lines, WriteRequest(p, l)
    PROVE  DelayInv'
<1>1. PICK f \in PacketState, start \in Nat, aead \in Nat :
         /\ Hop(p, f) /\ SetsOut(p, f) /\ ~f.isRead
         /\ mode # "baseline"
         /\ start = ScheduledControl(0, ReservationLatency).finish
         /\ aead = ScheduledAead(start).finish
         /\ writeControlNextIssue' = ScheduledControl(0, ReservationLatency).next
         /\ aeadNextIssue' = ScheduledAead(start).next
         /\ metadataNextIssue' = metadataNextIssue
         /\ \/ /\ RatchetDue /\ f.due = Larger(aead, ratchetNextIssue) + HkdfLatency
               /\ ratchetNextIssue' = f.due /\ writesSinceRatchet' = 0
            \/ /\ ~RatchetDue /\ f.due = aead
               /\ ratchetNextIssue' = ratchetNextIssue
               /\ writesSinceRatchet' = IF RatchetEvery = 0 THEN 0
                                        ELSE writesSinceRatchet + 1
  BY WriteRequestHop
<1>2. /\ aeadNextIssue \in Nat /\ writeControlNextIssue \in Nat /\ ratchetNextIssue \in Nat
      /\ metadataNextIssue \in Nat /\ writesSinceRatchet \in Nat
      /\ CryptoBound \in Nat /\ RatchetBound \in Nat /\ SlowestTurn \in Nat /\ SlowestStep \in Nat
      /\ (K - 1) * HkdfLatency \in Nat /\ K * HkdfLatency = (K - 1) * HkdfLatency + HkdfLatency
      /\ K - 1 \in Nat
  BY BoundTypes DEF ClockTypes
<1>3. mode' = mode /\ f.phase = "outgoing"
  BY <1>1 DEF Hop, stageVars, SetsOut
<1>4. Held(f) = f.due
  BY <1>1, <1>3, WaitingHop
<1>5. /\ aead = Larger(start, aeadNextIssue) + AeadLatency
      /\ aeadNextIssue' = Larger(start, aeadNextIssue) + AeadIssue
  BY <1>1 DEF ScheduledAead, Scheduled
<1>6. /\ aead >= start + AeadLatency /\ aead >= aeadNextIssue + AeadLatency
      /\ aead + AeadIssue = aeadNextIssue' + AeadLatency
      /\ aeadNextIssue' >= aeadNextIssue + AeadIssue
  BY <1>1, <1>2, <1>5, LatencyTypes DEF Larger
<1>7. f.due \in Nat /\ f.due >= aead
  BY <1>1, <1>2, LatencyTypes DEF Larger
<1>8. ReservationLatency > 0 => writeControlNextIssue + ControlIssue <= Held(f)
  <2>1. ASSUME ReservationLatency > 0 PROVE start = writeControlNextIssue + ReservationLatency
    BY <1>1, <1>2, <2>1, LatencyTypes DEF ScheduledControl, Scheduled, Larger
  <2>2. QED
    BY <1>1, <1>2, <1>4, <1>6, <1>7, <2>1, LatencyTypes DEF UnitsKeepUp
<1>9. /\ ControlInv'
      /\ IF ReservationLatency = 0 THEN start = 0
         ELSE start = writeControlNextIssue + ReservationLatency
  BY <1>1, <1>8, ControlTurn, LatencyTypes DEF DelayInv
<1>10. LookupInv'
  BY <1>1, <1>2, <1>3, UnitIdle, LatencyTypes DEF DelayInv, LookupInv
<1>11. CryptoInv' /\ aead <= CryptoBound
  <2>1. ControlIssue <= SlowestTurn /\ ReservationLatency <= SlowestStep
    BY LatencyTypes DEF SlowestTurn, SlowestStep, Larger
  <2>2. start <= writeControlNextIssue + SlowestStep
    BY <1>2, <1>9, <2>1, LatencyTypes
  <2>3. Backlog(writeControlNextIssue, ControlIssue, Waiting) /\ CryptoInv
    BY DEF DelayInv, ControlInv
  <2>4. ScheduledAead(start).finish <= Held(f)
    BY <1>1, <1>4, <1>7
  <2>5. QED
    BY <1>1, <1>2, <2>1, <2>2, <2>3, <2>4, CryptoTurn, LatencyTypes
<1>12. CASE ~RatchetDue
  <2>1. f.due = aead /\ ratchetNextIssue' = ratchetNextIssue
        /\ writesSinceRatchet' = IF RatchetEvery = 0 THEN 0 ELSE writesSinceRatchet + 1
    BY <1>1, <1>12
  <2>2. RatchetInv'
    BY <1>1, <1>2, <2>1, UnitIdle, LatencyTypes DEF DelayInv, RatchetInv
  <2>3. RatchetPaceInv'
    <3>1. PICK w, m, i : w = writesSinceRatchet + 1 /\ m = w * AeadIssue /\ i = AeadIssue
      OBVIOUS
    <3>2. w \in Nat /\ m \in Nat /\ i \in Nat
      BY <1>2, <3>1, Products, LatencyTypes
    <3>3. (w + 1) * i = m + i /\ (0 + 1) * i = i /\ (0 + 1) * i <= w * i
      <4>1. i * (w + 1) = i * w + i
        BY <3>2, Products
      <4>2. w * i = i * w /\ (w + 1) * i = i * (w + 1)
        BY <3>2, Z3
      <4>3. (0 + 1) * i = i
        BY <3>2
      <4>4. 1 <= w
        BY <1>2, <3>1
      <4>5. i * 1 <= i * w
        BY <3>2, <4>4, Products
      <4>6. QED
        BY <3>1, <3>2, <4>1, <4>2, <4>3, <4>5
    <3>4. ASSUME ratchetNextIssue > 0, HkdfLatency <= RatchetEvery * AeadIssue
          PROVE  ratchetNextIssue + m <= aeadNextIssue + AeadLatency + HkdfLatency
      BY <3>1, <3>4 DEF DelayInv, RatchetPaceInv
    <3>5. PICK v, m1 : v = writesSinceRatchet' /\ m1 = (v + 1) * AeadIssue
      OBVIOUS
    <3>6. v \in {0, w}
      BY <2>1, <3>1, <3>5
    <3>7. m1 \in Nat /\ m1 <= m + i
      <4>1. CASE v = 0
        <5>1. m1 = i
          BY <3>1, <3>2, <3>3, <3>5, <4>1
        <5>2. QED
          BY <3>2, <5>1
      <4>2. CASE v = w
        <5>1. m1 = m + i
          BY <3>1, <3>3, <3>5, <4>2
        <5>2. QED
          BY <3>2, <5>1
      <4>3. QED
        BY <3>6, <4>1, <4>2
    <3>8. ASSUME ratchetNextIssue > 0, HkdfLatency <= RatchetEvery * AeadIssue
          PROVE  ratchetNextIssue + m1 <= aeadNextIssue' + AeadLatency + HkdfLatency
      <4>1. ratchetNextIssue + m <= aeadNextIssue + AeadLatency + HkdfLatency
        BY <3>4, <3>8
      <4>2. aeadNextIssue' >= aeadNextIssue + i /\ aeadNextIssue' \in Nat
        BY <1>6, <3>1 DEF ClockTypes
      <4>3. /\ aeadNextIssue \in Nat /\ ratchetNextIssue \in Nat
            /\ AeadLatency \in Nat /\ HkdfLatency \in Nat
        BY LatencyTypes DEF ClockTypes
      <4>4. PICK a, a1, r : a = aeadNextIssue /\ a1 = aeadNextIssue' /\ r = ratchetNextIssue
        OBVIOUS
      <4>5. /\ a \in Nat /\ a1 \in Nat /\ r \in Nat /\ a1 >= a + i
            /\ r + m <= a + AeadLatency + HkdfLatency
        BY <4>1, <4>2, <4>3, <4>4
      <4>6. r + m1 <= a1 + AeadLatency + HkdfLatency
        BY <3>2, <3>7, <4>3, <4>5
      <4>7. QED
        BY <4>4, <4>6
    <3>9. QED
      BY <2>1, <3>5, <3>8 DEF RatchetPaceInv
  <2>4. f.due <= CryptoBound + RatchetBound
    BY <1>1, <1>2, <1>11, <2>1
  <2>5. DelayBounded'
    BY <1>1, <1>3, <2>4, BoundedHop DEF DelayInv
  <2>6. QED
    BY <1>9, <1>10, <1>11, <2>2, <2>3, <2>5 DEF DelayInv
<1>13. CASE RatchetDue
  <2>1. /\ f.due = Larger(aead, ratchetNextIssue) + HkdfLatency
        /\ ratchetNextIssue' = f.due /\ writesSinceRatchet' = 0
    BY <1>1, <1>13
  <2>2. RatchetInv'
    <3>1. PICK n, n1 : n = ratchetNextIssue - CryptoBound /\ n1 = ratchetNextIssue' - CryptoBound
      OBVIOUS
    <3>2. n \in Int /\ n1 \in Int /\ n1 <= Held(f)
      BY <1>2, <1>4, <1>7, <2>1, <3>1
    <3>3. n1 <= n + HkdfLatency \/ n1 <= 0 + HkdfLatency
      BY <1>1, <1>2, <1>11, <2>1, <3>1, LatencyTypes DEF Larger
    <3>4. Backlog(n, HkdfLatency, Waiting) /\ Backlog(0, HkdfLatency, Waiting)
      BY <3>1, NoBacklog DEF DelayInv, RatchetInv
    <3>5. CASE n1 <= n + HkdfLatency
      BY <1>1, <3>1, <3>2, <3>4, <3>5, UnitTurn, LatencyTypes DEF RatchetInv
    <3>6. CASE n1 <= 0 + HkdfLatency
      BY <1>1, <3>1, <3>2, <3>4, <3>6, UnitTurn, LatencyTypes DEF RatchetInv
    <3>7. QED
      BY <3>3, <3>5, <3>6
  <2>3. HkdfLatency <= RatchetEvery * AeadIssue => f.due = aead + HkdfLatency
    <3>1. ASSUME HkdfLatency <= RatchetEvery * AeadIssue PROVE ratchetNextIssue <= aead
      BY <1>1, <1>2, <1>6, <1>13, <3>1, RatchetPace, LatencyTypes DEF DelayInv
    <3>2. QED
      BY <1>1, <1>2, <2>1, <3>1 DEF Larger
  <2>4. RatchetPaceInv'
    <3>1. (writesSinceRatchet' + 1) * AeadIssue = AeadIssue
      BY <2>1, LatencyTypes
    <3>2. QED
      BY <1>1, <1>2, <1>6, <2>1, <2>3, <3>1, LatencyTypes DEF RatchetPaceInv, ClockTypes
  <2>5. f.due <= CryptoBound + RatchetBound
    <3>1. RatchetEvery # 0
      BY <1>13 DEF RatchetDue
    <3>2. CASE HkdfLatency <= RatchetEvery * AeadIssue
      <4>1. RatchetBound = HkdfLatency
        BY <3>1, <3>2 DEF RatchetBound
      <4>2. QED
        BY <1>1, <1>2, <1>11, <2>3, <3>2, <4>1, LatencyTypes
    <3>3. CASE ~(HkdfLatency <= RatchetEvery * AeadIssue)
      <4>1. RatchetBound = K * HkdfLatency
        BY <3>1, <3>3 DEF RatchetBound
      <4>2. ratchetNextIssue - CryptoBound <= HkdfLatency * (K - 1)
        BY <1>1, <1>2, UnitRoom, LatencyTypes DEF DelayInv, RatchetInv
      <4>3. HkdfLatency * (K - 1) = (K - 1) * HkdfLatency
        BY <1>2, LatencyTypes, Z3
      <4>4. PICK m, b : m = (K - 1) * HkdfLatency /\ b = RatchetBound
        OBVIOUS
      <4>5. QED
        BY <1>1, <1>2, <1>11, <2>1, <4>1, <4>2, <4>3, <4>4, LatencyTypes DEF Larger
    <3>4. QED
      BY <3>2, <3>3
  <2>6. DelayBounded'
    BY <1>1, <1>3, <2>5, BoundedHop DEF DelayInv
  <2>7. QED
    BY <1>9, <1>10, <1>11, <2>2, <2>4, <2>6 DEF DelayInv
<1>14. QED
  BY <1>12, <1>13

LEMMA TickWaiting ==
    ASSUME FlightTypes, Tick
    PROVE  /\ Waiting \in [Packets -> Nat] /\ Waiting' \in [Packets -> Nat]
           /\ \A p \in Packets : Waiting'[p] = Nearer(Waiting[p])
<1>1. ASSUME NEW p \in Packets
      PROVE  Held(flight[p]) \in Nat /\ Held(flight'[p]) = Nearer(Held(flight[p]))
  <2>1. CASE flight[p] = Idle
    <3>1. flight'[p] = Idle /\ Held(Idle) = 0
      BY <2>1, TickPacket DEF Held, Idle
    <3>2. QED
      BY <2>1, <3>1 DEF Nearer
  <2>2. CASE flight[p] # Idle
    <3>1. flight[p].due \in Nat
      BY <2>2, PacketFields
    <3>2. flight'[p].phase = flight[p].phase /\ flight'[p].due = Nearer(flight[p].due)
      BY <2>2, TickPacket
    <3>3. Nearer(0) = 0
      BY DEF Nearer
    <3>4. QED
      BY <3>1, <3>2, <3>3 DEF Held
  <2>3. QED
    BY <2>1, <2>2
<1>2. /\ Waiting = [p \in Packets |-> Held(flight[p])]
      /\ Waiting' = [p \in Packets |-> Held(flight'[p])]
  BY DEF Waiting, Held
<1>3. \A t \in Nat : Nearer(t) \in Nat
  BY NearerType
<1>4. QED
  BY <1>1, <1>2, <1>3

LEMMA TickDelays ==
    ASSUME Packets # {}, FlightTypes, ClockTypes, DelayInv, Tick
    PROVE  DelayInv'
<1>1. PICK h, h1 : h = Waiting /\ h1 = Waiting'
  OBVIOUS
<1>2. h \in [Packets -> Nat] /\ h1 \in [Packets -> Nat] /\ \A p \in Packets : h1[p] = Nearer(h[p])
  BY <1>1, TickWaiting
<1>3. /\ aeadNextIssue \in Nat /\ aeadNextIssue' = Nearer(aeadNextIssue)
      /\ ratchetNextIssue \in Nat /\ ratchetNextIssue' = Nearer(ratchetNextIssue)
      /\ writeControlNextIssue \in Nat /\ writeControlNextIssue' = Nearer(writeControlNextIssue)
      /\ metadataNextIssue \in Nat /\ metadataNextIssue' = Nearer(metadataNextIssue)
      /\ mode' = mode /\ writesSinceRatchet' = writesSinceRatchet
  BY DEF Tick, ClockTypes
<1>4. \A t \in Nat : Nearer(t) \in Nat /\ (Nearer(t) = t - 1 \/ (Nearer(t) = 0 /\ t = 0))
                     /\ Nearer(t) <= t /\ Nearer(t) >= t - 1
  BY DEF Nearer
<1>5. SlowestStep \in Nat /\ SlowestTurn \in Nat
  BY LatencyTypes DEF SlowestStep, SlowestTurn, Larger
<1>6. ControlInv'
  <2>1. Backlog(writeControlNextIssue, ControlIssue, h)
    BY <1>1 DEF DelayInv, ControlInv
  <2>2. /\ writeControlNextIssue' \in Int
        /\ writeControlNextIssue' <= writeControlNextIssue - 1 \/ writeControlNextIssue' <= 0
    BY <1>3, <1>4
  <2>3. Backlog(writeControlNextIssue', ControlIssue, h1)
    BY <1>2, <1>3, <2>1, <2>2, BacklogTick, LatencyTypes
  <2>4. QED
    BY <1>1, <2>3 DEF ControlInv
<1>7. LookupInv'
  <2>1. SUFFICES ASSUME mode = "verified" PROVE Backlog(metadataNextIssue', MetadataIssue, h1)
    BY <1>1, <1>3 DEF LookupInv
  <2>2. Backlog(metadataNextIssue, MetadataIssue, h)
    BY <1>1, <2>1 DEF DelayInv, LookupInv
  <2>3. /\ metadataNextIssue' \in Int
        /\ metadataNextIssue' <= metadataNextIssue - 1 \/ metadataNextIssue' <= 0
    BY <1>3, <1>4
  <2>4. QED
    BY <1>2, <1>3, <2>2, <2>3, BacklogTick, LatencyTypes
<1>8. CryptoInv'
  <2>1. PICK n, n1 : n = aeadNextIssue - SlowestStep /\ n1 = aeadNextIssue' - SlowestStep
    OBVIOUS
  <2>2. n \in Int /\ n1 \in Int /\ (n1 <= n - 1 \/ n1 <= 0)
    BY <1>3, <1>4, <1>5, <2>1
  <2>3. Backlog(n, SlowestTurn, h)
    BY <1>1, <2>1 DEF DelayInv, CryptoInv
  <2>4. Backlog(n1, SlowestTurn, h1)
    BY <1>2, <1>5, <2>2, <2>3, BacklogTick
  <2>5. QED
    BY <1>1, <2>1, <2>4 DEF CryptoInv
<1>9. RatchetInv'
  <2>1. CryptoBound \in Nat
    BY BoundTypes
  <2>2. PICK n, n1 : n = ratchetNextIssue - CryptoBound /\ n1 = ratchetNextIssue' - CryptoBound
    OBVIOUS
  <2>3. n \in Int /\ n1 \in Int /\ (n1 <= n - 1 \/ n1 <= 0)
    BY <1>3, <1>4, <2>1, <2>2
  <2>4. Backlog(n, HkdfLatency, h)
    BY <1>1, <2>2 DEF DelayInv, RatchetInv
  <2>5. Backlog(n1, HkdfLatency, h1)
    BY <1>2, <2>3, <2>4, BacklogTick, LatencyTypes
  <2>6. QED
    BY <1>1, <2>2, <2>5 DEF RatchetInv
<1>10. RatchetPaceInv'
  <2>1. PICK m, a, a1, r : /\ m = (writesSinceRatchet + 1) * AeadIssue
                           /\ a = aeadNextIssue /\ a1 = aeadNextIssue' /\ r = ratchetNextIssue
    OBVIOUS
  <2>2. m \in Nat /\ a \in Nat /\ a1 \in Nat /\ a1 >= a - 1 /\ r \in Nat
    BY <1>3, <1>4, <2>1, Products, LatencyTypes DEF ClockTypes
  <2>3. ASSUME HkdfLatency <= RatchetEvery * AeadIssue, ratchetNextIssue' > 0
        PROVE  ratchetNextIssue' + m <= a1 + AeadLatency + HkdfLatency
    <3>1. r > 0 /\ ratchetNextIssue' = r - 1
      BY <1>3, <1>4, <2>1, <2>3
    <3>2. r + m <= a + AeadLatency + HkdfLatency
      BY <2>1, <2>3, <3>1 DEF DelayInv, RatchetPaceInv
    <3>3. QED
      BY <2>2, <3>1, <3>2, LatencyTypes
  <2>4. QED
    BY <1>3, <2>1, <2>3 DEF RatchetPaceInv
<1>11. DelayBounded'
  <2>1. ASSUME NEW p \in Packets, flight'[p] # Idle
        PROVE  /\ flight[p] # Idle /\ flight'[p].phase = flight[p].phase
               /\ flight'[p].isRead = flight[p].isRead
               /\ flight'[p].due \in Nat /\ flight[p].due \in Nat
               /\ flight'[p].due <= flight[p].due
    BY <1>4, <2>1, TickPacket, PacketFields
  <2>2. ASSUME NEW p \in Packets, flight'[p] # Idle
        PROVE  /\ flight'[p].phase = "incoming" =>
                     flight'[p].due <= IF flight'[p].isRead THEN CryptoBound ELSE CommitBound
               /\ flight'[p].phase = "outgoing" => flight'[p].due <= CryptoBound + RatchetBound
    <3>1. PICK d, d1, b : /\ d = flight[p].due /\ d1 = flight'[p].due
                          /\ b = IF flight[p].isRead THEN CryptoBound ELSE CommitBound
      OBVIOUS
    <3>2. /\ d \in Nat /\ d1 \in Nat /\ d1 <= d /\ b \in Nat
          /\ CryptoBound + RatchetBound \in Nat
      BY <2>1, <2>2, <3>1, BoundTypes
    <3>3. /\ flight[p].phase = "incoming" => d <= b
          /\ flight[p].phase = "outgoing" => d <= CryptoBound + RatchetBound
      BY <2>1, <2>2, <3>1 DEF DelayInv, DelayBounded
    <3>4. QED
      BY <2>1, <2>2, <3>1, <3>2, <3>3
  <2>3. QED
    BY <2>2 DEF DelayBounded
<1>12. QED
  BY <1>6, <1>7, <1>8, <1>9, <1>10, <1>11 DEF DelayInv

LEMMA IdleDelays ==
    ASSUME DelayInv, UNCHANGED <<mode, issueVars, requests, flight>>
    PROVE  DelayInv'
<1>1. Waiting' = Waiting
  BY DEF Waiting
<1>2. DelayBounded'
  BY DEF DelayInv, DelayBounded
<1>3. ControlInv' /\ LookupInv' /\ CryptoInv' /\ RatchetInv' /\ RatchetPaceInv'
  BY <1>1 DEF DelayInv, ControlInv, LookupInv, CryptoInv, RatchetInv, RatchetPaceInv, issueVars
<1>4. QED
  BY <1>1, <1>2, <1>3 DEF DelayInv

\* What the moves that take no time of a unit do to the delays.
LEMMA QuietMoves ==
    ASSUME FlightTypes, ClockTypes, ClockTypes', UnitsKeepUp, NotedInv, DelayInv,
           NEW p \in Packets,
           \/ \E l \in Lines : ReadRequest(p, l) \/ BaselineWriteRequest(p, l)
           \/ Send(p) \/ Deliver(p) \/ BaselineReadResponse(p)
    PROVE  DelayInv'
<1>1. \E f \in PacketState :
         /\ Hop(p, f) /\ Held(f) = 0
         /\ UNCHANGED <<aeadNextIssue, writeControlNextIssue, ratchetNextIssue,
                        writesSinceRatchet>>
         /\ mode # "optimistic" => metadataNextIssue' = metadataNextIssue
  <2>1. CASE \E l \in Lines : ReadRequest(p, l)
    BY <2>1, ReadRequestHop DEF Held
  <2>2. CASE \E l \in Lines : BaselineWriteRequest(p, l)
    BY <2>2, BaselineWriteHop DEF Held, issueVars
  <2>3. CASE Send(p)
    BY <2>3, SendHop DEF Held, GoesOn, issueVars
  <2>4. CASE Deliver(p)
    BY <2>4, DeliverHop DEF Held, Idle, issueVars
  <2>5. CASE BaselineReadResponse(p)
    BY <2>5, BaselineReadHop DEF Held, issueVars
  <2>6. QED
    BY <2>1, <2>2, <2>3, <2>4, <2>5
<1>2. PICK f \in PacketState :
         /\ Hop(p, f) /\ Held(f) = 0
         /\ UNCHANGED <<aeadNextIssue, writeControlNextIssue, ratchetNextIssue,
                        writesSinceRatchet>>
         /\ mode # "optimistic" => metadataNextIssue' = metadataNextIssue
  BY <1>1
<1>3. QED
  BY <1>2, QuietDelays

LEMMA MoveDelays ==
    ASSUME FlightTypes, ClockTypes, ClockTypes', UnitsKeepUp, NotedInv, DelayInv, Next
    PROVE  DelayInv' \/ EndWarmup \/ ResetStats \/ Tick
<1>1. ASSUME NEW p \in Packets, NEW l \in Lines,
             ReadRequest(p, l) \/ BaselineWriteRequest(p, l) \/ WriteRequest(p, l)
      PROVE  DelayInv'
  BY <1>1, QuietMoves, WriteRequestDelays
<1>2. ASSUME NEW p \in Packets,
             \/ Send(p)
             \/ BaselineReadResponse(p) \/ OptimisticReadResponse(p) \/ VerifiedReadResponse(p)
             \/ WriteResponse(p)
             \/ Deliver(p)
      PROVE  DelayInv'
  BY <1>2, QuietMoves, OptimisticDelays, VerifiedDelays, WriteResponseDelays
<1>3. QED
  BY <1>1, <1>2 DEF Next

TimelyInv == TimingInv /\ NotedInv /\ DelayInv

LEMMA TimelyInitial ==
    ASSUME Init, Packets # {}
    PROVE  TimelyInv
<1>1. TimingInv /\ NotedInv
  BY TimingInitial DEF Init, NotedInv
<1>2. /\ metadataNextIssue = 0 /\ aeadNextIssue = 0 /\ writeControlNextIssue = 0
      /\ ratchetNextIssue = 0 /\ \A p \in Packets : flight[p] = Idle
  BY DEF Init
<1>3. \A n \in Int : n <= 0 => \A issue, h : Backlog(n, issue, h)
  BY DEF Backlog
<1>4. /\ 0 - SlowestStep \in Int /\ 0 - SlowestStep <= 0
      /\ 0 - CryptoBound \in Int /\ 0 - CryptoBound <= 0
  BY BoundTypes
<1>5. ControlInv /\ LookupInv /\ CryptoInv /\ RatchetInv
  BY <1>2, <1>3, <1>4 DEF ControlInv, LookupInv, CryptoInv, RatchetInv
<1>6. RatchetPaceInv
  BY <1>2 DEF RatchetPaceInv
<1>7. DelayBounded
  BY <1>2 DEF DelayBounded
<1>8. QED
  BY <1>1, <1>5, <1>6, <1>7 DEF TimelyInv, DelayInv

LEMMA TimelyStep ==
    ASSUME TimelyInv, [Next]_vars, UnitsKeepUp, Packets # {}
    PROVE  TimelyInv'
<1>1. TimingInv' /\ ClockTypes' /\ FlightTypes /\ ClockTypes /\ NotedInv /\ DelayInv
  BY TimingStep DEF TimelyInv, TimingInv
<1>2. NotedInv'
  BY NotedStep DEF TimelyInv
<1>3. CASE EndWarmup \/ ResetStats \/ UNCHANGED vars
  <2>1. UNCHANGED <<mode, issueVars, requests, flight>>
    BY <1>3 DEF EndWarmup, ResetStats, vars, stageVars
  <2>2. QED
    BY <1>1, <1>2, <2>1, IdleDelays DEF TimelyInv
<1>4. CASE Tick
  BY <1>1, <1>2, <1>4, TickDelays DEF TimelyInv
<1>5. CASE DelayInv'
  BY <1>1, <1>2, <1>5 DEF TimelyInv
<1>6. QED
  BY <1>1, <1>3, <1>4, <1>5, MoveDelays

\* TimelyInv is inductive: what waits at the controller's units is accounted for by
\* their backlogs, and backlogs and delays stay within bounds from step to step.
THEOREM TimelyInvariant ==
    ASSUME UnitsKeepUp, Packets # {}
    PROVE  Spec => []TimelyInv
<1>1. Init => TimelyInv
  BY TimelyInitial
<1>2. TimelyInv /\ [Next]_vars => TimelyInv'
  BY TimelyStep
<1>3. QED
  BY <1>1, <1>2, PTL DEF Spec

\* The delays that delayReq and delayResp add stay within bounds that the latencies
\* and the number of packets give, whatever the load, for any units that keep up:
\* no queue of the controller grows.
THEOREM DelaysBounded ==
    ASSUME UnitsKeepUp
    PROVE  Spec => []DelayBounded
<1>1. CASE Packets = {}
  <2>1. DelayBounded
    BY <1>1 DEF DelayBounded
  <2>2. QED
    BY <2>1, PTL
<1>2. CASE Packets # {}
  <2>1. Spec => []TimelyInv
    BY <1>2, TimelyInvariant
  <2>2. TimelyInv => DelayBounded
    BY DEF TimelyInv, DelayInv
  <2>3. QED
    BY <2>1, <2>2, PTL
<1>3. QED
  BY <1>1, <1>2

-----------------------------------------------------------------------------
(* The window of optimistic mode.                                          *)

\* A read holds its lookup's turn until it is answered.  Then the AEAD unit, which
\* gives turns no faster, has taken over.
AtSea(f) == f.phase \in {"outgoing", "memory"} /\ f.isRead
Reading == {p \in Packets : AtSea(flight[p])}
HeldForLookup(f, next) ==
    IF AtSea(f) THEN next
    ELSE IF f.phase = "incoming" /\ f.isRead THEN f.due ELSE 0
LookupWaiting == [p \in Packets |-> HeldForLookup(flight[p], metadataNextIssue)]
OptimisticInv == Backlog(metadataNextIssue, MetadataIssue, LookupWaiting)
PaceInv == metadataNextIssue + AeadIssue
               <= MetadataIssue * Cardinality(Reading) + aeadNextIssue + AeadLatency

\* No lookup takes longer.
LookupBound == (K - 1) * MetadataIssue + MissLatency

\* What is left of a lookup when its read has come so far.
InTime(f) ==
    /\ f.phase = "outgoing" => f.metadata <= LookupBound
    /\ f.phase = "memory" => \E latency \in MemoryLatencies :
          f.due <= latency /\ f.metadata <= Larger(0, LookupBound - latency + f.due)
    /\ f.phase = "incoming" => \E latency \in MemoryLatencies :
          f.metadata - f.due <= Larger(0, LookupBound - latency - AeadLatency)
InTimeInv == \A p \in Packets : flight[p] # Idle => InTime(flight[p])

WindowInv == mode = "optimistic" => OptimisticInv /\ PaceInv /\ InTimeInv

LEMMA LookupTypes ==
    ASSUME NEW p \in Packets
    PROVE  /\ LookupBound \in Nat /\ (K - 1) * MetadataIssue \in Nat
           /\ MetadataIssue * (K - 1) = (K - 1) * MetadataIssue
           /\ LookupBound = (K - 1) * MetadataIssue + MissLatency
<1>1. K - 1 \in Nat
  BY HoldingSize
<1>2. MetadataIssue * (K - 1) \in Nat
  BY <1>1, Products, LatencyTypes
<1>3. MetadataIssue * (K - 1) = (K - 1) * MetadataIssue
  BY <1>1, LatencyTypes, Z3
<1>4. QED
  BY <1>2, <1>3, LatencyTypes DEF LookupBound

LEMMA ReadingSize ==
    ASSUME FlightTypes
    PROVE  IsFiniteSet(Reading) /\ Cardinality(Reading) \in Nat
<1>1. Reading \subseteq Packets
  BY DEF Reading
<1>2. QED
  BY <1>1, PacketsAssumption, FS_Subset, FS_CardinalityType

LEMMA LookupWaitingType ==
    ASSUME NEW there \in [Packets -> PacketState], NEW n \in Nat
    PROVE  [p \in Packets |-> HeldForLookup(there[p], n)] \in [Packets -> Nat]
<1>1. ASSUME NEW f \in PacketState PROVE HeldForLookup(f, n) \in Nat
  BY DEF HeldForLookup, AtSea, PacketState, Idle
<1>2. QED
  BY <1>1

\* A packet moves in time if it was before, and moves as it does.
LEMMA InTimeHop ==
    ASSUME FlightTypes, InTimeInv, NEW p \in Packets, NEW f \in PacketState, Hop(p, f),
           f # Idle => InTime(f)
    PROVE  InTimeInv'
<1>1. \A q \in Packets : flight'[q] = IF q = p THEN f ELSE flight[q]
  BY DEF Hop, FlightTypes
<1>2. ASSUME NEW q \in Packets, flight'[q] # Idle PROVE InTime(flight'[q])
  BY <1>1, <1>2 DEF InTimeInv
<1>3. QED
  BY <1>2 DEF InTimeInv, InTime

\* A write, or a read that goes on, changes nothing for the lookups.
LEMMA QuietWindow ==
    ASSUME FlightTypes, ClockTypes, ClockTypes', WindowInv, NEW p \in Packets,
           NEW f \in PacketState, Hop(p, f), metadataNextIssue' = metadataNextIssue,
           aeadNextIssue' >= aeadNextIssue,
           AtSea(f) <=> AtSea(flight[p]),
           HeldForLookup(f, metadataNextIssue) = HeldForLookup(flight[p], metadataNextIssue),
           mode = "optimistic" /\ InTimeInv /\ f # Idle => InTime(f)
    PROVE  WindowInv'
<1>1. \A q \in Packets : flight'[q] = IF q = p THEN f ELSE flight[q]
  BY DEF Hop, FlightTypes
<1>2. Reading' = Reading
  BY <1>1 DEF Reading, AtSea
<1>3. LookupWaiting' = LookupWaiting
  <2>1. \A q \in Packets : HeldForLookup(flight'[q], metadataNextIssue)
                               = HeldForLookup(flight[q], metadataNextIssue)
    BY <1>1
  <2>2. LookupWaiting' = [q \in Packets |-> HeldForLookup(flight'[q], metadataNextIssue)]
    BY DEF LookupWaiting, HeldForLookup, AtSea
  <2>3. QED
    BY <2>1, <2>2 DEF LookupWaiting
<1>4. mode' = mode
  BY DEF Hop, stageVars
<1>5. SUFFICES ASSUME mode = "optimistic" PROVE OptimisticInv' /\ PaceInv' /\ InTimeInv'
  BY <1>4 DEF WindowInv
<1>6. OptimisticInv /\ PaceInv /\ InTimeInv
  BY <1>5 DEF WindowInv
<1>7. OptimisticInv'
  BY <1>3, <1>6 DEF OptimisticInv
<1>8. PaceInv'
  <2>1. PICK m : m = MetadataIssue * Cardinality(Reading)
    OBVIOUS
  <2>2. m \in Nat
    BY <2>1, ReadingSize, Products, LatencyTypes
  <2>3. metadataNextIssue + AeadIssue <= m + aeadNextIssue + AeadLatency
    BY <1>6, <2>1 DEF PaceInv
  <2>4. PICK n, a, a1 : n = metadataNextIssue /\ a = aeadNextIssue /\ a1 = aeadNextIssue'
    OBVIOUS
  <2>5. n \in Nat /\ a \in Nat /\ a1 \in Nat /\ a1 >= a /\ n + AeadIssue <= m + a + AeadLatency
    BY <2>3, <2>4 DEF ClockTypes
  <2>6. n + AeadIssue <= m + a1 + AeadLatency
    BY <2>2, <2>5, LatencyTypes
  <2>7. QED
    BY <1>2, <2>1, <2>4, <2>6 DEF PaceInv
<1>9. InTimeInv'
  BY <1>5, <1>6, InTimeHop
<1>10. QED
  BY <1>7, <1>8, <1>9

\* The lookup of a read takes its turn.
LEMMA ReadRequestWindow ==
    ASSUME FlightTypes, ClockTypes, ClockTypes', FlightTypes', UnitsKeepUp, NotedInv, WindowInv,
           NEW p \in Packets, NEW l \in Lines, ReadRequest(p, l)
    PROVE  WindowInv'
<1>1. PICK f \in PacketState :
         /\ Hop(p, f) /\ SetsOut(p, f) /\ f.isRead = TRUE /\ f.due = 0
         /\ UNCHANGED <<aeadNextIssue, writeControlNextIssue, ratchetNextIssue,
                        writesSinceRatchet>>
         /\ mode # "optimistic" => metadataNextIssue' = metadataNextIssue
         /\ mode = "optimistic" =>
               /\ metadataNextIssue' = metadataNextIssue + MetadataIssue
               /\ f.metadata <= metadataNextIssue + MissLatency
  BY ReadRequestHop
<1>2. mode' = mode
  BY <1>1 DEF Hop, stageVars
<1>3. SUFFICES ASSUME mode = "optimistic" PROVE OptimisticInv' /\ PaceInv' /\ InTimeInv'
  BY <1>2 DEF WindowInv
<1>4. OptimisticInv /\ PaceInv /\ InTimeInv
  BY <1>3 DEF WindowInv
<1>5. PICK n, n1 : n = metadataNextIssue /\ n1 = metadataNextIssue'
  OBVIOUS
<1>6. n \in Nat /\ n1 \in Nat /\ n1 = n + MetadataIssue
  BY <1>1, <1>3, <1>5 DEF ClockTypes
<1>7. PICK h, h1 : h = LookupWaiting /\ h1 = LookupWaiting'
  OBVIOUS
<1>8. h \in [Packets -> Nat] /\ h1 \in [Packets -> Nat] /\ Backlog(n, MetadataIssue, h)
  <2>1. h \in [Packets -> Nat]
    BY <1>5, <1>6, <1>7, LookupWaitingType DEF LookupWaiting, FlightTypes
  <2>2. h1 = [q \in Packets |-> HeldForLookup(flight'[q], n1)]
    BY <1>5, <1>7 DEF LookupWaiting, HeldForLookup, AtSea
  <2>3. h1 \in [Packets -> Nat]
    BY <1>6, <2>2, LookupWaitingType DEF FlightTypes
  <2>4. QED
    BY <1>4, <1>5, <1>7, <2>1, <2>3 DEF OptimisticInv
<1>9. \A q \in Packets : flight'[q] = IF q = p THEN f ELSE flight[q]
  BY <1>1 DEF Hop, FlightTypes
<1>10. ~AtSea(flight[p]) /\ AtSea(f) /\ h[p] = 0
  <2>1. flight[p] = Idle /\ f.phase = "outgoing"
    BY <1>1 DEF SetsOut
  <2>2. QED
    BY <1>1, <1>7, <2>1 DEF LookupWaiting, HeldForLookup, AtSea, Idle
<1>11. OptimisticInv'
  <2>1. PICK h2 : h2 = [h EXCEPT ![p] = n1]
    OBVIOUS
  <2>2. h2 \in [Packets -> Nat]
    BY <1>6, <1>8, <2>1
  <2>3. Backlog(n1, MetadataIssue, [h EXCEPT ![p] = n1])
    <3>1. n \in Int /\ n1 \in Int /\ n1 <= n + MetadataIssue
          /\ MetadataIssue \in Nat /\ MetadataIssue <= MetadataIssue /\ n1 <= n1
      BY <1>6, LatencyTypes
    <3>2. QED
      BY <1>6, <1>8, <1>10, <3>1, BacklogTake
  <2>4. ASSUME NEW q \in Packets PROVE h2[q] <= h1[q]
    <3>1. h1[q] = HeldForLookup(flight'[q], n1)
      BY <1>5, <1>7 DEF LookupWaiting
    <3>2. CASE q = p
      BY <1>6, <1>8, <1>9, <1>10, <2>1, <3>1, <3>2 DEF HeldForLookup
    <3>3. CASE q # p
      <4>1. h[q] = HeldForLookup(flight[q], n) /\ h2[q] = h[q] /\ h1[q] = HeldForLookup(flight[q], n1)
        BY <1>5, <1>7, <1>8, <1>9, <2>1, <3>1, <3>3 DEF LookupWaiting
      <4>2. CASE AtSea(flight[q])
        BY <1>6, <4>1, <4>2, LatencyTypes DEF HeldForLookup
      <4>3. CASE ~AtSea(flight[q])
        <5>1. h[q] = h1[q] /\ h[q] \in Nat
          BY <1>8, <4>1, <4>3 DEF HeldForLookup
        <5>2. QED
          BY <4>1, <5>1
      <4>4. QED
        BY <4>2, <4>3
    <3>4. QED
      BY <3>2, <3>3
  <2>5. Backlog(n1, MetadataIssue, h1)
    <3>1. Backlog(n1, MetadataIssue, h2) /\ n1 \in Int /\ MetadataIssue \in Nat
      BY <1>6, <2>1, <2>3, LatencyTypes
    <3>2. QED
      BY <1>8, <2>2, <2>4, <3>1, BacklogKeep
  <2>6. QED
    BY <1>5, <1>7, <2>5 DEF OptimisticInv
<1>12. PaceInv'
  <2>1. Reading' = Reading \cup {p} /\ p \notin Reading
    BY <1>9, <1>10 DEF Reading, AtSea
  <2>2. PICK c : c = Cardinality(Reading)
    OBVIOUS
  <2>3. c \in Nat /\ Cardinality(Reading)' = c + 1
    BY <2>1, <2>2, ReadingSize, FS_AddElement
  <2>4. MetadataIssue * (c + 1) = MetadataIssue * c + MetadataIssue /\ MetadataIssue * c \in Nat
    BY <2>3, Products, LatencyTypes
  <2>5. PICK m : m = MetadataIssue * c
    OBVIOUS
  <2>6. n + AeadIssue <= m + aeadNextIssue + AeadLatency
    BY <1>4, <1>5, <2>2, <2>5 DEF PaceInv
  <2>7. n1 + AeadIssue <= (m + MetadataIssue) + aeadNextIssue' + AeadLatency
    BY <1>1, <1>6, <2>4, <2>5, <2>6, LatencyTypes DEF ClockTypes
  <2>8. QED
    BY <1>5, <2>3, <2>4, <2>5, <2>7 DEF PaceInv
<1>13. f.metadata <= LookupBound
  <2>1. n <= MetadataIssue * (K - 1)
    BY <1>6, <1>8, <1>10, BacklogRoom, LatencyTypes
  <2>2. PICK k : k = (K - 1) * MetadataIssue
    OBVIOUS
  <2>3. f.metadata \in Nat
    BY <1>1 DEF SetsOut, PacketState, Idle
  <2>4. QED
    BY <1>1, <1>3, <1>5, <1>6, <2>1, <2>2, <2>3, LookupTypes, LatencyTypes
<1>14. InTime(f)
  BY <1>1, <1>13 DEF InTime, SetsOut
<1>15. InTimeInv'
  BY <1>1, <1>4, <1>14, InTimeHop
<1>16. QED
  BY <1>11, <1>12, <1>15

\* The read gives back its lookup's turn, and waits for AEAD instead.
LEMMA OptimisticWindow ==
    ASSUME FlightTypes, ClockTypes, ClockTypes', FlightTypes', LookupsKeepUp, NotedInv,
           WindowInv, NEW p \in Packets, OptimisticReadResponse(p)
    PROVE  WindowInv'
<1>1. PICK f \in PacketState :
         /\ Hop(p, f) /\ IsAnswered(p, f) /\ f.isRead
         /\ f.metadata = flight[p].metadata
         /\ f.due = aeadNextIssue + AeadLatency
         /\ aeadNextIssue' = aeadNextIssue + AeadIssue
         /\ mode = "optimistic"
         /\ UNCHANGED <<metadataNextIssue, writeControlNextIssue, ratchetNextIssue,
                        writesSinceRatchet>>
  BY OptimisticReadHop
<1>2. OptimisticInv /\ PaceInv /\ InTimeInv
  BY <1>1 DEF WindowInv
<1>3. PICK n, a, d : n = metadataNextIssue /\ a = aeadNextIssue /\ d = f.due
  OBVIOUS
<1>4. n \in Nat /\ a \in Nat /\ d = a + AeadLatency /\ d \in Nat
  BY <1>1, <1>3, LatencyTypes DEF ClockTypes
<1>5. PICK h, h1 : h = LookupWaiting /\ h1 = LookupWaiting'
  OBVIOUS
<1>6. \A q \in Packets : flight'[q] = IF q = p THEN f ELSE flight[q]
  BY <1>1 DEF Hop, FlightTypes
<1>7. /\ f.phase = "incoming" /\ flight[p].phase = "memory" /\ flight[p].due = 0
      /\ flight[p].isRead /\ flight[p] # Idle
  BY <1>1 DEF IsAnswered, Idle
<1>8. AtSea(flight[p]) /\ ~AtSea(f)
  BY <1>7 DEF AtSea
<1>9. /\ h[p] = n /\ h1[p] = d
      /\ \A q \in Packets : q # p => h1[q] = h[q]
  <2>1. h1 = [q \in Packets |-> HeldForLookup(flight'[q], n)]
    BY <1>1, <1>3, <1>5 DEF LookupWaiting, HeldForLookup, AtSea
  <2>2. HeldForLookup(f, n) = d /\ HeldForLookup(flight[p], n) = n
    BY <1>1, <1>3, <1>7, <1>8 DEF HeldForLookup
  <2>3. QED
    BY <1>3, <1>5, <1>6, <2>1, <2>2 DEF LookupWaiting
<1>10. PICK c, r : c = Cardinality(Reading) /\ r = Cardinality(Reading)'
  OBVIOUS
<1>11. c \in Nat /\ r \in Nat /\ c = r + 1
  <2>1. p \in Reading /\ Reading' = Reading \ {p}
    BY <1>6, <1>8 DEF Reading, AtSea
  <2>2. IsFiniteSet(Reading) /\ IsFiniteSet(Reading')
    BY <2>1, ReadingSize, FS_Subset
  <2>3. Cardinality(Reading \ {p}) = Cardinality(Reading) - 1
    BY <2>1, <2>2, FS_RemoveElement
  <2>4. r = Cardinality(Reading')
    BY <1>10
  <2>5. c \in Nat /\ r \in Nat
    BY <1>10, <2>2, <2>4, FS_CardinalityType
  <2>6. QED
    BY <1>10, <2>1, <2>3, <2>4, <2>5
<1>12. MetadataIssue * (r + 1) = MetadataIssue * r + MetadataIssue /\ MetadataIssue * r \in Nat
  BY <1>11, Products, LatencyTypes
<1>13. PICK m : m = MetadataIssue * r
  OBVIOUS
<1>14. n + AeadIssue <= (m + MetadataIssue) + a + AeadLatency
  BY <1>2, <1>3, <1>10, <1>11, <1>12, <1>13 DEF PaceInv
<1>15. MetadataIssue <= AeadIssue /\ MetadataIssue \in Nat /\ AeadIssue \in Nat /\ m \in Nat
       /\ AeadLatency \in Nat
  BY <1>12, <1>13, LatencyTypes DEF LookupsKeepUp
<1>16. OptimisticInv'
  <2>1. ASSUME NEW t \in 1..n PROVE n < t + MetadataIssue * Cardinality(Holding(h1, t))
    <3>1. CASE t <= d
      <4>1. Holding(h1, t) = Holding(h, t)
        BY <1>4, <1>9, <3>1 DEF Holding
      <4>2. QED
        BY <1>2, <1>3, <1>5, <2>1, <4>1 DEF OptimisticInv, Backlog
    <3>2. CASE t > d
      <4>1. Reading' \subseteq Holding(h1, t)
        <5>1. ASSUME NEW q \in Reading' PROVE h1[q] = n
          BY <1>1, <1>3, <1>5 DEF Reading, LookupWaiting, HeldForLookup, AtSea
        <5>2. QED
          BY <5>1, <1>4 DEF Reading, Holding
      <4>2. PICK x : x = Cardinality(Holding(h1, t))
        OBVIOUS
      <4>3. x \in Nat /\ r <= x
        BY <1>10, <4>1, <4>2, HoldingSize, FS_Subset
      <4>4. m <= MetadataIssue * x /\ MetadataIssue * x \in Nat
        BY <1>11, <1>13, <1>15, <4>3, Products
      <4>5. PICK y : y = MetadataIssue * x
        OBVIOUS
      <4>6. QED
        BY <1>4, <1>14, <1>15, <3>2, <4>2, <4>4, <4>5
    <3>3. QED
      BY <1>4, <3>1, <3>2
  <2>2. QED
    BY <1>1, <1>3, <1>5, <2>1 DEF OptimisticInv, Backlog
<1>17. PaceInv'
  <2>1. n + AeadIssue <= m + (a + AeadIssue) + AeadLatency
    BY <1>4, <1>14, <1>15
  <2>2. QED
    BY <1>1, <1>3, <1>10, <1>13, <2>1 DEF PaceInv
<1>18. InTime(f)
  <2>1. InTime(flight[p]) /\ flight[p].metadata \in Nat
    BY <1>2, <1>7, PacketFields DEF InTimeInv
  <2>2. PICK latency \in MemoryLatencies :
           flight[p].metadata <= Larger(0, LookupBound - latency + 0)
    BY <1>7, <2>1 DEF InTime
  <2>3. PICK v, b : v = flight[p].metadata /\ b = LookupBound - latency
    OBVIOUS
  <2>4. v \in Nat /\ b \in Int /\ v <= Larger(0, b + 0)
    BY <2>1, <2>2, <2>3, LookupTypes, LatencyTypes
  <2>5. v - d <= Larger(0, b - AeadLatency)
    BY <1>4, <1>15, <2>4 DEF Larger
  <2>6. f.metadata - f.due <= Larger(0, LookupBound - latency - AeadLatency)
    BY <1>1, <1>3, <2>3, <2>5
  <2>7. QED
    BY <1>7, <2>6 DEF InTime
<1>19. InTimeInv'
  BY <1>1, <1>2, <1>18, InTimeHop
<1>20. QED
  BY <1>16, <1>17, <1>19 DEF WindowInv

\* Writes are on their way without a lookup.
LEMMA WriteWindow ==
    ASSUME FlightTypes, ClockTypes, ClockTypes', UnitsKeepUp, NotedInv, WindowInv,
           NEW p \in Packets,
           (\E l \in Lines : WriteRequest(p, l)) \/ WriteResponse(p)
    PROVE  WindowInv'
<1>1. CASE \E l \in Lines : WriteRequest(p, l)
  <2>1. PICK f \in PacketState, start \in Nat :
           /\ Hop(p, f) /\ SetsOut(p, f) /\ ~f.isRead /\ f.metadata = 0
           /\ metadataNextIssue' = metadataNextIssue
           /\ aeadNextIssue' = ScheduledAead(start).next
    BY <1>1, WriteRequestHop
  <2>2. aeadNextIssue' >= aeadNextIssue
    BY <2>1, LatencyTypes DEF ScheduledAead, Scheduled, Larger, ClockTypes
  <2>3. /\ AtSea(f) <=> AtSea(flight[p])
        /\ HeldForLookup(f, metadataNextIssue) = HeldForLookup(flight[p], metadataNextIssue)
    BY <2>1 DEF SetsOut, AtSea, HeldForLookup, Idle
  <2>4. InTime(f)
    BY <2>1, LookupTypes DEF SetsOut, InTime
  <2>5. QED
    BY <2>1, <2>2, <2>3, <2>4, QuietWindow
<1>2. CASE WriteResponse(p)
  <2>1. PICK f \in PacketState :
           /\ Hop(p, f) /\ IsAnswered(p, f) /\ ~f.isRead /\ f.metadata = 0
           /\ UNCHANGED <<metadataNextIssue, aeadNextIssue, ratchetNextIssue,
                          writesSinceRatchet>>
    BY <1>2, WriteResponseHop
  <2>2. f.phase = "incoming" /\ flight[p].phase = "memory" /\ flight[p] # Idle
        /\ f.isRead = flight[p].isRead
    BY <2>1 DEF IsAnswered, Idle
  <2>3. /\ AtSea(f) <=> AtSea(flight[p])
        /\ HeldForLookup(f, metadataNextIssue) = HeldForLookup(flight[p], metadataNextIssue)
    BY <2>1, <2>2 DEF AtSea, HeldForLookup
  <2>4. ASSUME InTimeInv PROVE InTime(f)
    <3>1. InTime(flight[p])
      BY <2>2, <2>4 DEF InTimeInv
    <3>2. PICK latency \in MemoryLatencies : TRUE
      BY <2>2, <3>1 DEF InTime
    <3>3. f.due \in Nat
      BY <2>2 DEF PacketState, Idle
    <3>4. f.metadata - f.due <= Larger(0, LookupBound - latency - AeadLatency)
      BY <2>1, <3>2, <3>3, LookupTypes, LatencyTypes DEF Larger
    <3>5. QED
      BY <2>2, <3>2, <3>4 DEF InTime
  <2>5. aeadNextIssue' >= aeadNextIssue
    BY <2>1 DEF ClockTypes
  <2>6. QED
    BY <2>1, <2>3, <2>4, <2>5, QuietWindow
<1>3. QED
  BY <1>1, <1>2

LEMMA LinkWindow ==
    ASSUME FlightTypes, ClockTypes, ClockTypes', NotedInv, WindowInv,
           NEW p \in Packets, Send(p) \/ Deliver(p)
    PROVE  WindowInv'
<1>1. CASE Send(p)
  <2>1. PICK f \in PacketState : Hop(p, f) /\ GoesOn(p, f) /\ UNCHANGED issueVars
    BY <1>1, SendHop
  <2>2. /\ flight[p].phase = "outgoing" /\ f.phase = "memory" /\ f.due \in MemoryLatencies
        /\ f.isRead = flight[p].isRead /\ f.metadata = flight[p].metadata /\ flight[p] # Idle
    BY <2>1 DEF GoesOn, Idle
  <2>3. /\ AtSea(f) <=> AtSea(flight[p])
        /\ HeldForLookup(f, metadataNextIssue) = HeldForLookup(flight[p], metadataNextIssue)
    BY <2>2 DEF AtSea, HeldForLookup
  <2>4. ASSUME InTimeInv PROVE InTime(f)
    <3>1. InTime(flight[p])
      BY <2>2, <2>4 DEF InTimeInv
    <3>2. PICK v, t : v = f.metadata /\ t = f.due
      OBVIOUS
    <3>3. v <= LookupBound /\ v \in Nat /\ t \in Nat /\ LookupBound \in Nat
      BY <2>2, <3>1, <3>2, PacketFields, LookupTypes, LatencyTypes DEF InTime
    <3>4. t <= t /\ v <= Larger(0, LookupBound - t + t)
      BY <3>3 DEF Larger
    <3>5. QED
      BY <2>2, <3>2, <3>4 DEF InTime
  <2>5. metadataNextIssue' = metadataNextIssue /\ aeadNextIssue' >= aeadNextIssue
    BY <2>1 DEF issueVars, ClockTypes
  <2>6. QED
    BY <2>1, <2>3, <2>4, <2>5, QuietWindow
<1>2. CASE Deliver(p)
  <2>1. Idle \in PacketState /\ Hop(p, Idle) /\ IsDone(p, Idle) /\ UNCHANGED issueVars
    BY <1>2, DeliverHop
  <2>2. /\ AtSea(Idle) <=> AtSea(flight[p])
        /\ HeldForLookup(Idle, metadataNextIssue) = HeldForLookup(flight[p], metadataNextIssue)
    BY <2>1 DEF IsDone, AtSea, HeldForLookup, Idle
  <2>3. metadataNextIssue' = metadataNextIssue /\ aeadNextIssue' >= aeadNextIssue
    BY <2>1 DEF issueVars, ClockTypes
  <2>4. QED
    BY <2>1, <2>2, <2>3, QuietWindow
<1>3. QED
  BY <1>1, <1>2

LEMMA OtherMode ==
    ASSUME mode # "optimistic", NEW p \in Packets, NEW f \in PacketState, Hop(p, f)
    PROVE  WindowInv'
BY DEF WindowInv, Hop, stageVars

LEMMA MoveWindow ==
    ASSUME FlightTypes, ClockTypes, ClockTypes', FlightTypes', UnitsKeepUp, LookupsKeepUp,
           NotedInv, WindowInv, Next
    PROVE  WindowInv' \/ EndWarmup \/ ResetStats \/ Tick
<1>1. ASSUME NEW p \in Packets, NEW l \in Lines,
             ReadRequest(p, l) \/ BaselineWriteRequest(p, l) \/ WriteRequest(p, l)
      PROVE  WindowInv'
  <2>1. CASE ReadRequest(p, l)
    BY <2>1, ReadRequestWindow
  <2>2. CASE BaselineWriteRequest(p, l)
    <3>1. PICK f \in PacketState : Hop(p, f) /\ mode = "baseline"
      BY <2>2, BaselineWriteHop
    <3>2. QED
      BY <3>1, OtherMode
  <2>3. CASE WriteRequest(p, l)
    BY <2>3, WriteWindow
  <2>4. QED
    BY <1>1, <2>1, <2>2, <2>3
<1>2. ASSUME NEW p \in Packets,
             \/ Send(p)
             \/ BaselineReadResponse(p) \/ OptimisticReadResponse(p) \/ VerifiedReadResponse(p)
             \/ WriteResponse(p)
             \/ Deliver(p)
      PROVE  WindowInv'
  <2>1. CASE Send(p) \/ Deliver(p)
    BY <2>1, LinkWindow
  <2>2. CASE BaselineReadResponse(p)
    <3>1. PICK f \in PacketState : Hop(p, f) /\ mode = "baseline"
      BY <2>2, BaselineReadHop
    <3>2. QED
      BY <3>1, OtherMode
  <2>3. CASE VerifiedReadResponse(p)
    <3>1. PICK f \in PacketState : Hop(p, f) /\ mode = "verified"
      BY <2>3, VerifiedReadHop
    <3>2. QED
      BY <3>1, OtherMode
  <2>4. CASE OptimisticReadResponse(p)
    BY <2>4, OptimisticWindow
  <2>5. CASE WriteResponse(p)
    BY <2>5, WriteWindow
  <2>6. QED
    BY <1>2, <2>1, <2>2, <2>3, <2>4, <2>5
<1>3. QED
  BY <1>1, <1>2 DEF Next

LEMMA TickWindow ==
    ASSUME FlightTypes, ClockTypes, ClockTypes', FlightTypes', UnitsKeepUp, WindowInv, Tick
    PROVE  WindowInv'
<1>1. /\ aeadNextIssue \in Nat /\ aeadNextIssue' = Nearer(aeadNextIssue)
      /\ metadataNextIssue \in Nat /\ metadataNextIssue' = Nearer(metadataNextIssue)
      /\ mode' = mode /\ NothingDue
  BY DEF Tick, ClockTypes
<1>2. \A t \in Nat : Nearer(t) \in Nat /\ (Nearer(t) = t - 1 \/ (Nearer(t) = 0 /\ t = 0))
                     /\ Nearer(t) <= t /\ Nearer(t) >= t - 1
  BY DEF Nearer
<1>3. SUFFICES ASSUME mode = "optimistic" PROVE OptimisticInv' /\ PaceInv' /\ InTimeInv'
  BY <1>1 DEF WindowInv
<1>4. OptimisticInv /\ PaceInv /\ InTimeInv
  BY <1>3 DEF WindowInv
<1>5. PICK n, n1, a, a1 : /\ n = metadataNextIssue /\ n1 = metadataNextIssue'
                          /\ a = aeadNextIssue /\ a1 = aeadNextIssue'
  OBVIOUS
<1>6. /\ n \in Nat /\ n1 \in Nat /\ a \in Nat /\ a1 \in Nat /\ n1 = Nearer(n) /\ a1 >= a - 1
      /\ (n1 = n - 1 \/ (n1 = 0 /\ n = 0))
  BY <1>1, <1>2, <1>5
<1>7. ASSUME NEW p \in Packets
      PROVE  /\ AtSea(flight'[p]) <=> AtSea(flight[p])
             /\ HeldForLookup(flight'[p], n1) = Nearer(HeldForLookup(flight[p], n))
  <2>1. CASE flight[p] = Idle
    <3>1. flight'[p] = Idle
      BY <2>1, TickPacket
    <3>2. ~AtSea(Idle) /\ HeldForLookup(Idle, n1) = 0 /\ HeldForLookup(Idle, n) = 0
      BY DEF AtSea, HeldForLookup, Idle
    <3>3. QED
      BY <1>2, <2>1, <3>1, <3>2 DEF Nearer
  <2>2. CASE flight[p] # Idle
    <3>1. /\ flight'[p].phase = flight[p].phase /\ flight'[p].isRead = flight[p].isRead
          /\ flight'[p].due = Nearer(flight[p].due)
      BY <2>2, TickPacket
    <3>2. AtSea(flight'[p]) <=> AtSea(flight[p])
      BY <3>1 DEF AtSea
    <3>3. Nearer(0) = 0
      BY DEF Nearer
    <3>4. QED
      BY <1>6, <3>1, <3>2, <3>3 DEF HeldForLookup
  <2>3. QED
    BY <2>1, <2>2
<1>8. PICK h, h1 : h = LookupWaiting /\ h1 = LookupWaiting'
  OBVIOUS
<1>9. /\ h = [p \in Packets |-> HeldForLookup(flight[p], n)]
      /\ h1 = [p \in Packets |-> HeldForLookup(flight'[p], n1)]
  BY <1>5, <1>8 DEF LookupWaiting, HeldForLookup, AtSea
<1>10. h \in [Packets -> Nat] /\ h1 \in [Packets -> Nat]
  BY <1>6, <1>9, LookupWaitingType DEF FlightTypes
<1>11. OptimisticInv'
  <2>1. \A p \in Packets : h1[p] = Nearer(h[p])
    BY <1>7, <1>9
  <2>2. Backlog(n, MetadataIssue, h) /\ n \in Int /\ n1 \in Int /\ MetadataIssue \in Nat
    BY <1>4, <1>5, <1>6, <1>8, LatencyTypes DEF OptimisticInv
  <2>3. n1 <= n - 1 \/ n1 <= 0
    BY <1>6
  <2>4. Backlog(n1, MetadataIssue, h1)
    BY <1>10, <2>1, <2>2, <2>3, BacklogTick
  <2>5. QED
    BY <1>5, <1>8, <2>4 DEF OptimisticInv
<1>12. PaceInv'
  <2>1. Reading' = Reading
    BY <1>7 DEF Reading, AtSea
  <2>2. PICK m : m = MetadataIssue * Cardinality(Reading)
    OBVIOUS
  <2>3. m \in Nat
    BY <2>2, ReadingSize, Products, LatencyTypes
  <2>4. n + AeadIssue <= m + a + AeadLatency
    BY <1>4, <1>5, <2>2 DEF PaceInv
  <2>5. AeadIssue \in Nat /\ AeadLatency \in Nat /\ AeadIssue <= AeadLatency
    BY LatencyTypes DEF UnitsKeepUp
  <2>6. n1 + AeadIssue <= m + a1 + AeadLatency
    BY <1>6, <2>3, <2>4, <2>5
  <2>7. QED
    BY <1>5, <2>1, <2>2, <2>6 DEF PaceInv
<1>13. ASSUME NEW p \in Packets, flight'[p] # Idle PROVE InTime(flight'[p])
  <2>1. PICK d, v, d1, v1 : /\ d = flight[p].due /\ v = flight[p].metadata
                            /\ d1 = flight'[p].due /\ v1 = flight'[p].metadata
    OBVIOUS
  <2>2. /\ flight[p] # Idle /\ flight'[p].phase = flight[p].phase
        /\ d \in Nat /\ v \in Nat /\ d1 = Nearer(d) /\ v1 = Nearer(v) /\ InTime(flight[p])
        /\ d > 0
    BY <1>1, <1>4, <1>13, <2>1, TickPacket, PacketFields DEF InTimeInv, NothingDue
  <2>3. /\ d1 = d - 1 /\ v1 \in Nat /\ d1 \in Nat
        /\ v1 = v - 1 \/ (v1 = 0 /\ v = 0)
    BY <1>2, <2>2
  <2>4. CASE flight[p].phase = "outgoing"
    <3>1. v <= LookupBound
      BY <2>1, <2>2, <2>4 DEF InTime
    <3>2. v1 <= LookupBound
      BY <2>2, <2>3, <3>1, LookupTypes
    <3>3. QED
      BY <2>1, <2>2, <2>4, <3>2 DEF InTime
  <2>5. CASE flight[p].phase = "memory"
    <3>1. PICK latency \in MemoryLatencies :
             d <= latency /\ v <= Larger(0, LookupBound - latency + d)
      BY <2>1, <2>2, <2>5 DEF InTime
    <3>2. d1 <= latency /\ v1 <= Larger(0, LookupBound - latency + d1)
      BY <2>2, <2>3, <3>1, LookupTypes, LatencyTypes DEF Larger
    <3>3. QED
      BY <2>1, <2>2, <2>5, <3>2 DEF InTime
  <2>6. CASE flight[p].phase = "incoming"
    <3>1. PICK latency \in MemoryLatencies :
             v - d <= Larger(0, LookupBound - latency - AeadLatency)
      BY <2>1, <2>2, <2>6 DEF InTime
    <3>2. PICK b : b = Larger(0, LookupBound - latency - AeadLatency)
      OBVIOUS
    <3>3. b \in Nat
      BY <3>2, LookupTypes, LatencyTypes DEF Larger
    <3>4. v1 - d1 <= b
      BY <2>2, <2>3, <3>1, <3>2, <3>3
    <3>5. QED
      BY <2>1, <2>2, <2>6, <3>2, <3>4 DEF InTime
  <2>7. QED
    BY <2>2, <2>4, <2>5, <2>6, PacketFields
<1>14. InTimeInv'
  BY <1>13 DEF InTimeInv, InTime
<1>15. QED
  BY <1>11, <1>12, <1>14

LEMMA IdleWindow ==
    ASSUME WindowInv, UNCHANGED <<mode, issueVars, requests, flight>>
    PROVE  WindowInv'
<1>1. LookupWaiting' = LookupWaiting /\ Reading' = Reading
  BY DEF LookupWaiting, HeldForLookup, Reading, AtSea, issueVars
<1>2. InTimeInv => InTimeInv'
  BY DEF InTimeInv, InTime
<1>3. QED
  BY <1>1, <1>2 DEF WindowInv, OptimisticInv, PaceInv, issueVars

LEMMA WindowInitial ==
    ASSUME Init, UnitsKeepUp
    PROVE  WindowInv
<1>1. /\ metadataNextIssue = 0 /\ aeadNextIssue = 0
      /\ \A p \in Packets : flight[p] = Idle
  BY DEF Init
<1>2. Backlog(0, MetadataIssue, LookupWaiting)
  BY NoBacklog
<1>3. Cardinality(Reading) = 0
  <2>1. Reading = {}
    BY <1>1 DEF Reading, AtSea, Idle
  <2>2. QED
    BY <2>1, FS_EmptySet
<1>4. PaceInv
  BY <1>1, <1>3, LatencyTypes DEF PaceInv, UnitsKeepUp
<1>5. QED
  BY <1>1, <1>2, <1>4 DEF WindowInv, OptimisticInv, InTimeInv

\* The data of an optimistic read may be used before its check is done for no longer
\* than what decryption and the way to memory do not hide of a miss (delayReq issues
\* the lookup, delayResp waits for AEAD only), if lookups are issued no slower.
THEOREM WindowBounded ==
    ASSUME UnitsKeepUp, LookupsKeepUp
    PROVE  Spec => []OptimisticWindowBounded
<1>. DEFINE Inv == TimingInv /\ NotedInv /\ WindowInv
<1>1. Init => Inv
  BY TimingInitial, WindowInitial DEF Init, NotedInv
<1>2. Inv /\ [Next]_vars => Inv'
  <2>1. SUFFICES ASSUME Inv, [Next]_vars PROVE Inv'
    OBVIOUS
  <2>2. /\ TimingInv' /\ FlightTypes /\ ClockTypes /\ FlightTypes' /\ ClockTypes'
        /\ NotedInv /\ WindowInv
    BY <2>1, TimingStep DEF TimingInv
  <2>3. NotedInv'
    BY <2>1, NotedStep
  <2>4. CASE EndWarmup \/ ResetStats \/ UNCHANGED vars
    <3>1. UNCHANGED <<mode, issueVars, requests, flight>>
      BY <2>4 DEF EndWarmup, ResetStats, vars, stageVars
    <3>2. QED
      BY <2>2, <2>3, <3>1, IdleWindow
  <2>5. CASE Tick
    BY <2>2, <2>3, <2>5, TickWindow
  <2>6. CASE WindowInv'
    BY <2>2, <2>3, <2>6
  <2>7. QED
    BY <2>1, <2>2, <2>4, <2>5, <2>6, MoveWindow
<1>3. Inv => OptimisticWindowBounded
  <2>1. SUFFICES ASSUME WindowInv, NEW p \in Packets, mode = "optimistic", flight[p] # Idle,
                        flight[p].phase = "incoming"
                 PROVE  \E latency \in MemoryLatencies : flight[p].metadata - flight[p].due <=
                           Larger(0, (K - 1) * MetadataIssue + MissLatency - latency - AeadLatency)
    BY DEF OptimisticWindowBounded
  <2>2. InTime(flight[p])
    BY <2>1 DEF WindowInv, InTimeInv
  <2>3. PICK latency \in MemoryLatencies :
           flight[p].metadata - flight[p].due <= Larger(0, LookupBound - latency - AeadLatency)
    BY <2>1, <2>2 DEF InTime
  <2>4. PICK m, b : m = (K - 1) * MetadataIssue /\ b = LookupBound
    OBVIOUS
  <2>5. m \in Nat /\ b = m + MissLatency
    BY <2>4, LookupTypes
  <2>6. m + MissLatency - latency - AeadLatency = b - latency - AeadLatency
    BY <2>5, LatencyTypes
  <2>7. flight[p].metadata - flight[p].due <= Larger(0, m + MissLatency - latency - AeadLatency)
    BY <2>3, <2>4, <2>6, Zenon
  <2>8. QED
    BY <2>4, <2>7, Zenon
<1>4. QED
  BY <1>1, <1>2, <1>3, PTL DEF Spec

-----------------------------------------------------------------------------
(* When the comments of the experiment hold.                               *)

\* Baseline mode adds no delay if the commit of a write takes no time: it is the one
\* latency that delayResp adds without looking at the mode.
THEOREM BaselineNoDelay ==
    ASSUME CommitLatency = 0
    PROVE  Spec => []BaselineAddsNoDelay
<1>. DEFINE Inv == TimingInv /\ BaselineAddsNoDelay
<1>1. Init => Inv
  BY TimingInitial DEF Init, BaselineAddsNoDelay
<1>2. Inv /\ [Next]_vars => Inv'
  <2>1. SUFFICES ASSUME Inv, [Next]_vars PROVE BaselineAddsNoDelay'
    BY TimingStep
  <2>2. FlightTypes /\ ClockTypes
    BY <2>1 DEF TimingInv
  <2>3. ASSUME NEW p \in Packets, NEW f, f.phase # "memory" => f.due = 0 \/ mode # "baseline",
               flight' = [flight EXCEPT ![p] = f], mode' = mode
        PROVE  BaselineAddsNoDelay'
    <3>1. \A q \in Packets : flight'[q] = IF q = p THEN f ELSE flight[q]
      BY <2>2, <2>3 DEF FlightTypes
    <3>2. QED
      BY <2>1, <2>3, <3>1 DEF BaselineAddsNoDelay
  <2>4. CASE mode # "baseline"
    <3>1. mode' = mode
      BY <2>1, <2>2, ActionsGood DEF Good, EndWarmup, ResetStats, Tick, vars, stageVars
    <3>2. QED
      BY <2>4, <3>1 DEF BaselineAddsNoDelay
  <2>5. CASE Tick
    <3>1. ASSUME NEW p \in Packets, mode' = "baseline", flight'[p] # Idle,
                 flight'[p].phase # "memory"
          PROVE  flight'[p].due = 0
      <4>1. /\ flight[p] # Idle /\ flight[p].phase # "memory" /\ mode = "baseline"
            /\ flight'[p].due = Nearer(flight[p].due)
        BY <2>2, <2>5, <3>1, TickPacket DEF Tick
      <4>2. flight[p].due = 0
        BY <2>1, <4>1 DEF BaselineAddsNoDelay
      <4>3. QED
        BY <4>1, <4>2 DEF Nearer
    <3>2. QED
      BY <3>1 DEF BaselineAddsNoDelay
  <2>6. CASE EndWarmup \/ ResetStats \/ UNCHANGED vars
    <3>1. flight' = flight /\ mode' = mode
      BY <2>6 DEF EndWarmup, ResetStats, vars, stageVars
    <3>2. QED
      BY <2>1, <3>1 DEF BaselineAddsNoDelay
  <2>7. ASSUME mode = "baseline", NEW p \in Packets, NEW l \in Lines,
               ReadRequest(p, l) \/ BaselineWriteRequest(p, l) \/ WriteRequest(p, l)
        PROVE  BaselineAddsNoDelay'
    <3>1. CASE ReadRequest(p, l)
      <4>1. PICK f : f = Flight("outgoing", TRUE, l, 0, 0, 0)
        OBVIOUS
      <4>2. flight' = [flight EXCEPT ![p] = f] /\ mode' = mode /\ f.due = 0
        BY <2>7, <3>1, <4>1 DEF ReadRequest, Accept, Flight, stageVars
      <4>3. QED
        BY <2>3, <4>2
    <3>2. CASE BaselineWriteRequest(p, l)
      <4>1. PICK f : f = Flight("outgoing", FALSE, l, 0, 0, 0)
        OBVIOUS
      <4>2. flight' = [flight EXCEPT ![p] = f] /\ mode' = mode /\ f.due = 0
        BY <3>2, <4>1 DEF BaselineWriteRequest, Accept, Flight, stageVars
      <4>3. QED
        BY <2>3, <4>2
    <3>3. QED
      BY <2>7, <3>1, <3>2 DEF WriteRequest
  <2>8. ASSUME mode = "baseline", NEW p \in Packets,
               \/ Send(p)
               \/ BaselineReadResponse(p) \/ OptimisticReadResponse(p) \/ VerifiedReadResponse(p)
               \/ WriteResponse(p)
               \/ Deliver(p)
        PROVE  BaselineAddsNoDelay'
    <3>1. CASE Send(p)
      <4>1. flight[p] # Idle
        BY <3>1 DEF Send, Idle
      <4>2. PICK g : g = flight[p]
        OBVIOUS
      <4>3. PICK latency \in MemoryLatencies :
               flight' = [flight EXCEPT ![p] = [@ EXCEPT !.phase = "memory", !.due = latency]]
        BY <3>1 DEF Send
      <4>4. PICK f : f = [g EXCEPT !.phase = "memory", !.due = latency]
        OBVIOUS
      <4>5. f.phase = "memory"
        BY <2>2, <4>1, <4>2, <4>4, PacketFields
      <4>6. flight' = [flight EXCEPT ![p] = f] /\ mode' = mode
        BY <3>1, <4>2, <4>3, <4>4 DEF Send, stageVars
      <4>7. QED
        BY <2>3, <4>5, <4>6
    <3>2. CASE BaselineReadResponse(p) \/ WriteResponse(p)
      <4>1. \E aead \in Nat : Release(p, 0, aead, 0) /\ Forget(p) /\ mode' = mode
                              /\ flight[p].phase = "memory"
        BY <3>2 DEF BaselineReadResponse, WriteResponse, AtMemory, stageVars, ScheduledControl
      <4>2. PICK aead \in Nat : Release(p, 0, aead, 0) /\ Forget(p) /\ mode' = mode
                                /\ flight[p].phase = "memory"
        BY <4>1
      <4>3. PICK f \in PacketState : flight' = [flight EXCEPT ![p] = f] /\ f.due = 0
        BY <2>2, <4>2, ReleaseTypes
      <4>4. QED
        BY <2>3, <4>2, <4>3
    <3>3. CASE Deliver(p)
      <4>1. flight' = [flight EXCEPT ![p] = Idle] /\ mode' = mode
        BY <3>3 DEF Deliver, stageVars
      <4>2. \A q \in Packets : flight'[q] = IF q = p THEN Idle ELSE flight[q]
        BY <2>2, <4>1 DEF FlightTypes
      <4>3. QED
        BY <2>1, <4>1, <4>2 DEF BaselineAddsNoDelay
    <3>4. QED
      BY <2>8, <3>1, <3>2, <3>3 DEF OptimisticReadResponse, VerifiedReadResponse
  <2>9. QED
    BY <2>1, <2>4, <2>5, <2>6, <2>7, <2>8 DEF Next
<1>3. Inv => BaselineAddsNoDelay
  OBVIOUS
<1>4. QED
  BY <1>1, <1>2, <1>3, PTL DEF Spec

\* What is left of the way of a packet, if the slowest memory takes so long.
Response == Larger(CryptoBound, CommitBound)
Left(f, slowest) ==
    CASE f.phase = "outgoing" -> f.due + slowest + Response
      [] f.phase = "memory" -> f.due + Response
      [] f.phase = "incoming" -> f.due

\* Packets at memory stay no longer than memory takes; and what is on its way when
\* the drain begins, or later, has arrived when it ends.
DrainInv(slowest) ==
    /\ \A p \in Packets : flight[p].phase = "memory" => flight[p].due <= slowest
    /\ stage = "drain" =>
          \A p \in Packets : flight[p] # Idle => Left(flight[p], slowest) <= drainLeft

LEMMA LeftTypes ==
    ASSUME Packets # {}, NEW slowest \in Nat
    PROVE  /\ Response \in Nat /\ Response >= CryptoBound /\ Response >= CommitBound
           /\ \A f \in PacketState : f # Idle =>
                 Left(f, slowest) \in Nat /\ Left(f, slowest) >= f.due
<1>1. Response \in Nat /\ Response >= CryptoBound /\ Response >= CommitBound
  BY BoundTypes DEF Response, Larger
<1>2. ASSUME NEW f \in PacketState, f # Idle
      PROVE  Left(f, slowest) \in Nat /\ Left(f, slowest) >= f.due
  <2>1. f.phase \in {"outgoing", "memory", "incoming"} /\ f.due \in Nat
    BY <1>2 DEF PacketState
  <2>2. QED
    BY <1>1, <2>1 DEF Left
<1>3. QED
  BY <1>1, <1>2

LEMMA HopDrains ==
    ASSUME TimelyInv, TimelyInv', Packets # {}, NEW slowest \in Nat,
           \A t \in MemoryLatencies : t <= slowest, DrainInv(slowest),
           NEW p \in Packets, NEW f \in PacketState, Hop(p, f)
    PROVE  DrainInv(slowest)'
<1>1. \A q \in Packets : flight'[q] = IF q = p THEN f ELSE flight[q]
  BY DEF Hop, TimelyInv, TimingInv, FlightTypes
<1>2. stage' = stage /\ drainLeft' = drainLeft /\ drainLeft \in Nat
  BY DEF Hop, stageVars, TimelyInv, TimingInv, ClockTypes
<1>3. f.phase = "memory" => f.due <= slowest
  BY DEF Hop, SetsOut, GoesOn, IsAnswered, IsDone, Idle
<1>4. f.phase = "incoming" => f.due <= Response
  <2>1. ASSUME f.phase = "incoming"
        PROVE  f.due <= IF f.isRead THEN CryptoBound ELSE CommitBound
    BY <1>1, <2>1 DEF TimelyInv, DelayInv, DelayBounded, Idle
  <2>2. f.phase = "incoming" => f.due \in Nat
    BY DEF PacketState, Idle
  <2>3. QED
    BY <2>1, <2>2, LeftTypes, BoundTypes
<1>5. ASSUME stage = "drain", f # Idle PROVE Left(f, slowest) <= drainLeft
  <2>1. flight[p] # Idle => Left(flight[p], slowest) <= drainLeft
    BY <1>5 DEF DrainInv
  <2>2. f.phase # "idle"
    BY <1>5 DEF PacketState, Idle
  <2>3. CASE GoesOn(p, f)
    <3>1. flight[p].phase = "outgoing" /\ flight[p].due = 0 /\ flight[p] # Idle
      BY <2>3 DEF GoesOn, Idle
    <3>2. f.phase = "memory" /\ f.due \in MemoryLatencies
      BY <2>3 DEF GoesOn
    <3>3. f.due <= slowest
      BY <1>3, <3>2
    <3>4. f.due \in Nat
      BY <3>2, LatencyTypes
    <3>5. Left(flight[p], slowest) = 0 + slowest + Response /\ Left(f, slowest) = f.due + Response
      BY <3>1, <3>2 DEF Left
    <3>6. QED
      BY <1>2, <2>1, <3>1, <3>3, <3>4, <3>5, LeftTypes
  <2>4. CASE IsAnswered(p, f)
    <3>1. /\ flight[p].phase = "memory" /\ flight[p].due = 0 /\ flight[p] # Idle
          /\ f.phase = "incoming" /\ f.due \in Nat
      BY <1>5, <2>4 DEF IsAnswered, Idle, PacketState
    <3>2. Left(flight[p], slowest) = 0 + Response /\ Left(f, slowest) = f.due
      BY <3>1 DEF Left
    <3>3. QED
      BY <1>2, <1>4, <2>1, <3>1, <3>2, LeftTypes
  <2>5. QED
    BY <1>5, <2>3, <2>4 DEF Hop, SetsOut, IsDone
<1>6. ASSUME NEW q \in Packets, flight'[q].phase = "memory" PROVE flight'[q].due <= slowest
  BY <1>1, <1>3, <1>6 DEF DrainInv
<1>7. ASSUME NEW q \in Packets, stage' = "drain", flight'[q] # Idle
      PROVE  Left(flight'[q], slowest) <= drainLeft'
  BY <1>1, <1>2, <1>5, <1>7 DEF DrainInv
<1>8. QED
  BY <1>6, <1>7 DEF DrainInv, Left, Response

LEMMA TickDrains ==
    ASSUME TimelyInv, Packets # {}, NEW slowest \in Nat, DrainInv(slowest), Tick
    PROVE  DrainInv(slowest)'
<1>1. /\ FlightTypes /\ NothingDue /\ stage' = stage /\ drainLeft' = Nearer(drainLeft)
      /\ drainLeft \in Nat /\ (stage = "drain" => drainLeft > 0)
  BY DEF TimelyInv, TimingInv, ClockTypes, Tick
<1>2. ASSUME NEW p \in Packets, flight'[p] # Idle
      PROVE  /\ flight[p] # Idle /\ flight'[p].phase = flight[p].phase
             /\ flight[p].due \in Nat /\ flight[p].due > 0
             /\ flight'[p].due = flight[p].due - 1
             /\ flight[p].phase \in {"outgoing", "memory", "incoming"}
  <2>1. flight[p] # Idle /\ flight'[p].phase = flight[p].phase
        /\ flight'[p].due = Nearer(flight[p].due)
    BY <1>1, <1>2, TickPacket
  <2>2. flight[p].due \in Nat /\ flight[p].phase \in {"outgoing", "memory", "incoming"}
    BY <1>1, <2>1, PacketFields
  <2>3. flight[p].due > 0
    BY <1>1, <2>1 DEF NothingDue
  <2>4. QED
    BY <2>1, <2>2, <2>3 DEF Nearer
<1>3. ASSUME NEW p \in Packets, flight'[p].phase = "memory" PROVE flight'[p].due <= slowest
  <2>1. flight'[p] # Idle
    BY <1>3 DEF Idle
  <2>2. flight[p].due <= slowest
    BY <1>2, <1>3, <2>1 DEF DrainInv
  <2>3. QED
    BY <1>2, <2>1, <2>2
<1>4. ASSUME NEW p \in Packets, stage' = "drain", flight'[p] # Idle
      PROVE  Left(flight'[p], slowest) <= drainLeft'
  <2>1. Left(flight[p], slowest) <= drainLeft /\ drainLeft' = drainLeft - 1
    BY <1>1, <1>2, <1>4 DEF DrainInv, Nearer
  <2>2. Left(flight'[p], slowest) = Left(flight[p], slowest) - 1
    BY <1>2, <1>4, LeftTypes DEF Left
  <2>3. Left(flight[p], slowest) \in Nat
    BY <1>1, <1>2, <1>4, LeftTypes DEF FlightTypes
  <2>4. QED
    BY <1>1, <2>1, <2>2, <2>3
<1>5. QED
  BY <1>3, <1>4 DEF DrainInv, Left, Response

\* The drain is long enough if it is as long as one packet may take for its request,
\* for the slowest memory, and for its answer.
LongDrain(slowest) ==
    /\ \A t \in MemoryLatencies : t <= slowest
    /\ DrainTicks >= CryptoBound + RatchetBound + slowest + Response

LEMMA DrainBegins ==
    ASSUME TimelyInv, Packets # {}, NEW slowest \in Nat, LongDrain(slowest),
           DrainInv(slowest), EndWarmup
    PROVE  DrainInv(slowest)'
<1>1. flight' = flight /\ stage' = "drain" /\ drainLeft' = DrainTicks
  BY DEF EndWarmup
<1>2. ASSUME NEW p \in Packets, flight[p] # Idle
      PROVE  Left(flight[p], slowest) <= DrainTicks
  <2>1. flight[p].phase \in {"outgoing", "memory", "incoming"} /\ flight[p].due \in Nat
    BY <1>2, PacketFields DEF TimelyInv, TimingInv
  <2>2. PICK d, c, r, a : /\ d = flight[p].due /\ c = CryptoBound /\ r = RatchetBound
                          /\ a = Response
    OBVIOUS
  <2>3. /\ d \in Nat /\ c \in Nat /\ r \in Nat /\ a \in Nat /\ a >= c /\ a >= CommitBound
        /\ CommitBound \in Nat /\ DrainTicks \in Nat /\ DrainTicks >= c + r + slowest + a
    BY <2>1, <2>2, BoundTypes, LeftTypes, LatencyTypes DEF LongDrain
  <2>4. CASE flight[p].phase = "outgoing"
    <3>1. d <= c + r
      BY <1>2, <2>2, <2>4 DEF TimelyInv, DelayInv, DelayBounded
    <3>2. QED
      BY <2>2, <2>3, <2>4, <3>1 DEF Left
  <2>5. CASE flight[p].phase = "memory"
    <3>1. d <= slowest
      BY <2>2, <2>5 DEF DrainInv
    <3>2. QED
      BY <2>2, <2>3, <2>5, <3>1 DEF Left
  <2>6. CASE flight[p].phase = "incoming"
    <3>1. d <= IF flight[p].isRead THEN c ELSE CommitBound
      BY <1>2, <2>2, <2>6 DEF TimelyInv, DelayInv, DelayBounded
    <3>2. QED
      BY <2>2, <2>3, <2>6, <3>1 DEF Left
  <2>7. QED
    BY <2>1, <2>4, <2>5, <2>6
<1>3. \A p \in Packets : flight'[p].phase = "memory" => flight'[p].due <= slowest
  BY <1>1 DEF DrainInv
<1>4. QED
  BY <1>1, <1>2, <1>3 DEF DrainInv, Left, Response

\* SUPPLEMENT.md's "statistics are reset only after warm-up requests drain" is true
\* of a drain that is as long as a packet may take, and of units that keep up.
THEOREM DrainSuffices ==
    ASSUME UnitsKeepUp, Packets # {}, NEW slowest \in Nat, LongDrain(slowest)
    PROVE  Spec => ResetAfterDrain
<1>. DEFINE Inv == TimelyInv /\ DrainInv(slowest)
<1>1. Init => Inv
  BY TimelyInitial DEF Init, DrainInv, Idle
<1>2. Inv /\ [Next]_vars => Inv'
  <2>1. SUFFICES ASSUME Inv, [Next]_vars PROVE DrainInv(slowest)'
    BY TimelyStep
  <2>2. TimelyInv' /\ FlightTypes /\ ClockTypes /\ NotedInv
    BY <2>1, TimelyStep DEF TimelyInv, TimingInv
  <2>3. CASE \E p \in Packets, f \in PacketState : Hop(p, f)
    BY <2>1, <2>2, <2>3, HopDrains DEF LongDrain
  <2>4. CASE EndWarmup
    BY <2>1, <2>4, DrainBegins
  <2>5. CASE Tick
    BY <2>1, <2>5, TickDrains
  <2>6. CASE ResetStats
    <3>1. flight' = flight /\ stage' = "measured"
      BY <2>6 DEF ResetStats
    <3>2. QED
      BY <2>1, <3>1 DEF DrainInv
  <2>7. CASE UNCHANGED vars
    <3>1. flight' = flight /\ stage' = stage /\ drainLeft' = drainLeft
      BY <2>7 DEF vars, stageVars
    <3>2. QED
      BY <2>1, <3>1 DEF DrainInv, Left, Response
  <2>8. QED
    BY <2>1, <2>2, <2>3, <2>4, <2>5, <2>6, <2>7, MoveHop
<1>3. Inv /\ [Next]_vars =>
          [stage = "drain" /\ stage' = "measured" => \A p \in Packets : flight[p] = Idle]_vars
  <2>1. SUFFICES ASSUME Inv, Next, stage = "drain", stage' = "measured", NEW p \in Packets,
                        flight[p] # Idle
                 PROVE  FALSE
    OBVIOUS
  <2>2. FlightTypes /\ ClockTypes /\ NotedInv
    BY <2>1 DEF TimelyInv, TimingInv
  <2>3. ResetStats
    BY <2>1, <2>2, MoveHop DEF Hop, stageVars, EndWarmup, Tick
  <2>4. drainLeft = 0 /\ flight[p].due > 0
    BY <2>1, <2>3 DEF ResetStats, NothingDue
  <2>5. Left(flight[p], slowest) <= 0
    BY <2>1, <2>4 DEF DrainInv
  <2>6. Left(flight[p], slowest) >= flight[p].due /\ Left(flight[p], slowest) \in Nat
        /\ flight[p].due \in Nat
    BY <2>1, <2>2, LeftTypes, PacketFields DEF FlightTypes
  <2>7. QED
    BY <2>4, <2>5, <2>6
<1>4. QED
  BY <1>1, <1>2, <1>3, PTL DEF Spec, ResetAfterDrain
=============================================================================
