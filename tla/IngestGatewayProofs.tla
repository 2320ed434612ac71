------------------------- MODULE IngestGatewayProofs -------------------------
(* Two parts.  The verify cache: its list and map agree, it stays bounded,  *)
(* one loader runs per token and no wake-up is lost.  The gateway: it uses  *)
(* the cache as TokenCache specifies, forwards nothing that longue-vue has  *)
(* not confirmed, and honours a revocation within PositiveTTL + LoadTimeout.*)
(* All for every number of callers and tokens, every capacity and every    *)
(* time to live.                                                           *)
EXTENDS IngestGateway, FunctionTheorems, FiniteSetTheorems, TLAPS

-----------------------------------------------------------------------------
\* What the map and list helpers do.
LEMMA DropDomain ==
  ASSUME NEW f, NEW t
  PROVE  /\ DOMAIN Drop(f, t) = DOMAIN f \ {t}
         /\ \A u \in DOMAIN f \ {t} : Drop(f, t)[u] = f[u]
  BY Zenon DEF Drop, Restrict

LEMMA BindDomain ==
  ASSUME NEW f, NEW t, NEW v
  PROVE  /\ DOMAIN Bind(f, t, v) = DOMAIN f \cup {t}
         /\ Bind(f, t, v)[t] = v
         /\ \A u \in DOMAIN f \ {t} : Bind(f, t, v)[u] = f[u]
  BY Zenon DEF Bind

LEMMA DropType ==
  ASSUME NEW S, NEW f, f \in [DOMAIN f -> S], NEW t
  PROVE  Drop(f, t) \in [DOMAIN Drop(f, t) -> S]
  BY Zenon DEF Drop, Restrict

\* Removing an element that occurs in a list shortens it by one and keeps
\* the type of what is left.
LEMMA WithoutType ==
  ASSUME NEW S, NEW s \in Seq(S), NEW t, \E j \in DOMAIN s : s[j] = t
  PROVE  /\ Without(s, t) \in Seq(S)
         /\ Len(Without(s, t)) = Len(s) - 1
<1> DEFINE i == CHOOSE j \in DOMAIN s : s[j] = t
<1>1. i \in 1 .. Len(s) /\ s[i] = t
  OBVIOUS
<1>2. Len(s) \in Nat /\ Len(s) - 1 \in Nat
  BY <1>1
<1>3. Without(s, t) = [j \in 1 .. Len(s) - 1 |->
                         IF j < i THEN s[j] ELSE s[j + 1]]
  BY Zenon DEF Without
<1>4. Without(s, t) \in [1 .. Len(s) - 1 -> S]
  BY <1>1, <1>2, <1>3
<1> QED
  BY <1>2, <1>3, <1>4

\* An injective list loses exactly the removed element.
LEMMA WithoutInjective ==
  ASSUME NEW S, NEW s \in Seq(S), IsInjective(s),
         NEW t, \E j \in DOMAIN s : s[j] = t
  PROVE  /\ IsInjective(Without(s, t))
         /\ Range(Without(s, t)) = Range(s) \ {t}
<1> DEFINE i == CHOOSE j \in DOMAIN s : s[j] = t
<1> DEFINE w == Without(s, t)
<1>1. i \in 1 .. Len(s) /\ s[i] = t
  OBVIOUS
<1>2. Len(s) \in Nat /\ Len(s) - 1 \in Nat /\ DOMAIN s = 1 .. Len(s)
  BY <1>1
<1>3. w = [j \in 1 .. Len(s) - 1 |-> IF j < i THEN s[j] ELSE s[j + 1]]
  BY Zenon DEF Without
<1>4. DOMAIN w = 1 .. Len(s) - 1
  BY <1>3, Zenon
<1>5. \A a, b \in 1 .. Len(s) : s[a] = s[b] => a = b
  BY <1>2, Zenon DEF IsInjective
<1> HIDE DEF i, w
<1>6. \A a, b \in DOMAIN w : w[a] = w[b] => a = b
  BY <1>1, <1>2, <1>3, <1>4, <1>5
<1>7. \A a \in DOMAIN w : w[a] \in Range(s) \ {t}
  BY <1>1, <1>2, <1>3, <1>4, <1>5 DEF Range
<1>8. ASSUME NEW x \in Range(s) \ {t} PROVE x \in Range(w)
  <2>1. PICK k \in 1 .. Len(s) : s[k] = x
    BY <1>2, <1>8, Zenon DEF Range
  <2>2. k # i
    BY <2>1, <1>1, <1>8, Zenon
  <2>3. CASE k < i
    <3>1. k \in DOMAIN w /\ w[k] = x
      BY <2>1, <2>3, <1>1, <1>2, <1>3, <1>4
    <3> QED BY <3>1, Zenon DEF Range
  <2>4. CASE k > i
    <3>1. k - 1 \in DOMAIN w /\ w[k - 1] = x
      BY <2>1, <2>4, <1>1, <1>2, <1>3, <1>4
    <3> QED BY <3>1, Zenon DEF Range
  <2> QED BY <2>1, <2>2, <2>3, <2>4, <1>1, <1>2
<1>9. Range(w) \subseteq Range(s) \ {t}
  BY <1>7, Zenon DEF Range
<1> QED
  BY <1>6, <1>8, <1>9, Zenon DEF w, IsInjective

\* Pushing a new element to the front of an injective list.
LEMMA PushFrontFacts ==
  ASSUME NEW S, NEW s \in Seq(S), NEW t \in S,
         IsInjective(s), t \notin Range(s)
  PROVE  /\ PushFront(s, t) \in Seq(S)
         /\ Len(PushFront(s, t)) = Len(s) + 1
         /\ Range(PushFront(s, t)) = Range(s) \cup {t}
         /\ IsInjective(PushFront(s, t))
<1> DEFINE p == <<t>> \o s
<1>1. p \in Seq(S) /\ Len(p) = Len(s) + 1 /\ DOMAIN p = 1 .. Len(s) + 1
  OBVIOUS
<1>2. p[1] = t /\ \A j \in 1 .. Len(s) : p[j + 1] = s[j]
  OBVIOUS
<1>3. \A j \in DOMAIN p : j = 1 \/ (j - 1 \in 1 .. Len(s) /\ p[j] = s[j - 1])
  OBVIOUS
<1>4. DOMAIN s = 1 .. Len(s) /\ Len(s) \in Nat
  OBVIOUS
<1> HIDE DEF p
<1>5. Range(p) \subseteq Range(s) \cup {t}
  BY <1>1, <1>2, <1>3, <1>4 DEF Range
<1>6. t \in Range(p)
  BY <1>1, <1>2, <1>4 DEF Range
<1>7. ASSUME NEW x \in Range(s) PROVE x \in Range(p)
  <2>1. PICK j \in 1 .. Len(s) : s[j] = x
    BY <1>4, <1>7, Zenon DEF Range
  <2>2. j + 1 \in DOMAIN p /\ p[j + 1] = x
    BY <2>1, <1>1, <1>2, <1>4
  <2> QED BY <2>2, Zenon DEF Range
<1>8. IsInjective(p)
  <2>1. \A j \in 1 .. Len(s) : s[j] # t
    BY <1>4, Zenon DEF Range
  <2>2. \A a, b \in 1 .. Len(s) : s[a] = s[b] => a = b
    BY <1>4, Zenon DEF IsInjective
  <2>3. ASSUME NEW a \in DOMAIN p, NEW b \in DOMAIN p, p[a] = p[b] PROVE a = b
    <3>1. a \in Nat /\ b \in Nat
      BY <1>1, <1>4
    <3>2. CASE a = 1 \/ b = 1
      BY <1>2, <1>3, <2>1, <2>3, <3>2, Zenon
    <3>3. CASE a # 1 /\ b # 1
      <4>1. a - 1 \in 1 .. Len(s) /\ b - 1 \in 1 .. Len(s) /\ s[a - 1] = s[b - 1]
        BY <1>3, <2>3, <3>3, Zenon
      <4>2. a - 1 = b - 1
        BY <2>2, <4>1, Zenon
      <4> QED BY <3>1, <4>2
    <3> QED BY <3>2, <3>3, Zenon
  <2> QED BY <2>3, Zenon DEF IsInjective
<1>9. PushFront(s, t) = p
  BY Zenon DEF p, PushFront
<1> QED
  BY <1>1, <1>5, <1>6, <1>7, <1>8, <1>9, Zenon

-----------------------------------------------------------------------------
\* The part of the state that put, Get's lazy expiry and Invalidate change.
MapType ==
  /\ DOMAIN entries \subseteq Tokens
  /\ entries \in [DOMAIN entries -> CachedToken]
  /\ lru \in Seq(Tokens)

CacheInv == LruMatchesEntries /\ CacheBounded

\* An injective list is as long as its range is large.
LEMMA LengthIsCardinality ==
  ASSUME NEW S, NEW s \in Seq(S), IsInjective(s)
  PROVE  Cardinality(Range(s)) = Len(s) /\ Len(s) \in Nat
<1>1. Len(s) \in Nat /\ DOMAIN s = 1 .. Len(s)
  OBVIOUS
<1>2. s \in [1 .. Len(s) -> Range(s)]
  BY <1>1 DEF Range
<1>3. s \in Bijection(1 .. Len(s), Range(s))
  BY <1>1, <1>2, Zenon DEF Range, Bijection, Injection, Surjection, IsInjective
<1>4. ExistsBijection(1 .. Len(s), Range(s))
  BY <1>3, Zenon DEF ExistsBijection
<1> QED
  BY <1>1, <1>4, FS_CountingElements, Zenon

\* The list without its last element.
LEMMA DropBackFacts ==
  ASSUME NEW S, NEW s \in Seq(S), s # << >>, IsInjective(s)
  PROVE  /\ DropBack(s) \in Seq(S)
         /\ Len(DropBack(s)) = Len(s) - 1
         /\ IsInjective(DropBack(s))
         /\ s[Len(s)] \in S
         /\ Range(DropBack(s)) = Range(s) \ {s[Len(s)]}
<1> DEFINE f == SubSeq(s, 1, Len(s) - 1)
<1>1. Len(s) \in Nat \ {0} /\ DOMAIN s = 1 .. Len(s)
  OBVIOUS
<1>2. /\ f \in Seq(S) /\ Len(f) = Len(s) - 1 /\ DOMAIN f = 1 .. Len(s) - 1
      /\ \A j \in 1 .. Len(s) - 1 : f[j] = s[j]
  BY <1>1
<1>3. \A a, b \in 1 .. Len(s) : s[a] = s[b] => a = b
  BY <1>1, Zenon DEF IsInjective
<1> HIDE DEF f
<1>4. IsInjective(f)
  BY <1>1, <1>2, <1>3 DEF IsInjective
<1>5. Range(f) = Range(s) \ {s[Len(s)]}
  <2>1. \A x \in Range(f) : x \in Range(s) /\ x # s[Len(s)]
    BY <1>1, <1>2, <1>3 DEF Range
  <2>2. ASSUME NEW x \in Range(s), x # s[Len(s)] PROVE x \in Range(f)
    <3>1. PICK k \in 1 .. Len(s) : s[k] = x
      BY <1>1, <2>2, Zenon DEF Range
    <3>2. k \in DOMAIN f /\ f[k] = x
      BY <3>1, <2>2, <1>1, <1>2
    <3> QED BY <3>2, Zenon DEF Range
  <2> QED BY <2>1, <2>2, Zenon
<1>6. s[Len(s)] \in S
  BY <1>1
<1> QED
  BY <1>2, <1>4, <1>5, <1>6, Zenon DEF f, DropBack

\* put keeps list and map in step, within the bound.
LEMMA PutPreserves ==
  ASSUME MapType, CacheInv, NEW t \in Tokens, NEW v \in CachedToken, Put(t, v)
  PROVE  MapType' /\ CacheInv'
<1> USE CacheAssumption
<1>1. /\ Range(lru) = DOMAIN entries /\ IsInjective(lru)
      /\ Cardinality(DOMAIN entries) = Len(lru) /\ Len(lru) \in Nat
      /\ Len(lru) <= MaxEntries
  BY LengthIsCardinality, Zenon DEF MapType, CacheInv, LruMatchesEntries, CacheBounded
<1>2. SUFFICES /\ DOMAIN entries' \subseteq Tokens
               /\ entries' \in [DOMAIN entries' -> CachedToken]
               /\ lru' \in Seq(Tokens)
               /\ IsInjective(lru')
               /\ Range(lru') = DOMAIN entries'
               /\ Len(lru') <= MaxEntries
  <2>1. MapType' /\ LruMatchesEntries'
    BY <1>2, Zenon DEF MapType, LruMatchesEntries
  <2>2. Cardinality(DOMAIN entries') = Len(lru')
    BY <1>2, LengthIsCardinality, Zenon
  <2> QED BY <1>2, <2>1, <2>2, Zenon DEF CacheInv, CacheBounded
<1>3. CASE Cached(t)
  <2>1. entries' = Bind(entries, t, v) /\ lru' = MoveToFront(lru, t)
    BY <1>3, Zenon DEF Put
  <2>2. t \in Range(lru)
    BY <1>1, <1>3, Zenon DEF Cached
  <2>3. \E j \in DOMAIN lru : lru[j] = t
    BY <2>2, Zenon DEF Range
  <2>4. /\ Without(lru, t) \in Seq(Tokens)
        /\ Len(Without(lru, t)) = Len(lru) - 1
        /\ IsInjective(Without(lru, t))
        /\ Range(Without(lru, t)) = Range(lru) \ {t}
    BY <2>3, <1>1, WithoutType, WithoutInjective, Zenon DEF MapType
  <2>5. /\ lru' \in Seq(Tokens)
        /\ Len(lru') = Len(lru)
        /\ IsInjective(lru')
        /\ Range(lru') = Range(lru)
    <3>1. t \notin Range(Without(lru, t))
      BY <2>4, Zenon
    <3>2. /\ PushFront(Without(lru, t), t) \in Seq(Tokens)
          /\ Len(PushFront(Without(lru, t), t)) = Len(Without(lru, t)) + 1
          /\ Range(PushFront(Without(lru, t), t)) = Range(Without(lru, t)) \cup {t}
          /\ IsInjective(PushFront(Without(lru, t), t))
      BY <3>1, <2>4, PushFrontFacts, Zenon
    <3>3. lru' = PushFront(Without(lru, t), t)
      BY <2>1, Zenon DEF MoveToFront
    <3>4. (Range(lru) \ {t}) \cup {t} = Range(lru)
      BY <2>2, Zenon
    <3>5. Range(lru') = Range(lru)
      BY <3>2, <3>3, <3>4, <2>4, Zenon
    <3>6. Len(lru') = Len(lru)
      BY <3>2, <3>3, <2>4, <1>1
    <3>7. lru' \in Seq(Tokens) /\ IsInjective(lru')
      BY <3>2, <3>3, Zenon
    <3> QED BY <3>5, <3>6, <3>7, Zenon
  <2>6. /\ DOMAIN entries' = DOMAIN entries
        /\ entries' \in [DOMAIN entries' -> CachedToken]
    BY <2>1, <1>3, Zenon DEF Bind, Cached, MapType
  <2> QED BY <2>5, <2>6, <1>1, Zenon DEF MapType
<1>4. CASE ~Cached(t) /\ Cardinality(DOMAIN entries) >= MaxEntries /\ lru # << >>
  <2> DEFINE z == lru[Len(lru)]
             f == DropBack(lru)
  <2>1. entries' = Bind(Drop(entries, z), t, v) /\ lru' = PushFront(f, t)
    BY <1>4, Zenon DEF Put
  <2>2. /\ f \in Seq(Tokens) /\ Len(f) = Len(lru) - 1 /\ IsInjective(f)
        /\ Range(f) = Range(lru) \ {z}
    BY <1>1, <1>4, DropBackFacts, Zenon DEF MapType
  <2>3. t \notin Range(f)
    BY <2>2, <1>1, <1>4, Zenon DEF Cached
  <2> HIDE DEF f
  <2>4. /\ lru' \in Seq(Tokens) /\ Len(lru') = Len(lru)
        /\ IsInjective(lru') /\ Range(lru') = Range(f) \cup {t}
    <3>1. /\ PushFront(f, t) \in Seq(Tokens)
          /\ Len(PushFront(f, t)) = Len(f) + 1
          /\ Range(PushFront(f, t)) = Range(f) \cup {t}
          /\ IsInjective(PushFront(f, t))
      BY <2>2, <2>3, PushFrontFacts, Zenon
    <3> QED BY <3>1, <2>1, <2>2, <1>1
  <2>5. /\ DOMAIN Drop(entries, z) = DOMAIN entries \ {z}
        /\ Drop(entries, z) \in [DOMAIN Drop(entries, z) -> CachedToken]
    BY DropDomain, DropType, Zenon DEF MapType
  <2>6. /\ DOMAIN entries' = (DOMAIN entries \ {z}) \cup {t}
        /\ entries' \in [DOMAIN entries' -> CachedToken]
    BY <2>1, <2>5, Zenon DEF Bind
  <2> QED BY <2>2, <2>4, <2>6, <1>1, Zenon DEF MapType
<1>5. CASE ~Cached(t) /\ ~(Cardinality(DOMAIN entries) >= MaxEntries /\ lru # << >>)
  <2>1. entries' = Bind(entries, t, v) /\ lru' = PushFront(lru, t)
    BY <1>5, Zenon DEF Put
  <2>2. t \notin Range(lru)
    BY <1>1, <1>5, Zenon DEF Cached
  <2>3. /\ lru' \in Seq(Tokens) /\ Len(lru') = Len(lru) + 1
        /\ IsInjective(lru') /\ Range(lru') = Range(lru) \cup {t}
    <3>1. /\ PushFront(lru, t) \in Seq(Tokens)
          /\ Len(PushFront(lru, t)) = Len(lru) + 1
          /\ Range(PushFront(lru, t)) = Range(lru) \cup {t}
          /\ IsInjective(PushFront(lru, t))
      BY <2>2, <1>1, PushFrontFacts, Zenon DEF MapType
    <3> QED BY <3>1, <2>1, Zenon
  <2>4. Len(lru) + 1 <= MaxEntries
    BY <1>1, <1>5 DEF MapType, CacheAssumption
  <2>5. /\ DOMAIN entries' = DOMAIN entries \cup {t}
        /\ entries' \in [DOMAIN entries' -> CachedToken]
    BY <2>1, Zenon DEF Bind, MapType
  <2> QED BY <2>3, <2>4, <2>5, <1>1, Zenon DEF MapType
<1> QED
  BY <1>3, <1>4, <1>5, Zenon

\* Dropping a token from map and list, present or not.
LEMMA DropPreserves ==
  ASSUME MapType, CacheInv, NEW t \in Tokens,
         entries' = Drop(entries, t),
         lru' = IF Cached(t) THEN Without(lru, t) ELSE lru
  PROVE  MapType' /\ CacheInv'
<1>1. /\ Range(lru) = DOMAIN entries /\ IsInjective(lru)
      /\ Cardinality(DOMAIN entries) = Len(lru) /\ Len(lru) \in Nat
      /\ Len(lru) <= MaxEntries
  BY LengthIsCardinality, Zenon DEF MapType, CacheInv, LruMatchesEntries, CacheBounded
<1>2. /\ DOMAIN entries' = DOMAIN entries \ {t}
      /\ entries' \in [DOMAIN entries' -> CachedToken]
  BY DropDomain, DropType, Zenon DEF MapType
<1>3. /\ lru' \in Seq(Tokens) /\ IsInjective(lru')
      /\ Range(lru') = DOMAIN entries \ {t} /\ Len(lru') <= MaxEntries
  <2>1. CASE Cached(t)
    <3>1. \E j \in DOMAIN lru : lru[j] = t
      BY <2>1, <1>1, Zenon DEF Cached, Range
    <3> QED
      BY <3>1, <2>1, <1>1, WithoutType, WithoutInjective, CacheAssumption
         DEF MapType, CacheAssumption
  <2>2. CASE ~Cached(t)
    BY <2>2, <1>1, Zenon DEF Cached, MapType
  <2> QED BY <2>1, <2>2, Zenon
<1>4. MapType' /\ LruMatchesEntries'
  BY <1>2, <1>3, Zenon DEF MapType, LruMatchesEntries
<1>5. Cardinality(DOMAIN entries') = Len(lru')
  BY <1>2, <1>3, LengthIsCardinality, Zenon
<1> QED
  BY <1>3, <1>4, <1>5, Zenon DEF CacheInv, CacheBounded

-----------------------------------------------------------------------------
\* Type correctness: every reachable state of the cache has its declared
\* shape.
LEMMA TypeInit == Init => TypeOK
  BY CacheAssumption
     DEF Init, TypeOK, PCs, Result, Kinds, NoResult, CacheAssumption

LEMMA TypeAndCacheStep ==
  TypeOK /\ CacheInv /\ [Next]_vars => TypeOK' /\ CacheInv'
<1> SUFFICES ASSUME TypeOK, CacheInv, [Next]_vars
             PROVE  TypeOK' /\ CacheInv'
  BY Zenon
<1> USE CacheAssumption
<1>1. MapType
  BY Zenon DEF TypeOK, MapType
<1>3. ASSUME UNCHANGED <<entries, lru>> PROVE MapType' /\ CacheInv'
  BY <1>1, <1>3, Zenon DEF MapType, CacheInv, LruMatchesEntries, CacheBounded
<1>4. ASSUME NEW c \in Callers, Call(c) PROVE TypeOK' /\ CacheInv'
  BY <1>3, <1>4, Zenon DEF TypeOK, MapType, Call, Goto, PCs, cacheVars
<1>5. ASSUME NEW c \in Callers, GetHit(c) PROVE TypeOK' /\ CacheInv'
  <2>1. token[c] \in Tokens /\ Cached(token[c])
    BY <1>5, Zenon DEF TypeOK, GetHit, Fresh
  <2>2. MapType' /\ CacheInv'
    <3>1. entries[token[c]] \in CachedToken
      BY <2>1, Zenon DEF TypeOK, Cached
    <3>2. entries = Bind(entries, token[c], entries[token[c]])
      BY <2>1, <1>1, Zenon DEF Bind, Cached, MapType
    <3>3. Put(token[c], entries[token[c]])
      BY <3>2, <2>1, <1>5, Zenon DEF Put, GetHit
    <3> QED BY <3>1, <3>3, <2>1, <1>1, PutPreserves, Zenon
  <2>3. result' \in [Callers -> Result] /\ pc' \in [Callers -> PCs]
    BY <1>5, Zenon DEF TypeOK, GetHit, Goto, PCs, Result, Kinds
  <2> QED BY <2>2, <2>3, <1>5, Zenon DEF TypeOK, MapType, GetHit
<1>6. ASSUME NEW c \in Callers, GetMiss(c) PROVE TypeOK' /\ CacheInv'
  <2>1. token[c] \in Tokens
    BY Zenon DEF TypeOK
  <2>2. MapType' /\ CacheInv'
    BY <2>1, <1>1, <1>6, DropPreserves, Zenon DEF GetMiss
  <2>3. pc' \in [Callers -> PCs]
    BY <1>6, Zenon DEF TypeOK, GetMiss, Goto, PCs
  <2> QED BY <2>2, <2>3, <1>6, Zenon DEF TypeOK, MapType, GetMiss
<1>7. ASSUME NEW c \in Callers, AcquireInflight(c) PROVE TypeOK' /\ CacheInv'
  <2>1. MapType' /\ CacheInv'
    BY <1>3, <1>7, Zenon DEF AcquireInflight
  <2>2. /\ DOMAIN inflight' \subseteq Tokens
        /\ inflight' \in [DOMAIN inflight' -> Callers]
    BY <1>7, Zenon DEF TypeOK, AcquireInflight, Bind
  <2>3. started' \in [Callers -> 0 .. MaxTime] /\ pc' \in [Callers -> PCs]
    BY <1>7, Zenon DEF TypeOK, AcquireInflight, Goto, PCs
  <2> QED BY <2>1, <2>2, <2>3, <1>7, Zenon DEF TypeOK, MapType, AcquireInflight
<1>8. ASSUME NEW c \in Callers, JoinInflight(c) PROVE TypeOK' /\ CacheInv'
  BY <1>3, <1>8, Zenon DEF TypeOK, MapType, JoinInflight, Goto, PCs, cacheVars
<1>9. ASSUME NEW c \in Callers, Wake(c) PROVE TypeOK' /\ CacheInv'
  BY <1>3, <1>9, Zenon DEF TypeOK, MapType, Wake, Goto, PCs, cacheVars
<1>10. ASSUME NEW c \in Callers, WaitCancelled(c) PROVE TypeOK' /\ CacheInv'
  BY <1>3, <1>10, Zenon
     DEF TypeOK, MapType, WaitCancelled, Goto, PCs, Result, Kinds, cacheVars
<1>11. ASSUME NEW c \in Callers, NEW r \in LoadResults, LoaderAnswers(c, r)
       PROVE  TypeOK' /\ CacheInv'
  BY <1>3, <1>11, Zenon
     DEF TypeOK, MapType, LoaderAnswers, Goto, PCs, cacheVars, CacheAssumption
<1>12. ASSUME NEW c \in Callers, RunLoaderStores(c) PROVE TypeOK' /\ CacheInv'
  <2>1. token[c] \in Tokens /\ result[c] \in Result /\ now \in Nat
    BY DEF TypeOK
  <2>2. MapType' /\ CacheInv'
    <3>1. CASE result[c].kind = "valid"
      <4> DEFINE v == [Valid |-> TRUE, ExpiresAt |-> PutValidUntil(result[c].exp)]
      <4>1. PutValidUntil(result[c].exp) \in Nat
        BY <2>1 DEF PutValidUntil, Result, CacheAssumption
      <4>2. v \in CachedToken
        BY <4>1, Zenon DEF CachedToken
      <4>3. Put(token[c], v)
        BY <3>1, <1>12, Zenon DEF RunLoaderStores
      <4> QED BY <4>2, <4>3, <2>1, <1>1, PutPreserves, Zenon
    <3>2. CASE result[c].kind = "invalid"
      <4> DEFINE v == [Valid |-> FALSE, ExpiresAt |-> now + NegativeTTL]
      <4>1. v \in CachedToken
        BY <2>1 DEF CachedToken, CacheAssumption
      <4>2. Put(token[c], v)
        BY <3>2, <1>12, Zenon DEF RunLoaderStores
      <4> QED BY <4>1, <4>2, <2>1, <1>1, PutPreserves, Zenon
    <3>3. CASE result[c].kind \notin {"valid", "invalid"}
      BY <3>3, <1>3, <1>12, Zenon DEF RunLoaderStores
    <3> QED BY <3>1, <3>2, <3>3, Zenon
  <2>3. /\ result' \in [Callers -> Result]
        /\ started' \in [Callers -> 0 .. MaxTime]
        /\ pc' \in [Callers -> PCs]
    <3>1. result' \in [Callers -> Result]
      BY <1>12, Zenon DEF TypeOK, RunLoaderStores, Result
    <3>2. started' \in [Callers -> 0 .. MaxTime]
      BY <1>12 DEF TypeOK, RunLoaderStores, CacheAssumption
    <3>3. pc' \in [Callers -> PCs]
      BY <1>12, Zenon DEF TypeOK, RunLoaderStores, Goto, PCs
    <3> QED BY <3>1, <3>2, <3>3, Zenon
  <2> QED BY <2>2, <2>3, <1>12, Zenon DEF TypeOK, MapType, RunLoaderStores
<1>13. ASSUME NEW c \in Callers, ReleaseInflight(c) PROVE TypeOK' /\ CacheInv'
  <2>1. MapType' /\ CacheInv'
    BY <1>3, <1>13, Zenon DEF ReleaseInflight
  <2>2. /\ DOMAIN inflight' \subseteq Tokens
        /\ inflight' \in [DOMAIN inflight' -> Callers]
    BY <1>13, Zenon DEF TypeOK, ReleaseInflight, Drop, Restrict
  <2>3. pc' \in [Callers -> PCs]
    BY <1>13, Zenon DEF TypeOK, ReleaseInflight, Goto, PCs
  <2> QED BY <2>1, <2>2, <2>3, <1>13, Zenon DEF TypeOK, MapType, ReleaseInflight
<1>14. ASSUME NEW c \in Callers, CloseChannel(c) PROVE TypeOK' /\ CacheInv'
  BY <1>3, <1>14, Zenon DEF TypeOK, MapType, CloseChannel, Goto, PCs
<1>15. ASSUME NEW t \in Tokens, Invalidate(t) PROVE TypeOK' /\ CacheInv'
  <2>1. MapType' /\ CacheInv'
    BY <1>1, <1>15, DropPreserves, Zenon DEF Invalidate
  <2> QED BY <2>1, <1>15, Zenon DEF TypeOK, MapType, Invalidate, callVars
<1>16. CASE Tick
  BY <1>3, <1>16
     DEF TypeOK, MapType, Tick, cacheVars, callVars, CacheAssumption
<1>17. CASE UNCHANGED vars
  BY <1>3, <1>17, Zenon DEF TypeOK, MapType, vars, cacheVars, callVars
<1> QED
  BY <1>4, <1>5, <1>6, <1>7, <1>8, <1>9, <1>10, <1>11, <1>12, <1>13, <1>14,
     <1>15, <1>16, <1>17, ZenonT(60) DEF Next, CallerStep, Finished

LEMMA CacheInit == Init => CacheInv
<1> SUFFICES ASSUME Init PROVE CacheInv
  BY Zenon
<1>1. DOMAIN entries = {} /\ lru = << >>
  BY Zenon DEF Init
<1>2. DOMAIN lru = {}
  BY <1>1
<1>3. Range(lru) = {} /\ IsInjective(lru)
  BY <1>2, Zenon DEF Range, IsInjective
<1>4. Cardinality(DOMAIN entries) <= MaxEntries
  BY <1>1, FS_EmptySet, CacheAssumption DEF CacheAssumption
<1> QED
  BY <1>1, <1>3, <1>4, Zenon DEF CacheInv, LruMatchesEntries, CacheBounded

LEMMA TypeAndCache == Spec => [](TypeOK /\ CacheInv)
<1>1. Init => TypeOK /\ CacheInv
  BY TypeInit, CacheInit, Zenon
<1> QED
  BY <1>1, TypeAndCacheStep, PTL DEF Spec

\* Every reachable state of the cache and its callers is well typed.
THEOREM TypeCorrect == Spec => []TypeOK
  BY TypeAndCache, PTL

\* The cache's list and map hold the same tokens after every put, lazy
\* expiry, eviction and invalidation (cache.go:85-90).
THEOREM ListAndMapAgree == Spec => []LruMatchesEntries
<1>1. CacheInv => LruMatchesEntries
  BY Zenon DEF CacheInv
<1> QED
  BY <1>1, TypeAndCache, PTL

\* The cache never holds more than MaxEntries entries (cache.go:49-51).
THEOREM CacheStaysBounded == Spec => []CacheBounded
<1>1. CacheInv => CacheBounded
  BY Zenon DEF CacheInv
<1> QED
  BY <1>1, TypeAndCache, PTL

-----------------------------------------------------------------------------
\* Slots and wake-ups: SlotHeldByLoader is inductive by itself, and
\* NoLostWakeup is inductive together with it, because a caller only ever
\* joins a channel that a loader holds.
SlotInv == SlotHeldByLoader /\ NoLostWakeup

LEMMA SlotInit == Init => SlotInv
  BY Zenon DEF Init, SlotInv, SlotHeldByLoader, NoLostWakeup, Loading

LEMMA SlotStep == TypeOK /\ SlotInv /\ [Next]_vars => SlotInv'
<1> SUFFICES ASSUME TypeOK, SlotInv, [Next]_vars PROVE SlotInv'
  BY Zenon
<1>1. ASSUME NEW c \in Callers,
             UNCHANGED <<inflight, token>>,
             pc' = [pc EXCEPT ![c] = pc'[c]],
             Loading(c) <=> Loading(c)',
             closed \subseteq closed',
             pc[c] = "close" => c \in closed',
             pc'[c] # "wait",
             \A d \in Callers \ {c} : waitOn'[d] = waitOn[d]
      PROVE  SlotInv'
  <2>1. \A d \in Callers : Loading(d) <=> Loading(d)'
    BY <1>1, Zenon DEF TypeOK, Loading
  <2>2. SlotHeldByLoader'
    BY <1>1, <2>1, Zenon DEF SlotInv, SlotHeldByLoader, TypeOK
  <2>3. ASSUME NEW d \in Callers, pc'[d] = "wait"
        PROVE  \/ waitOn'[d] \in closed'
               \/ pc'[waitOn'[d]] \in {"load", "loaded", "release"}
               \/ pc'[waitOn'[d]] = "close"
    <3>1. d # c /\ pc[d] = "wait" /\ waitOn'[d] = waitOn[d]
      BY <1>1, <2>3, Zenon DEF TypeOK
    <3>2. waitOn[d] \in Callers
      BY Zenon DEF TypeOK
    <3>3. \/ waitOn[d] \in closed
          \/ Loading(waitOn[d])
          \/ pc[waitOn[d]] = "close"
      BY <3>1, Zenon DEF SlotInv, NoLostWakeup
    <3>4. CASE waitOn[d] \in closed
      BY <3>1, <3>4, <1>1, Zenon
    <3>5. CASE Loading(waitOn[d])
      BY <3>1, <3>2, <3>5, <2>1, Zenon DEF Loading
    <3>6. CASE pc[waitOn[d]] = "close"
      BY <3>1, <3>2, <3>6, <1>1 DEF TypeOK
    <3> QED BY <3>3, <3>4, <3>5, <3>6, Zenon
  <2>4. NoLostWakeup'
    BY <2>3, Zenon DEF NoLostWakeup, Loading
  <2> QED BY <2>2, <2>4, Zenon DEF SlotInv
<1>2. ASSUME NEW c \in Callers, Call(c) PROVE SlotInv'
  BY <1>1, <1>2, Zenon DEF Call, Goto, TypeOK, Loading, cacheVars
<1>3. ASSUME NEW c \in Callers, GetHit(c) PROVE SlotInv'
  BY <1>1, <1>3, Zenon DEF GetHit, Goto, TypeOK, Loading
<1>4. ASSUME NEW c \in Callers, GetMiss(c) PROVE SlotInv'
  BY <1>1, <1>4, ZenonT(60) DEF GetMiss, Goto, TypeOK, Loading
<1>5. ASSUME NEW c \in Callers, AcquireInflight(c) PROVE SlotInv'
  <2>1. /\ token[c] \notin DOMAIN inflight
        /\ DOMAIN inflight' = DOMAIN inflight \cup {token[c]}
        /\ inflight'[token[c]] = c
        /\ \A t \in DOMAIN inflight : inflight'[t] = inflight[t]
    BY <1>5, Zenon DEF AcquireInflight, Bind
  <2>2. /\ Loading(c)' /\ ~Loading(c) /\ pc[c] # "wait" /\ pc[c] # "close"
        /\ \A d \in Callers \ {c} : pc'[d] = pc[d]
        /\ pc'[c] = "load"
    BY <1>5, Zenon DEF AcquireInflight, Goto, TypeOK, Loading
  <2>3. SlotHeldByLoader'
    BY <1>5, <2>1, <2>2
       DEF AcquireInflight, SlotInv, SlotHeldByLoader, TypeOK, Loading
  <2>4. NoLostWakeup'
    BY <1>5, <2>2, Zenon DEF AcquireInflight, SlotInv, NoLostWakeup, TypeOK, Loading
  <2> QED BY <2>3, <2>4, Zenon DEF SlotInv
<1>6. ASSUME NEW c \in Callers, JoinInflight(c) PROVE SlotInv'
  <2>1. /\ inflight[token[c]] \in Callers /\ Loading(inflight[token[c]])
        /\ inflight[token[c]] # c
        /\ pc[c] = "acquire"
        /\ pc' = [pc EXCEPT ![c] = "wait"]
        /\ waitOn' = [waitOn EXCEPT ![c] = inflight[token[c]]]
    BY <1>6, Zenon DEF JoinInflight, Goto, TypeOK, SlotInv, SlotHeldByLoader, Loading
  <2>2. \A d \in Callers : Loading(d) <=> Loading(d)'
    BY <2>1, Zenon DEF TypeOK, Loading
  <2>3. SlotHeldByLoader'
    BY <1>6, <2>2, Zenon
       DEF JoinInflight, SlotInv, SlotHeldByLoader, TypeOK, cacheVars
  <2>4. NoLostWakeup'
    BY <1>6, <2>1, <2>2
       DEF JoinInflight, SlotInv, NoLostWakeup, TypeOK, cacheVars
  <2> QED BY <2>3, <2>4, Zenon DEF SlotInv
<1>7. ASSUME NEW c \in Callers, Wake(c) PROVE SlotInv'
  BY <1>1, <1>7, Zenon DEF Wake, Goto, TypeOK, Loading, cacheVars
<1>8. ASSUME NEW c \in Callers, WaitCancelled(c) PROVE SlotInv'
  BY <1>1, <1>8, Zenon DEF WaitCancelled, Goto, TypeOK, Loading, cacheVars
<1>9. ASSUME NEW c \in Callers, NEW r \in LoadResults, LoaderAnswers(c, r)
      PROVE  SlotInv'
  BY <1>1, <1>9, Zenon DEF LoaderAnswers, Goto, TypeOK, Loading, cacheVars
<1>10. ASSUME NEW c \in Callers, RunLoaderStores(c) PROVE SlotInv'
  BY <1>1, <1>10, Zenon DEF RunLoaderStores, Goto, TypeOK, Loading
<1>11. ASSUME NEW c \in Callers, ReleaseInflight(c) PROVE SlotInv'
  <2>1. /\ DOMAIN inflight' = DOMAIN inflight \ {token[c]}
        /\ \A t \in DOMAIN inflight' : inflight'[t] = inflight[t]
    BY <1>11, Zenon DEF ReleaseInflight, Drop, Restrict
  <2>2. /\ Loading(c) /\ pc'[c] = "close" /\ ~Loading(c)'
        /\ \A d \in Callers \ {c} : pc'[d] = pc[d]
    BY <1>11, Zenon DEF ReleaseInflight, Goto, TypeOK, Loading
  <2>3. SlotHeldByLoader'
    <3>1. token' = token
      BY <1>11, Zenon DEF ReleaseInflight
    <3>2. inflight[token[c]] = c
      BY <2>2, Zenon DEF SlotInv, SlotHeldByLoader
    <3>3. ASSUME NEW d \in Callers, Loading(d)'
          PROVE  token[d] \in DOMAIN inflight' /\ inflight'[token[d]] = d
      <4>1. d # c /\ Loading(d)
        BY <3>3, <2>2, Zenon DEF Loading
      <4>2. token[d] \in DOMAIN inflight /\ inflight[token[d]] = d
        BY <4>1, Zenon DEF SlotInv, SlotHeldByLoader
      <4> QED BY <4>1, <4>2, <3>2, <2>1, Zenon
    <3>4. ASSUME NEW t \in DOMAIN inflight'
          PROVE  /\ pc'[inflight'[t]] \in {"load", "loaded", "release"}
                 /\ token[inflight'[t]] = t
      <4>1. t # token[c] /\ t \in DOMAIN inflight /\ inflight'[t] = inflight[t]
        BY <2>1, Zenon
      <4>2. Loading(inflight[t]) /\ token[inflight[t]] = t
        BY <4>1, Zenon DEF SlotInv, SlotHeldByLoader
      <4>3. inflight[t] # c /\ inflight[t] \in Callers
        BY <4>1, <4>2, Zenon DEF TypeOK
      <4> QED BY <4>1, <4>2, <4>3, <2>2, Zenon DEF Loading
    <3> QED BY <3>1, <3>3, <3>4, Zenon DEF SlotHeldByLoader, Loading
  <2>4. NoLostWakeup'
    BY <1>11, <2>2, Zenon DEF ReleaseInflight, SlotInv, NoLostWakeup, TypeOK, Loading
  <2> QED BY <2>3, <2>4, Zenon DEF SlotInv
<1>12. ASSUME NEW c \in Callers, CloseChannel(c) PROVE SlotInv'
  BY <1>1, <1>12, Zenon DEF CloseChannel, Goto, TypeOK, Loading
<1>13. ASSUME UNCHANGED <<inflight, closed, callVars>> PROVE SlotInv'
  BY <1>13, Zenon DEF callVars, SlotInv, SlotHeldByLoader, NoLostWakeup, Loading
<1>14. ASSUME NEW t \in Tokens, Invalidate(t) PROVE SlotInv'
  BY <1>13, <1>14, Zenon DEF Invalidate
<1>15. CASE Tick
  BY <1>13, <1>15, Zenon DEF Tick, cacheVars
<1>16. CASE UNCHANGED vars
  BY <1>13, <1>16, Zenon DEF vars, cacheVars
<1> QED
  BY <1>2, <1>3, <1>4, <1>5, <1>6, <1>7, <1>8, <1>9, <1>10, <1>11, <1>12,
     <1>14, <1>15, <1>16, Zenon DEF Next, CallerStep, Finished

LEMMA SlotAlways == Spec => []SlotInv
  BY SlotInit, SlotStep, TypeCorrect, PTL DEF Spec

\* At most one loader runs per token, and it holds the token's slot
\* (cache.go:217-219).
THEOREM OneLoaderPerToken == Spec => []SlotHeldByLoader
<1>1. SlotInv => SlotHeldByLoader
  BY Zenon DEF SlotInv
<1> QED
  BY <1>1, SlotAlways, PTL

\* A caller that waits on a predecessor's channel will find it closed, now or
\* once the predecessor is done (cache.go:246-253, 274-279).
THEOREM WakeupNeverLost == Spec => []NoLostWakeup
<1>1. SlotInv => NoLostWakeup
  BY Zenon DEF SlotInv
<1> QED
  BY <1>1, SlotAlways, PTL

-----------------------------------------------------------------------------
\* What put and the removals leave in the map.
LEMMA PutContents ==
  ASSUME NEW t, NEW v, Put(t, v)
  PROVE  \A u \in DOMAIN entries' :
            \/ u = t /\ entries'[u] = v
            \/ u \in DOMAIN entries /\ entries'[u] = entries[u]
<1>1. CASE entries' = Bind(entries, t, v)
  BY <1>1, Zenon DEF Bind
<1>2. CASE \E z : entries' = Bind(Drop(entries, z), t, v)
  <2>1. PICK z : entries' = Bind(Drop(entries, z), t, v)
    BY <1>2, Zenon
  <2>2. /\ DOMAIN Drop(entries, z) \subseteq DOMAIN entries
        /\ \A u \in DOMAIN Drop(entries, z) : Drop(entries, z)[u] = entries[u]
    BY Zenon DEF Drop, Restrict
  <2> QED BY <2>1, <2>2, Zenon DEF Bind
<1>3. \/ entries' = Bind(entries, t, v)
      \/ \E z : entries' = Bind(Drop(entries, z), t, v)
  BY Zenon DEF Put
<1> QED
  BY <1>1, <1>2, <1>3, Zenon

LEMMA DropContents ==
  ASSUME NEW t, entries' = Drop(entries, t)
  PROVE  \A u \in DOMAIN entries' :
            u \in DOMAIN entries /\ entries'[u] = entries[u]
  BY Zenon DEF Drop, Restrict

\* A step of the gateway is a step of its cache, or leaves the cache alone.
LEMMA GwStepIsCacheStep ==
  TypeOK /\ [GwNext]_allVars => [Next]_vars
<1> SUFFICES ASSUME TypeOK, [GwNext]_allVars PROVE [Next]_vars
  BY Zenon
<1>1. ASSUME NEW c \in Callers, CacheStep(c) PROVE Next
  BY <1>1, Zenon DEF CacheStep, Next
<1>2. ASSUME NEW c \in Callers, VerifyAnswers(c) PROVE Next
  <2>1. \E k \in {"valid", "denied", "failed", "gone"} :
           LoaderAnswers(c, [kind |-> k, exp |-> 0])
    BY <1>2, Zenon DEF VerifyAnswers
  <2>2. \E r \in LoadResults : LoaderAnswers(c, r)
    BY <2>1, GatewayAssumption, Zenon DEF GatewayAssumption, VerifyResults
  <2> QED BY <2>2, Zenon DEF Next
<1>3. ASSUME NEW c \in Callers, UpstreamReplies(c) PROVE [Next]_vars
  <2>1. token[c] \in Tokens
    BY Zenon DEF TypeOK
  <2> QED BY <2>1, <1>3, Zenon DEF UpstreamReplies, Next
<1>4. ASSUME NEW c \in Callers, CollectorHangsUp(c) PROVE Next
  BY <1>4, Zenon DEF CollectorHangsUp, Next
<1>5. CASE GwTick
  BY <1>5, Zenon DEF GwTick, Next
<1>6. ASSUME NEW c \in Callers,
             Decide(c) \/ UpstreamStreamBreaks(c) \/ UpstreamFails(c)
               \/ RefuseEarly(c)
      PROVE  UNCHANGED vars
  BY <1>6, Zenon DEF Decide, UpstreamStreamBreaks, UpstreamFails, RefuseEarly
<1>7. ASSUME NEW t \in Tokens, Deactivate(t) PROVE UNCHANGED vars
  BY <1>7, Zenon DEF Deactivate
<1>8. CASE UNCHANGED allVars
  BY <1>8, Zenon DEF allVars
<1> QED
  BY <1>1, <1>2, <1>3, <1>4, <1>5, <1>6, <1>7, <1>8, Zenon
     DEF GwNext, RequestStep, GwFinished, allVars

LEMMA GwType == GwSpec => [](TypeOK /\ CacheInv)
<1>1. GwInit => TypeOK /\ CacheInv
  BY TypeInit, CacheInit, Zenon DEF GwInit
<1>2. TypeOK /\ CacheInv /\ [GwNext]_allVars => TypeOK' /\ CacheInv'
  BY GwStepIsCacheStep, TypeAndCacheStep, Zenon
<1> QED
  BY <1>1, <1>2, PTL DEF GwSpec

\* The gateway implements the specification of its cache, so everything
\* proved about TokenCache holds inside handleProxy (server.go:205-207).
THEOREM GatewayImplementsCache == GwSpec => Spec
<1>1. GwInit => Init
  BY Zenon DEF GwInit
<1> QED
  BY <1>1, GwType, GwStepIsCacheStep, PTL DEF GwSpec, Spec

-----------------------------------------------------------------------------
LEMMA GwTypeInit == GwInit => GwTypeOK
  BY CacheAssumption
     DEF GwInit, GwTypeOK, Stages, Codes, Never, CacheAssumption

LEMMA GwTypeStep ==
  TypeOK /\ GwTypeOK /\ [GwNext]_allVars => GwTypeOK'
<1> SUFFICES ASSUME TypeOK, GwTypeOK, [GwNext]_allVars PROVE GwTypeOK'
  BY Zenon
<1>1. ASSUME NEW c \in Callers, NEW x \in Codes \cup Stages,
             status' = [status EXCEPT ![c] = x],
             UNCHANGED <<deadSince, confirmed>>
      PROVE  GwTypeOK'
  BY <1>1, Zenon DEF GwTypeOK
<1>2. ASSUME UNCHANGED gwVars PROVE GwTypeOK'
  BY <1>2, Zenon DEF GwTypeOK, gwVars
<1>3. ASSUME NEW c \in Callers, VerifyAnswers(c) PROVE GwTypeOK'
  BY <1>3, Zenon DEF VerifyAnswers, GwTypeOK, TypeOK
<1>4. ASSUME NEW c \in Callers, Decide(c) PROVE GwTypeOK'
  <2>1. DecideOn(result[c].kind, token[c]) \in Codes \cup Stages
    BY Zenon DEF DecideOn, RespondCode, Unwritten, Codes, Stages
  <2> QED BY <2>1, <1>1, <1>4, Zenon DEF Decide
<1>5. ASSUME NEW c \in Callers, UpstreamReplies(c) PROVE GwTypeOK'
  <2>1. \E x \in Codes \cup Stages : status' = [status EXCEPT ![c] = x]
    BY <1>5, Zenon DEF UpstreamReplies, Codes
  <2> QED BY <2>1, <1>1, <1>5, Zenon DEF UpstreamReplies
<1>6. ASSUME NEW c \in Callers, UpstreamStreamBreaks(c) PROVE GwTypeOK'
  <2>1. \E x \in Codes \cup Stages : status' = [status EXCEPT ![c] = x]
    BY <1>6, Zenon DEF UpstreamStreamBreaks, Codes
  <2> QED BY <2>1, <1>1, <1>6, Zenon DEF UpstreamStreamBreaks
<1>7. ASSUME NEW c \in Callers, UpstreamFails(c) PROVE GwTypeOK'
  <2>1. \E x \in Codes \cup Stages : status' = [status EXCEPT ![c] = x]
    BY <1>7, Zenon DEF UpstreamFails, RespondCode, Unwritten, Codes, Stages
  <2> QED BY <2>1, <1>1, <1>7, Zenon DEF UpstreamFails
<1>8. ASSUME NEW c \in Callers, RefuseEarly(c) PROVE GwTypeOK'
  <2>1. \E x \in Codes \cup Stages : status' = [status EXCEPT ![c] = x]
    BY <1>8, Zenon DEF RefuseEarly, Codes
  <2> QED BY <2>1, <1>1, <1>8, Zenon DEF RefuseEarly
<1>9. ASSUME NEW t \in Tokens, Deactivate(t) PROVE GwTypeOK'
  BY <1>9, CacheAssumption
     DEF Deactivate, GwTypeOK, TypeOK, Never, CacheAssumption
<1> QED
  BY <1>2, <1>3, <1>4, <1>5, <1>6, <1>7, <1>8, <1>9, Zenon
     DEF GwNext, RequestStep, CacheStep, CollectorHangsUp, GwTick, GwFinished,
         allVars

\* Every reachable state of the gateway is well typed.
THEOREM GwTypeCorrect == GwSpec => [](TypeOK /\ GwTypeOK)
  BY GwTypeInit, GwTypeStep, GwType, PTL DEF GwSpec

-----------------------------------------------------------------------------
\* Confirmation travels with the answer: into the cache, to the caller that
\* asked, and to every caller that reads the cache.
Answered(c) == pc[c] \in {"loaded", "release", "close", "returned"}

ConfirmInv ==
  /\ \A t \in DOMAIN entries : entries[t].Valid => t \in confirmed
  /\ \A c \in Callers : result[c].kind = "valid" => token[c] \in confirmed
  /\ \A c \in Callers : Answered(c) => result[c].kind # "none"
  /\ ForwardedWasConfirmed

LEMMA ConfirmInit == GwInit => ConfirmInv
  BY DEF GwInit, Init, ConfirmInv, ForwardedWasConfirmed, NoResult, Answered

LEMMA ConfirmStep ==
  TypeOK /\ GwTypeOK /\ ConfirmInv /\ [GwNext]_allVars => ConfirmInv'
<1> SUFFICES ASSUME TypeOK, GwTypeOK, ConfirmInv, [GwNext]_allVars
             PROVE  ConfirmInv'
  BY Zenon
<1>1. ASSUME NEW c \in Callers, CallerStep(c), UNCHANGED gwVars
      PROVE  ConfirmInv'
  <2>1. token' = token
    BY <1>1, Zenon DEF CallerStep, Call, GetHit, GetMiss, AcquireInflight,
                JoinInflight, Wake, RunLoaderStores, ReleaseInflight,
                CloseChannel
  <2>2. \A u \in DOMAIN entries' : entries'[u].Valid => u \in confirmed
    <3>1. CASE UNCHANGED entries
      BY <3>1, Zenon DEF ConfirmInv
    <3>2. CASE GetMiss(c)
      BY <3>2, DropContents, Zenon DEF GetMiss, ConfirmInv
    <3>3. CASE RunLoaderStores(c)
      <4>1. CASE result[c].kind = "valid"
        <5> DEFINE v == [Valid |-> TRUE,
                         ExpiresAt |-> PutValidUntil(result[c].exp)]
        <5>1. Put(token[c], v)
          BY <3>3, <4>1, Zenon DEF RunLoaderStores
        <5>2. token[c] \in confirmed
          BY <4>1, Zenon DEF ConfirmInv
        <5> QED BY <5>1, <5>2, PutContents, Zenon DEF ConfirmInv
      <4>2. CASE result[c].kind = "invalid"
        <5> DEFINE v == [Valid |-> FALSE, ExpiresAt |-> now + NegativeTTL]
        <5>1. Put(token[c], v)
          BY <3>3, <4>2, Zenon DEF RunLoaderStores
        <5> QED BY <5>1, PutContents DEF ConfirmInv
      <4>3. CASE result[c].kind \notin {"valid", "invalid"}
        BY <3>1, <3>3, <4>3, Zenon DEF RunLoaderStores
      <4> QED BY <4>1, <4>2, <4>3, Zenon
    <3> QED
      BY <3>1, <3>2, <3>3, <1>1, Zenon
         DEF CallerStep, Call, GetHit, AcquireInflight, JoinInflight, Wake,
             ReleaseInflight, CloseChannel, cacheVars
  <2>3. ASSUME NEW d \in Callers, result'[d].kind = "valid"
        PROVE  token[d] \in confirmed
    <3>1. CASE UNCHANGED result
      BY <3>1, <2>3, Zenon DEF ConfirmInv
    <3>2. CASE GetHit(c)
      <4>1. d # c => result'[d] = result[d]
        BY <3>2, Zenon DEF GetHit, TypeOK
      <4>2. d = c => entries[token[c]].Valid /\ token[c] \in DOMAIN entries
        BY <3>2, <2>3, Zenon DEF GetHit, TypeOK, Fresh, Cached
      <4> QED BY <4>1, <4>2, <2>3, Zenon DEF ConfirmInv
    <3>3. CASE RunLoaderStores(c)
      BY <3>3, <2>3, Zenon DEF RunLoaderStores, ConfirmInv, TypeOK, Result
    <3> QED
      BY <3>1, <3>2, <3>3, <1>1, ZenonT(60)
         DEF CallerStep, Call, GetMiss, AcquireInflight, JoinInflight, Wake,
             ReleaseInflight, CloseChannel
  <2>4. ASSUME NEW d \in Callers, Answered(d)' PROVE result'[d].kind # "none"
    <3>1. CASE GetHit(c)
      BY <3>1, <2>4, Zenon DEF GetHit, Goto, ConfirmInv, Answered, TypeOK
    <3>2. CASE RunLoaderStores(c)
      BY <3>2, <2>4, Zenon
         DEF RunLoaderStores, Goto, ConfirmInv, Answered, TypeOK, Result
    <3>3. ASSUME result' = result, Answered(d)' => Answered(d)
          PROVE  result'[d].kind # "none"
      BY <3>3, <2>4, Zenon DEF ConfirmInv
    <3>4. CASE Call(c) \/ GetMiss(c) \/ AcquireInflight(c) \/ JoinInflight(c)
               \/ Wake(c) \/ ReleaseInflight(c) \/ CloseChannel(c)
      BY <3>4, <3>3, Zenon
         DEF Call, GetMiss, AcquireInflight, JoinInflight, Wake,
             ReleaseInflight, CloseChannel, Goto, Answered, TypeOK
    <3> QED BY <3>1, <3>2, <3>4, <1>1, Zenon DEF CallerStep
  <2> QED
    BY <2>1, <2>2, <2>3, <2>4, <1>1, Zenon
       DEF ConfirmInv, ForwardedWasConfirmed, gwVars
<1>2. ASSUME NEW c \in Callers, VerifyAnswers(c) PROVE ConfirmInv'
  <2>1. /\ UNCHANGED <<entries, token, status>>
        /\ confirmed \subseteq confirmed'
        /\ \A d \in Callers \ {c} : result'[d] = result[d] /\ pc'[d] = pc[d]
        /\ result'[c].kind = "valid" => token[c] \in confirmed'
        /\ result'[c].kind # "none"
    BY <1>2 DEF VerifyAnswers, LoaderAnswers, Goto, TypeOK, cacheVars
  <2> QED BY <2>1, Zenon DEF ConfirmInv, ForwardedWasConfirmed, Answered
<1>3. ASSUME NEW c \in Callers, Decide(c) PROVE ConfirmInv'
  <2>1. /\ UNCHANGED <<entries, token, result, confirmed, pc>>
        /\ status' = [status EXCEPT ![c] = DecideOn(result[c].kind, token[c])]
        /\ Answered(c)
    BY <1>3, Zenon DEF Decide, vars, cacheVars, callVars, Answered
  <2>2. result[c].kind \in Kinds \ {"none"}
    BY <2>1, Zenon DEF TypeOK, Result, ConfirmInv
  <2>3. DecideOn(result[c].kind, token[c]) = "forward"
          => result[c].kind = "valid"
    BY <2>2, Zenon DEF DecideOn, RespondCode, Unwritten, Kinds
  <2> QED
    BY <2>1, <2>3, Zenon DEF ConfirmInv, ForwardedWasConfirmed, GwTypeOK, Answered
<1>4. ASSUME NEW c \in Callers, CollectorHangsUp(c) PROVE ConfirmInv'
  <2>1. /\ UNCHANGED <<entries, token, status, confirmed>>
        /\ \A d \in Callers \ {c} : result'[d] = result[d] /\ pc'[d] = pc[d]
        /\ result'[c].kind = "gone"
    BY <1>4, Zenon DEF CollectorHangsUp, WaitCancelled, Goto, TypeOK, cacheVars,
                gwVars
  <2> QED BY <2>1, Zenon DEF ConfirmInv, ForwardedWasConfirmed, Answered
<1>5. ASSUME UNCHANGED <<token, result, confirmed, pc>>,
             \A c \in Callers : status'[c] = "forward" => status[c] = "forward",
             \A u \in DOMAIN entries' :
                u \in DOMAIN entries /\ entries'[u] = entries[u]
      PROVE  ConfirmInv'
  BY <1>5, Zenon DEF ConfirmInv, ForwardedWasConfirmed, Answered
<1>6. ASSUME NEW c \in Callers, UpstreamReplies(c) PROVE ConfirmInv'
  <2>1. PICK code \in {"200", "401", "500"} :
          /\ status' = [status EXCEPT ![c] = code]
          /\ IF code = "401" THEN Invalidate(token[c]) ELSE UNCHANGED vars
    BY <1>6, ZenonT(60) DEF UpstreamReplies
  <2>2. CASE UNCHANGED vars
    BY <2>1, <2>2, <1>5, <1>6, Zenon
       DEF UpstreamReplies, vars, callVars, cacheVars, GwTypeOK
  <2>3. CASE Invalidate(token[c])
    BY <2>1, <2>3, <1>5, <1>6, DropContents, Zenon
       DEF UpstreamReplies, Invalidate, callVars, GwTypeOK
  <2> QED BY <2>1, <2>2, <2>3, Zenon
<1>7. ASSUME NEW c \in Callers,
             UpstreamStreamBreaks(c) \/ UpstreamFails(c) \/ RefuseEarly(c)
      PROVE  ConfirmInv'
  BY <1>5, <1>7, ZenonT(60)
     DEF UpstreamStreamBreaks, UpstreamFails, RefuseEarly, vars, callVars,
         cacheVars, GwTypeOK, RespondCode, Unwritten
<1>8. CASE (\E t \in Tokens : Deactivate(t)) \/ GwTick \/ UNCHANGED allVars
  BY <1>5, <1>8, Zenon
     DEF Deactivate, GwTick, Tick, allVars, gwVars, vars, callVars, cacheVars
<1> QED
  BY <1>1, <1>2, <1>3, <1>4, <1>6, <1>7, <1>8, Zenon
     DEF GwNext, RequestStep, CacheStep, GwFinished

\* handleProxy never forwards a request whose token longue-vue has not
\* confirmed, whatever interleaving of hits, joined calls, retries and
\* evictions led to its verdict (server.go:214-215).
THEOREM NothingUnconfirmedForwarded == GwSpec => []ForwardedWasConfirmed
<1>1. ConfirmInv => ForwardedWasConfirmed
  BY Zenon DEF ConfirmInv
<1> QED
  BY <1>1, ConfirmInit, ConfirmStep, GwTypeCorrect, PTL DEF GwSpec

-----------------------------------------------------------------------------
\* Why a revocation takes effect.  An answer "valid" was settled before the
\* token died, by a call that is at most LoadTimeout old when it is stored;
\* the entry it becomes lives PositiveTTL from then on.
RevokeInv ==
  /\ \A t \in DOMAIN entries : entries[t].Valid =>
        /\ entries[t].ExpiresAt <= deadSince[t] + PositiveTTL + LoadTimeout
        /\ entries[t].ExpiresAt <= now + PositiveTTL
  /\ \A c \in Callers : pc[c] = "loaded" /\ result[c].kind = "valid" =>
        started[c] <= deadSince[token[c]]
  /\ \A c \in Callers : pc[c] \in {"load", "loaded"} =>
        started[c] <= now /\ now <= started[c] + LoadTimeout

LEMMA RevokeInit == GwInit => RevokeInv
  BY Zenon DEF GwInit, Init, RevokeInv

LEMMA RevokeStep ==
  TypeOK /\ GwTypeOK /\ RevokeInv /\ [GwNext]_allVars => RevokeInv'
<1> SUFFICES ASSUME TypeOK, GwTypeOK, RevokeInv, [GwNext]_allVars
             PROVE  RevokeInv'
  BY Zenon
<1>t. /\ PositiveTTL \in Nat /\ LoadTimeout \in Nat /\ MaxTime \in Nat
      /\ now \in Nat /\ now <= MaxTime
      /\ \A t \in Tokens : deadSince[t] \in Nat
      /\ \A c \in Callers : started[c] \in Nat /\ token[c] \in Tokens
      /\ \A t \in DOMAIN entries : t \in Tokens /\ entries[t].ExpiresAt \in Nat
  BY CacheAssumption DEF CacheAssumption, TypeOK, GwTypeOK, Never, CachedToken
\* A step that adds no entry and leaves the loaders alone.
<1>1. ASSUME UNCHANGED <<now, deadSince, token>>,
             \A u \in DOMAIN entries' :
                u \in DOMAIN entries /\ entries'[u] = entries[u],
             \A c \in Callers : pc'[c] \in {"load", "loaded"} =>
                /\ pc'[c] = pc[c]
                /\ started'[c] = started[c]
                /\ result'[c] = result[c]
      PROVE  RevokeInv'
  BY <1>1, Zenon DEF RevokeInv
<1>2. ASSUME NEW c \in Callers, CallerStep(c), UNCHANGED gwVars
      PROVE  RevokeInv'
  <2>1. CASE RunLoaderStores(c)
    <3>1. /\ UNCHANGED <<now, token, deadSince>>
          /\ pc' = [pc EXCEPT ![c] = "release"]
          /\ \A d \in Callers \ {c} :
                started'[d] = started[d] /\ result'[d] = result[d]
      BY <2>1, <1>2, Zenon DEF RunLoaderStores, Goto, gwVars, TypeOK
    <3>2. ASSUME NEW u \in DOMAIN entries', entries'[u].Valid
          PROVE  /\ entries'[u].ExpiresAt
                       <= deadSince[u] + PositiveTTL + LoadTimeout
                 /\ entries'[u].ExpiresAt <= now + PositiveTTL
      <4>1. CASE result[c].kind = "valid"
        <5> DEFINE v == [Valid |-> TRUE,
                         ExpiresAt |-> PutValidUntil(result[c].exp)]
        <5>1. Put(token[c], v)
          BY <2>1, <4>1, Zenon DEF RunLoaderStores
        <5>2. PutValidUntil(result[c].exp) <= now + PositiveTTL
          BY <1>t DEF PutValidUntil, TypeOK, Result
        <5>3. PutValidUntil(result[c].exp) \in Nat
          BY <1>t DEF PutValidUntil, TypeOK, Result
        <5>4. now <= deadSince[token[c]] + LoadTimeout
          BY <2>1, <4>1, <1>t DEF RunLoaderStores, RevokeInv
        <5>5. PutValidUntil(result[c].exp)
                <= deadSince[token[c]] + PositiveTTL + LoadTimeout
          <6> DEFINE e == PutValidUntil(result[c].exp)
                     s == deadSince[token[c]]
          <6>1. e \in Nat /\ s \in Nat
            BY <5>3, <1>t, Zenon
          <6> HIDE DEF e, s
          <6> QED BY <6>1, <5>2, <5>4, <1>t DEF e, s
        <5>6. \/ u = token[c] /\ entries'[u] = v
              \/ u \in DOMAIN entries /\ entries'[u] = entries[u]
          BY <5>1, <3>2, PutContents, Zenon
        <5> QED BY <5>6, <5>2, <5>5, <3>2 DEF RevokeInv
      <4>2. CASE result[c].kind = "invalid"
        <5> DEFINE v == [Valid |-> FALSE, ExpiresAt |-> now + NegativeTTL]
        <5>1. Put(token[c], v)
          BY <2>1, <4>2, Zenon DEF RunLoaderStores
        <5>2. \/ u = token[c] /\ entries'[u] = v
              \/ u \in DOMAIN entries /\ entries'[u] = entries[u]
          BY <5>1, <3>2, PutContents, Zenon
        <5> QED BY <5>2, <3>2 DEF RevokeInv
      <4>3. CASE result[c].kind \notin {"valid", "invalid"}
        <5>1. entries' = entries
          BY <2>1, <4>3, Zenon DEF RunLoaderStores
        <5> QED BY <5>1, <3>2, Zenon DEF RevokeInv
      <4> QED BY <4>1, <4>2, <4>3, Zenon
    <3> QED
      BY <3>1, <3>2, Zenon DEF RevokeInv, TypeOK
  <2>2. CASE AcquireInflight(c)
    <3>1. /\ UNCHANGED <<now, token, deadSince, entries, result>>
          /\ pc' = [pc EXCEPT ![c] = "load"]
          /\ started' = [started EXCEPT ![c] = now]
      BY <2>2, <1>2, Zenon DEF AcquireInflight, Goto, gwVars
    <3> QED BY <3>1, <1>t DEF RevokeInv, TypeOK
  <2>3. CASE GetMiss(c)
    BY <2>3, <1>1, <1>2, DropContents, ZenonT(60) DEF GetMiss, Goto, gwVars, TypeOK
  <2>4. CASE Call(c) \/ GetHit(c) \/ JoinInflight(c) \/ Wake(c)
             \/ ReleaseInflight(c) \/ CloseChannel(c)
    BY <2>4, <1>1, <1>2
       DEF Call, GetHit, JoinInflight, Wake, ReleaseInflight, CloseChannel,
           Goto, gwVars, cacheVars, TypeOK
  <2> QED BY <2>1, <2>2, <2>3, <2>4, <1>2, Zenon DEF CallerStep
<1>3. ASSUME NEW c \in Callers, VerifyAnswers(c) PROVE RevokeInv'
  <2>1. /\ UNCHANGED <<now, token, deadSince, entries, started>>
        /\ pc[c] = "load"
        /\ pc' = [pc EXCEPT ![c] = "loaded"]
        /\ \A d \in Callers \ {c} : result'[d] = result[d]
        /\ result'[c].kind = "valid" => Active(token[c])
    BY <1>3 DEF VerifyAnswers, LoaderAnswers, Goto, cacheVars, TypeOK
  <2>2. Active(token[c]) => started[c] <= deadSince[token[c]]
    BY <1>t DEF Active, Never, TypeOK
  <2> QED BY <2>1, <2>2, Zenon DEF RevokeInv, TypeOK
<1>4. ASSUME NEW t \in Tokens, Deactivate(t) PROVE RevokeInv'
  <2>1. /\ UNCHANGED <<now, token, entries, started, pc, result>>
        /\ deadSince' = [deadSince EXCEPT ![t] = now]
    BY <1>4, Zenon DEF Deactivate, vars, cacheVars, callVars
  <2>2. ASSUME NEW u \in DOMAIN entries, entries[u].Valid
        PROVE  entries[u].ExpiresAt
                  <= deadSince'[u] + PositiveTTL + LoadTimeout
    BY <2>1, <2>2, <1>t DEF RevokeInv, GwTypeOK
  <2>3. ASSUME NEW c \in Callers, pc[c] = "loaded", result[c].kind = "valid"
        PROVE  started[c] <= deadSince'[token[c]]
    BY <2>1, <2>3, <1>t, Zenon DEF RevokeInv, GwTypeOK
  <2> QED BY <2>1, <2>2, <2>3, Zenon DEF RevokeInv
<1>5. ASSUME GwTick PROVE RevokeInv'
  <2>1. /\ UNCHANGED <<token, deadSince, entries, started, pc, result>>
        /\ now' = now + 1
        /\ \A c \in Callers :
              pc[c] \in {"load", "loaded"} => now < started[c] + LoadTimeout
    BY <1>5, Zenon DEF GwTick, Tick, cacheVars, callVars, gwVars
  <2>2. ASSUME NEW u \in DOMAIN entries, entries[u].Valid
        PROVE  entries[u].ExpiresAt <= now + 1 + PositiveTTL
    BY <2>2, <1>t DEF RevokeInv
  <2>3. ASSUME NEW c \in Callers, pc[c] \in {"load", "loaded"}
        PROVE  started[c] <= now + 1 /\ now + 1 <= started[c] + LoadTimeout
    BY <2>1, <2>3, <1>t DEF RevokeInv
  <2> QED BY <2>1, <2>2, <2>3, Zenon DEF RevokeInv
<1>6. ASSUME NEW c \in Callers, UpstreamReplies(c) PROVE RevokeInv'
  <2>1. CASE UNCHANGED vars
    BY <2>1, <1>1, <1>6, Zenon DEF UpstreamReplies, vars, callVars, cacheVars
  <2>2. CASE Invalidate(token[c])
    BY <2>2, <1>1, <1>6, DropContents, Zenon
       DEF UpstreamReplies, Invalidate, callVars
  <2> QED BY <2>1, <2>2, <1>6, Zenon DEF UpstreamReplies
<1>7. ASSUME NEW c \in Callers, CollectorHangsUp(c) PROVE RevokeInv'
  BY <1>1, <1>7, Zenon
     DEF CollectorHangsUp, WaitCancelled, Goto, gwVars, cacheVars, TypeOK
<1>8. ASSUME UNCHANGED <<vars, deadSince>> PROVE RevokeInv'
  BY <1>1, <1>8, Zenon DEF vars, callVars, cacheVars
<1> QED
  BY <1>2, <1>3, <1>4, <1>5, <1>6, <1>7, <1>8, Zenon
     DEF GwNext, RequestStep, CacheStep, GwFinished, Decide,
         UpstreamStreamBreaks, UpstreamFails, RefuseEarly, allVars, gwVars

\* Revoking a token at longue-vue takes effect at the gateway after at most
\* PositiveTTL plus one verify call, for any number of requests, tokens and
\* cache entries.
THEOREM RevocationHonoured == GwSpec => []RevocationEffective
<1>1. TypeOK /\ GwTypeOK /\ RevokeInv => RevocationEffective
  <2> SUFFICES ASSUME TypeOK, GwTypeOK, RevokeInv, NEW t \in Tokens,
                      now > deadSince[t] + PositiveTTL + LoadTimeout,
                      Fresh(t), entries[t].Valid
               PROVE  FALSE
    BY Zenon DEF RevocationEffective
  <2>1. /\ now \in Nat /\ deadSince[t] \in Nat /\ PositiveTTL \in Nat
        /\ LoadTimeout \in Nat /\ MaxTime \in Nat
        /\ entries[t].ExpiresAt \in Nat
    BY CacheAssumption
       DEF CacheAssumption, TypeOK, GwTypeOK, Never, CachedToken, Fresh, Cached
  <2>2. /\ entries[t].ExpiresAt <= deadSince[t] + PositiveTTL + LoadTimeout
        /\ now <= entries[t].ExpiresAt
    BY Zenon DEF RevokeInv, Fresh, Cached
  <2> QED BY <2>1, <2>2
<1> QED
  BY <1>1, RevokeInit, RevokeStep, GwTypeCorrect, PTL DEF GwSpec
=============================================================================
