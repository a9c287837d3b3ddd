---------------------------- MODULE AccessProofs ----------------------------
(***************************************************************************)
(* Theorems about Access and the limiter it composes, for every value of   *)
(* their constants.  The first part is about the hits of one key as values:*)
(* t is the time, p the process, hits are those let through, kept those the*)
(* memory backend remembers, c and e the counter of Redis and its expiry.  *)
(* The second part carries it over to the actions of RateLimit, the third  *)
(* to Access.                                                              *)
(***************************************************************************)
EXTENDS Access, FiniteSetTheorems, TLAPS, Facts

\* The hits are numbered as they come, and none lies in the future.
Numbered(hits, t) ==
  /\ IsFiniteSet(hits) /\ Cardinality(hits) \in Nat
  /\ hits \subseteq [at : Nat, nr : Nat, by : Nat]
  /\ \A h \in hits : h.nr <= Cardinality(hits) /\ h.at <= t

Near(hits, t, w)   == {h \in hits : t - h.at < w}
Since(hits, s)     == {h \in hits : h.at >= s}
Before(hits, s, w) == {h \in hits : s - w < h.at /\ h.at < s}

Of(hits, p)        == {h \in hits : h.by = p}

\* The memory backend remembers at least those hits of the window that its process
\* let through, and no process let through more than the limit.
MemoryKept(hits, kept, t, p, w, n) ==
  /\ kept \subseteq Of(hits, p) /\ Near(Of(hits, p), t, w) \subseteq kept
  /\ \A q \in Nat : Cardinality(Near(Of(hits, q), t, w)) <= n

\* A window of Redis began at s with a hit.  The counter tells how many were let
\* through since, up to the limit; those before lie in the tail of an earlier
\* window, which began with a hit too far back to count.
Begun(hits, s, t, c, e, w, n) ==
  /\ s <= t /\ c >= 1
  /\ e # NoExpiry => e = s + w /\ \A h \in hits : h.at < s + w
  /\ Cardinality(Since(hits, s)) = IF c <= n THEN c ELSE n
  /\ Cardinality(Before(hits, s, w)) <= n - 1
  /\ \E h \in hits : h.at = s

RedisKept(hits, t, c, e, w, n) ==
  \/ c = 0 /\ hits = {}
  \/ \E s \in Nat : Begun(hits, s, t, c, e, w, n)

\* The counter as a hit finds it.
Left(c, e, t) == IF e # NoExpiry /\ e <= t THEN 0 ELSE c

New(hits, t, p) == [at |-> t, nr |-> Cardinality(hits) + 1, by |-> p]

------------------------------------------------------------------------------
(* The hits of one key. *)

\* A part of a finite set of hits is finite and no larger.
LEMMA Part ==
  ASSUME NEW hits, IsFiniteSet(hits), NEW part, part \subseteq hits
  PROVE  /\ IsFiniteSet(part) /\ Cardinality(part) \in Nat
         /\ Cardinality(part) <= Cardinality(hits)
  BY FS_Subset, FS_CardinalityType

\* The next hit has a number of its own.
LEMMA NewHit ==
  ASSUME NEW t \in Nat, NEW p \in Nat, NEW hits, Numbered(hits, t)
  PROVE  /\ New(hits, t, p) \notin hits
         /\ Numbered(hits \cup {New(hits, t, p)}, t)
<1>1. New(hits, t, p) \in [at : Nat, nr : Nat, by : Nat]
  BY DEF New, Numbered
<1>2. New(hits, t, p) \notin hits
  BY DEF New, Numbered
<1>3. /\ IsFiniteSet(hits \cup {New(hits, t, p)})
      /\ Cardinality(hits \cup {New(hits, t, p)}) = Cardinality(hits) + 1
  BY <1>2, FS_AddElement DEF Numbered
<1>4. \A h \in hits \cup {New(hits, t, p)} : h.nr <= Cardinality(hits) + 1 /\ h.at <= t
  BY DEF New, Numbered
<1>. QED  BY <1>1, <1>2, <1>3, <1>4 DEF Numbered

\* A hit let through by the memory backend.
LEMMA MemoryAdmitted ==
  ASSUME NEW t \in Nat, NEW p \in Nat, NEW w \in Nat \ {0}, NEW n \in Nat \ {0}, NEW hits, NEW kept,
         Numbered(hits, t), MemoryKept(hits, kept, t, p, w, n),
         Cardinality(Near(kept, t, w)) < n
  PROVE  MemoryKept(hits \cup {New(hits, t, p)}, Near(kept, t, w) \cup {New(hits, t, p)}, t, p, w, n)
<1>. DEFINE new == New(hits, t, p)
            more == hits \cup {new}
            rest == Near(kept, t, w)
<1>1. new.at = t /\ t - new.at < w /\ new.by = p
  BY DEF New
<1>2. new \notin hits
  BY NewHit
<1>3. rest \subseteq hits /\ IsFiniteSet(rest) /\ Cardinality(rest) \in Nat
  BY Part DEF Near, Of, MemoryKept, Numbered
<1>4. Cardinality(rest \cup {new}) = Cardinality(rest) + 1
  BY <1>2, <1>3, FS_AddElement
<1>5. Of(more, p) = Of(hits, p) \cup {new}
  BY <1>1 DEF Of
<1>6. Near(Of(more, p), t, w) = rest \cup {new}
  BY <1>1, <1>5 DEF Near, MemoryKept
<1>7. rest \cup {new} \subseteq Of(more, p)
  BY <1>5 DEF Near, MemoryKept
<1>8. \A q \in Nat \ {p} : Of(more, q) = Of(hits, q)
  BY <1>1 DEF Of
<1>9. \A q \in Nat : Cardinality(Near(Of(more, q), t, w)) <= n
  <2>. HIDE DEF new, more, rest
  <2>1. Cardinality(Near(Of(more, p), t, w)) <= n
    BY <1>3, <1>4, <1>6 DEF rest
  <2>. QED  BY <1>8, <2>1 DEF MemoryKept
<1>. HIDE DEF new, more, rest
<1>10. MemoryKept(more, rest \cup {new}, t, p, w, n)
  BY <1>6, <1>7, <1>9 DEF MemoryKept
<1>. QED  BY <1>10 DEF new, more, rest

\* A refused hit: the memory backend forgets what left the window.
LEMMA MemoryRefused ==
  ASSUME NEW t \in Nat, NEW p \in Nat, NEW w \in Nat \ {0}, NEW n \in Nat \ {0}, NEW hits, NEW kept,
         MemoryKept(hits, kept, t, p, w, n)
  PROVE  MemoryKept(hits, Near(kept, t, w), t, p, w, n)
<1>1. /\ Near(Of(hits, p), t, w) \subseteq Near(kept, t, w)
      /\ Near(kept, t, w) \subseteq Of(hits, p)
  BY DEF Near, MemoryKept
<1>. QED  BY <1>1 DEF MemoryKept

\* Time passes: the window loses hits.
LEMMA MemoryLater ==
  ASSUME NEW t \in Nat, NEW p \in Nat, NEW w \in Nat \ {0}, NEW n \in Nat \ {0}, NEW hits, NEW kept,
         Numbered(hits, t), MemoryKept(hits, kept, t, p, w, n)
  PROVE  MemoryKept(hits, kept, t + 1, p, w, n)
<1>1. \A h \in hits : h.at \in Nat
  BY DEF Numbered
<1>2. ASSUME NEW q \in Nat
      PROVE  /\ Near(Of(hits, q), t + 1, w) \subseteq Near(Of(hits, q), t, w)
             /\ Cardinality(Near(Of(hits, q), t + 1, w)) <= n
  <2>1. /\ Near(Of(hits, q), t + 1, w) \subseteq Near(Of(hits, q), t, w)
        /\ Near(Of(hits, q), t, w) \subseteq hits
    BY <1>1 DEF Near, Of
  <2>2. /\ IsFiniteSet(Near(Of(hits, q), t, w)) /\ Cardinality(Near(Of(hits, q), t, w)) \in Nat
        /\ Cardinality(Near(Of(hits, q), t + 1, w)) \in Nat
        /\ Cardinality(Near(Of(hits, q), t + 1, w)) <= Cardinality(Near(Of(hits, q), t, w))
    BY <2>1, Part DEF Numbered
  <2>3. Cardinality(Near(Of(hits, q), t, w)) <= n
    BY DEF MemoryKept
  <2>. QED  BY <2>1, <2>2, <2>3
<1>3. Near(Of(hits, p), t + 1, w) \subseteq kept
  BY <1>2 DEF MemoryKept
<1>. QED  BY <1>2, <1>3 DEF MemoryKept

\* The next process remembers nothing, and has let nothing through.
LEMMA MemoryForgotten ==
  ASSUME NEW t \in Nat, NEW p \in Nat, NEW w \in Nat \ {0}, NEW n \in Nat \ {0}, NEW hits, NEW kept,
         \A h \in hits : h.by \in Nat /\ h.by <= p, MemoryKept(hits, kept, t, p, w, n)
  PROVE  MemoryKept(hits, {}, t, p + 1, w, n)
<1>1. Of(hits, p + 1) = {}
  BY DEF Of
<1>2. Near(Of(hits, p + 1), t, w) = {}
  BY <1>1 DEF Near
<1>. QED  BY <1>2 DEF MemoryKept

------------------------------------------------------------------------------
(* The counter of one key. *)

\* The first hit of a window, whether or not the process lives to set the expiry.
LEMMA RedisBegins ==
  ASSUME NEW t \in Nat, NEW p \in Nat, NEW w \in Nat \ {0}, NEW n \in Nat \ {0}, NEW hits, NEW c \in Nat,
         NEW e \in Nat \cup {NoExpiry}, NEW later \in {NoExpiry, t + w},
         Numbered(hits, t), RedisKept(hits, t, c, e, w, n), Left(c, e, t) = 0
  PROVE  RedisKept(hits \cup {New(hits, t, p)}, t, 1, later, w, n)
<1>. DEFINE new == New(hits, t, p)
            more == hits \cup {new}
<1>1. new.at = t /\ new \notin hits
  BY NewHit DEF New
<1>2. /\ \A h \in hits : h.at \in Nat /\ h.at < t
      /\ IsFiniteSet(Before(hits, t, w)) /\ Cardinality(Before(hits, t, w)) \in Nat
      /\ Cardinality(Before(hits, t, w)) <= n - 1
  <2>1. CASE c = 0 /\ hits = {}
    <3>1. Before(hits, t, w) = {}
      BY <2>1 DEF Before
    <3>. QED  BY <2>1, <3>1, FS_EmptySet
  <2>2. ASSUME NEW s \in Nat, Begun(hits, s, t, c, e, w, n)
        PROVE  /\ \A h \in hits : h.at \in Nat /\ h.at < t
               /\ IsFiniteSet(Before(hits, t, w)) /\ Cardinality(Before(hits, t, w)) \in Nat
               /\ Cardinality(Before(hits, t, w)) <= n - 1
    <3>1. c >= 1 /\ e # NoExpiry /\ e <= t
      BY <2>2 DEF Begun, Left
    <3>2. e = s + w /\ \A h \in hits : h.at < s + w
      BY <2>2, <3>1 DEF Begun
    <3>3. \A h \in hits : h.at \in Nat /\ h.at < t
      BY <3>1, <3>2 DEF Numbered
    <3>4. PICK first \in hits : first.at = s
      BY <2>2 DEF Begun
    <3>5. Before(hits, t, w) \subseteq Since(hits, s) \ {first}
      BY <3>1, <3>2, <3>3, <3>4 DEF Before, Since
    <3>6. /\ Since(hits, s) \subseteq hits /\ first \in Since(hits, s)
          /\ Cardinality(Since(hits, s)) <= n
      BY <2>2, <3>4 DEF Since, Begun
    <3>7. IsFiniteSet(Since(hits, s)) /\ Cardinality(Since(hits, s)) \in Nat
      BY <3>6, Part DEF Numbered
    <3>8. /\ IsFiniteSet(Since(hits, s) \ {first})
          /\ Cardinality(Since(hits, s) \ {first}) = Cardinality(Since(hits, s)) - 1
      BY <3>6, <3>7, FS_RemoveElement
    <3>9. /\ IsFiniteSet(Before(hits, t, w)) /\ Cardinality(Before(hits, t, w)) \in Nat
          /\ Cardinality(Before(hits, t, w)) <= Cardinality(Since(hits, s) \ {first})
      BY <3>5, <3>8, Part
    <3>. QED  BY <3>2, <3>3, <3>6, <3>7, <3>8, <3>9
  <2>. QED  BY <2>1, <2>2 DEF RedisKept
<1>3. Since(more, t) = {new}
  BY <1>1, <1>2 DEF Since
<1>4. Before(more, t, w) = Before(hits, t, w)
  BY <1>1 DEF Before
<1>5. Cardinality(Since(more, t)) = 1
  BY <1>3, FS_Singleton
<1>6. \A h \in more : h.at < t + w
  BY <1>1, <1>2
<1>7. Begun(more, t, t, 1, later, w, n)
  <2>. HIDE DEF more, new
  <2>1. \E h \in more : h.at = t
    BY <1>1 DEF more
  <2>. QED  BY <1>2, <1>4, <1>5, <1>6, <2>1 DEF Begun
<1>. HIDE DEF more, new
<1>8. RedisKept(more, t, 1, later, w, n)
  BY <1>7 DEF RedisKept
<1>. QED  BY <1>2, <1>8 DEF more, new

\* A hit inside a window, let through or refused.
LEMMA RedisGoesOn ==
  ASSUME NEW t \in Nat, NEW p \in Nat, NEW w \in Nat \ {0}, NEW n \in Nat \ {0}, NEW hits, NEW c \in Nat,
         NEW e \in Nat \cup {NoExpiry},
         Numbered(hits, t), RedisKept(hits, t, c, e, w, n), Left(c, e, t) # 0
  PROVE  RedisKept(IF c < n THEN hits \cup {New(hits, t, p)} ELSE hits, t, c + 1, e, w, n)
<1>. DEFINE new == New(hits, t, p)
            more == hits \cup {new}
<1>1. c # 0 /\ ~(e # NoExpiry /\ e <= t)
  BY DEF Left
<1>2. PICK s \in Nat : Begun(hits, s, t, c, e, w, n)
  BY <1>1 DEF RedisKept
<1>6. e # NoExpiry => t < s + w
  BY <1>1, <1>2 DEF Begun, NoExpiry
<1>3. new.at = t /\ new \notin hits
  BY NewHit DEF New
<1>4. CASE c < n
  <2>1. Since(more, s) = Since(hits, s) \cup {new} /\ new \notin Since(hits, s)
    BY <1>2, <1>3 DEF Since, Begun
  <2>2. IsFiniteSet(Since(hits, s)) /\ Cardinality(Since(hits, s)) = c
    BY <1>2, <1>4, Part DEF Since, Begun, Numbered
  <2>3. Cardinality(Since(more, s)) = c + 1
    BY <2>1, <2>2, FS_AddElement
  <2>4. Before(more, s, w) = Before(hits, s, w)
    BY <1>2, <1>3 DEF Before, Begun
  <2>5. e # NoExpiry => \A h \in more : h.at < s + w
    BY <1>2, <1>3, <1>6 DEF Begun
  <2>6. \E h \in more : h.at = s
    BY <1>2 DEF Begun
  <2>. HIDE DEF more, new
  <2>7. Begun(more, s, t, c + 1, e, w, n)
    BY <1>2, <1>4, <2>3, <2>4, <2>5, <2>6 DEF Begun
  <2>8. RedisKept(more, t, c + 1, e, w, n)
    BY <2>7 DEF RedisKept
  <2>. QED  BY <1>4, <2>8 DEF more, new
<1>5. CASE ~(c < n)
  <2>1. Begun(hits, s, t, c + 1, e, w, n)
    BY <1>2, <1>5 DEF Begun
  <2>. QED  BY <1>5, <2>1 DEF RedisKept
<1>. QED  BY <1>4, <1>5

\* Time passes: nothing changes in Redis until the next hit.
LEMMA RedisLater ==
  ASSUME NEW t \in Nat, NEW w \in Nat \ {0}, NEW n \in Nat \ {0}, NEW hits, NEW c \in Nat,
         NEW e \in Nat \cup {NoExpiry},
         RedisKept(hits, t, c, e, w, n)
  PROVE  RedisKept(hits, t + 1, c, e, w, n)
<1>1. \A s \in Nat : Begun(hits, s, t, c, e, w, n) => Begun(hits, s, t + 1, c, e, w, n)
  BY DEF Begun
<1>. QED  BY <1>1 DEF RedisKept

\* Two windows of Redis inside one: one less than twice the limit.
LEMMA RedisBound ==
  ASSUME NEW t \in Nat, NEW w \in Nat \ {0}, NEW n \in Nat \ {0}, NEW hits, NEW c \in Nat,
         NEW e \in Nat \cup {NoExpiry},
         Numbered(hits, t), RedisKept(hits, t, c, e, w, n)
  PROVE  Cardinality(Near(hits, t, w)) <= 2 * n - 1
<1>1. CASE hits = {}
  <2>1. Near(hits, t, w) = {}
    BY <1>1 DEF Near
  <2>. QED  BY <2>1, FS_EmptySet
<1>2. ASSUME NEW s \in Nat, Begun(hits, s, t, c, e, w, n)
      PROVE  Cardinality(Near(hits, t, w)) <= 2 * n - 1
  <2>1. Near(hits, t, w) \subseteq Since(hits, s) \cup Before(hits, s, w)
    BY <1>2 DEF Near, Since, Before, Begun, Numbered
  <2>2. /\ IsFiniteSet(Since(hits, s)) /\ Cardinality(Since(hits, s)) \in Nat
        /\ IsFiniteSet(Before(hits, s, w)) /\ Cardinality(Before(hits, s, w)) \in Nat
    BY Part DEF Since, Before, Numbered
  <2>3. Cardinality(Since(hits, s)) <= n /\ Cardinality(Before(hits, s, w)) <= n - 1
    BY <1>2 DEF Begun
  <2>4. /\ IsFiniteSet(Since(hits, s) \cup Before(hits, s, w))
        /\ Cardinality(Since(hits, s) \cup Before(hits, s, w))
             = Cardinality(Since(hits, s)) + Cardinality(Before(hits, s, w))
               - Cardinality(Since(hits, s) \cap Before(hits, s, w))
    BY <2>2, FS_Union
  <2>5. Since(hits, s) \cap Before(hits, s, w) = {}
    BY DEF Since, Before, Numbered
  <2>6. Cardinality(Since(hits, s) \cap Before(hits, s, w)) = 0
    BY <2>5, FS_EmptySet
  <2>7. /\ Cardinality(Near(hits, t, w)) \in Nat
        /\ Cardinality(Near(hits, t, w)) <= Cardinality(Since(hits, s) \cup Before(hits, s, w))
    BY <2>1, <2>4, Part
  <2>. QED  BY <2>2, <2>3, <2>4, <2>6, <2>7
<1>. QED  BY <1>1, <1>2 DEF RedisKept

\* A counter that refuses and will expire has let the limit through in the window.
LEMMA RedisCause ==
  ASSUME NEW t \in Nat, NEW w \in Nat \ {0}, NEW n \in Nat \ {0}, NEW hits, NEW c \in Nat,
         NEW e \in Nat,
         Numbered(hits, t), RedisKept(hits, t, c, e, w, n), ~(Left(c, e, t) < n)
  PROVE  Cardinality(Near(hits, t, w)) >= n
<1>1. c >= n /\ c # 0 /\ ~(e # NoExpiry /\ e <= t)
  BY DEF Left
<1>2. PICK s \in Nat : Begun(hits, s, t, c, e, w, n)
  <2>. QED  BY <1>1 DEF RedisKept
<1>3. t < s + w
  BY <1>1, <1>2 DEF Begun, NoExpiry
<1>4. Cardinality(Since(hits, s)) = n
  BY <1>1, <1>2 DEF Begun
<1>5. Since(hits, s) \subseteq Near(hits, t, w)
  BY <1>3 DEF Since, Near, Numbered
<1>6. IsFiniteSet(Near(hits, t, w)) /\ Cardinality(Near(hits, t, w)) \in Nat
  BY Part DEF Near, Numbered
<1>7. Cardinality(Since(hits, s)) <= Cardinality(Near(hits, t, w))
  BY <1>5, <1>6, Part
<1>. QED  BY <1>4, <1>6, <1>7

------------------------------------------------------------------------------
(* The actions. *)

KeyKept(k, t, b, p, kept, hits, c, e) ==
  /\ Numbered(hits, t)
  /\ \A h \in hits : h.by <= p
  /\ b = "memory" => MemoryKept(hits, kept, t, p, Window(k), Limit(k))
  /\ b = "redis" => RedisKept(hits, t, c, e, Window(k), Limit(k))

\* The keys whose expiry was lost are those whose counter has none.
CutKnown ==
  \A k \in Keys : backend = "redis" =>
    /\ k \in cut => count[k] > 0
    /\ count[k] > 0 => (k \in cut <=> expires[k] = NoExpiry)

\* The inductive invariant of the limiter.
RateInv ==
  /\ RateTypeOK
  /\ \A k \in Keys : KeyKept(k, now, backend, process, attempts[k], admitted[k], count[k], expires[k])
  /\ CutKnown

\* What a request or the passing of time may do to the limiter.
RateStep ==
  \/ \E k \in Keys : Hit(k) \/ CutHit(k) \/ Clear(k)
  \/ Rebuild
  \/ Tick /\ UNCHANGED <<backend, attempts, count, expires, process, admitted, cut>>
  \/ UNCHANGED rateVars

\* Limits and windows are positive.
LEMMA Bounds ==
  ASSUME NEW k \in Keys
  PROVE  Limit(k) \in Nat \ {0} /\ Window(k) \in Nat \ {0}
  BY RateAssumption DEF Limit, Window

\* A process that starts first has counted nothing.
LEMMA RateStarts == RateInit => RateInv
<1>. SUFFICES ASSUME RateInit
             PROVE  RateInv
  OBVIOUS
<1>1. RateTypeOK
  BY RateAssumption DEF RateInit, RateTypeOK, NoExpiry
<1>2. ASSUME NEW k \in Keys
      PROVE  KeyKept(k, now, backend, process, attempts[k], admitted[k], count[k], expires[k])
  <2>1. /\ attempts[k] = {} /\ admitted[k] = {} /\ count[k] = 0 /\ k \notin cut /\ now = 0
        /\ Limit(k) \in Nat
    BY <1>2, Bounds DEF RateInit
  <2>2. Numbered({}, 0)
    BY FS_EmptySet DEF Numbered
  <2>3. MemoryKept({}, {}, 0, process, Window(k), Limit(k))
    <3>1. \A q \in Nat : Near(Of({}, q), 0, Window(k)) = {} /\ Of({}, q) = {}
      BY DEF Near, Of
    <3>2. process \in Nat
      BY DEF RateInit
    <3>. QED  BY <2>1, <3>1, <3>2, FS_EmptySet DEF MemoryKept
  <2>4. RedisKept({}, 0, 0, expires[k], Window(k), Limit(k))
    BY DEF RedisKept
  <2>. QED  BY <2>1, <2>2, <2>3, <2>4 DEF KeyKept
<1>3. CutKnown
  BY DEF RateInit, CutKnown
<1>. QED  BY <1>1, <1>2, <1>3 DEF RateInv

\* A key that a step leaves alone.
LEMMA Untouched ==
  ASSUME RateInv, NEW j \in Keys, now' = now, backend' = backend, process' = process,
         attempts'[j] = attempts[j], admitted'[j] = admitted[j], count'[j] = count[j],
         expires'[j] = expires[j]
  PROVE  KeyKept(j, now', backend', process', attempts'[j], admitted'[j], count'[j], expires'[j])
  BY DEF RateInv

\* A counted attempt keeps the invariant, with either backend.
LEMMA HitKept ==
  ASSUME RateInv, NEW k \in Keys, Hit(k)
  PROVE  RateInv'
<1>. DEFINE t == now
            hits == admitted[k]
            p == process
            new == New(hits, t, p)
<1>1. /\ t \in Nat /\ t \in 0..MaxTime /\ p \in Nat /\ p \in 0..MaxRestarts
      /\ Limit(k) \in Nat \ {0} /\ Window(k) \in Nat \ {0}
      /\ count[k] \in Nat /\ expires[k] \in Nat \cup {NoExpiry}
      /\ attempts[k] \in SUBSET HitRow /\ hits \in SUBSET HitRow
  BY Bounds, RateAssumption DEF RateInv, RateTypeOK
<1>2. /\ Numbered(hits, t) /\ \A h \in hits : h.by <= p
      /\ backend = "memory" => MemoryKept(hits, attempts[k], t, p, Window(k), Limit(k))
      /\ backend = "redis" =>
           RedisKept(hits, t, count[k], expires[k], Window(k), Limit(k))
  BY DEF RateInv, KeyKept
<1>3. HitNow(k) = new /\ new \in HitRow /\ Numbered(hits \cup {new}, t)
  <2>1. HitNow(k) = new
    BY DEF HitNow, New
  <2>2. Cardinality(hits) + 1 \in Nat
    BY <1>2 DEF Numbered
  <2>3. new \in HitRow
    BY <1>1, <2>2 DEF New, HitRow
  <2>. QED  BY <1>1, <1>2, <2>1, <2>3, NewHit
<1>4. /\ now' = now /\ backend' = backend /\ process' = process /\ cut' = cut
      /\ admitted' = [admitted EXCEPT ![k] = IF Admits(k) THEN hits \cup {new} ELSE hits]
  BY <1>3 DEF Hit, Note, MemoryHit, RedisHit
<1>5. admitted' \in [Keys -> SUBSET HitRow]
      /\ admitted'[k] = IF Admits(k) THEN hits \cup {new} ELSE hits
  BY <1>1, <1>3, <1>4 DEF RateInv, RateTypeOK
<1>6. Numbered(admitted'[k], t) /\ \A h \in admitted'[k] : h.by <= p
  BY <1>1, <1>2, <1>3, <1>5 DEF New
<1>7. CASE MemoryHit(k)
  <2>1. Recent(k) = Near(attempts[k], t, Window(k))
    BY DEF Recent, Within, Near
  <2>2. /\ backend = "memory" /\ count' = count /\ expires' = expires
        /\ attempts' = [attempts EXCEPT ![k] = IF Admits(k) THEN Recent(k) \cup {new} ELSE Recent(k)]
    BY <1>3, <1>7 DEF MemoryHit
  <2>3. Recent(k) \in SUBSET HitRow
    BY <1>1 DEF Recent, Within
  <2>4. attempts' \in [Keys -> SUBSET HitRow]
        /\ attempts'[k] = IF Admits(k) THEN Recent(k) \cup {new} ELSE Recent(k)
    BY <1>3, <2>2, <2>3 DEF RateInv, RateTypeOK
  <2>5. MemoryKept(admitted'[k], attempts'[k], t, p, Window(k), Limit(k))
    <3>1. CASE Admits(k)
      <4>1. Cardinality(Near(attempts[k], t, Window(k))) < Limit(k)
        BY <2>1, <2>2, <3>1 DEF Admits
      <4>2. MemoryKept(hits \cup {new}, Near(attempts[k], t, Window(k)) \cup {new}, t, p, Window(k), Limit(k))
        BY <1>1, <1>2, <2>2, <4>1, MemoryAdmitted
      <4>. QED  BY <1>5, <2>1, <2>4, <3>1, <4>2
    <3>2. CASE ~Admits(k)
      <4>1. MemoryKept(hits, Near(attempts[k], t, Window(k)), t, p, Window(k), Limit(k))
        BY <1>1, <1>2, <2>2, MemoryRefused
      <4>. QED  BY <1>5, <2>1, <2>4, <3>2, <4>1
    <3>. QED  BY <3>1, <3>2
  <2>6. RateTypeOK'
    BY <1>4, <1>5, <2>2, <2>4 DEF RateInv, RateTypeOK
  <2>7. KeyKept(k, now', backend', process', attempts'[k], admitted'[k], count'[k], expires'[k])
    BY <1>4, <1>6, <2>2, <2>5 DEF KeyKept
  <2>8. ASSUME NEW j \in Keys, j # k
        PROVE  attempts'[j] = attempts[j] /\ admitted'[j] = admitted[j]
    BY <1>4, <2>2, <2>8 DEF RateInv, RateTypeOK
  <2>9. \A j \in Keys \ {k} :
          KeyKept(j, now', backend', process', attempts'[j], admitted'[j], count'[j], expires'[j])
    BY <1>4, <2>2, <2>8, Untouched
  <2>10. CutKnown'
    BY <1>4, <2>2 DEF RateInv, CutKnown
  <2>. QED  BY <2>6, <2>7, <2>9, <2>10 DEF RateInv
<1>8. CASE RedisHit(k)
  <2>1. /\ backend = "redis" /\ attempts' = attempts
        /\ count' = [count EXCEPT ![k] = Standing(k) + 1]
        /\ expires' = [expires EXCEPT ![k] = IF Standing(k) = 0 THEN t + Window(k) ELSE expires[k]]
    BY <1>8 DEF RedisHit, Increment
  <2>2. Standing(k) = Left(count[k], expires[k], t) /\ Standing(k) \in Nat
    BY <1>1 DEF Standing, Left
  <2>3. count' \in [Keys -> Nat] /\ count'[k] = Standing(k) + 1
    BY <2>1, <2>2 DEF RateInv, RateTypeOK
  <2>4. /\ expires' \in [Keys -> Nat \cup {NoExpiry}]
        /\ expires'[k] = IF Standing(k) = 0 THEN t + Window(k) ELSE expires[k]
    BY <1>1, <2>1 DEF RateInv, RateTypeOK
  <2>5. RedisKept(admitted'[k], t, count'[k], expires'[k], Window(k), Limit(k))
    <3>1. CASE Standing(k) = 0
      <4>1. Admits(k)
        BY <1>1, <2>1, <3>1 DEF Admits
      <4>2. RedisKept(hits \cup {new}, t, 1, t + Window(k), Window(k), Limit(k))
        BY <1>1, <1>2, <2>1, <2>2, <3>1, RedisBegins
      <4>. QED  BY <1>5, <2>3, <2>4, <3>1, <4>1, <4>2
    <3>2. CASE Standing(k) # 0
      <4>1. Standing(k) = count[k] /\ (Admits(k) <=> count[k] < Limit(k))
        BY <2>1, <3>2 DEF Standing, Admits
      <4>2. RedisKept(IF count[k] < Limit(k) THEN hits \cup {new} ELSE hits, t, count[k] + 1,
                      expires[k], Window(k), Limit(k))
        BY <1>1, <1>2, <2>1, <2>2, <3>2, RedisGoesOn
      <4>. QED  BY <1>5, <2>3, <2>4, <3>2, <4>1, <4>2
    <3>. QED  BY <3>1, <3>2
  <2>6. RateTypeOK'
    BY <1>4, <1>5, <2>1, <2>3, <2>4 DEF RateInv, RateTypeOK
  <2>7. KeyKept(k, now', backend', process', attempts'[k], admitted'[k], count'[k], expires'[k])
    BY <1>4, <1>6, <2>1, <2>5 DEF KeyKept
  <2>8. ASSUME NEW j \in Keys, j # k
        PROVE  count'[j] = count[j] /\ expires'[j] = expires[j] /\ admitted'[j] = admitted[j]
    BY <1>4, <2>1, <2>8 DEF RateInv, RateTypeOK
  <2>9. \A j \in Keys \ {k} :
          KeyKept(j, now', backend', process', attempts'[j], admitted'[j], count'[j], expires'[j])
    BY <1>4, <2>1, <2>8, Untouched
  <2>10. CutKnown'
    <3>1. k \in cut => Standing(k) # 0
      BY <1>1, <2>1 DEF RateInv, CutKnown, Standing
    <3>2. /\ k \in cut' => count'[k] > 0
          /\ k \in cut' <=> expires'[k] = NoExpiry
      <4>1. CASE Standing(k) = 0
        BY <1>1, <1>4, <2>3, <2>4, <3>1, <4>1 DEF NoExpiry
      <4>2. CASE Standing(k) # 0
        <5>1. Standing(k) = count[k] /\ count[k] > 0
          BY <1>1, <4>2 DEF Standing
        <5>. QED  BY <1>1, <1>4, <2>1, <2>3, <2>4, <4>2, <5>1 DEF RateInv, CutKnown
      <4>. QED  BY <4>1, <4>2
    <3>3. \A j \in Keys \ {k} : count'[j] = count[j] /\ expires'[j] = expires[j]
      BY <2>8
    <3>. QED  BY <1>4, <2>1, <3>2, <3>3 DEF RateInv, CutKnown
  <2>. QED  BY <2>6, <2>7, <2>9, <2>10 DEF RateInv
<1>. QED  BY <1>7, <1>8 DEF Hit

\* So does one that is cut off between INCR and EXPIRE.
LEMMA CutHitKept ==
  ASSUME RateInv, NEW k \in Keys, CutHit(k)
  PROVE  RateInv'
<1>. DEFINE t == now
            hits == admitted[k]
            p == process
            new == New(hits, t, p)
<1>1. /\ t \in Nat /\ t \in 0..MaxTime /\ p \in Nat /\ p \in 0..MaxRestarts
      /\ Limit(k) \in Nat \ {0} /\ Window(k) \in Nat \ {0}
      /\ count[k] \in Nat /\ expires[k] \in Nat \cup {NoExpiry}
      /\ hits \in SUBSET HitRow
  BY Bounds, RateAssumption DEF RateInv, RateTypeOK
<1>2. /\ backend = "redis" /\ Standing(k) = 0 /\ attempts' = attempts /\ Note(k)
      /\ count' = [count EXCEPT ![k] = Standing(k) + 1]
      /\ expires' = [expires EXCEPT ![k] = NoExpiry]
      /\ cut' = cut \cup {k} /\ now' = now /\ backend' = backend /\ process' = process
  BY DEF CutHit, Increment
<1>3. /\ Numbered(hits, t) /\ \A h \in hits : h.by <= p
      /\ RedisKept(hits, t, count[k], expires[k], Window(k), Limit(k))
  BY <1>2 DEF RateInv, KeyKept
<1>4. HitNow(k) = new /\ new \in HitRow /\ Numbered(hits \cup {new}, t)
  <2>1. HitNow(k) = new
    BY DEF HitNow, New
  <2>2. Cardinality(hits) + 1 \in Nat
    BY <1>3 DEF Numbered
  <2>3. new \in HitRow
    BY <1>1, <2>2 DEF New, HitRow
  <2>. QED  BY <1>1, <1>3, <2>1, <2>3, NewHit
<1>5. Admits(k)
  BY <1>1, <1>2 DEF Admits
<1>6. admitted' = [admitted EXCEPT ![k] = hits \cup {new}]
  BY <1>2, <1>4, <1>5 DEF Note
<1>7. /\ admitted' \in [Keys -> SUBSET HitRow] /\ admitted'[k] = hits \cup {new}
      /\ count' \in [Keys -> Nat] /\ count'[k] = 1
      /\ expires' \in [Keys -> Nat \cup {NoExpiry}] /\ expires'[k] = NoExpiry
  BY <1>1, <1>2, <1>4, <1>6 DEF RateInv, RateTypeOK
<1>8. Left(count[k], expires[k], t) = 0
  BY <1>2 DEF Standing, Left
<1>9. RedisKept(hits \cup {new}, t, 1, NoExpiry, Window(k), Limit(k))
  BY <1>1, <1>3, <1>8, RedisBegins
<1>11. KeyKept(k, now', backend', process', attempts'[k], admitted'[k], count'[k], expires'[k])
  <2>1. \A h \in admitted'[k] : h.by <= p
    BY <1>1, <1>3, <1>7 DEF New
  <2>. QED  BY <1>2, <1>4, <1>7, <1>9, <2>1 DEF KeyKept
<1>12. RateTypeOK'
  BY <1>2, <1>7 DEF RateInv, RateTypeOK
<1>13. ASSUME NEW j \in Keys, j # k
       PROVE  /\ count'[j] = count[j] /\ expires'[j] = expires[j] /\ admitted'[j] = admitted[j]
              /\ j \in cut' <=> j \in cut
  BY <1>2, <1>6, <1>13 DEF RateInv, RateTypeOK
<1>14. \A j \in Keys \ {k} :
         KeyKept(j, now', backend', process', attempts'[j], admitted'[j], count'[j], expires'[j])
  BY <1>2, <1>13, Untouched
<1>15. CutKnown'
  BY <1>2, <1>7, <1>13 DEF RateInv, CutKnown
<1>. QED  BY <1>11, <1>12, <1>14, <1>15 DEF RateInv

\* A key without hits, as after clear.
LEMMA Fresh ==
  ASSUME NEW k \in Keys, NEW t \in Nat, NEW b, NEW p \in Nat, NEW e
  PROVE  KeyKept(k, t, b, p, {}, {}, 0, e)
<1>1. Numbered({}, t)
  BY FS_EmptySet DEF Numbered
<1>2. \A q \in Nat : Near(Of({}, q), t, Window(k)) = {} /\ Of({}, q) = {}
  BY DEF Near, Of
<1>3. Limit(k) \in Nat
  BY Bounds
<1>4. MemoryKept({}, {}, t, p, Window(k), Limit(k))
  BY <1>2, <1>3, FS_EmptySet DEF MemoryKept
<1>. QED  BY <1>1, <1>4 DEF KeyKept, RedisKept

\* So does clearing a key.
LEMMA ClearKept ==
  ASSUME RateInv, NEW k \in Keys, Clear(k)
  PROVE  RateInv'
<1>1. RateTypeOK'
  BY DEF RateInv, RateTypeOK, Clear
<1>2. /\ attempts'[k] = {} /\ admitted'[k] = {} /\ count'[k] = 0 /\ k \notin cut'
      /\ now' = now /\ backend' = backend /\ process' = process /\ now \in Nat /\ process \in Nat
  BY DEF RateInv, RateTypeOK, Clear
<1>3. KeyKept(k, now', backend', process', attempts'[k], admitted'[k], count'[k], expires'[k])
  <2>1. KeyKept(k, now, backend, process, {}, {}, 0, expires'[k])
    BY <1>2, Fresh
  <2>. QED  BY <1>2, <2>1
<1>4. ASSUME NEW j \in Keys, j # k
      PROVE  /\ attempts'[j] = attempts[j] /\ admitted'[j] = admitted[j] /\ count'[j] = count[j]
             /\ expires'[j] = expires[j]
             /\ j \in cut' <=> j \in cut
  BY <1>4 DEF RateInv, RateTypeOK, Clear
<1>5. \A j \in Keys \ {k} :
        KeyKept(j, now', backend', process', attempts'[j], admitted'[j], count'[j], expires'[j])
  BY <1>2, <1>4, Untouched
<1>6. CutKnown'
  BY <1>2, <1>4 DEF RateInv, CutKnown
<1>. QED  BY <1>1, <1>3, <1>5, <1>6 DEF RateInv

\* So does a new process.
LEMMA RebuildKept ==
  ASSUME RateInv, Rebuild
  PROVE  RateInv'
<1>1. RateTypeOK'
  BY RateAssumption DEF RateInv, RateTypeOK, Rebuild
<1>2. /\ now' = now /\ backend' = backend /\ count' = count /\ expires' = expires /\ cut' = cut
      /\ admitted' = admitted /\ process' = process + 1
      /\ backend \in {"memory", "redis"} /\ now \in Nat /\ process \in Nat
  BY DEF RateInv, RateTypeOK, Rebuild
<1>3. ASSUME NEW k \in Keys
      PROVE  KeyKept(k, now', backend', process', attempts'[k], admitted'[k], count'[k], expires'[k])
  <2>1. /\ KeyKept(k, now, backend, process, attempts[k], admitted[k], count[k], expires[k])
        /\ Limit(k) \in Nat \ {0} /\ Window(k) \in Nat \ {0} /\ attempts'[k] = {}
    BY Bounds DEF RateInv, Rebuild
  <2>2. Numbered(admitted[k], now) /\ \A h \in admitted[k] : h.by \in Nat /\ h.by <= process
    BY <2>1 DEF KeyKept, Numbered
  <2>3. \A h \in admitted[k] : h.by <= process + 1
    BY <1>2, <2>2
  <2>4. backend = "memory" =>
          MemoryKept(admitted[k], {}, now, process + 1, Window(k), Limit(k))
    BY <1>2, <2>1, <2>2, MemoryForgotten DEF KeyKept
  <2>. QED  BY <1>2, <2>1, <2>2, <2>3, <2>4 DEF KeyKept
<1>4. CutKnown'
  BY <1>2 DEF RateInv, CutKnown
<1>. QED  BY <1>1, <1>3, <1>4 DEF RateInv

\* So does the passing of time.
LEMMA TickKept ==
  ASSUME RateInv, Tick, UNCHANGED <<backend, attempts, count, expires, process, admitted, cut>>
  PROVE  RateInv'
<1>1. RateTypeOK'
  BY RateAssumption DEF RateInv, RateTypeOK, Tick
<1>2. now' = now + 1 /\ now \in Nat /\ process \in Nat
  BY DEF Tick, RateInv, RateTypeOK
<1>3. ASSUME NEW k \in Keys
      PROVE  KeyKept(k, now + 1, backend, process, attempts[k], admitted[k], count[k], expires[k])
  <2>1. /\ Limit(k) \in Nat \ {0} /\ Window(k) \in Nat \ {0} /\ count[k] \in Nat
        /\ expires[k] \in Nat \cup {NoExpiry}
    BY Bounds DEF RateInv, RateTypeOK
  <2>2. KeyKept(k, now, backend, process, attempts[k], admitted[k], count[k], expires[k])
    BY DEF RateInv
  <2>3. Numbered(admitted[k], now) /\ \A h \in admitted[k] : h.by <= process
    BY <2>2 DEF KeyKept
  <2>4. Numbered(admitted[k], now + 1)
    <3>1. \A h \in admitted[k] : h.at \in Nat /\ h.at <= now
      BY <2>3 DEF Numbered
    <3>2. \A h \in admitted[k] : h.at <= now + 1
      BY <1>2, <3>1
    <3>. QED  BY <2>3, <3>2 DEF Numbered
  <2>5. backend = "memory" =>
          MemoryKept(admitted[k], attempts[k], now + 1, process, Window(k), Limit(k))
    BY <1>2, <2>1, <2>2, <2>3, MemoryLater DEF KeyKept
  <2>6. backend = "redis" =>
          RedisKept(admitted[k], now + 1, count[k], expires[k], Window(k), Limit(k))
    BY <1>2, <2>1, <2>2, RedisLater DEF KeyKept
  <2>. QED  BY <2>3, <2>4, <2>5, <2>6 DEF KeyKept
<1>4. CutKnown'
  BY DEF RateInv, CutKnown
<1>. QED  BY <1>1, <1>2, <1>3, <1>4 DEF RateInv

\* Every step on the limiter keeps the invariant.
LEMMA RateKept ==
  ASSUME RateInv, RateStep
  PROVE  RateInv'
<1>1. CASE UNCHANGED rateVars
  <2>1. RateTypeOK'
    BY <1>1 DEF RateInv, RateTypeOK, rateVars
  <2>2. \A k \in Keys :
          KeyKept(k, now', backend', process', attempts'[k], admitted'[k], count'[k], expires'[k])
    BY <1>1, Untouched DEF rateVars
  <2>3. CutKnown'
    BY <1>1 DEF RateInv, CutKnown, rateVars
  <2>. QED  BY <2>1, <2>2, <2>3 DEF RateInv
<1>. QED  BY <1>1, HitKept, CutHitKept, ClearKept, RebuildKept, TickKept DEF RateStep

\* What the invariant says of the limiter: no window holds too much, and every
\* block has its cause in the last window.
LEMMA RatePromises ==
  ASSUME RateInv
  PROVE  WindowHolds /\ BlocksPass
<1>. SUFFICES ASSUME NEW k \in Keys
             PROVE  /\ backend = "memory" => \A p \in 0..process : InWindowBy(k, p) <= Limit(k)
                    /\ backend # "memory" => InWindow(k) <= 2 * Limit(k) - 1
                    /\ k \notin cut /\ ~Admits(k) => InWindow(k) >= Limit(k)
  BY DEF WindowHolds, BlocksPass
<1>1. /\ now \in Nat /\ Limit(k) \in Nat \ {0} /\ Window(k) \in Nat \ {0} /\ count[k] \in Nat
      /\ expires[k] \in Nat \cup {NoExpiry} /\ process \in Nat
      /\ backend \in {"memory", "redis"}
  BY Bounds DEF RateInv, RateTypeOK
<1>2. KeyKept(k, now, backend, process, attempts[k], admitted[k], count[k], expires[k])
  BY DEF RateInv
<1>3. Within(k, admitted[k]) = Near(admitted[k], now, Window(k))
  BY DEF Within, Near
<1>4. CASE backend = "memory"
  <2>1. MemoryKept(admitted[k], attempts[k], now, process, Window(k), Limit(k))
    BY <1>2, <1>4 DEF KeyKept
  <2>2. ASSUME NEW p \in 0..process
        PROVE  InWindowBy(k, p) <= Limit(k)
    <3>1. {h \in Within(k, admitted[k]) : h.by = p} = Near(Of(admitted[k], p), now, Window(k))
      BY DEF Within, Near, Of
    <3>2. p \in Nat
      BY <1>1
    <3>. QED  BY <2>1, <3>1, <3>2 DEF MemoryKept, InWindowBy
  <2>3. Recent(k) \subseteq Near(admitted[k], now, Window(k))
    BY <2>1 DEF Recent, Within, Near, MemoryKept, Of
  <2>4. /\ IsFiniteSet(Near(admitted[k], now, Window(k)))
        /\ Cardinality(Near(admitted[k], now, Window(k))) \in Nat
    BY <1>2, Part DEF KeyKept, Numbered, Near
  <2>5. Cardinality(Recent(k)) \in Nat /\ Cardinality(Recent(k)) <= InWindow(k)
    BY <1>3, <2>3, <2>4, Part DEF InWindow
  <2>6. ~Admits(k) => InWindow(k) >= Limit(k)
    BY <1>1, <1>3, <1>4, <2>4, <2>5 DEF Admits, InWindow
  <2>. QED  BY <1>4, <2>2, <2>6
<1>5. CASE backend = "redis"
  <2>1. /\ Numbered(admitted[k], now)
        /\ RedisKept(admitted[k], now, count[k], expires[k], Window(k), Limit(k))
    BY <1>2, <1>5 DEF KeyKept
  <2>2. InWindow(k) <= 2 * Limit(k) - 1
    BY <1>1, <1>3, <2>1, RedisBound DEF InWindow
  <2>3. ASSUME k \notin cut, ~Admits(k)
        PROVE  InWindow(k) >= Limit(k)
    <3>1. count[k] > 0 /\ expires[k] \in Nat
      BY <1>1, <1>5, <2>3 DEF Admits, Standing, RateInv, CutKnown
    <3>2. ~(Left(count[k], expires[k], now) < Limit(k))
      BY <1>5, <2>3 DEF Admits, Standing, Left
    <3>. QED  BY <1>1, <1>3, <2>1, <3>1, <3>2, RedisCause DEF InWindow
  <2>. QED  BY <1>5, <2>2, <2>3
<1>. QED  BY <1>1, <1>4, <1>5
------------------------------------------------------------------------------
(* The third part: the requests of Access. *)


\* The part of the type invariant that is not about the limiter.
DataOK ==
  /\ key \in 0..MaxKeys
  /\ password \in [Users -> Passwords]
  /\ totp_enabled \in [Users -> BOOLEAN]
  /\ secret \in [Users -> SecretRow]
  /\ issued \in 1..(MaxSecrets + 1)
  /\ cookies \in [Browsers -> SUBSET Cookie]
  /\ tokens \in Seq(TokenRow)
  /\ confirmed \in [Users -> Nat]

\* The invariant behind the type invariant and the promises of the limiter.
AccessInv == RateInv /\ DataOK

\* The bounds are natural numbers, and the limit of wrong codes is positive.
LEMMA NumbersAreNat ==
  /\ MaxSecrets \in Nat /\ MaxTokens \in Nat /\ MaxKeys \in Nat /\ TokenLife \in Nat
  /\ LoginMax \in Nat \ {0} /\ MaxTime \in Nat
  BY AccessAssumption, RateAssumption

\* The table of links, and what is left of it when a user's links are marked used.
LEMMA LinksTyped ==
  ASSUME DataOK, now \in Nat, NEW u \in Users
  PROVE  /\ DOMAIN tokens = 1..Len(tokens) /\ Len(tokens) \in Nat
         /\ \A t \in DOMAIN tokens : tokens[t] \in TokenRow
         /\ Retired(u) \in Seq(TokenRow) /\ Len(Retired(u)) = Len(tokens)
         /\ \A t \in DOMAIN tokens :
              Retired(u)[t] = IF t \in Unused(u) THEN [tokens[t] EXCEPT !.used = TRUE] ELSE tokens[t]
<1>1. /\ DOMAIN tokens = 1..Len(tokens) /\ Len(tokens) \in Nat
      /\ \A t \in DOMAIN tokens : tokens[t] \in TokenRow
  BY LenProperties, RowInSet DEF DataOK
<1>2. \A t \in DOMAIN tokens : [tokens[t] EXCEPT !.used = TRUE] \in TokenRow
  BY <1>1 DEF TokenRow
<1>3. Retired(u) \in [1..Len(tokens) -> TokenRow]
  BY <1>1, <1>2 DEF Retired
<1>4. Retired(u) \in Seq(TokenRow) /\ Len(Retired(u)) = Len(tokens)
  BY <1>1, <1>3, SeqDef, LenProperties
<1>5. \A t \in DOMAIN tokens :
        Retired(u)[t] = IF t \in Unused(u) THEN [tokens[t] EXCEPT !.used = TRUE] ELSE tokens[t]
  BY DEF Retired
<1>. QED  BY <1>1, <1>4, <1>5

\* What NewLink does to the table of links.
LEMMA LinkMade ==
  ASSUME DataOK, now \in Nat, NEW u \in Users, NewLink(u)
  PROVE  /\ tokens' \in Seq(TokenRow)
         /\ DOMAIN tokens' = DOMAIN tokens \cup {Len(tokens) + 1}
         /\ \A t \in DOMAIN tokens :
              /\ t < Len(tokens) + 1
              /\ tokens'[t].user = tokens[t].user
              /\ tokens[t].used => tokens'[t].used
              /\ tokens[t].user = u => tokens'[t].used
              /\ tokens'[t].used => tokens[t].used \/ t \in Unused(u)
<1>. DEFINE row == [user |-> u, expires_at |-> now + TokenLife, used |-> FALSE, key |-> key]
<1>1. row \in TokenRow
  BY NumbersAreNat DEF TokenRow, DataOK
<1>2. tokens' = Append(Retired(u), row)
  BY DEF NewLink
<1>3. /\ DOMAIN tokens = 1..Len(tokens) /\ Len(tokens) \in Nat
      /\ \A t \in DOMAIN tokens : tokens[t] \in TokenRow
      /\ Retired(u) \in Seq(TokenRow) /\ Len(Retired(u)) = Len(tokens)
      /\ \A t \in DOMAIN tokens :
           Retired(u)[t] = IF t \in Unused(u) THEN [tokens[t] EXCEPT !.used = TRUE] ELSE tokens[t]
  BY LinksTyped
<1>4. DOMAIN Retired(u) = DOMAIN tokens
  BY DEF Retired
<1>5. /\ tokens' \in Seq(TokenRow)
      /\ DOMAIN tokens' = DOMAIN tokens \cup {Len(tokens) + 1}
      /\ \A t \in DOMAIN tokens : tokens'[t] = Retired(u)[t]
  <2>. HIDE DEF row
  <2>. QED  BY <1>1, <1>2, <1>3, <1>4, RowAppended
<1>6. ASSUME NEW t \in DOMAIN tokens
      PROVE  /\ t < Len(tokens) + 1
             /\ tokens'[t].user = tokens[t].user
             /\ tokens[t].used => tokens'[t].used
             /\ tokens[t].user = u => tokens'[t].used
             /\ tokens'[t].used => tokens[t].used \/ t \in Unused(u)
  <2>1. tokens[t] \in TokenRow /\ t \in 1..Len(tokens)
    BY <1>3
  <2>2. tokens'[t] = IF t \in Unused(u) THEN [tokens[t] EXCEPT !.used = TRUE] ELSE tokens[t]
    BY <1>3, <1>5
  <2>3. t \in Unused(u) <=> tokens[t].user = u /\ ~tokens[t].used
    BY DEF Unused
  <2>. QED  BY <1>3, <2>1, <2>2, <2>3 DEF TokenRow
<1>. QED  BY <1>5, <1>6

\* What spending a link does to the table of links.
LEMMA LinkSpent ==
  ASSUME DataOK, NEW t \in DOMAIN tokens, NEW p \in Passwords, ResetPassword(t, p)
  PROVE  /\ tokens[t].user \in Users
         /\ tokens' \in Seq(TokenRow) /\ DOMAIN tokens' = DOMAIN tokens
         /\ tokens'[t].used
         /\ \A v \in DOMAIN tokens :
              /\ tokens'[v].user = tokens[v].user
              /\ tokens[v].used => tokens'[v].used
<1>1. \A v \in DOMAIN tokens : tokens[v] \in TokenRow
  BY RowInSet DEF DataOK
<1>. DEFINE row == [tokens[t] EXCEPT !.used = TRUE]
<1>2. row \in TokenRow /\ row.used /\ row.user = tokens[t].user
  BY <1>1 DEF TokenRow
<1>3. tokens' = [tokens EXCEPT ![t] = row]
  BY DEF ResetPassword
<1>. HIDE DEF row
<1>4. /\ tokens' \in Seq(TokenRow) /\ DOMAIN tokens' = DOMAIN tokens
      /\ \A v \in DOMAIN tokens : tokens'[v] = IF v = t THEN row ELSE tokens[v]
  BY <1>2, <1>3, RowReplaced DEF DataOK
<1>5. tokens[t].user \in Users
  BY <1>1 DEF TokenRow
<1>. QED  BY <1>2, <1>4, <1>5

------------------------------------------------------------------------------
(* Type correctness and the limiter. *)

\* Every request does to the limiter one of its steps.
LEMMA LimiterStep ==
  ASSUME AccessInv, AccessNext
  PROVE  RateStep
<1>1. ASSUME NEW b \in Browsers, NEW c \in cookies[b], UserNext(b, c)
      PROVE  RateStep
  <2>1. ASSUME NEW u \in Users, Login(b, c, u)
        PROVE  RateStep
    BY <2>1 DEF Login, LoginKey, Keys, RateStep
  <2>2. ASSUME UNCHANGED rateVars
        PROVE  RateStep
    BY <2>2 DEF RateStep
  <2>. QED  BY <1>1, <2>1, <2>2 DEF UserNext, OtherRequest, Logout, ChallengeEnds, Setup2fa, WrongCode,
              RightCode, ChangePassword, Verify2fa, Disable2fa
<1>2. ASSUME NEW u \in Users, FailedLogin(u)
      PROVE  RateStep
  BY <1>2 DEF FailedLogin, LoginKey, Keys, RateStep
<1>3. ASSUME NEW u \in Users, NEW matches \in BOOLEAN, ForgotPassword(u, matches)
      PROVE  RateStep
  BY <1>3 DEF ForgotPassword, ResetKey, Keys, RateStep
<1>4. ASSUME NEW t \in DOMAIN tokens, NEW p \in Passwords, ResetPassword(t, p)
      PROVE  RateStep
  BY <1>4 DEF ResetPassword, RateStep
<1>5. ASSUME NEW k \in Keys, CutOff(k)
      PROVE  RateStep
  BY <1>5 DEF CutOff, RateStep
<1>6. CASE Restart
  BY <1>6 DEF Restart, RateStep
<1>7. CASE TimePasses
  BY <1>7 DEF TimePasses, RateStep
<1>. QED  BY <1>1, <1>2, <1>3, <1>4, <1>5, <1>6, <1>7 DEF AccessNext, ServerNext

\* The cookies that the handlers set.
LEMMA CookiesTyped ==
  /\ Empty \in Cookie /\ Empty.user = Nobody
  /\ \A u \in Users : /\ Signed(u) \in Cookie /\ Signed(u).user = u
                      /\ [Empty EXCEPT !.pending = u] \in Cookie
                      /\ [Empty EXCEPT !.pending = u].user = Nobody
  BY NumbersAreNat DEF Cookie, Empty, Signed

\* What an answer may add to the cookies: the new one, and nobody else gets it.
LEMMA Answered ==
  ASSUME DataOK, NEW b \in Browsers, NEW c \in cookies[b], NEW n \in Cookie, Answer(b, c, n)
  PROVE  /\ cookies' \in [Browsers -> SUBSET Cookie]
         /\ \A d \in Browsers, u \in Users : SignedIn(d, u)' /\ ~SignedIn(d, u) => d = b /\ n.user = u
<1>1. cookies \in [Browsers -> SUBSET Cookie]
  BY DEF DataOK
<1>2. PICK kept \in SUBSET {c} :
        cookies' = [cookies EXCEPT ![b] = (cookies[b] \ {c}) \cup kept \cup {n, Empty}]
  BY DEF Answer
<1>3. (cookies[b] \ {c}) \cup kept \cup {n, Empty} \in SUBSET Cookie
  BY <1>1, CookiesTyped
<1>4. cookies' \in [Browsers -> SUBSET Cookie]
  BY <1>1, <1>2, <1>3
<1>5. /\ cookies'[b] \subseteq cookies[b] \cup {n, Empty}
      /\ \A d \in Browsers \ {b} : cookies'[d] = cookies[d]
  BY <1>1, <1>2
<1>6. \A u \in Users : Empty.user # u
  BY CookiesTyped, AccessAssumption
<1>. QED  BY <1>4, <1>5, <1>6 DEF SignedIn

\* A wrong code leaves the cookie with one try less, and the user of none.
LEMMA WrongTyped ==
  ASSUME DataOK, NEW b \in Browsers, NEW c \in cookies[b], WrongCode(b, c)
  PROVE  [c EXCEPT !.attempts = @ + 1] \in Cookie /\ [c EXCEPT !.attempts = @ + 1].user = c.user
<1>1. c \in Cookie /\ c.attempts < LoginMax
  BY DEF DataOK, WrongCode, Challenged
<1>. QED  BY <1>1, NumbersAreNat DEF Cookie

\* The data keep their types with every request of a browser.
LEMMA UserKeepsTypes ==
  ASSUME AccessInv, NEW b \in Browsers, NEW c \in cookies[b], UserNext(b, c)
  PROVE  DataOK'
<1>. DEFINE u == c.user
            v == c.pending
<1>. USE DEF DataOK
<1>0. /\ c \in Cookie /\ u \in Users \cup {Nobody} /\ v \in Users \cup {Nobody}
      /\ \A s \in 1..issued : s \in Nat
  BY NumbersAreNat DEF AccessInv, Cookie
<1>00. ASSUME NEW n \in Cookie, Answer(b, c, n)
       PROVE  cookies' \in [Browsers -> SUBSET Cookie]
  BY <1>00, Answered DEF AccessInv
<1>1. CASE Logout(b, c)
  BY <1>1, <1>00, CookiesTyped DEF AccessInv, Logout, dbVars
<1>2. CASE ChallengeEnds(b, c)
  BY <1>2, <1>00, CookiesTyped DEF AccessInv, ChallengeEnds, dbVars
<1>3. CASE Setup2fa(c)
  <2>1. u \in Users
    BY <1>0, <1>3 DEF Setup2fa
  <2>2. issued + 1 \in 1..(MaxSecrets + 1) /\ [id |-> issued + 1, sealed |-> key] \in SecretRow
    BY <1>3, NumbersAreNat DEF AccessInv, Setup2fa, SecretRow
  <2>. QED  BY <1>3, <2>1, <2>2 DEF AccessInv, Setup2fa
<1>4. ASSUME NEW w \in Users, Login(b, c, w)
      PROVE  DataOK'
  <2>1. cookies' \in [Browsers -> SUBSET Cookie]
    BY <1>0, <1>00, <1>4, CookiesTyped DEF Login
  <2>. QED  BY <1>4, <2>1 DEF AccessInv, Login, dbVars
<1>5. CASE WrongCode(b, c)
  <2>1. [c EXCEPT !.attempts = @ + 1] \in Cookie
    BY <1>5, WrongTyped DEF AccessInv
  <2>2. cookies' \in [Browsers -> SUBSET Cookie]
    BY <1>00, <1>5, <2>1 DEF WrongCode
  <2>. QED  BY <1>5, <2>2 DEF AccessInv, WrongCode, dbVars
<1>6. ASSUME NEW s \in 1..issued, RightCode(b, c, s)
      PROVE  DataOK'
  <2>1. v \in Users
    BY <1>0, <1>6 DEF RightCode, Challenged
  <2>2. [secret[v] EXCEPT !.sealed = key] \in SecretRow
    BY <2>1 DEF AccessInv, SecretRow
  <2>3. secret' = [secret EXCEPT ![v] = [secret[v] EXCEPT !.sealed = key]]
    BY <1>6 DEF RightCode, Reseal
  <2>4. cookies' \in [Browsers -> SUBSET Cookie]
    BY <1>00, <1>6, <2>1, CookiesTyped DEF RightCode
  <2>. QED  BY <1>6, <2>2, <2>3, <2>4 DEF AccessInv, RightCode
<1>7. ASSUME NEW p \in Passwords, ChangePassword(b, c, p)
      PROVE  DataOK'
  <2>1. u \in Users
    BY <1>0, <1>7 DEF ChangePassword
  <2>2. cookies' \in [Browsers -> SUBSET Cookie]
    BY <1>00, <1>7, <2>1, CookiesTyped DEF ChangePassword
  <2>. QED  BY <1>7, <2>1, <2>2 DEF AccessInv, ChangePassword
<1>8. ASSUME NEW s \in 1..issued, Verify2fa(c, s)
      PROVE  DataOK'
  <2>1. u \in Users
    BY <1>0, <1>8 DEF Verify2fa
  <2>2. [secret[u] EXCEPT !.sealed = key] \in SecretRow
    BY <2>1 DEF AccessInv, SecretRow
  <2>3. secret' = [secret EXCEPT ![u] = [secret[u] EXCEPT !.sealed = key]]
    BY <1>8 DEF Verify2fa, Reseal
  <2>. QED  BY <1>0, <1>8, <2>1, <2>2, <2>3 DEF AccessInv, Verify2fa
<1>9. ASSUME NEW s \in 1..issued, Disable2fa(c, s)
      PROVE  DataOK'
  <2>1. u \in Users
    BY <1>0, <1>9 DEF Disable2fa
  <2>2. NoSecret \in SecretRow
    BY NumbersAreNat DEF NoSecret, SecretRow
  <2>. QED  BY <1>9, <2>1, <2>2 DEF AccessInv, Disable2fa
<1>. QED  BY <1>1, <1>2, <1>3, <1>4, <1>5, <1>6, <1>7, <1>8, <1>9 DEF UserNext, OtherRequest

\* Every request keeps the rows, cookies and keys in their shape.
LEMMA StepKeepsTypes ==
  ASSUME AccessInv, AccessNext
  PROVE  DataOK'
<1>1. ASSUME NEW u \in Users, FailedLogin(u)
      PROVE  DataOK'
  BY <1>1 DEF AccessInv, DataOK, FailedLogin, dbVars
<1>2. ASSUME NEW u \in Users, NEW matches \in BOOLEAN, ForgotPassword(u, matches)
      PROVE  DataOK'
  <2>1. tokens' \in Seq(TokenRow)
    <3>1. now \in Nat
      BY DEF AccessInv, RateInv, RateTypeOK
    <3>2. CASE NewLink(u)
      BY <3>1, <3>2, LinkMade DEF AccessInv
    <3>3. CASE UNCHANGED tokens
      BY <3>3 DEF AccessInv, DataOK
    <3>. QED  BY <1>2, <3>2, <3>3 DEF ForgotPassword
  <2>. QED  BY <1>2, <2>1 DEF AccessInv, DataOK, ForgotPassword
<1>3. ASSUME NEW t \in DOMAIN tokens, NEW p \in Passwords, ResetPassword(t, p)
      PROVE  DataOK'
  <2>1. tokens' \in Seq(TokenRow) /\ tokens[t].user \in Users
    BY <1>3, LinkSpent DEF AccessInv
  <2>. QED  BY <1>3, <2>1 DEF AccessInv, DataOK, ResetPassword
<1>4. ASSUME NEW k \in Keys, CutOff(k)
      PROVE  DataOK'
  BY <1>4 DEF AccessInv, DataOK, CutOff, dbVars
<1>5. CASE Restart
  <2>1. key' \in 0..MaxKeys
    BY <1>5, NumbersAreNat DEF AccessInv, DataOK, Restart
  <2>2. cookies' \in [Browsers -> SUBSET Cookie]
    BY <1>5, CookiesTyped DEF AccessInv, DataOK, Restart
  <2>. QED  BY <1>5, <2>1, <2>2 DEF AccessInv, DataOK, Restart, dbVars
<1>6. CASE TimePasses
  BY <1>6 DEF AccessInv, DataOK, TimePasses, dbVars
<1>. QED  BY <1>1, <1>2, <1>3, <1>4, <1>5, <1>6, UserKeepsTypes DEF AccessNext, ServerNext

\* The invariant holds in every reachable state.
LEMMA AccessInvariant == AccessSpec => []AccessInv
<1>1. AccessInit => AccessInv
  <2>. SUFFICES ASSUME AccessInit
               PROVE  AccessInv
    OBVIOUS
  <2>1. RateInv
    BY RateStarts DEF AccessInit
  <2>2. secret \in [Users -> SecretRow]
    <3>1. NoSecret \in SecretRow /\ [id |-> 1, sealed |-> Plain] \in SecretRow
      BY NumbersAreNat DEF NoSecret, SecretRow
    <3>. QED  BY <3>1 DEF AccessInit
  <2>3. confirmed \in [Users -> Nat]
    BY <2>2, NumbersAreNat DEF AccessInit, SecretRow
  <2>4. tokens \in Seq(TokenRow)
    BY EmptySeq DEF AccessInit
  <2>5. cookies \in [Browsers -> SUBSET Cookie]
    BY CookiesTyped DEF AccessInit
  <2>. QED  BY <2>1, <2>2, <2>3, <2>4, <2>5, NumbersAreNat DEF AccessInit, AccessInv, DataOK
<1>2. AccessInv /\ [AccessNext]_vars => AccessInv'
  <2>1. ASSUME AccessInv, AccessNext
        PROVE  AccessInv'
    BY <2>1, LimiterStep, RateKept, StepKeepsTypes DEF AccessInv
  <2>2. ASSUME AccessInv, UNCHANGED vars
        PROVE  AccessInv'
    <3>1. RateInv'
      BY <2>2, RateKept DEF AccessInv, RateStep, vars
    <3>2. DataOK'
      BY <2>2 DEF AccessInv, DataOK, vars, dbVars
    <3>. QED  BY <3>1, <3>2 DEF AccessInv
  <2>. QED  BY <2>1, <2>2
<1>. QED  BY <1>1, <1>2, PTL DEF AccessSpec

\* Rows, cookies and limiter keep their shape through logins, codes, links and
\* restarts, and no cookie counts more wrong codes than a challenge allows.
THEOREM AccessTypeCorrect == AccessSpec => []AccessTypeOK
<1>1. AccessInv => AccessTypeOK
  BY NumbersAreNat DEF AccessInv, RateInv, DataOK, AccessTypeOK
<1>. QED  BY <1>1, AccessInvariant, PTL

\* rate_limit.py: no process with the memory backend lets through more than the
\* limit in a window, whatever others did before it; with Redis all of them together
\* let through at most one less than twice the limit.
THEOREM WindowsHold == AccessSpec => []WindowHolds
<1>1. AccessInv => WindowHolds
  BY RatePromises DEF AccessInv
<1>. QED  BY <1>1, AccessInvariant, PTL

\* rate_limit.py: a block has its cause within the last window, so that waiting
\* for one window ends it, unless the process ended before EXPIRE.
THEOREM BlocksAlwaysPass == AccessSpec => []BlocksPass
<1>1. AccessInv => BlocksPass
  BY RatePromises DEF AccessInv
<1>. QED  BY <1>1, AccessInvariant, PTL

------------------------------------------------------------------------------
(* Two-factor and reset links. *)

\* Who else touches the secrets: a step of a browser, or nobody.
LEMMA SecretsOfOthers ==
  ASSUME AccessNext, ~ \E b \in Browsers : \E c \in cookies[b] : UserNext(b, c)
  PROVE  totp_enabled' = totp_enabled /\ secret' = secret /\ confirmed' = confirmed
<1>. QED  BY DEF AccessNext, ServerNext, FailedLogin, ForgotPassword, ResetPassword, CutOff, Restart,
            TimePasses, dbVars

\* A step of a browser keeps the switch of every user behind a confirmed secret.
LEMMA SwitchKept ==
  ASSUME AccessInv, SwitchConfirmed, NEW b \in Browsers, NEW c \in cookies[b], UserNext(b, c)
  PROVE  SwitchConfirmed'
<1>. DEFINE w == c.user
<1>1. /\ secret \in [Users -> SecretRow] /\ totp_enabled \in [Users -> BOOLEAN]
      /\ confirmed \in [Users -> Nat] /\ key \in Nat
      /\ w \in Users \cup {Nobody} /\ c.pending \in Users \cup {Nobody}
  BY NumbersAreNat DEF AccessInv, DataOK, Cookie
<1>2. ASSUME NEW u \in Users, Reseal(u)
      PROVE  /\ \A v \in Users \ {u} : secret'[v] = secret[v]
             /\ secret'[u].id = secret[u].id /\ secret'[u] # NoSecret
  <2>1. secret'[u] = [secret[u] EXCEPT !.sealed = key] /\ \A v \in Users \ {u} : secret'[v] = secret[v]
    BY <1>1, <1>2 DEF Reseal
  <2>2. secret'[u].id = secret[u].id /\ secret'[u].sealed = key
    BY <1>1, <2>1 DEF SecretRow
  <2>3. NoSecret.sealed = -1 /\ key # -1
    BY <1>1 DEF NoSecret, Plain
  <2>. QED  BY <2>1, <2>2, <2>3
<1>3. CASE totp_enabled' = totp_enabled /\ secret' = secret /\ confirmed' = confirmed
  BY <1>3 DEF SwitchConfirmed
<1>4. CASE Setup2fa(c)
  <2>1. /\ w \in Users /\ ~totp_enabled[w]
        /\ totp_enabled' = totp_enabled /\ confirmed' = confirmed
        /\ \A v \in Users \ {w} : secret'[v] = secret[v]
    BY <1>1, <1>4 DEF Setup2fa
  <2>. QED  BY <2>1 DEF SwitchConfirmed
<1>5. ASSUME NEW s \in 1..issued, RightCode(b, c, s)
      PROVE  SwitchConfirmed'
  <2>1. /\ c.pending \in Users /\ Reseal(c.pending)
        /\ totp_enabled' = totp_enabled /\ confirmed' = confirmed
    BY <1>1, <1>5 DEF RightCode, Challenged
  <2>. QED  BY <1>2, <2>1 DEF SwitchConfirmed
<1>6. ASSUME NEW s \in 1..issued, Verify2fa(c, s)
      PROVE  SwitchConfirmed'
  <2>1. w \in Users /\ Reseal(w) /\ s = secret[w].id
    BY <1>1, <1>6 DEF Verify2fa, Accepts
  <2>2. /\ totp_enabled' = [totp_enabled EXCEPT ![w] = TRUE]
        /\ confirmed' = [confirmed EXCEPT ![w] = s]
    BY <1>6 DEF Verify2fa
  <2>3. /\ secret'[w] # NoSecret /\ secret'[w].id = s
        /\ \A v \in Users \ {w} : secret'[v] = secret[v]
    BY <1>2, <2>1
  <2>4. /\ confirmed'[w] = s
        /\ \A v \in Users \ {w} : totp_enabled'[v] = totp_enabled[v] /\ confirmed'[v] = confirmed[v]
    BY <1>1, <2>1, <2>2
  <2>. QED  BY <2>3, <2>4 DEF SwitchConfirmed
<1>7. ASSUME NEW s \in 1..issued, Disable2fa(c, s)
      PROVE  SwitchConfirmed'
  <2>1. w \in Users /\ confirmed' = confirmed
    BY <1>1, <1>7 DEF Disable2fa
  <2>2. /\ ~totp_enabled'[w]
        /\ \A v \in Users \ {w} : totp_enabled'[v] = totp_enabled[v] /\ secret'[v] = secret[v]
    BY <1>1, <1>7, <2>1 DEF Disable2fa
  <2>. QED  BY <2>1, <2>2 DEF SwitchConfirmed
<1>. QED  BY <1>3, <1>4, <1>5, <1>6, <1>7 DEF UserNext, OtherRequest, Logout, ChallengeEnds, Login, WrongCode,
            ChangePassword, dbVars

\* settings.py and login: while two-factor is on, the stored secret is the one its
\* user last proved to have, whatever was set up, disabled or restarted in between.
THEOREM SwitchAlwaysConfirmed == AccessSpec => []SwitchConfirmed
<1>1. AccessInit => SwitchConfirmed
  BY DEF AccessInit, SwitchConfirmed, NoSecret
<1>2. AccessInv /\ SwitchConfirmed /\ [AccessNext]_vars => SwitchConfirmed'
  <2>1. ASSUME AccessInv, SwitchConfirmed, AccessNext
        PROVE  SwitchConfirmed'
    <3>1. CASE \E b \in Browsers : \E c \in cookies[b] : UserNext(b, c)
      BY <2>1, <3>1, SwitchKept
    <3>2. CASE ~ \E b \in Browsers : \E c \in cookies[b] : UserNext(b, c)
      BY <2>1, <3>2, SecretsOfOthers DEF SwitchConfirmed
    <3>. QED  BY <3>1, <3>2
  <2>2. ASSUME SwitchConfirmed, UNCHANGED vars
        PROVE  SwitchConfirmed'
    BY <2>2 DEF SwitchConfirmed, vars, dbVars
  <2>. QED  BY <2>1, <2>2
<1>. QED  BY <1>1, <1>2, AccessInvariant, PTL DEF AccessSpec

\* The three things a step may do to the table of links.
LEMMA LinkCases ==
  ASSUME AccessNext
  PROVE  \/ UNCHANGED tokens
         \/ \E u \in Users : NewLink(u) /\ password' = password
         \/ \E t \in DOMAIN tokens, p \in Passwords : ResetPassword(t, p)
<1>. QED  BY DEF AccessNext, UserNext, OtherRequest, ServerNext, Login, ChallengeEnds, WrongCode,
            RightCode, Logout, ChangePassword, Setup2fa, Verify2fa, Disable2fa, FailedLogin, ForgotPassword, CutOff,
            Restart, TimePasses, dbVars

\* forgot_password and reset_password: a user has at most one link that is not
\* used, and it is the newest.
THEOREM LinksUnique == AccessSpec => []OneUnusedLink
<1>1. AccessInit => OneUnusedLink
  BY DEF AccessInit, OneUnusedLink
<1>2. AccessInv /\ OneUnusedLink /\ [AccessNext]_vars => OneUnusedLink'
  <2>. SUFFICES ASSUME AccessInv, OneUnusedLink, [AccessNext]_vars
               PROVE  OneUnusedLink'
    OBVIOUS
  <2>1. CASE UNCHANGED tokens
    BY <2>1 DEF OneUnusedLink
  <2>2. ASSUME NEW u \in Users, NewLink(u)
        PROVE  OneUnusedLink'
    <3>0. now \in Nat /\ DataOK
      BY DEF AccessInv, RateInv, RateTypeOK
    <3>1. /\ DOMAIN tokens' = DOMAIN tokens \cup {Len(tokens) + 1}
          /\ \A t \in DOMAIN tokens :
               /\ t < Len(tokens) + 1
               /\ tokens'[t].user = tokens[t].user
               /\ tokens[t].used => tokens'[t].used
               /\ tokens[t].user = u => tokens'[t].used
      BY <2>2, <3>0, LinkMade
    <3>2. tokens'[Len(tokens) + 1].user = u
      <4>1. Len(Retired(u)) = Len(tokens) /\ Retired(u) \in Seq(TokenRow)
        BY LinksTyped DEF AccessInv, RateInv, RateTypeOK
      <4>. DEFINE row == [user |-> u, expires_at |-> now + TokenLife, used |-> FALSE, key |-> key]
      <4>2. row \in TokenRow /\ row.user = u
        BY NumbersAreNat DEF TokenRow, AccessInv, DataOK, RateInv, RateTypeOK
      <4>3. tokens' = Append(Retired(u), row)
        BY <2>2 DEF NewLink
      <4>. HIDE DEF row
      <4>. QED  BY <4>1, <4>2, <4>3, RowAppended
    <3>3. Len(tokens) \in Nat /\ DOMAIN tokens = 1..Len(tokens)
      BY LenProperties DEF AccessInv, DataOK
    <3>4. ASSUME NEW t \in DOMAIN tokens', NEW v \in DOMAIN tokens',
                 tokens'[t].user = tokens'[v].user, t < v
          PROVE  tokens'[t].used
      <4>1. t \in DOMAIN tokens
        BY <3>1, <3>3, <3>4
      <4>2. CASE v \in DOMAIN tokens
        BY <3>1, <3>4, <4>1, <4>2 DEF OneUnusedLink
      <4>3. CASE v = Len(tokens) + 1
        BY <3>1, <3>2, <3>4, <4>1, <4>3
      <4>. QED  BY <3>1, <4>2, <4>3
    <3>. QED  BY <3>4 DEF OneUnusedLink
  <2>3. ASSUME NEW t \in DOMAIN tokens, NEW p \in Passwords, ResetPassword(t, p)
        PROVE  OneUnusedLink'
    <3>1. /\ DOMAIN tokens' = DOMAIN tokens
          /\ \A v \in DOMAIN tokens :
               tokens'[v].user = tokens[v].user /\ (tokens[v].used => tokens'[v].used)
      BY <2>3, LinkSpent DEF AccessInv
    <3>. QED  BY <3>1 DEF OneUnusedLink
  <2>. QED  BY <2>1, <2>2, <2>3, LinkCases DEF vars, dbVars
<1>. QED  BY <1>1, <1>2, AccessInvariant, PTL DEF AccessSpec

\* reset_password: while no browser holds a complete session of a user his password
\* changes only by spending an unused link of his within its life, and a link that
\* was spent stays spent.
THEOREM LinksAreSpentOnce == AccessSpec => LinksSpentOnce
<1>. DEFINE Step ==
       /\ \A u \in Users :
            /\ password'[u] # password[u]
            /\ \A b \in Browsers : ~SignedIn(b, u)
            => \E t \in Unused(u) : tokens'[t].used /\ now <= tokens[t].expires_at
       /\ \A t \in DOMAIN tokens : tokens[t].used => tokens'[t].used
<1>1. ASSUME AccessInv, AccessNext
      PROVE  Step
  <2>1. now \in Nat /\ \A t \in DOMAIN tokens : tokens[t] \in TokenRow
    BY <1>1, RowInSet DEF AccessInv, RateInv, RateTypeOK, DataOK
  <2>2. ASSUME NEW t \in DOMAIN tokens, NEW p \in Passwords, ResetPassword(t, p)
        PROVE  Step
    <3>1. tokens'[t].used /\ \A v \in DOMAIN tokens : tokens[v].used => tokens'[v].used
      BY <1>1, <2>2, LinkSpent DEF AccessInv
    <3>2. t \in Unused(tokens[t].user) /\ now <= tokens[t].expires_at
      BY <2>1, <2>2 DEF ResetPassword, TokenRow
    <3>3. \A u \in Users : password'[u] # password[u] => u = tokens[t].user
      BY <1>1, <2>2 DEF ResetPassword, AccessInv, DataOK
    <3>. QED  BY <3>1, <3>2, <3>3
  <2>3. ASSUME ~ \E t \in DOMAIN tokens, p \in Passwords : ResetPassword(t, p)
        PROVE  \A u \in Users : password'[u] # password[u] => \E b \in Browsers : SignedIn(b, u)
    <3>1. ASSUME NEW b \in Browsers, NEW c \in cookies[b], NEW p \in Passwords, ChangePassword(b, c, p)
          PROVE  \A u \in Users : password'[u] # password[u] => SignedIn(b, u)
      <4>1. \A u \in Users : password'[u] # password[u] => u = c.user
        BY <1>1, <3>1 DEF ChangePassword, AccessInv, DataOK
      <4>. QED  BY <4>1 DEF SignedIn
    <3>2. CASE password' = password
      BY <3>2
    <3>3. \/ password' = password
          \/ \E b \in Browsers : \E c \in cookies[b], p \in Passwords : ChangePassword(b, c, p)
      BY <1>1, <2>3 DEF AccessNext, UserNext, OtherRequest, ServerNext, Login, ChallengeEnds, WrongCode,
         RightCode, Logout, Setup2fa, Verify2fa, Disable2fa, FailedLogin, ForgotPassword, CutOff, Restart, TimePasses,
         dbVars
    <3>. QED  BY <3>1, <3>2, <3>3
  <2>4. ASSUME ~ \E t \in DOMAIN tokens, p \in Passwords : ResetPassword(t, p)
        PROVE  \A t \in DOMAIN tokens : tokens[t].used => tokens'[t].used
    <3>1. ASSUME NEW u \in Users, NewLink(u)
          PROVE  \A t \in DOMAIN tokens : tokens[t].used => tokens'[t].used
      BY <1>1, <2>1, <3>1, LinkMade DEF AccessInv
    <3>. QED  BY <1>1, <2>4, <3>1, LinkCases
  <2>. QED  BY <2>2, <2>3, <2>4
<1>2. AccessInv /\ [AccessNext]_vars => [Step]_vars
  BY <1>1
<1>. QED  BY <1>2, AccessInvariant, PTL DEF AccessSpec, LinksSpentOnce

\* login and login/2fa: who holds no complete session of a user whose two-factor is
\* on is given one only for a challenge for that user, and the secret is encrypted.
THEOREM TwoStepsTaken == AccessSpec => TwoSteps
<1>. DEFINE Step ==
       \A b \in Browsers, u \in Users :
         /\ totp_enabled[u]
         /\ SignedIn(b, u)' /\ ~SignedIn(b, u)
         => /\ \E c \in cookies[b] : c.pending = u /\ Challenged(c)
            /\ secret'[u].sealed # Plain
<1>1. ASSUME AccessInv, AccessNext
      PROVE  Step
  <2>1. /\ secret \in [Users -> SecretRow] /\ key \in Nat /\ DataOK
        /\ \A b \in Browsers : \A c \in cookies[b] : c \in Cookie
    BY <1>1, NumbersAreNat DEF AccessInv, DataOK
  <2>2. ASSUME \A d \in Browsers, u \in Users : SignedIn(d, u)' => SignedIn(d, u)
        PROVE  Step
    BY <2>2
  <2>3. ASSUME NEW b \in Browsers, NEW c \in cookies[b], NEW n \in Cookie, Answer(b, c, n),
               n.user \in Users => n.user = c.user
        PROVE  Step
    <3>1. \A d \in Browsers, u \in Users : SignedIn(d, u)' /\ ~SignedIn(d, u) => d = b /\ n.user = u
      BY <2>1, <2>3, Answered
    <3>. QED  BY <2>2, <2>3, <3>1 DEF SignedIn
  <2>4. ASSUME NEW b \in Browsers, NEW c \in cookies[b], NEW u \in Users, Login(b, c, u)
        PROVE  Step
    <3>1. CASE ~totp_enabled[u]
      <4>1. Answer(b, c, Signed(u)) /\ Signed(u) \in Cookie /\ Signed(u).user = u
        BY <2>4, <3>1, CookiesTyped DEF Login
      <4>2. \A d \in Browsers, w \in Users : SignedIn(d, w)' /\ ~SignedIn(d, w) => w = u
        BY <2>1, <4>1, Answered
      <4>. QED  BY <3>1, <4>2
    <3>2. CASE totp_enabled[u] /\ secret[u] = NoSecret
      <4>1. Answer(b, c, c) /\ c \in Cookie
        BY <2>1, <2>4, <3>2 DEF Login
      <4>. QED  BY <2>3, <4>1
    <3>3. CASE totp_enabled[u] /\ secret[u] # NoSecret
      <4>. DEFINE n == [Empty EXCEPT !.pending = u]
      <4>1. Answer(b, c, n) /\ n \in Cookie /\ n.user = Nobody
        BY <2>4, <3>3, CookiesTyped DEF Login
      <4>. HIDE DEF n
      <4>. QED  BY <2>3, <4>1, AccessAssumption
    <3>. QED  BY <3>1, <3>2, <3>3
  <2>5. ASSUME NEW b \in Browsers, NEW c \in cookies[b], NEW s \in 1..issued, RightCode(b, c, s)
        PROVE  Step
    <3>. DEFINE u == c.pending
    <3>1. u \in Users /\ Challenged(c) /\ Answer(b, c, Signed(u))
      BY <2>1, <2>5 DEF RightCode, Challenged, Cookie
    <3>2. \A d \in Browsers, w \in Users : SignedIn(d, w)' /\ ~SignedIn(d, w) => d = b /\ w = u
      <4>1. Signed(u) \in Cookie /\ Signed(u).user = u
        BY <3>1, CookiesTyped
      <4>. QED  BY <2>1, <3>1, <4>1, Answered
    <3>3. secret'[u].sealed = key
      BY <2>1, <2>5, <3>1 DEF RightCode, Reseal, SecretRow
    <3>. QED  BY <2>1, <3>1, <3>2, <3>3 DEF Plain
  <2>6. ASSUME NEW b \in Browsers, NEW c \in cookies[b], Logout(b, c) \/ ChallengeEnds(b, c)
        PROVE  Step
    BY <2>3, <2>6, CookiesTyped, AccessAssumption DEF Logout, ChallengeEnds
  <2>7. ASSUME NEW b \in Browsers, NEW c \in cookies[b], WrongCode(b, c)
        PROVE  Step
    <3>. DEFINE n == [c EXCEPT !.attempts = @ + 1]
    <3>1. Answer(b, c, n) /\ n \in Cookie /\ n.user = c.user
      BY <2>1, <2>7, WrongTyped DEF WrongCode
    <3>. HIDE DEF n
    <3>. QED  BY <2>3, <3>1
  <2>8. ASSUME NEW b \in Browsers, NEW c \in cookies[b], NEW p \in Passwords, ChangePassword(b, c, p)
        PROVE  Step
    <3>1. c.user \in Users /\ Answer(b, c, Signed(c.user))
      BY <2>1, <2>8 DEF ChangePassword, Cookie
    <3>2. Signed(c.user) \in Cookie /\ Signed(c.user).user = c.user
      BY <3>1, CookiesTyped
    <3>. QED  BY <2>3, <3>1, <3>2
  <2>9. CASE cookies' = [b \in Browsers |-> {Empty}]
    <3>1. \A b \in Browsers, u \in Users : ~SignedIn(b, u)'
      BY <2>9, CookiesTyped, AccessAssumption DEF SignedIn
    <3>. QED  BY <2>2, <3>1
  <2>10. CASE UNCHANGED cookies
    BY <2>2, <2>10 DEF SignedIn
  <2>11. CASE ServerNext
    BY <2>9, <2>10, <2>11 DEF ServerNext, FailedLogin, ForgotPassword, ResetPassword, CutOff, Restart,
       TimePasses
  <2>12. ASSUME NEW b \in Browsers, NEW c \in cookies[b], OtherRequest(b, c)
         PROVE  Step
    BY <2>5, <2>6, <2>8, <2>10, <2>12 DEF OtherRequest, Setup2fa, Verify2fa, Disable2fa
  <2>. QED  BY <1>1, <2>4, <2>7, <2>11, <2>12 DEF AccessNext, UserNext
<1>2. AccessInv /\ [AccessNext]_vars => [Step]_vars
  BY <1>1
<1>. QED  BY <1>2, AccessInvariant, PTL DEF AccessSpec, TwoSteps

------------------------------------------------------------------------------
(* Keys that are lost in a restart. *)

\* Everything encrypted or signed was so with a key there has been, and nobody
\* whose secret is unreadable holds a cookie that is a complete session of his.
LockedOut(u) == totp_enabled[u] /\ ~Readable(u)

KeysKnown ==
  /\ \A u \in Users : secret[u].sealed <= key
  /\ \A t \in DOMAIN tokens : tokens[t].key <= key
  /\ \A u \in Users : LockedOut(u) => \A b \in Browsers : ~SignedIn(b, u)

\* A step of a browser keeps this, and leaves whoever is locked out where he is.
LEMMA BrowserKeepsKeys ==
  ASSUME AccessInv, KeysKnown, NEW b \in Browsers, NEW c \in cookies[b], UserNext(b, c)
  PROVE  /\ key' = key /\ tokens' = tokens
         /\ \A u \in Users : secret'[u].sealed <= key
         /\ \A u \in Users : LockedOut(u) =>
              LockedOut(u)' /\ secret'[u] = secret[u] /\ \A d \in Browsers : ~SignedIn(d, u)'
         /\ \A u \in Users : LockedOut(u)' => LockedOut(u)
<1>. DEFINE w == c.user
            v == c.pending
<1>1. /\ secret \in [Users -> SecretRow] /\ totp_enabled \in [Users -> BOOLEAN]
      /\ DataOK /\ key \in Nat /\ c \in Cookie
      /\ w \in Users \cup {Nobody} /\ v \in Users \cup {Nobody}
      /\ \A u \in Users : secret[u].sealed \in Int
  BY NumbersAreNat DEF AccessInv, DataOK, SecretRow, Cookie, Plain
<1>2. key' = key /\ tokens' = tokens
  BY DEF UserNext, OtherRequest, Login, ChallengeEnds, WrongCode, RightCode, Logout, ChangePassword,
         Setup2fa, Verify2fa, Disable2fa, dbVars
<1>3. ASSUME NEW u \in Users, \A x \in Users \ {u} : /\ secret'[x] = secret[x]
                                                     /\ totp_enabled'[x] = totp_enabled[x],
             secret'[u].sealed \in {Plain, key}, ~LockedOut(u)
      PROVE  /\ \A x \in Users : secret'[x].sealed <= key
             /\ \A x \in Users : LockedOut(x) => LockedOut(x)' /\ secret'[x] = secret[x]
             /\ \A x \in Users : LockedOut(x)' => LockedOut(x)
  BY <1>1, <1>2, <1>3 DEF KeysKnown, LockedOut, Readable, Plain
<1>4. ASSUME secret' = secret, totp_enabled' = totp_enabled
      PROVE  /\ \A x \in Users : secret'[x].sealed <= key
             /\ \A x \in Users : LockedOut(x) => LockedOut(x)' /\ secret'[x] = secret[x]
             /\ \A x \in Users : LockedOut(x)' => LockedOut(x)
  BY <1>2, <1>4 DEF KeysKnown, LockedOut, Readable
<1>. DEFINE Stays == \A x \in Users : LockedOut(x) => \A d \in Browsers : ~SignedIn(d, x)'
            Sealed ==
              /\ \A x \in Users : secret'[x].sealed <= key
              /\ \A x \in Users : LockedOut(x) => LockedOut(x)' /\ secret'[x] = secret[x]
              /\ \A x \in Users : LockedOut(x)' => LockedOut(x)
<1>5. ASSUME NEW n \in Cookie, Answer(b, c, n), n.user \in Users => ~LockedOut(n.user)
      PROVE  Stays
  <2>1. \A d \in Browsers, x \in Users : SignedIn(d, x)' /\ ~SignedIn(d, x) => n.user = x
    BY <1>1, <1>5, Answered
  <2>. QED  BY <1>5, <2>1 DEF KeysKnown
<1>6. ASSUME UNCHANGED cookies  PROVE Stays
  BY <1>6 DEF KeysKnown, SignedIn
<1>7. w \in Users => ~LockedOut(w)
  <2>1. w \in Users => SignedIn(b, w)
    BY DEF SignedIn
  <2>. QED  BY <2>1 DEF KeysKnown
<1>8. CASE Logout(b, c) \/ ChallengeEnds(b, c)
  <2>1. Answer(b, c, Empty) /\ secret' = secret /\ totp_enabled' = totp_enabled
    BY <1>8 DEF Logout, ChallengeEnds, dbVars
  <2>. QED  BY <1>2, <1>4, <1>5, <2>1, CookiesTyped, AccessAssumption
<1>9. ASSUME NEW u \in Users, Login(b, c, u)  PROVE Sealed /\ Stays
  <2>1. secret' = secret /\ totp_enabled' = totp_enabled
    BY <1>9 DEF Login, dbVars
  <2>2. CASE ~totp_enabled[u]
    <3>1. Answer(b, c, Signed(u)) /\ ~LockedOut(u)
      BY <1>9, <2>2 DEF Login, LockedOut
    <3>2. Signed(u) \in Cookie /\ Signed(u).user = u
      BY CookiesTyped
    <3>. QED  BY <1>4, <1>5, <2>1, <3>1, <3>2
  <2>3. CASE totp_enabled[u] /\ secret[u] = NoSecret
    <3>1. Answer(b, c, c)
      BY <1>9, <2>3 DEF Login
    <3>. QED  BY <1>1, <1>4, <1>5, <1>7, <2>1, <3>1
  <2>4. CASE totp_enabled[u] /\ secret[u] # NoSecret
    <3>. DEFINE n == [Empty EXCEPT !.pending = u]
    <3>1. Answer(b, c, n) /\ n \in Cookie /\ n.user = Nobody
      BY <1>9, <2>4, CookiesTyped DEF Login
    <3>. HIDE DEF n
    <3>. QED  BY <1>4, <1>5, <2>1, <3>1, AccessAssumption
  <2>. QED  BY <2>2, <2>3, <2>4
<1>10. CASE WrongCode(b, c)
  <2>. DEFINE n == [c EXCEPT !.attempts = @ + 1]
  <2>1. secret' = secret /\ totp_enabled' = totp_enabled
    BY <1>10 DEF WrongCode, dbVars
  <2>2. Answer(b, c, n) /\ n \in Cookie /\ n.user = w
    BY <1>1, <1>10, WrongTyped DEF WrongCode
  <2>. HIDE DEF n
  <2>. QED  BY <1>2, <1>4, <1>5, <1>7, <2>1, <2>2
<1>11. ASSUME NEW s \in 1..issued, RightCode(b, c, s)  PROVE Sealed /\ Stays
  <2>1. /\ v \in Users /\ totp_enabled' = totp_enabled /\ Answer(b, c, Signed(v)) /\ Readable(v)
        /\ secret' = [secret EXCEPT ![v].sealed = key]
    BY <1>1, <1>11 DEF RightCode, Challenged, Reseal, Accepts
  <2>2. ~LockedOut(v)
    BY <2>1 DEF LockedOut
  <2>3. secret'[v].sealed = key /\ \A x \in Users \ {v} : secret'[x] = secret[x]
    BY <1>1, <2>1 DEF SecretRow
  <2>4. Signed(v) \in Cookie /\ Signed(v).user = v
    BY <2>1, CookiesTyped
  <2>5. Stays
    BY <1>5, <2>1, <2>2, <2>4
  <2>. QED  BY <1>3, <2>1, <2>2, <2>3, <2>5
<1>12. ASSUME NEW p \in Passwords, ChangePassword(b, c, p)  PROVE Sealed /\ Stays
  <2>1. /\ secret' = secret /\ totp_enabled' = totp_enabled
        /\ w \in Users /\ Answer(b, c, Signed(w))
    BY <1>1, <1>12 DEF ChangePassword
  <2>2. Signed(w) \in Cookie /\ Signed(w).user = w
    BY <2>1, CookiesTyped
  <2>. QED  BY <1>4, <1>5, <1>7, <2>1, <2>2
<1>13. CASE Setup2fa(c)
  <2>1. /\ w \in Users /\ totp_enabled' = totp_enabled /\ cookies' = cookies
        /\ secret' = [secret EXCEPT ![w] = [id |-> issued', sealed |-> key]]
    BY <1>1, <1>13 DEF Setup2fa
  <2>2. secret'[w].sealed = key /\ \A x \in Users \ {w} : secret'[x] = secret[x]
    BY <1>1, <2>1
  <2>. QED  BY <1>2, <1>3, <1>6, <1>7, <2>1, <2>2
<1>14. ASSUME NEW s \in 1..issued, Verify2fa(c, s)  PROVE Sealed /\ Stays
  <2>1. /\ w \in Users /\ cookies' = cookies /\ Reseal(w)
        /\ totp_enabled' = [totp_enabled EXCEPT ![w] = TRUE]
    BY <1>1, <1>14 DEF Verify2fa
  <2>2. /\ secret'[w].sealed = key
        /\ \A x \in Users \ {w} : secret'[x] = secret[x] /\ totp_enabled'[x] = totp_enabled[x]
    BY <1>1, <2>1 DEF Reseal, SecretRow
  <2>. QED  BY <1>3, <1>6, <1>7, <2>1, <2>2
<1>15. ASSUME NEW s \in 1..issued, Disable2fa(c, s)  PROVE Sealed /\ Stays
  <2>1. /\ w \in Users /\ cookies' = cookies
        /\ totp_enabled' = [totp_enabled EXCEPT ![w] = FALSE]
        /\ secret' = [secret EXCEPT ![w] = NoSecret]
    BY <1>1, <1>15 DEF Disable2fa
  <2>2. /\ secret'[w].sealed = Plain
        /\ \A x \in Users \ {w} : secret'[x] = secret[x] /\ totp_enabled'[x] = totp_enabled[x]
    BY <1>1, <2>1 DEF NoSecret
  <2>. QED  BY <1>3, <1>6, <1>7, <2>1, <2>2
<1>16. Sealed /\ Stays
  BY <1>8, <1>9, <1>10, <1>11, <1>12, <1>13, <1>14, <1>15 DEF UserNext, OtherRequest
<1>. QED  BY <1>2, <1>16

\* No link changes its key; a new one has the present key.
LEMMA LinkKeys ==
  ASSUME AccessInv, NEW u \in Users, NewLink(u)
  PROVE  /\ \A t \in DOMAIN tokens : t \in DOMAIN tokens' /\ tokens'[t].key = tokens[t].key
         /\ \A t \in DOMAIN tokens' : t \in DOMAIN tokens \/ tokens'[t].key = key
<1>. DEFINE row == [user |-> u, expires_at |-> now + TokenLife, used |-> FALSE, key |-> key]
<1>1. now \in Nat /\ DataOK
  BY DEF AccessInv, RateInv, RateTypeOK
<1>2. /\ DOMAIN tokens = 1..Len(tokens) /\ Len(tokens) \in Nat
      /\ \A t \in DOMAIN tokens : tokens[t] \in TokenRow
      /\ Retired(u) \in Seq(TokenRow) /\ Len(Retired(u)) = Len(tokens)
      /\ \A t \in DOMAIN tokens :
           Retired(u)[t] = IF t \in Unused(u) THEN [tokens[t] EXCEPT !.used = TRUE] ELSE tokens[t]
  BY <1>1, LinksTyped
<1>3. row \in TokenRow /\ row.key = key
  BY <1>1, NumbersAreNat DEF TokenRow, DataOK
<1>4. tokens' = Append(Retired(u), row)
  BY DEF NewLink
<1>. HIDE DEF row
<1>5. /\ DOMAIN tokens' = DOMAIN Retired(u) \cup {Len(tokens) + 1}
      /\ \A t \in DOMAIN Retired(u) : tokens'[t] = Retired(u)[t]
      /\ tokens'[Len(tokens) + 1] = row
  BY <1>2, <1>3, <1>4, RowAppended
<1>6. DOMAIN Retired(u) = DOMAIN tokens
  BY DEF Retired
<1>7. \A t \in DOMAIN tokens : Retired(u)[t].key = tokens[t].key
  BY <1>2 DEF TokenRow
<1>. QED  BY <1>3, <1>5, <1>6, <1>7

\* Nor does spending one.
LEMMA SpentKeys ==
  ASSUME AccessInv, NEW t \in DOMAIN tokens, NEW p \in Passwords, ResetPassword(t, p)
  PROVE  /\ DOMAIN tokens' = DOMAIN tokens
         /\ \A v \in DOMAIN tokens : tokens'[v].key = tokens[v].key
<1>1. \A v \in DOMAIN tokens : tokens[v] \in TokenRow
  BY RowInSet DEF AccessInv, DataOK
<1>2. tokens' = [tokens EXCEPT ![t].used = TRUE]
  BY DEF ResetPassword
<1>. QED  BY <1>1, <1>2 DEF TokenRow

\* A step of nobody's browser: a link is made or spent, the process starts again.
LEMMA OthersKeepKeys ==
  ASSUME AccessInv, KeysKnown, AccessNext, ~\E b \in Browsers : \E c \in cookies[b] : UserNext(b, c)
  PROVE  /\ KeysKnown'
         /\ \A u \in Users : LockedOut(u) => LockedOut(u)' /\ secret'[u] = secret[u]
<1>1. /\ key \in Nat /\ secret' = secret /\ totp_enabled' = totp_enabled
      /\ \A u \in Users : secret[u].sealed \in Int /\ secret[u].sealed <= key
      /\ \A t \in DOMAIN tokens : tokens[t].key \in Nat /\ tokens[t].key <= key
  <2>1. \A t \in DOMAIN tokens : tokens[t] \in TokenRow
    BY RowInSet DEF AccessInv, DataOK
  <2>. QED  BY <2>1, SecretsOfOthers, NumbersAreNat
            DEF AccessInv, DataOK, SecretRow, TokenRow, Plain, KeysKnown
<1>2. ASSUME key' = key, cookies' = cookies
      PROVE  /\ \A u \in Users : LockedOut(u)' <=> LockedOut(u)
             /\ \A u \in Users : LockedOut(u)' => \A b \in Browsers : ~SignedIn(b, u)'
  BY <1>1, <1>2 DEF LockedOut, Readable, KeysKnown, SignedIn
<1>3. ASSUME key' = key, cookies' = cookies,
             \A t \in DOMAIN tokens' : tokens'[t].key <= key
      PROVE  /\ KeysKnown'
             /\ \A u \in Users : LockedOut(u) => LockedOut(u)' /\ secret'[u] = secret[u]
  BY <1>1, <1>2, <1>3 DEF KeysKnown
<1>4. CASE Restart /\ key' = key + 1 /\ cookies' = [b \in Browsers |-> {Empty}]
  <2>1. tokens' = tokens
    BY <1>4 DEF Restart, dbVars
  <2>2. \A b \in Browsers, u \in Users : ~SignedIn(b, u)'
    BY <1>4, CookiesTyped, AccessAssumption DEF SignedIn
  <2>3. \A u \in Users : LockedOut(u) => LockedOut(u)'
    BY <1>1, <1>4 DEF LockedOut, Readable, Plain
  <2>. QED  BY <1>1, <1>4, <2>1, <2>2, <2>3 DEF KeysKnown
<1>5. CASE Restart /\ UNCHANGED <<key, cookies>>
  <2>1. tokens' = tokens
    BY <1>5 DEF Restart, dbVars
  <2>. QED  BY <1>1, <1>3, <1>5, <2>1
<1>6. ASSUME NEW u \in Users, NEW matches \in BOOLEAN, ForgotPassword(u, matches)
      PROVE  /\ KeysKnown'
             /\ \A v \in Users : LockedOut(v) => LockedOut(v)' /\ secret'[v] = secret[v]
  <2>1. key' = key /\ cookies' = cookies /\ (NewLink(u) \/ tokens' = tokens)
    BY <1>6 DEF ForgotPassword
  <2>2. ASSUME NewLink(u)  PROVE \A t \in DOMAIN tokens' : tokens'[t].key <= key
    BY <1>1, <2>2, LinkKeys
  <2>. QED  BY <1>1, <1>3, <2>1, <2>2
<1>7. ASSUME NEW t \in DOMAIN tokens, NEW p \in Passwords, ResetPassword(t, p)
      PROVE  /\ KeysKnown'
             /\ \A v \in Users : LockedOut(v) => LockedOut(v)' /\ secret'[v] = secret[v]
  <2>1. key' = key /\ cookies' = cookies
    BY <1>7 DEF ResetPassword
  <2>2. \A v \in DOMAIN tokens' : v \in DOMAIN tokens /\ tokens'[v].key = tokens[v].key
    BY <1>7, SpentKeys
  <2>. QED  BY <1>1, <1>3, <2>1, <2>2
<1>8. CASE UNCHANGED <<key, cookies, tokens>>
  BY <1>1, <1>3, <1>8
<1>. QED  BY <1>4, <1>5, <1>6, <1>7, <1>8
          DEF AccessNext, ServerNext, FailedLogin, CutOff, Restart, TimePasses, dbVars

\* Through restarts with lost keys: nobody holds a session whose secret is unreadable.
LEMMA KeysInvariant == AccessSpec => []KeysKnown
<1>1. AccessInit => KeysKnown
  BY NumbersAreNat DEF AccessInit, KeysKnown, LockedOut, Readable, NoSecret, Plain
<1>2. AccessInv /\ KeysKnown /\ [AccessNext]_vars => KeysKnown'
  <2>. SUFFICES ASSUME AccessInv, KeysKnown, [AccessNext]_vars  PROVE KeysKnown'
    OBVIOUS
  <2>1. CASE \E b \in Browsers : \E c \in cookies[b] : UserNext(b, c)
    BY <2>1, BrowserKeepsKeys DEF KeysKnown
  <2>2. CASE AccessNext /\ ~\E b \in Browsers : \E c \in cookies[b] : UserNext(b, c)
    BY <2>2, OthersKeepKeys
  <2>3. CASE UNCHANGED vars
    BY <2>3 DEF vars, dbVars, KeysKnown, LockedOut, Readable, SignedIn
  <2>. QED  BY <2>1, <2>2, <2>3
<1>. QED  BY <1>1, <1>2, AccessInvariant, PTL DEF AccessSpec

\* auth.py without configured keys: a user with two-factor whose secret a restart
\* has made unreadable has a complete session nowhere, for good; no request
\* changes the secret or takes two-factor back, and no second restart helps.
THEOREM LockedOutForGood ==
  AccessSpec =>
    /\ [](\A u \in Users : LockedOut(u) => \A b \in Browsers : ~SignedIn(b, u))
    /\ [][\A u \in Users : LockedOut(u) => LockedOut(u)' /\ secret'[u] = secret[u]]_vars
<1>1. KeysKnown => \A u \in Users : LockedOut(u) => \A b \in Browsers : ~SignedIn(b, u)
  BY DEF KeysKnown
<1>2. AccessInv /\ KeysKnown /\ [AccessNext]_vars
        => [\A u \in Users : LockedOut(u) => LockedOut(u)' /\ secret'[u] = secret[u]]_vars
  BY BrowserKeepsKeys, OthersKeepKeys
<1>. QED  BY <1>1, <1>2, AccessInvariant, KeysInvariant, PTL DEF AccessSpec

\* password_reset_email.py: a reset link that was signed with a key since lost is
\* never good again, whatever keys follow, although its row is not touched.
THEOREM LostLinksStayLost ==
  AccessSpec => [][\A t \in DOMAIN tokens : tokens[t].key # key =>
                     /\ t \in DOMAIN tokens' /\ tokens'[t].key # key'
                     /\ \A p \in Passwords : ~ResetPassword(t, p)]_vars
<1>1. ASSUME AccessInv, KeysKnown, [AccessNext]_vars, NEW t \in DOMAIN tokens, tokens[t].key # key
      PROVE  /\ t \in DOMAIN tokens' /\ tokens'[t].key # key'
             /\ \A p \in Passwords : ~ResetPassword(t, p)
  <2>1. tokens[t].key \in Nat /\ key \in Nat /\ tokens[t].key < key
    <3>1. tokens[t] \in TokenRow
      BY <1>1, RowInSet DEF AccessInv, DataOK
    <3>. QED  BY <1>1, <3>1, NumbersAreNat DEF TokenRow, KeysKnown, AccessInv, DataOK
  <2>2. key' \in Nat /\ key <= key'
    BY <1>1, <2>1, BrowserKeepsKeys
    DEF AccessNext, ServerNext, FailedLogin, ForgotPassword, ResetPassword, CutOff, Restart, TimePasses, vars
  <2>3. t \in DOMAIN tokens' /\ tokens'[t].key = tokens[t].key
    <3>1. CASE UNCHANGED vars
      BY <3>1 DEF vars, dbVars
    <3>2. CASE AccessNext
      BY <1>1, <3>2, LinkCases, LinkKeys, SpentKeys
    <3>. QED  BY <1>1, <3>1, <3>2
  <2>4. \A p \in Passwords : ~ResetPassword(t, p)
    BY <1>1 DEF ResetPassword
  <2>. QED  BY <2>1, <2>2, <2>3, <2>4
<1>2. AccessInv /\ KeysKnown /\ [AccessNext]_vars
        => [\A t \in DOMAIN tokens : tokens[t].key # key =>
              /\ t \in DOMAIN tokens' /\ tokens'[t].key # key'
              /\ \A p \in Passwords : ~ResetPassword(t, p)]_vars
  BY <1>1
<1>. QED  BY <1>2, AccessInvariant, KeysInvariant, PTL DEF AccessSpec
=============================================================================
