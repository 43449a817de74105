------------------------ MODULE ThresholdPolicyProofs ------------------------
(***************************************************************************)
(* What the operations of History guarantee, one lemma per operation, for  *)
(* any history that is typed and indexed.                                  *)
(***************************************************************************)
EXTENDS ThresholdPolicy, FiniteSetTheorems, WellFoundedInduction,
        SequenceTheorems, TLAPS

\* Every nonempty set of naturals has a least element.
LEMMA LeastNatural ==
  ASSUME NEW T, T \subseteq Nat, T # {}
  PROVE  \E m \in T : \A n \in T : m <= n
<1> DEFINE R == {p \in Nat \X Nat : p[1] < p[2]}
<1>1. IsWellFoundedOn(R, Nat)
  BY NatLessThanWellFounded DEF OpToRel
<1> HIDE DEF R
<1>2. \E m \in T : \A n \in T : ~(<<n, m>> \in R)
  BY <1>1, WFMin
<1>3. PICK m \in T : \A n \in T : ~(<<n, m>> \in R)
  BY <1>2
<1>4. ASSUME NEW n \in T, ~(m <= n) PROVE FALSE
  <2>1. m \in Nat /\ n \in Nat /\ n < m
    BY <1>4
  <2>2. <<n, m>> \in R
    BY <2>1 DEF R
  <2> QED
    BY <1>3, <2>2
<1> QED
  BY <1>4

\* The index order of by_activity is well-founded: the loop of
\* evict_stalest_until has a first entry to take.
LEMMA LeastEntry ==
  ASSUME NEW E, E \subseteq Nat \X Nat, E # {}
  PROVE  \E e \in E : \A x \in E : ~Before(x, e)
<1> DEFINE K == {e[1] : e \in E}
<1>1. PICK k \in K : \A n \in K : k <= n
  <2>1. K \subseteq Nat /\ K # {}
    OBVIOUS
  <2> QED
    BY <2>1, LeastNatural
<1> DEFINE I == {e[2] : e \in {x \in E : x[1] = k}}
<1>2. PICK i \in I : \A n \in I : i <= n
  <2>1. I \subseteq Nat /\ I # {}
    OBVIOUS
  <2> QED
    BY <2>1, LeastNatural
<1>3. PICK e \in E : e[1] = k /\ e[2] = i
  OBVIOUS
<1>4. ASSUME NEW x \in E, Before(x, e) PROVE FALSE
  <2>1. x[1] \in K /\ k <= x[1] /\ x[1] \in Nat /\ x[2] \in Nat /\ k \in Nat /\ i \in Nat
    BY <1>1, <1>3
  <2>2. x[1] = k /\ x[2] < i
    BY <1>3, <1>4, <2>1 DEF Before
  <2>3. x[2] \in I
    BY <2>2
  <2> QED
    BY <1>2, <2>1, <2>2, <2>3
<1> QED
  BY <1>4

\* The loop of prune_stale stops at the first timestamp still in the window.
LEMMA StalePrefixStops ==
  ASSUME NEW ts \in Seq(Instant), NEW t \in Nat, NEW w \in Nat
  PROVE  LET k == StalePrefix(ts, t, w)
         IN  /\ k \in 0..Len(ts)
             /\ \A i \in 1..k : Stale(ts[i], t, w)
             /\ k < Len(ts) => ~Stale(ts[k + 1], t, w)
<1> DEFINE Fresh == {i \in 1..Len(ts) : ~Stale(ts[i], t, w)}
<1>1. \E k \in 0..Len(ts) : /\ \A i \in 1..k : Stale(ts[i], t, w)
                            /\ k < Len(ts) => ~Stale(ts[k + 1], t, w)
  <2>1. CASE Fresh = {}
    <3>1. Len(ts) \in 0..Len(ts) /\ \A i \in 1..Len(ts) : Stale(ts[i], t, w)
      BY <2>1
    <3> QED
      BY <3>1
  <2>2. CASE Fresh # {}
    <3>1. PICK m \in Fresh : \A n \in Fresh : m <= n
      <4>1. Fresh \subseteq Nat
        OBVIOUS
      <4> HIDE DEF Fresh
      <4> QED
        BY <2>2, <4>1, LeastNatural
    <3>2. /\ m - 1 \in 0..Len(ts)
          /\ \A i \in 1..(m - 1) : Stale(ts[i], t, w)
          /\ ~Stale(ts[(m - 1) + 1], t, w)
      BY <3>1
    <3> QED
      BY <3>2
  <2> QED
    BY <2>1, <2>2
<1> QED
  BY <1>1 DEF StalePrefix

-----------------------------------------------------------------------------

\* A history over the identities I that is typed and in which every tracked
\* identity can be found through the index.
HistoryOK(h, I) ==
  /\ Tracked(h) \subseteq I
  /\ IsFiniteSet(Tracked(h))
  /\ h.byIdentity \in [Tracked(h) -> Seq(Instant)]
  /\ h.byActivity \subseteq Nat \X I
  /\ \A id \in Tracked(h) : \E e \in h.byActivity : e[2] = id

\* evict_stalest_until only takes identities away and leaves at most target:
\* the loop cannot break out early for want of an index entry.
LEMMA EvictLeavesTarget ==
  ASSUME NEW I, I \subseteq Nat, NEW h, HistoryOK(h, I), NEW target \in Nat
  PROVE  LET g == EvictStalestUntil(h, target)
         IN  /\ HistoryOK(g, I)
             /\ Tracked(g) \subseteq Tracked(h)
             /\ \A i \in Tracked(g) : g.byIdentity[i] = h.byIdentity[i]
             /\ Cardinality(Tracked(g)) <= target
<1> DEFINE left(gone) == Tracked(h) \ {e[2] : e \in gone}
           before(e) == {x \in h.byActivity : Before(x, e)}
           evicted == {e \in h.byActivity : Cardinality(left(before(e))) > target}
           rest == h.byActivity \ evicted
           g == [byIdentity |-> [i \in left(evicted) |-> h.byIdentity[i]],
                 byActivity |-> rest]
<1>1. EvictStalestUntil(h, target) = g
  BY DEF EvictStalestUntil
<1>2. Tracked(g) = left(evicted)
  BY DEF Tracked
<1>3. \A id \in left(evicted) : \E e \in rest : e[2] = id
  BY DEF HistoryOK
<1>4. IsFiniteSet(left(evicted))
  BY FS_Subset, left(evicted) \subseteq Tracked(h) DEF HistoryOK
<1>5. Cardinality(left(evicted)) <= target
  <2>1. CASE rest = {}
    <3>1. left(evicted) = {}
      BY <1>3, <2>1
    <3> HIDE DEF left, evicted
    <3>2. Cardinality(left(evicted)) = 0
      BY <3>1, FS_EmptySet
    <3> QED
      BY <3>2
  <2>2. CASE rest # {}
    <3>1. rest \subseteq Nat \X Nat
      BY DEF HistoryOK
    <3>2. PICK e \in rest : \A x \in rest : ~Before(x, e)
      <4> HIDE DEF rest
      <4> QED
        BY <2>2, <3>1, LeastEntry
    <3>3. before(e) \subseteq evicted
      BY <3>2
    <3>4. left(evicted) \subseteq left(before(e))
      <4> HIDE DEF before, evicted
      <4> QED
        BY <3>3
    <3>5. IsFiniteSet(left(before(e))) /\ Cardinality(left(before(e))) \in Nat
      BY FS_Subset, FS_CardinalityType, left(before(e)) \subseteq Tracked(h) DEF HistoryOK
    <3>6. ~(Cardinality(left(before(e))) > target)
      BY <3>2
    <3>7. Cardinality(left(evicted)) <= Cardinality(left(before(e)))
      <4> HIDE DEF left, before, evicted
      <4> QED
        BY <3>4, <3>5, FS_Subset
    <3>8. Cardinality(left(evicted)) \in Nat
      BY <1>4, FS_CardinalityType
    <3> HIDE DEF left, before, evicted
    <3> QED
      BY <3>5, <3>6, <3>7, <3>8
  <2> QED
    BY <2>1, <2>2
<1>6. HistoryOK(g, I)
  <2>1. left(evicted) \subseteq I /\ rest \subseteq Nat \X I
    BY DEF HistoryOK
  <2>2. g.byIdentity \in [left(evicted) -> Seq(Instant)]
    BY DEF HistoryOK
  <2>3. g.byActivity = rest
    OBVIOUS
  <2> HIDE DEF left, evicted, rest, g
  <2> QED
    BY <1>2, <1>3, <1>4, <2>1, <2>2, <2>3 DEF HistoryOK
<1>7. \A i \in Tracked(g) : g.byIdentity[i] = h.byIdentity[i]
  BY <1>2
<1>8. Tracked(g) \subseteq Tracked(h)
  BY <1>2
<1> HIDE DEF g
<1> QED
  BY <1>1, <1>2, <1>5, <1>6, <1>7, <1>8

\* ensure adds at most id, with an empty window, and indexes it.
LEMMA EnsureTracks ==
  ASSUME NEW I, NEW h, HistoryOK(h, I), NEW id \in I
  PROVE  LET g == Ensure(h, id)
         IN  /\ HistoryOK(g, I)
             /\ Tracked(g) = Tracked(h) \cup {id}
             /\ \A i \in Tracked(h) : g.byIdentity[i] = h.byIdentity[i]
             /\ id \notin Tracked(h) => g.byIdentity[id] = <<>>
<1> DEFINE window(i) == IF i = id THEN <<>> ELSE h.byIdentity[i]
           g == [byIdentity |-> [i \in Tracked(h) \cup {id} |-> window(i)],
                 byActivity |-> h.byActivity \cup {<<None, id>>}]
<1>1. CASE id \in Tracked(h)
  BY <1>1 DEF Ensure
<1>2. CASE id \notin Tracked(h)
  <2>1. Ensure(h, id) = g
    BY <1>2 DEF Ensure
  <2>2. Tracked(g) = Tracked(h) \cup {id}
    BY DEF Tracked
  <2>3. IsFiniteSet(Tracked(h) \cup {id})
    BY FS_AddElement DEF HistoryOK
  <2>4. \A i \in Tracked(h) \cup {id} : window(i) \in Seq(Instant)
    BY DEF HistoryOK
  <2>5. g.byIdentity \in [Tracked(h) \cup {id} -> Seq(Instant)]
    BY <2>4
  <2>6. \A i \in Tracked(h) \cup {id} : \E e \in g.byActivity : e[2] = i
    <3>1. \A i \in Tracked(h) : \E e \in g.byActivity : e[2] = i
      BY DEF HistoryOK
    <3>2. <<None, id>> \in g.byActivity /\ <<None, id>>[2] = id
      OBVIOUS
    <3> HIDE DEF g
    <3> QED
      BY <3>1, <3>2
  <2>7. g.byActivity \subseteq Nat \X I
    BY DEF HistoryOK, None
  <2>8. HistoryOK(g, I)
    BY <2>2, <2>3, <2>5, <2>6, <2>7 DEF HistoryOK
  <2>9. g.byIdentity[id] = <<>> /\ \A i \in Tracked(h) : g.byIdentity[i] = h.byIdentity[i]
    BY <1>2
  <2> HIDE DEF g
  <2> QED
    BY <2>1, <2>2, <2>8, <2>9
<1> QED
  BY <1>1, <1>2

-----------------------------------------------------------------------------
(* One identity's window, against all it was granted.                      *)

\* kept is the end of granted, and what it lacks is out of the window w at t.
KeepsRecent(kept, granted, t, w) ==
  LET popped == Len(granted) - Len(kept)
  IN  /\ popped >= 0
      /\ \A j \in 1..Len(kept) : kept[j] = granted[popped + j]
      /\ \A i \in 1..popped : Stale(granted[i], t, w)

\* Any max + 1 consecutive grants span more than w.
Spaced(granted, max, w) ==
  \A i \in 1..(Len(granted) - max) : granted[i + max] - granted[i] > w

Copies(n, t) == [i \in 1..n |-> t]

\* What the loop of prune_stale leaves is still the recent end.
LEMMA PruneKeepsRecent ==
  ASSUME NEW kept \in Seq(Instant), NEW granted \in Seq(Instant),
         NEW t \in Instant, NEW w \in Nat, KeepsRecent(kept, granted, t, w)
  PROVE  LET rest == SubSeq(kept, StalePrefix(kept, t, w) + 1, Len(kept))
         IN  rest \in Seq(Instant) /\ KeepsRecent(rest, granted, t, w)
<1> DEFINE k == StalePrefix(kept, t, w)
           rest == SubSeq(kept, k + 1, Len(kept))
<1>1. k \in 0..Len(kept) /\ \A i \in 1..k : Stale(kept[i], t, w)
  BY StalePrefixStops DEF Instant
<1> HIDE DEF k
<1>2. /\ rest \in Seq(Instant)
      /\ Len(rest) = Len(kept) - k
      /\ \A j \in 1..Len(rest) : rest[j] = kept[k + j]
  <2>1. k + 1 \in Int /\ Len(kept) \in Int /\ \A i \in (k + 1)..Len(kept) : kept[i] \in Instant
    BY <1>1, ElementOfSeq
  <2>2. /\ rest \in Seq(Instant)
        /\ Len(rest) = IF k + 1 <= Len(kept) THEN Len(kept) - (k + 1) + 1 ELSE 0
        /\ \A j \in 1..(Len(kept) - (k + 1) + 1) : rest[j] = kept[k + 1 + j - 1]
    BY <2>1, SubSeqProperties
  <2> HIDE DEF rest
  <2>3. Len(rest) = Len(kept) - k
    BY <1>1, <2>1, <2>2
  <2>4. ASSUME NEW j \in 1..Len(rest) PROVE rest[j] = kept[k + j]
    <3>1. j \in 1..(Len(kept) - (k + 1) + 1) /\ k + 1 + j - 1 = k + j
      BY <1>1, <2>1, <2>3
    <3>2. rest[j] = kept[k + 1 + j - 1]
      BY <2>2, <3>1
    <3> QED
      BY <3>1, <3>2
  <2> QED
    BY <2>2, <2>3, <2>4
<1> HIDE DEF rest
<1>3. Len(granted) \in Nat /\ Len(kept) \in Nat /\ Len(rest) \in Nat
  BY <1>2
<1>4. \A j \in 1..Len(rest) : rest[j] = granted[Len(granted) - Len(rest) + j]
  <2> SUFFICES ASSUME NEW j \in 1..Len(rest)
               PROVE  rest[j] = granted[Len(granted) - Len(rest) + j]
    OBVIOUS
  <2>1. k + j \in 1..Len(kept)
    BY <1>1, <1>2, <1>3
  <2>2. kept[k + j] = granted[Len(granted) - Len(kept) + (k + j)]
    BY <2>1 DEF KeepsRecent
  <2>3. Len(granted) - Len(kept) + (k + j) = Len(granted) - Len(rest) + j
    BY <1>1, <1>2, <1>3
  <2> QED
    BY <1>2, <2>2, <2>3
<1>5. \A i \in 1..(Len(granted) - Len(rest)) : Stale(granted[i], t, w)
  <2> SUFFICES ASSUME NEW i \in 1..(Len(granted) - Len(rest))
               PROVE  Stale(granted[i], t, w)
    OBVIOUS
  <2> DEFINE popped == Len(granted) - Len(kept)
  <2>1. CASE i <= popped
    BY <1>3, <2>1 DEF KeepsRecent
  <2>2. CASE i > popped
    <3>1. i - popped \in 1..k /\ i - popped \in 1..Len(kept) /\ popped + (i - popped) = i
      BY <1>1, <1>2, <1>3, <2>2 DEF KeepsRecent
    <3>2. kept[i - popped] = granted[popped + (i - popped)]
      BY <3>1 DEF KeepsRecent
    <3> QED
      BY <1>1, <3>1, <3>2
  <2> QED
    BY <1>3, <2>1, <2>2
<1>6. Len(granted) - Len(rest) >= 0
  BY <1>1, <1>2, <1>3 DEF KeepsRecent
<1> QED
  BY <1>2, <1>4, <1>5, <1>6 DEF KeepsRecent, rest, k

\* n copies of the present, as a sequence.
LEMMA CopiesType ==
  ASSUME NEW n \in Nat, NEW t \in Instant
  PROVE  /\ Copies(n, t) \in Seq(Instant)
         /\ Len(Copies(n, t)) = n
         /\ \A i \in 1..n : Copies(n, t)[i] = t
BY DEF Copies, Instant

\* Recording the same grant on both sides keeps them aligned.
LEMMA RecordKeepsRecent ==
  ASSUME NEW kept \in Seq(Instant), NEW granted \in Seq(Instant),
         NEW t \in Instant, NEW w \in Nat, KeepsRecent(kept, granted, t, w),
         NEW n \in Nat
  PROVE  /\ kept \o Copies(n, t) \in Seq(Instant)
         /\ granted \o Copies(n, t) \in Seq(Instant)
         /\ KeepsRecent(kept \o Copies(n, t), granted \o Copies(n, t), t, w)
<1> DEFINE c == Copies(n, t)
           k2 == kept \o c
           g2 == granted \o c
<1>1. c \in Seq(Instant) /\ Len(c) = n
  BY CopiesType
<1> HIDE DEF c
<1>2. /\ k2 \in Seq(Instant) /\ Len(k2) = Len(kept) + n
      /\ g2 \in Seq(Instant) /\ Len(g2) = Len(granted) + n
      /\ \A i \in 1..Len(k2) : k2[i] = IF i <= Len(kept) THEN kept[i] ELSE c[i - Len(kept)]
      /\ \A i \in 1..Len(g2) : g2[i] = IF i <= Len(granted) THEN granted[i]
                                       ELSE c[i - Len(granted)]
  BY <1>1, ConcatProperties
<1> HIDE DEF k2, g2
<1>3. Len(kept) \in Nat /\ Len(granted) \in Nat /\ Len(granted) - Len(kept) >= 0
  BY DEF KeepsRecent
<1>4. Len(g2) - Len(k2) = Len(granted) - Len(kept)
  BY <1>2, <1>3
<1>5. ASSUME NEW j \in 1..Len(k2)
      PROVE  k2[j] = g2[Len(g2) - Len(k2) + j]
  <2> DEFINE popped == Len(granted) - Len(kept)
  <2>0. popped \in Nat /\ popped + j \in 1..Len(g2) /\ Len(g2) - Len(k2) = popped
    BY <1>2, <1>3, <1>4
  <2>1. CASE j <= Len(kept)
    <3>1. kept[j] = granted[popped + j] /\ popped + j <= Len(granted)
      BY <1>2, <1>3, <2>1 DEF KeepsRecent
    <3> QED
      BY <1>2, <2>0, <2>1, <3>1
  <2>2. CASE ~(j <= Len(kept))
    <3>1. ~(popped + j <= Len(granted)) /\ popped + j - Len(granted) = j - Len(kept)
      BY <1>2, <1>3, <2>2
    <3>2. k2[j] = c[j - Len(kept)] /\ g2[popped + j] = c[popped + j - Len(granted)]
      BY <1>2, <2>0, <2>2, <3>1
    <3> HIDE DEF popped
    <3> QED
      BY <2>0, <3>1, <3>2
  <2> QED
    BY <2>1, <2>2
<1>6. ASSUME NEW i \in 1..(Len(g2) - Len(k2))
      PROVE  Stale(g2[i], t, w)
  <2>1. i \in 1..(Len(granted) - Len(kept)) /\ i \in 1..Len(g2) /\ i <= Len(granted)
    BY <1>2, <1>3, <1>4
  <2>2. Stale(granted[i], t, w)
    BY <2>1 DEF KeepsRecent
  <2> QED
    BY <1>2, <2>1, <2>2
<1>7. KeepsRecent(k2, g2, t, w)
  BY <1>3, <1>4, <1>5, <1>6 DEF KeepsRecent
<1> QED
  BY <1>2, <1>7 DEF k2, g2, c

\* The sliding-window argument: a grant that fits next to what is kept is
\* more than w away from the grant max places earlier, because that one has
\* been popped.
LEMMA GrantKeepsSpacing ==
  ASSUME NEW kept \in Seq(Instant), NEW granted \in Seq(Instant),
         NEW t \in Instant, NEW w \in Nat, KeepsRecent(kept, granted, t, w),
         NEW n \in Nat, NEW max \in Nat, Spaced(granted, max, w),
         Len(kept) + n <= max
  PROVE  Spaced(granted \o Copies(n, t), max, w)
<1> DEFINE c == Copies(n, t)
           g2 == granted \o c
<1>1. c \in Seq(Instant) /\ Len(c) = n /\ \A i \in 1..n : c[i] = t
  BY CopiesType
<1> HIDE DEF c
<1>2. /\ Len(g2) = Len(granted) + n
      /\ \A i \in 1..Len(g2) : g2[i] = IF i <= Len(granted) THEN granted[i]
                                       ELSE c[i - Len(granted)]
  BY <1>1, ConcatProperties
<1> HIDE DEF g2
<1>3. Len(kept) \in Nat /\ Len(granted) \in Nat /\ Len(granted) - Len(kept) >= 0
  BY DEF KeepsRecent
<1>4. ASSUME NEW i \in 1..(Len(g2) - max)
      PROVE  g2[i + max] - g2[i] > w
  <2>1. i \in Nat /\ i + max \in 1..Len(g2) /\ i \in 1..Len(g2)
    BY <1>2, <1>3
  <2>2. CASE i + max <= Len(granted)
    <3>1. i \in 1..(Len(granted) - max) /\ i <= Len(granted)
      BY <1>3, <2>1, <2>2
    <3>2. granted[i + max] - granted[i] > w
      BY <3>1 DEF Spaced
    <3> QED
      BY <1>2, <2>1, <2>2, <3>1, <3>2
  <2>3. CASE ~(i + max <= Len(granted))
    <3>1. i + max - Len(granted) \in 1..n
      BY <1>2, <1>3, <2>1, <2>3
    <3>2. g2[i + max] = t
      BY <1>1, <1>2, <2>1, <2>3, <3>1
    <3>3. i \in 1..(Len(granted) - Len(kept)) /\ i <= Len(granted)
      BY <1>2, <1>3, <2>1
    <3>4. Stale(granted[i], t, w) /\ g2[i] = granted[i]
      BY <1>2, <2>1, <3>3 DEF KeepsRecent
    <3> QED
      BY <3>2, <3>4 DEF Stale
  <2> QED
    BY <2>2, <2>3
<1> QED
  BY <1>4 DEF Spaced, g2, c

-----------------------------------------------------------------------------
(* evaluate as a whole.                                                    *)

\* g differs from h in the window of id only, which is new.
ReplacesWindow(g, h, id, new) ==
  /\ Tracked(g) = Tracked(h)
  /\ g.byIdentity[id] = new
  /\ \A i \in Tracked(h) \ {id} : g.byIdentity[i] = h.byIdentity[i]

\* prune_stale replaces the window of id and touches nothing else.
LEMMA PruneTouchesOne ==
  ASSUME NEW I, NEW h, HistoryOK(h, I), NEW id \in Tracked(h),
         NEW t \in Instant, NEW w \in Nat
  PROVE  LET old == h.byIdentity[id]
             rest == SubSeq(old, StalePrefix(old, t, w) + 1, Len(old))
         IN  /\ HistoryOK(PruneStale(h, id, t, w), I)
             /\ ReplacesWindow(PruneStale(h, id, t, w), h, id, rest)
<1> DEFINE old == h.byIdentity[id]
           rest == SubSeq(old, StalePrefix(old, t, w) + 1, Len(old))
           g == [byIdentity |-> [h.byIdentity EXCEPT ![id] = rest], byActivity |-> h.byActivity]
<1>0. rest \in Seq(Instant)
  <2>1. old \in Seq(Instant)
    BY DEF HistoryOK
  <2> HIDE DEF old
  <2>2. KeepsRecent(old, old, t, w)
    BY <2>1 DEF KeepsRecent
  <2> QED
    BY <2>1, <2>2, PruneKeepsRecent
<1>1. PruneStale(h, id, t, w) = g
  BY DEF PruneStale
<1> HIDE DEF rest
<1>2. h.byIdentity \in [Tracked(h) -> Seq(Instant)]
  BY DEF HistoryOK
<1>3. g.byIdentity \in [Tracked(h) -> Seq(Instant)] /\ Tracked(g) = Tracked(h)
  BY <1>0, <1>2 DEF Tracked
<1>4. /\ g.byIdentity[id] = rest
      /\ \A i \in Tracked(h) \ {id} : g.byIdentity[i] = h.byIdentity[i]
  BY <1>2
<1>5. g.byActivity = h.byActivity
  OBVIOUS
<1> HIDE DEF g
<1>6. HistoryOK(g, I)
  BY <1>3, <1>5 DEF HistoryOK
<1> QED
  BY <1>1, <1>3, <1>4, <1>6 DEF rest, ReplacesWindow

\* record_admitted appends to the window of id and keeps it indexed.
LEMMA RecordTouchesOne ==
  ASSUME NEW I, NEW h, HistoryOK(h, I), I \subseteq Nat, NEW id \in Tracked(h),
         NEW t \in Instant, NEW n \in Nat
  PROVE  /\ HistoryOK(RecordAdmitted(h, id, t, n), I)
         /\ ReplacesWindow(RecordAdmitted(h, id, t, n), h, id, h.byIdentity[id] \o Copies(n, t))
<1> DEFINE new == h.byIdentity[id] \o Copies(n, t)
           old == ActivityKey(h.byIdentity[id])
           index == IF old = t THEN h.byActivity
                    ELSE (h.byActivity \ {<<old, id>>}) \cup {<<t, id>>}
           g == [byIdentity |-> [h.byIdentity EXCEPT ![id] = new], byActivity |-> index]
<1>1. RecordAdmitted(h, id, t, n) = g
  BY DEF RecordAdmitted, Copies
<1>2. h.byIdentity \in [Tracked(h) -> Seq(Instant)] /\ new \in Seq(Instant)
  BY CopiesType, ConcatProperties DEF HistoryOK
<1> HIDE DEF new
<1>3. g.byIdentity \in [Tracked(h) -> Seq(Instant)] /\ Tracked(g) = Tracked(h)
  BY <1>2 DEF Tracked
<1>4. /\ g.byIdentity[id] = new
      /\ \A i \in Tracked(h) \ {id} : g.byIdentity[i] = h.byIdentity[i]
  BY <1>2
<1>5. g.byActivity = index
  OBVIOUS
<1> HIDE DEF g, old
<1>6. index \subseteq Nat \X I
  BY DEF HistoryOK, Instant
<1>7. ASSUME NEW i \in Tracked(h) PROVE \E e \in index : e[2] = i
  <2>1. PICK e \in h.byActivity : e[2] = i
    BY DEF HistoryOK
  <2>2. CASE i = id /\ old # t
    <3>1. <<t, id>> \in index /\ <<t, id>>[2] = i
      BY <2>2
    <3> QED
      BY <3>1
  <2>3. CASE i # id
    <3>1. <<old, id>>[2] = id
      OBVIOUS
    <3> QED
      BY <2>1, <2>3, <3>1
  <2>4. CASE old = t
    BY <2>1, <2>4
  <2> QED
    BY <2>2, <2>3, <2>4
<1>8. HistoryOK(g, I)
  <2> HIDE DEF index
  <2> QED
    BY <1>3, <1>5, <1>6, <1>7 DEF HistoryOK
<1> QED
  BY <1>1, <1>3, <1>4, <1>8 DEF new, ReplacesWindow

\* The bound max_tracked_identities puts on the map.
Cap(c) == IF c.maxTracked = 0 THEN 1 ELSE c.maxTracked

\* granted is a ledger for h at time t: the windows are its recent ends and
\* it respects the budget.
LedgerOK(c, h, granted, t) ==
  /\ granted \in [Tracked(h) -> Seq(Instant)]
  /\ \A i \in Tracked(h) : /\ KeepsRecent(h.byIdentity[i], granted[i], t, c.window)
                           /\ Spaced(granted[i], c.maxPerWindow, c.window)

\* The ledger of the identities tracked in g, before anything is recorded.
Carried(g, granted) ==
  [i \in Tracked(g) |-> IF i \in DOMAIN granted THEN granted[i] ELSE <<>>]

\* Making room, entering the identity and pruning it keep the map bounded and
\* the ledger right.
LEMMA PrepareCorrect ==
  ASSUME NEW I, I \subseteq Nat, NEW h, HistoryOK(h, I), NEW id \in I,
         NEW t \in Instant, NEW c, c.window \in Nat, c.maxTracked \in Nat,
         c.maxPerWindow \in Nat,
         Cardinality(Tracked(h)) <= Cap(c),
         NEW granted, LedgerOK(c, h, granted, t)
  PROVE  LET p == Prepare(c, h, id, t)
         IN  /\ HistoryOK(p, I)
             /\ id \in Tracked(p)
             /\ Cardinality(Tracked(p)) <= Cap(c)
             /\ LedgerOK(c, p, Carried(p, granted), t)
<1> DEFINE room == IF id \in Tracked(h) THEN h
                   ELSE EvictStalestUntil(h, SaturatingPred(c.maxTracked))
           full == Ensure(room, id)
           base == full.byIdentity[id]
           rest == SubSeq(base, StalePrefix(base, t, c.window) + 1, Len(base))
           p == PruneStale(full, id, t, c.window)
           owed(i) == IF i \in DOMAIN granted THEN granted[i] ELSE <<>>
<1>1. Prepare(c, h, id, t) = p
  BY DEF Prepare
<1>2. /\ HistoryOK(room, I)
      /\ Tracked(room) \subseteq Tracked(h)
      /\ id \in Tracked(h) => room = h
      /\ \A i \in Tracked(room) : room.byIdentity[i] = h.byIdentity[i]
      /\ id \notin Tracked(h) => Cardinality(Tracked(room)) <= SaturatingPred(c.maxTracked)
  <2>1. SaturatingPred(c.maxTracked) \in Nat
    BY DEF SaturatingPred
  <2> QED
    BY <2>1, EvictLeavesTarget
<1> HIDE DEF room
<1>3. /\ HistoryOK(full, I)
      /\ Tracked(full) = Tracked(room) \cup {id}
      /\ \A i \in Tracked(room) : full.byIdentity[i] = room.byIdentity[i]
      /\ id \notin Tracked(room) => base = <<>>
  BY <1>2, EnsureTracks
<1> HIDE DEF full
<1>4. Cardinality(Tracked(full)) <= Cap(c)
  <2>1. CASE id \in Tracked(h)
    <3>1. Tracked(full) = Tracked(h)
      BY <1>2, <1>3, <2>1
    <3> QED
      BY <3>1
  <2>2. CASE id \notin Tracked(h)
    <3>1. IsFiniteSet(Tracked(room)) /\ Cardinality(Tracked(room)) \in Nat
      BY <1>2, FS_CardinalityType DEF HistoryOK
    <3>2. Cardinality(Tracked(full)) = Cardinality(Tracked(room)) + 1
      BY <1>2, <1>3, <2>2, <3>1, FS_AddElement
    <3> QED
      BY <1>2, <2>2, <3>1, <3>2 DEF SaturatingPred, Cap
  <2> QED
    BY <2>1, <2>2
<1>5. DOMAIN granted = Tracked(h)
  BY DEF LedgerOK
<1>6. \A i \in Tracked(full) : /\ owed(i) \in Seq(Instant)
                               /\ full.byIdentity[i] \in Seq(Instant)
                               /\ KeepsRecent(full.byIdentity[i], owed(i), t, c.window)
                               /\ Spaced(owed(i), c.maxPerWindow, c.window)
  <2> SUFFICES ASSUME NEW i \in Tracked(full)
               PROVE  /\ owed(i) \in Seq(Instant)
                      /\ full.byIdentity[i] \in Seq(Instant)
                      /\ KeepsRecent(full.byIdentity[i], owed(i), t, c.window)
                      /\ Spaced(owed(i), c.maxPerWindow, c.window)
    OBVIOUS
  <2>1. full.byIdentity[i] \in Seq(Instant)
    BY <1>3 DEF HistoryOK
  <2>2. CASE i \in Tracked(room)
    <3>1. i \in Tracked(h) /\ full.byIdentity[i] = h.byIdentity[i] /\ owed(i) = granted[i]
      BY <1>2, <1>3, <1>5, <2>2
    <3> QED
      BY <2>1, <3>1 DEF LedgerOK
  <2>3. CASE i \notin Tracked(room)
    <3>1. i = id /\ i \notin Tracked(h) /\ full.byIdentity[i] = <<>> /\ owed(i) = <<>>
      BY <1>2, <1>3, <1>5, <2>3
    <3>2. KeepsRecent(<<>>, <<>>, t, c.window)
      BY DEF KeepsRecent
    <3>3. Spaced(<<>>, c.maxPerWindow, c.window)
      BY DEF Spaced
    <3> QED
      BY <2>1, <3>1, <3>2, <3>3
  <2> QED
    BY <2>2, <2>3
<1> HIDE DEF owed
<1>7. rest \in Seq(Instant) /\ KeepsRecent(rest, owed(id), t, c.window)
  BY <1>3, <1>6, PruneKeepsRecent
<1>8. /\ HistoryOK(p, I)
      /\ Tracked(p) = Tracked(full)
      /\ p.byIdentity[id] = rest
      /\ \A i \in Tracked(full) \ {id} : p.byIdentity[i] = full.byIdentity[i]
  <2>1. HistoryOK(full, I) /\ id \in Tracked(full) /\ c.window \in Nat
    BY <1>3
  <2>2. HistoryOK(p, I) /\ ReplacesWindow(p, full, id, rest)
    BY <2>1, PruneTouchesOne
  <2> HIDE DEF p, rest
  <2> QED
    BY <2>2 DEF ReplacesWindow
<1> HIDE DEF p, rest, base
<1>9. Carried(p, granted) = [i \in Tracked(full) |-> owed(i)]
  BY <1>8 DEF Carried, owed
<1>10. LedgerOK(c, p, Carried(p, granted), t)
  BY <1>6, <1>7, <1>8, <1>9 DEF LedgerOK
<1> QED
  BY <1>1, <1>3, <1>4, <1>8, <1>10

\* evaluate keeps the map bounded and indexed, and grants nothing that would
\* put more than max_per_window units of one identity within the window.
LEMMA EvaluateCorrect ==
  ASSUME NEW I, I \subseteq Nat, NEW h, HistoryOK(h, I), NEW id \in I,
         NEW t \in Instant, NEW c, c.window \in Nat, c.maxTracked \in Nat,
         c.maxPerWindow \in Nat, NEW a, a.blastRadius \in Nat,
         Cardinality(Tracked(h)) <= Cap(c),
         NEW granted, LedgerOK(c, h, granted, t)
  PROVE  LET r == Evaluate(c, h, a, id, t)
             after == [i \in Tracked(r.history) |->
                         (IF i \in DOMAIN granted THEN granted[i] ELSE <<>>)
                           \o Copies(IF i = id THEN r.recorded ELSE 0, t)]
         IN  /\ HistoryOK(r.history, I)
             /\ Cardinality(Tracked(r.history)) <= Cap(c)
             /\ LedgerOK(c, r.history, after, t)
<1> DEFINE p == Prepare(c, h, id, t)
           r == Evaluate(c, h, a, id, t)
           n == a.blastRadius
           owed(i) == IF i \in DOMAIN granted THEN granted[i] ELSE <<>>
           after == [i \in Tracked(r.history) |->
                       owed(i) \o Copies(IF i = id THEN r.recorded ELSE 0, t)]
<1> SUFFICES /\ HistoryOK(r.history, I)
             /\ Cardinality(Tracked(r.history)) <= Cap(c)
             /\ LedgerOK(c, r.history, after, t)
  OBVIOUS
<1>1. /\ HistoryOK(p, I) /\ id \in Tracked(p)
      /\ Cardinality(Tracked(p)) <= Cap(c)
      /\ LedgerOK(c, p, Carried(p, granted), t)
  BY PrepareCorrect
<1>2. LedgerOK(c, h, Carried(h, granted), t)
  <2>1. Carried(h, granted) = granted
    BY DEF LedgerOK, Carried
  <2> QED
    BY <2>1
<1>3. ASSUME NEW g, HistoryOK(g, I), LedgerOK(c, g, Carried(g, granted), t)
      PROVE  \A i \in Tracked(g) : /\ owed(i) \in Seq(Instant)
                                   /\ g.byIdentity[i] \in Seq(Instant)
                                   /\ KeepsRecent(g.byIdentity[i], owed(i), t, c.window)
                                   /\ Spaced(owed(i), c.maxPerWindow, c.window)
  BY <1>3 DEF LedgerOK, Carried, HistoryOK
<1> HIDE DEF owed, p, n
<1>4. ASSUME NEW s \in Seq(Instant) PROVE s \o Copies(0, t) = s
  <2>1. Copies(0, t) = <<>>
    BY DEF Copies
  <2> QED
    BY <2>1, ConcatEmptySeq
<1>5. ASSUME NEW g, HistoryOK(g, I), LedgerOK(c, g, Carried(g, granted), t),
             r.history = g, r.recorded = 0, Cardinality(Tracked(g)) <= Cap(c)
      PROVE  /\ HistoryOK(r.history, I)
             /\ Cardinality(Tracked(r.history)) <= Cap(c)
             /\ LedgerOK(c, r.history, after, t)
  <2> HIDE DEF r
  <2>1. \A i \in Tracked(g) : after[i] = owed(i)
    BY <1>3, <1>4, <1>5
  <2>2. after \in [Tracked(g) -> Seq(Instant)]
    BY <1>3, <1>4, <1>5
  <2> HIDE DEF after
  <2> QED
    BY <1>3, <1>5, <2>1, <2>2 DEF LedgerOK
<1>6. CASE r.history = h /\ r.recorded = 0
  BY <1>2, <1>5, <1>6
<1>7. CASE r.history = p /\ r.recorded = 0
  BY <1>1, <1>5, <1>7
<1>8. CASE /\ r.history = RecordAdmitted(p, id, t, n)
           /\ r.recorded = n
           /\ Len(p.byIdentity[id]) + n <= c.maxPerWindow
  <2> DEFINE g == RecordAdmitted(p, id, t, n)
  <2>1. n \in Nat
    BY DEF n
  <2>2. \A i \in Tracked(p) : /\ owed(i) \in Seq(Instant)
                              /\ p.byIdentity[i] \in Seq(Instant)
                              /\ KeepsRecent(p.byIdentity[i], owed(i), t, c.window)
                              /\ Spaced(owed(i), c.maxPerWindow, c.window)
    BY <1>1, <1>3
  <2>3. /\ p.byIdentity[id] \o Copies(n, t) \in Seq(Instant)
        /\ owed(id) \o Copies(n, t) \in Seq(Instant)
        /\ KeepsRecent(p.byIdentity[id] \o Copies(n, t), owed(id) \o Copies(n, t), t, c.window)
    BY <1>1, <2>1, <2>2, RecordKeepsRecent
  <2>4. Spaced(owed(id) \o Copies(n, t), c.maxPerWindow, c.window)
    BY <1>1, <1>8, <2>1, <2>2, GrantKeepsSpacing
  <2>5. /\ HistoryOK(g, I) /\ Tracked(g) = Tracked(p)
        /\ g.byIdentity[id] = p.byIdentity[id] \o Copies(n, t)
        /\ \A i \in Tracked(p) \ {id} : g.byIdentity[i] = p.byIdentity[i]
    <3>1. HistoryOK(p, I) /\ id \in Tracked(p)
      BY <1>1
    <3>2. HistoryOK(g, I) /\ ReplacesWindow(g, p, id, p.byIdentity[id] \o Copies(n, t))
      BY <2>1, <3>1, RecordTouchesOne
    <3> HIDE DEF g
    <3> QED
      BY <3>2 DEF ReplacesWindow
  <2> HIDE DEF r, g
  <2>6. r.history = g /\ r.recorded = n
    BY <1>8 DEF g
  <2>7. \A i \in Tracked(p) : after[i] = IF i = id THEN owed(id) \o Copies(n, t) ELSE owed(i)
    BY <1>4, <2>2, <2>5, <2>6
  <2>8. after = [i \in Tracked(p) |-> after[i]]
    BY <2>5, <2>6
  <2> HIDE DEF after
  <2>9. after \in [Tracked(p) -> Seq(Instant)]
    BY <2>2, <2>3, <2>7, <2>8
  <2>10. LedgerOK(c, g, after, t)
    BY <2>2, <2>3, <2>4, <2>5, <2>7, <2>9 DEF LedgerOK
  <2> QED
    BY <1>1, <2>5, <2>6, <2>10
<1>9. \/ r.history = h /\ r.recorded = 0
      \/ r.history = p /\ r.recorded = 0
      \/ /\ r.history = RecordAdmitted(p, id, t, n)
         /\ r.recorded = n
         /\ Len(p.byIdentity[id]) + n <= c.maxPerWindow
  <2>1. Len(p.byIdentity[id]) \in Nat /\ WindowLen(p, id) = Len(p.byIdentity[id])
    BY <1>1 DEF HistoryOK, WindowLen
  <2> QED
    BY <2>1 DEF Evaluate, p, n
<1> QED
  BY <1>6, <1>7, <1>8, <1>9
==============================================================================
