-------------------------- MODULE FiberTimerProofs --------------------------
(***************************************************************************)
(* Theorems about FiberTimer, for any number of threads and fibers and any *)
(* clock: the list and the tree agree and are in order, the timer thread   *)
(* does not wait too long, the timer uses the scheduler as it must, and it *)
(* implements AlarmClock.                                                  *)
(***************************************************************************)
EXTENDS FiberTimer, FiberSchedulerProofs

-----------------------------------------------------------------------------
(* Times as numbers: timespec_comp orders normalised times as their        *)
(* numbers of nanoseconds are ordered.                                     *)
LEMMA WholeSeconds ==
    ASSUME NEW a \in Nat, NEW b \in Nat, a < b
    PROVE  a * GIGA_CONSTANT + GIGA_CONSTANT <= b * GIGA_CONSTANT
<1>1. PICK k \in Nat : b = a + 1 + k
  <2>1. b - a - 1 \in Nat
    OBVIOUS
  <2>2. b = a + 1 + (b - a - 1)
    OBVIOUS
  <2>3. QED
    BY <2>1, <2>2
<1>2. k * GIGA_CONSTANT \in Nat
    BY ClockBounds
<1>3. b * GIGA_CONSTANT = a * GIGA_CONSTANT + GIGA_CONSTANT + k * GIGA_CONSTANT
    BY <1>1, ClockBounds
<1>4. QED
    BY <1>2, <1>3, ClockBounds

LEMMA TicksOrder ==
    ASSUME NEW p \in Timespec, NEW q \in Timespec
    PROVE  /\ Ticks(p) \in Nat
           /\ Before(p, q) <=> Ticks(p) < Ticks(q)
<1> DEFINE a == p.tv_sec
           b == q.tv_sec
           ap == a * GIGA_CONSTANT
           bq == b * GIGA_CONSTANT
<1>1. /\ a \in Nat /\ b \in Nat /\ GIGA_CONSTANT \in Nat
      /\ p.tv_nsec \in 0..(GIGA_CONSTANT - 1)
      /\ q.tv_nsec \in 0..(GIGA_CONSTANT - 1)
    BY ClockBounds DEF Timespec
<1>2. ap \in Nat /\ bq \in Nat
    BY <1>1
<1>3. /\ a < b => ap + GIGA_CONSTANT <= bq
      /\ b < a => bq + GIGA_CONSTANT <= ap
      /\ a = b => ap = bq
    BY <1>1, WholeSeconds
<1>4. Ticks(p) = ap + p.tv_nsec /\ Ticks(q) = bq + q.tv_nsec
    BY DEF Ticks
<1>5. Before(p, q) <=> a < b \/ (a = b /\ p.tv_nsec < q.tv_nsec)
    BY DEF Before
<1> HIDE DEF a, b, ap, bq
<1>6. a < b \/ a = b \/ b < a
    BY <1>1
<1>7. QED
    BY <1>1, <1>2, <1>3, <1>4, <1>5, <1>6

(* The sum in fiber_sleep is normalised.                                   *)
LEMMA TimeAfterTyped ==
    ASSUME NEW p \in Timespec, NEW d, d.tv_sec \in Nat, d.tv_nsec \in Nat
    PROVE  TimeAfter(p, d) \in Timespec
<1>1. p.tv_sec \in Nat /\ p.tv_nsec \in Nat
    BY ClockBounds DEF Timespec
<1>2. PICK n \in Nat : n = p.tv_nsec + d.tv_nsec
    BY <1>1
<1>3. /\ n % GIGA_CONSTANT \in 0..(GIGA_CONSTANT - 1)
      /\ n \div GIGA_CONSTANT \in Nat
    BY ClockBounds
<1>4. /\ TimeAfter(p, d) = [tv_sec |-> p.tv_sec + d.tv_sec + n \div GIGA_CONSTANT,
                            tv_nsec |-> n % GIGA_CONSTANT]
    BY <1>2 DEF TimeAfter
<1>5. p.tv_sec + d.tv_sec + n \div GIGA_CONSTANT \in Nat
    BY <1>1, <1>3
<1>6. QED
    BY <1>3, <1>4, <1>5 DEF Timespec

(* A nanosecond more.                                                      *)
LEMMA NanosecondLater ==
    ASSUME NEW p \in Timespec
    PROVE  Ticks(TimeAfter(p, [tv_sec |-> 0, tv_nsec |-> 1])) = Ticks(p) + 1
<1>1. /\ p.tv_sec \in Nat /\ p.tv_nsec \in 0..(GIGA_CONSTANT - 1)
      /\ GIGA_CONSTANT \in Nat \ {0}
    BY ClockBounds DEF Timespec
<1>2. PICK n \in 1..GIGA_CONSTANT : n = p.tv_nsec + 1
    BY <1>1
<1>3. TimeAfter(p, [tv_sec |-> 0, tv_nsec |-> 1])
        = [tv_sec |-> p.tv_sec + 0 + n \div GIGA_CONSTANT,
           tv_nsec |-> n % GIGA_CONSTANT]
    BY <1>2 DEF TimeAfter
<1>4. CASE n < GIGA_CONSTANT
  <2>1. n \div GIGA_CONSTANT = 0 /\ n % GIGA_CONSTANT = n
    BY <1>1, <1>4
  <2>2. QED
    BY <1>1, <1>2, <1>3, <2>1 DEF Ticks
<1>5. CASE n = GIGA_CONSTANT
  <2>1. n \div GIGA_CONSTANT = 1 /\ n % GIGA_CONSTANT = 0
    BY <1>1, <1>5
  <2>2. (p.tv_sec + 1) * GIGA_CONSTANT = p.tv_sec * GIGA_CONSTANT + GIGA_CONSTANT
    BY <1>1
  <2>3. Ticks(TimeAfter(p, [tv_sec |-> 0, tv_nsec |-> 1]))
          = (p.tv_sec + 0 + 1) * GIGA_CONSTANT + 0
    BY <1>3, <2>1 DEF Ticks
  <2>4. Ticks(p) = p.tv_sec * GIGA_CONSTANT + p.tv_nsec
    BY DEF Ticks
  <2>5. p.tv_sec * GIGA_CONSTANT \in Nat
    BY <1>1
  <2>6. QED
    BY <1>1, <1>2, <1>5, <2>2, <2>3, <2>4, <2>5
<1>6. QED
    BY <1>1, <1>4, <1>5

-----------------------------------------------------------------------------
(* Facts about lists without repetitions.                                  *)

LEMMA Found ==
    ASSUME NEW S, NEW s \in Seq(S), IsInjective(s), NEW i \in 1..Len(s)
    PROVE  Position(s, s[i]) = i
<1>1. DOMAIN s = 1..Len(s)
    OBVIOUS
<1>2. \A j \in DOMAIN s : s[j] = s[i] <=> j = i
    BY <1>1 DEF IsInjective
<1>3. QED
    BY <1>1, <1>2 DEF Position

LEMMA ListedInsert ==
    ASSUME NEW S, NEW s \in Seq(S), NEW e \in S, NEW i \in 1..(Len(s) + 1)
    PROVE  /\ InsertAt(s, i, e) \in Seq(S)
           /\ Len(InsertAt(s, i, e)) = Len(s) + 1
           /\ \A j \in 1..(Len(s) + 1) :
                 InsertAt(s, i, e)[j] =
                    IF j < i THEN s[j] ELSE IF j = i THEN e ELSE s[j - 1]
           /\ Range(InsertAt(s, i, e)) = Range(s) \cup {e}
           /\ IsInjective(s) /\ e \notin Range(s) => IsInjective(InsertAt(s, i, e))
<1> DEFINE n == Len(s)
           l == SubSeq(s, 1, i - 1)
           r == SubSeq(s, i, n)
           t == InsertAt(s, i, e)
<1>1. /\ n \in Nat /\ i \in 1..(n + 1) /\ DOMAIN s = 1..n
      /\ \A j \in 1..n : s[j] \in S
    OBVIOUS
<1>2. /\ l \in Seq(S) /\ Len(l) = i - 1
      /\ \A j \in 1..(i - 1) : l[j] = s[j]
  <2>1. \A j \in 1..(i - 1) : s[j] \in S
    BY <1>1
  <2>2. /\ l \in Seq(S) /\ Len(l) = IF 1 <= i - 1 THEN i - 1 - 1 + 1 ELSE 0
        /\ \A j \in 1..(i - 1 - 1 + 1) : l[j] = s[1 + j - 1]
    BY <1>1, <2>1, SubSeqProperties, 1 \in Int, i - 1 \in Int
  <2>3. QED
    BY <1>1, <2>2
<1>3. /\ r \in Seq(S) /\ Len(r) = n - i + 1
      /\ \A j \in 1..(n - i + 1) : r[j] = s[i + j - 1]
  <2>1. \A j \in i..n : s[j] \in S
    BY <1>1
  <2>2. /\ r \in Seq(S) /\ Len(r) = IF i <= n THEN n - i + 1 ELSE 0
        /\ \A j \in 1..(n - i + 1) : r[j] = s[i + j - 1]
    BY <1>1, <2>1, SubSeqProperties, i \in Int, n \in Int
  <2>3. QED
    BY <1>1, <2>2
<1>4. t = (l \o <<e>>) \o r
    BY DEF InsertAt
<1>5. <<e>> \in Seq(S) /\ Len(<<e>>) = 1 /\ <<e>>[1] = e
    OBVIOUS
<1> HIDE DEF l, r, t
<1>6. PICK q \in Seq(S) :
        /\ q = l \o <<e>> /\ Len(q) = i
        /\ \A j \in 1..i : q[j] = IF j < i THEN s[j] ELSE e
  <2>1. /\ l \o <<e>> \in Seq(S) /\ Len(l \o <<e>>) = Len(l) + Len(<<e>>)
        /\ \A j \in 1..(Len(l) + Len(<<e>>)) :
              (l \o <<e>>)[j] = IF j <= Len(l) THEN l[j] ELSE <<e>>[j - Len(l)]
    BY <1>2, <1>5, ConcatProperties
  <2>2. Len(l) + Len(<<e>>) = i
    BY <1>1, <1>2, <1>5
  <2>3. ASSUME NEW j \in 1..i
        PROVE  (l \o <<e>>)[j] = IF j < i THEN s[j] ELSE e
    <3>1. (l \o <<e>>)[j] = IF j <= i - 1 THEN l[j] ELSE <<e>>[j - (i - 1)]
        BY <1>2, <2>1, <2>2
    <3>2. CASE j < i
      <4>1. j \in 1..(i - 1)
        BY <1>1, <3>2
      <4>2. QED
        BY <1>2, <3>1, <3>2, <4>1
    <3>3. CASE j = i
      <4>1. i - (i - 1) = 1 /\ ~(i <= i - 1) /\ ~(j < i)
        BY <1>1, <3>3
      <4>2. (l \o <<e>>)[j] = <<e>>[1]
        BY <3>1, <3>3, <4>1
      <4>3. QED
        BY <1>5, <4>1, <4>2
    <3>4. j < i \/ j = i
        BY <1>1
    <3>5. QED
        BY <3>2, <3>3, <3>4
  <2>4. QED
    BY <2>1, <2>2, <2>3
<1>7. /\ t \in Seq(S) /\ Len(t) = n + 1
      /\ \A j \in 1..(n + 1) :
            t[j] = IF j < i THEN s[j] ELSE IF j = i THEN e ELSE s[j - 1]
  <2>1. /\ t \in Seq(S) /\ Len(t) = Len(q) + Len(r)
        /\ \A j \in 1..(Len(q) + Len(r)) :
              t[j] = IF j <= Len(q) THEN q[j] ELSE r[j - Len(q)]
    <3>1. t = q \o r
        BY <1>4, <1>6
    <3>2. QED
        BY <1>3, <3>1, ConcatProperties
  <2>2. Len(q) + Len(r) = n + 1
    <3>1. i + (n - i + 1) = n + 1
        BY <1>1
    <3>2. QED
        BY <1>3, <1>6, <3>1
  <2>3. ASSUME NEW j \in 1..(n + 1)
        PROVE  t[j] = IF j < i THEN s[j] ELSE IF j = i THEN e ELSE s[j - 1]
    <3>1. t[j] = IF j <= i THEN q[j] ELSE r[j - i]
        BY <1>6, <2>1, <2>2
    <3>2. CASE j <= i
        BY <1>1, <1>6, <3>1, <3>2
    <3>3. CASE j > i
      <4>1. j - i \in 1..(n - i + 1) /\ i + (j - i) - 1 = j - 1
        BY <1>1, <3>3
      <4>2. r[j - i] = s[j - 1]
        BY <1>3, <4>1
      <4>3. QED
        BY <1>1, <3>1, <3>3, <4>2
    <3>4. QED
        BY <1>1, <3>2, <3>3
  <2>4. QED
    BY <2>1, <2>2, <2>3
<1>8. DOMAIN t = 1..(n + 1)
    BY <1>7
<1>9. Range(t) = Range(s) \cup {e}
  <2>1. ASSUME NEW j \in 1..(n + 1) PROVE t[j] \in Range(s) \cup {e}
    <3>1. j > i => j - 1 \in 1..n
        BY <1>1
    <3>2. \A k \in 1..n : s[k] \in Range(s)
        BY <1>1 DEF Range
    <3>3. t[j] = IF j < i THEN s[j] ELSE IF j = i THEN e ELSE s[j - 1]
        BY <1>7
    <3>4. j < i => j \in 1..n
        BY <1>1
    <3>5. ~(j < i) /\ j # i => j > i
        BY <1>1
    <3>6. QED
        BY <3>1, <3>2, <3>3, <3>4, <3>5
  <2>2. t[i] = e
    BY <1>1, <1>7
  <2>3. \A j \in 1..n : \E k \in 1..(n + 1) : t[k] = s[j]
    <3>1. ASSUME NEW j \in 1..n, j < i PROVE t[j] = s[j] /\ j \in 1..(n + 1)
        BY <1>1, <1>7, <3>1
    <3>2. ASSUME NEW j \in 1..n, ~(j < i)
          PROVE  t[j + 1] = s[j] /\ j + 1 \in 1..(n + 1)
        BY <1>1, <1>7, <3>2
    <3>3. QED
        BY <3>1, <3>2
  <2>4. QED
    BY <1>1, <1>8, <2>1, <2>2, <2>3 DEF Range
<1>10. ASSUME IsInjective(s), e \notin Range(s) PROVE IsInjective(t)
  <2>1. SUFFICES ASSUME NEW j \in 1..(n + 1), NEW k \in 1..(n + 1), j < k
                 PROVE  t[j] # t[k]
    BY <1>1, <1>8 DEF IsInjective
  <2>2. \A m \in 1..n : s[m] # e
    BY <1>1, <1>10 DEF Range
  <2>3. \A m, p \in 1..n : s[m] = s[p] => m = p
    BY <1>1, <1>10 DEF IsInjective
  <2>4. /\ t[j] = IF j < i THEN s[j] ELSE IF j = i THEN e ELSE s[j - 1]
        /\ t[k] = IF k < i THEN s[k] ELSE IF k = i THEN e ELSE s[k - 1]
    BY <1>7
  <2>5. CASE k < i
    <3>1. j \in 1..n /\ k \in 1..n /\ j # k /\ t[j] = s[j] /\ t[k] = s[k]
        BY <1>1, <2>1, <2>4, <2>5
    <3>2. QED
        BY <2>3, <3>1
  <2>6. CASE k = i
    <3>1. j \in 1..n /\ t[j] = s[j] /\ t[k] = e
        BY <1>1, <2>1, <2>4, <2>6
    <3>2. QED
        BY <2>2, <3>1
  <2>7. CASE k > i
    <3>1. k - 1 \in 1..n /\ t[k] = s[k - 1]
        BY <1>1, <2>4, <2>7
    <3>2. CASE j < i
      <4>1. j \in 1..n /\ j # k - 1 /\ t[j] = s[j]
        BY <1>1, <2>1, <2>4, <2>7, <3>2
      <4>2. QED
        BY <2>3, <3>1, <4>1
    <3>3. CASE j = i
        BY <1>1, <2>2, <2>4, <3>1, <3>3
    <3>4. CASE j > i
      <4>1. j - 1 \in 1..n /\ j - 1 # k - 1 /\ t[j] = s[j - 1]
        BY <1>1, <2>1, <2>4, <3>4
      <4>2. QED
        BY <2>3, <3>1, <4>1
    <3>5. QED
        BY <1>1, <3>2, <3>3, <3>4
  <2>8. QED
    BY <1>1, <2>5, <2>6, <2>7
<1>11. QED
    BY <1>7, <1>9, <1>10 DEF t

(* A list is cut in two.                                                   *)
CutAt(s, i, a, b) ==
    /\ Len(a) = i /\ Len(b) = Len(s) - i
    /\ \A j \in 1..i : a[j] = s[j]
    /\ \A j \in 1..(Len(s) - i) : b[j] = s[i + j]
    /\ IsInjective(a) /\ IsInjective(b)
    /\ Range(a) \in SUBSET Range(s)
    /\ Range(b) = Range(s) \ Range(a)

LEMMA ListedCut ==
    ASSUME NEW S, NEW s \in Seq(S), IsInjective(s), NEW i \in 0..Len(s)
    PROVE  \E a, b \in Seq(S) :
              /\ a = SubSeq(s, 1, i) /\ b = SubSeq(s, i + 1, Len(s))
              /\ CutAt(s, i, a, b)
<1> DEFINE n == Len(s)
           a == SubSeq(s, 1, i)
           b == SubSeq(s, i + 1, n)
<1>1. /\ n \in Nat /\ i \in 0..n /\ DOMAIN s = 1..n
      /\ \A j \in 1..n : s[j] \in S
    OBVIOUS
<1>2. /\ a \in Seq(S) /\ Len(a) = i
      /\ \A j \in 1..i : a[j] = s[j]
  <2>1. \A j \in 1..i : s[j] \in S
    BY <1>1
  <2>2. /\ a \in Seq(S) /\ Len(a) = IF 1 <= i THEN i - 1 + 1 ELSE 0
        /\ \A j \in 1..(i - 1 + 1) : a[j] = s[1 + j - 1]
    BY <1>1, <2>1, SubSeqProperties, 1 \in Int, i \in Int
  <2>3. QED
    BY <1>1, <2>2
<1>3. /\ b \in Seq(S) /\ Len(b) = n - i
      /\ \A j \in 1..(n - i) : b[j] = s[i + j]
  <2>1. \A j \in (i + 1)..n : s[j] \in S
    BY <1>1
  <2>2. /\ b \in Seq(S) /\ Len(b) = IF i + 1 <= n THEN n - (i + 1) + 1 ELSE 0
        /\ \A j \in 1..(n - (i + 1) + 1) : b[j] = s[i + 1 + j - 1]
    BY <1>1, <2>1, SubSeqProperties, i + 1 \in Int, n \in Int
  <2> HIDE DEF b, n
  <2>3. Len(b) = n - i /\ n - (i + 1) + 1 = n - i
    <3>1. /\ n - (i + 1) + 1 = n - i
          /\ (IF i + 1 <= n THEN n - (i + 1) + 1 ELSE 0) = n - i
        BY <1>1
    <3>2. QED
        BY <2>2, <3>1
  <2>4. ASSUME NEW j \in 1..(n - i) PROVE b[j] = s[i + j]
    <3>1. i + 1 + j - 1 = i + j
        BY <1>1
    <3>2. QED
        BY <2>2, <2>3, <3>1
  <2>5. QED
    BY <2>2, <2>3, <2>4
<1> HIDE DEF a, b
<1>4. DOMAIN a = 1..i /\ DOMAIN b = 1..(n - i)
    BY <1>2, <1>3
<1>5. \A j, k \in 1..n : s[j] = s[k] => j = k
    BY <1>1 DEF IsInjective
<1>6. IsInjective(a)
    BY <1>1, <1>2, <1>4, <1>5 DEF IsInjective
<1>7. IsInjective(b)
  <2>1. SUFFICES ASSUME NEW j \in 1..(n - i), NEW k \in 1..(n - i), b[j] = b[k]
                 PROVE  j = k
    BY <1>4 DEF IsInjective
  <2>2. i + j \in 1..n /\ i + k \in 1..n /\ s[i + j] = s[i + k]
    BY <1>1, <1>3, <2>1
  <2>3. i + j = i + k
    BY <1>5, <2>2
  <2>4. QED
    BY <1>1, <2>3
<1>8. Range(a) \in SUBSET Range(s)
    BY <1>1, <1>2, <1>4 DEF Range
<1>9. Range(b) = Range(s) \ Range(a)
  <2>1. ASSUME NEW j \in 1..(n - i)
        PROVE  b[j] \in Range(s) /\ b[j] \notin Range(a)
    <3>1. i + j \in 1..n /\ b[j] = s[i + j]
        BY <1>1, <1>3
    <3>2. \A k \in 1..i : a[k] = s[k] /\ k \in 1..n /\ k # i + j
        BY <1>1, <1>2
    <3>3. \A k \in 1..i : a[k] # b[j]
        BY <1>5, <3>1, <3>2
    <3>4. QED
        BY <1>1, <1>4, <3>1, <3>3 DEF Range
  <2>2. ASSUME NEW e \in Range(s), e \notin Range(a) PROVE e \in Range(b)
    <3>1. PICK j \in 1..n : e = s[j]
        BY <1>1 DEF Range
    <3>2. ~(j \in 1..i)
        BY <1>2, <1>4, <2>2, <3>1 DEF Range
    <3>3. j - i \in 1..(n - i) /\ i + (j - i) = j
        BY <1>1, <3>2
    <3>4. b[j - i] = e
        BY <1>3, <3>1, <3>3
    <3>5. QED
        BY <1>4, <3>3, <3>4 DEF Range
  <2>3. QED
    BY <1>4, <2>1, <2>2 DEF Range
<1>10. QED
    BY <1>2, <1>3, <1>6, <1>7, <1>8, <1>9 DEF CutAt, a, b

LEMMA InsertEnds ==
    ASSUME NEW S, NEW s \in Seq(S), NEW e \in S
    PROVE  /\ InsertAt(s, 1, e) = <<e>> \o s
           /\ InsertAt(s, Len(s) + 1, e) = Append(s, e)
<1>1. Len(s) \in Nat /\ <<e>> \in Seq(S) /\ 1 - 1 = 0
      /\ Len(s) + 1 - 1 = Len(s) /\ Len(s) < Len(s) + 1
    BY LenProperties
<1>2. SubSeq(s, 1, 0) = <<>> /\ SubSeq(s, 1, Len(s)) = s
    BY SubSeqEmpty, SubSeqFull, 1 \in Int, 0 \in Int, 0 < 1
<1>3. SubSeq(s, Len(s) + 1, Len(s)) = <<>>
    BY <1>1, SubSeqEmpty, Len(s) + 1 \in Int, Len(s) \in Int
<1>4. InsertAt(s, 1, e) = (<<>> \o <<e>>) \o s
    BY <1>1, <1>2 DEF InsertAt
<1>5. InsertAt(s, Len(s) + 1, e) = (s \o <<e>>) \o <<>>
  <2>1. PICK k \in Nat : k = Len(s) + 1 /\ k - 1 = Len(s)
    BY <1>1
  <2>2. InsertAt(s, k, e) = (SubSeq(s, 1, k - 1) \o <<e>>) \o SubSeq(s, k, Len(s))
    BY DEF InsertAt
  <2>3. SubSeq(s, 1, k - 1) = s /\ SubSeq(s, k, Len(s)) = <<>>
    BY <1>2, <1>3, <2>1
  <2>4. QED
    BY <2>1, <2>2, <2>3
<1>6. <<>> \o <<e>> = <<e>>
    BY <1>1, ConcatEmptySeq
<1>7. s \o <<e>> \in Seq(S) /\ s \o <<e>> = Append(s, e)
    BY <1>1, ConcatProperties, AppendIsConcat
<1>8. (s \o <<e>>) \o <<>> = s \o <<e>>
    BY <1>7, ConcatEmptySeq
<1>9. QED
    BY <1>4, <1>5, <1>6, <1>7, <1>8

-----------------------------------------------------------------------------
(* The fibers in the list are those that have been put into the timer, and *)
(* the timer thread only waits for a time while there is a fiber.          *)
SleepList ==
    /\ IsInjective(time_list)
    /\ Range(time_list) = parked

Awaiting == timer_pc \in {"timedwait", "again"} => time_list # <<>>

TimerState == TimerTypeOK /\ TreeIsList /\ TimerArmed /\ SleepList /\ Awaiting

TimerInv == OwnInv /\ IsFiniteSet(parked) /\ TimerState

(* What TreeIsList says of a list, for the lists before and after a step.  *)
InOrder(s, w) ==
    \A i, j \in 1..Len(s) : i < j => Ticks(w[s[i]]) <= Ticks(w[s[j]])

Ends(s, lo, hi) ==
    IF s = <<>> THEN lo = NULL /\ hi = NULL ELSE lo = Head(s) /\ hi = Last(s)

LEMMA TreeIsOrdered ==
    ASSUME time_list \in Seq(Fibers)
    PROVE  TreeIsList <=> /\ time_tree = time_list
                          /\ InOrder(time_list, tp)
                          /\ Ends(time_list, min_time, max_time)
BY DEF TreeIsList, InOrder, Ends

LEMMA TreeIsOrderedNext ==
    (time_list \in Seq(Fibers))' =>
        (TreeIsList <=> /\ time_tree = time_list
                        /\ InOrder(time_list, tp)
                        /\ Ends(time_list, min_time, max_time))'
BY TreeIsOrdered, PTL

LEMMA InitTimerInv == TimerInit => TimerInv
<1> SUFFICES ASSUME TimerInit PROVE TimerInv
    OBVIOUS
<1> USE ListedEmpty, EmptySeq DEF TimerInit
<1>1. OwnInv /\ IsFiniteSet(parked)
    BY InitOwn, FS_EmptySet DEF Init
<1>2. TimerTypeOK
    BY ClockBounds DEF TimerTypeOK, Zero, Timespec
<1>3. TreeIsList
    BY DEF TreeIsList
<1>4. TimerArmed /\ SleepList /\ Awaiting
    BY DEF TimerArmed, SleepList, Awaiting, Init
<1>5. QED
    BY <1>1, <1>2, <1>3, <1>4 DEF TimerInv, TimerState

-----------------------------------------------------------------------------
(* insert_time_node keeps the order, wherever it inserts.                  *)
LEMMA InsertPlace ==
    ASSUME TimerTypeOK, TreeIsList, SleepList, NEW f \in Fibers, InsertTimeNode(f)
    PROVE  \E i \in 1..(Len(time_list) + 1) :
              /\ time_list' = InsertAt(time_list, i, f)
              /\ time_tree' = InsertAt(time_list, i, f)
              /\ i > 1 => Ticks(tp[time_list[i - 1]]) <= Ticks(tp[f])
              /\ i <= Len(time_list) => Ticks(tp[f]) <= Ticks(tp[time_list[i]])
              /\ min_time' = IF i = 1 THEN f ELSE min_time
              /\ max_time' = IF i = Len(time_list) + 1 THEN f ELSE max_time
<1>1. PICK s \in Seq(Fibers) : s = time_list
    BY DEF TimerTypeOK
<1>2. PICK n \in Nat : n = Len(s)
    BY <1>1, LenProperties
<1>3. /\ time_tree = s /\ IsInjective(s) /\ Ends(s, min_time, max_time)
      /\ \A i \in 1..n : s[i] \in Fibers
    BY <1>1, <1>2, TreeIsOrdered DEF SleepList
<1>4. /\ \A i \in 1..n : /\ Before(tp[f], tp[s[i]]) <=> Ticks(tp[f]) < Ticks(tp[s[i]])
                         /\ Ticks(tp[s[i]]) \in Nat
      /\ Ticks(tp[f]) \in Nat
    BY <1>3, TicksOrder DEF TimerTypeOK
<1>5. /\ InsertAt(s, 1, f) = <<f>> \o s
      /\ InsertAt(s, n + 1, f) = Append(s, f)
    BY <1>2, InsertEnds
<1>6. \A i \in 1..n : Position(s, s[i]) = i
    BY <1>2, <1>3, Found
<1>7. SUFFICES \E i \in 1..(n + 1) :
              /\ time_list' = InsertAt(s, i, f)
              /\ time_tree' = InsertAt(s, i, f)
              /\ i > 1 => Ticks(tp[s[i - 1]]) <= Ticks(tp[f])
              /\ i <= n => Ticks(tp[f]) <= Ticks(tp[s[i]])
              /\ min_time' = IF i = 1 THEN f ELSE min_time
              /\ max_time' = IF i = n + 1 THEN f ELSE max_time
    BY <1>1, <1>2
<1>8. CASE s = <<>>
  <2>1. n = 0 /\ <<f>> \o s = <<f>>
    <3>1. <<f>> \in Seq(Fibers)
        OBVIOUS
    <3>2. QED
        BY <1>2, <1>8, <3>1, ConcatEmptySeq
  <2>2. InsertFirst(f)
    BY <1>3, <1>8 DEF InsertTimeNode, InsertMin, InsertMax, InsertBetween
  <2>3. /\ time_list' = InsertAt(s, 1, f) /\ time_tree' = InsertAt(s, 1, f)
        /\ min_time' = f /\ max_time' = f
    BY <1>1, <1>5, <2>1, <2>2 DEF InsertFirst
  <2>4. QED
    BY <2>1, <2>3
<1>9. CASE s # <<>>
  <2>1. /\ n > 0 /\ min_time = s[1] /\ max_time = s[n]
        /\ Position(s, min_time) = 1 /\ Position(s, max_time) = n
    <3>1. n > 0
        BY <1>2, <1>9, EmptySeq
    <3>2. min_time = s[1] /\ max_time = s[n]
        BY <1>2, <1>3, <1>9 DEF Ends, Last
    <3>3. QED
        BY <1>6, <3>1, <3>2
  <2>2. /\ Before(tp[f], tp[min_time]) <=> Ticks(tp[f]) < Ticks(tp[s[1]])
        /\ Before(tp[f], tp[max_time]) <=> Ticks(tp[f]) < Ticks(tp[s[n]])
        /\ Ticks(tp[s[1]]) \in Nat /\ Ticks(tp[s[n]]) \in Nat
    BY <1>4, <2>1
  <2>3. CASE InsertMin(f)
    <3>1. /\ time_list' = InsertAt(s, 1, f) /\ time_tree' = InsertAt(s, 1, f)
          /\ min_time' = f /\ UNCHANGED max_time
          /\ Ticks(tp[f]) <= Ticks(tp[s[1]])
        BY <1>1, <1>3, <1>4, <1>5, <2>1, <2>2, <2>3 DEF InsertMin
    <3>2. 1 \in 1..(n + 1) /\ 1 # n + 1
        BY <2>1
    <3>3. QED
        BY <3>1, <3>2
  <2>4. CASE InsertMax(f)
    <3>1. /\ time_list' = InsertAt(s, n + 1, f) /\ time_tree' = InsertAt(s, n + 1, f)
          /\ max_time' = f /\ UNCHANGED min_time
          /\ Ticks(tp[s[n]]) <= Ticks(tp[f])
        BY <1>1, <1>3, <1>4, <1>5, <2>1, <2>2, <2>4 DEF InsertMax
    <3>2. n + 1 \in 1..(n + 1) /\ 1 # n + 1 /\ n + 1 - 1 = n /\ ~(n + 1 <= n)
        BY <2>1
    <3>3. QED
        BY <3>1, <3>2
  <2>5. CASE InsertBetween(f)
    <3>1. PICK i \in 0..n :
            /\ i > 0 => ~Before(tp[f], tp[s[i]])
            /\ i < n => Before(tp[f], tp[s[i + 1]])
            /\ time_tree' = InsertAt(s, i + 1, f)
            /\ \/ i < n /\ time_list' = InsertAt(s, Position(s, s[i + 1]), f)
               \/ i > 0 /\ time_list' = InsertAt(s, Position(s, s[i]) + 1, f)
            /\ UNCHANGED <<min_time, max_time>>
        BY <1>1, <1>2, <1>3, <2>5 DEF InsertBetween, Gaps
    <3>2. i # 0 /\ i # n
      <4>1. ~Before(tp[f], tp[s[1]]) /\ Before(tp[f], tp[s[n]])
        BY <2>1, <2>5 DEF InsertBetween
      <4>2. i = 0 => i < n /\ s[i + 1] = s[1]
        BY <2>1
      <4>3. i = n => i > 0 /\ s[i] = s[n]
        BY <2>1
      <4>4. QED
        BY <3>1, <4>1, <4>2, <4>3
    <3>3. i \in 1..n /\ i + 1 \in 1..n /\ i > 0 /\ i < n
        BY <3>2
    <3>4. Position(s, s[i]) = i /\ Position(s, s[i + 1]) = i + 1
        BY <1>6, <3>3
    <3>5. time_list' = InsertAt(s, i + 1, f)
        BY <3>1, <3>4
    <3>6. Ticks(tp[s[i]]) <= Ticks(tp[f]) /\ Ticks(tp[f]) <= Ticks(tp[s[i + 1]])
        BY <1>4, <3>1, <3>3
    <3>7. /\ i + 1 \in 1..(n + 1) /\ i + 1 - 1 = i
          /\ i + 1 # 1 /\ i + 1 # n + 1
        BY <3>3
    <3>8. QED
        BY <3>1, <3>5, <3>6, <3>7
  <2>6. ~InsertFirst(f)
    BY <1>3, <1>9 DEF InsertFirst
  <2>7. QED
    BY <2>3, <2>4, <2>5, <2>6 DEF InsertTimeNode
<1>10. QED
    BY <1>8, <1>9

(* The list that insert_time_node leaves.                                  *)
LEMMA InsertOrdered ==
    ASSUME TimerTypeOK, TreeIsList, SleepList, NEW f \in Fibers,
           f \notin Range(time_list), InsertTimeNode(f)
    PROVE  \E s \in Seq(Fibers) :
              /\ time_list' = s /\ time_tree' = s
              /\ IsInjective(s) /\ Range(s) = Range(time_list) \cup {f}
              /\ InOrder(s, tp) /\ Ends(s, min_time', max_time')
<1>1. PICK s \in Seq(Fibers) : s = time_list
    BY DEF TimerTypeOK
<1>2. PICK n \in Nat : n = Len(s)
    BY <1>1, LenProperties
<1>3. /\ IsInjective(s) /\ InOrder(s, tp) /\ Ends(s, min_time, max_time)
      /\ \A i \in 1..n : s[i] \in Fibers
    BY <1>1, <1>2, TreeIsOrdered DEF SleepList
<1>4. PICK i \in 1..(n + 1) :
              /\ time_list' = InsertAt(s, i, f)
              /\ time_tree' = InsertAt(s, i, f)
              /\ i > 1 => Ticks(tp[s[i - 1]]) <= Ticks(tp[f])
              /\ i <= n => Ticks(tp[f]) <= Ticks(tp[s[i]])
              /\ min_time' = IF i = 1 THEN f ELSE min_time
              /\ max_time' = IF i = n + 1 THEN f ELSE max_time
    BY <1>1, <1>2, InsertPlace
<1>5. PICK r \in Seq(Fibers) :
              /\ r = InsertAt(s, i, f)
              /\ Len(r) = n + 1
              /\ \A j \in 1..(n + 1) :
                    r[j] = IF j < i THEN s[j] ELSE IF j = i THEN f ELSE s[j - 1]
              /\ Range(r) = Range(s) \cup {f}
              /\ IsInjective(r)
    BY <1>1, <1>2, <1>3, ListedInsert
<1>6. /\ \A j \in 1..n : Ticks(tp[s[j]]) \in Nat
      /\ Ticks(tp[f]) \in Nat
    BY <1>3, TicksOrder DEF TimerTypeOK
<1>7. \A j, k \in 1..n : j < k => Ticks(tp[s[j]]) <= Ticks(tp[s[k]])
    BY <1>2, <1>3 DEF InOrder
<1>8. ASSUME NEW j \in 1..n
      PROVE  /\ j < i => Ticks(tp[s[j]]) <= Ticks(tp[f])
             /\ j >= i => Ticks(tp[f]) <= Ticks(tp[s[j]])
  <2>1. CASE j < i
    <3>1. i - 1 \in 1..n /\ i > 1 /\ (j = i - 1 \/ j < i - 1)
        BY <2>1
    <3>2. Ticks(tp[s[j]]) <= Ticks(tp[s[i - 1]])
        BY <1>6, <1>7, <3>1
    <3>3. QED
        BY <1>4, <1>6, <2>1, <3>1, <3>2
  <2>2. CASE j >= i
    <3>1. i \in 1..n /\ i <= n /\ (j = i \/ i < j)
        BY <2>2
    <3>2. Ticks(tp[s[i]]) <= Ticks(tp[s[j]])
        BY <1>6, <1>7, <3>1
    <3>3. Ticks(tp[f]) <= Ticks(tp[s[i]])
        BY <1>4, <3>1
    <3>4. /\ Ticks(tp[f]) \in Nat /\ Ticks(tp[s[i]]) \in Nat
          /\ Ticks(tp[s[j]]) \in Nat /\ ~(j < i)
        BY <1>6, <2>2, <3>1
    <3>5. QED
        BY <3>2, <3>3, <3>4
  <2>3. QED
    BY <2>1, <2>2
<1>9. InOrder(r, tp)
  <2>1. SUFFICES ASSUME NEW j \in 1..(n + 1), NEW k \in 1..(n + 1), j < k
                 PROVE  Ticks(tp[r[j]]) <= Ticks(tp[r[k]])
    BY <1>5 DEF InOrder
  <2>2. CASE k < i
    <3>1. j \in 1..n /\ k \in 1..n /\ r[j] = s[j] /\ r[k] = s[k]
        BY <1>5, <2>1, <2>2
    <3>2. QED
        BY <1>7, <2>1, <3>1
  <2>3. CASE k = i
    <3>1. j \in 1..n /\ j < i /\ r[j] = s[j] /\ r[k] = f
        BY <1>5, <2>1, <2>3
    <3>2. QED
        BY <1>8, <3>1
  <2>4. CASE k > i
    <3>1. k - 1 \in 1..n /\ k - 1 >= i /\ r[k] = s[k - 1]
        BY <1>5, <2>4
    <3>2. CASE j < i
      <4>1. j \in 1..n /\ j < k - 1 /\ r[j] = s[j]
        BY <1>5, <2>4, <3>2
      <4>2. QED
        BY <1>7, <3>1, <4>1
    <3>3. CASE j = i
      <4>1. r[j] = f
        BY <1>5, <3>3
      <4>2. QED
        BY <1>8, <3>1, <4>1
    <3>4. CASE j > i
      <4>1. j - 1 \in 1..n /\ j - 1 < k - 1 /\ r[j] = s[j - 1]
        BY <1>5, <2>1, <3>4
      <4>2. QED
        BY <1>7, <3>1, <4>1
    <3>5. QED
        BY <3>2, <3>3, <3>4
  <2>5. QED
    BY <2>2, <2>3, <2>4
<1>10. Ends(r, min_time', max_time')
  <2>1. /\ r # <<>> /\ Head(r) = r[1] /\ Last(r) = r[n + 1]
        /\ 1 \in 1..(n + 1) /\ n + 1 \in 1..(n + 1)
    BY <1>5, EmptySeq DEF Last
  <2>2. n > 0 => min_time = s[1] /\ max_time = s[n]
    BY <1>2, <1>3, EmptySeq DEF Ends, Last
  <2>3. min_time' = r[1]
    <3>1. CASE i = 1
        BY <1>4, <1>5, <2>1, <3>1
    <3>2. CASE i # 1
        BY <1>4, <1>5, <2>1, <2>2, <3>2
    <3>3. QED
        BY <3>1, <3>2
  <2>4. max_time' = r[n + 1]
    <3>1. CASE i = n + 1
        BY <1>4, <1>5, <2>1, <3>1
    <3>2. CASE i # n + 1
      <4>1. n > 0 /\ ~(n + 1 < i) /\ n + 1 # i /\ n + 1 - 1 = n
        BY <3>2
      <4>2. QED
        BY <1>4, <1>5, <2>1, <2>2, <3>2, <4>1
    <3>3. QED
        BY <3>1, <3>2
  <2>5. QED
    BY <2>1, <2>3, <2>4 DEF Ends
<1>11. QED
    BY <1>1, <1>4, <1>5, <1>9, <1>10

-----------------------------------------------------------------------------
(* What the timer thread takes are exactly the fibers whose time is        *)
(* reached, and at least one; what is left is in order.                    *)
LEMMA WakesDue ==
    ASSUME TimerTypeOK, TreeIsList, SleepList, time_list # <<>>,
           ~Before(now, tp[min_time]), WakeAll \/ WakeSome
    PROVE  \E a, s \in Seq(Fibers) :
              /\ WakeList(TimerThread, a) /\ IsInjective(a)
              /\ Range(a) \in SUBSET Range(time_list)
              /\ \A f \in Range(time_list) :
                    f \in Range(a) <=> Ticks(tp[f]) <= Ticks(now)
              /\ Range(a) # {}
              /\ time_list' = s /\ time_tree' = s
              /\ IsInjective(s) /\ Range(s) = Range(time_list) \ Range(a)
              /\ InOrder(s, tp) /\ Ends(s, min_time', max_time')
<1>1. PICK q \in Seq(Fibers) : q = time_list
    BY DEF TimerTypeOK
<1>2. PICK n \in Nat : n = Len(q)
    BY <1>1, LenProperties
<1>3. /\ n > 0 /\ time_tree = q /\ IsInjective(q) /\ InOrder(q, tp)
      /\ min_time = q[1] /\ max_time = q[n] /\ DOMAIN q = 1..n
      /\ \A i \in 1..n : q[i] \in Fibers
    BY <1>1, <1>2, TreeIsOrdered, EmptySeq DEF SleepList, Ends, Last
<1>4. /\ \A i \in 1..n : /\ Before(now, tp[q[i]]) <=> Ticks(now) < Ticks(tp[q[i]])
                         /\ Ticks(tp[q[i]]) \in Nat
      /\ Ticks(now) \in Nat
    BY <1>3, TicksOrder DEF TimerTypeOK
<1>5. \A j, k \in 1..n : j < k => Ticks(tp[q[j]]) <= Ticks(tp[q[k]])
    BY <1>2, <1>3 DEF InOrder
<1>6. CASE WakeAll
  <2>1. /\ WakeList(TimerThread, q) /\ time_list' = <<>> /\ time_tree' = <<>>
        /\ min_time' = NULL /\ max_time' = NULL
        /\ ~Before(now, tp[q[n]])
    BY <1>1, <1>3, <1>6 DEF WakeAll
  <2>2. ASSUME NEW i \in 1..n PROVE Ticks(tp[q[i]]) <= Ticks(now)
    <3>1. n \in 1..n /\ (i = n \/ i < n)
        BY <1>3
    <3>2. Ticks(tp[q[n]]) <= Ticks(now)
        BY <1>4, <2>1, <3>1
    <3>3. Ticks(tp[q[i]]) <= Ticks(tp[q[n]])
        BY <1>4, <1>5, <3>1
    <3>4. QED
        BY <1>4, <3>1, <3>2, <3>3
  <2>3. \A f \in Range(q) : Ticks(tp[f]) <= Ticks(now)
    BY <1>3, <2>2 DEF Range
  <2>4. Range(q) # {} /\ Range(q) \in SUBSET Range(q)
    BY <1>3 DEF Range
  <2>5. /\ <<>> \in Seq(Fibers) /\ IsInjective(<<>>) /\ Range(<<>>) = Range(q) \ Range(q)
        /\ InOrder(<<>>, tp) /\ Ends(<<>>, min_time', max_time')
    <3>1. Len(<<>>) = 0 /\ <<>> \in Seq(Fibers)
        BY EmptySeq
    <3>2. InOrder(<<>>, tp)
        BY <3>1 DEF InOrder
    <3>3. Range(<<>>) = Range(q) \ Range(q)
        BY ListedEmpty
    <3>4. QED
        BY <2>1, <3>1, <3>2, <3>3, ListedEmpty DEF Ends
  <2>6. QED
    BY <1>1, <1>3, <2>1, <2>3, <2>4, <2>5
<1>7. CASE WakeSome
  <2>1. PICK i \in 0..n :
          /\ i > 0 => ~Before(now, tp[q[i]])
          /\ i < n => Before(now, tp[q[i + 1]])
          /\ WakeList(TimerThread, SubSeq(q, 1, Position(q, q[i + 1]) - 1))
          /\ time_list' = SubSeq(q, Position(q, q[i + 1]), n)
          /\ time_tree' = SubSeq(q, i + 1, n)
          /\ min_time' = q[i + 1]
          /\ max_time' = q[n]
    BY <1>1, <1>2, <1>3, <1>7 DEF WakeSome, Gaps
  <2>2. i # 0 /\ i # n
    <3>1. Before(now, tp[q[n]]) /\ ~Before(now, tp[q[1]])
        BY <1>3, <1>7 DEF WakeSome
    <3>2. (i = 0 => i < n /\ i + 1 = 1) /\ (i = n => i > 0)
        BY <1>3
    <3>3. QED
        BY <2>1, <3>1, <3>2
  <2>3. i \in 1..n /\ i + 1 \in 1..n /\ i > 0 /\ i < n /\ i + 1 - 1 = i
    BY <2>2
  <2>4. Position(q, q[i + 1]) = i + 1
    BY <1>2, <1>3, <2>3, Found
  <2>5. PICK a, s \in Seq(Fibers) :
          a = SubSeq(q, 1, i) /\ s = SubSeq(q, i + 1, n) /\ CutAt(q, i, a, s)
    BY <1>2, <1>3, ListedCut
  <2>6. /\ Len(a) = i /\ Len(s) = n - i
        /\ \A j \in 1..i : a[j] = q[j]
        /\ \A j \in 1..(n - i) : s[j] = q[i + j]
        /\ IsInjective(a) /\ IsInjective(s)
        /\ Range(a) \in SUBSET Range(q)
        /\ Range(s) = Range(q) \ Range(a)
    BY <1>2, <2>5 DEF CutAt
  <2>7. WakeList(TimerThread, a) /\ time_list' = s /\ time_tree' = s
    BY <2>1, <2>3, <2>4, <2>5
  <2>8. ASSUME NEW j \in 1..n
        PROVE  /\ j <= i => Ticks(tp[q[j]]) <= Ticks(now)
               /\ j > i => Ticks(now) < Ticks(tp[q[j]])
    <3>1. Ticks(tp[q[i]]) <= Ticks(now) /\ Ticks(now) < Ticks(tp[q[i + 1]])
        BY <1>4, <2>1, <2>3
    <3>2. /\ Ticks(tp[q[j]]) \in Nat /\ Ticks(now) \in Nat
          /\ Ticks(tp[q[i]]) \in Nat /\ Ticks(tp[q[i + 1]]) \in Nat
        BY <1>4, <2>3
    <3>3. j <= i => Ticks(tp[q[j]]) <= Ticks(tp[q[i]])
      <4>1. CASE j = i
        BY <3>2, <4>1
      <4>2. CASE j < i
        BY <1>5, <2>3, <4>2
      <4>3. QED
        BY <4>1, <4>2
    <3>4. j > i => Ticks(tp[q[i + 1]]) <= Ticks(tp[q[j]])
      <4>1. CASE j = i + 1
        BY <3>2, <4>1
      <4>2. CASE j > i + 1
        BY <1>5, <2>3, <4>2
      <4>3. QED
        BY <4>1, <4>2
    <3>5. QED
        BY <3>1, <3>2, <3>3, <3>4
  <2>9. DOMAIN a = 1..i /\ DOMAIN s = 1..(n - i)
    BY <2>6
  <2>10. \A f \in Range(q) : f \in Range(a) <=> Ticks(tp[f]) <= Ticks(now)
    <3>1. ASSUME NEW f \in Range(a) PROVE Ticks(tp[f]) <= Ticks(now)
      <4>1. PICK j \in 1..i : f = q[j]
        BY <2>6, <2>9 DEF Range
      <4>2. QED
        BY <2>8, <4>1
    <3>2. ASSUME NEW f \in Range(s) PROVE ~(Ticks(tp[f]) <= Ticks(now))
      <4>1. PICK j \in 1..(n - i) : f = s[j]
        BY <2>9 DEF Range
      <4>2. i + j \in 1..n /\ i + j > i /\ f = q[i + j]
        BY <2>6, <4>1
      <4>3. QED
        BY <1>4, <2>8, <4>2
    <3>3. QED
        BY <2>6, <3>1, <3>2
  <2>11. Range(a) # {}
    <3>1. 1 \in DOMAIN a
        BY <2>3, <2>9
    <3>2. QED
        BY <3>1 DEF Range
  <2>12. InOrder(s, tp)
    <3>1. SUFFICES ASSUME NEW j \in 1..(n - i), NEW k \in 1..(n - i), j < k
                   PROVE  Ticks(tp[s[j]]) <= Ticks(tp[s[k]])
        BY <2>6 DEF InOrder
    <3>2. i + j \in 1..n /\ i + k \in 1..n /\ i + j < i + k
        BY <3>1
    <3>3. QED
        BY <1>5, <2>6, <3>2
  <2>13. Ends(s, min_time', max_time')
    <3>1. /\ n - i > 0 /\ 1 \in 1..(n - i) /\ n - i \in 1..(n - i)
          /\ i + (n - i) = n
        BY <2>3
    <3>2. s[1] = q[i + 1] /\ s[n - i] = q[n]
        BY <2>6, <3>1
    <3>3. s # <<>> /\ Head(s) = s[1] /\ Last(s) = s[n - i]
        BY <2>6, <3>1, EmptySeq DEF Last
    <3>4. QED
        BY <2>1, <3>2, <3>3 DEF Ends
  <2>14. QED
    BY <1>1, <2>6, <2>7, <2>10, <2>11, <2>12, <2>13
<1>8. QED
    BY <1>6, <1>7

-----------------------------------------------------------------------------
(* Each step of the timer is one that the scheduler allows.                *)
LEMMA LookUsesScheduler ==
    ASSUME TimerInv, time_list # <<>>, Look
    PROVE  (\E l \in WakeOrders : WakeList(TimerThread, l)) \/ UNCHANGED vars
<1>1. CASE ~Before(now, tp[min_time]) /\ (WakeAll \/ WakeSome)
  <2>1. PICK a \in Seq(Fibers) :
          WakeList(TimerThread, a) /\ IsInjective(a) /\ Range(a) \in SUBSET parked
    BY <1>1, WakesDue DEF TimerInv, TimerState, SleepList
  <2>2. a \in WakeOrders
    BY <2>1, MayBeWoken DEF TimerInv
  <2>3. QED
    BY <2>1, <2>2
<1>2. QED
    BY <1>1 DEF Look

LEMMA UsesScheduler ==
    ASSUME TimerInv, [TimerNext]_timerVars
    PROVE  [Next]_vars
<1> USE Names
<1>1. CASE UNCHANGED timerVars
    BY <1>1 DEF timerVars
<1>2. CASE Tick \/ SpuriousWakeup \/ TimeReached
    BY <1>2 DEF Tick, SpuriousWakeup, TimeReached
<1>3. CASE TimerTop \/ TimedwaitReturned
  <2>1. time_tree = time_list
    BY TreeIsOrdered DEF TimerInv, TimerState, TimerTypeOK
  <2>2. (Look /\ time_list # <<>>) \/ UNCHANGED vars
    <3>1. CASE TimerTop
        BY <2>1, <3>1 DEF TimerTop
    <3>2. CASE TimedwaitReturned
        BY <3>2 DEF TimedwaitReturned, TimerInv, TimerState, Awaiting
    <3>3. QED
        BY <1>3, <3>1, <3>2
  <2>3. QED
    BY <2>2, LookUsesScheduler DEF Next
<1>4. CASE WaitReturned
  <2>1. <<>> \in WakeOrders
    BY ListedEmpty, EmptySeq, MayBeWoken DEF TimerInv
  <2>2. QED
    BY <1>4, <2>1 DEF WaitReturned, Next
<1>5. ASSUME NEW a \in Agents, SchedulerStep(a) PROVE [Next]_vars
    BY <1>5 DEF SchedulerStep, Next
<1>6. ASSUME NEW t \in Threads, LeaveFiber(t) \/ Spawn(t) \/ TimerAddFiber(t)
      PROVE  [Next]_vars
    BY <1>6 DEF LeaveFiber, TimerAddFiber, Next, ClientStep, LibraryStep
<1>7. ASSUME NEW t \in Threads, NEW d \in Durations, FiberSleep(t, d)
      PROVE  [Next]_vars
    BY <1>7 DEF FiberSleep
<1>8. ASSUME NEW t \in Threads, SetTimeout(t) PROVE [Next]_vars
    BY <1>8 DEF SetTimeout, Next, ClientStep
<1>9. QED
    BY <1>1, <1>2, <1>3, <1>4, <1>5, <1>6, <1>7, <1>8 DEF TimerNext, TimerStep

-----------------------------------------------------------------------------
(* A step that leaves the list and the times of those in it alone.         *)
LEMMA ListStays ==
    ASSUME TimerTypeOK, TreeIsList, SleepList, UNCHANGED <<tree, parked>>,
           \A f \in parked : tp'[f] = tp[f]
    PROVE  (TreeIsList /\ SleepList)'
<1>1. /\ time_list \in Seq(Fibers) /\ time_list' \in Seq(Fibers)
      /\ UNCHANGED <<time_list, time_tree, min_time, max_time>>
    BY DEF TimerTypeOK, tree
<1>2. \A i \in 1..Len(time_list) : tp'[time_list[i]] = tp[time_list[i]]
  <2>1. \A i \in 1..Len(time_list) : time_list[i] \in Range(time_list)
    BY <1>1 DEF Range
  <2>2. QED
    BY <2>1 DEF SleepList
<1>3. InOrder(time_list, tp) => InOrder(time_list, tp')
    BY <1>1, <1>2 DEF InOrder
<1>4. /\ time_tree = time_list /\ InOrder(time_list, tp)
      /\ Ends(time_list, min_time, max_time)
    BY <1>1, TreeIsOrdered
<1>5. TreeIsList'
    BY <1>1, <1>3, <1>4, TreeIsOrderedNext
<1>6. SleepList'
    BY <1>1 DEF SleepList
<1>7. QED
    BY <1>5, <1>6

(* The times of those in the list stay too where calls return.             *)
LEMMA ReturnsKeep ==
    ASSUME TimerTypeOK, OwnInv', CallsReturn
    PROVE  /\ calls' \in [Fibers -> {"none", "timeout", "sleeping"}]
           /\ tp' \in [Fibers -> Timespec]
           /\ \A f \in Fibers : f \in parked' => tp'[f] = tp[f]
<1>1. \A f \in Fibers : f \in parked' => ~Executing(f)'
    BY WaiterIsOff
<1>2. Zero \in Timespec
    BY ClockBounds DEF Zero, Timespec
<1>3. /\ calls' = [f \in Fibers |-> IF calls[f] = "sleeping" /\ Executing(f)'
                                    THEN "none" ELSE calls[f]]
      /\ tp' = [f \in Fibers |-> IF calls[f] = "sleeping" /\ Executing(f)'
                                 THEN Zero ELSE tp[f]]
    BY DEF CallsReturn
<1>4. QED
    BY <1>1, <1>2, <1>3 DEF TimerTypeOK

(* Steps that change neither the timer thread's place nor the list.        *)
LEMMA QuietTimer ==
    ASSUME TimerInv, OwnInv', NEW t \in Agents,
           \/ Tick
           \/ SchedulerStep(t)
           \/ t \in Threads /\ \/ LeaveFiber(t)
                               \/ SetTimeout(t)
                               \/ \E d \in Durations : FiberSleep(t, d)
                               \/ Spawn(t) /\ UNCHANGED <<now, tree, wait, calls, tp>>
    PROVE  /\ TimerState'
           /\ UNCHANGED <<tree, parked>>
           /\ \A f \in parked : tp'[f] = tp[f]
<1> USE Names
<1>1. /\ OwnInv /\ TypeOK /\ TypeOK' /\ TimerTypeOK /\ TreeIsList /\ SleepList
      /\ TimerArmed /\ Awaiting
    BY DEF TimerInv, TimerState, OwnInv, TypeInv
<1>2. UNCHANGED <<tree, wait>>
    BY DEF Tick, SchedulerStep, LeaveFiber, SetTimeout, FiberSleep
<1>3. parked' = parked
  <2>1. CASE \/ SchedulerStep(t)
             \/ t \in Threads /\ (LeaveFiber(t) \/ Spawn(t))
    BY <1>1, <2>1, NoneParks DEF SchedulerStep, LeaveFiber
  <2>2. CASE Tick \/ (t \in Threads /\ (SetTimeout(t) \/ \E d \in Durations : FiberSleep(t, d)))
    BY <2>2 DEF Tick, SetTimeout, FiberSleep, Sleep, vars
  <2>3. QED
    BY <2>1, <2>2
<1> DEFINE Kept == /\ now' \in Timespec
                   /\ calls' \in [Fibers -> {"none", "timeout", "sleeping"}]
                   /\ tp' \in [Fibers -> Timespec]
                   /\ \A f \in parked : tp'[f] = tp[f]
<1>4. Kept
  <2>1. CASE Tick
    <3>1. PICK d : d = [tv_sec |-> 0, tv_nsec |-> 1]
        OBVIOUS
    <3>2. d.tv_sec \in Nat /\ d.tv_nsec \in Nat /\ now' = TimeAfter(now, d)
        BY <2>1, <3>1 DEF Tick
    <3>3. QED
        BY <1>1, <2>1, <3>2, TimeAfterTyped DEF Tick, TimerTypeOK
  <2>2. CASE SchedulerStep(t)
    BY <1>1, <1>3, <2>2, ReturnsKeep DEF SchedulerStep, TimerTypeOK, TypeOK
  <2>3. CASE UNCHANGED <<now, calls, tp>>
    BY <1>1, <2>3 DEF TimerTypeOK
  <2>4. ASSUME t \in Threads, NEW d \in Durations, FiberSleep(t, d)
        PROVE  Kept
    <3>1. d.tv_sec \in Nat /\ d.tv_nsec \in Nat
        BY ClockBounds DEF Durations
    <3>2. PICK x \in Timespec : x = TimeAfter(now, d)
        BY <1>1, <3>1, TimeAfterTyped DEF TimerTypeOK
    <3>3. PICK f \in Fibers : f = running[t] /\ f \notin parked
        BY <1>1, <2>4, RunnerNotParked DEF FiberSleep, At
    <3>4. /\ calls' = [calls EXCEPT ![f] = "timeout"] /\ tp' = [tp EXCEPT ![f] = x]
          /\ now' = now
        BY <2>4, <3>2, <3>3 DEF FiberSleep
    <3>5. QED
        BY <1>1, <3>3, <3>4 DEF TimerTypeOK, TypeOK
  <2>5. CASE t \in Threads /\ SetTimeout(t)
    <3>1. PICK f \in Fibers : f = running[t] /\ f \notin parked
        BY <1>1, <2>5, RunnerNotParked DEF SetTimeout, At
    <3>2. PICK c \in {"none", "sleeping"} : calls' = [calls EXCEPT ![f] = c]
        BY <2>5, <3>1 DEF SetTimeout
    <3>3. now' = now /\ (tp' = tp \/ tp' = [tp EXCEPT ![f] = Zero])
        BY <2>5, <3>1 DEF SetTimeout
    <3>4. Zero \in Timespec
        BY ClockBounds DEF Zero, Timespec
    <3>5. /\ tp' \in [Fibers -> Timespec]
          /\ \A g \in parked : tp'[g] = tp[g]
      <4>1. tp \in [Fibers -> Timespec] /\ parked \in SUBSET Fibers
        BY <1>1 DEF TimerTypeOK, TypeOK
      <4>2. CASE tp' = tp
        BY <4>1, <4>2
      <4>3. CASE tp' = [tp EXCEPT ![f] = Zero]
        BY <3>1, <3>4, <4>1, <4>3
      <4>4. QED
        BY <3>3, <4>2, <4>3
    <3>6. QED
        BY <1>1, <3>2, <3>3, <3>5 DEF TimerTypeOK
  <2> HIDE DEF Kept
  <2>6. ASSUME t \in Threads,
               \/ LeaveFiber(t)
               \/ SetTimeout(t)
               \/ \E d \in Durations : FiberSleep(t, d)
               \/ Spawn(t) /\ UNCHANGED <<now, tree, wait, calls, tp>>
        PROVE  Kept
    <3>1. LeaveFiber(t) => UNCHANGED <<now, calls, tp>>
        BY DEF LeaveFiber
    <3>2. (\E d \in Durations : FiberSleep(t, d)) => Kept
        BY <2>4, <2>6
    <3>3. SetTimeout(t) => Kept
        BY <2>5, <2>6
    <3>4. QED
        BY <2>3, <2>6, <3>1, <3>2, <3>3
  <2>7. QED
    BY <2>1, <2>2, <2>6
<1>5. (TreeIsList /\ SleepList)'
    BY <1>1, <1>2, <1>3, <1>4, ListStays
<1>6. TimerTypeOK'
    BY <1>1, <1>2, <1>4 DEF TimerTypeOK, tree, wait
<1>7. (TimerArmed /\ Awaiting)'
    BY <1>1, <1>2, <1>3, <1>4 DEF TimerArmed, Awaiting, SleepList, tree, wait
<1>8. QED
    BY <1>2, <1>3, <1>4, <1>5, <1>6, <1>7 DEF TimerState

(* The list is replaced by one that is in order and holds what it should.  *)
LEMMA ListReplaced ==
    ASSUME NEW s \in Seq(Fibers), time_list' = s, time_tree' = s,
           IsInjective(s), Range(s) = parked', InOrder(s, tp'),
           Ends(s, min_time', max_time')
    PROVE  /\ (TreeIsList /\ SleepList)'
           /\ time_list' \in Seq(Fibers) /\ time_tree' \in Seq(Fibers)
           /\ min_time' \in Fibers \cup {NULL} /\ max_time' \in Fibers \cup {NULL}
<1>1. TreeIsList'
    BY TreeIsOrderedNext
<1>2. SleepList'
    BY DEF SleepList
<1>3. min_time' \in Fibers \cup {NULL} /\ max_time' \in Fibers \cup {NULL}
  <2>1. CASE s = <<>>
    BY <2>1 DEF Ends
  <2>2. CASE s # <<>>
    <3>1. Len(s) \in 1..Len(s) /\ Head(s) \in Fibers
        BY <2>2, EmptySeq, LenProperties, HeadTailProperties
    <3>2. s[Len(s)] \in Fibers
        BY <3>1
    <3>3. QED
        BY <2>2, <3>1, <3>2 DEF Ends, Last
  <2>3. QED
    BY <2>1, <2>2
<1>4. QED
    BY <1>1, <1>2, <1>3

(* timer_add_fiber: only a first fiber or one that is earlier than all     *)
(* others changes what the timer thread must wait for, and wakes it.       *)
LEMMA AddFiberTimer ==
    ASSUME TimerInv, OwnInv', NEW t \in Threads, TimerAddFiber(t)
    PROVE  /\ TimerState'
           /\ \E f \in Fibers :
                 /\ f \notin Range(time_list)
                 /\ Range(time_list') = Range(time_list) \cup {f}
           /\ \A f \in Range(time_list') : tp'[f] = tp[f]
<1> USE Names
<1>1. /\ OwnInv /\ TypeOK /\ TimerTypeOK /\ TreeIsList /\ SleepList
      /\ TimerArmed /\ Awaiting /\ CallsReturn /\ now' = now
      /\ pc[t] = "release" /\ parked' = parked \cup {it[t]}
      /\ InsertTimeNode(it[t])
    BY DEF TimerInv, TimerState, OwnInv, TypeInv, TimerAddFiber, Release
<1>2. PICK f \in Fibers : f = it[t]
    BY <1>1 DEF OwnInv, TypeInv, Registers
<1>3. f \notin Range(time_list)
  <2>1. Sits(f, "it", t)
    BY <1>2 DEF Sits
  <2>2. ~Sits(f, "parked", NULL)
    BY <1>1, <2>1, FiberFound DEF OwnInv, Kinds, Holders
  <2>3. QED
    BY <1>1, <2>2 DEF Sits, SleepList
<1>4. PICK s \in Seq(Fibers) :
          /\ time_list' = s /\ time_tree' = s
          /\ IsInjective(s) /\ Range(s) = Range(time_list) \cup {f}
          /\ InOrder(s, tp) /\ Ends(s, min_time', max_time')
    BY <1>1, <1>2, <1>3, InsertOrdered
<1>5. Range(s) = parked'
    BY <1>1, <1>2, <1>4 DEF SleepList
<1>6. /\ calls' \in [Fibers -> {"none", "timeout", "sleeping"}]
      /\ tp' \in [Fibers -> Timespec]
      /\ \A g \in Range(s) : tp'[g] = tp[g]
    BY <1>1, <1>5, ReturnsKeep, ListedTyped
<1>7. InOrder(s, tp')
  <2>1. \A i \in 1..Len(s) : s[i] \in Range(s)
    BY DEF Range
  <2>2. \A i \in 1..Len(s) : tp'[s[i]] = tp[s[i]]
    BY <1>6, <2>1
  <2>3. QED
    BY <1>4, <2>2 DEF InOrder
<1>8. /\ (TreeIsList /\ SleepList)'
      /\ time_list' \in Seq(Fibers) /\ time_tree' \in Seq(Fibers)
      /\ min_time' \in Fibers \cup {NULL} /\ max_time' \in Fibers \cup {NULL}
    BY <1>4, <1>5, <1>7, ListReplaced
<1>9. \/ CondSignal
      \/ /\ UNCHANGED wait /\ time_list # <<>> /\ ~Before(tp[f], tp[min_time])
    BY <1>1, <1>2, TreeIsOrdered
       DEF InsertTimeNode, InsertFirst, InsertMin, InsertMax, InsertBetween,
           TimerTypeOK
<1>10. Zero \in Timespec
    BY ClockBounds DEF Zero, Timespec
<1>11. TimerTypeOK'
  <2>1. timer_pc' \in {"top", "wait", "woken", "timedwait", "again"}
    BY <1>1, <1>9 DEF TimerTypeOK, CondSignal, wait
  <2>2. until' \in Timespec
    BY <1>1, <1>9, <1>10 DEF TimerTypeOK, CondSignal, wait
  <2>3. QED
    BY <1>1, <1>6, <1>8, <2>1, <2>2 DEF TimerTypeOK
<1>12. time_list' # <<>>
    BY <1>4, ListedEmpty
<1>13. Awaiting'
    BY <1>12 DEF Awaiting
<1>14. TimerArmed'
  <2>1. CASE CondSignal
    BY <1>1, <2>1 DEF TimerArmed, CondSignal, TimerTypeOK
  <2>2. CASE UNCHANGED wait /\ time_list # <<>> /\ ~Before(tp[f], tp[min_time])
    <3>1. timer_pc' # "wait" /\ until' = until /\ timer_pc' = timer_pc
        BY <1>1, <2>2 DEF TimerArmed, wait
    <3>2. ASSUME timer_pc = "timedwait" PROVE Ticks(until) <= Ticks(tp[f])
      <4>1. PICK m \in Fibers : m = min_time /\ m \in Range(time_list)
        <5>1. PICK q \in Seq(Fibers) : q = time_list /\ q # <<>>
            BY <1>1, <2>2 DEF TimerTypeOK
        <5>2. min_time = Head(q)
            BY <1>1, <5>1, TreeIsOrdered DEF Ends
        <5>3. Head(q) \in Fibers /\ Head(q) \in Range(q)
            BY <1>1, <5>1, ListedPop DEF SleepList
        <5>4. QED
            BY <5>1, <5>2, <5>3
      <4>2. /\ tp[m] \in Timespec /\ tp[f] \in Timespec /\ until \in Timespec
            /\ ~Before(tp[f], tp[m])
        BY <1>1, <2>2, <4>1 DEF TimerTypeOK
      <4>3. ~(Ticks(tp[f]) < Ticks(tp[m]))
        BY <4>2, TicksOrder
      <4>4. Ticks(tp[f]) \in Nat /\ Ticks(tp[m]) \in Nat /\ Ticks(until) \in Nat
        BY <4>2, TicksOrder
      <4>5. Ticks(until) <= Ticks(tp[m])
        BY <1>1, <3>2, <4>1 DEF TimerArmed
      <4>6. QED
        BY <4>3, <4>4, <4>5
    <3>3. ASSUME timer_pc = "timedwait", NEW g \in Range(s)
          PROVE  Ticks(until) <= Ticks(tp[g])
        BY <1>1, <1>4, <3>2, <3>3 DEF TimerArmed
    <3>4. \A g \in Range(s) : Ticks(tp[g])' = Ticks(tp'[g]) /\ Ticks(until)' = Ticks(until')
        BY DEF Ticks
    <3>5. ASSUME timer_pc' = "timedwait", NEW g \in Range(time_list')
          PROVE  Ticks(until') <= Ticks(tp'[g])
        BY <1>4, <1>6, <3>1, <3>3, <3>5
    <3>6. QED
        BY <3>1, <3>5 DEF TimerArmed
  <2>3. QED
    BY <1>9, <2>1, <2>2
<1>15. QED
    BY <1>3, <1>4, <1>6, <1>8, <1>11, <1>13, <1>14 DEF TimerState

(* The timer thread at its inner loop.                                     *)
LEMMA LookTimer ==
    ASSUME TimerInv, time_list # <<>>, Look, UNCHANGED <<now, calls, tp>>
    PROVE  TimerState'
<1>1. /\ TimerTypeOK /\ TreeIsList /\ SleepList /\ TimerArmed /\ Awaiting
    BY DEF TimerInv, TimerState
<1>2. CASE ~Before(now, tp[min_time])
  <2>1. /\ WakeAll \/ WakeSome
        /\ timer_pc' = "top" /\ UNCHANGED until
    BY <1>2 DEF Look
  <2>2. PICK a \in Seq(Fibers), s \in Seq(Fibers) :
              /\ WakeList(TimerThread, a)
              /\ time_list' = s /\ time_tree' = s
              /\ IsInjective(s) /\ Range(s) = Range(time_list) \ Range(a)
              /\ InOrder(s, tp) /\ Ends(s, min_time', max_time')
    BY <1>1, <1>2, <2>1, WakesDue
  <2>3. Range(s) = parked'
    BY <1>1, <2>2 DEF WakeList, SleepList
  <2>4. /\ (TreeIsList /\ SleepList)'
        /\ time_list' \in Seq(Fibers) /\ time_tree' \in Seq(Fibers)
        /\ min_time' \in Fibers \cup {NULL} /\ max_time' \in Fibers \cup {NULL}
    BY <2>2, <2>3, ListReplaced
  <2>5. TimerTypeOK'
    BY <1>1, <2>1, <2>4 DEF TimerTypeOK
  <2>6. (TimerArmed /\ Awaiting)'
    BY <2>1 DEF TimerArmed, Awaiting
  <2>7. QED
    BY <2>4, <2>5, <2>6 DEF TimerState
<1>3. CASE Before(now, tp[min_time])
  <2>1. /\ timer_pc' = "timedwait" /\ until' = tp[min_time]
        /\ UNCHANGED <<vars, tree>>
    BY <1>3 DEF Look
  <2>2. PICK q \in Seq(Fibers) : q = time_list /\ q # <<>>
    BY <1>1 DEF TimerTypeOK
  <2>3. /\ min_time = q[1] /\ q[1] \in Fibers /\ InOrder(q, tp)
        /\ \A i \in 1..Len(q) : q[i] \in Fibers
    BY <1>1, <2>2, TreeIsOrdered, EmptySeq DEF Ends
  <2>4. (TreeIsList /\ SleepList)'
    BY <1>1, <2>1, ListStays DEF vars
  <2>5. TimerTypeOK'
    BY <1>1, <2>1, <2>3 DEF TimerTypeOK, tree
  <2>6. \A i \in 1..Len(q) : Ticks(tp[q[1]]) <= Ticks(tp[q[i]])
    <3>1. Len(q) \in Nat /\ Len(q) > 0
        BY <2>2, EmptySeq, LenProperties
    <3>2. ASSUME NEW i \in 1..Len(q), i # 1
          PROVE  Ticks(tp[q[1]]) <= Ticks(tp[q[i]])
        BY <2>3, <3>1, <3>2 DEF InOrder
    <3>3. Ticks(tp[q[1]]) \in Nat
        BY <1>1, <2>3, TicksOrder DEF TimerTypeOK
    <3>4. QED
        BY <3>2, <3>3
  <2>7. \A f \in Range(q) : Ticks(tp[q[1]]) <= Ticks(tp[f])
    BY <2>2, <2>6 DEF Range
  <2>8. time_list' = q /\ tp' = tp /\ until' = tp[q[1]]
    BY <2>1, <2>2, <2>3 DEF tree
  <2>9. TimerArmed'
    BY <2>1, <2>7, <2>8 DEF TimerArmed
  <2>10. Awaiting'
    BY <2>1, <2>2 DEF Awaiting, tree
  <2>11. QED
    BY <2>4, <2>5, <2>9, <2>10 DEF TimerState
<1>4. QED
    BY <1>2, <1>3

(* The other steps of the timer thread, which only move in its loop.       *)
LEMMA TimerThreadMoves ==
    ASSUME TimerInv,
           \/ UNCHANGED timerVars
           \/ SpuriousWakeup
           \/ TimeReached
           \/ WaitReturned
           \/ TimerTop /\ time_tree = <<>>
    PROVE  TimerState' /\ UNCHANGED <<now, tree, tp>>
<1>1. /\ TimerTypeOK /\ TreeIsList /\ SleepList /\ TimerArmed /\ Awaiting
      /\ time_tree = time_list
    BY TreeIsOrdered DEF TimerInv, TimerState, TimerTypeOK
<1>2. /\ UNCHANGED <<now, tree, calls, tp>> /\ parked' = parked
      /\ \/ UNCHANGED wait
         \/ /\ timer_pc' = "wait" /\ time_list = <<>> /\ until' = until
         \/ /\ timer_pc' = "top" /\ until' = until
         \/ /\ until' = Zero
            /\ \/ timer_pc' = "woken"
               \/ timer_pc' = "again" /\ timer_pc = "timedwait"
  <2>1. CASE UNCHANGED timerVars
    BY <2>1 DEF timerVars, vars, wait
  <2>2. CASE SpuriousWakeup
    BY <1>1, <2>2 DEF SpuriousWakeup, CondSignal, vars
  <2>3. CASE TimeReached
    BY <1>1, <2>3 DEF TimeReached, vars
  <2>4. CASE WaitReturned
    BY <1>1, <2>4, ListedEmpty DEF WaitReturned, WakeList, vars
  <2>5. CASE TimerTop /\ time_tree = <<>>
    BY <1>1, <2>5 DEF TimerTop, vars
  <2>6. QED
    BY <2>1, <2>2, <2>3, <2>4, <2>5
<1>3. Zero \in Timespec
    BY ClockBounds DEF Zero, Timespec
<1>4. (TreeIsList /\ SleepList)'
    BY <1>1, <1>2, ListStays
<1>5. TimerTypeOK'
    BY <1>1, <1>2, <1>3 DEF TimerTypeOK, tree, wait
<1>6. TimerArmed'
    BY <1>1, <1>2 DEF TimerArmed, tree, wait
<1>7. Awaiting'
    BY <1>1, <1>2 DEF Awaiting, tree, wait
<1>8. QED
    BY <1>2, <1>4, <1>5, <1>6, <1>7 DEF TimerState

(* The steps of the timer, as the lemmas above sort them.                  *)
LEMMA StepsOfTimer ==
    ASSUME TimerInv, [TimerNext]_timerVars
    PROVE  \/ \/ UNCHANGED timerVars
              \/ SpuriousWakeup
              \/ TimeReached
              \/ WaitReturned
              \/ TimerTop /\ time_tree = <<>>
           \/ Look /\ time_list # <<>> /\ UNCHANGED <<now, calls, tp>>
           \/ Tick
           \/ \E t \in Agents :
                \/ SchedulerStep(t)
                \/ t \in Threads /\ \/ LeaveFiber(t)
                                    \/ SetTimeout(t)
                                    \/ \E d \in Durations : FiberSleep(t, d)
                                    \/ Spawn(t) /\ UNCHANGED <<now, tree, wait, calls, tp>>
           \/ \E t \in Threads : TimerAddFiber(t)
<1>1. time_tree = time_list
    BY TreeIsOrdered DEF TimerInv, TimerState, TimerTypeOK
<1>2. TimerTop /\ time_tree # <<>>
        => Look /\ time_list # <<>> /\ UNCHANGED <<now, calls, tp>>
    BY <1>1 DEF TimerTop
<1>3. TimedwaitReturned => Look /\ time_list # <<>> /\ UNCHANGED <<now, calls, tp>>
    BY DEF TimedwaitReturned, TimerInv, TimerState, Awaiting
<1>4. QED
    BY <1>2, <1>3, Names DEF TimerNext, TimerStep

LEMMA NextTimerInv ==
    ASSUME TimerInv, [TimerNext]_timerVars
    PROVE  TimerInv'
<1>1. OwnInv' /\ IsFiniteSet(parked')
    BY UsesScheduler, NextOwn, ParkedFinite DEF TimerInv
<1>2. TimerThread \in Agents
    BY Names
<1>3. TimerState'
    BY <1>1, <1>2, StepsOfTimer, TimerThreadMoves, LookTimer, QuietTimer,
       AddFiberTimer
<1>4. QED
    BY <1>1, <1>3 DEF TimerInv

LEMMA TimerInvariant == TimerSpec => []TimerInv
<1>1. TimerInit => TimerInv
    BY InitTimerInv
<1>2. TimerInv /\ [TimerNext]_timerVars => TimerInv'
    BY NextTimerInv
<1>3. QED
    BY <1>1, <1>2, PTL DEF TimerSpec

(* The timer's variables keep their types: every time is normalised, also  *)
(* those that fiber_sleep has computed by carrying nanoseconds.            *)
THEOREM TimesNormalised == TimerSpec => []TimerTypeOK
<1>1. TimerInv => TimerTypeOK
    BY DEF TimerInv, TimerState
<1>2. QED
    BY <1>1, TimerInvariant, PTL

(* time_list and the splay tree hold the same fibers in the order of their *)
(* times, and min_time and max_time are the ends, wherever                 *)
(* insert_time_node inserts and timer_thread cuts.                         *)
THEOREM OrderKept == TimerSpec => []TreeIsList
<1>1. TimerInv => TreeIsList
    BY DEF TimerInv, TimerState
<1>2. QED
    BY <1>1, TimerInvariant, PTL

(* timer_thread never waits past the earliest time, and never without a    *)
(* limit while a fiber sleeps.                                             *)
THEOREM NeverWaitsTooLong == TimerSpec => []TimerArmed
<1>1. TimerInv => TimerArmed
    BY DEF TimerInv, TimerState
<1>2. QED
    BY <1>1, TimerInvariant, PTL

(* The fibers that timer_thread wakes have left their stacks: every        *)
(* behaviour of the timer is one of the scheduler.                         *)
THEOREM TimerUsesScheduler == TimerSpec => SchedulerSpec
<1>1. TimerInit => Init
    BY DEF TimerInit
<1>2. TimerInv /\ [TimerNext]_timerVars => [Next]_vars
    BY UsesScheduler
<1>3. QED
    BY <1>1, <1>2, TimerInvariant, PTL DEF TimerSpec, SchedulerSpec, Spec

-----------------------------------------------------------------------------
(* The alarms of AlarmClock are the times of the fibers in the list.       *)
Alarm == [f \in Fibers |-> IF f \in Range(time_list) THEN Ticks(tp[f]) ELSE -1]

LEMMA AlarmsStay ==
    ASSUME UNCHANGED tree, \A f \in Range(time_list) : tp'[f] = tp[f]
    PROVE  Alarm' = Alarm
BY DEF tree, Alarm, Ticks

(* timer_add_fiber sets one alarm.                                         *)
LEMMA AddSetsAlarm ==
    ASSUME TimerInv, TimerInv', NEW t \in Threads, TimerAddFiber(t)
    PROVE  \E f \in Fibers : Alarms!Sleep(f)
<1>1. TimerTypeOK' /\ OwnInv' /\ now' = now
    BY DEF TimerInv, TimerState, TimerAddFiber
<1>2. PICK f \in Fibers :
          /\ f \notin Range(time_list)
          /\ Range(time_list') = Range(time_list) \cup {f}
          /\ \A g \in Range(time_list') : tp'[g] = tp[g]
    BY <1>1, AddFiberTimer
<1>3. PICK x \in Nat : x = Ticks(tp'[f])
  <2>1. tp'[f] \in Timespec
    BY <1>1 DEF TimerTypeOK
  <2>2. QED
    BY <2>1, TicksOrder
<1>4. Alarm' = [g \in Fibers |-> IF g \in Range(time_list') THEN Ticks(tp'[g]) ELSE -1]
    BY DEF Alarm, Ticks
<1>5. Alarm[f] = -1 /\ Alarm'[f] = x /\ Alarm' = [Alarm EXCEPT ![f] = x]
    BY <1>2, <1>3, <1>4 DEF Alarm
<1>6. Ticks(now)' = Ticks(now)
    BY <1>1 DEF Ticks
<1>7. Alarms!Sleep(f)
    BY <1>5, <1>6 DEF Alarms!Sleep, Alarms!Awake, Alarm
<1>8. QED
    BY <1>7

(* timer_thread rings exactly the alarms that are due.                     *)
LEMMA LookRings ==
    ASSUME TimerInv, Look, time_list # <<>>, UNCHANGED <<now, calls, tp>>
    PROVE  Alarms!Ring \/ UNCHANGED <<Ticks(now), Alarm>>
<1>1. TimerTypeOK /\ TreeIsList /\ SleepList /\ Ticks(now)' = Ticks(now)
    BY DEF TimerInv, TimerState, Ticks
<1>2. CASE UNCHANGED tree
    BY <1>1, <1>2, AlarmsStay
<1>3. CASE ~Before(now, tp[min_time]) /\ (WakeAll \/ WakeSome)
  <2>1. PICK a \in Seq(Fibers), s \in Seq(Fibers) :
          /\ Range(a) \in SUBSET Range(time_list)
          /\ \A f \in Range(time_list) :
                f \in Range(a) <=> Ticks(tp[f]) <= Ticks(now)
          /\ Range(a) # {}
          /\ time_list' = s /\ Range(s) = Range(time_list) \ Range(a)
    BY <1>1, <1>3, WakesDue
  <2>2. Range(time_list) \in SUBSET Fibers
    BY <1>1, ListedTyped DEF TimerTypeOK
  <2>3. \A f \in Range(time_list) : Ticks(tp[f]) \in Nat
    BY <1>1, <2>2, TicksOrder DEF TimerTypeOK
  <2>4. ASSUME NEW f \in Fibers
        PROVE  f \in Range(a) <=> Alarm[f] # -1 /\ Alarm[f] <= Ticks(now)
    BY <2>1, <2>3 DEF Alarm
  <2>5. Alarms!Due = Range(a)
    BY <2>1, <2>2, <2>4 DEF Alarms!Due, Alarms!Awake, Alarm
  <2>6. Alarm' = [f \in Fibers |-> IF f \in Range(a) THEN -1 ELSE Alarm[f]]
    BY <2>1 DEF Alarm, Ticks
  <2>7. QED
    BY <1>1, <2>1, <2>5, <2>6 DEF Alarms!Ring, Alarm
<1>4. QED
    BY <1>2, <1>3 DEF Look

LEMMA AlarmStep ==
    ASSUME TimerInv, TimerInv', [TimerNext]_timerVars
    PROVE  [Alarms!Next]_<<Ticks(now), Alarm>>
<1>1. TimerTypeOK /\ SleepList /\ OwnInv'
    BY DEF TimerInv, TimerState
<1>2. CASE \/ UNCHANGED timerVars
           \/ SpuriousWakeup
           \/ TimeReached
           \/ WaitReturned
           \/ TimerTop /\ time_tree = <<>>
  <2>1. UNCHANGED <<now, tree, tp>>
    BY <1>2, TimerThreadMoves
  <2>2. Ticks(now)' = Ticks(now) /\ Alarm' = Alarm
    BY <2>1, AlarmsStay DEF Ticks
  <2>3. QED
    BY <2>2
<1>3. CASE Look /\ time_list # <<>> /\ UNCHANGED <<now, calls, tp>>
    BY <1>3, LookRings DEF Alarms!Next
<1>4. ASSUME NEW t \in Agents,
             \/ Tick
             \/ SchedulerStep(t)
             \/ t \in Threads /\ \/ LeaveFiber(t)
                                 \/ SetTimeout(t)
                                 \/ \E d \in Durations : FiberSleep(t, d)
                                 \/ Spawn(t) /\ UNCHANGED <<now, tree, wait, calls, tp>>
      PROVE  [Alarms!Next]_<<Ticks(now), Alarm>>
  <2>1. Alarm' = Alarm
    BY <1>1, <1>4, QuietTimer, AlarmsStay DEF SleepList
  <2>2. CASE Tick
    <3>1. Ticks(now)' = Ticks(now) + 1
      <4>1. Ticks(now)' = Ticks(TimeAfter(now, [tv_sec |-> 0, tv_nsec |-> 1]))
        BY <2>2 DEF Tick, Ticks
      <4>2. QED
        BY <1>1, <4>1, NanosecondLater DEF TimerTypeOK
    <3>2. QED
        BY <2>1, <3>1 DEF Alarms!Next, Alarms!Tick, Alarm
  <2>3. CASE now' = now
    BY <2>1, <2>3 DEF Ticks
  <2>4. QED
    BY <1>4, <2>2, <2>3 DEF SchedulerStep, LeaveFiber, SetTimeout, FiberSleep
<1>5. ASSUME NEW t \in Threads, TimerAddFiber(t)
      PROVE  Alarms!Next
    BY <1>5, AddSetsAlarm DEF Alarms!Next
<1>6. TimerThread \in Agents
    BY Names
<1>7. QED
    BY <1>2, <1>3, <1>4, <1>5, <1>6, StepsOfTimer

(* The timer implements AlarmClock: it takes out exactly the fibers that   *)
(* are due whenever it looks at the clock, and nothing else wakes one.     *)
THEOREM TimerIsAlarmClock == TimerSpec => AlarmSpec
<1>1. TimerInit => Alarms!Init
  <2>1. TimerInit => Ticks(now) = 0
    BY ClockBounds DEF TimerInit, Zero, Ticks
  <2>2. TimerInit => Alarm = [f \in Fibers |-> -1]
    BY ListedEmpty DEF TimerInit, Alarm
  <2>3. QED
    BY <2>1, <2>2 DEF Alarms!Init, Alarm
<1>2. TimerInv /\ TimerInv' /\ [TimerNext]_timerVars
        => [Alarms!Next]_<<Ticks(now), [f \in Fibers |->
                IF f \in Range(time_list) THEN Ticks(tp[f]) ELSE -1]>>
    BY AlarmStep DEF Alarm
<1>3. QED
    BY <1>1, <1>2, TimerInvariant, PTL DEF TimerSpec, AlarmSpec, Alarms!Spec
=============================================================================
