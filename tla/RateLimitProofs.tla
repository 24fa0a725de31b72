-------------------------- MODULE RateLimitProofs --------------------------
(***************************************************************************)
(* Theorems about RateLimit, for any budgets, window, resolution of the    *)
(* clock, routes and callers.                                              *)
(***************************************************************************)
EXTENDS RateLimit, TLAPS, FiniteSetTheorems

-----------------------------------------------------------------------------
(* Counting the entries of a sequence that lie in a set                    *)

LEMMA Instants ==
    ASSUME NEW q \in Seq(0..MaxClock)
    PROVE  \A i \in DOMAIN q : q[i] \in Int
<1> DEFINE D == 0..MaxClock
<1>1. q \in Seq(D) /\ \A d \in D : d \in Int
  OBVIOUS
<1> HIDE DEF D
<1> QED BY <1>1

Chosen(q, S) == {i \in DOMAIN q : q[i] \in S}

Count(q, S) == Cardinality(Chosen(q, S))

LEMMA CountType ==
    ASSUME NEW D, NEW q \in Seq(D), NEW S
    PROVE  IsFiniteSet(Chosen(q, S)) /\ Count(q, S) \in Nat
<1>1. IsFiniteSet(1..Len(q))
  BY FS_Interval
<1>2. Chosen(q, S) \subseteq 1..Len(q)
  BY DEF Chosen
<1> QED BY <1>1, <1>2, FS_Subset, FS_CardinalityType DEF Count

LEMMA CountEmpty == \A S : Count(<<>>, S) = 0
<1>1. \A S : Chosen(<<>>, S) = {}
  BY DEF Chosen
<1> QED BY <1>1, FS_EmptySet DEF Count

LEMMA CountMonotone ==
    ASSUME NEW D, NEW q \in Seq(D), NEW S, NEW T,
           \A i \in DOMAIN q : q[i] \in S => q[i] \in T
    PROVE  Count(q, S) <= Count(q, T)
<1>1. Chosen(q, S) \subseteq Chosen(q, T)
  BY DEF Chosen
<1> QED BY <1>1, CountType, FS_Subset DEF Count

\* The entries of a set that two others cover.
LEMMA CountCovered ==
    ASSUME NEW D, NEW q \in Seq(D), NEW S, NEW T, NEW U,
           \A i \in DOMAIN q : q[i] \in S => q[i] \in T \/ q[i] \in U
    PROVE  Count(q, S) <= Count(q, T) + Count(q, U)
<1> DEFINE A == Chosen(q, T)
           B == Chosen(q, U)
<1>1. IsFiniteSet(A) /\ IsFiniteSet(B) /\ Count(q, T) = Cardinality(A)
      /\ Count(q, U) = Cardinality(B)
  BY CountType DEF Count
<1>2. IsFiniteSet(A \cup B)
      /\ Cardinality(A \cup B) = Cardinality(A) + Cardinality(B) - Cardinality(A \cap B)
  BY <1>1, FS_Union
<1>3. Cardinality(A \cap B) \in Nat /\ Cardinality(A) \in Nat /\ Cardinality(B) \in Nat
  BY <1>1, FS_Intersection, FS_CardinalityType
<1>4. Chosen(q, S) \subseteq A \cup B
  BY DEF Chosen
<1>5. Count(q, S) <= Cardinality(A \cup B)
  BY <1>2, <1>4, FS_Subset DEF Count
<1>6. Count(q, S) \in Nat
  BY CountType
<1> HIDE DEF A, B
<1> QED BY <1>1, <1>2, <1>3, <1>5, <1>6

LEMMA CountNone ==
    ASSUME NEW q, NEW S, \A i \in DOMAIN q : q[i] \notin S
    PROVE  Count(q, S) = 0
<1>1. Chosen(q, S) = {}
  BY DEF Chosen
<1> QED BY <1>1, FS_EmptySet DEF Count

LEMMA CountAppend ==
    ASSUME NEW D, NEW q \in Seq(D), NEW x \in D, NEW S
    PROVE  Count(Append(q, x), S) = Count(q, S) + (IF x \in S THEN 1 ELSE 0)
<1> DEFINE n == Len(q)
           p == Append(q, x)
<1>1. n \in Nat /\ DOMAIN q = 1..n /\ DOMAIN p = 1..(n + 1) /\ p[n + 1] = x
      /\ \A i \in 1..n : p[i] = q[i]
  OBVIOUS
<1>2. n + 1 \notin Chosen(q, S)
  BY <1>1 DEF Chosen
<1>3. CASE x \in S
  <2>1. Chosen(p, S) = Chosen(q, S) \cup {n + 1}
    <3> HIDE DEF p, n
    <3> QED BY <1>1, <1>3 DEF Chosen
  <2> QED BY <1>2, <1>3, <2>1, CountType, FS_AddElement DEF Count
<1>4. CASE x \notin S
  <2>1. Chosen(p, S) = Chosen(q, S)
    <3> HIDE DEF p, n
    <3> QED BY <1>1, <1>4 DEF Chosen
  <2> QED BY <1>4, <2>1, CountType DEF Count
<1> QED BY <1>3, <1>4

-----------------------------------------------------------------------------
(* Seconds                                                                 *)

LEMMA WindowPositive == Window \in Nat /\ Window > 0
BY TimeAssumption DEF Window

LEMMA CeilCovers ==
    ASSUME NEW x \in Int
    PROVE  Ceil(x) \in Int /\ Ceil(x) * Second >= x
<1>1. Second \in Nat /\ Second > 0 /\ x + Second - 1 \in Int
  BY TimeAssumption
<1> DEFINE y == x + Second - 1
           d == y \div Second
<1>2. d \in Int /\ y = Second * d + (y % Second) /\ y % Second \in 0..(Second - 1)
  BY <1>1
<1>3. Second * d \in Int /\ d * Second = Second * d
  BY <1>1, <1>2
<1> QED BY <1>1, <1>2, <1>3 DEF Ceil

-----------------------------------------------------------------------------
(* The window of a key                                                     *)

Smaller(m, n) == IF m <= n THEN m ELSE n

\* A counter w with a budget of L has admitted, since the instant s at which
\* its window began, as many as it counted up to the budget, and in the span
\* of a window before s no more than the budget.  In memory the window is
\* exactly Window long; in Redis an expiry that was lost and set again may
\* have made it longer, never shorter.
WindowSince(w, q, L, s) ==
    /\ w.ends >= 0 => s + Window <= w.ends
    /\ backend = "memory" => w.ends = s + Window
    /\ Count(q, s..MaxClock) = Smaller(w.count, L)
    /\ Count(q, (s - Window + 1)..(s - 1)) <= L

WindowOK(w, q, L) ==
    /\ w.ends >= -1
    /\ w.ends <= clock + Window
    /\ backend = "memory" => w.ends >= 0
    /\ \A i \in DOMAIN q : q[i] <= clock /\ (w.ends >= 0 => q[i] < w.ends)
    /\ w.count = 0 => q = <<>>
    /\ w.count > 0 => \E s \in 0..clock : WindowSince(w, q, L, s)

\* The answer of a refusal in memory, as long as it is the last one.
RefusalOK ==
    backend = "memory" /\ answer.kind = "429" =>
        /\ 0 <= windows[answer.key].ends
        /\ windows[answer.key].ends <= answer.at + answer.retry * Second

LimitInv ==
    /\ TypeOK
    /\ \A k \in Keys : WindowOK(windows[k], admitted[k], Limit[k[1]])
    /\ RefusalOK
    /\ NoFalseRefusal
    /\ WindowBudget

LEMMA KeyFacts ==
    ASSUME TypeOK, NEW k \in Keys
    PROVE  /\ windows[k] \in Entry /\ admitted[k] \in Seq(0..MaxClock)
           /\ k[1] \in Classes /\ Limit[k[1]] \in Nat /\ Limit[k[1]] >= 1
           /\ clock \in 0..MaxClock /\ clock \in Nat
<1>1. k[1] \in Classes
  BY DEF Keys
<1> QED BY <1>1, LimitAssumption, TimeAssumption DEF TypeOK

LEMMA AdmissionsCount == \A k, S : Admissions(k, S) = Count(admitted[k], S)
BY DEF Admissions, Count, Chosen

\* What a hit does to the counter, on either store.
LEMMA HitEntry ==
    ASSUME NEW w \in Entry, clock \in Nat, backend \in {"memory", "redis"},
           backend = "memory" => w.ends >= 0
    PROVE  LET e == Hit(w).entry
               r == Hit(w).retry
           IN  /\ e \in Entry
               /\ w.count = 0 \/ Over(w) => e.count = 1 /\ e.ends = clock + Window
               /\ ~(w.count = 0 \/ Over(w)) =>
                      /\ e.count = w.count + 1
                      /\ e.ends = IF w.ends < 0 THEN clock + Window ELSE w.ends
               /\ r \in Nat
               /\ backend = "memory" => clock + r * Second >= e.ends
<1> DEFINE next == [count |-> w.count + 1,
                    ends |-> IF w.ends < 0 THEN clock + Window ELSE w.ends]
           e == IF w.count = 0 \/ Over(w) THEN [count |-> 1, ends |-> clock + Window] ELSE next
<1>1. w.count \in Nat /\ w.ends \in Int /\ clock + Window \in Int
  BY WindowPositive DEF Entry
<1>2. /\ e \in Entry
      /\ w.count = 0 \/ Over(w) => e.count = 1 /\ e.ends = clock + Window
      /\ ~(w.count = 0 \/ Over(w)) =>
             /\ e.count = w.count + 1
             /\ e.ends = IF w.ends < 0 THEN clock + Window ELSE w.ends
  BY <1>1 DEF Entry
<1>3. CASE backend = "redis"
  <2>1. Hit(w) = [entry |-> e, retry |-> AtLeastOne(Nearest(e.ends - clock))]
    BY <1>3 DEF Hit, RedisHit
  <2> HIDE DEF e
  <2>2. e.ends - clock \in Int
    BY <1>2 DEF Entry
  <2>3. AtLeastOne(Nearest(e.ends - clock)) \in Nat
    <3>1. ASSUME NEW x \in Int PROVE AtLeastOne(Nearest(x)) \in Nat
      <4>1. Second \div 2 \in Int /\ Second \in Nat /\ Second > 0
        BY TimeAssumption
      <4>2. Nearest(x) \in Int
        BY <4>1 DEF Nearest
      <4> QED BY <4>2 DEF AtLeastOne
    <3> QED BY <2>2, <3>1
  <2>4. Hit(w).entry = e /\ Hit(w).retry = AtLeastOne(Nearest(e.ends - clock))
    BY <2>1
  <2> QED BY <1>2, <1>3, <2>3, <2>4
<1>4. CASE backend = "memory"
  <2>1. w.ends >= 0 /\ next = [w EXCEPT !.count = @ + 1]
    BY <1>1, <1>4 DEF Entry
  <2>2. Hit(w) = [entry |-> e, retry |-> AtLeastOne(Ceil(e.ends - clock))]
    BY <1>4, <2>1 DEF Hit, MemoryHit
  <2> HIDE DEF e
  <2>3. e.ends - clock \in Int /\ e.ends \in Int
    BY <1>2 DEF Entry
  <2>4. ASSUME NEW x \in Int
        PROVE  AtLeastOne(Ceil(x)) \in Nat /\ AtLeastOne(Ceil(x)) * Second >= x
    <3> DEFINE c == Ceil(x)
    <3>1. c \in Int /\ c * Second >= x
      BY CeilCovers
    <3> HIDE DEF c
    <3>2. Second \in Nat /\ c * Second \in Int
      BY <3>1, TimeAssumption
    <3>3. ASSUME c < 1 PROVE c * Second <= 0
      BY <3>1, <3>2, <3>3
    <3>4. AtLeastOne(c) \in Nat /\ AtLeastOne(c) * Second >= x
      BY <3>1, <3>2, <3>3 DEF AtLeastOne
    <3> QED BY <3>4 DEF c
  <2>5. Hit(w).entry = e /\ Hit(w).retry = AtLeastOne(Ceil(e.ends - clock))
    BY <2>2
  <2>6. Hit(w).retry \in Nat /\ Hit(w).retry * Second >= e.ends - clock
    BY <2>3, <2>4, <2>5
  <2>7. Hit(w).retry * Second \in Int
    BY <2>6, TimeAssumption
  <2>8. clock + Hit(w).retry * Second >= e.ends
    BY <2>3, <2>6, <2>7
  <2> QED BY <1>2, <2>5, <2>6, <2>8
<1> QED BY <1>3, <1>4

LEMMA CountAppendClock ==
    ASSUME NEW q \in Seq(0..MaxClock), clock \in 0..MaxClock, NEW S
    PROVE  Count(Append(q, clock), S) = Count(q, S) + (IF clock \in S THEN 1 ELSE 0)
<1> DEFINE D == 0..MaxClock
<1>1. q \in Seq(D) /\ clock \in D
  OBVIOUS
<1> HIDE DEF D
<1> QED BY ONLY <1>1, CountAppend

\* Two windows cover the span that ends now.
LEMMA BudgetNow ==
    ASSUME NEW w \in Entry, NEW q \in Seq(0..MaxClock), NEW L \in Nat,
           clock \in 0..MaxClock, WindowOK(w, q, L), w.count > 0
    PROVE  Count(q, (clock - Window + 1)..clock) <= 2 * L
<1>1. PICK s \in 0..clock : WindowSince(w, q, L, s)
  BY DEF WindowOK
<1> DEFINE A == Count(q, (s - Window + 1)..(s - 1))
           B == Count(q, s..MaxClock)
           N == Count(q, (clock - Window + 1)..clock)
<1>2. A <= L /\ B = Smaller(w.count, L) /\ w.count \in Nat
  BY <1>1 DEF WindowSince, Entry
<1>3. A \in Nat /\ B \in Nat /\ N \in Nat
  BY CountType
<1>4. N <= A + B
  <2>1. clock \in Int /\ s \in Int /\ MaxClock \in Int /\ Window \in Nat /\ s <= clock
        /\ clock <= MaxClock
    BY TimeAssumption, WindowPositive
  <2>2. \A i \in DOMAIN q : q[i] \in (clock - Window + 1)..clock =>
            q[i] \in (s - Window + 1)..(s - 1) \/ q[i] \in s..MaxClock
    BY <2>1
  <2> QED BY <2>2, CountCovered
<1> HIDE DEF A, B, N
<1>5. N <= 2 * L
  BY <1>2, <1>3, <1>4 DEF Smaller
<1> QED BY <1>5 DEF N

\* A counter beyond its budget has admitted the budget within the last window.
LEMMA RefusedNow ==
    ASSUME NEW w \in Entry, NEW q \in Seq(0..MaxClock), NEW L \in Nat,
           clock \in 0..MaxClock, WindowOK(w, q, L), w.count > L,
           backend = "memory", clock < w.ends
    PROVE  Count(q, (clock - Window + 1)..clock) >= L
<1>1. w.count > 0 /\ w.count \in Nat /\ w.ends \in Int
  BY DEF Entry
<1>2. PICK s \in 0..clock : WindowSince(w, q, L, s)
  BY <1>1 DEF WindowOK
<1>3. w.ends = s + Window /\ Count(q, s..MaxClock) = L
  BY <1>1, <1>2 DEF WindowSince, Smaller
<1>4. \A i \in DOMAIN q : q[i] \in s..MaxClock => q[i] \in (clock - Window + 1)..clock
  <2>1. clock \in Int /\ s \in Int /\ MaxClock \in Int /\ Window \in Nat
    BY TimeAssumption, WindowPositive
  <2>2. \A i \in DOMAIN q : q[i] <= clock
    BY DEF WindowOK
  <2> QED BY <1>3, <2>1, <2>2
<1>5. Count(q, s..MaxClock) <= Count(q, (clock - Window + 1)..clock)
  BY <1>4, CountMonotone
<1>6. Count(q, (clock - Window + 1)..clock) \in Nat
  BY CountType
<1> QED BY <1>3, <1>5, <1>6

\* The counter after a hit, and the admissions with this one if it is admitted.
LEMMA HitWindow ==
    ASSUME NEW w \in Entry, NEW q \in Seq(0..MaxClock), NEW L \in Nat, L >= 1,
           clock \in 0..MaxClock, backend \in {"memory", "redis"}, WindowOK(w, q, L),
           NEW e, e = Hit(w).entry,
           NEW p, p = IF e.count > L THEN q ELSE Append(q, clock)
    PROVE  /\ e \in Entry /\ p \in Seq(0..MaxClock) /\ e.count > 0
           /\ clock < e.ends /\ e.ends <= clock + Window
           /\ WindowOK(e, p, L)
<1>0. /\ clock \in Nat /\ clock <= MaxClock /\ MaxClock \in Nat /\ Window \in Nat /\ Window > 0
      /\ w.count \in Nat /\ w.ends \in Int
  BY TimeAssumption, WindowPositive DEF Entry
<1>1. /\ e \in Entry
      /\ w.count = 0 \/ Over(w) => e.count = 1 /\ e.ends = clock + Window
      /\ ~(w.count = 0 \/ Over(w)) =>
             e.count = w.count + 1 /\ e.ends = IF w.ends < 0 THEN clock + Window ELSE w.ends
  BY <1>0, HitEntry DEF WindowOK
<1>2. p \in Seq(0..MaxClock) /\ e.count \in Nat /\ e.ends \in Int
  <2>1. Append(q, clock) \in Seq(0..MaxClock)
    OBVIOUS
  <2> QED BY <1>1, <2>1 DEF Entry
<1>3. e.count > 0 /\ clock < e.ends /\ e.ends <= clock + Window
  <2>1. CASE w.count = 0 \/ Over(w)
    BY <1>0, <1>1, <2>1
  <2>2. CASE ~(w.count = 0 \/ Over(w))
    BY <1>0, <1>1, <2>2 DEF Over, WindowOK
  <2> QED BY <2>1, <2>2
<1>4. \A i \in DOMAIN q : q[i] \in Int /\ q[i] <= clock
  BY Instants DEF WindowOK
<1>5. \A i \in DOMAIN p : p[i] <= clock /\ p[i] < e.ends
  <2>1. \A i \in DOMAIN q : q[i] < e.ends
    BY <1>0, <1>2, <1>3, <1>4
  <2>2. \A i \in DOMAIN p : p[i] = clock \/ \E j \in DOMAIN q : p[i] = q[j]
    OBVIOUS
  <2> QED BY <1>0, <1>3, <1>4, <2>1, <2>2
<1>8. \A S : Count(Append(q, clock), S) = Count(q, S) + (IF clock \in S THEN 1 ELSE 0)
  BY CountAppendClock
<1>6. \E s \in 0..clock : WindowSince(e, p, L, s)
  <2>1. CASE w.count = 0 \/ Over(w)
    <3>1. e.count = 1 /\ e.ends = clock + Window /\ p = Append(q, clock)
      BY <1>0, <1>1, <2>1
    <3>2. \A i \in DOMAIN q : q[i] < clock
      <4>1. CASE w.count = 0
        BY <4>1 DEF WindowOK
      <4>2. CASE Over(w)
        BY <1>0, <1>4, <4>2 DEF Over, WindowOK
      <4> QED BY <2>1, <4>1, <4>2
    <3>3. Count(q, clock..MaxClock) = 0
      BY <1>0, <1>4, <3>2, CountNone
    <3>4. Count(p, clock..MaxClock) = Smaller(e.count, L)
      BY <1>0, <3>1, <3>3, CountAppend DEF Smaller
    <3> DEFINE S == (clock - Window + 1)..(clock - 1)
    <3>5. Count(q, S) <= L
      <4>1. CASE w.count = 0
        BY <4>1, CountEmpty DEF WindowOK
      <4>2. CASE w.count > 0
        <5>1. PICK s \in 0..clock : WindowSince(w, q, L, s)
          BY <4>2 DEF WindowOK
        <5>2. s + Window <= w.ends /\ w.ends <= clock
          BY <1>0, <2>1, <4>2, <5>1 DEF WindowSince, Over
        <5>3. ASSUME NEW x \in S PROVE x \in s..MaxClock
          <6>1. s \in Nat /\ x \in Int /\ clock - Window + 1 <= x /\ x <= clock - 1
            BY <1>0
          <6> QED BY <1>0, <5>2, <6>1
        <5>4. Count(q, S) <= Count(q, s..MaxClock)
          BY <5>3, CountMonotone
        <5>5. Count(q, s..MaxClock) = Smaller(w.count, L)
          BY <5>1 DEF WindowSince
        <5>6. Count(q, S) \in Nat
          BY CountType
        <5> HIDE DEF S
        <5> QED BY <1>0, <5>4, <5>5, <5>6 DEF Smaller
      <4> QED BY <1>0, <4>1, <4>2
    <3>6. Count(p, S) = Count(q, S)
      <4>1. clock \notin S
        BY <1>0
      <4> HIDE DEF S
      <4>2. Count(p, S) = Count(q, S) + 0
        BY <3>1, <4>1, <1>8
      <4> QED BY <4>2, CountType
    <3>7. WindowSince(e, p, L, clock)
      <4>1. e.ends = clock + Window
        BY <3>1
      <4> QED BY <1>0, <3>4, <3>5, <3>6, <4>1 DEF WindowSince
    <3> QED BY <1>0, <3>7
  <2>2. CASE ~(w.count = 0 \/ Over(w))
    <3>1. PICK s \in 0..clock : WindowSince(w, q, L, s)
      BY <1>0, <2>2 DEF WindowOK
    <3>2. e.count = w.count + 1 /\ e.ends = IF w.ends < 0 THEN clock + Window ELSE w.ends
      BY <1>1, <2>2
    <3>3. s \in Nat /\ s <= clock /\ (w.ends >= 0 => s + Window <= w.ends)
          /\ (backend = "memory" => w.ends = s + Window)
      BY <1>0, <3>1 DEF WindowSince
    <3>4. (e.ends >= 0 => s + Window <= e.ends) /\ (backend = "memory" => e.ends = s + Window)
      BY <1>0, <3>2, <3>3
    <3> DEFINE A == (s - Window + 1)..(s - 1)
               B == s..MaxClock
    <3>5. Count(q, B) = Smaller(w.count, L) /\ Count(q, A) <= L
      BY <3>1 DEF WindowSince
    <3>6. CASE e.count > L
      BY <1>0, <3>2, <3>4, <3>5, <3>6 DEF WindowSince, Smaller
    <3>7. CASE ~(e.count > L)
      <4>1. clock \in B /\ clock \notin A
        BY <1>0, <3>3
      <4>2. p = Append(q, clock) /\ Count(q, A) \in Nat /\ Count(q, B) \in Nat
        BY <3>7, CountType
      <4>3. Count(p, B) = Count(q, B) + 1 /\ Count(p, A) = Count(q, A) + 0
        <5> HIDE DEF A, B
        <5> QED BY <4>1, <4>2, <1>8
      <4>4. Count(p, B) = Smaller(e.count, L) /\ Count(p, A) <= L
        BY <1>0, <1>2, <3>2, <3>5, <3>7, <4>2, <4>3 DEF Smaller
      <4> QED BY <3>4, <4>4 DEF WindowSince
    <3> QED BY <3>6, <3>7
  <2> QED BY <2>1, <2>2
<1>7. e.ends >= -1 /\ e.ends >= 0 /\ e.count # 0
  BY <1>0, <1>2, <1>3
<1> QED BY <1>1, <1>2, <1>3, <1>5, <1>6, <1>7 DEF WindowOK

-----------------------------------------------------------------------------
(* The steps of the limiter                                                *)

LEMMA RateKeyType ==
    ASSUME NEW r, NEW c \in Callers, Classify(r) # "exempt"
    PROVE  RateKey(r, c) \in Keys
<1>1. Classify(r) \in Classes
  BY DEF Classify, Classes
<1> QED BY <1>1 DEF RateKey, Keys

LEMMA NoAnswerType == NoAnswer \in Answer
<1>1. (CHOOSE c \in Callers : TRUE) \in Callers
  BY CallerAssumption
<1> QED BY <1>1, TimeAssumption DEF NoAnswer, Answer, Keys, Classes

LEMMA InitLimit == Init => LimitInv
<1> SUFFICES ASSUME Init PROVE LimitInv
  OBVIOUS
<1>1. TypeOK
  BY NoAnswerType, TimeAssumption DEF Init, TypeOK, Entry, Absent
<1>2. \A k \in Keys : WindowOK(windows[k], admitted[k], Limit[k[1]])
  BY WindowPositive DEF Init, WindowOK, Absent
<1>3. RefusalOK /\ NoFalseRefusal
  BY DEF Init, RefusalOK, NoFalseRefusal, NoAnswer
<1>4. WindowBudget
  <2>1. ASSUME NEW k \in Keys, NEW S PROVE Admissions(k, S) <= 2 * Limit[k[1]]
    <3>1. admitted[k] = <<>>
      BY DEF Init
    <3>2. Admissions(k, S) = 0
      BY <3>1, CountEmpty, AdmissionsCount
    <3> QED BY <1>1, <3>2, KeyFacts
  <2> QED BY <2>1 DEF WindowBudget
<1> QED BY <1>1, <1>2, <1>3, <1>4 DEF LimitInv

\* The counters of one key change; its answer is the last one.
LEMMA DispatchLimit ==
    ASSUME LimitInv, NEW r \in Routes, NEW c \in Callers, Dispatch(r, c)
    PROVE  LimitInv'
<1> DEFINE k == RateKey(r, c)
           h == Hit(windows[k])
           e == h.entry
           L == Limit[k[1]]
           q == admitted[k]
           p == IF e.count > L THEN q ELSE Append(q, clock)
           kind == IF e.count > L THEN "429" ELSE "next"
<1>1. k \in Keys /\ UNCHANGED <<backend, clock>>
  BY RateKeyType DEF Dispatch
<1>2. /\ windows[k] \in Entry /\ q \in Seq(0..MaxClock) /\ L \in Nat /\ L >= 1
      /\ clock \in 0..MaxClock /\ clock \in Nat /\ backend \in {"memory", "redis"}
      /\ WindowOK(windows[k], q, L) /\ TypeOK
  BY <1>1, KeyFacts DEF LimitInv, TypeOK
<1>3. /\ windows' = [windows EXCEPT ![k] = e]
      /\ admitted' = [admitted EXCEPT ![k] = p]
      /\ answer' = [kind |-> kind, key |-> k, at |-> clock, retry |-> h.retry]
  <2>1. [admitted EXCEPT ![k] = q] = admitted
    BY <1>1, <1>2 DEF TypeOK
  <2> QED BY <2>1 DEF Dispatch, Exceeds
<1>4. /\ e \in Entry /\ p \in Seq(0..MaxClock) /\ e.count > 0 /\ clock < e.ends
      /\ e.ends <= clock + Window /\ WindowOK(e, p, L)
  <2>1. e = Hit(windows[k]).entry /\ p = IF e.count > L THEN q ELSE Append(q, clock)
    OBVIOUS
  <2> HIDE DEF k, e, p, L, q
  <2> QED BY <1>2, <2>1, HitWindow
<1>5. h.retry \in Nat /\ (backend = "memory" => clock + h.retry * Second >= e.ends)
  BY <1>2, HitEntry DEF WindowOK
<1>6. /\ answer'.kind = kind /\ answer'.key = k /\ answer'.at = clock /\ answer'.retry = h.retry
      /\ kind \in {"429", "next"} /\ (kind = "429" => e.count > L)
  BY <1>3
<1> HIDE DEF h, e, k, p, kind
<1>7. TypeOK'
  <2>1. answer' \in Answer
    BY <1>1, <1>2, <1>3, <1>5, <1>6 DEF Answer
  <2> QED BY <1>1, <1>2, <1>3, <1>4, <2>1 DEF TypeOK
<1>8. \A j \in Keys : /\ windows'[j] = IF j = k THEN e ELSE windows[j]
                      /\ admitted'[j] = IF j = k THEN p ELSE admitted[j]
  BY <1>2, <1>3 DEF TypeOK
<1>9. \A j \in Keys : WindowOK(windows[j], admitted[j], Limit[j[1]])'
  <2>1. \A j \in Keys : WindowOK(windows'[j], admitted'[j], Limit[j[1]])
    BY <1>4, <1>8 DEF LimitInv
  <2> QED BY <1>1, <2>1 DEF WindowOK, WindowSince
<1>10. RefusalOK'
  BY <1>1, <1>2, <1>4, <1>5, <1>6, <1>8 DEF RefusalOK, Entry
<1>11. NoFalseRefusal'
  <2> SUFFICES ASSUME backend' = "memory", answer'.kind = "429"
               PROVE  Count(p, (clock - Window + 1)..clock) >= L
    BY <1>1, <1>6, <1>8, AdmissionsCount DEF NoFalseRefusal, Admissions, Count, Chosen
  <2> QED BY <1>1, <1>2, <1>4, <1>6, RefusedNow
<1>12. WindowBudget'
  <2>1. ASSUME NEW j \in Keys, NEW t \in 0..clock
        PROVE  Count(admitted'[j], (t - Window + 1)..t) <= 2 * Limit[j[1]]
    <3>1. Count(admitted[j], (t - Window + 1)..t) <= 2 * Limit[j[1]]
      BY AdmissionsCount DEF LimitInv, WindowBudget
    <3>2. CASE j # k \/ p = q
      BY <1>8, <3>1, <3>2
    <3>3. CASE j = k /\ t = clock
      BY <1>2, <1>4, <1>8, <3>3, BudgetNow
    <3>4. CASE j = k /\ t # clock /\ p = Append(q, clock)
      <4> DEFINE S == (t - Window + 1)..t
      <4>1. clock \notin S
        BY <1>2, <3>4
      <4>2. Count(q, S) \in Nat /\ Count(q, S) <= 2 * L
        BY <1>2, <3>1, <3>4, CountType
      <4> HIDE DEF S
      <4>3. Count(p, S) = Count(q, S)
        BY <1>2, <3>4, <4>1, <4>2, CountAppendClock
      <4> QED BY <1>8, <3>4, <4>2, <4>3 DEF S
    <3> QED BY <3>2, <3>3, <3>4 DEF p
  <2> QED BY <1>1, <2>1 DEF WindowBudget, Admissions, Count, Chosen
<1> QED BY <1>7, <1>9, <1>10, <1>11, <1>12 DEF LimitInv

LEMMA LoseExpiryLimit ==
    ASSUME LimitInv, NEW k \in Keys, LoseExpiry(k)
    PROVE  LimitInv'
<1> DEFINE w == windows[k]
           e == [w EXCEPT !.ends = -1]
<1>1. TypeOK /\ w \in Entry /\ WindowOK(w, admitted[k], Limit[k[1]]) /\ clock \in Nat
  BY KeyFacts DEF LimitInv
<1>2. /\ backend = "redis" /\ UNCHANGED <<backend, clock, admitted, answer>>
      /\ windows' = [windows EXCEPT ![k] = e]
  BY DEF LoseExpiry
<1>3. e \in Entry /\ e.count = w.count /\ e.ends = -1
  BY <1>1 DEF Entry
<1> HIDE DEF e
<1>4. WindowOK(e, admitted[k], Limit[k[1]])
  <2>1. w.count > 0 => \E s \in 0..clock : WindowSince(e, admitted[k], Limit[k[1]], s)
    BY <1>1, <1>2, <1>3 DEF WindowOK, WindowSince
  <2> QED BY <1>1, <1>2, <1>3, <2>1, WindowPositive DEF WindowOK
<1>5. \A j \in Keys : windows'[j] = IF j = k THEN e ELSE windows[j]
  BY <1>1, <1>2 DEF TypeOK
<1>6. \A j \in Keys : WindowOK(windows'[j], admitted[j], Limit[j[1]])
  BY <1>4, <1>5 DEF LimitInv
<1>7. \A j \in Keys : WindowOK(windows[j], admitted[j], Limit[j[1]])'
  BY <1>2, <1>6 DEF WindowOK, WindowSince
<1>8. TypeOK'
  BY <1>1, <1>2, <1>3 DEF TypeOK
<1> QED BY <1>2, <1>7, <1>8
        DEF LimitInv, RefusalOK, NoFalseRefusal, WindowBudget, Admissions

\* A new answer that is no refusal, and nothing else.
LEMMA AnswerLimit ==
    ASSUME LimitInv, UNCHANGED <<backend, clock, windows, admitted>>, answer' \in Answer,
           answer'.kind # "429"
    PROVE  LimitInv'
<1>1. TypeOK'
  BY DEF LimitInv, TypeOK
<1>2. \A j \in Keys : WindowOK(windows[j], admitted[j], Limit[j[1]])'
  BY DEF LimitInv, WindowOK, WindowSince
<1> QED BY <1>1, <1>2 DEF LimitInv, RefusalOK, NoFalseRefusal, WindowBudget, Admissions

\* Time passes: the spans that are new contain no later admission.
LEMMA TickLimit ==
    ASSUME LimitInv, Tick
    PROVE  LimitInv'
<1>1. /\ UNCHANGED <<backend, windows, admitted, answer>> /\ clock' = clock + 1 /\ TypeOK
      /\ clock \in Nat /\ clock' \in 0..MaxClock
  BY TimeAssumption DEF Tick, LimitInv, TypeOK
<1>2. TypeOK'
  BY <1>1 DEF TypeOK
<1>3. ASSUME NEW j \in Keys PROVE WindowOK(windows[j], admitted[j], Limit[j[1]])'
  <2> DEFINE w == windows[j]
             q == admitted[j]
             L == Limit[j[1]]
  <2>1. w \in Entry /\ WindowOK(w, q, L) /\ q \in Seq(0..MaxClock) /\ L \in Nat
    BY <1>1, KeyFacts DEF LimitInv
  <2>2. w.ends \in Int /\ Window \in Nat /\ \A i \in DOMAIN q : q[i] \in Int
    BY <2>1, Instants, WindowPositive DEF Entry
  <2>3. w.count > 0 => \E s \in 0..(clock + 1) : WindowSince(w, q, L, s)
    BY <1>1, <2>1 DEF WindowOK
  <2>4. w.count > 0 => \E s \in 0..(clock + 1) : WindowSince(w, q, L, s)'
    BY <1>1, <2>3 DEF WindowSince
  <2> QED BY <1>1, <2>1, <2>2, <2>4 DEF WindowOK
<1>4. WindowBudget'
  <2>1. ASSUME NEW j \in Keys, NEW t \in 0..(clock + 1)
        PROVE  Count(admitted[j], (t - Window + 1)..t) <= 2 * Limit[j[1]]
    <3>1. CASE t \in 0..clock
      BY <3>1, AdmissionsCount DEF LimitInv, WindowBudget
    <3>2. CASE t = clock + 1
      <4> DEFINE q == admitted[j]
                 A == (t - Window + 1)..t
                 B == (clock - Window + 1)..clock
      <4>1. q \in Seq(0..MaxClock) /\ Limit[j[1]] \in Nat
        BY <1>1, KeyFacts
      <4>2. \A i \in DOMAIN q : q[i] \in Int /\ q[i] <= clock
        BY <4>1, Instants DEF LimitInv, WindowOK
      <4>3. \A i \in DOMAIN q : q[i] \in A => q[i] \in B
        BY <1>1, <3>2, <4>2, WindowPositive
      <4>4. Count(q, B) <= 2 * Limit[j[1]]
        BY <1>1, AdmissionsCount DEF LimitInv, WindowBudget
      <4> HIDE DEF A, B
      <4>5. Count(q, A) \in Nat /\ Count(q, B) \in Nat /\ Count(q, A) <= Count(q, B)
        BY <4>1, <4>3, CountType, CountMonotone
      <4>6. Count(q, A) <= 2 * Limit[j[1]]
        BY <4>1, <4>4, <4>5
      <4> QED BY <4>6 DEF A
    <3> QED BY <1>1, <3>1, <3>2
  <2> QED BY <1>1, <2>1 DEF WindowBudget, Admissions, Count, Chosen
<1> QED BY <1>1, <1>2, <1>3, <1>4 DEF LimitInv, RefusalOK, NoFalseRefusal, Admissions

LEMMA NextLimit == LimitInv /\ [Next]_vars => LimitInv'
<1> SUFFICES ASSUME LimitInv, [Next]_vars PROVE LimitInv'
  OBVIOUS
<1>1. ASSUME NEW r \in Routes, NEW c \in Callers, FailOpen(r, c) PROVE LimitInv'
  <2>1. answer' \in Answer
    <3>1. RateKey(r, c) \in Keys /\ clock \in 0..MaxClock
      BY <1>1, RateKeyType DEF FailOpen, LimitInv, TypeOK
    <3> QED BY <1>1, <3>1 DEF FailOpen, Answer
  <2> QED BY <1>1, <2>1, AnswerLimit DEF FailOpen
<1>2. ASSUME NEW r \in Routes, NEW c \in Callers, Exempt(r, c) PROVE LimitInv'
  <2>1. answer' \in Answer /\ answer'.kind = "exempt"
    BY <1>2, NoAnswerType DEF Exempt, Answer, LimitInv, TypeOK
  <2> QED BY <1>2, <2>1, AnswerLimit DEF Exempt
<1>3. CASE UNCHANGED vars
  <2>1. \A j \in Keys : WindowOK(windows[j], admitted[j], Limit[j[1]])'
    BY <1>3 DEF vars, LimitInv, WindowOK, WindowSince
  <2> QED BY <1>3, <2>1
          DEF vars, LimitInv, TypeOK, RefusalOK, NoFalseRefusal, WindowBudget, Admissions
<1> QED BY <1>1, <1>2, <1>3, DispatchLimit, LoseExpiryLimit, TickLimit DEF Next

LEMMA LimitInvariant == Spec => []LimitInv
BY InitLimit, NextLimit, PTL DEF Spec

\* The counters, the history and the answer have their types, the sequence of
\* admissions and a Retry-After that is a natural number included.
THEOREM LimiterTypes == Spec => []TypeOK
<1>1. LimitInv => TypeOK
  BY DEF LimitInv
<1> QED BY <1>1, LimitInvariant, PTL

\* Whichever store counts, and though a Redis key may lose its expiry and have
\* its window made longer, no span of one window admits more than two budgets.
THEOREM BurstsAreBounded == Spec => []WindowBudget
<1>1. LimitInv => WindowBudget
  BY DEF LimitInv
<1> QED BY <1>1, LimitInvariant, PTL

\* MemoryRateLimitStore refuses a key only after it has admitted a whole
\* budget of that key within the last window.
THEOREM RefusalsAreDeserved == Spec => []NoFalseRefusal
<1>1. LimitInv => NoFalseRefusal
  BY DEF LimitInv
<1> QED BY <1>1, LimitInvariant, PTL

\* The Retry-After of a refusal in memory, in whole seconds, is never short:
\* when it has passed, the window is over.
THEOREM RetryAfterSuffices == Spec => []RetryAfterEnough
<1>1. LimitInv => RetryAfterEnough
  <2> SUFFICES ASSUME LimitInv, backend = "memory", answer.kind = "429",
                      clock >= answer.at + answer.retry * Second
               PROVE  Over(windows[answer.key])
    BY DEF RetryAfterEnough
  <2>1. answer.key \in Keys /\ answer.at \in Nat /\ answer.retry \in Nat /\ clock \in Nat
    BY DEF LimitInv, TypeOK, Answer
  <2>2. windows[answer.key].ends \in Int
    BY <2>1 DEF LimitInv, TypeOK, Entry
  <2>3. answer.retry * Second \in Int
    BY <2>1, TimeAssumption
  <2>4. /\ 0 <= windows[answer.key].ends
        /\ windows[answer.key].ends <= answer.at + answer.retry * Second
    BY DEF LimitInv, RefusalOK
  <2> QED BY <2>1, <2>2, <2>3, <2>4 DEF Over
<1> QED BY <1>1, LimitInvariant, PTL

\* A counter never changes without its key being left with a window that ends
\* within Window from now: _WINDOW_SCRIPT sets a lost expiry again.
THEOREM WindowsEnd == Spec => WindowAlwaysEnds
<1> DEFINE Ends(k) == clock < windows'[k].ends /\ windows'[k].ends <= clock + Window
           A == \A r \in Routes, c \in Callers : Dispatch(r, c) => Ends(RateKey(r, c))
<1>1. LimitInv => [A]_vars
  <2> SUFFICES ASSUME LimitInv, NEW r \in Routes, NEW c \in Callers, Dispatch(r, c)
               PROVE  Ends(RateKey(r, c))
    OBVIOUS
  <2> DEFINE j == RateKey(r, c)
             e == Hit(windows[j]).entry
  <2>1. j \in Keys /\ windows' = [windows EXCEPT ![j] = e]
    BY RateKeyType DEF Dispatch
  <2>2. windows'[j] = e
    <3> HIDE DEF e, j
    <3> QED BY <2>1 DEF LimitInv, TypeOK
  <2>3. /\ windows[j] \in Entry /\ admitted[j] \in Seq(0..MaxClock)
        /\ Limit[j[1]] \in Nat /\ Limit[j[1]] >= 1 /\ clock \in 0..MaxClock
        /\ backend \in {"memory", "redis"} /\ WindowOK(windows[j], admitted[j], Limit[j[1]])
    BY <2>1, KeyFacts DEF LimitInv, TypeOK
  <2>4. clock < e.ends /\ e.ends <= clock + Window
    <3> DEFINE p == IF e.count > Limit[j[1]] THEN admitted[j] ELSE Append(admitted[j], clock)
    <3>1. e = Hit(windows[j]).entry
          /\ p = IF e.count > Limit[j[1]] THEN admitted[j] ELSE Append(admitted[j], clock)
      OBVIOUS
    <3> HIDE DEF e, j, p
    <3> QED BY <2>3, <3>1, HitWindow
  <2> QED BY <2>2, <2>4
<1> QED BY <1>1, LimitInvariant, PTL DEF WindowAlwaysEnds

=============================================================================
