------------------------ MODULE SnapshotFactsProofs ------------------------
(***************************************************************************)
(* Proofs about SnapshotFacts: what a sealed snapshot guarantees, that its *)
(* hash is the hash of what was given, and that normalize_repo_path names  *)
(* the file a path leads to, for paths and facts of every size.            *)
(*                                                                         *)
(* Induction is by a least counterexample: a set of naturals that is not   *)
(* empty has a smallest element.                                           *)
(***************************************************************************)
EXTENDS SnapshotFacts, TLAPS, WellFoundedInduction, FiniteSetTheorems, SequenceTheorems

-----------------------------------------------------------------------------
(* Least counterexamples                                                   *)

LEMMA Least ==
    ASSUME NEW T, T \subseteq Nat, T # {}
    PROVE  \E x \in T : \A y \in T : x <= y
<1>1. PICK x \in T : \A y \in T : ~(<<y, x>> \in OpToRel(<, Nat))
  BY WFMin, NatLessThanWellFounded
<1>2. \A y \in T : ~(y < x)
  BY <1>1 DEF OpToRel
<1> QED BY <1>2

\* What holds of 0, and of n + 1 when it holds of n, holds up to N.
LEMMA UpTo ==
    ASSUME NEW N \in Nat, NEW G, 0 \in G,
           \A n \in 0..N : n \in G /\ n < N => n + 1 \in G
    PROVE  \A n \in 0..N : n \in G
<1> DEFINE T == {n \in 0..N : n \notin G}
<1>1. SUFFICES ASSUME T # {} PROVE FALSE
  OBVIOUS
<1>2. T \subseteq Nat
  OBVIOUS
<1>3. PICK n \in T : \A m \in T : n <= m
  <2> HIDE DEF T
  <2> QED BY <1>1, <1>2, Least
<1>4. n \in 1..N /\ n - 1 \in 0..N /\ n - 1 \notin T
  BY <1>3
<1> QED BY <1>4

-----------------------------------------------------------------------------
(* normalize_repo_path, segment by segment                                 *)

Start == [path |-> <<>>, left |-> FALSE]

\* g holds what is resolved of the first i segments, for every i up to n.
IsRun(g, raw, n) == g = [i \in 0..n |-> IF i = 0 THEN Start ELSE Step(g[i - 1], raw[i])]

LEMMA RunExists ==
    ASSUME NEW raw \in Seq(STRING)
    PROVE  \E g : IsRun(g, raw, Len(raw))
<1> DEFINE G == {n \in 0..Len(raw) : \E g : IsRun(g, raw, n)}
<1>0. Len(raw) \in Nat
  OBVIOUS
<1>1. 0 \in G
  <2>1. IsRun([i \in 0..0 |-> Start], raw, 0)
    BY DEF IsRun
  <2> QED BY <1>0, <2>1
<1>2. ASSUME NEW n \in 0..Len(raw), n \in G, n < Len(raw) PROVE n + 1 \in G
  <2>1. PICK g : IsRun(g, raw, n)
    BY <1>2
  <2> DEFINE h == [i \in 0..(n + 1) |-> IF i = n + 1 THEN Step(g[n], raw[n + 1]) ELSE g[i]]
  <2>2. ASSUME NEW i \in 0..(n + 1)
        PROVE  h[i] = IF i = 0 THEN Start ELSE Step(h[i - 1], raw[i])
    BY <2>1 DEF IsRun
  <2>3. IsRun(h, raw, n + 1)
    BY <2>2 DEF IsRun
  <2> QED BY <1>0, <1>2, <2>3
<1>3. \A n \in 0..Len(raw) : n \in G
  <2> HIDE DEF G
  <2> QED BY <1>0, <1>1, <1>2, UpTo
<1> QED BY <1>0, <1>3

LEMMA ResolvedRun ==
    ASSUME NEW raw \in Seq(STRING)
    PROVE  \E g : IsRun(g, raw, Len(raw)) /\ Resolved(raw) = g[Len(raw)]
<1> DEFINE g == CHOOSE h : IsRun(h, raw, Len(raw))
<1>1. IsRun(g, raw, Len(raw))
  BY RunExists
<1>2. Resolved(raw) = g[Len(raw)]
  BY DEF Resolved, IsRun, Start
<1> QED BY <1>1, <1>2

\* The names a normal path is made of.
Segments == STRING \ Dots

LEMMA UpIsNotSkipped == ".." \notin Skipped
BY Zenon DEF Skipped

Resolutions == [path : Seq(Segments), left : BOOLEAN]

LEMMA StepCases ==
    ASSUME NEW x \in Resolutions, NEW s \in STRING
    PROVE  /\ Step(x, s) \in Resolutions
           /\ s \in Skipped \/ x.left => Step(x, s) = x
           /\ s = ".." /\ ~x.left /\ x.path = <<>> => Step(x, s).left
           /\ s = ".." /\ ~x.left /\ x.path # <<>> =>
                /\ Step(x, s).path = SubSeq(x.path, 1, Len(x.path) - 1)
                /\ ~Step(x, s).left
           /\ s \in Segments /\ ~x.left =>
                Step(x, s).path = Append(x.path, s) /\ ~Step(x, s).left
<1>1. CASE s \in Skipped \/ x.left
  <2>1. Step(x, s) = x
    BY <1>1 DEF Step
  <2> QED BY <1>1, <2>1, UpIsNotSkipped DEF Segments, Dots
<1>2. CASE ~x.left /\ s = ".." /\ x.path = <<>>
  <2>1. Step(x, s) = [x EXCEPT !.left = TRUE]
    BY <1>2, UpIsNotSkipped DEF Step
  <2> QED BY <1>2, <2>1, UpIsNotSkipped DEF Segments, Dots, Resolutions
<1>3. CASE ~x.left /\ s = ".." /\ x.path # <<>>
  <2>1. Step(x, s) = [x EXCEPT !.path = Front(x.path)]
    BY <1>3, UpIsNotSkipped DEF Step
  <2>2. x.path \in Seq(Segments) /\ Len(x.path) \in Nat /\ Len(x.path) > 0
    BY <1>3 DEF Resolutions
  <2>3. Front(x.path) = SubSeq(x.path, 1, Len(x.path) - 1)
    BY DEF Front
  <2>4. Front(x.path) \in Seq(Segments)
    BY <2>2, <2>3
  <2> QED BY <1>3, <2>1, <2>3, <2>4, UpIsNotSkipped DEF Segments, Dots, Resolutions
<1>4. CASE ~x.left /\ s \in Segments
  <2>1. Step(x, s) = [x EXCEPT !.path = Append(x.path, s)]
    BY <1>4 DEF Step, Segments, Dots
  <2>2. Append(x.path, s) \in Seq(Segments)
    BY <1>4 DEF Resolutions
  <2> QED BY <1>4, <2>1, <2>2, UpIsNotSkipped DEF Segments, Dots, Resolutions
<1> QED BY <1>1, <1>2, <1>3, <1>4 DEF Segments, Dots, Resolutions

LEMMA RunSteps ==
    ASSUME NEW raw \in Seq(STRING), NEW g, IsRun(g, raw, Len(raw))
    PROVE  /\ g[0] = Start
           /\ \A n \in 0..Len(raw) : n < Len(raw) => g[n + 1] = Step(g[n], raw[n + 1])
<1>1. Len(raw) \in Nat
  OBVIOUS
<1>2. \A i \in 0..Len(raw) : g[i] = IF i = 0 THEN Start ELSE Step(g[i - 1], raw[i])
  BY DEF IsRun
<1>3. ASSUME NEW n \in 0..Len(raw), n < Len(raw) PROVE g[n + 1] = Step(g[n], raw[n + 1])
  <2>1. n + 1 \in 0..Len(raw) /\ n + 1 # 0 /\ n + 1 - 1 = n
    BY <1>1, <1>3
  <2>2. g[n + 1] = Step(g[n + 1 - 1], raw[n + 1])
    BY <1>2, <2>1
  <2> QED BY <2>1, <2>2
<1> QED BY <1>1, <1>2, <1>3

LEMMA RunTypes ==
    ASSUME NEW raw \in Seq(STRING), NEW g, IsRun(g, raw, Len(raw))
    PROVE  \A n \in 0..Len(raw) : g[n] \in Resolutions
<1> DEFINE G == {n \in 0..Len(raw) : g[n] \in Resolutions}
<1>1. Len(raw) \in Nat
  OBVIOUS
<1>2. 0 \in G
  <2>1. Start \in Resolutions
    BY <<>> \in Seq(Segments) DEF Start, Resolutions
  <2> QED BY <1>1, <2>1, RunSteps
<1>3. ASSUME NEW n \in 0..Len(raw), n \in G, n < Len(raw) PROVE n + 1 \in G
  <2>1. raw[n + 1] \in STRING /\ n + 1 \in 0..Len(raw)
    BY <1>1, <1>3
  <2>2. g[n + 1] \in Resolutions
    <3>1. g[n] \in Resolutions
      BY <1>3
    <3>2. Step(g[n], raw[n + 1]) \in Resolutions
      BY <2>1, <3>1, StepCases
    <3> QED BY <1>3, <3>2, RunSteps
  <2> QED BY <2>1, <2>2
<1>4. \A n \in 0..Len(raw) : n \in G
  <2> HIDE DEF G
  <2> QED BY <1>1, <1>2, <1>3, UpTo
<1> QED BY <1>4

\* normalize_repo_path returns a path without "", "." and "..".
LEMMA NormalSegments ==
    ASSUME NEW raw \in Seq(STRING)
    PROVE  /\ Resolved(raw) \in Resolutions
           /\ NormalizePath(raw) \in Seq(Segments) /\ NormalizePath(raw) \in Seq(STRING)
<1>1. PICK g : IsRun(g, raw, Len(raw)) /\ Resolved(raw) = g[Len(raw)]
  BY ResolvedRun
<1>2. Resolved(raw) \in Resolutions
  BY <1>1, RunTypes
<1>3. NormalizePath(raw) \in Seq(Segments)
  BY <1>2 DEF NormalizePath, Resolutions
<1>4. Segments \subseteq STRING
  BY DEF Segments
<1>5. ASSUME NEW q \in Seq(Segments) PROVE q \in Seq(STRING)
  <2>1. Len(q) \in Nat /\ q = [i \in 1..Len(q) |-> q[i]] /\ \A i \in 1..Len(q) : q[i] \in Segments
    OBVIOUS
  <2> QED BY <1>4, <2>1
<1> QED BY <1>2, <1>3, <1>5

-----------------------------------------------------------------------------
(* The file a path leads to                                                *)

Names(raw, n) == {j \in 1..n : raw[j] \notin Dots}

Ups(raw, n) == {j \in 1..n : raw[j] = ".."}

LEMMA CountsGrow ==
    ASSUME NEW raw, NEW n \in Nat
    PROVE  /\ Cardinality(Names(raw, n)) \in Nat /\ Cardinality(Ups(raw, n)) \in Nat
           /\ raw[n + 1] \in Dots => Cardinality(Names(raw, n + 1)) = Cardinality(Names(raw, n))
           /\ raw[n + 1] \notin Dots =>
                Cardinality(Names(raw, n + 1)) = Cardinality(Names(raw, n)) + 1
           /\ raw[n + 1] = ".." => Cardinality(Ups(raw, n + 1)) = Cardinality(Ups(raw, n)) + 1
           /\ raw[n + 1] # ".." => Cardinality(Ups(raw, n + 1)) = Cardinality(Ups(raw, n))
<1>1. IsFiniteSet(1..n)
  BY FS_Interval
<1>2. IsFiniteSet(Names(raw, n)) /\ IsFiniteSet(Ups(raw, n))
  BY <1>1, FS_Subset DEF Names, Ups
<1>3. n + 1 \notin Names(raw, n) /\ n + 1 \notin Ups(raw, n)
  BY DEF Names, Ups
<1>6. /\ Cardinality(Names(raw, n) \cup {n + 1}) = Cardinality(Names(raw, n)) + 1
      /\ Cardinality(Ups(raw, n) \cup {n + 1}) = Cardinality(Ups(raw, n)) + 1
  BY <1>2, <1>3, FS_AddElement
<1>7. Cardinality(Names(raw, n)) \in Nat /\ Cardinality(Ups(raw, n)) \in Nat
  BY <1>2, FS_CardinalityType
<1>8. /\ raw[n + 1] \in Dots => Names(raw, n + 1) = Names(raw, n)
      /\ raw[n + 1] \notin Dots => Names(raw, n + 1) = Names(raw, n) \cup {n + 1}
      /\ raw[n + 1] = ".." => Ups(raw, n + 1) = Ups(raw, n) \cup {n + 1}
      /\ raw[n + 1] # ".." => Ups(raw, n + 1) = Ups(raw, n)
  BY DEF Names, Ups
<1> QED BY <1>6, <1>7, <1>8

\* A function on 1..n is a sequence.
LEMMA FunctionIsSeq ==
    ASSUME NEW S, NEW n \in Nat, NEW f \in [1..n -> S]
    PROVE  f \in Seq(S)
BY SeqDef, Zenon

\* What one more segment does to the depth
LEMMA DepthSteps ==
    ASSUME NEW raw \in Seq(STRING), NEW n \in Nat
    PROVE  /\ Depth(raw, n) \in Int
           /\ raw[n + 1] \notin Dots => Depth(raw, n + 1) = Depth(raw, n) + 1
           /\ raw[n + 1] \in Skipped => Depth(raw, n + 1) = Depth(raw, n)
           /\ raw[n + 1] = ".." => Depth(raw, n + 1) = Depth(raw, n) - 1
<1>1. \A i : Depth(raw, i) = Cardinality(Names(raw, i)) - Cardinality(Ups(raw, i))
  BY DEF Depth, Names, Ups
<1>2. /\ raw[n + 1] = ".." => raw[n + 1] \in Dots
      /\ raw[n + 1] \in Skipped => raw[n + 1] \in Dots /\ raw[n + 1] # ".."
      /\ raw[n + 1] \notin Dots => raw[n + 1] # ".."
  BY UpIsNotSkipped DEF Dots
<1> QED BY <1>1, <1>2, CountsGrow

\* The walk along the first n segments has come to path.
Follows(path, raw, n) ==
    /\ path \in Seq(STRING)
    /\ \A i \in 1..n : Depth(raw, i) >= 0
    /\ Len(path) = Depth(raw, n)
    /\ \A d \in 1..Len(path) :
          \E k \in 1..n : /\ raw[k] \notin Dots /\ raw[k] = path[d] /\ Depth(raw, k) = d
                         /\ \A j \in k..n : Depth(raw, j) >= d

\* One more segment that ends no higher than at the names that remain
LEMMA FollowOn ==
    ASSUME NEW raw \in Seq(STRING), NEW n \in Nat, n < Len(raw), NEW path,
           Follows(path, raw, n), NEW d \in 1..Len(path), d <= Depth(raw, n + 1)
    PROVE  \E k \in 1..(n + 1) : /\ raw[k] \notin Dots /\ raw[k] = path[d]
                                  /\ Depth(raw, k) = d
                                  /\ \A j \in k..(n + 1) : Depth(raw, j) >= d
<1>1. PICK k \in 1..n : /\ raw[k] \notin Dots /\ raw[k] = path[d] /\ Depth(raw, k) = d
                         /\ \A j \in k..n : Depth(raw, j) >= d
  BY DEF Follows
<1>2. Depth(raw, n + 1) \in Int /\ d \in Int
  BY DepthSteps DEF Follows
<1>3. \A j \in k..(n + 1) : j \in k..n \/ j = n + 1
  OBVIOUS
<1>4. \A j \in k..(n + 1) : Depth(raw, j) >= d
  BY <1>1, <1>2, <1>3
<1>5. k \in 1..(n + 1)
  OBVIOUS
<1> QED BY <1>1, <1>4, <1>5

LEMMA FollowName ==
    ASSUME NEW raw \in Seq(STRING), NEW n \in Nat, n < Len(raw), NEW path,
           Follows(path, raw, n), raw[n + 1] \notin Dots
    PROVE  Follows(Append(path, raw[n + 1]), raw, n + 1)
<1> DEFINE new == Append(path, raw[n + 1])
<1>1. /\ path \in Seq(STRING) /\ Len(path) \in Nat /\ raw[n + 1] \in STRING
      /\ \A i \in 1..n : Depth(raw, i) >= 0
      /\ Len(path) = Depth(raw, n) /\ Depth(raw, n + 1) = Len(path) + 1
  BY DepthSteps DEF Follows
<1>2. /\ new \in Seq(STRING) /\ Len(new) = Len(path) + 1 /\ new[Len(path) + 1] = raw[n + 1]
      /\ \A d \in 1..Len(path) : new[d] = path[d]
  BY <1>1
<1> HIDE DEF new
<1>3. \A i \in 1..(n + 1) : Depth(raw, i) >= 0
  <2>1. \A i \in 1..(n + 1) : i \in 1..n \/ i = n + 1
    OBVIOUS
  <2> QED BY <1>1, <2>1
<1>4. ASSUME NEW d \in 1..Len(new)
      PROVE  \E k \in 1..(n + 1) : /\ raw[k] \notin Dots /\ raw[k] = new[d]
                                    /\ Depth(raw, k) = d
                                    /\ \A j \in k..(n + 1) : Depth(raw, j) >= d
  <2>1. CASE d = Len(path) + 1
    <3>1. \A j \in (n + 1)..(n + 1) : j = n + 1
      OBVIOUS
    <3>2. n + 1 \in 1..(n + 1)
      OBVIOUS
    <3>3. raw[n + 1] = new[d] /\ Depth(raw, n + 1) = d /\ Depth(raw, n + 1) >= d
      BY <1>1, <1>2, <2>1
    <3> QED BY <3>1, <3>2, <3>3
  <2>2. CASE d # Len(path) + 1
    <3>1. d \in 1..Len(path) /\ d <= Depth(raw, n + 1) /\ new[d] = path[d]
      BY <1>1, <1>2, <2>2
    <3> QED BY <3>1, FollowOn
  <2> QED BY <2>1, <2>2
<1>5. Follows(new, raw, n + 1)
  BY <1>1, <1>2, <1>3, <1>4 DEF Follows
<1> QED BY <1>5 DEF new

LEMMA FollowUp ==
    ASSUME NEW raw \in Seq(STRING), NEW n \in Nat, n < Len(raw), NEW path,
           Follows(path, raw, n), path # <<>>, raw[n + 1] = ".."
    PROVE  Follows(SubSeq(path, 1, Len(path) - 1), raw, n + 1)
<1> DEFINE new == SubSeq(path, 1, Len(path) - 1)
<1>1. /\ path \in Seq(STRING) /\ Len(path) \in Nat /\ Len(path) > 0
      /\ \A i \in 1..n : Depth(raw, i) >= 0
      /\ Len(path) = Depth(raw, n) /\ Depth(raw, n + 1) = Len(path) - 1
  BY DepthSteps DEF Follows
<1>2. /\ new \in Seq(STRING) /\ Len(new) = Len(path) - 1
      /\ \A d \in 1..Len(new) : new[d] = path[d]
  BY <1>1
<1> HIDE DEF new
<1>3. \A i \in 1..(n + 1) : Depth(raw, i) >= 0
  <2>1. \A i \in 1..(n + 1) : i \in 1..n \/ i = n + 1
    OBVIOUS
  <2> QED BY <1>1, <2>1
<1>4. ASSUME NEW d \in 1..Len(new)
      PROVE  \E k \in 1..(n + 1) : /\ raw[k] \notin Dots /\ raw[k] = new[d]
                                    /\ Depth(raw, k) = d
                                    /\ \A j \in k..(n + 1) : Depth(raw, j) >= d
  <2>1. d \in 1..Len(path) /\ d <= Depth(raw, n + 1) /\ new[d] = path[d]
    BY <1>1, <1>2
  <2> QED BY <2>1, FollowOn
<1>5. Follows(new, raw, n + 1)
  BY <1>1, <1>2, <1>3, <1>4 DEF Follows
<1> QED BY <1>5 DEF new

LEMMA FollowSkip ==
    ASSUME NEW raw \in Seq(STRING), NEW n \in Nat, n < Len(raw), NEW path,
           Follows(path, raw, n), raw[n + 1] \in Skipped
    PROVE  Follows(path, raw, n + 1)
<1>1. /\ path \in Seq(STRING) /\ Len(path) \in Nat
      /\ \A i \in 1..n : Depth(raw, i) >= 0
      /\ Len(path) = Depth(raw, n) /\ Depth(raw, n + 1) = Len(path)
  BY DepthSteps DEF Follows
<1>2. \A i \in 1..(n + 1) : Depth(raw, i) >= 0
  <2>1. \A i \in 1..(n + 1) : i \in 1..n \/ i = n + 1
    OBVIOUS
  <2> QED BY <1>1, <2>1
<1>3. \A d \in 1..Len(path) : d <= Depth(raw, n + 1)
  BY <1>1
<1> QED BY <1>1, <1>2, <1>3, FollowOn DEF Follows

\* As long as the path has not left the root, the run follows it.
LEMMA RunFollows ==
    ASSUME NEW raw \in Seq(STRING), NEW g, IsRun(g, raw, Len(raw))
    PROVE  \A n \in 0..Len(raw) : ~g[n].left => Follows(g[n].path, raw, n)
<1> DEFINE G == {n \in 0..Len(raw) : ~g[n].left => Follows(g[n].path, raw, n)}
<1>1. Len(raw) \in Nat
  OBVIOUS
<1>2. 0 \in G
  <2>1. Names(raw, 0) = {} /\ Ups(raw, 0) = {}
    BY DEF Names, Ups
  <2>2. Depth(raw, 0) = 0
    BY <2>1, FS_EmptySet DEF Depth, Names, Ups
  <2>3. Follows(<<>>, raw, 0)
    BY <2>2 DEF Follows
  <2>4. g[0].path = <<>>
    BY RunSteps DEF Start
  <2> QED BY <1>1, <2>3, <2>4
<1>3. ASSUME NEW n \in 0..Len(raw), n \in G, n < Len(raw) PROVE n + 1 \in G
  <2>1. raw[n + 1] \in STRING /\ n + 1 \in 0..Len(raw) /\ n \in Nat
    BY <1>1, <1>3
  <2>2. PICK x, s : x = g[n] /\ s = raw[n + 1]
    OBVIOUS
  <2>3. x \in Resolutions /\ s \in STRING
    BY <2>1, <2>2, RunTypes
  <2>4. g[n + 1] = Step(x, s)
    BY <1>3, <2>2, RunSteps
  <2>5. CASE x.left
    BY <2>1, <2>3, <2>4, <2>5, StepCases
  <2>6. CASE ~x.left
    <3>1. Follows(x.path, raw, n)
      BY <1>3, <2>2, <2>6
    <3>2. CASE s \in Skipped
      <4>1. g[n + 1] = x
        BY <2>3, <2>4, <3>2, StepCases
      <4>2. Follows(x.path, raw, n + 1)
        BY <1>3, <2>1, <2>2, <3>1, <3>2, FollowSkip
      <4> QED BY <2>1, <4>1, <4>2
    <3>3. CASE s = ".." /\ x.path = <<>>
      BY <2>1, <2>3, <2>4, <2>6, <3>3, StepCases
    <3>4. CASE s = ".." /\ x.path # <<>>
      <4>1. g[n + 1].path = SubSeq(x.path, 1, Len(x.path) - 1)
        BY <2>3, <2>4, <2>6, <3>4, StepCases
      <4>2. Follows(SubSeq(x.path, 1, Len(x.path) - 1), raw, n + 1)
        BY <1>3, <2>1, <2>2, <3>1, <3>4, FollowUp
      <4> QED BY <2>1, <4>1, <4>2
    <3>5. CASE s \in Segments
      <4>1. g[n + 1].path = Append(x.path, s)
        BY <2>3, <2>4, <2>6, <3>5, StepCases
      <4>2. Follows(Append(x.path, s), raw, n + 1)
        BY <1>3, <2>1, <2>2, <3>1, <3>5, FollowName DEF Segments
      <4> QED BY <2>1, <4>1, <4>2
    <3> QED BY <2>3, <3>2, <3>3, <3>4, <3>5 DEF Segments, Dots
  <2> QED BY <2>5, <2>6
<1>4. \A n \in 0..Len(raw) : n \in G
  <2> HIDE DEF G
  <2> QED BY <1>1, <1>2, <1>3, UpTo
<1> QED BY <1>4

\* normalize_repo_path: a path that does not leave the root leads to the file
\* its normal form names.
LEMMA NormalPathLeads ==
    ASSUME NEW raw \in Seq(STRING), ~Resolved(raw).left
    PROVE  Leads(raw, NormalizePath(raw))
<1>1. PICK g : IsRun(g, raw, Len(raw)) /\ Resolved(raw) = g[Len(raw)]
  BY ResolvedRun
<1>2. Len(raw) \in Nat /\ DOMAIN raw = 1..Len(raw) /\ Len(raw) \in 0..Len(raw)
  OBVIOUS
<1>3. Follows(NormalizePath(raw), raw, Len(raw))
  BY <1>1, <1>2, RunFollows DEF NormalizePath
<1> QED BY <1>2, <1>3 DEF Leads, Follows

-----------------------------------------------------------------------------
(* A derivation graph without cycles has ranks                             *)

\* Some of the facts D have ranks: whatever they rest on is ranked below.
Ranked(S, D, refs) ==
    \E rank \in [S -> 0..Cardinality(S)] :
        \A f \in S : \A g \in refs[f] \cap D : g \in S /\ rank[g] < rank[f]

\* One more fact can be ranked, unless all are.
LEMMA RankOneMore ==
    ASSUME NEW D, IsFiniteSet(D), NEW refs,
           \A T \in SUBSET D : T # {} => \E f \in T : refs[f] \cap T = {},
           NEW S \in SUBSET D, S # D, Ranked(S, D, refs)
    PROVE  \E f \in D \ S : Ranked(S \cup {f}, D, refs)
<1>1. PICK f \in D \ S : refs[f] \cap (D \ S) = {}
  OBVIOUS
<1>2. PICK rank \in [S -> 0..Cardinality(S)] :
        \A x \in S : \A g \in refs[x] \cap D : g \in S /\ rank[g] < rank[x]
  BY DEF Ranked
<1>3. IsFiniteSet(S) /\ Cardinality(S) \in Nat
  BY FS_Subset, FS_CardinalityType
<1>4. Cardinality(S \cup {f}) = Cardinality(S) + 1
  BY <1>1, <1>3, FS_AddElement
<1> DEFINE U == S \cup {f}
           new == [x \in U |-> IF x = f THEN Cardinality(S) + 1 ELSE rank[x]]
<1>5. \A x \in S : rank[x] \in 0..Cardinality(S) /\ x # f
  BY <1>1, <1>2
<1>6. new \in [U -> 0..(Cardinality(S) + 1)]
  BY <1>3, <1>5
<1>7. ASSUME NEW x \in U, NEW g \in refs[x] \cap D PROVE g \in U /\ new[g] < new[x]
  <2>1. CASE x = f
    <3>1. g \in S /\ g # f
      BY <1>1, <2>1
    <3>2. new[g] = rank[g] /\ new[x] = Cardinality(S) + 1
      BY <2>1, <3>1
    <3> QED BY <1>3, <1>5, <3>1, <3>2
  <2>2. CASE x \in S
    <3>1. g \in S /\ rank[g] < rank[x]
      BY <1>2, <2>2
    <3>2. new[g] = rank[g] /\ new[x] = rank[x]
      BY <1>5, <2>2, <3>1
    <3> QED BY <3>1, <3>2
  <2> QED BY <2>1, <2>2
<1> HIDE DEF new
<1>8. Ranked(U, D, refs)
  BY <1>4, <1>6, <1>7 DEF Ranked
<1> QED BY <1>1, <1>8

LEMMA AcyclicRanks ==
    ASSUME NEW D, IsFiniteSet(D), NEW refs,
           \A T \in SUBSET D : T # {} => \E f \in T : refs[f] \cap T = {}
    PROVE  Ranked(D, D, refs)
<1>1. Cardinality(D) \in Nat
  BY FS_CardinalityType
<1> DEFINE G == {n \in 0..Cardinality(D) :
                    \E S \in SUBSET D : Cardinality(S) = n /\ Ranked(S, D, refs)}
<1>2. 0 \in G
  <2>1. Cardinality({}) = 0
    BY FS_EmptySet
  <2>2. Ranked({}, D, refs)
    <3>1. [x \in {} |-> 0] \in [{} -> 0..Cardinality({})]
      OBVIOUS
    <3> QED BY <3>1 DEF Ranked
  <2> QED BY <1>1, <2>1, <2>2
<1>3. ASSUME NEW n \in 0..Cardinality(D), n \in G, n < Cardinality(D) PROVE n + 1 \in G
  <2>1. PICK S \in SUBSET D : Cardinality(S) = n /\ Ranked(S, D, refs)
    BY <1>3
  <2>2. IsFiniteSet(S) /\ S # D
    BY <1>3, <2>1, FS_Subset
  <2>3. PICK f \in D \ S : Ranked(S \cup {f}, D, refs)
    BY <2>1, <2>2, RankOneMore
  <2>4. Cardinality(S \cup {f}) = n + 1
    BY <2>1, <2>2, FS_AddElement
  <2>5. n + 1 \in 0..Cardinality(D)
    BY <1>1, <1>3
  <2> QED BY <2>3, <2>4, <2>5
<1>4. \A n \in 0..Cardinality(D) : n \in G
  <2> HIDE DEF G
  <2> QED BY <1>1, <1>2, <1>3, UpTo
<1>5. PICK S \in SUBSET D : Cardinality(S) = Cardinality(D) /\ Ranked(S, D, refs)
  <2>1. Cardinality(D) \in G
    BY <1>1, <1>4
  <2> QED BY <2>1
<1>6. S = D
  BY <1>5, FS_Subset
<1> QED BY <1>5, <1>6

-----------------------------------------------------------------------------
(* What is stored of the facts                                             *)

\* A row of ri_evidence.
RowOK(r) == r = [of |-> r.of, record |-> r.record] /\ r.record.path \in Seq(STRING)

FactInv ==
    /\ given \in [nodes : SUBSET NodeFacts, observations : SUBSET ObservationFacts,
                  edges : SUBSET EdgeFacts, assertions : SUBSET AssertionFacts,
                  diagnostics : SUBSET DiagnosticFacts]
    /\ \A f \in given.nodes \cup given.edges : \A e \in f.evidence : ~Escapes(e.path)
    /\ \A o \in given.observations : ~Escapes(o.evidence.path)
    /\ \A r \in evidence \cup stored : RowOK(r)
    /\ IsFiniteSet(derivations)
    /\ state = "completed" => Valid

LEMMA EvidencePath ==
    ASSUME NEW e \in EvidenceFacts, NEW parent
    PROVE  RowOK(EvidenceRow(parent, e))
<1>1. e.path \in Seq(STRING)
  BY DEF EvidenceFacts
<1>2. NormalizePath(e.path) \in Seq(STRING)
  BY <1>1, NormalSegments
<1>3. PICK x : x = [e EXCEPT !.path = NormalizePath(e.path)]
  OBVIOUS
<1>4. x.path \in Seq(STRING)
  BY <1>2, <1>3 DEF EvidenceFacts
<1>5. EvidenceRow(parent, e) = [of |-> parent, record |-> x]
  BY <1>3 DEF EvidenceRow
<1> QED BY <1>4, <1>5 DEF RowOK

\* A set that is the image of a finite one is finite.
LEMMA ImageFinite ==
    ASSUME NEW S, NEW T, IsFiniteSet(S), NEW f \in [S -> T],
           \A t \in T : \E s \in S : t = f[s]
    PROVE  IsFiniteSet(T)
<1>1. f \in Surjection(S, T)
  BY DEF Surjection
<1> QED BY <1>1, FS_Surjection

LEMMA DerivationsFinite ==
    ASSUME IsFiniteSet(derivations), NEW parent, NEW refs, IsFiniteSet(refs)
    PROVE  IsFiniteSet(derivations \cup DerivationRows(parent, refs))
<1> DEFINE T == DerivationRows(parent, refs)
           f == [r \in refs |-> [of |-> parent, ref |-> r]]
<1>1. f \in [refs -> T] /\ \A t \in T : \E r \in refs : t = f[r]
  BY DEF DerivationRows
<1>2. IsFiniteSet(T)
  <2> HIDE DEF f, T
  <2> QED BY <1>1, ImageFinite
<1> QED BY <1>2, FS_Union

LEMMA AddNodeInv ==
    ASSUME FactInv, NEW n \in NodeFacts, AddNode(n)
    PROVE  FactInv'
<1>1. n.evidence \subseteq EvidenceFacts
  BY FactsAssumption
<1>2. \A r \in evidence' \cup stored' : RowOK(r)
  <2>1. \A r \in EvidenceRows(NodeRef(NodeRow(n).stable_key), n.evidence) : RowOK(r)
    BY <1>1, EvidencePath DEF EvidenceRows
  <2> QED BY <2>1 DEF AddNode, FactInv
<1>3. \A e \in n.evidence : ~Escapes(e.path)
  BY DEF AddNode, NodeRefused, AnyEvidenceRefused, EvidenceRefused
<1>4. given' = [given EXCEPT !.nodes = given.nodes \cup {n}]
  BY DEF AddNode
<1>5. /\ given' \in [nodes : SUBSET NodeFacts, observations : SUBSET ObservationFacts,
                     edges : SUBSET EdgeFacts, assertions : SUBSET AssertionFacts,
                     diagnostics : SUBSET DiagnosticFacts]
      /\ given'.nodes = given.nodes \cup {n} /\ given'.edges = given.edges
      /\ given'.observations = given.observations
  BY <1>4 DEF FactInv
<1>6. \A m \in given'.nodes \cup given'.edges : \A e \in m.evidence : ~Escapes(e.path)
  BY <1>3, <1>5 DEF FactInv
<1>7. state' = "building" /\ derivations' = derivations
  BY DEF AddNode
<1> QED BY <1>2, <1>5, <1>6, <1>7 DEF FactInv

LEMMA AddObservationInv ==
    ASSUME FactInv, NEW o \in ObservationFacts, AddObservation(o)
    PROVE  FactInv'
<1>1. o.evidence \in EvidenceFacts
  BY FactsAssumption
<1>2. \A r \in evidence' \cup stored' : RowOK(r)
  <2>1. RowOK(EvidenceRow(ObservationRef(ObservationRow(o).id), o.evidence))
    BY <1>1, EvidencePath
  <2> QED BY <2>1 DEF AddObservation, FactInv
<1>3. given' = [given EXCEPT !.observations = given.observations \cup {o}]
  BY DEF AddObservation
<1>4. /\ given' \in [nodes : SUBSET NodeFacts, observations : SUBSET ObservationFacts,
                     edges : SUBSET EdgeFacts, assertions : SUBSET AssertionFacts,
                     diagnostics : SUBSET DiagnosticFacts]
      /\ given'.nodes = given.nodes /\ given'.edges = given.edges
      /\ given'.observations = given.observations \cup {o}
  BY <1>3 DEF FactInv
<1>5. state' = "building" /\ derivations' = derivations
  BY DEF AddObservation
<1>6. \A x \in given'.observations : ~Escapes(x.evidence.path)
  BY <1>4 DEF AddObservation, ObservationRefused, FactInv
<1> QED BY <1>2, <1>4, <1>5, <1>6 DEF FactInv

LEMMA AddEdgeInv ==
    ASSUME FactInv, NEW e \in EdgeFacts, AddEdge(e)
    PROVE  FactInv'
<1>1. e.evidence \subseteq EvidenceFacts /\ IsFiniteSet(e.derived_from)
  BY FactsAssumption
<1>2. \A r \in evidence' \cup stored' : RowOK(r)
  <2>1. \A r \in EvidenceRows(EdgeRef(EdgeRow(e).id), e.evidence) : RowOK(r)
    BY <1>1, EvidencePath DEF EvidenceRows
  <2> QED BY <2>1 DEF AddEdge, FactInv
<1>3. given' = [given EXCEPT !.edges = given.edges \cup {e}]
  BY DEF AddEdge
<1>4. /\ given' \in [nodes : SUBSET NodeFacts, observations : SUBSET ObservationFacts,
                     edges : SUBSET EdgeFacts, assertions : SUBSET AssertionFacts,
                     diagnostics : SUBSET DiagnosticFacts]
      /\ given'.nodes = given.nodes /\ given'.edges = given.edges \cup {e}
      /\ given'.observations = given.observations
  BY <1>3 DEF FactInv
<1>5. state' = "building"
  BY DEF AddEdge
<1>6. IsFiniteSet(derivations')
  BY <1>1, DerivationsFinite DEF AddEdge, FactInv
<1>7. \A r \in e.evidence : ~Escapes(r.path)
  BY DEF AddEdge, EdgeRefused, AnyEvidenceRefused, EvidenceRefused
<1>8. \A m \in given'.nodes \cup given'.edges : \A r \in m.evidence : ~Escapes(r.path)
  BY <1>4, <1>7 DEF FactInv
<1> QED BY <1>2, <1>4, <1>5, <1>6, <1>8 DEF FactInv

LEMMA AddAssertionInv ==
    ASSUME FactInv, NEW a \in AssertionFacts, AddAssertion(a)
    PROVE  FactInv'
<1>1. IsFiniteSet(a.derived_from)
  BY FactsAssumption
<1>2. \A r \in evidence' \cup stored' : RowOK(r)
  BY DEF AddAssertion, FactInv
<1>3. given' = [given EXCEPT !.assertions = given.assertions \cup {a}]
  BY DEF AddAssertion
<1>4. /\ given' \in [nodes : SUBSET NodeFacts, observations : SUBSET ObservationFacts,
                     edges : SUBSET EdgeFacts, assertions : SUBSET AssertionFacts,
                     diagnostics : SUBSET DiagnosticFacts]
      /\ given'.nodes = given.nodes /\ given'.edges = given.edges
      /\ given'.observations = given.observations
  BY <1>3 DEF FactInv
<1>5. state' = "building"
  BY DEF AddAssertion
<1>6. IsFiniteSet(derivations')
  BY <1>1, DerivationsFinite DEF AddAssertion, FactInv
<1> QED BY <1>2, <1>4, <1>5, <1>6 DEF FactInv

LEMMA AddDiagnosticInv ==
    ASSUME FactInv, NEW d \in DiagnosticFacts, AddDiagnostic(d)
    PROVE  FactInv'
<1>1. \A r \in evidence' \cup stored' : RowOK(r)
  BY DEF AddDiagnostic, FactInv
<1>2. given' = [given EXCEPT !.diagnostics = given.diagnostics \cup {d}]
  BY DEF AddDiagnostic
<1>3. /\ given' \in [nodes : SUBSET NodeFacts, observations : SUBSET ObservationFacts,
                     edges : SUBSET EdgeFacts, assertions : SUBSET AssertionFacts,
                     diagnostics : SUBSET DiagnosticFacts]
      /\ given'.nodes = given.nodes /\ given'.edges = given.edges
      /\ given'.observations = given.observations
  BY <1>2 DEF FactInv
<1>4. state' = "building" /\ derivations' = derivations
  BY DEF AddDiagnostic
<1> QED BY <1>1, <1>3, <1>4 DEF FactInv

LEMMA EditInv ==
    ASSUME FactInv, NEW r \in evidence, NEW e \in Edits, Edit(r, e)
    PROVE  FactInv'
<1>1. e.path \in Seq(STRING)
  BY FactsAssumption DEF EvidenceFacts
<1>2. state' = "building" /\ derivations' = derivations /\ given' = given /\ stored' = stored
  BY DEF Edit, Editable
<1>3. \A x \in evidence' : RowOK(x)
  <2>1. \A x \in evidence' : x \in evidence \/ x = [r EXCEPT !.record = e]
    BY DEF Edit
  <2>2. r = [of |-> r.of, record |-> r.record]
    BY DEF FactInv, RowOK
  <2>3. [r EXCEPT !.record = e] = [of |-> r.of, record |-> e]
    BY <2>2
  <2>4. RowOK([of |-> r.of, record |-> e])
    BY <1>1 DEF RowOK
  <2> QED BY <2>1, <2>3, <2>4 DEF FactInv
<1> QED BY <1>2, <1>3 DEF FactInv

LEMMA DiscardInv ==
    ASSUME FactInv, Discard, state' = "failed", given' = given
    PROVE  FactInv'
<1>1. IsFiniteSet(derivations')
  BY FS_EmptySet DEF Discard
<1>2. evidence' = {} /\ stored' = {}
  BY DEF Discard
<1> QED BY <1>1, <1>2 DEF FactInv

\* Whether a snapshot is valid depends on its rows alone.
LEMMA ValidSame ==
    ASSUME nodes' = nodes, observations' = observations, edges' = edges,
           assertions' = assertions, diagnostics' = diagnostics, evidence' = evidence,
           derivations' = derivations
    PROVE  Valid' <=> Valid
<1>1. Derived' = Derived /\ NodeKeys' = NodeKeys
  BY DEF Derived, NodeKeys
<1>2. FactRefs' = FactRefs
  BY <1>1 DEF FactRefs
<1>3. DiagnosticsValid' <=> DiagnosticsValid
  BY DEF DiagnosticsValid
<1>4. OneRoot' <=> OneRoot
  BY DEF OneRoot
<1>5. NodesValid' <=> NodesValid
  BY DEF NodesValid, EvidenceOf
<1>6. ObservationsValid' <=> ObservationsValid
  BY DEF ObservationsValid, EvidenceOf, HasNode
<1>7. EdgesValid' <=> EdgesValid
  BY DEF EdgesValid, EvidenceOf, RefsOf, HasNode
<1>8. AssertionsValid' <=> AssertionsValid
  BY DEF AssertionsValid, RefsOf, HasNode
<1>9. ReferencesResolve' <=> ReferencesResolve
  BY <1>2 DEF ReferencesResolve
<1>10. Cyclic' <=> Cyclic
  BY <1>1 DEF Cyclic, RefsOf
<1>11. (\A r \in evidence : StoredEvidenceValid(r))' <=> \A r \in evidence : StoredEvidenceValid(r)
  BY DEF StoredEvidenceValid
<1> QED BY <1>3, <1>4, <1>5, <1>6, <1>7, <1>8, <1>9, <1>10, <1>11 DEF Valid

LEMMA FactStep ==
    ASSUME FactInv, [Next]_vars
    PROVE  FactInv'
<1>1. ASSUME NEW n \in NodeFacts, AddNode(n) PROVE FactInv'
  BY <1>1, AddNodeInv
<1>2. ASSUME NEW o \in ObservationFacts, AddObservation(o) PROVE FactInv'
  BY <1>2, AddObservationInv
<1>3. ASSUME NEW e \in EdgeFacts, AddEdge(e) PROVE FactInv'
  BY <1>3, AddEdgeInv
<1>4. ASSUME NEW a \in AssertionFacts, AddAssertion(a) PROVE FactInv'
  BY <1>4, AddAssertionInv
<1>5. ASSUME NEW d \in DiagnosticFacts, AddDiagnostic(d) PROVE FactInv'
  BY <1>5, AddDiagnosticInv
<1>6. CASE MarkFailed
  BY <1>6, DiscardInv DEF MarkFailed
<1>7. ASSUME NEW r \in evidence, NEW e \in Edits, Edit(r, e) PROVE FactInv'
  BY <1>7, EditInv
<1>8. CASE Seal
  <2>1. /\ nodes' = nodes /\ observations' = observations /\ edges' = edges
        /\ assertions' = assertions /\ diagnostics' = diagnostics /\ evidence' = evidence
        /\ derivations' = derivations /\ given' = given /\ stored' = evidence
    BY <1>8 DEF Seal
  <2>2. Valid'
    BY <1>8, <2>1, ValidSame DEF Seal
  <2> QED BY <2>1, <2>2 DEF FactInv
<1>9. CASE SealFails
  BY <1>9 DEF SealFails, FactInv
<1>10. CASE Sweep
  BY <1>10, DiscardInv DEF Sweep
<1>11. CASE UNCHANGED vars
  <2>1. /\ nodes' = nodes /\ observations' = observations /\ edges' = edges
        /\ assertions' = assertions /\ diagnostics' = diagnostics /\ evidence' = evidence
        /\ derivations' = derivations /\ given' = given /\ stored' = stored /\ state' = state
    BY <1>11 DEF vars, factVars
  <2>2. Valid => Valid'
    BY <2>1, ValidSame
  <2> QED BY <2>1, <2>2 DEF FactInv
<1> QED BY <1>1, <1>2, <1>3, <1>4, <1>5, <1>6, <1>7, <1>8, <1>9, <1>10, <1>11 DEF Next

LEMMA FactInit ==
    ASSUME Init
    PROVE  FactInv
<1>1. IsFiniteSet(derivations)
  BY FS_EmptySet DEF Init
<1>2. given \in [nodes : SUBSET NodeFacts, observations : SUBSET ObservationFacts,
                 edges : SUBSET EdgeFacts, assertions : SUBSET AssertionFacts,
                 diagnostics : SUBSET DiagnosticFacts]
      /\ given.nodes = {} /\ given.edges = {} /\ given.observations = {}
  BY DEF Init, NoFacts
<1> QED BY <1>1, <1>2 DEF Init, FactInv

\* The facts that are accepted and the rows kept of them have their columns,
\* and a snapshot is sealed only as seal found it valid.
THEOREM FactsKept == Spec => []FactInv
<1>1. Init => FactInv
  BY FactInit
<1>2. FactInv /\ [Next]_vars => FactInv'
  BY FactStep
<1> QED BY <1>1, <1>2, PTL DEF Spec

\* _validate_derivation_graph: what seal lets through can be ranked.
LEMMA DerivationRanks ==
    ASSUME IsFiniteSet(derivations), ~Cyclic
    PROVE  \E rank \in [Derived -> 0..Cardinality(Derived)] :
              \A d \in derivations : d.ref \in Derived => rank[d.ref] < rank[d.of]
<1> DEFINE f == [d \in derivations |-> d.of]
           refs == [x \in Derived |-> RefsOf(x)]
<1>1. IsFiniteSet(Derived)
  <2>1. f \in [derivations -> Derived] /\ \A t \in Derived : \E d \in derivations : t = f[d]
    BY DEF Derived
  <2> HIDE DEF f
  <2> QED BY <2>1, ImageFinite
<1>2. \A T \in SUBSET Derived : T # {} => \E x \in T : refs[x] \cap T = {}
  BY DEF Cyclic
<1>3. Ranked(Derived, Derived, refs)
  <2> HIDE DEF refs
  <2> QED BY <1>1, <1>2, AcyclicRanks
<1>4. PICK rank \in [Derived -> 0..Cardinality(Derived)] :
        \A x \in Derived : \A y \in refs[x] \cap Derived : y \in Derived /\ rank[y] < rank[x]
  BY <1>3 DEF Ranked
<1>5. \A d \in derivations : d.of \in Derived /\ d.ref \in RefsOf(d.of)
  BY DEF Derived, RefsOf
<1>6. \A d \in derivations : d.ref \in Derived => rank[d.ref] < rank[d.of]
  BY <1>4, <1>5
<1> QED BY <1>6

LEMMA ValidIsSound ==
    ASSUME FactInv
    PROVE  SealedSound
<1> SUFFICES ASSUME state = "completed" PROVE SealedSound
  BY DEF SealedSound
<1>1. Valid /\ IsFiniteSet(derivations)
  BY DEF FactInv
<1>2. \E rank \in [Derived -> 0..Cardinality(Derived)] :
        \A d \in derivations : d.ref \in Derived => rank[d.ref] < rank[d.of]
  BY <1>1, DerivationRanks DEF Valid
<1>3. \A e \in edges : e.subject \in NodeKeys /\ e.object \in NodeKeys
  BY <1>1 DEF Valid, EdgesValid, HasNode, NodeKeys
<1>4. ASSUME NEW r \in evidence
      PROVE  /\ 1 <= r.record.start_line /\ r.record.start_line <= r.record.end_line
             /\ r.record.end_line <= r.record.lines
             /\ \A i \in DOMAIN r.record.path : r.record.path[i] \notin Dots
             /\ r.record.extractor \in Producers
  <2>1. StoredEvidenceValid(r)
    BY <1>1 DEF Valid
  <2>2. r.record.path \in Seq(STRING)
    BY DEF FactInv, RowOK
  <2>3. r.record.path \in Seq(Segments)
    BY <2>1, <2>2, NormalSegments DEF StoredEvidenceValid
  <2>4. \A i \in DOMAIN r.record.path : r.record.path[i] \notin Dots
    BY <2>3 DEF Segments
  <2> QED BY <2>1, <2>4 DEF StoredEvidenceValid, ValidSpan, ProducerDeclared
<1>5. ASSUME NEW o \in observations PROVE Cardinality(EvidenceOf(ObservationRef(o.id))) = 1
  <2>1. PICK e : EvidenceOf(ObservationRef(o.id)) = {e}
    BY <1>1 DEF Valid, ObservationsValid
  <2> QED BY <2>1, FS_Singleton
<1> QED BY <1>1, <1>2, <1>3, <1>4, <1>5 DEF SealedSound, Valid

\* seal: in a completed snapshot derivations are well founded, references and
\* the ends of edges exist, evidence points into its file under a normal path
\* and comes from a declared producer, and an observation has one evidence.
THEOREM SealedIsSound == Spec => []SealedSound
<1>1. FactInv => SealedSound
  BY ValidIsSound
<1> QED BY <1>1, FactsKept, PTL

\* normalize_repo_path: the path kept for the evidence of an accepted node,
\* observation or edge names the one file below the root at which the path it
\* was given as arrives, each ".." having taken back the name before it.
THEOREM PathsLeadToTheirFile == Spec => []PathsLead
<1>1. ASSUME FactInv PROVE PathsLead
  <2>1. ASSUME NEW e \in EvidenceFacts, ~Escapes(e.path)
        PROVE  Leads(e.path, NormalizePath(e.path))
    <3>1. e.path \in Seq(STRING) /\ ~Resolved(e.path).left
      BY <2>1 DEF EvidenceFacts, Escapes
    <3> QED BY <3>1, NormalPathLeads
  <2>2. ASSUME NEW f \in given.nodes \cup given.edges, NEW e \in f.evidence
        PROVE  e \in EvidenceFacts /\ ~Escapes(e.path)
    <3>1. f \in NodeFacts \/ f \in EdgeFacts
      BY <1>1 DEF FactInv
    <3> QED BY <1>1, <3>1, FactsAssumption DEF FactInv
  <2>3. ASSUME NEW o \in given.observations
        PROVE  o.evidence \in EvidenceFacts /\ ~Escapes(o.evidence.path)
    BY <1>1, FactsAssumption DEF FactInv
  <2> QED BY <2>1, <2>2, <2>3 DEF PathsLead
<1> QED BY <1>1, FactsKept, PTL

\* _guard_completed_snapshots and the purges: no step changes a sealed
\* snapshot or anything it holds.
THEOREM SealedStays == Spec => SealedForGood
<1>1. [Next]_vars => [state = "completed" => UNCHANGED <<state, factVars, hash>>]_vars
  <2> SUFFICES ASSUME [Next]_vars, state = "completed" PROVE UNCHANGED <<state, factVars, hash>>
    OBVIOUS
  <2>1. ~Next
    BY DEF Next, AddNode, AddObservation, AddEdge, AddAssertion, AddDiagnostic, MarkFailed,
       Edit, Editable, Seal, SealFails, Sweep
  <2> QED BY <2>1 DEF vars
<1> QED BY <1>1, PTL DEF Spec, SealedForGood

-----------------------------------------------------------------------------
(* The hash of a snapshot is the hash of what was given                    *)

Kept(e) == [e EXCEPT !.path = NormalizePath(e.path)]

NodeEvidence == UNION {EvidenceRows(NodeRef(NodeRow(n).stable_key), n.evidence) : n \in given.nodes}

ObservationEvidence ==
    {EvidenceRow(ObservationRef(ObservationRow(o).id), o.evidence) : o \in given.observations}

EdgeEvidence == UNION {EvidenceRows(EdgeRef(EdgeRow(e).id), e.evidence) : e \in given.edges}

EdgeDerivations ==
    UNION {DerivationRows(EdgeRef(EdgeRow(e).id), e.derived_from) : e \in given.edges}

AssertionDerivations ==
    UNION {DerivationRows(AssertionRef(AssertionRow(a).id), a.derived_from) : a \in given.assertions}

\* The rows are those of the facts given.
RowsOfGiven ==
    /\ nodes = {NodeRow(n) : n \in given.nodes}
    /\ observations = {ObservationRow(o) : o \in given.observations}
    /\ edges = {EdgeRow(e) : e \in given.edges}
    /\ assertions = {AssertionRow(a) : a \in given.assertions}
    /\ diagnostics = {DiagnosticRow(d) : d \in given.diagnostics}
    /\ evidence = NodeEvidence \cup ObservationEvidence \cup EdgeEvidence
    /\ derivations = EdgeDerivations \cup AssertionDerivations

GivenInv ==
    /\ edits \in Nat
    /\ edits = 0 /\ state # "failed" => RowsOfGiven
    /\ edits = 0 /\ state = "completed" => hash = Document

LEMMA GivenGrows ==
    ASSUME FactInv
    PROVE  /\ \A n : [given EXCEPT !.nodes = given.nodes \cup {n}] =
                [nodes |-> given.nodes \cup {n}, observations |-> given.observations,
                 edges |-> given.edges, assertions |-> given.assertions,
                 diagnostics |-> given.diagnostics]
           /\ \A o : [given EXCEPT !.observations = given.observations \cup {o}] =
                [nodes |-> given.nodes, observations |-> given.observations \cup {o},
                 edges |-> given.edges, assertions |-> given.assertions,
                 diagnostics |-> given.diagnostics]
           /\ \A e : [given EXCEPT !.edges = given.edges \cup {e}] =
                [nodes |-> given.nodes, observations |-> given.observations,
                 edges |-> given.edges \cup {e}, assertions |-> given.assertions,
                 diagnostics |-> given.diagnostics]
           /\ \A a : [given EXCEPT !.assertions = given.assertions \cup {a}] =
                [nodes |-> given.nodes, observations |-> given.observations,
                 edges |-> given.edges, assertions |-> given.assertions \cup {a},
                 diagnostics |-> given.diagnostics]
           /\ \A d : [given EXCEPT !.diagnostics = given.diagnostics \cup {d}] =
                [nodes |-> given.nodes, observations |-> given.observations,
                 edges |-> given.edges, assertions |-> given.assertions,
                 diagnostics |-> given.diagnostics \cup {d}]
<1>1. PICK N, O, E, A, D :
        given = [nodes |-> N, observations |-> O, edges |-> E, assertions |-> A,
                 diagnostics |-> D]
  BY DEF FactInv
<1>2. \A n : [given EXCEPT !.nodes = given.nodes \cup {n}]
            = [nodes |-> given.nodes \cup {n}, observations |-> given.observations,
               edges |-> given.edges, assertions |-> given.assertions,
               diagnostics |-> given.diagnostics]
  BY ONLY <1>1
<1>3. \A o : [given EXCEPT !.observations = given.observations \cup {o}]
            = [nodes |-> given.nodes, observations |-> given.observations \cup {o},
               edges |-> given.edges, assertions |-> given.assertions,
               diagnostics |-> given.diagnostics]
  BY ONLY <1>1
<1>4. \A e : [given EXCEPT !.edges = given.edges \cup {e}]
            = [nodes |-> given.nodes, observations |-> given.observations,
               edges |-> given.edges \cup {e}, assertions |-> given.assertions,
               diagnostics |-> given.diagnostics]
  BY ONLY <1>1
<1>5. \A a : [given EXCEPT !.assertions = given.assertions \cup {a}]
            = [nodes |-> given.nodes, observations |-> given.observations,
               edges |-> given.edges, assertions |-> given.assertions \cup {a},
               diagnostics |-> given.diagnostics]
  BY ONLY <1>1
<1>6. \A d : [given EXCEPT !.diagnostics = given.diagnostics \cup {d}]
            = [nodes |-> given.nodes, observations |-> given.observations,
               edges |-> given.edges, assertions |-> given.assertions,
               diagnostics |-> given.diagnostics \cup {d}]
  BY ONLY <1>1
<1> QED BY ONLY <1>2, <1>3, <1>4, <1>5, <1>6

LEMMA AddNodeGiven ==
    ASSUME FactInv, GivenInv, NEW n \in NodeFacts, AddNode(n)
    PROVE  GivenInv'
<1>1. /\ given'.nodes = given.nodes \cup {n} /\ given'.observations = given.observations
      /\ given'.edges = given.edges /\ given'.assertions = given.assertions
      /\ given'.diagnostics = given.diagnostics
  BY GivenGrows DEF AddNode
<1>2. state = "building" /\ state' = "building" /\ edits' = edits
  BY DEF AddNode
<1>3. ASSUME RowsOfGiven PROVE RowsOfGiven'
  <2>1. NodeEvidence' = NodeEvidence \cup EvidenceRows(NodeRef(NodeRow(n).stable_key), n.evidence)
    BY <1>1 DEF NodeEvidence
  <2>2. ObservationEvidence' = ObservationEvidence /\ EdgeEvidence' = EdgeEvidence
    BY <1>1 DEF ObservationEvidence, EdgeEvidence
  <2>3. EdgeDerivations' = EdgeDerivations /\ AssertionDerivations' = AssertionDerivations
    BY <1>1 DEF EdgeDerivations, AssertionDerivations
  <2>4. nodes' = {NodeRow(m) : m \in given'.nodes}
    BY <1>1, <1>3 DEF AddNode, RowsOfGiven
  <2>5. evidence' = NodeEvidence' \cup ObservationEvidence' \cup EdgeEvidence'
    BY <1>3, <2>1, <2>2 DEF AddNode, RowsOfGiven
  <2> QED BY <1>1, <1>3, <2>3, <2>4, <2>5 DEF AddNode, RowsOfGiven
<1> QED BY <1>2, <1>3 DEF GivenInv

LEMMA AddObservationGiven ==
    ASSUME FactInv, GivenInv, NEW o \in ObservationFacts, AddObservation(o)
    PROVE  GivenInv'
<1>1. /\ given'.observations = given.observations \cup {o} /\ given'.nodes = given.nodes
      /\ given'.edges = given.edges /\ given'.assertions = given.assertions
      /\ given'.diagnostics = given.diagnostics
  BY GivenGrows DEF AddObservation
<1>2. state = "building" /\ state' = "building" /\ edits' = edits
  BY DEF AddObservation
<1>3. ASSUME RowsOfGiven PROVE RowsOfGiven'
  <2>1. ObservationEvidence' = ObservationEvidence
                                 \cup {EvidenceRow(ObservationRef(ObservationRow(o).id), o.evidence)}
    BY <1>1 DEF ObservationEvidence
  <2>2. NodeEvidence' = NodeEvidence /\ EdgeEvidence' = EdgeEvidence
    BY <1>1 DEF NodeEvidence, EdgeEvidence
  <2>3. EdgeDerivations' = EdgeDerivations /\ AssertionDerivations' = AssertionDerivations
    BY <1>1 DEF EdgeDerivations, AssertionDerivations
  <2>4. observations' = {ObservationRow(m) : m \in given'.observations}
    BY <1>1, <1>3 DEF AddObservation, RowsOfGiven
  <2>5. evidence' = NodeEvidence' \cup ObservationEvidence' \cup EdgeEvidence'
    BY <1>3, <2>1, <2>2 DEF AddObservation, RowsOfGiven
  <2> QED BY <1>1, <1>3, <2>3, <2>4, <2>5 DEF AddObservation, RowsOfGiven
<1> QED BY <1>2, <1>3 DEF GivenInv

LEMMA AddEdgeGiven ==
    ASSUME FactInv, GivenInv, NEW e \in EdgeFacts, AddEdge(e)
    PROVE  GivenInv'
<1>1. /\ given'.edges = given.edges \cup {e} /\ given'.nodes = given.nodes
      /\ given'.observations = given.observations /\ given'.assertions = given.assertions
      /\ given'.diagnostics = given.diagnostics
  BY GivenGrows DEF AddEdge
<1>2. state = "building" /\ state' = "building" /\ edits' = edits
  BY DEF AddEdge
<1>3. ASSUME RowsOfGiven PROVE RowsOfGiven'
  <2>1. EdgeEvidence' = EdgeEvidence \cup EvidenceRows(EdgeRef(EdgeRow(e).id), e.evidence)
    BY <1>1 DEF EdgeEvidence
  <2>2. ObservationEvidence' = ObservationEvidence /\ NodeEvidence' = NodeEvidence
    BY <1>1 DEF ObservationEvidence, NodeEvidence
  <2>3. /\ EdgeDerivations' = EdgeDerivations
                                \cup DerivationRows(EdgeRef(EdgeRow(e).id), e.derived_from)
        /\ AssertionDerivations' = AssertionDerivations
    BY <1>1 DEF EdgeDerivations, AssertionDerivations
  <2>4. edges' = edges \cup {EdgeRow(e)}
    <3>1. ~EdgeConflicts(e)
      BY DEF AddEdge, EdgeRefused
    <3> QED BY <3>1 DEF AddEdge, EdgeConflicts
  <2>5. edges' = {EdgeRow(m) : m \in given'.edges}
    BY <1>1, <1>3, <2>4 DEF RowsOfGiven
  <2>6. evidence' = NodeEvidence' \cup ObservationEvidence' \cup EdgeEvidence'
    BY <1>3, <2>1, <2>2 DEF AddEdge, RowsOfGiven
  <2>7. derivations' = EdgeDerivations' \cup AssertionDerivations'
    BY <1>3, <2>3 DEF AddEdge, RowsOfGiven
  <2> QED BY <1>1, <1>3, <2>5, <2>6, <2>7 DEF AddEdge, RowsOfGiven
<1> QED BY <1>2, <1>3 DEF GivenInv

LEMMA AddAssertionGiven ==
    ASSUME FactInv, GivenInv, NEW a \in AssertionFacts, AddAssertion(a)
    PROVE  GivenInv'
<1>1. /\ given'.assertions = given.assertions \cup {a} /\ given'.nodes = given.nodes
      /\ given'.observations = given.observations /\ given'.edges = given.edges
      /\ given'.diagnostics = given.diagnostics
  BY GivenGrows DEF AddAssertion
<1>2. state = "building" /\ state' = "building" /\ edits' = edits
  BY DEF AddAssertion
<1>3. ASSUME RowsOfGiven PROVE RowsOfGiven'
  <2>1. AssertionDerivations' = AssertionDerivations
            \cup DerivationRows(AssertionRef(AssertionRow(a).id), a.derived_from)
    BY <1>1 DEF AssertionDerivations
  <2>2. /\ NodeEvidence' = NodeEvidence /\ ObservationEvidence' = ObservationEvidence
        /\ EdgeEvidence' = EdgeEvidence /\ EdgeDerivations' = EdgeDerivations
    BY <1>1 DEF NodeEvidence, ObservationEvidence, EdgeEvidence, EdgeDerivations
  <2>3. assertions' = {AssertionRow(m) : m \in given'.assertions}
    BY <1>1, <1>3 DEF AddAssertion, RowsOfGiven
  <2>4. derivations' = EdgeDerivations' \cup AssertionDerivations'
    BY <1>3, <2>1, <2>2 DEF AddAssertion, RowsOfGiven
  <2> QED BY <1>1, <1>3, <2>2, <2>3, <2>4 DEF AddAssertion, RowsOfGiven
<1> QED BY <1>2, <1>3 DEF GivenInv

LEMMA AddDiagnosticGiven ==
    ASSUME FactInv, GivenInv, NEW d \in DiagnosticFacts, AddDiagnostic(d)
    PROVE  GivenInv'
<1>1. /\ given'.diagnostics = given.diagnostics \cup {d} /\ given'.nodes = given.nodes
      /\ given'.observations = given.observations /\ given'.edges = given.edges
      /\ given'.assertions = given.assertions
  BY GivenGrows DEF AddDiagnostic
<1>2. state = "building" /\ state' = "building" /\ edits' = edits
  BY DEF AddDiagnostic
<1>3. ASSUME RowsOfGiven PROVE RowsOfGiven'
  <2>1. /\ NodeEvidence' = NodeEvidence /\ ObservationEvidence' = ObservationEvidence
        /\ EdgeEvidence' = EdgeEvidence /\ EdgeDerivations' = EdgeDerivations
        /\ AssertionDerivations' = AssertionDerivations
    BY <1>1 DEF NodeEvidence, ObservationEvidence, EdgeEvidence, EdgeDerivations,
       AssertionDerivations
  <2>2. diagnostics' = {DiagnosticRow(m) : m \in given'.diagnostics}
    BY <1>1, <1>3 DEF AddDiagnostic, RowsOfGiven
  <2> QED BY <1>1, <1>3, <2>1, <2>2 DEF AddDiagnostic, RowsOfGiven
<1> QED BY <1>2, <1>3 DEF GivenInv

\* Nothing changes that the rows and the document are made of.
LEMMA RowsSame ==
    ASSUME nodes' = nodes, observations' = observations, edges' = edges,
           assertions' = assertions, diagnostics' = diagnostics, evidence' = evidence,
           derivations' = derivations, given' = given
    PROVE  (RowsOfGiven' <=> RowsOfGiven) /\ Document' = Document
<1>1. RowsOfGiven' <=> RowsOfGiven
  BY DEF RowsOfGiven, NodeEvidence, ObservationEvidence, EdgeEvidence, EdgeDerivations,
     AssertionDerivations
<1>2. Document' = Document
  BY DEF Document, EvidenceOf, RefsOf
<1> QED BY <1>1, <1>2

LEMMA GivenStep ==
    ASSUME FactInv, GivenInv, [Next]_vars
    PROVE  GivenInv'
<1>1. ASSUME NEW n \in NodeFacts, AddNode(n) PROVE GivenInv'
  BY <1>1, AddNodeGiven
<1>2. ASSUME NEW o \in ObservationFacts, AddObservation(o) PROVE GivenInv'
  BY <1>2, AddObservationGiven
<1>3. ASSUME NEW e \in EdgeFacts, AddEdge(e) PROVE GivenInv'
  BY <1>3, AddEdgeGiven
<1>4. ASSUME NEW a \in AssertionFacts, AddAssertion(a) PROVE GivenInv'
  BY <1>4, AddAssertionGiven
<1>5. ASSUME NEW d \in DiagnosticFacts, AddDiagnostic(d) PROVE GivenInv'
  BY <1>5, AddDiagnosticGiven
<1>6. CASE MarkFailed \/ SealFails \/ Sweep
  <2>1. state' = "failed" /\ edits' = edits
    BY <1>6 DEF MarkFailed, SealFails, Sweep
  <2> QED BY <2>1 DEF GivenInv
<1>7. ASSUME NEW r \in evidence, NEW e \in Edits, Edit(r, e) PROVE GivenInv'
  <2>1. edits' \in Nat /\ edits' # 0
    BY <1>7 DEF Edit, GivenInv
  <2> QED BY <2>1 DEF GivenInv
<1>8. CASE Seal
  <2>1. /\ RowsOfGiven' <=> RowsOfGiven
        /\ Document' = Document
    BY <1>8, RowsSame DEF Seal
  <2> QED BY <1>8, <2>1 DEF Seal, GivenInv
<1>9. CASE UNCHANGED vars
  <2>1. /\ RowsOfGiven' <=> RowsOfGiven
        /\ Document' = Document
    BY <1>9, RowsSame DEF vars, factVars
  <2> QED BY <1>9, <2>1 DEF vars, GivenInv
<1> QED BY <1>1, <1>2, <1>3, <1>4, <1>5, <1>6, <1>7, <1>8, <1>9 DEF Next

\* The evidence of one row is what the facts of that row were given with.
LEMMA NodeEvidenceOf ==
    ASSUME RowsOfGiven, NEW key
    PROVE  EvidenceOf(NodeRef(key)) =
             {Kept(e) : e \in UNION {m.evidence : m \in
                 {x \in given.nodes : NodeRow(x).stable_key = key}}}
<1>1. \A r \in NodeEvidence : r.of = NodeRef(key) <=>
        \E n \in given.nodes : \E e \in n.evidence :
            r = [of |-> NodeRef(key), record |-> Kept(e)] /\ NodeRow(n).stable_key = key
  <2>1. ASSUME NEW n \in given.nodes PROVE NodeRef(NodeRow(n).stable_key) = NodeRef(key)
                                             <=> NodeRow(n).stable_key = key
    BY DEF NodeRef, Reference
  <2>2. \A r \in NodeEvidence : \E n \in given.nodes : \E e \in n.evidence :
            r = [of |-> NodeRef(NodeRow(n).stable_key), record |-> Kept(e)]
    BY DEF NodeEvidence, EvidenceRows, EvidenceRow, Kept
  <2> QED BY <2>1, <2>2
<1>2. \A n \in given.nodes : \A e \in n.evidence : NodeRow(n).stable_key = key =>
        [of |-> NodeRef(key), record |-> Kept(e)] \in NodeEvidence
  <2>1. ASSUME NEW n \in given.nodes, NEW e \in n.evidence
        PROVE  EvidenceRow(NodeRef(NodeRow(n).stable_key), e) \in NodeEvidence
    BY DEF NodeEvidence, EvidenceRows
  <2>2. \A ref, e : EvidenceRow(ref, e) = [of |-> ref, record |-> Kept(e)]
    BY DEF EvidenceRow, Kept
  <2> QED BY <2>1, <2>2
<1>3. \A r \in ObservationEvidence : r.of # NodeRef(key)
  BY DEF ObservationEvidence, EvidenceRow, ObservationRef, NodeRef, Reference
<1>4. \A r \in EdgeEvidence : r.of # NodeRef(key)
  BY DEF EdgeEvidence, EvidenceRows, EvidenceRow, EdgeRef, NodeRef, Reference
<1>5. \A r \in evidence : r.of = NodeRef(key) <=>
        \E n \in given.nodes : \E e \in n.evidence :
            r = [of |-> NodeRef(key), record |-> Kept(e)] /\ NodeRow(n).stable_key = key
  <2>1. ASSUME NEW r \in ObservationEvidence \cup EdgeEvidence,
               NEW e, r = [of |-> NodeRef(key), record |-> Kept(e)]
        PROVE  FALSE
    BY <1>3, <1>4, <2>1
  <2> QED BY <1>1, <1>3, <1>4, <2>1 DEF RowsOfGiven
<1>6. ASSUME NEW k PROVE k \in EvidenceOf(NodeRef(key)) <=>
        \E n \in given.nodes : \E e \in n.evidence : k = Kept(e) /\ NodeRow(n).stable_key = key
  <2>1. ASSUME NEW r \in evidence, r.of = NodeRef(key), k = r.record
        PROVE  \E n \in given.nodes : \E e \in n.evidence :
                    k = Kept(e) /\ NodeRow(n).stable_key = key
    BY <1>5, <2>1
  <2>2. ASSUME NEW n \in given.nodes, NEW e \in n.evidence, k = Kept(e),
               NodeRow(n).stable_key = key
        PROVE  k \in EvidenceOf(NodeRef(key))
    <3>1. PICK r \in evidence : r = [of |-> NodeRef(key), record |-> k]
      BY <1>2, <2>2 DEF RowsOfGiven
    <3>2. r.of = NodeRef(key) /\ r.record = k
      BY <3>1
    <3> QED BY <3>2 DEF EvidenceOf
  <2> QED BY <2>1, <2>2 DEF EvidenceOf
<1> QED BY <1>6

LEMMA EdgeEvidenceOf ==
    ASSUME RowsOfGiven, NEW id
    PROVE  EvidenceOf(EdgeRef(id)) =
             {Kept(e) : e \in UNION {m.evidence : m \in
                 {x \in given.edges : EdgeRow(x).id = id}}}
<1>1. \A r \in EdgeEvidence : r.of = EdgeRef(id) <=>
        \E f \in given.edges : \E e \in f.evidence :
            r = [of |-> EdgeRef(id), record |-> Kept(e)] /\ EdgeRow(f).id = id
  <2>1. ASSUME NEW f \in given.edges PROVE EdgeRef(EdgeRow(f).id) = EdgeRef(id)
                                             <=> EdgeRow(f).id = id
    BY DEF EdgeRef, Reference
  <2>2. \A r \in EdgeEvidence : \E f \in given.edges : \E e \in f.evidence :
            r = [of |-> EdgeRef(EdgeRow(f).id), record |-> Kept(e)]
    BY DEF EdgeEvidence, EvidenceRows, EvidenceRow, Kept
  <2> QED BY <2>1, <2>2
<1>2. \A f \in given.edges : \A e \in f.evidence : EdgeRow(f).id = id =>
        [of |-> EdgeRef(id), record |-> Kept(e)] \in EdgeEvidence
  <2>1. ASSUME NEW f \in given.edges, NEW e \in f.evidence
        PROVE  EvidenceRow(EdgeRef(EdgeRow(f).id), e) \in EdgeEvidence
    BY DEF EdgeEvidence, EvidenceRows
  <2>2. \A ref, e : EvidenceRow(ref, e) = [of |-> ref, record |-> Kept(e)]
    BY DEF EvidenceRow, Kept
  <2> QED BY <2>1, <2>2
<1>3. \A r \in ObservationEvidence : r.of # EdgeRef(id)
  BY DEF ObservationEvidence, EvidenceRow, ObservationRef, EdgeRef, Reference
<1>4. \A r \in NodeEvidence : r.of # EdgeRef(id)
  BY DEF NodeEvidence, EvidenceRows, EvidenceRow, NodeRef, EdgeRef, Reference
<1>5. \A r \in evidence : r.of = EdgeRef(id) <=>
        \E f \in given.edges : \E e \in f.evidence :
            r = [of |-> EdgeRef(id), record |-> Kept(e)] /\ EdgeRow(f).id = id
  <2>1. ASSUME NEW r \in ObservationEvidence \cup NodeEvidence,
               NEW e, r = [of |-> EdgeRef(id), record |-> Kept(e)]
        PROVE  FALSE
    BY <1>3, <1>4, <2>1
  <2> QED BY <1>1, <1>3, <1>4, <2>1 DEF RowsOfGiven
<1>6. ASSUME NEW k PROVE k \in EvidenceOf(EdgeRef(id)) <=>
        \E f \in given.edges : \E e \in f.evidence : k = Kept(e) /\ EdgeRow(f).id = id
  <2>1. ASSUME NEW r \in evidence, r.of = EdgeRef(id), k = r.record
        PROVE  \E f \in given.edges : \E e \in f.evidence :
                    k = Kept(e) /\ EdgeRow(f).id = id
    BY <1>5, <2>1
  <2>2. ASSUME NEW f \in given.edges, NEW e \in f.evidence, k = Kept(e),
               EdgeRow(f).id = id
        PROVE  k \in EvidenceOf(EdgeRef(id))
    <3>1. PICK r \in evidence : r = [of |-> EdgeRef(id), record |-> k]
      BY <1>2, <2>2 DEF RowsOfGiven
    <3>2. r.of = EdgeRef(id) /\ r.record = k
      BY <3>1
    <3> QED BY <3>2 DEF EvidenceOf
  <2> QED BY <2>1, <2>2 DEF EvidenceOf
<1> QED BY <1>6

LEMMA ObservationEvidenceOf ==
    ASSUME RowsOfGiven, NEW id
    PROVE  EvidenceOf(ObservationRef(id)) =
             {Kept(e) : e \in {m.evidence : m \in
                 {x \in given.observations : ObservationRow(x).id = id}}}
<1>1. \A ref, e : EvidenceRow(ref, e) = [of |-> ref, record |-> Kept(e)]
  BY DEF EvidenceRow, Kept
<1>2. \A a : ObservationRef(a) = ObservationRef(id) <=> a = id
  BY DEF ObservationRef, Reference
<1>3. \A r \in NodeEvidence : r.of # ObservationRef(id)
  BY DEF NodeEvidence, EvidenceRows, EvidenceRow, ObservationRef, NodeRef, Reference
<1>4. \A r \in EdgeEvidence : r.of # ObservationRef(id)
  BY DEF EdgeEvidence, EvidenceRows, EvidenceRow, ObservationRef, EdgeRef, Reference
<1>5. ASSUME NEW k PROVE k \in EvidenceOf(ObservationRef(id)) <=>
        \E o \in given.observations : k = Kept(o.evidence) /\ ObservationRow(o).id = id
  <2>1. ASSUME NEW r \in evidence, r.of = ObservationRef(id), k = r.record
        PROVE  \E o \in given.observations : k = Kept(o.evidence) /\ ObservationRow(o).id = id
    <3>1. r \in ObservationEvidence
      BY <1>3, <1>4, <2>1 DEF RowsOfGiven
    <3>2. PICK o \in given.observations :
            r = EvidenceRow(ObservationRef(ObservationRow(o).id), o.evidence)
      BY <3>1 DEF ObservationEvidence
    <3>3. r.of = ObservationRef(ObservationRow(o).id) /\ r.record = Kept(o.evidence)
      BY <1>1, <3>2
    <3> QED BY <1>2, <2>1, <3>3
  <2>2. ASSUME NEW o \in given.observations, k = Kept(o.evidence), ObservationRow(o).id = id
        PROVE  k \in EvidenceOf(ObservationRef(id))
    <3>1. PICK r \in evidence : r = [of |-> ObservationRef(id), record |-> k]
      BY <1>1, <2>2 DEF RowsOfGiven, ObservationEvidence
    <3>2. r.of = ObservationRef(id) /\ r.record = k
      BY <3>1
    <3> QED BY <3>2 DEF EvidenceOf
  <2> QED BY <2>1, <2>2 DEF EvidenceOf
<1> QED BY <1>5

\* What an edge or an assertion rests on is what it was given with.
LEMMA EdgeRefsOf ==
    ASSUME RowsOfGiven, NEW id
    PROVE  RefsOf(EdgeRef(id)) =
             UNION {m.derived_from : m \in {x \in given.edges : EdgeRow(x).id = id}}
<1>1. \A a : EdgeRef(a) = EdgeRef(id) <=> a = id
  BY DEF EdgeRef, Reference
<1>2. \A d \in AssertionDerivations : d.of # EdgeRef(id)
  BY DEF AssertionDerivations, DerivationRows, AssertionRef, EdgeRef, Reference
<1>3. ASSUME NEW ref PROVE ref \in RefsOf(EdgeRef(id)) <=>
        \E e \in given.edges : ref \in e.derived_from /\ EdgeRow(e).id = id
  <2>1. ASSUME NEW d \in derivations, d.of = EdgeRef(id), ref = d.ref
        PROVE  \E e \in given.edges : ref \in e.derived_from /\ EdgeRow(e).id = id
    <3>1. d \in EdgeDerivations
      BY <1>2, <2>1 DEF RowsOfGiven
    <3>2. PICK e \in given.edges : d \in DerivationRows(EdgeRef(EdgeRow(e).id), e.derived_from)
      BY <3>1 DEF EdgeDerivations
    <3>3. d.of = EdgeRef(EdgeRow(e).id) /\ d.ref \in e.derived_from
      BY <3>2 DEF DerivationRows
    <3> QED BY <1>1, <2>1, <3>3
  <2>2. ASSUME NEW e \in given.edges, ref \in e.derived_from, EdgeRow(e).id = id
        PROVE  ref \in RefsOf(EdgeRef(id))
    <3>1. [of |-> EdgeRef(id), ref |-> ref] \in DerivationRows(EdgeRef(id), e.derived_from)
      BY <2>2 DEF DerivationRows
    <3>2. [of |-> EdgeRef(id), ref |-> ref] \in EdgeDerivations
      BY <2>2, <3>1 DEF EdgeDerivations
    <3>3. PICK d \in derivations : d = [of |-> EdgeRef(id), ref |-> ref]
      BY <3>2 DEF RowsOfGiven
    <3>4. d.of = EdgeRef(id) /\ d.ref = ref
      BY <3>3
    <3> QED BY <3>4 DEF RefsOf
  <2> QED BY <2>1, <2>2 DEF RefsOf
<1> QED BY <1>3

LEMMA AssertionRefsOf ==
    ASSUME RowsOfGiven, NEW a \in given.assertions
    PROVE  RefsOf(AssertionRef(AssertionRow(a).id)) = a.derived_from
<1> DEFINE id == AssertionRow(a).id
<1>1. ASSUME NEW b, AssertionRow(b).id = id PROVE b.derived_from = a.derived_from
  <2>1. /\ AssertionRow(b).id.derived_from = b.derived_from
        /\ AssertionRow(a).id.derived_from = a.derived_from
    BY DEF AssertionRow, AssertionId
  <2> QED BY <1>1, <2>1
<1> HIDE DEF id
<1>2. \A x : AssertionRef(x) = AssertionRef(id) <=> x = id
  BY DEF AssertionRef, Reference
<1>3. \A d \in EdgeDerivations : d.of # AssertionRef(id)
  BY DEF EdgeDerivations, DerivationRows, AssertionRef, EdgeRef, Reference
<1>4. ASSUME NEW d \in derivations, d.of = AssertionRef(id) PROVE d.ref \in a.derived_from
  <2>1. d \in AssertionDerivations
    BY <1>3, <1>4 DEF RowsOfGiven
  <2>2. PICK b \in given.assertions :
          d \in DerivationRows(AssertionRef(AssertionRow(b).id), b.derived_from)
    BY <2>1 DEF AssertionDerivations
  <2>3. d.of = AssertionRef(AssertionRow(b).id) /\ d.ref \in b.derived_from
    BY <2>2 DEF DerivationRows
  <2> QED BY <1>1, <1>2, <1>4, <2>3
<1>5. ASSUME NEW ref \in a.derived_from PROVE ref \in RefsOf(AssertionRef(id))
  <2>1. [of |-> AssertionRef(id), ref |-> ref] \in DerivationRows(AssertionRef(id), a.derived_from)
    BY <1>5 DEF DerivationRows
  <2>2. [of |-> AssertionRef(id), ref |-> ref] \in AssertionDerivations
    BY <2>1 DEF AssertionDerivations, id
  <2>3. PICK d \in derivations : d = [of |-> AssertionRef(id), ref |-> ref]
    BY <2>2 DEF RowsOfGiven
  <2>4. d.of = AssertionRef(id) /\ d.ref = ref
    BY <2>3
  <2> QED BY <2>4 DEF RefsOf
<1>6. RefsOf(AssertionRef(id)) = a.derived_from
  BY <1>4, <1>5 DEF RefsOf
<1> QED BY <1>6 DEF id

LEMMA KeptRecords ==
    ASSUME NEW X
    PROVE  EvidenceRecordOfAll({Kept(e) : e \in X}) = GivenEvidence(X)
BY DEF EvidenceRecordOfAll, GivenEvidence, Kept

\* _compute_hash over the rows digests the document of the facts given.
LEMMA DocumentOfGiven ==
    ASSUME RowsOfGiven
    PROVE  Document = GivenDocument
<1> DEFINE NodeFactsOf(n) == UNION {m.evidence : m \in
              {x \in given.nodes : NodeRow(x).stable_key = NodeRow(n).stable_key}}
           ObservationFactsOf(o) == {m.evidence : m \in
              {x \in given.observations : ObservationRow(x).id = ObservationRow(o).id}}
           EdgeFactsOf(e) == UNION {m.evidence : m \in
              {x \in given.edges : EdgeRow(x).id = EdgeRow(e).id}}
           EdgeBasis(e) == UNION {m.derived_from : m \in
              {x \in given.edges : EdgeRow(x).id = EdgeRow(e).id}}
<1>1. {NodeRecord(n, EvidenceOf(NodeRef(n.stable_key))) : n \in nodes}
        = {[node |-> NodeRow(n), evidence |-> GivenEvidence(NodeFactsOf(n))] : n \in given.nodes}
  <2>1. ASSUME NEW n \in given.nodes
        PROVE  NodeRecord(NodeRow(n), EvidenceOf(NodeRef(NodeRow(n).stable_key)))
                 = [node |-> NodeRow(n), evidence |-> GivenEvidence(NodeFactsOf(n))]
    <3>1. EvidenceOf(NodeRef(NodeRow(n).stable_key)) = {Kept(e) : e \in NodeFactsOf(n)}
      BY NodeEvidenceOf
    <3>2. EvidenceRecordOfAll(EvidenceOf(NodeRef(NodeRow(n).stable_key)))
            = GivenEvidence(NodeFactsOf(n))
      BY <3>1, KeptRecords
    <3> QED BY <3>2 DEF NodeRecord
  <2> HIDE DEF NodeFactsOf
  <2> QED BY <2>1 DEF RowsOfGiven
<1>2. {ObservationRecord(o, EvidenceOf(ObservationRef(o.id))) : o \in observations}
        = {[observation |-> ObservationRow(o), evidence |-> GivenEvidence(ObservationFactsOf(o))]
             : o \in given.observations}
  <2>1. ASSUME NEW o \in given.observations
        PROVE  ObservationRecord(ObservationRow(o),
                                 EvidenceOf(ObservationRef(ObservationRow(o).id)))
                 = [observation |-> ObservationRow(o),
                    evidence |-> GivenEvidence(ObservationFactsOf(o))]
    <3>1. EvidenceOf(ObservationRef(ObservationRow(o).id))
            = {Kept(e) : e \in ObservationFactsOf(o)}
      BY ObservationEvidenceOf
    <3>2. EvidenceRecordOfAll(EvidenceOf(ObservationRef(ObservationRow(o).id)))
            = GivenEvidence(ObservationFactsOf(o))
      BY <3>1, KeptRecords
    <3> QED BY <3>2 DEF ObservationRecord
  <2> HIDE DEF ObservationFactsOf
  <2> QED BY <2>1 DEF RowsOfGiven
<1>3. {EdgeRecord(e, EvidenceOf(EdgeRef(e.id)), RefsOf(EdgeRef(e.id))) : e \in edges}
        = {[edge |-> EdgeRow(e), evidence |-> GivenEvidence(EdgeFactsOf(e)),
            derived_from |-> EdgeBasis(e)] : e \in given.edges}
  <2>1. ASSUME NEW e \in given.edges
        PROVE  EdgeRecord(EdgeRow(e), EvidenceOf(EdgeRef(EdgeRow(e).id)),
                          RefsOf(EdgeRef(EdgeRow(e).id)))
                 = [edge |-> EdgeRow(e), evidence |-> GivenEvidence(EdgeFactsOf(e)),
                    derived_from |-> EdgeBasis(e)]
    <3>1. EvidenceOf(EdgeRef(EdgeRow(e).id)) = {Kept(x) : x \in EdgeFactsOf(e)}
      BY EdgeEvidenceOf
    <3>2. EvidenceRecordOfAll(EvidenceOf(EdgeRef(EdgeRow(e).id)))
            = GivenEvidence(EdgeFactsOf(e))
      BY <3>1, KeptRecords
    <3>3. RefsOf(EdgeRef(EdgeRow(e).id)) = EdgeBasis(e)
      BY EdgeRefsOf
    <3> QED BY <3>2, <3>3 DEF EdgeRecord
  <2> HIDE DEF EdgeFactsOf, EdgeBasis
  <2> QED BY <2>1 DEF RowsOfGiven
<1>4. {AssertionRecord(a, RefsOf(AssertionRef(a.id))) : a \in assertions}
        = {[assertion |-> AssertionRow(a), derived_from |-> a.derived_from]
             : a \in given.assertions}
  <2>1. ASSUME NEW a \in given.assertions
        PROVE  AssertionRecord(AssertionRow(a), RefsOf(AssertionRef(AssertionRow(a).id)))
                 = [assertion |-> AssertionRow(a), derived_from |-> a.derived_from]
    BY AssertionRefsOf DEF AssertionRecord
  <2> DEFINE record(b) == AssertionRecord(b, RefsOf(AssertionRef(b.id)))
  <2>2. \A a \in given.assertions :
          record(AssertionRow(a)) = [assertion |-> AssertionRow(a), derived_from |-> a.derived_from]
    BY <2>1
  <2>3. assertions = {AssertionRow(a) : a \in given.assertions}
    BY DEF RowsOfGiven
  <2> HIDE DEF record
  <2>4. {record(b) : b \in assertions}
          = {[assertion |-> AssertionRow(a), derived_from |-> a.derived_from]
               : a \in given.assertions}
    BY ONLY <2>2, <2>3
  <2> QED BY <2>4 DEF record
<1>5. diagnostics = {DiagnosticRow(d) : d \in given.diagnostics}
  BY DEF RowsOfGiven
<1> QED BY <1>1, <1>2, <1>3, <1>4, <1>5, Zenon DEF Document, GivenDocument

LEMMA GivenInit ==
    ASSUME Init
    PROVE  GivenInv
<1>1. /\ given.nodes = {} /\ given.observations = {} /\ given.edges = {}
      /\ given.assertions = {} /\ given.diagnostics = {}
  BY DEF Init, NoFacts
<1>2. /\ NodeEvidence = {} /\ ObservationEvidence = {} /\ EdgeEvidence = {}
      /\ EdgeDerivations = {} /\ AssertionDerivations = {}
  BY <1>1 DEF NodeEvidence, ObservationEvidence, EdgeEvidence, EdgeDerivations,
     AssertionDerivations
<1>3. RowsOfGiven
  BY <1>1, <1>2 DEF Init, RowsOfGiven
<1> QED BY <1>3 DEF Init, GivenInv

\* compute_canonical_graph_hash: of a snapshot whose rows nobody assigned to,
\* the hash is that of the facts accepted, in whatever order and however
\* often they were given.
THEOREM HashesAreOfTheGiven == Spec => []HashOfGiven
<1>1. Init => FactInv /\ GivenInv
  BY FactInit, GivenInit
<1>2. FactInv /\ GivenInv /\ [Next]_vars => (FactInv /\ GivenInv)'
  BY FactStep, GivenStep
<1>3. FactInv /\ GivenInv => HashOfGiven
  BY DocumentOfGiven DEF GivenInv, HashOfGiven
<1> QED BY <1>1, <1>2, <1>3, PTL DEF Spec

-----------------------------------------------------------------------------
(* Rows belong to facts                                                    *)

\* The conjuncts of TypeOK, over rows that may be edited and rolled back.
RefsInv ==
    /\ state \in {"building", "completed", "failed"}
    /\ edits \in 0..MaxEdits
    /\ hash = IF state = "completed" THEN Document ELSE NoHash
    /\ \A r \in evidence \cup stored : RowOK(r) /\ r.of \in FactRefs
    /\ \A d \in derivations : d.of \in FactRefs

LEMMA RefsGrow ==
    ASSUME nodes \subseteq nodes', observations \subseteq observations', edges \subseteq edges',
           assertions \subseteq assertions'
    PROVE  FactRefs \subseteq FactRefs'
<1>1. NodeKeys \subseteq NodeKeys'
  BY DEF NodeKeys
<1> QED BY <1>1 DEF FactRefs

\* A writer adds rows of a fact that is there afterwards.
LEMMA WriteRefs ==
    ASSUME RefsInv, FactInv', FactRefs \subseteq FactRefs',
           state' = "building", hash' = hash, edits' = edits, state = "building",
           stored' = evidence',
           \A r \in evidence' : r \in evidence \/ r.of \in FactRefs',
           \A d \in derivations' : d \in derivations \/ d.of \in FactRefs'
    PROVE  RefsInv'
<1>1. \A r \in evidence' \cup stored' : RowOK(r)
  BY DEF FactInv
<1>2. \A r \in evidence' \cup stored' : r.of \in FactRefs'
  BY DEF RefsInv
<1>3. \A d \in derivations' : d.of \in FactRefs'
  BY DEF RefsInv
<1> QED BY <1>1, <1>2, <1>3 DEF RefsInv

LEMMA RefsStep ==
    ASSUME RefsInv, FactInv, FactInv', [Next]_vars
    PROVE  RefsInv'
<1>1. ASSUME NEW n \in NodeFacts, AddNode(n) PROVE RefsInv'
  <2>1. FactRefs \subseteq FactRefs'
    BY <1>1, RefsGrow DEF AddNode
  <2>2. NodeRef(NodeRow(n).stable_key) \in FactRefs'
    BY <1>1 DEF AddNode, FactRefs, NodeKeys
  <2>3. \A r \in evidence' : r \in evidence \/ r.of \in FactRefs'
    BY <1>1, <2>2 DEF AddNode, EvidenceRows, EvidenceRow
  <2> QED BY <1>1, <2>1, <2>3, WriteRefs DEF AddNode
<1>2. ASSUME NEW o \in ObservationFacts, AddObservation(o) PROVE RefsInv'
  <2>1. FactRefs \subseteq FactRefs'
    BY <1>2, RefsGrow DEF AddObservation
  <2>2. ObservationRef(ObservationRow(o).id) \in FactRefs'
    BY <1>2 DEF AddObservation, FactRefs
  <2>3. \A r \in evidence' : r \in evidence \/ r.of \in FactRefs'
    BY <1>2, <2>2 DEF AddObservation, EvidenceRow
  <2> QED BY <1>2, <2>1, <2>3, WriteRefs DEF AddObservation
<1>3. ASSUME NEW e \in EdgeFacts, AddEdge(e) PROVE RefsInv'
  <2>1. FactRefs \subseteq FactRefs'
    BY <1>3, RefsGrow DEF AddEdge
  <2>2. EdgeRef(EdgeRow(e).id) \in FactRefs'
    BY <1>3 DEF AddEdge, FactRefs
  <2>3. \A r \in evidence' : r \in evidence \/ r.of \in FactRefs'
    BY <1>3, <2>2 DEF AddEdge, EvidenceRows, EvidenceRow
  <2>4. \A d \in derivations' : d \in derivations \/ d.of \in FactRefs'
    BY <1>3, <2>2 DEF AddEdge, DerivationRows
  <2> QED BY <1>3, <2>1, <2>3, <2>4, WriteRefs DEF AddEdge
<1>4. ASSUME NEW a \in AssertionFacts, AddAssertion(a) PROVE RefsInv'
  <2>1. FactRefs \subseteq FactRefs'
    BY <1>4, RefsGrow DEF AddAssertion
  <2>2. AssertionRef(AssertionRow(a).id) \in FactRefs'
    BY <1>4 DEF AddAssertion, FactRefs
  <2>3. \A d \in derivations' : d \in derivations \/ d.of \in FactRefs'
    BY <1>4, <2>2 DEF AddAssertion, DerivationRows
  <2> QED BY <1>4, <2>1, <2>3, WriteRefs DEF AddAssertion
<1>5. ASSUME NEW d \in DiagnosticFacts, AddDiagnostic(d) PROVE RefsInv'
  <2>1. FactRefs \subseteq FactRefs'
    BY <1>5, RefsGrow DEF AddDiagnostic
  <2> QED BY <1>5, <2>1, WriteRefs DEF AddDiagnostic
<1>6. CASE MarkFailed
  BY <1>6 DEF MarkFailed, Discard, RefsInv
<1>7. ASSUME NEW r \in evidence, NEW e \in Edits, Edit(r, e) PROVE RefsInv'
  <2>1. FactRefs' = FactRefs
    BY <1>7 DEF Edit, FactRefs, NodeKeys
  <2>2. /\ state = "building" /\ state' = "building" /\ edits < MaxEdits /\ edits' = edits + 1
        /\ hash' = hash /\ derivations' = derivations
    BY <1>7 DEF Edit, Editable
  <2>3. [r EXCEPT !.record = e].of = r.of
    <3>1. r = [of |-> r.of, record |-> r.record]
      BY <1>7 DEF RefsInv, RowOK
    <3> QED BY <3>1
  <2>4. \A x \in evidence' \cup stored' : x.of \in FactRefs
    BY <1>7, <2>3 DEF Edit, RefsInv
  <2>5. \A x \in evidence' \cup stored' : RowOK(x)
    BY DEF FactInv
  <2>6. edits' \in 0..MaxEdits
    BY <2>2, FactsAssumption DEF RefsInv
  <2>7. \A d \in derivations' : d.of \in FactRefs'
    BY <2>1, <2>2 DEF RefsInv
  <2> QED BY <2>1, <2>2, <2>4, <2>5, <2>6, <2>7 DEF RefsInv
<1>8. CASE Seal
  <2>1. FactRefs' = FactRefs
    BY <1>8 DEF Seal, FactRefs, NodeKeys
  <2>2. Document' = Document
    BY <1>8, RowsSame DEF Seal
  <2> QED BY <1>8, <2>1, <2>2 DEF Seal, RefsInv
<1>9. CASE SealFails
  <2>1. FactRefs' = FactRefs
    BY <1>9 DEF SealFails, FactRefs, NodeKeys
  <2> QED BY <1>9, <2>1 DEF SealFails, RefsInv
<1>10. CASE Sweep
  BY <1>10 DEF Sweep, Discard, RefsInv
<1>11. CASE UNCHANGED vars
  <2>1. FactRefs' = FactRefs
    BY <1>11 DEF vars, factVars, FactRefs, NodeKeys
  <2>2. Document' = Document
    BY <1>11, RowsSame DEF vars, factVars
  <2> QED BY <1>11, <2>1, <2>2 DEF vars, factVars, RefsInv
<1> QED BY <1>1, <1>2, <1>3, <1>4, <1>5, <1>6, <1>7, <1>8, <1>9, <1>10, <1>11 DEF Next

\* Every row of evidence and every derivation belongs to a fact of the
\* snapshot, and a sealed snapshot carries the hash of what it holds.
THEOREM FactTypes == Spec => []TypeOK
<1>1. Init => FactInv /\ RefsInv
  <2>1. Init => RefsInv
    BY FactsAssumption DEF Init, RefsInv
  <2> QED BY <2>1, FactInit
<1>2. FactInv /\ RefsInv /\ [Next]_vars => (FactInv /\ RefsInv)'
  BY FactStep, RefsStep
<1>3. RefsInv => TypeOK
  BY DEF RefsInv, TypeOK, Derived
<1> QED BY <1>1, <1>2, <1>3, PTL DEF Spec

=============================================================================
