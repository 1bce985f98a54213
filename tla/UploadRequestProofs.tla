------------------------ MODULE UploadRequestProofs ------------------------
(***************************************************************************)
(* Proofs about the handler of PUT /uploadTests before it stores anything. *)
(* First BatchLoop: what SplitIntoBatches establishes, for every list of   *)
(* tests and every configured batch size.  Then UploadRequest: the handler *)
(* accepts exactly the requests it is meant for, whatever the number, the  *)
(* names and the order of their parts, and the batches are as proved when  *)
(* it is the handler that calls SplitIntoBatches.                          *)
(***************************************************************************)
EXTENDS UploadRequest, FiniteSetTheorems, WellFoundedInduction, TLAPS

(***************************************************************************)
(* The invariant of the two loops.  The parts about accumSize, total and   *)
(* the raised limit are what makes the three properties inductive: the     *)
(* test that opens a batch fits only because the first loop has seen it.   *)
(***************************************************************************)
TotalInv ==
    /\ Len(total) = (IF pc = "raise" THEN 0 ELSE i) + 1
    /\ total[1] = 0
    /\ \A k \in 1..Len(total) - 1 : total[k + 1] = total[k] + size[k]

LimitInv ==
    /\ \A k \in 1..Len(size) : (pc # "raise" \/ k <= i) => size[k] <= batchSize
    /\ \/ batchSize = BatchSize
       \/ \E k \in 1..Len(size) : batchSize = size[k]

AccumInv ==
    pc # "raise" =>
        /\ i = 0 => accumSize = 0
        /\ i > 0 => accumSize = Weight(total, batches[Len(batches)])
        /\ accumSize <= batchSize

(* A batch starts and ends with a placed test: the totals it refers to exist. *)
IdsInv ==
    pc # "raise" /\ i > 0 =>
        \A b \in 1..Len(batches) : /\ FrontId(batches[b]) \in 1..i
                                   /\ BackId(batches[b]) \in 1..i

LoopInv ==
    /\ TypeOK
    /\ IdsInv
    /\ TotalInv
    /\ LimitInv
    /\ AccumInv
    /\ BatchesPartitionTests
    /\ BatchesFit
    /\ BatchesMaximal

----------------------------------------------------------------------------
(* A run stays one when the id after its back() is pushed. *)
LEMMA RunAppend ==
    ASSUME NEW batch \in Seq(Nat), IsRun(batch), NEW id \in Nat, id = BackId(batch) + 1,
           NEW new, new = Append(batch, id)
    PROVE  /\ new \in Seq(Nat)
           /\ IsRun(new)
           /\ FrontId(new) = FrontId(batch)
           /\ BackId(new) = id
<1>1. /\ Len(new) = Len(batch) + 1 /\ new[Len(batch) + 1] = id
      /\ \A j \in 1..Len(batch) : new[j] = batch[j]
      /\ Len(batch) \in Nat /\ Len(batch) > 0 /\ new \in Seq(Nat)
  BY DEF IsRun
<1>2. FrontId(new) = FrontId(batch) /\ BackId(new) = id
  BY <1>1 DEF FrontId, BackId
<1>3. /\ \A j \in 1..Len(batch) : batch[j] = FrontId(batch) + (j - 1)
      /\ BackId(batch) = FrontId(batch) + (Len(batch) - 1)
      /\ FrontId(batch) \in Nat
  BY <1>1 DEF IsRun, FrontId, BackId
<1>4. ASSUME NEW j \in 1..Len(new) PROVE new[j] = FrontId(new) + (j - 1)
  <2>1. CASE j = Len(batch) + 1
    BY <2>1, <1>1, <1>2, <1>3
  <2>2. CASE j \in 1..Len(batch)
    BY <2>2, <1>1, <1>2, <1>3
  <2> QED
    BY <2>1, <2>2, <1>1
<1> QED
  BY <1>1, <1>2, <1>4 DEF IsRun

(* The first id pushed into an empty batch is a run of its own. *)
LEMMA RunOfOne ==
    ASSUME NEW id \in Nat, NEW new, new = <<id>>
    PROVE  /\ new \in Seq(Nat)
           /\ IsRun(new)
           /\ FrontId(new) = id
           /\ BackId(new) = id
  BY DEF IsRun, FrontId, BackId

(***************************************************************************)
(* What one iteration does to the list of batches, position by position:   *)
(* either the last batch grows by the id, or a batch of that id alone is   *)
(* appended; nothing else changes.                                         *)
(***************************************************************************)
LEMMA ReplaceLast ==
    ASSUME NEW S, NEW bs \in Seq(S), Len(bs) > 0, NEW x \in S,
           NEW new, new = [bs EXCEPT ![Len(bs)] = x]
    PROVE  /\ new \in Seq(S)
           /\ Len(new) = Len(bs)
           /\ \A b \in 1..Len(bs) - 1 : new[b] = bs[b]
           /\ new[Len(bs)] = x
  OBVIOUS

LEMMA AppendOne ==
    ASSUME NEW S, NEW bs \in Seq(S), NEW x \in S, NEW new, new = Append(bs, x)
    PROVE  /\ new \in Seq(S)
           /\ Len(new) = Len(bs) + 1
           /\ \A b \in 1..Len(bs) : new[b] = bs[b]
           /\ new[Len(bs) + 1] = x
  OBVIOUS

(***************************************************************************)
(* The two shapes keep the ids in order.                                   *)
(***************************************************************************)
LEMMA CoversOpens ==
    ASSUME NEW S, NEW bs \in Seq(S), NEW n \in Nat, n > 0, CoversInOrder(bs, n),
           NEW new \in Seq(S), Len(new) = Len(bs) + 1,
           \A b \in 1..Len(bs) : new[b] = bs[b],
           NEW x, IsRun(x), FrontId(x) = n + 1, BackId(x) = n + 1,
           new[Len(bs) + 1] = x
    PROVE  CoversInOrder(new, n + 1)
<1>1. /\ Len(bs) > 0 /\ Len(bs) \in Nat
      /\ \A b \in 1..Len(bs) : IsRun(bs[b])
      /\ FrontId(bs[1]) = 1
      /\ \A b \in 1..Len(bs) - 1 : FrontId(bs[b + 1]) = BackId(bs[b]) + 1
      /\ BackId(bs[Len(bs)]) = n
  BY DEF CoversInOrder
<1>2. \A b \in 1..Len(new) : IsRun(new[b])
  BY <1>1
<1>3. FrontId(new[1]) = 1
  BY <1>1
<1>4. \A b \in 1..Len(new) - 1 : FrontId(new[b + 1]) = BackId(new[b]) + 1
  BY <1>1
<1> QED
  BY <1>1, <1>2, <1>3, <1>4 DEF CoversInOrder

LEMMA CoversFits ==
    ASSUME NEW S, NEW bs \in Seq(S), NEW n \in Nat, n > 0, CoversInOrder(bs, n),
           NEW new \in Seq(S), Len(new) = Len(bs),
           \A b \in 1..Len(bs) - 1 : new[b] = bs[b],
           NEW x, IsRun(x), FrontId(x) = FrontId(bs[Len(bs)]), BackId(x) = n + 1,
           new[Len(bs)] = x
    PROVE  CoversInOrder(new, n + 1)
<1>1. /\ Len(bs) > 0 /\ Len(bs) \in Nat
      /\ \A b \in 1..Len(bs) : IsRun(bs[b])
      /\ FrontId(bs[1]) = 1
      /\ \A b \in 1..Len(bs) - 1 : FrontId(bs[b + 1]) = BackId(bs[b]) + 1
      /\ BackId(bs[Len(bs)]) = n
  BY DEF CoversInOrder
<1>2. \A b \in 1..Len(new) : IsRun(new[b])
  BY <1>1
<1>3. FrontId(new[1]) = 1
  BY <1>1
<1>4. \A b \in 1..Len(new) - 1 : FrontId(new[b + 1]) = BackId(new[b]) + 1
  BY <1>1
<1> QED
  BY <1>1, <1>2, <1>3, <1>4 DEF CoversInOrder

(***************************************************************************)
(* Ids and sizes of the batches after the iteration that places test n + 1 *)
(* in the last batch, ...                                                  *)
(***************************************************************************)
Sized(bs, L, n, tot, sz, limit) ==
    /\ \A b \in 1..L : FrontId(bs[b]) \in 1..n /\ BackId(bs[b]) \in 1..n
    /\ \A b \in 1..L : Weight(tot, bs[b]) <= limit
    /\ \A b \in 1..L - 1 : Weight(tot, bs[b]) + sz[FrontId(bs[b + 1])] > limit

LEMMA GrowKeeps ==
    ASSUME NEW bs, NEW L \in Nat, L > 0, NEW n \in Nat,
           NEW tot, NEW sz, NEW limit \in Nat,
           Sized(bs, L, n, tot, sz, limit),
           NEW new, \A b \in 1..L - 1 : new[b] = bs[b],
           NEW x, new[L] = x, FrontId(x) = FrontId(bs[L]), BackId(x) = n + 1,
           Weight(tot, x) <= limit
    PROVE  Sized(new, L, n + 1, tot, sz, limit)
<1> USE DEF Sized
<1>1. ASSUME NEW b \in 1..L
      PROVE  /\ FrontId(new[b]) = FrontId(bs[b])
             /\ FrontId(new[b]) \in 1..n + 1 /\ BackId(new[b]) \in 1..n + 1
             /\ Weight(tot, new[b]) <= limit
  <2>1. CASE b = L
    BY <2>1
  <2>2. CASE b \in 1..L - 1
    <3>1. new[b] = bs[b]
      BY <2>2
    <3> QED
      BY <3>1
  <2> QED
    BY <2>1, <2>2
<1>2. ASSUME NEW b \in 1..L - 1
      PROVE  Weight(tot, new[b]) + sz[FrontId(new[b + 1])] > limit
  <2>1. FrontId(new[b + 1]) = FrontId(bs[b + 1])
    BY <1>1
  <2> QED
    BY <2>1
<1> QED
  BY <1>1, <1>2

(* ... and after the one that opens a batch for it. *)
LEMMA OpenKeeps ==
    ASSUME NEW bs, NEW L \in Nat, L > 0, NEW n \in Nat,
           NEW tot, NEW sz, NEW limit \in Nat,
           Sized(bs, L, n, tot, sz, limit),
           Weight(tot, bs[L]) + sz[n + 1] > limit,
           NEW new, \A b \in 1..L : new[b] = bs[b],
           NEW x, new[L + 1] = x, FrontId(x) = n + 1, BackId(x) = n + 1,
           Weight(tot, x) <= limit
    PROVE  Sized(new, L + 1, n + 1, tot, sz, limit)
<1> USE DEF Sized
<1>1. ASSUME NEW b \in 1..L + 1
      PROVE  /\ FrontId(new[b]) \in 1..n + 1 /\ BackId(new[b]) \in 1..n + 1
             /\ Weight(tot, new[b]) <= limit
  <2>1. CASE b = L + 1
    BY <2>1
  <2>2. CASE b \in 1..L
    BY <2>2
  <2> QED
    BY <2>1, <2>2
<1>2. ASSUME NEW b \in 1..L
      PROVE  Weight(tot, new[b]) + sz[FrontId(new[b + 1])] > limit
  <2>1. CASE b = L
    BY <2>1
  <2>2. CASE b \in 1..L - 1
    <3>1. new[b] = bs[b] /\ new[b + 1] = bs[b + 1]
      BY <2>2
    <3> QED
      BY <2>2, <3>1
  <2> QED
    BY <2>1, <2>2
<1> QED
  BY <1>1, <1>2

----------------------------------------------------------------------------
(***************************************************************************)
(* The recursive functions in SplitIntoBatches.  Induction is on a set of  *)
(* numbers, which the least-element theorem for well-founded relations     *)
(* gives, as a theorem about a predicate could not be applied.             *)
(***************************************************************************)
Less == {p \in Nat \X Nat : p[1] < p[2]}

LEMMA LessIsWellFounded == IsWellFoundedOn(Less, Nat)
  BY NatLessThanWellFounded, Zenon DEF OpToRel, Less

(* A set that holds 0 and with each number the next one, up to N. *)
LEMMA CountUp ==
    ASSUME NEW N \in Nat, NEW S, 0 \in S, \A n \in 1..N : n - 1 \in S => n \in S
    PROVE  0..N \subseteq S
<1> DEFINE T == (0..N) \ S
<1> SUFFICES ASSUME T # {} PROVE FALSE
  OBVIOUS
<1>1. PICK x \in T : \A y \in T : ~ (<<y, x>> \in Less)
  <2>1. T \subseteq Nat
    OBVIOUS
  <2> HIDE DEF T
  <2> QED
    BY <2>1, LessIsWellFounded, WFMin, Zenon
<1>2. x \in 1..N
  OBVIOUS
<1>3. x - 1 \in T
  BY <1>2
<1>4. <<x - 1, x>> \in Less
  BY <1>2 DEF Less
<1> QED
  BY <1>1, <1>3, <1>4

Iterates(f, c, g, m) == f[0] = c /\ \A n \in 1..m : f[n] = g[<<f[n - 1], n>>]

(* There is a function that takes each value from the one before it. *)
LEMMA Recursion ==
    ASSUME NEW S, NEW c \in S, NEW N \in Nat, NEW g \in [S \X (1..N) -> S]
    PROVE  \E f \in [0..N -> S] : Iterates(f, c, g, N)
<1> DEFINE T == {m \in 0..N : \E f \in [0..N -> S] : Iterates(f, c, g, m)}
<1>1. 0 \in T
  <2>1. [n \in 0..N |-> c] \in [0..N -> S] /\ Iterates([n \in 0..N |-> c], c, g, 0)
    BY DEF Iterates
  <2> QED
    BY <2>1
<1>2. ASSUME NEW k \in 1..N, k - 1 \in T PROVE k \in T
  <2>1. PICK f \in [0..N -> S] : Iterates(f, c, g, k - 1)
    BY <1>2
  <2> DEFINE h == [f EXCEPT ![k] = g[<<f[k - 1], k>>]]
  <2>2. k \in 0..N /\ k - 1 \in 0..N
    OBVIOUS
  <2>3. f[k - 1] \in S /\ g[<<f[k - 1], k>>] \in S
    BY <2>1, <2>2
  <2>4. h \in [0..N -> S]
    BY <2>2, <2>3
  <2>5. h[k] = g[<<f[k - 1], k>>] /\ \A n \in 0..(k - 1) : h[n] = f[n]
    BY <2>2
  <2> HIDE DEF h
  <2>6. ASSUME NEW n \in 1..k PROVE h[n] = g[<<h[n - 1], n>>]
    <3>1. CASE n = k
      BY <3>1, <2>5
    <3>2. CASE n \in 1..(k - 1)
      <4>1. n \in 0..(k - 1) /\ n - 1 \in 0..(k - 1)
        BY <3>2
      <4> QED
        BY <4>1, <3>2, <2>1, <2>5 DEF Iterates
    <3> QED
      BY <3>1, <3>2
  <2>7. h[0] = c
    BY <2>1, <2>5 DEF Iterates
  <2>8. Iterates(h, c, g, k)
    BY <2>6, <2>7 DEF Iterates
  <2> QED
    BY <2>4, <2>8, <2>2
<1> HIDE DEF T
<1>3. 0..N \subseteq T
  BY <1>1, <1>2, CountUp
<1>4. N \in T
  BY <1>3
<1> QED
  BY <1>4 DEF T

(* RaisedBatchSize is what its definition says: the first loop, iteration by iteration. *)
LEMMA RaisedSteps ==
    ASSUME NEW sizes \in Seq(Nat), NEW b \in Nat, NEW raised, raised = RaisedBatchSize(sizes, b)
    PROVE  /\ raised[0] = b
           /\ \A n \in 1..Len(sizes) : raised[n] = Larger(raised[n - 1], sizes[n])
<1> DEFINE N == Len(sizes)
           P(f) == f = [n \in 0..N |-> IF n = 0 THEN b ELSE Larger(f[n - 1], sizes[n])]
           g == [p \in Nat \X (1..N) |-> Larger(p[1], sizes[p[2]])]
<1>1. N \in Nat
  OBVIOUS
<1>2. g \in [Nat \X (1..N) -> Nat]
  BY DEF Larger
<1>3. PICK f \in [0..N -> Nat] : Iterates(f, b, g, N)
  <2> HIDE DEF g, N
  <2> QED
    BY <1>1, <1>2, Recursion
<1>4. \A n \in 1..N : f[n] = Larger(f[n - 1], sizes[n])
  <2> SUFFICES ASSUME NEW n \in 1..N PROVE f[n] = Larger(f[n - 1], sizes[n])
    OBVIOUS
  <2>1. n - 1 \in 0..N
    OBVIOUS
  <2>2. f[n - 1] \in Nat
    BY <2>1, <1>3
  <2> QED
    BY <2>2, <1>3 DEF Iterates
<1>5. P(f)
  BY <1>3, <1>4 DEF Iterates
<1>6. raised = CHOOSE h : P(h)
  BY Zenon DEF RaisedBatchSize
<1>7. P(raised)
  <2> HIDE DEF P
  <2> QED
    BY <1>5, <1>6
<1> QED
  BY <1>7

(* The raised limit is at least as large as every test. *)
LEMMA RaisedFacts ==
    ASSUME NEW sizes \in Seq(Nat), NEW b \in Nat, NEW raised, raised = RaisedBatchSize(sizes, b)
    PROVE  /\ \A n \in 0..Len(sizes) : raised[n] \in Nat
           /\ \A k \in 1..Len(sizes) : sizes[k] <= raised[Len(sizes)]
<1> DEFINE N == Len(sizes)
           T == {n \in 0..N : raised[n] \in Nat /\ \A k \in 1..n : sizes[k] <= raised[n]}
<1>1. raised[0] = b /\ \A n \in 1..N : raised[n] = Larger(raised[n - 1], sizes[n])
  BY RaisedSteps
<1>2. N \in Nat /\ \A k \in 1..N : sizes[k] \in Nat
  OBVIOUS
<1>3. 0 \in T
  BY <1>1, <1>2
<1>4. ASSUME NEW n \in 1..N, n - 1 \in T PROVE n \in T
  <2>1. raised[n - 1] \in Nat /\ sizes[n] \in Nat /\ raised[n] = Larger(raised[n - 1], sizes[n])
    BY <1>1, <1>2, <1>4
  <2>2. raised[n] \in Nat /\ raised[n] >= raised[n - 1] /\ raised[n] >= sizes[n]
    BY <2>1 DEF Larger
  <2>3. \A k \in 1..n : sizes[k] <= raised[n]
    <3> SUFFICES ASSUME NEW k \in 1..n PROVE sizes[k] <= raised[n]
      OBVIOUS
    <3>1. k = n \/ (k \in 1..(n - 1) /\ sizes[k] <= raised[n - 1])
      BY <1>4
    <3>2. sizes[k] \in Nat
      BY <1>2
    <3> QED
      BY <3>1, <3>2, <2>1, <2>2
  <2> QED
    BY <2>2, <2>3
<1> HIDE DEF T
<1>5. 0..N \subseteq T
  <2> HIDE DEF N
  <2> QED
    BY <1>2, <1>3, <1>4, CountUp
<1>6. N \in T
  BY <1>2, <1>5
<1> QED
  BY <1>5, <1>6 DEF T

(* The second loop: what it starts with, and one iteration. *)
NothingPlaced == [accumSize |-> 0, batches |-> << <<>> >>]

Placing(s, n, sizes, limit) ==
    [accumSize |-> Accum(s.accumSize, sizes[n], limit),
     batches |-> PutTest(s.batches, n, Fits(s.accumSize, sizes[n], limit))]

Placements == {s \in [accumSize : Nat, batches : Seq(Seq(Nat))] : Len(s.batches) > 0}

LEMMA NothingIsAPlacement == NothingPlaced \in Placements
<1>1. <<<<>>>> \in Seq(Seq(Nat)) /\ Len(<<<<>>>>) > 0
  OBVIOUS
<1> QED
  BY <1>1 DEF NothingPlaced, Placements

LEMMA PlacingType ==
    ASSUME NEW sizes \in Seq(Nat), NEW limit \in Nat, NEW s \in Placements, NEW n \in 1..Len(sizes)
    PROVE  Placing(s, n, sizes, limit) \in Placements
<1>1. /\ sizes[n] \in Nat /\ n \in Nat /\ s.accumSize \in Nat
      /\ s.batches \in Seq(Seq(Nat)) /\ Len(s.batches) > 0
  BY DEF Placements
<1>2. Accum(s.accumSize, sizes[n], limit) \in Nat
  BY <1>1 DEF Accum
<1>3. <<n>> \in Seq(Nat) /\ Append(s.batches[Len(s.batches)], n) \in Seq(Nat)
  BY <1>1
<1>4. Append(s.batches, <<n>>) \in Seq(Seq(Nat)) /\ Len(Append(s.batches, <<n>>)) > 0
  BY <1>1, <1>3
<1> DEFINE grown == [s.batches EXCEPT ![Len(s.batches)] = Append(s.batches[Len(s.batches)], n)]
<1>5. grown \in Seq(Seq(Nat)) /\ Len(grown) > 0
  BY <1>1, <1>3, ReplaceLast
<1>6. /\ PutTest(s.batches, n, Fits(s.accumSize, sizes[n], limit)) \in Seq(Seq(Nat))
      /\ Len(PutTest(s.batches, n, Fits(s.accumSize, sizes[n], limit))) > 0
  BY <1>4, <1>5 DEF PutTest
<1> QED
  BY <1>2, <1>6 DEF Placing, Placements

(* PlacedTests is the second loop, iteration by iteration. *)
LEMMA PlacedSteps ==
    ASSUME NEW sizes \in Seq(Nat), NEW limit \in Nat, NEW placed, placed = PlacedTests(sizes, limit)
    PROVE  /\ placed[0] = NothingPlaced
           /\ \A n \in 1..Len(sizes) : placed[n] = Placing(placed[n - 1], n, sizes, limit)
           /\ \A n \in 0..Len(sizes) : placed[n] \in Placements
<1> DEFINE N == Len(sizes)
           P(f) == f = [n \in 0..N |->
                          IF n = 0 THEN NothingPlaced ELSE Placing(f[n - 1], n, sizes, limit)]
           g == [p \in Placements \X (1..N) |-> Placing(p[1], p[2], sizes, limit)]
<1>1. N \in Nat /\ NothingPlaced \in Placements
  BY NothingIsAPlacement
<1>2. g \in [Placements \X (1..N) -> Placements]
  BY PlacingType
<1>3. PICK f \in [0..N -> Placements] : Iterates(f, NothingPlaced, g, N)
  <2> HIDE DEF g, N
  <2> QED
    BY <1>1, <1>2, Recursion
<1>4. \A n \in 1..N : f[n] = Placing(f[n - 1], n, sizes, limit)
  <2> SUFFICES ASSUME NEW n \in 1..N PROVE f[n] = Placing(f[n - 1], n, sizes, limit)
    OBVIOUS
  <2>1. n - 1 \in 0..N
    OBVIOUS
  <2>2. f[n - 1] \in Placements
    BY <2>1, <1>3
  <2> QED
    BY <2>2, <1>3 DEF Iterates
<1>5. P(f)
  BY <1>3, <1>4 DEF Iterates
<1>6. placed = CHOOSE h : P(h)
  BY Zenon DEF PlacedTests, Placing, NothingPlaced
<1>7. P(placed)
  <2> HIDE DEF P
  <2> QED
    BY <1>5, <1>6
<1>8. placed[0] = NothingPlaced /\ \A n \in 1..N : placed[n] = Placing(placed[n - 1], n, sizes, limit)
  <2>1. 0 \in 0..N /\ \A n \in 1..N : n \in 0..N /\ n # 0
    BY <1>1
  <2> HIDE DEF N
  <2> QED
    BY <1>7, <2>1, Zenon
<1>9. 0..N \subseteq {n \in 0..N : placed[n] \in Placements}
  <2> DEFINE T == {n \in 0..N : placed[n] \in Placements}
  <2>1. 0 \in T
    BY <1>1, <1>8
  <2>2. ASSUME NEW n \in 1..N, n - 1 \in T PROVE n \in T
    BY <2>2, <1>8, PlacingType
  <2> HIDE DEF T, N
  <2>3. 0..N \subseteq T
    BY <1>1, <2>1, <2>2, CountUp
  <2> QED
    BY <2>3 DEF T
<1> QED
  BY <1>8, <1>9

(* One iteration keeps the ids of the batches in order. *)
InOrder(bs, n) ==
    /\ CoversInOrder(bs, n)
    /\ n > 0 => \A b \in 1..Len(bs) : FrontId(bs[b]) \in 1..n /\ BackId(bs[b]) \in 1..n

LEMMA OpeningKeepsOrder ==
    ASSUME NEW bs \in Seq(Seq(Nat)), NEW n \in Nat, n > 0, InOrder(bs, n),
           NEW id \in Nat, id = n + 1, NEW new, new = Append(bs, <<id>>)
    PROVE  InOrder(new, id)
<1> PICK x : x = <<id>>
  OBVIOUS
<1>1. x \in Seq(Nat) /\ IsRun(x) /\ FrontId(x) = id /\ BackId(x) = id
  BY RunOfOne
<1>2. /\ new \in Seq(Seq(Nat)) /\ Len(new) = Len(bs) + 1
      /\ \A b \in 1..Len(bs) : new[b] = bs[b]
      /\ new[Len(bs) + 1] = x
  BY <1>1, AppendOne
<1>3. CoversInOrder(new, id)
  BY <1>1, <1>2, CoversOpens DEF InOrder
<1>4. ASSUME NEW b \in 1..Len(new) PROVE FrontId(new[b]) \in 1..id /\ BackId(new[b]) \in 1..id
  <2>1. CASE b = Len(bs) + 1
    BY <2>1, <1>1, <1>2
  <2>2. CASE b \in 1..Len(bs)
    BY <2>2, <1>2 DEF InOrder
  <2> QED
    BY <2>1, <2>2, <1>2
<1> QED
  BY <1>3, <1>4 DEF InOrder

LEMMA GrowingKeepsOrder ==
    ASSUME NEW bs \in Seq(Seq(Nat)), NEW n \in Nat, n > 0, InOrder(bs, n),
           NEW id \in Nat, id = n + 1,
           NEW new, new = [bs EXCEPT ![Len(bs)] = Append(bs[Len(bs)], id)]
    PROVE  InOrder(new, id)
<1> PICK L : L = Len(bs)
  OBVIOUS
<1>1. /\ L \in Nat /\ L > 0 /\ bs[L] \in Seq(Nat) /\ IsRun(bs[L]) /\ BackId(bs[L]) = n
      /\ FrontId(bs[L]) \in 1..n
  BY DEF InOrder, CoversInOrder
<1> PICK x : x = Append(bs[L], id)
  OBVIOUS
<1>2. x \in Seq(Nat) /\ IsRun(x) /\ FrontId(x) = FrontId(bs[L]) /\ BackId(x) = id
  BY <1>1, RunAppend
<1>3. /\ new \in Seq(Seq(Nat)) /\ Len(new) = L
      /\ \A b \in 1..L - 1 : new[b] = bs[b]
      /\ new[L] = x
  BY <1>1, <1>2, ReplaceLast
<1>4. CoversInOrder(new, id)
  BY <1>1, <1>2, <1>3, CoversFits DEF InOrder
<1>5. ASSUME NEW b \in 1..Len(new) PROVE FrontId(new[b]) \in 1..id /\ BackId(new[b]) \in 1..id
  <2>1. CASE b = L
    BY <2>1, <1>1, <1>2, <1>3
  <2>2. CASE b \in 1..L - 1
    <3>1. new[b] = bs[b] /\ b \in 1..L
      BY <2>2, <1>1, <1>3
    <3>2. FrontId(bs[b]) \in 1..n /\ BackId(bs[b]) \in 1..n
      BY <3>1 DEF InOrder
    <3> QED
      BY <3>1, <3>2
  <2> QED
    BY <2>1, <2>2, <1>1, <1>3
<1> QED
  BY <1>4, <1>5 DEF InOrder

LEMMA FirstKeepsOrder ==
    ASSUME NEW bs, InOrder(bs, 0), NEW new, new = [bs EXCEPT ![Len(bs)] = Append(bs[Len(bs)], 1)]
    PROVE  InOrder(new, 1)
<1>1. bs = << <<>> >>
  BY DEF InOrder, CoversInOrder
<1>2. new = << <<1>> >>
  BY <1>1
<1>3. InOrder(<< <<1>> >>, 1)
  BY RunOfOne DEF InOrder, CoversInOrder
<1> QED
  BY <1>2, <1>3, Zenon

LEMMA PlacingKeepsOrder ==
    ASSUME NEW bs \in Seq(Seq(Nat)), NEW n \in Nat, InOrder(bs, n), NEW fits,
           n = 0 => fits, NEW id \in Nat, id = n + 1, NEW new, new = PutTest(bs, id, fits)
    PROVE  InOrder(new, id)
<1>1. CASE fits
  <2>1. new = [bs EXCEPT ![Len(bs)] = Append(bs[Len(bs)], id)]
    BY <1>1, Zenon DEF PutTest
  <2>2. CASE n = 0
    <3>1. id = 1
      BY <2>2
    <3> QED
      BY <2>1, <2>2, <3>1, FirstKeepsOrder, Zenon
  <2>3. CASE n > 0
    BY <2>1, <2>3, GrowingKeepsOrder, Zenon
  <2> QED
    BY <2>2, <2>3
<1>2. CASE ~fits
  <2>1. new = Append(bs, <<id>>)
    BY <1>2, Zenon DEF PutTest
  <2>2. n # 0
    BY <1>2, Zenon
  <2>3. n > 0
    BY <2>2
  <2> QED
    BY <2>1, <2>3, OpeningKeepsOrder, Zenon
<1> QED
  BY <1>1, <1>2, Zenon

LEMMA PlacingFields ==
    ASSUME NEW a, NEW n, NEW sizes, NEW limit
    PROVE  /\ Placing(a, n, sizes, limit).accumSize = Accum(a.accumSize, sizes[n], limit)
           /\ Placing(a, n, sizes, limit).batches
                = PutTest(a.batches, n, Fits(a.accumSize, sizes[n], limit))
<1> PICK x : x = Accum(a.accumSize, sizes[n], limit)
  OBVIOUS
<1> PICK y : y = PutTest(a.batches, n, Fits(a.accumSize, sizes[n], limit))
  OBVIOUS
<1>1. Placing(a, n, sizes, limit) = [accumSize |-> x, batches |-> y]
  BY Zenon DEF Placing
<1>2. [accumSize |-> x, batches |-> y].accumSize = x /\ [accumSize |-> x, batches |-> y].batches = y
  OBVIOUS
<1> QED
  BY <1>1, <1>2, Zenon

(***************************************************************************)
(* The function SplitIntoBatches, for every list of tests and every batch  *)
(* size: non-empty runs that hold 1..n in order, as long as there is a     *)
(* test.  This is what the storage takes batches from.                     *)
(***************************************************************************)
THEOREM SplitIsInOrder ==
    ASSUME NEW sizes \in Seq(Nat), NEW b \in Nat
    PROVE  /\ SplitIntoBatches(sizes, b) \in Seq(Seq(Nat))
           /\ InOrder(SplitIntoBatches(sizes, b), Len(sizes))
<1> DEFINE N == Len(sizes)
           limit == RaisedBatchSize(sizes, b)[N]
           placed == PlacedTests(sizes, limit)
           T == {n \in 0..N : placed[n].accumSize <= limit /\ InOrder(placed[n].batches, n)}
<1>1. N \in Nat /\ limit \in Nat /\ \A k \in 1..N : sizes[k] \in Nat /\ sizes[k] <= limit
  BY RaisedFacts
<1> HIDE DEF limit
<1>2. /\ placed[0] = NothingPlaced
      /\ \A n \in 1..N : placed[n] = Placing(placed[n - 1], n, sizes, limit)
      /\ \A n \in 0..N : placed[n] \in Placements
  BY <1>1, PlacedSteps
<1> HIDE DEF placed
<1>3. 0 \in T
  BY <1>1, <1>2 DEF NothingPlaced, InOrder, CoversInOrder
<1>4. ASSUME NEW n \in 1..N, n - 1 \in T PROVE n \in T
  <2> DEFINE s == placed[n - 1]
  <2>1. n - 1 \in Nat /\ n \in 0..N /\ sizes[n] \in Nat /\ sizes[n] <= limit
    BY <1>1
  <2>2. /\ s.accumSize \in Nat /\ s.batches \in Seq(Seq(Nat))
        /\ s.accumSize <= limit /\ InOrder(s.batches, n - 1)
    BY <1>2, <1>4 DEF Placements
  <2>3. n - 1 = 0 => s.accumSize = 0
    BY <1>2 DEF NothingPlaced
  <2>4. /\ placed[n].accumSize = Accum(s.accumSize, sizes[n], limit)
        /\ placed[n].batches = PutTest(s.batches, n, Fits(s.accumSize, sizes[n], limit))
    <3>1. placed[n] = Placing(s, n, sizes, limit)
      BY <1>2
    <3> HIDE DEF s
    <3> QED
      BY <3>1, PlacingFields, ZenonT(60)
  <2> HIDE DEF s
  <2> DEFINE fits == Fits(s.accumSize, sizes[n], limit)
  <2>5. fits \in BOOLEAN /\ (n - 1 = 0 => fits)
    BY <2>1, <2>2, <2>3, <1>1 DEF Fits
  <2>6. Accum(s.accumSize, sizes[n], limit) <= limit
    BY <2>1, <2>2, <1>1 DEF Accum, Fits
  <2> HIDE DEF fits
  <2>7. n \in Nat /\ n = (n - 1) + 1
    OBVIOUS
  <2>8. placed[n].batches = PutTest(s.batches, n, fits)
    BY <2>4, Zenon DEF fits
  <2>9. InOrder(placed[n].batches, n)
    BY <2>1, <2>2, <2>5, <2>7, <2>8, PlacingKeepsOrder
  <2> QED
    BY <2>1, <2>4, <2>6, <2>9
<1> HIDE DEF T
<1>5. N \in T
  <2> HIDE DEF N
  <2>1. 0..N \subseteq T
    BY <1>1, <1>3, <1>4, CountUp
  <2> QED
    BY <2>1, <1>1
<1>6. SplitIntoBatches(sizes, b) = placed[N].batches
  BY DEF SplitIntoBatches, placed, limit
<1> QED
  BY <1>1, <1>2, <1>5, <1>6 DEF T, Placements

----------------------------------------------------------------------------
LEMMA InitLoop == Init => LoopInv
<1> SUFFICES ASSUME Init PROVE LoopInv
  OBVIOUS
<1>1. TypeOK
  BY InputsAssumption, BatchSizeAssumption DEF Init, TypeOK
<1>2. TotalInv /\ LimitInv
  BY <1>1 DEF Init, TypeOK, TotalInv, LimitInv
<1> QED
  BY <1>1, <1>2 DEF Init, LoopInv, IdsInv, AccumInv, BatchesPartitionTests, BatchesFit,
                    BatchesMaximal

LEMMA RaiseKeepsLoop == LoopInv /\ RaiseBatchSize => LoopInv'
<1> SUFFICES ASSUME LoopInv, RaiseBatchSize PROVE LoopInv'
  OBVIOUS
<1>1. /\ pc = "raise" /\ pc' = "raise" /\ TypeOK
      /\ size' = size /\ total' = total /\ i' = i + 1
  BY DEF LoopInv, RaiseBatchSize
<1>2. TypeOK'
  BY <1>1 DEF RaiseBatchSize, TypeOK, Larger
<1>3. TotalInv'
  BY <1>1 DEF LoopInv, TotalInv
<1>4. LimitInv'
  <2>1. /\ i \in Nat /\ i + 1 \in 1..Len(size)
        /\ batchSize \in Nat /\ batchSize' \in Nat
        /\ \A k \in 1..Len(size) : size[k] \in Nat
        /\ \A k \in 1..Len(size) : k <= i => size[k] <= batchSize
        /\ \/ batchSize = BatchSize
           \/ \E k \in 1..Len(size) : batchSize = size[k]
    BY <1>1, <1>2 DEF TypeOK, RaiseBatchSize, LoopInv, LimitInv
  <2>2. /\ batchSize' >= batchSize /\ batchSize' >= size[i + 1]
        /\ batchSize' = batchSize \/ batchSize' = size[i + 1]
    BY <2>1 DEF RaiseBatchSize, Larger
  <2>3. \A k \in 1..Len(size) : k <= i + 1 => size[k] <= batchSize'
    BY <2>1, <2>2
  <2> QED
    BY <1>1, <2>1, <2>2, <2>3 DEF LimitInv
<1> QED
  BY <1>1, <1>2, <1>3, <1>4
     DEF LoopInv, IdsInv, AccumInv, BatchesPartitionTests, BatchesFit, BatchesMaximal

LEMMA StartKeepsLoop == LoopInv /\ StartSplit => LoopInv'
<1> SUFFICES ASSUME LoopInv, StartSplit PROVE LoopInv'
  OBVIOUS
<1>1. /\ pc = "raise" /\ pc' = "split" /\ TypeOK /\ i = Len(size) /\ i' = 0
      /\ size' = size /\ total' = total /\ batchSize' = batchSize /\ accumSize' = 0
      /\ batches' = << <<>> >>
  BY DEF LoopInv, StartSplit
<1>2. TypeOK'
  BY <1>1 DEF TypeOK
<1>3. TotalInv'
  BY <1>1 DEF LoopInv, TotalInv
<1>4. LimitInv'
  BY <1>1 DEF LoopInv, LimitInv, TypeOK
<1>5. BatchesPartitionTests'
  BY <1>1 DEF BatchesPartitionTests, CoversInOrder
<1>6. AccumInv'
  BY <1>1 DEF AccumInv, TypeOK
<1> QED
  BY <1>1, <1>2, <1>3, <1>4, <1>5, <1>6 DEF LoopInv, IdsInv, BatchesFit, BatchesMaximal

LEMMA ReturnKeepsLoop == LoopInv /\ Return => LoopInv'
  BY DEF Return, LoopInv, TypeOK, IdsInv, TotalInv, LimitInv, AccumInv,
         BatchesPartitionTests, BatchesFit, BatchesMaximal

(***************************************************************************)
(* The iteration that places a test.  The two cases - the test fits, or it *)
(* opens a batch - are told apart by the shape they give to batches'.      *)
(***************************************************************************)
LEMMA PlaceTotals ==
    ASSUME LoopInv, PlaceTest
    PROVE  /\ total' \in Seq(Nat) /\ Len(total) = i + 1 /\ Len(total') = i + 2
           /\ total'[i + 2] = total[i + 1] + size[i + 1]
           /\ \A k \in 1..i + 1 : total'[k] = total[k] /\ total[k] \in Nat
           /\ TotalInv'
<1>1. /\ pc = "split" /\ pc' = "split" /\ size' = size /\ i' = i + 1 /\ i \in Nat
      /\ total \in Seq(Nat) /\ size[i + 1] \in Nat /\ Len(total) = i + 1
      /\ total[1] = 0 /\ \A k \in 1..i : total[k + 1] = total[k] + size[k]
  BY DEF LoopInv, TypeOK, PlaceTest, TotalInv
<1>2. total' = Append(total, total[i + 1] + size[i + 1])
  BY DEF PlaceTest
<1>3. /\ total' \in Seq(Nat) /\ Len(total') = i + 2
      /\ total'[i + 2] = total[i + 1] + size[i + 1]
      /\ \A k \in 1..i + 1 : total'[k] = total[k] /\ total[k] \in Nat
  BY <1>1, <1>2
<1>4. ASSUME NEW k \in 1..i + 1 PROVE total'[k + 1] = total'[k] + size[k]
  <2>1. CASE k = i + 1
    BY <2>1, <1>1, <1>3
  <2>2. CASE k \in 1..i
    BY <2>2, <1>1, <1>3
  <2> QED
    BY <2>1, <2>2, <1>1
<1>5. TotalInv'
  BY <1>1, <1>3, <1>4 DEF TotalInv
<1> QED
  BY <1>1, <1>3, <1>5

(* The first test: batches is the one empty batch SplitIntoBatches starts with. *)
LEMMA PlaceFirst ==
    ASSUME LoopInv, PlaceTest, i = 0
    PROVE  LoopInv'
<1>1. /\ pc' = "split" /\ i' = 1 /\ size' = size /\ batchSize' = batchSize
      /\ TypeOK /\ size[1] \in Nat /\ size[1] <= batchSize /\ 1 \in 1..Len(size)
      /\ batches = << <<>> >> /\ accumSize = 0
  BY DEF LoopInv, TypeOK, PlaceTest, LimitInv, AccumInv, BatchesPartitionTests, CoversInOrder
<1> DEFINE x == <<1>>
<1>2. batches' = <<x>> /\ accumSize' = size[1]
  BY <1>1 DEF PlaceTest, Fits, Accum, PutTest, TypeOK
<1>3. x \in Seq(Nat) /\ IsRun(x) /\ FrontId(x) = 1 /\ BackId(x) = 1
  BY RunOfOne
<1> HIDE DEF x
<1>4. batches' \in Seq(Seq(Nat)) /\ Len(batches') = 1 /\ batches'[1] = x
  BY <1>2, <1>3
<1>5. /\ total' \in Seq(Nat) /\ TotalInv' /\ Weight(total', x) = size[1]
  <2>1. total' \in Seq(Nat) /\ TotalInv' /\ total'[2] = total[1] + size[1]
        /\ total'[1] = total[1] /\ total[1] = 0
    BY PlaceTotals DEF LoopInv, TotalInv
  <2> QED
    BY <2>1, <1>1, <1>3 DEF Weight
<1>6. TypeOK'
  BY <1>1, <1>2, <1>4, <1>5 DEF TypeOK
<1>7. LimitInv' /\ IdsInv' /\ AccumInv'
  <2>1. LimitInv'
    BY <1>1 DEF LoopInv, LimitInv, PlaceTest
  <2>2. IdsInv'
    BY <1>1, <1>3, <1>4 DEF IdsInv
  <2>3. AccumInv'
    BY <1>1, <1>2, <1>4, <1>5 DEF AccumInv
  <2> QED
    BY <2>1, <2>2, <2>3
<1>8. BatchesPartitionTests'
  BY <1>1, <1>3, <1>4 DEF BatchesPartitionTests, CoversInOrder
<1>9. BatchesFit' /\ BatchesMaximal'
  BY <1>1, <1>4, <1>5, <1>7 DEF BatchesFit, BatchesMaximal, LimitInv
<1> QED
  BY <1>5, <1>6, <1>7, <1>8, <1>9 DEF LoopInv

(***************************************************************************)
(* What holds for every later test, whichever batch it goes to.            *)
(***************************************************************************)
LEMMA PlaceLater ==
    ASSUME LoopInv, PlaceTest, i > 0
    PROVE  /\ pc' = "split" /\ i' = i + 1 /\ size' = size /\ batchSize' = batchSize
           /\ i \in Nat /\ i + 1 \in 1..Len(size) /\ size \in Seq(Nat) /\ size[i + 1] \in Nat
           /\ batchSize \in Nat /\ accumSize \in Nat /\ batches \in Seq(Seq(Nat))
           /\ size[i + 1] <= batchSize
           /\ accumSize = Weight(total, batches[Len(batches)])
           /\ Len(batches) \in Nat /\ Len(batches) > 0
           /\ CoversInOrder(batches, i)
           /\ BackId(batches[Len(batches)]) = i
           /\ \A b \in 1..Len(batches) :
                 /\ FrontId(batches[b]) \in 1..i /\ BackId(batches[b]) \in 1..i
                 /\ batches[b] \in Seq(Nat) /\ IsRun(batches[b])
           /\ \A b \in 1..Len(batches) :
                 /\ Weight(total', batches[b]) = Weight(total, batches[b])
                 /\ Weight(total', batches[b]) <= batchSize
           /\ \A b \in 1..Len(batches) - 1 :
                 Weight(total', batches[b]) + size[FrontId(batches[b + 1])] > batchSize
           /\ LimitInv'
<1>1. /\ pc = "split" /\ pc' = "split" /\ i' = i + 1 /\ size' = size /\ batchSize' = batchSize
      /\ i \in Nat /\ i + 1 \in 1..Len(size) /\ size \in Seq(Nat) /\ size[i + 1] \in Nat
      /\ batchSize \in Nat /\ accumSize \in Nat
  <2>1. i \in Nat /\ size \in Seq(Nat) /\ batchSize \in Nat /\ accumSize \in Nat
    BY DEF LoopInv, TypeOK
  <2>2. /\ pc = "split" /\ pc' = "split" /\ i' = i + 1 /\ size' = size /\ batchSize' = batchSize
        /\ i < Len(size)
    BY DEF PlaceTest
  <2>3. i + 1 \in 1..Len(size)
    BY <2>1, <2>2
  <2>4. size[i + 1] \in Nat
    BY <2>1, <2>3
  <2> QED
    BY <2>1, <2>2, <2>3, <2>4
<1>2. batches \in Seq(Seq(Nat)) /\ CoversInOrder(batches, i) /\ Len(batches) \in Nat
  BY <1>1 DEF LoopInv, TypeOK, BatchesPartitionTests
<1>3. /\ Len(batches) > 0 /\ BackId(batches[Len(batches)]) = i
      /\ \A b \in 1..Len(batches) : IsRun(batches[b])
  BY <1>2 DEF CoversInOrder
<1>4. /\ size[i + 1] <= batchSize /\ LimitInv'
  BY <1>1 DEF LoopInv, LimitInv
<1>5. accumSize = Weight(total, batches[Len(batches)])
  BY <1>1 DEF LoopInv, AccumInv
<1>6. \A b \in 1..Len(batches) : /\ FrontId(batches[b]) \in 1..i /\ BackId(batches[b]) \in 1..i
                                 /\ Weight(total, batches[b]) <= batchSize
  BY <1>1 DEF LoopInv, IdsInv, BatchesFit
<1>7. \A b \in 1..Len(batches) - 1 :
          Weight(total, batches[b]) + size[FrontId(batches[b + 1])] > batchSize
  BY <1>1 DEF LoopInv, BatchesMaximal
<1>8. \A b \in 1..Len(batches) : batches[b] \in Seq(Nat)
  BY <1>2
<1>9. \A b \in 1..Len(batches) : Weight(total', batches[b]) = Weight(total, batches[b])
  <2>1. \A k \in 1..i + 1 : total'[k] = total[k]
    BY PlaceTotals
  <2> QED
    BY <2>1, <1>1, <1>6 DEF Weight
<1>10. \A b \in 1..Len(batches) : Weight(total', batches[b]) <= batchSize
  BY <1>6, <1>9
<1>11. \A b \in 1..Len(batches) - 1 :
          Weight(total', batches[b]) + size[FrontId(batches[b + 1])] > batchSize
  <2>1. \A b \in 1..Len(batches) - 1 : b \in 1..Len(batches)
    BY <1>2
  <2> QED
    BY <1>7, <1>9, <2>1
<1> QED
  BY <1>1, <1>2, <1>3, <1>4, <1>5, <1>6, <1>8, <1>9, <1>10, <1>11

(* A later test that fits: the last batch grows. *)
LEMMA PlaceFits ==
    ASSUME LoopInv, PlaceTest, i > 0, accumSize + size[i + 1] <= batchSize
    PROVE  LoopInv'
<1> DEFINE L == Len(batches)
           x == Append(batches[L], i + 1)
           w == size[i + 1]
<1>1. /\ pc' = "split" /\ i' = i + 1 /\ size' = size /\ batchSize' = batchSize
      /\ i \in Nat /\ i + 1 \in 1..Len(size) /\ size \in Seq(Nat) /\ w \in Nat
      /\ batchSize \in Nat /\ accumSize \in Nat /\ L \in Nat /\ L > 0
      /\ accumSize + w <= batchSize
  BY PlaceLater
<1>2. /\ batches \in Seq(Seq(Nat)) /\ CoversInOrder(batches, i) /\ LimitInv'
      /\ accumSize = Weight(total, batches[L]) /\ BackId(batches[L]) = i
  BY PlaceLater
<1>3. batches[L] \in Seq(Nat) /\ IsRun(batches[L]) /\ FrontId(batches[L]) \in 1..i
  BY <1>1, PlaceLater
<1>4. /\ total' \in Seq(Nat) /\ TotalInv' /\ total'[i + 2] = total[i + 1] + w
      /\ \A k \in 1..i + 1 : total'[k] = total[k] /\ total[k] \in Nat
  BY PlaceTotals
<1>5. batches' = [batches EXCEPT ![L] = x] /\ accumSize' = accumSize + w
  BY DEF PlaceTest, Fits, Accum, PutTest
<1>6. x \in Seq(Nat) /\ IsRun(x) /\ FrontId(x) = FrontId(batches[L]) /\ BackId(x) = i + 1
  <2>1. i + 1 \in Nat /\ i + 1 = BackId(batches[L]) + 1
    BY <1>1, <1>2
  <2> QED
    BY <2>1, <1>3, RunAppend
<1> HIDE DEF x, w
<1>7. /\ batches' \in Seq(Seq(Nat)) /\ Len(batches') = L
      /\ \A b \in 1..L - 1 : batches'[b] = batches[b]
      /\ batches'[L] = x
  BY <1>1, <1>2, <1>5, <1>6, ReplaceLast, SMTT(60)
<1>8. Weight(total', x) = accumSize + w
  <2>1. FrontId(batches[L]) \in 1..i + 1
    BY <1>1, <1>3
  <2>2. total'[FrontId(x)] = total[FrontId(batches[L])] /\ total[FrontId(batches[L])] \in Nat
    BY <1>4, <1>6, <2>1
  <2>3. accumSize = total[i + 1] - total[FrontId(batches[L])] /\ total[i + 1] \in Nat
    BY <1>1, <1>2, <1>4 DEF Weight
  <2>4. Weight(total', x) = total'[i + 2] - total'[FrontId(x)]
    BY <1>1, <1>6 DEF Weight
  <2>5. total'[i + 2] = total[i + 1] + w /\ w \in Nat
    BY <1>1, <1>4
  <2> QED
    BY <2>2, <2>3, <2>4, <2>5
<1>9. Sized(batches, L, i, total', size, batchSize)
  BY PlaceLater DEF Sized
<1>10. Sized(batches', L, i + 1, total', size, batchSize)
  <2>1. Weight(total', x) <= batchSize
    BY <1>1, <1>8
  <2> QED
    BY <1>1, <1>6, <1>7, <1>9, <2>1, GrowKeeps
<1>11. TypeOK'
  <2>1. accumSize' \in Nat /\ i' \in 0..Len(size')
    BY <1>1, <1>5
  <2> QED
    BY <1>1, <1>4, <1>7, <2>1 DEF TypeOK
<1>12. IdsInv'
  BY <1>1, <1>7, <1>10 DEF IdsInv, Sized
<1>13. AccumInv'
  <2>1. accumSize' <= batchSize' /\ i' > 0
    BY <1>1, <1>5
  <2>2. accumSize' = Weight(total', batches'[Len(batches')])
    BY <1>5, <1>7, <1>8
  <2> QED
    BY <2>1, <2>2 DEF AccumInv
<1>14. BatchesPartitionTests'
  <2>1. CoversInOrder(batches', i + 1)
    BY <1>1, <1>2, <1>6, <1>7, CoversFits
  <2> QED
    BY <1>1, <2>1 DEF BatchesPartitionTests
<1>15. BatchesFit'
  BY <1>1, <1>2, <1>7, <1>10 DEF BatchesFit, LimitInv, Sized
<1>16. BatchesMaximal'
  BY <1>1, <1>7, <1>10 DEF BatchesMaximal, Sized
<1> QED
  BY <1>2, <1>4, <1>11, <1>12, <1>13, <1>14, <1>15, <1>16 DEF LoopInv

(* A later test that does not fit: it opens a batch. *)
LEMMA PlaceOpens ==
    ASSUME LoopInv, PlaceTest, i > 0, ~(accumSize + size[i + 1] <= batchSize)
    PROVE  LoopInv'
<1> DEFINE L == Len(batches)
           x == <<i + 1>>
           w == size[i + 1]
<1>1. /\ pc' = "split" /\ i' = i + 1 /\ size' = size /\ batchSize' = batchSize
      /\ i \in Nat /\ i + 1 \in 1..Len(size) /\ size \in Seq(Nat) /\ w \in Nat
      /\ batchSize \in Nat /\ accumSize \in Nat /\ w <= batchSize /\ L \in Nat /\ L > 0
      /\ accumSize + w > batchSize /\ w = size[i + 1]
  BY PlaceLater
<1>2. batches \in Seq(Seq(Nat)) /\ CoversInOrder(batches, i) /\ LimitInv'
  BY PlaceLater
<1>3. accumSize = Weight(total', batches[L])
  BY <1>1, PlaceLater
<1>4. /\ total' \in Seq(Nat) /\ TotalInv' /\ total'[i + 2] = total[i + 1] + w
      /\ total'[i + 1] = total[i + 1] /\ total[i + 1] \in Nat
  BY <1>1, PlaceTotals
<1>5. batches' = Append(batches, x) /\ accumSize' = w
  BY DEF PlaceTest, Fits, Accum, PutTest
<1>6. x \in Seq(Nat) /\ IsRun(x) /\ FrontId(x) = i + 1 /\ BackId(x) = i + 1
  BY <1>1, RunOfOne
<1> HIDE DEF x, w
<1>7. /\ batches' \in Seq(Seq(Nat)) /\ Len(batches') = L + 1
      /\ \A b \in 1..L : batches'[b] = batches[b]
      /\ batches'[L + 1] = x
  BY <1>1, <1>2, <1>5, <1>6, AppendOne
<1>8. Weight(total', x) = w
  <2>1. Weight(total', x) = total'[i + 2] - total'[i + 1]
    BY <1>1, <1>6 DEF Weight
  <2>2. w \in Nat
    BY <1>1
  <2> QED
    BY <1>4, <2>1, <2>2
<1>9. Sized(batches, L, i, total', size, batchSize)
  BY PlaceLater DEF Sized
<1>10. Sized(batches', L + 1, i + 1, total', size, batchSize)
  <2>1. Weight(total', x) <= batchSize /\ Weight(total', batches[L]) + size[i + 1] > batchSize
    BY <1>1, <1>3, <1>8
  <2> QED
    BY <1>1, <1>6, <1>7, <1>9, <2>1, OpenKeeps
<1>11. TypeOK'
  <2>1. accumSize' \in Nat /\ i' \in 0..Len(size')
    BY <1>1, <1>5
  <2> QED
    BY <1>1, <1>4, <1>7, <2>1 DEF TypeOK
<1>12. IdsInv'
  BY <1>1, <1>7, <1>10 DEF IdsInv, Sized
<1>13. AccumInv'
  <2>1. accumSize' <= batchSize' /\ i' > 0
    BY <1>1, <1>5
  <2>2. accumSize' = Weight(total', batches'[Len(batches')])
    BY <1>5, <1>7, <1>8
  <2> QED
    BY <2>1, <2>2 DEF AccumInv
<1>14. BatchesPartitionTests'
  <2>1. CoversInOrder(batches', i + 1)
    BY <1>1, <1>2, <1>6, <1>7, CoversOpens
  <2> QED
    BY <1>1, <2>1 DEF BatchesPartitionTests
<1>15. BatchesFit'
  BY <1>1, <1>2, <1>7, <1>10 DEF BatchesFit, LimitInv, Sized
<1>16. BatchesMaximal'
  BY <1>1, <1>7, <1>10 DEF BatchesMaximal, Sized
<1> QED
  BY <1>2, <1>4, <1>11, <1>12, <1>13, <1>14, <1>15, <1>16 DEF LoopInv

----------------------------------------------------------------------------
(* One iteration of either loop. *)
LEMMA LoopStep == LoopInv /\ [Next]_vars => LoopInv'
<1>1. LoopInv /\ UNCHANGED vars => LoopInv'
  BY DEF vars, LoopInv, TypeOK, IdsInv, TotalInv, LimitInv, AccumInv,
         BatchesPartitionTests, BatchesFit, BatchesMaximal
<1>2. LoopInv /\ PlaceTest => LoopInv'
  <2>1. LoopInv => i \in Nat
    BY DEF LoopInv, TypeOK
  <2> QED
    BY <2>1, PlaceFirst, PlaceFits, PlaceOpens
<1> QED
  BY <1>1, <1>2, RaiseKeepsLoop, StartKeepsLoop, ReturnKeepsLoop DEF Next

LEMMA LoopInvariant == Spec => []LoopInv
  BY InitLoop, LoopStep, PTL DEF Spec

(* The loops keep their variables' types for every input (SplitIntoBatches). *)
THEOREM LoopTypes == Spec => []TypeOK
<1>1. LoopInv => TypeOK
  BY DEF LoopInv
<1> QED
  BY LoopInvariant, <1>1, PTL

(***************************************************************************)
(* For every list of tests and every batch size the batches are the ids    *)
(* 1..n in order, cut into non-empty runs: GetTaskBatch may compute with   *)
(* front() and back() as soon as there is one test.                        *)
(***************************************************************************)
THEOREM SplitPartitions == Spec => []BatchesPartitionTests
<1>1. LoopInv => BatchesPartitionTests
  BY DEF LoopInv
<1> QED
  BY LoopInvariant, <1>1, PTL

(* No batch of SplitIntoBatches outgrows the limit, whatever the input. *)
THEOREM SplitFits == Spec => []BatchesFit
<1>1. LoopInv => BatchesFit
  BY DEF LoopInv
<1> QED
  BY LoopInvariant, <1>1, PTL

(* SplitIntoBatches never closes a batch into which the next test still fits. *)
THEOREM SplitMaximal == Spec => []BatchesMaximal
<1>1. LoopInv => BatchesMaximal
  BY DEF LoopInv
<1> QED
  BY LoopInvariant, <1>1, PTL

----------------------------------------------------------------------------
(* The loops are where the function is after as many iterations. *)
FunctionInv ==
    /\ pc = "raise" => batchSize = RaisedBatchSize(size, BatchSize)[i]
    /\ pc # "raise" => /\ batchSize = RaisedBatchSize(size, BatchSize)[Len(size)]
                       /\ accumSize = PlacedTests(size, batchSize)[i].accumSize
                       /\ batches = PlacedTests(size, batchSize)[i].batches
    /\ pc = "done" => i = Len(size)

LEMMA InitFunction == Init => FunctionInv
<1> SUFFICES ASSUME Init PROVE FunctionInv
  OBVIOUS
<1>1. size \in Seq(Nat) /\ BatchSize \in Nat
  BY InputsAssumption, BatchSizeAssumption DEF Init
<1>2. RaisedBatchSize(size, BatchSize)[0] = BatchSize
  BY <1>1, RaisedSteps
<1> QED
  BY <1>2 DEF Init, FunctionInv

LEMMA FunctionStep == ASSUME LoopInv, FunctionInv, [Next]_vars PROVE FunctionInv'
<1>1. size \in Seq(Nat) /\ batchSize \in Nat /\ i \in 0..Len(size) /\ BatchSize \in Nat /\ Len(size) \in Nat
  BY BatchSizeAssumption DEF LoopInv, TypeOK
<1>2. CASE RaiseBatchSize
  <2>1. /\ pc = "raise" /\ pc' = "raise" /\ size' = size /\ i' = i + 1 /\ i' \in 1..Len(size)
        /\ batchSize' = Larger(batchSize, size[i'])
    BY <1>1, <1>2 DEF RaiseBatchSize
  <2>2. RaisedBatchSize(size, BatchSize)[i'] = Larger(RaisedBatchSize(size, BatchSize)[i' - 1], size[i'])
    BY <1>1, <2>1, RaisedSteps
  <2>3. i' - 1 = i
    BY <1>1, <2>1
  <2>4. batchSize = RaisedBatchSize(size, BatchSize)[i]
    BY <2>1 DEF FunctionInv
  <2> QED
    BY <2>1, <2>2, <2>3, <2>4 DEF FunctionInv
<1>3. CASE StartSplit
  <2>1. /\ pc = "raise" /\ pc' = "split" /\ size' = size /\ i = Len(size) /\ i' = 0
        /\ batchSize' = batchSize /\ accumSize' = 0 /\ batches' = << <<>> >>
    BY <1>3 DEF StartSplit
  <2>2. PlacedTests(size, batchSize)[0] = NothingPlaced
    BY <1>1, PlacedSteps
  <2> QED
    BY <2>1, <2>2 DEF FunctionInv, NothingPlaced
<1>4. CASE PlaceTest
  <2>1. /\ pc = "split" /\ pc' = "split" /\ size' = size /\ i' = i + 1 /\ i' \in 1..Len(size)
        /\ batchSize' = batchSize
        /\ accumSize' = Accum(accumSize, size[i'], batchSize)
        /\ batches' = PutTest(batches, i', Fits(accumSize, size[i'], batchSize))
    BY <1>1, <1>4 DEF PlaceTest
  <2>2. PlacedTests(size, batchSize)[i'] = Placing(PlacedTests(size, batchSize)[i' - 1], i', size, batchSize)
    BY <1>1, <2>1, PlacedSteps
  <2>3. i' - 1 = i
    BY <1>1, <2>1
  <2>4. /\ accumSize = PlacedTests(size, batchSize)[i].accumSize
        /\ batches = PlacedTests(size, batchSize)[i].batches
        /\ batchSize = RaisedBatchSize(size, BatchSize)[Len(size)]
    BY <2>1 DEF FunctionInv
  <2>5. /\ accumSize' = PlacedTests(size, batchSize)[i'].accumSize
        /\ batches' = PlacedTests(size, batchSize)[i'].batches
    BY <2>1, <2>2, <2>3, <2>4 DEF Placing
  <2> QED
    BY <2>1, <2>4, <2>5 DEF FunctionInv
<1>5. CASE Return
  BY <1>5 DEF Return, FunctionInv
<1>6. CASE UNCHANGED vars
  BY <1>6 DEF vars, FunctionInv
<1> QED
  BY <1>2, <1>3, <1>4, <1>5, <1>6 DEF Next

LEMMA FunctionInvariant == Spec => [](LoopInv /\ FunctionInv)
<1>1. LoopInv /\ FunctionInv /\ [Next]_vars => LoopInv' /\ FunctionInv'
  BY LoopStep, FunctionStep
<1> QED
  BY InitLoop, InitFunction, <1>1, PTL DEF Spec

LEMMA FunctionMeans == FunctionInv => LoopIsSplit
  BY DEF FunctionInv, LoopIsSplit, SplitIntoBatches

(***************************************************************************)
(* The two loops return what the function SplitIntoBatches says, for every *)
(* list of tests and every batch size: what is proved of one holds of the  *)
(* other.                                                                  *)
(***************************************************************************)
THEOREM LoopsComputeSplit == Spec => []LoopIsSplit
  BY FunctionInvariant, FunctionMeans, PTL

----------------------------------------------------------------------------
PartSet(parts) == {parts[p] : p \in DOMAIN parts}

(***************************************************************************)
(* The invariant: the handler object keeps its request, the status is what *)
(* Parse says of it, and the tests are only split after that.              *)
(***************************************************************************)
HandleInv ==
    /\ req \in Requests
    /\ status # 0 => status = Parse(req)
    /\ LoopInv
    /\ FunctionInv

----------------------------------------------------------------------------
(* The parts of a request. *)

(* There are 2 * n + 1 names for the parts of n tests. *)
LEMMA ExpectedPartsCount ==
    ASSUME NEW n \in Nat
    PROVE  IsFiniteSet(ExpectedParts(n)) /\ Cardinality(ExpectedParts(n)) = 2 * n + 1
<1> DEFINE types == {"input", "output"}
           files == (1..n) \X types
<1>1. IsFiniteSet(1..n) /\ Cardinality(1..n) = n
  BY FS_Interval
<1>2. IsFiniteSet(types) /\ Cardinality(types) = 2
  <2>1. types = {"input"} \cup {"output"} /\ "output" \notin {"input"}
    OBVIOUS
  <2>2. IsFiniteSet({"input"}) /\ Cardinality({"input"}) = 1
    BY FS_Singleton
  <2> HIDE DEF types
  <2>3. IsFiniteSet(types) /\ Cardinality(types) = Cardinality({"input"}) + 1
    BY <2>1, <2>2, FS_AddElement
  <2> QED
    BY <2>2, <2>3
<1>3. IsFiniteSet(files) /\ Cardinality(files) = n * 2
  <2> HIDE DEF types
  <2>1. IsFiniteSet(files) /\ Cardinality(files) = Cardinality(1..n) * Cardinality(types)
    BY <1>1, <1>2, FS_Product, Zenon
  <2> HIDE DEF files
  <2> QED
    BY <1>1, <1>2, <2>1
<1>4. ExpectedParts(n) = files \cup {TaskDataPart}
  BY DEF ExpectedParts, TestPart
<1>5. TaskDataPart \notin files
  BY DEF TaskDataPart
<1> HIDE DEF files
<1> QED
  BY <1>3, <1>4, <1>5, FS_AddElement

(* A list has no more different parts than it is long. *)
LEMMA PartSetBound ==
    ASSUME NEW S, NEW parts \in Seq(S)
    PROVE  /\ IsFiniteSet(PartSet(parts)) /\ Cardinality(PartSet(parts)) \in Nat
           /\ Cardinality(PartSet(parts)) <= Len(parts)
<1>1. Len(parts) \in Nat /\ DOMAIN parts = 1..Len(parts)
  OBVIOUS
<1>2. parts \in Surjection(1..Len(parts), PartSet(parts))
  BY <1>1 DEF PartSet, Surjection
<1>3. IsFiniteSet(1..Len(parts)) /\ Cardinality(1..Len(parts)) = Len(parts)
  BY <1>1, FS_Interval
<1>4. IsFiniteSet(PartSet(parts)) /\ Cardinality(PartSet(parts)) <= Cardinality(1..Len(parts))
  BY <1>2, <1>3, FS_Surjection
<1> QED
  BY <1>3, <1>4, FS_CardinalityType

(***************************************************************************)
(* Counting is enough: if all expected parts are there and no more parts   *)
(* than these, then none is there twice and there is no other.             *)
(***************************************************************************)
LEMMA CountingIsEnough ==
    ASSUME NEW S, NEW parts \in Seq(S), NEW n \in Nat, Len(parts) <= 2 * n + 1,
           ExpectedParts(n) \subseteq PartSet(parts)
    PROVE  Len(parts) = 2 * n + 1 /\ PartSet(parts) = ExpectedParts(n)
<1>1. /\ IsFiniteSet(PartSet(parts)) /\ Cardinality(PartSet(parts)) \in Nat
      /\ Cardinality(PartSet(parts)) <= Len(parts) /\ Len(parts) \in Nat
  BY PartSetBound
<1>2. Cardinality(ExpectedParts(n)) = 2 * n + 1
  BY ExpectedPartsCount
<1>3. /\ Cardinality(ExpectedParts(n)) <= Cardinality(PartSet(parts))
      /\ Cardinality(PartSet(parts)) = Cardinality(ExpectedParts(n)) => PartSet(parts) = ExpectedParts(n)
  BY <1>1, FS_Subset
<1>4. Len(parts) = 2 * n + 1 /\ Cardinality(PartSet(parts)) = 2 * n + 1
  BY <1>1, <1>2, <1>3
<1> QED
  BY <1>2, <1>3, <1>4

(* What Parse asks for, as a set of parts. *)
LEMMA HasPartMeans ==
    ASSUME NEW r, NEW n
    PROVE  /\ \A part : HasPart(r, part) <=> part \in PartSet(r.parts)
           /\ ExpectedParts(n) \subseteq PartSet(r.parts) <=>
                 /\ HasPart(r, TaskDataPart)
                 /\ \A id \in 1..n, type \in {"input", "output"} : HasPart(r, TestPart(id, type))
<1>1. \A part : HasPart(r, part) <=> part \in PartSet(r.parts)
  BY DEF HasPart, PartSet
<1> QED
  BY <1>1 DEF ExpectedParts

(* The number of tests, from the number of parts. *)
LEMMA TestCountFacts ==
    ASSUME NEW r, r.parts \in Seq(Nat \X STRING)
    PROVE  /\ TestCount(r) \in Nat /\ Len(r.parts) \in Nat
           /\ TestCount(r) <= Len(r.parts)
           /\ Len(r.parts) <= 2 * TestCount(r) + 1
           /\ \A n \in Nat : Len(r.parts) = 2 * n + 1 => n = TestCount(r)
<1>1. Len(r.parts) \in Nat
  OBVIOUS
<1>2. \A len \in Nat : /\ len \div 2 \in Nat /\ len \div 2 <= len /\ len <= 2 * (len \div 2) + 1
                       /\ \A n \in Nat : len = 2 * n + 1 => n = len \div 2
  OBVIOUS
<1> QED
  BY <1>1, <1>2 DEF TestCount

----------------------------------------------------------------------------
(* Parse *)

JSONAccepted(text) == "taskId" \in DOMAIN text.fields /\ text.fields["taskId"] = "number"

LEMMA JSONFacts ==
    ASSUME NEW text \in JSONTexts
    PROVE  JSONAccepted(text) <=> ~ParseJSONFails(text, {"taskId"}) /\ text.fields["taskId"] = "number"
<1>1. text.discarded \in BOOLEAN
  BY DEF JSONTexts
<1>2. text.discarded => DOMAIN text.fields = {}
  <2> SUFFICES ASSUME text.discarded = TRUE PROVE DOMAIN text.fields = {}
    BY <1>1
  <2>1. text \in [discarded : {TRUE}, fields : {<<>>}]
    BY DEF JSONTexts
  <2>2. text.fields = <<>>
    BY <2>1
  <2>3. DOMAIN <<>> = {}
    OBVIOUS
  <2> QED
    BY <2>2, <2>3
<1>3. FindMissingJSONFields({"taskId"}, text) # {} <=> "taskId" \notin DOMAIN text.fields
  BY DEF FindMissingJSONFields
<1> QED
  BY <1>1, <1>2, <1>3 DEF JSONAccepted, ParseJSONFails

(* The status is 200 in one case only. *)
LEMMA ParseCases ==
    ASSUME NEW r, NEW text, text = r.json, text \in JSONTexts
    PROVE  /\ Parse(r) \in {200, 400, 500}
           /\ Parse(r) = 200 <=>
                /\ ExpectedParts(TestCount(r)) \subseteq PartSet(r.parts)
                /\ JSONAccepted(text)
<1> DEFINE tests == \A id \in 1..TestCount(r), type \in {"input", "output"} : HasPart(r, TestPart(id, type))
           fails == ParseJSONFails(r.json, {"taskId"})
           number == r.json.fields["taskId"] = "number"
<1>1. ExpectedParts(TestCount(r)) \subseteq PartSet(r.parts) <=> HasPart(r, TaskDataPart) /\ tests
  BY HasPartMeans
<1>2. JSONAccepted(text) <=> ~fails /\ number
  BY JSONFacts
<1>3. Parse(r) = IF HasPart(r, TaskDataPart) /\ ~fails /\ tests THEN IF number THEN 200 ELSE 500 ELSE 400
  <2>1. fails \in BOOLEAN /\ HasPart(r, TaskDataPart) \in BOOLEAN
    BY DEF HasPart, ParseJSONFails
  <2> QED
    BY <2>1 DEF Parse
<1> HIDE DEF tests, fails, number
<1> QED
  BY <1>1, <1>2, <1>3

LEMMA RequestFacts ==
    ASSUME NEW r \in Requests
    PROVE  r.parts \in Seq(Nat \X STRING) /\ r.json \in JSONTexts /\ r.sizes \in Inputs
BY RequestsAssumption

(* Parse accepts exactly the uploads of some number of tests with a numeric taskId. *)
LEMMA ParseIsExact ==
    ASSUME req \in Requests
    PROVE  Parse(req) = 200 <=> (\E n \in 0..Len(req.parts) : IsUploadOf(n)) /\ JSONAccepted(req.json)
<1>1. req.parts \in Seq(Nat \X STRING) /\ req.json \in JSONTexts
  BY RequestFacts
<1>2. /\ TestCount(req) \in 0..Len(req.parts) /\ TestCount(req) \in Nat /\ Len(req.parts) \in Nat
      /\ Len(req.parts) <= 2 * TestCount(req) + 1
      /\ \A n \in Nat : Len(req.parts) = 2 * n + 1 => n = TestCount(req)
  BY <1>1, TestCountFacts
<1>3. \A n : IsUploadOf(n) <=> Len(req.parts) = 2 * n + 1 /\ PartSet(req.parts) = ExpectedParts(n)
  BY DEF IsUploadOf, PartSet
<1>4. (\E n \in 0..Len(req.parts) : IsUploadOf(n)) => ExpectedParts(TestCount(req)) \subseteq PartSet(req.parts)
  <2> SUFFICES ASSUME NEW n \in 0..Len(req.parts), IsUploadOf(n)
               PROVE  ExpectedParts(TestCount(req)) \subseteq PartSet(req.parts)
    OBVIOUS
  <2>1. n = TestCount(req)
    BY <1>2, <1>3
  <2> QED
    BY <2>1, <1>3
<1>5. ExpectedParts(TestCount(req)) \subseteq PartSet(req.parts) => IsUploadOf(TestCount(req))
  BY <1>1, <1>2, <1>3, CountingIsEnough
<1> QED
  BY <1>1, <1>2, <1>4, <1>5, ParseCases

----------------------------------------------------------------------------
(* The handler *)

(* The handler's steps are steps of the loops, or leave them alone. *)
LEMMA HandleSplits == HandleNext \/ UNCHANGED handlerVars => [Next]_vars
BY DEF HandleNext, HandleParse, HandleSplit, handlerVars

LEMMA HandleInvariant == HandleSpec => []HandleInv
<1>1. HandleInit => HandleInv
  <2> SUFFICES ASSUME HandleInit PROVE HandleInv
    OBVIOUS
  <2>1. LoopInv /\ FunctionInv
    BY InitLoop, InitFunction DEF HandleInit
  <2> QED
    BY <2>1 DEF HandleInit, HandleInv
<1>2. HandleInv /\ [HandleNext]_handlerVars => HandleInv'
  <2> SUFFICES ASSUME HandleInv, [HandleNext]_handlerVars PROVE HandleInv'
    OBVIOUS
  <2>1. LoopInv' /\ FunctionInv'
    BY HandleSplits, LoopStep, FunctionStep DEF HandleInv
  <2>2. req' = req /\ (status' = status \/ status' = Parse(req))
    BY DEF HandleNext, HandleParse, HandleSplit, handlerVars
  <2>3. Parse(req)' = Parse(req)
    BY <2>2
  <2> QED
    BY <2>1, <2>2, <2>3 DEF HandleInv
<1> QED
  BY <1>1, <1>2, PTL DEF HandleSpec

(***************************************************************************)
(* Parse accepts exactly the requests that hold taskData.json with a       *)
(* numeric taskId and both files of every test, each once, although it     *)
(* only counts the parts and asks for the ones it expects.                 *)
(***************************************************************************)
THEOREM AcceptsExactUploads == HandleSpec => []AcceptedIsExact
<1>1. HandleInv => AcceptedIsExact
  BY ParseIsExact DEF HandleInv, AcceptedIsExact, JSONAccepted
<1> QED
  BY <1>1, HandleInvariant, PTL

(***************************************************************************)
(* What SplitIntoBatches returns to the handler: the tests of an accepted  *)
(* request in order, in batches within the limit that are as large as they *)
(* can be.                                                                 *)
(***************************************************************************)
THEOREM HandlerSplitsRight ==
    HandleSpec => [](TypeOK /\ BatchesPartitionTests /\ BatchesFit /\ BatchesMaximal /\ LoopIsSplit)
<1>1. HandleInv => TypeOK /\ BatchesPartitionTests /\ BatchesFit /\ BatchesMaximal /\ LoopIsSplit
  BY FunctionMeans DEF HandleInv, LoopInv
<1> QED
  BY <1>1, HandleInvariant, PTL
=============================================================================
