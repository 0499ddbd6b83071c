---------------------- MODULE ElementObservationsProofs ----------------------
(***************************************************************************)
(* The two halves of the element scheduler, for any number of tasks, tokens *)
(* and applications.                                                        *)
(*                                                                          *)
(* Observations: whoever waits for one is looked after and gets a result    *)
(* that fits.  The inductive invariant follows a reader through the         *)
(* channel, the queues and the tasks and says why no refresh is ever made   *)
(* twice: once a cell has a result, nobody waits for its job and no task    *)
(* makes it.  A second part follows the order of the jobs, which may name a *)
(* job that left the queue only until the queues are pruned.                *)
(*                                                                          *)
(* Mutations: the scheduler never sleeps through a slot.  The invariant     *)
(* says what the sleeping task still counts as taken and who will tell it   *)
(* otherwise.                                                               *)
(***************************************************************************)
EXTENDS ElementObservations, ElementAdmissions, FiniteSetTheorems, TLAPS

\* How many members of a set of numbers are no greater.
UpTo(i, S) == {h \in S : h <= i}
Rank(i, S) == Cardinality(UpTo(i, S))

LEMMA RanksAreThere ==
  ASSUME NEW S \in SUBSET Nat, IsFiniteSet(S), NEW i \in S
  PROVE  IsFiniteSet(UpTo(i, S)) /\ Rank(i, S) \in 1 .. Cardinality(S)
<1>1. UpTo(i, S) \in SUBSET S /\ i \in UpTo(i, S)
  BY DEF UpTo
<1>2. IsFiniteSet(UpTo(i, S)) /\ Cardinality(UpTo(i, S)) <= Cardinality(S)
  BY <1>1, FS_Subset
<1>3. /\ Cardinality(UpTo(i, S)) \in Nat /\ Cardinality(S) \in Nat
      /\ Cardinality(UpTo(i, S)) # 0
  BY <1>1, <1>2, FS_CardinalityType, FS_EmptySet
<1> QED
  BY <1>2, <1>3 DEF Rank

LEMMA RanksDiffer ==
  ASSUME NEW S \in SUBSET Nat, IsFiniteSet(S), NEW i \in S, NEW j \in S, i # j
  PROVE  Rank(i, S) # Rank(j, S)
<1>1. ASSUME NEW a \in S, NEW b \in S, a < b PROVE Rank(a, S) # Rank(b, S)
  <2>1. UpTo(a, S) \in SUBSET UpTo(b, S) /\ b \in UpTo(b, S) /\ b \notin UpTo(a, S)
    <3>1. b <= b /\ ~(b <= a) /\ \A h \in S : h <= a => h <= b
      BY <1>1
    <3>2. \A h : h \in UpTo(a, S) => h \in UpTo(b, S)
      BY <3>1 DEF UpTo
    <3> QED
      BY <3>1, <3>2 DEF UpTo
  <2>2. IsFiniteSet(UpTo(b, S))
    BY RanksAreThere
  <2>3. Cardinality(UpTo(a, S)) # Cardinality(UpTo(b, S))
    BY <2>1, <2>2, FS_Subset
  <2> QED
    BY <2>3 DEF Rank
<1>2. i < j \/ j < i
  OBVIOUS
<1> QED
  BY <1>1, <1>2

LEMMA EveryRankIsTaken ==
  ASSUME NEW S \in SUBSET Nat, IsFiniteSet(S), NEW k \in 1 .. Cardinality(S)
  PROVE  \E i \in S : Rank(i, S) = k
<1> DEFINE n == Cardinality(S)
           rank == [i \in S |-> Rank(i, S)]
<1>1. n \in Nat
  BY FS_CardinalityType
<1>2. rank \in [S -> 1 .. n] /\ \A i \in S, j \in S : rank[i] = rank[j] => i = j
  BY RanksAreThere, RanksDiffer
<1> HIDE DEF n
<1>3. IsFiniteSet(1 .. n) /\ Cardinality(1 .. n) = n
  BY <1>1, FS_Interval
<1>4. rank \in Injection(S, 1 .. n)
  <2> HIDE DEF rank
  <2> QED
    BY <1>2 DEF Injection, IsInjective
<1>5. rank \in Surjection(S, 1 .. n)
  <2> HIDE DEF rank
  <2>1. Cardinality(S) = Cardinality(1 .. n)
    BY <1>3 DEF n
  <2> QED
    BY <1>3, <1>4, <2>1, FS_Injection
<1>6. \E i \in S : rank[i] = k
  <2>1. k \in 1 .. n
    BY DEF n
  <2> HIDE DEF rank
  <2> QED
    BY <1>5, <2>1 DEF Surjection
<1> QED
  BY <1>6

\* The first of some places is one of them.
LEMMA FirstIsThere ==
  ASSUME NEW S \in SUBSET Nat, IsFiniteSet(S), S # {}
  PROVE  First(S) \in S
<1>1. 1 \in 1 .. Cardinality(S)
  BY FS_CardinalityType, FS_EmptySet
<1>2. PICK i \in S : Rank(i, S) = 1
  BY <1>1, EveryRankIsTaken
<1>3. ASSUME NEW j \in S PROVE i <= j
  <2>1. PICK x : UpTo(i, S) = {x}
    BY <1>2, RanksAreThere, FS_Singleton DEF Rank
  <2>2. i \in UpTo(i, S) /\ (j <= i => j \in UpTo(i, S))
    BY <1>3 DEF UpTo
  <2> QED
    BY <1>3, <2>1, <2>2
<1> QED
  BY <1>3 DEF First

\* Each place of what is kept has an entry of its own.
KeptFrom(queue, S) == {i \in DOMAIN queue : queue[i] \in S}

LEMMA KeptPlaces ==
  ASSUME NEW T, NEW queue \in Seq(T), NEW S
  PROVE  /\ KeptFrom(queue, S) \in SUBSET Nat /\ IsFiniteSet(KeptFrom(queue, S))
         /\ Cardinality(KeptFrom(queue, S)) \in Nat
         /\ Kept(queue, S) = [k \in 1 .. Cardinality(KeptFrom(queue, S)) |-> Kept(queue, S)[k]]
         /\ \A k \in 1 .. Cardinality(KeptFrom(queue, S)) :
              \E i \in KeptFrom(queue, S) :
                Kept(queue, S)[k] = queue[i] /\ Rank(i, KeptFrom(queue, S)) = k
<1> DEFINE kept == {i \in DOMAIN queue : queue[i] \in S}
           n == Cardinality(kept)
           rank == [i \in kept |-> Cardinality({h \in kept : h <= i})]
<1>1. kept \in SUBSET Nat /\ IsFiniteSet(kept) /\ n \in Nat
  <2>1. kept \in SUBSET (1 .. Len(queue)) /\ Len(queue) \in Nat
    OBVIOUS
  <2>2. IsFiniteSet(1 .. Len(queue))
    BY <2>1, FS_Interval
  <2> QED
    BY <2>1, <2>2, FS_Subset, FS_CardinalityType
<1>2. \A i \in kept : rank[i] = Rank(i, kept)
  BY DEF Rank, UpTo
<1>3. Kept(queue, S) = [k \in 1 .. n |-> queue[CHOOSE i \in kept : rank[i] = k]]
  BY DEF Kept
<1> HIDE DEF kept, n, rank
<1>4. ASSUME NEW k \in 1 .. n
      PROVE  \E i \in kept : Kept(queue, S)[k] = queue[i] /\ Rank(i, kept) = k
  <2>1. \E i \in kept : Rank(i, kept) = k
    BY <1>1, EveryRankIsTaken DEF n
  <2>2. \E i \in kept : rank[i] = k
    BY <1>2, <2>1
  <2> DEFINE m == CHOOSE i \in kept : rank[i] = k
  <2>3. m \in kept /\ rank[m] = k
    BY <2>2
  <2>4. Kept(queue, S)[k] = queue[m]
    BY <1>3
  <2> HIDE DEF m
  <2> QED
    BY <1>2, <2>3, <2>4
<1>5. Kept(queue, S) = [k \in 1 .. n |-> Kept(queue, S)[k]]
  BY <1>3
<1> QED
  BY <1>1, <1>4, <1>5 DEF kept, n, KeptFrom

\* What retain keeps is of the same kind, and every entry that may stay does.
LEMMA KeptKeeps ==
  ASSUME NEW T, NEW queue \in Seq(T), NEW S
  PROVE  /\ Kept(queue, S) \in Seq(T)
         /\ \A i \in DOMAIN queue : queue[i] \in S =>
              \E k \in DOMAIN Kept(queue, S) : Kept(queue, S)[k] = queue[i]
<1> DEFINE kept == KeptFrom(queue, S)
           n == Cardinality(kept)
<1>1. /\ kept \in SUBSET Nat /\ IsFiniteSet(kept) /\ n \in Nat
      /\ Kept(queue, S) = [k \in 1 .. n |-> Kept(queue, S)[k]]
      /\ \A k \in 1 .. n : \E i \in kept : Kept(queue, S)[k] = queue[i] /\ Rank(i, kept) = k
  BY KeptPlaces
<1>2. ASSUME NEW i \in kept PROVE queue[i] \in T
  BY DEF KeptFrom
<1>5. ASSUME NEW i \in DOMAIN queue, queue[i] \in S PROVE i \in kept
  BY <1>5 DEF KeptFrom
<1> HIDE DEF kept, n
<1>7. Kept(queue, S) \in Seq(T)
  <2>1. \A k \in 1 .. n : Kept(queue, S)[k] \in T
    BY <1>1, <1>2
  <2> QED
    BY <1>1, <2>1
<1>8. ASSUME NEW i \in DOMAIN queue, queue[i] \in S
      PROVE  \E k \in DOMAIN Kept(queue, S) : Kept(queue, S)[k] = queue[i]
  <2>1. i \in kept
    BY <1>5, <1>8
  <2>2. Rank(i, kept) \in 1 .. n
    BY <1>1, <2>1, RanksAreThere DEF n
  <2>3. PICK h \in kept : Kept(queue, S)[Rank(i, kept)] = queue[h] /\ Rank(h, kept) = Rank(i, kept)
    BY <1>1, <2>2
  <2>4. h = i
    BY <1>1, <2>1, <2>3, RanksDiffer
  <2>5. DOMAIN Kept(queue, S) = 1 .. n
    BY <1>1
  <2> QED
    BY <2>2, <2>3, <2>4, <2>5
<1> QED
  BY <1>7, <1>8

-----------------------------------------------------------------------------
(* The inductive invariant. *)

InSeq(e, queue) == \E i \in DOMAIN queue : queue[i] = e

\* Nobody is where it did not ask to be.
Placed ==
  /\ \A i \in DOMAIN asks : reader[asks[i]] # "idle"
  /\ \A j \in Job : \A r \in queued[j] \cup work[j].readers : JobOf[r] = j /\ reader[r] # "idle"

\* NobodyIsForgotten, of one reader.
LookedAfter(r) ==
  /\ reader[r] # "stopped"
  /\ Live(r) =>
       \/ InSeq(r, asks)
       \/ /\ r \in queued[JobOf[r]]
          /\ InSeq(JobOf[r], order) /\ InSeq(BearerOf[r], tokens)
       \/ r \in work[JobOf[r]].readers /\ work[JobOf[r]].task \in {"running", "done"}

\* A job that waits is in the order, and everybody who waits for it has a turn.
Covered ==
  \A j \in Job : \A r \in queued[j] : InSeq(j, order) /\ InSeq(BearerOf[r], tokens)

\* Whoever waits for a task waits for one that will tell its result.
Going ==
  \A j \in Job :
    /\ work[j].readers # {} => work[j].task \in {"running", "done"}
    /\ work[j].task # "none" => work[j].n # 0

\* What is known about a reference is not asked for again.
Once ==
  \A j \in Refreshes : cell[j] # 0 => queued[j] = {} /\ work[j].task = "none"

\* Answers are those of the cell, and a scan's are of a task that began afterwards.
Fitting ==
  \A r \in Reader : reader[r] = "answered" =>
    IF JobOf[r] \in Refreshes THEN cell[JobOf[r]] # 0 /\ answer[r] = cell[JobOf[r]]
    ELSE answer[r] > since[r]

\* A scan is shared only by those who asked before it began.
Fresh ==
  /\ \A r \in Reader : since[r] <= starts[JobOf[r]]
  /\ \A j \in Job \ Refreshes : \A r \in work[j].readers : work[j].n > since[r]

Inv ==
  /\ ObservationTypeOK
  /\ Placed /\ Covered /\ Going /\ Once /\ Fitting /\ Fresh
  /\ NobodyIsForgotten

LEMMA LookedAfterAll ==
  NobodyIsForgotten <=> \A r \in Reader : LookedAfter(r)
BY DEF NobodyIsForgotten, LookedAfter, InSeq

LEMMA Assumptions ==
  /\ \A r \in Reader : BearerOf[r] \in Bearer /\ JobOf[r] \in Job
  /\ Refreshes \subseteq Job
BY ReaderAssumption

LEMMA InitInv == ObservationInit => Inv
<1> SUFFICES ASSUME ObservationInit PROVE Inv
  OBVIOUS
<1> USE Assumptions
<1>1. ObservationTypeOK
  BY DEF ObservationInit, ObservationTypeOK, NoWork
<1>2. Placed /\ Covered /\ Going /\ Once /\ Fitting
  BY DEF ObservationInit, Placed, Covered, Going, Once, Fitting, NoWork
<1>3. Fresh /\ NobodyIsForgotten
  BY DEF ObservationInit, Fresh, NobodyIsForgotten, Live, NoWork
<1> QED
  BY <1>1, <1>2, <1>3 DEF Inv

-----------------------------------------------------------------------------
(* The readers' steps and the tasks'. *)

USE Assumptions

LEMMA RequestKeeps ==
  ASSUME Inv, NEW q \in Reader, Request(q)
  PROVE  Inv'
<1>1. ObservationTypeOK'
  BY DEF Inv, ObservationTypeOK, Request, queueVars
<1>2. /\ DOMAIN asks' = 1 .. Len(asks) + 1 /\ DOMAIN asks = 1 .. Len(asks) /\ Len(asks) \in Nat
      /\ \A i \in DOMAIN asks : asks'[i] = asks[i]
      /\ asks'[Len(asks) + 1] = q
  BY DEF Inv, ObservationTypeOK, Request
<1>3. \A r \in Reader : reader'[r] = IF r = q THEN "asked" ELSE reader[r]
  BY DEF Inv, ObservationTypeOK, Request
<1>4. reader[q] = "idle"
  BY DEF Request
<1>5. Placed'
  <2>1. ASSUME NEW i \in DOMAIN asks' PROVE reader'[asks'[i]] # "idle"
    <3>1. CASE i \in DOMAIN asks
      <4>1. asks[i] \in Reader /\ reader[asks[i]] # "idle"
        BY <3>1 DEF Inv, ObservationTypeOK, Placed
      <4> QED
        BY <1>2, <1>3, <3>1, <4>1
    <3>2. CASE i = Len(asks) + 1
      BY <1>2, <1>3, <3>2
    <3> QED
      BY <1>2, <3>1, <3>2
  <2>2. ASSUME NEW j \in Job, NEW r \in queued'[j] \cup work'[j].readers
        PROVE  JobOf[r] = j /\ reader'[r] # "idle"
    <3>1. r \in Reader /\ JobOf[r] = j /\ reader[r] # "idle"
      BY <2>2 DEF Inv, ObservationTypeOK, Placed, Request, queueVars
    <3> QED
      BY <1>3, <3>1
  <2> QED
    BY <2>1, <2>2 DEF Placed
<1>6. Covered' /\ Going' /\ Once'
  BY DEF Inv, Covered, Going, Once, InSeq, Request, queueVars
<1>7. \A r \in Reader : since'[r] = since[r] \/ (r = q /\ since'[r] = starts[JobOf[q]])
  <2>1. since \in [Reader -> Nat]
    BY DEF Inv, ObservationTypeOK
  <2>2. since' = since \/ since' = [since EXCEPT ![q] = starts[JobOf[q]]]
    BY DEF Request
  <2> QED
    BY <2>1, <2>2
<1>8. Fitting'
  BY <1>3, <1>7 DEF Inv, Fitting, Request
<1>9. Fresh'
  <2>1. \A j \in Job : q \notin work[j].readers
    BY <1>4 DEF Inv, Placed
  <2>2. \A j \in Job : \A r \in work[j].readers : r \in Reader
    BY DEF Inv, ObservationTypeOK
  <2>3. \A r \in Reader : starts[JobOf[r]] \in Nat
    BY DEF Inv, ObservationTypeOK
  <2> QED
    BY <1>7, <2>1, <2>2, <2>3 DEF Inv, Fresh, Request
<1>10. NobodyIsForgotten'
  <2>1. InSeq(q, asks')
    BY <1>2 DEF InSeq
  <2>2. \A r \in Reader : InSeq(r, asks) => InSeq(r, asks')
    BY <1>2 DEF InSeq
  <2> QED
    BY <1>3, <2>1, <2>2 DEF Inv, NobodyIsForgotten, Live, InSeq, Request, queueVars
<1> QED
  BY <1>1, <1>5, <1>6, <1>8, <1>9, <1>10 DEF Inv

LEMMA ReaderMoves ==
  ASSUME Inv, NEW q \in Reader, ReadCell(q) \/ Forgo(q)
  PROVE  Inv'
<1>1. ObservationTypeOK'
  <2>1. cell[JobOf[q]] \in Nat
    BY DEF Inv, ObservationTypeOK
  <2>2. CASE ReadCell(q)
    BY <2>1, <2>2 DEF Inv, ObservationTypeOK, ReadCell, queueVars
  <2>3. CASE Forgo(q)
    BY <2>3 DEF Inv, ObservationTypeOK, Forgo, queueVars
  <2> QED
    BY <2>2, <2>3
<1>2. UNCHANGED <<since, lapsed, asks, queued, order, tokens, work, cell, step, starts>>
  BY DEF ReadCell, Forgo, queueVars
<1>3. \A r \in Reader : r # q => reader'[r] = reader[r] /\ answer'[r] = answer[r]
  BY DEF Inv, ObservationTypeOK, ReadCell, Forgo
<1>4. /\ reader'[q] \in {"answered", "gone"}
      /\ reader'[q] = "answered" => HasResult(q) /\ answer'[q] = cell[JobOf[q]]
  BY DEF Inv, ObservationTypeOK, ReadCell, Forgo
<1>5. Placed'
  <2>1. \A i \in DOMAIN asks : asks[i] \in Reader
    BY DEF Inv, ObservationTypeOK
  <2>2. \A j \in Job : \A r \in queued[j] \cup work[j].readers : r \in Reader
    BY DEF Inv, ObservationTypeOK
  <2> QED
    BY <1>2, <1>3, <1>4, <2>1, <2>2 DEF Inv, Placed
<1>6. Covered' /\ Going' /\ Once' /\ Fresh'
  BY <1>2 DEF Inv, Covered, Going, Once, Fresh, InSeq
<1>7. Fitting'
  BY <1>2, <1>3, <1>4 DEF Inv, Fitting, HasResult
<1>8. NobodyIsForgotten'
  BY <1>2, <1>3, <1>4 DEF Inv, NobodyIsForgotten, Live
<1> QED
  BY <1>1, <1>5, <1>6, <1>7, <1>8 DEF Inv

LEMMA LapseKeeps ==
  ASSUME Inv, NEW t \in Bearer, Lapse(t)
  PROVE  Inv'
<1>1. ObservationTypeOK'
  BY DEF Inv, ObservationTypeOK, Lapse, queueVars
<1>2. Placed' /\ Covered' /\ Going' /\ Once' /\ Fitting' /\ Fresh'
  BY DEF Inv, Placed, Covered, Going, Once, Fitting, Fresh, InSeq, Lapse, queueVars
<1>3. NobodyIsForgotten'
  BY DEF Inv, NobodyIsForgotten, Live, Lapse, queueVars
<1> QED
  BY <1>1, <1>2, <1>3 DEF Inv

LEMMA TaskEnds ==
  ASSUME Inv, NEW k \in Job, Complete(k) \/ Cancel(k)
  PROVE  Inv'
<1>1. UNCHANGED <<readerVars, asks, queueVars, cell, step, starts>>
  BY DEF Complete, Cancel
<1>2. PICK t \in {"done", "cancelled"} :
        /\ work' = [work EXCEPT ![k].task = t]
        /\ work[k].task \in {"running", "aborted"}
        /\ work[k].task = "running" => t = "done"
  BY DEF Complete, Cancel
<1>3. /\ work' \in [Job -> [readers : SUBSET Reader,
                            task : {"none", "running", "aborted", "done", "cancelled"}, n : Nat]]
      /\ \A j \in Job : /\ work'[j].readers = work[j].readers /\ work'[j].n = work[j].n
                        /\ j # k => work'[j] = work[j]
      /\ work'[k].task = t
  BY <1>2 DEF Inv, ObservationTypeOK
<1>4. ObservationTypeOK'
  BY <1>1, <1>3 DEF Inv, ObservationTypeOK, readerVars, queueVars
<1>5. Placed' /\ Covered' /\ Fitting' /\ Fresh'
  BY <1>1, <1>3 DEF Inv, Placed, Covered, Fitting, Fresh, InSeq, readerVars, queueVars
<1>6. Going' /\ Once'
  BY <1>1, <1>2, <1>3 DEF Inv, Going, Once, readerVars, queueVars
<1>7. NobodyIsForgotten'
  <2>1. \A r \in Reader :
          r \in work[JobOf[r]].readers /\ work[JobOf[r]].task \in {"running", "done"} =>
            r \in work'[JobOf[r]].readers /\ work'[JobOf[r]].task \in {"running", "done"}
    BY <1>2, <1>3
  <2> QED
    BY <1>1, <2>1 DEF Inv, NobodyIsForgotten, Live, readerVars, queueVars
<1> QED
  BY <1>4, <1>5, <1>6, <1>7 DEF Inv

-----------------------------------------------------------------------------
(* The scheduler accepts a request. *)

LEMMA Replies ==
  ASSUME ObservationTypeOK, NEW S, NEW n \in Nat, Reply(S, n)
  PROVE  /\ reader' \in [Reader -> {"idle", "asked", "answered", "gone", "stopped"}]
         /\ answer' \in [Reader -> Nat] /\ UNCHANGED <<since, lapsed>>
         /\ \A r \in Reader : r \in S /\ Live(r) => reader'[r] = "answered" /\ answer'[r] = n
         /\ \A r \in Reader : ~(r \in S /\ Live(r)) => reader'[r] = reader[r] /\ answer'[r] = answer[r]
BY DEF ObservationTypeOK, Reply

LEMMA HeadOrTail ==
  ASSUME NEW T, NEW queue \in Seq(T), queue # <<>>
  PROVE  /\ Head(queue) \in T /\ Tail(queue) \in Seq(T)
         /\ InSeq(Head(queue), queue)
         /\ \A e : InSeq(e, queue) => e = Head(queue) \/ InSeq(e, Tail(queue))
         /\ \A e : InSeq(e, Tail(queue)) => InSeq(e, queue)
<1>1. /\ Len(queue) \in Nat \ {0} /\ DOMAIN queue = 1 .. Len(queue)
      /\ Head(queue) = queue[1] /\ Len(Tail(queue)) = Len(queue) - 1
      /\ DOMAIN Tail(queue) = 1 .. Len(queue) - 1
      /\ \A i \in 1 .. Len(queue) - 1 : Tail(queue)[i] = queue[i + 1]
  OBVIOUS
<1>2. Head(queue) \in T /\ Tail(queue) \in Seq(T)
  OBVIOUS
<1>3. ASSUME NEW e, InSeq(e, queue) PROVE e = Head(queue) \/ InSeq(e, Tail(queue))
  <2>1. PICK i \in 1 .. Len(queue) : queue[i] = e
    BY <1>1, <1>3 DEF InSeq
  <2>2. CASE i = 1
    BY <1>1, <2>1, <2>2
  <2>3. CASE i # 1
    <3>1. i - 1 \in 1 .. Len(queue) - 1 /\ (i - 1) + 1 = i
      BY <1>1, <2>3
    <3> QED
      BY <1>1, <2>1, <3>1 DEF InSeq
  <2> QED
    BY <2>2, <2>3
<1>4. ASSUME NEW e, InSeq(e, Tail(queue)) PROVE InSeq(e, queue)
  <2>1. PICK i \in 1 .. Len(queue) - 1 : queue[i + 1] = e
    BY <1>1, <1>4 DEF InSeq
  <2>2. i + 1 \in DOMAIN queue
    BY <1>1
  <2> QED
    BY <2>1, <2>2 DEF InSeq
<1> QED
  BY <1>1, <1>2, <1>3, <1>4 DEF InSeq

LEMMA AppendKeeps ==
  ASSUME NEW T, NEW queue \in Seq(T), NEW e \in T
  PROVE  /\ Append(queue, e) \in Seq(T) /\ InSeq(e, Append(queue, e))
         /\ \A x : InSeq(x, queue) => InSeq(x, Append(queue, e))
<1>1. /\ Append(queue, e) \in Seq(T) /\ Len(queue) \in Nat /\ DOMAIN queue = 1 .. Len(queue)
      /\ DOMAIN Append(queue, e) = 1 .. Len(queue) + 1
      /\ Append(queue, e)[Len(queue) + 1] = e
      /\ \A i \in 1 .. Len(queue) : Append(queue, e)[i] = queue[i]
  OBVIOUS
<1>2. Len(queue) + 1 \in DOMAIN Append(queue, e) /\ DOMAIN queue \subseteq DOMAIN Append(queue, e)
  BY <1>1
<1> QED
  BY <1>1, <1>2 DEF InSeq

LEMMA AcceptCallKeeps ==
  ASSUME Inv, AcceptCall
  PROVE  Inv'
<1> DEFINE q == Head(asks)
           k == JobOf[q]
<1>1. /\ q \in Reader /\ k \in Job /\ asks' \in Seq(Reader)
      /\ \A e : InSeq(e, asks) => e = q \/ InSeq(e, asks')
      /\ \A e : InSeq(e, asks') => InSeq(e, asks)
  BY HeadOrTail DEF Inv, ObservationTypeOK, AcceptCall
<1>2. reader[q] # "idle"
  <2>1. InSeq(q, asks)
    BY HeadOrTail DEF Inv, ObservationTypeOK, AcceptCall
  <2> QED
    BY <2>1 DEF Inv, Placed, InSeq
<1>3. step' \in {"waiting", "accepting", "starting"} /\ UNCHANGED <<cell, starts>>
  BY DEF AcceptCall
<1>4. \A e : InSeq(e, asks') => reader[e] # "idle"
  BY <1>1 DEF Inv, Placed, InSeq
<1>5. \A i \in DOMAIN asks' : InSeq(asks'[i], asks')
  BY DEF InSeq
<1>6. ASSUME NEW r \in Reader PROVE InSeq(r, asks) <=> \E i \in DOMAIN asks : asks[i] = r
  BY DEF InSeq
<1>7. CASE PushAnswers(q)
  <2>1. UNCHANGED <<queued, order, tokens, work>> /\ HasResult(q) /\ Reply({q}, cell[k])
    BY <1>7 DEF PushAnswers, queueVars
  <2>2. cell[k] \in Nat
    BY <1>1 DEF Inv, ObservationTypeOK
  <2>3. /\ reader' \in [Reader -> {"idle", "asked", "answered", "gone", "stopped"}]
        /\ answer' \in [Reader -> Nat] /\ UNCHANGED <<since, lapsed>>
        /\ Live(q) => reader'[q] = "answered" /\ answer'[q] = cell[k]
        /\ \A r \in Reader : ~(r = q /\ Live(q)) => reader'[r] = reader[r] /\ answer'[r] = answer[r]
    BY <1>1, <2>1, <2>2, Replies DEF Inv
  <2>4. ObservationTypeOK'
    BY <1>1, <1>3, <2>1, <2>3 DEF Inv, ObservationTypeOK
  <2>5. \A r \in Reader : reader[r] # "idle" => reader'[r] # "idle"
    BY <2>3
  <2>6. Placed'
    <3>1. \A i \in DOMAIN asks' : asks'[i] \in Reader
      BY <1>1
    <3>2. \A j \in Job : \A r \in queued[j] \cup work[j].readers : r \in Reader
      BY DEF Inv, ObservationTypeOK
    <3> QED
      BY <1>4, <1>5, <2>1, <2>5, <3>1, <3>2 DEF Inv, Placed
  <2>7. Covered' /\ Going' /\ Once' /\ Fresh'
    BY <1>3, <2>1, <2>3 DEF Inv, Covered, Going, Once, Fresh, InSeq
  <2>8. Fitting'
    BY <1>3, <2>1, <2>3 DEF Inv, Fitting, HasResult
  <2>9. NobodyIsForgotten'
    <3>1. \A r \in Reader : reader'[r] # "stopped"
      BY <2>3 DEF Inv, NobodyIsForgotten
    <3>2. \A r \in Reader : Live(r)' => Live(r) /\ r # q
      BY <2>3 DEF Live
    <3>3. \A r \in Reader : r # q /\ InSeq(r, asks) => InSeq(r, asks')
      BY <1>1
    <3> QED
      BY <2>1, <3>1, <3>2, <3>3 DEF Inv, NobodyIsForgotten, InSeq
  <2> QED
    BY <2>4, <2>6, <2>7, <2>8, <2>9 DEF Inv
<1>8. CASE PushJoins(q)
  <2>1. /\ UNCHANGED <<reader, answer, since, lapsed, queued, order, tokens>>
        /\ ~HasResult(q) /\ Joins(q)
        /\ work' = [work EXCEPT ![k].readers = @ \cup {q}]
    BY <1>8 DEF PushJoins, queueVars, readerVars
  <2>2. /\ \A j \in Job : /\ work'[j].task = work[j].task /\ work'[j].n = work[j].n
                          /\ work'[j].readers = IF j = k THEN work[j].readers \cup {q} ELSE work[j].readers
        /\ work' \in [Job -> [readers : SUBSET Reader,
                              task : {"none", "running", "aborted", "done", "cancelled"}, n : Nat]]
    <3>1. work \in [Job -> [readers : SUBSET Reader,
                            task : {"none", "running", "aborted", "done", "cancelled"}, n : Nat]]
      BY DEF Inv, ObservationTypeOK
    <3> HIDE DEF q, k
    <3> QED
      BY <1>1, <2>1, <3>1
  <2>3. k \in Refreshes /\ work[k].readers # {} /\ cell[k] = 0
    BY <2>1 DEF Joins, HasResult
  <2>4. work[k].task \in {"running", "done"}
    BY <1>1, <2>3 DEF Inv, Going
  <2>5. ObservationTypeOK'
    BY <1>1, <1>3, <2>1, <2>2 DEF Inv, ObservationTypeOK
  <2>6. Placed'
    <3> HIDE DEF q
    <3> QED
      BY <1>1, <1>2, <1>4, <1>5, <2>1, <2>2 DEF Inv, Placed
  <2>7. Covered' /\ Fitting'
    BY <1>3, <2>1 DEF Inv, Covered, Fitting, InSeq
  <2>10. Going' /\ Once'
    <3> HIDE DEF q, k
    <3>1. ASSUME NEW j \in Job PROVE work'[j].readers # {} => work'[j].task \in {"running", "done"}
      <4>1. CASE j = k
        BY <2>2, <2>4, <4>1
      <4>2. CASE j # k
        BY <2>2, <4>2 DEF Inv, Going
      <4> QED
        BY <4>1, <4>2
    <3>2. \A j \in Job : work'[j].task # "none" => work'[j].n # 0
      BY <2>2 DEF Inv, Going
    <3>3. Once'
      BY <1>3, <2>1, <2>2 DEF Inv, Once
    <3> QED
      BY <3>1, <3>2, <3>3 DEF Going
  <2>11. Fresh'
    <3>1. \A j \in Job \ Refreshes : work'[j].readers = work[j].readers
      BY <2>2, <2>3
    <3> QED
      BY <1>3, <2>1, <2>2, <3>1 DEF Inv, Fresh
  <2>8. NobodyIsForgotten'
    <3>1. q \in work'[k].readers /\ work'[k].task \in {"running", "done"}
      BY <1>1, <2>2, <2>4
    <3>2. \A r \in Reader : r \in work[JobOf[r]].readers => r \in work'[JobOf[r]].readers
      BY <2>2
    <3>3. \A r \in Reader : Live(r)' <=> Live(r)
      BY <2>1 DEF Live
    <3>4. \A r \in Reader : InSeq(r, asks) => r = q \/ InSeq(r, asks')
      BY <1>1
    <3> HIDE DEF q
    <3> QED
      BY <2>1, <2>2, <3>1, <3>2, <3>3, <3>4 DEF Inv, NobodyIsForgotten, InSeq
  <2> QED
    BY <2>5, <2>6, <2>7, <2>8, <2>10, <2>11 DEF Inv
<1>9. CASE PushQueues(q)
  <2>1. /\ UNCHANGED <<reader, answer, since, lapsed, work>>
        /\ ~HasResult(q)
        /\ queued' = [queued EXCEPT ![k] = @ \cup {q}]
        /\ order' = IF queued[k] = {} THEN Append(order, k) ELSE order
        /\ tokens' = IF InSeq(BearerOf[q], tokens) THEN tokens ELSE Append(tokens, BearerOf[q])
    BY <1>9 DEF PushQueues, readerVars, InSeq
  <2>2. order \in Seq(Job) /\ tokens \in Seq(Bearer) /\ queued \in [Job -> SUBSET Reader]
    BY DEF Inv, ObservationTypeOK
  <2>3. /\ order' \in Seq(Job)
        /\ \A e : InSeq(e, order) => InSeq(e, order')
        /\ queued[k] = {} => InSeq(k, order')
    <3>1. CASE queued[k] = {}
      BY <1>1, <2>1, <2>2, <3>1, AppendKeeps
    <3>2. CASE queued[k] # {}
      BY <2>1, <2>2, <3>2
    <3> QED
      BY <3>1, <3>2
  <2>4. /\ tokens' \in Seq(Bearer)
        /\ \A e : InSeq(e, tokens) => InSeq(e, tokens')
        /\ InSeq(BearerOf[q], tokens')
    <3>1. CASE InSeq(BearerOf[q], tokens)
      BY <2>1, <2>2, <3>1
    <3>2. CASE ~InSeq(BearerOf[q], tokens)
      BY <1>1, <2>1, <2>2, <3>2, AppendKeeps
    <3> QED
      BY <3>1, <3>2
  <2>5. \A j \in Job : queued'[j] = IF j = k THEN queued[j] \cup {q} ELSE queued[j]
    BY <1>1, <2>1, <2>2
  <2>6. ObservationTypeOK'
    BY <1>1, <1>3, <2>1, <2>2, <2>3, <2>4 DEF Inv, ObservationTypeOK
  <2>7. Placed'
    BY <1>1, <1>2, <1>4, <1>5, <2>1, <2>5 DEF Inv, Placed
  <2>8. Covered'
    <3>1. ASSUME NEW j \in Job, NEW r \in queued'[j]
          PROVE  InSeq(j, order') /\ InSeq(BearerOf[r], tokens')
      <4>1. CASE r \in queued[j]
        BY <2>3, <2>4, <4>1 DEF Inv, Covered
      <4>2. CASE r \notin queued[j]
        <5>1. r = q /\ j = k
          BY <2>5, <3>1, <4>2
        <5>2. queued[k] # {} => InSeq(k, order)
          BY <1>1 DEF Inv, Covered
        <5> QED
          BY <2>3, <2>4, <5>1, <5>2
      <4> QED
        BY <4>1, <4>2
    <3> QED
      BY <3>1 DEF Covered
  <2>9. Going' /\ Once' /\ Fitting' /\ Fresh'
    BY <1>3, <2>1, <2>5 DEF Inv, Going, Once, Fitting, Fresh, HasResult
  <2>10. NobodyIsForgotten'
    <3>1. InSeq(k, order') /\ q \in queued'[k]
      BY <1>1, <2>5, <2>8 DEF Covered
    <3> QED
      <4>1. \A r \in Reader : r \in queued[JobOf[r]] => r \in queued'[JobOf[r]]
        BY <2>5
      <4>2. \A r \in Reader : Live(r)' <=> Live(r)
        BY <2>1 DEF Live
      <4>3. \A r \in Reader : InSeq(r, asks) => r = q \/ InSeq(r, asks')
        BY <1>1
      <4>4. \A r \in Reader : LookedAfter(r)
        BY LookedAfterAll DEF Inv
      <4> HIDE DEF q
      <4>5. ASSUME NEW r \in Reader PROVE LookedAfter(r)'
        BY <2>1, <2>3, <2>4, <3>1, <4>1, <4>2, <4>3, <4>4 DEF LookedAfter
      <4> QED
        BY <4>5 DEF NobodyIsForgotten, LookedAfter, InSeq
  <2> QED
    BY <2>6, <2>7, <2>8, <2>9, <2>10 DEF Inv
<1> QED
  BY <1>7, <1>8, <1>9 DEF AcceptCall

-----------------------------------------------------------------------------
(* The scheduler joins a task. *)

LEMMA ConcludeKeeps ==
  ASSUME Inv, NEW k \in Job, step = "waiting", step' = "accepting", UNCHANGED <<asks, starts>>,
         Conclude(k)
  PROVE  Inv'
<1> DEFINE late == IF k \in Refreshes THEN queued[k] ELSE {}
           heard == work[k].readers \cup late
           n == work[k].n
<1>1. /\ UNCHANGED <<order, tokens>> /\ work[k].task = "done"
      /\ work' = [work EXCEPT ![k] = NoWork]
      /\ queued' = [queued EXCEPT ![k] = @ \ late]
      /\ cell' = IF k \in Refreshes /\ cell[k] = 0 THEN [cell EXCEPT ![k] = n] ELSE cell
      /\ Reply(heard, n)
  BY DEF Conclude
<1>2. n \in Nat /\ n # 0
  BY <1>1 DEF Inv, ObservationTypeOK, Going
<1>3. /\ work' \in [Job -> [readers : SUBSET Reader,
                            task : {"none", "running", "aborted", "done", "cancelled"}, n : Nat]]
      /\ \A j \in Job : work'[j] = IF j = k THEN NoWork ELSE work[j]
  BY <1>1 DEF Inv, ObservationTypeOK, NoWork
<1>4. /\ queued' \in [Job -> SUBSET Reader]
      /\ \A j \in Job : queued'[j] = IF j = k THEN queued[k] \ late ELSE queued[j]
  BY <1>1 DEF Inv, ObservationTypeOK
<1>5. /\ reader' \in [Reader -> {"idle", "asked", "answered", "gone", "stopped"}]
      /\ answer' \in [Reader -> Nat] /\ UNCHANGED <<since, lapsed>>
      /\ \A r \in Reader : r \in heard /\ Live(r) => reader'[r] = "answered" /\ answer'[r] = n
      /\ \A r \in Reader : ~(r \in heard /\ Live(r)) => reader'[r] = reader[r] /\ answer'[r] = answer[r]
  BY <1>1, <1>2, Replies DEF Inv
<1>6. ASSUME NEW r \in heard PROVE r \in Reader /\ JobOf[r] = k
  BY <1>6 DEF Inv, ObservationTypeOK, Placed
<1>7. k \in Refreshes => cell[k] = 0
  BY <1>1 DEF Inv, Once
<1>8. /\ cell' \in [Job -> Nat]
      /\ \A j \in Job : cell'[j] = IF j = k /\ k \in Refreshes THEN n ELSE cell[j]
  BY <1>1, <1>2, <1>7 DEF Inv, ObservationTypeOK
<1>9. /\ late \subseteq queued[k] /\ (k \in Refreshes => late = queued[k])
      /\ late \subseteq heard /\ work[k].readers \subseteq heard
  OBVIOUS
<1>10. NoWork.readers = {} /\ NoWork.task = "none"
  BY DEF NoWork
<1>11. \A r \in Reader : reader[r] # "idle" => reader'[r] # "idle"
  BY <1>5
<1> HIDE DEF late, heard, n
<1>12. ObservationTypeOK'
  BY <1>1, <1>3, <1>4, <1>5, <1>8 DEF Inv, ObservationTypeOK
<1>13. Placed'
  <2>1. \A i \in DOMAIN asks : asks[i] \in Reader
    BY DEF Inv, ObservationTypeOK
  <2>2. ASSUME NEW j \in Job, NEW r \in queued'[j] \cup work'[j].readers
        PROVE  r \in Reader /\ r \in queued[j] \cup work[j].readers
    BY <1>3, <1>4, <1>9, <1>10, <2>2 DEF Inv, ObservationTypeOK
  <2> QED
    BY <1>11, <2>1, <2>2 DEF Inv, Placed
<1>14. Covered' /\ Going' /\ Once'
  BY <1>1, <1>3, <1>4, <1>8, <1>9, <1>10 DEF Inv, Covered, Going, Once, InSeq
<1>15. Fresh'
  BY <1>3, <1>5, <1>10 DEF Inv, Fresh
<1>16. Fitting'
  <2>1. ASSUME NEW r \in Reader, r \in heard, Live(r), k \notin Refreshes
        PROVE  n > since[r]
    BY <1>6, <1>9, <2>1 DEF Inv, Fresh, heard, late, n
  <2>2. ASSUME NEW r \in Reader, reader'[r] = "answered"
        PROVE  IF JobOf[r] \in Refreshes THEN cell'[JobOf[r]] # 0 /\ answer'[r] = cell'[JobOf[r]]
               ELSE answer'[r] > since'[r]
    <3>1. CASE r \in heard /\ Live(r)
      BY <1>2, <1>5, <1>6, <1>8, <2>1, <3>1
    <3>2. CASE ~(r \in heard /\ Live(r))
      BY <1>5, <1>7, <1>8, <2>2, <3>2 DEF Inv, Fitting
    <3> QED
      BY <3>1, <3>2
  <2> QED
    BY <2>2 DEF Fitting
<1>17. ASSUME NEW r \in Reader PROVE LookedAfter(r)'
  <2>1. LookedAfter(r)
    BY LookedAfterAll DEF Inv
  <2>2. reader'[r] # "stopped"
    BY <1>5, <2>1 DEF LookedAfter
  <2>3. Live(r)' => Live(r) /\ r \notin heard
    BY <1>5 DEF Live
  <2>4. r \notin heard /\ r \in queued[JobOf[r]] => r \in queued'[JobOf[r]]
    BY <1>4, <1>9
  <2>5. r \notin heard /\ r \in work[JobOf[r]].readers => work'[JobOf[r]] = work[JobOf[r]]
    BY <1>3, <1>9
  <2> QED
    BY <1>1, <2>1, <2>2, <2>3, <2>4, <2>5 DEF LookedAfter, InSeq
<1>18. NobodyIsForgotten'
  BY <1>17 DEF NobodyIsForgotten, LookedAfter, InSeq
<1> QED
  BY <1>12, <1>13, <1>14, <1>15, <1>16, <1>18 DEF Inv

LEMMA DropKeeps ==
  ASSUME Inv, NEW k \in Job, step = "waiting", step' = "accepting", UNCHANGED <<asks, starts>>,
         Drop(k)
  PROVE  Inv'
<1>1. /\ UNCHANGED <<answer, since, lapsed, queued, order, tokens, cell>>
      /\ work' = [work EXCEPT ![k] = NoWork] /\ work[k].task = "cancelled"
  BY DEF Drop, queueVars
<1>2. work[k].readers = {}
  BY <1>1 DEF Inv, Going
<1>3. reader' = reader
  BY <1>2 DEF Drop, Inv, ObservationTypeOK
<1>4. /\ work' \in [Job -> [readers : SUBSET Reader,
                            task : {"none", "running", "aborted", "done", "cancelled"}, n : Nat]]
      /\ \A j \in Job : work'[j] = IF j = k THEN NoWork ELSE work[j]
      /\ NoWork.readers = {} /\ NoWork.task = "none"
  BY <1>1 DEF Inv, ObservationTypeOK, NoWork
<1>5. ObservationTypeOK'
  BY <1>1, <1>3, <1>4 DEF Inv, ObservationTypeOK
<1>6. Placed' /\ Covered' /\ Going' /\ Once' /\ Fitting' /\ Fresh'
  BY <1>1, <1>2, <1>3, <1>4 DEF Inv, Placed, Covered, Going, Once, Fitting, Fresh, InSeq
<1>7. NobodyIsForgotten'
  BY <1>1, <1>2, <1>3, <1>4 DEF Inv, NobodyIsForgotten, Live
<1> QED
  BY <1>5, <1>6, <1>7 DEF Inv

-----------------------------------------------------------------------------
(* The scheduler prunes, and starts jobs. *)

LEMMA PruneKeeps ==
  ASSUME Inv, PruneJobs
  PROVE  Inv'
<1> DEFINE still(j) == {r \in work[j].readers : Live(r)}
           task(j) == IF work[j].task = "running" /\ still(j) = {} THEN "aborted" ELSE work[j].task
           waiting == {j \in Job : queued'[j] # {}}
           wanted == {BearerOf[r] : r \in UNION {queued'[j] : j \in Job}}
<1>1. /\ UNCHANGED <<reader, answer, since, lapsed, asks, cell, starts>>
      /\ step' = "starting"
      /\ queued' = [j \in Job |-> {r \in queued[j] : Live(r)}]
      /\ order' = Kept(order, waiting) /\ tokens' = Kept(tokens, wanted)
  BY DEF PruneJobs, readerVars
<1>2. ASSUME NEW j \in Job
      PROVE  /\ work'[j] = [readers |-> still(j), task |-> task(j), n |-> work[j].n]
             /\ work'[j].readers = still(j) /\ work'[j].task = task(j) /\ work'[j].n = work[j].n
             /\ still(j) \subseteq Reader /\ work[j].n \in Nat
             /\ task(j) \in {"none", "running", "aborted", "done", "cancelled"}
             /\ \A r \in still(j) : r \in work[j].readers
  <2>1. work[j] \in [readers : SUBSET Reader,
                     task : {"none", "running", "aborted", "done", "cancelled"}, n : Nat]
    BY DEF Inv, ObservationTypeOK
  <2>2. work'[j] = [work[j] EXCEPT !.readers = still(j), !.task = task(j)]
    BY DEF PruneJobs
  <2> QED
    BY <2>1, <2>2
<1>3. work' \in [Job -> [readers : SUBSET Reader,
                         task : {"none", "running", "aborted", "done", "cancelled"}, n : Nat]]
  <2>1. work' = [j \in Job |-> work'[j]]
    BY DEF PruneJobs
  <2> HIDE DEF still, task
  <2> QED
    BY <1>2, <2>1
<1>4. queued' \in [Job -> SUBSET Reader] /\ \A j \in Job : queued'[j] \subseteq queued[j]
  BY <1>1 DEF Inv, ObservationTypeOK
<1>5. /\ order \in Seq(Job) /\ tokens \in Seq(Bearer)
  BY DEF Inv, ObservationTypeOK
<1> HIDE DEF waiting, wanted
<1>6. /\ order' \in Seq(Job)
      /\ \A j : InSeq(j, order) /\ j \in waiting => InSeq(j, order')
  BY <1>1, <1>5, KeptKeeps DEF InSeq
<1>7. /\ tokens' \in Seq(Bearer)
      /\ \A t : InSeq(t, tokens) /\ t \in wanted => InSeq(t, tokens')
  BY <1>1, <1>5, KeptKeeps DEF InSeq
<1>8. ObservationTypeOK'
  BY <1>1, <1>3, <1>4, <1>6, <1>7 DEF Inv, ObservationTypeOK
<1>9. Covered'
  <2>1. ASSUME NEW j \in Job, NEW r \in queued'[j]
        PROVE  InSeq(j, order') /\ InSeq(BearerOf[r], tokens')
    <3>1. InSeq(j, order) /\ InSeq(BearerOf[r], tokens)
      BY <1>4, <2>1 DEF Inv, Covered
    <3>2. j \in waiting /\ BearerOf[r] \in wanted
      BY <2>1 DEF waiting, wanted
    <3> QED
      BY <1>6, <1>7, <3>1, <3>2
  <2> QED
    BY <2>1 DEF Covered
<1>15. ASSUME NEW j \in Job
       PROVE  /\ work'[j].readers = still(j) /\ work'[j].task = task(j) /\ work'[j].n = work[j].n
              /\ still(j) \subseteq work[j].readers
              /\ task(j) # "none" => work[j].task # "none"
              /\ still(j) # {} => task(j) = work[j].task
              /\ work[j].task = "none" => task(j) = "none"
  BY <1>2
<1> HIDE DEF still, task
<1>10. Placed'
  <2>1. ASSUME NEW j \in Job, NEW r \in queued'[j] \cup work'[j].readers
        PROVE  JobOf[r] = j /\ reader'[r] # "idle"
    <3>1. r \in queued[j] \cup work[j].readers
      BY <1>4, <1>15, <2>1
    <3> QED
      BY <1>1, <3>1 DEF Inv, Placed
  <2>2. \A i \in DOMAIN asks' : reader'[asks'[i]] # "idle"
    BY <1>1 DEF Inv, Placed
  <2> QED
    BY <2>1, <2>2 DEF Placed
<1>11. Going' /\ Once'
  <2>1. ASSUME NEW j \in Job
        PROVE  /\ work'[j].readers # {} => work'[j].task \in {"running", "done"}
               /\ work'[j].task # "none" => work'[j].n # 0
    BY <1>15 DEF Inv, Going
  <2>2. ASSUME NEW j \in Refreshes, cell'[j] # 0 PROVE queued'[j] = {} /\ work'[j].task = "none"
    BY <1>1, <1>4, <1>15, <2>2 DEF Inv, Once
  <2> QED
    BY <2>1, <2>2 DEF Going, Once
<1>12. Fitting' /\ Fresh'
  <2>1. ASSUME NEW j \in Job \ Refreshes, NEW r \in work'[j].readers
        PROVE  work'[j].n > since'[r]
    BY <1>1, <1>15, <2>1 DEF Inv, Fresh
  <2> QED
    BY <1>1, <2>1 DEF Inv, Fitting, Fresh
<1>13. ASSUME NEW r \in Reader PROVE LookedAfter(r)'
  <2>1. LookedAfter(r)
    BY LookedAfterAll DEF Inv
  <2>2. Live(r)' <=> Live(r)
    BY <1>1 DEF Live
  <2>3. CASE Live(r)
    <3>1. r \in queued[JobOf[r]] => r \in queued'[JobOf[r]]
      BY <1>1, <2>3
    <3>2. r \in queued'[JobOf[r]] => InSeq(JobOf[r], order') /\ InSeq(BearerOf[r], tokens')
      BY <1>9 DEF Covered
    <3>3. r \in work[JobOf[r]].readers => r \in still(JobOf[r])
      BY <2>3 DEF still
    <3>4. r \in work[JobOf[r]].readers =>
            r \in work'[JobOf[r]].readers /\ work'[JobOf[r]].task = work[JobOf[r]].task
      BY <1>15, <3>3
    <3> QED
      BY <1>1, <2>1, <2>2, <3>1, <3>2, <3>4 DEF LookedAfter, InSeq
  <2>4. CASE ~Live(r)
    BY <1>1, <2>1, <2>2, <2>4 DEF LookedAfter
  <2> QED
    BY <2>3, <2>4
<1>14. NobodyIsForgotten'
  BY <1>13 DEF NobodyIsForgotten, LookedAfter, InSeq
<1> QED
  BY <1>8, <1>9, <1>10, <1>11, <1>12, <1>14 DEF Inv

LEMMA JoinedKeeps ==
  ASSUME NEW T, NEW front \in Seq(T), NEW back \in Seq(T), NEW e,
         InSeq(e, front) \/ InSeq(e, back)
  PROVE  InSeq(e, front \o back)
<1>1. /\ Len(front) \in Nat /\ Len(back) \in Nat
      /\ DOMAIN front = 1 .. Len(front) /\ DOMAIN back = 1 .. Len(back)
  OBVIOUS
<1>2. CASE InSeq(e, front)
  <2>1. PICK i \in 1 .. Len(front) : front[i] = e
    BY <1>1, <1>2 DEF InSeq
  <2>2. (front \o back)[i] = e /\ i \in DOMAIN (front \o back)
    BY <2>1
  <2> QED
    BY <2>2 DEF InSeq
<1>3. CASE InSeq(e, back)
  <2>1. PICK i \in 1 .. Len(back) : back[i] = e
    BY <1>1, <1>3 DEF InSeq
  <2>2. (front \o back)[Len(front) + i] = e
    BY <1>1, <2>1
  <2>3. Len(front) + i \in DOMAIN (front \o back)
    BY <1>1, <2>1
  <2> QED
    BY <2>2, <2>3 DEF InSeq
<1> QED
  BY <1>2, <1>3

\* What is in the part of a queue from one place to another.
LEMMA PartKeeps ==
  ASSUME NEW T, NEW queue \in Seq(T), NEW m \in 1 .. Len(queue) + 1, NEW n \in 0 .. Len(queue)
  PROVE  /\ SubSeq(queue, m, n) \in Seq(T)
         /\ \A i \in m .. n : InSeq(queue[i], SubSeq(queue, m, n))
<1>1. SubSeq(queue, m, n) \in Seq(T) /\ Len(queue) \in Nat
  OBVIOUS
<1>2. ASSUME NEW i \in m .. n PROVE InSeq(queue[i], SubSeq(queue, m, n))
  <2>1. i - m + 1 \in 1 .. n - m + 1 /\ m + (i - m + 1) - 1 = i /\ n - m + 1 \in Nat
    BY <1>1, <1>2
  <2>2. DOMAIN SubSeq(queue, m, n) = 1 .. n - m + 1
    BY <1>1, <2>1
  <2>3. SubSeq(queue, m, n)[i - m + 1] = queue[i]
    BY <1>1, <2>1
  <2> QED
    BY <2>1, <2>2, <2>3 DEF InSeq
<1> QED
  BY <1>1, <1>2

LEMMA RotatedKeeps ==
  ASSUME NEW T, NEW queue \in Seq(T), NEW k \in DOMAIN queue
  PROVE  Rotated(queue, k) \in Seq(T) /\ \A e : InSeq(e, queue) => InSeq(e, Rotated(queue, k))
<1>1. /\ Len(queue) \in Nat /\ DOMAIN queue = 1 .. Len(queue)
      /\ k \in 0 .. Len(queue) /\ k + 1 \in 1 .. Len(queue) + 1
      /\ 1 \in 1 .. Len(queue) + 1 /\ Len(queue) \in 0 .. Len(queue)
  OBVIOUS
<1>2. PICK front : front = SubSeq(queue, k + 1, Len(queue))
  OBVIOUS
<1>3. PICK back : back = SubSeq(queue, 1, k)
  OBVIOUS
<1>4. front \in Seq(T) /\ \A i \in k + 1 .. Len(queue) : InSeq(queue[i], front)
  BY <1>1, <1>2, PartKeeps
<1>5. back \in Seq(T) /\ \A i \in 1 .. k : InSeq(queue[i], back)
  BY <1>1, <1>3, PartKeeps
<1>6. Rotated(queue, k) = front \o back
  BY <1>2, <1>3 DEF Rotated
<1>7. front \o back \in Seq(T)
  BY <1>4, <1>5
<1>8. ASSUME NEW e, InSeq(e, queue) PROVE InSeq(e, front \o back)
  <2>1. PICK i \in 1 .. Len(queue) : queue[i] = e
    BY <1>1, <1>8 DEF InSeq
  <2>2. i \in 1 .. k \/ i \in k + 1 .. Len(queue)
    BY <1>1
  <2>3. InSeq(e, front) \/ InSeq(e, back)
    BY <1>4, <1>5, <2>1, <2>2
  <2> QED
    BY <1>4, <1>5, <2>3, JoinedKeeps
<1> QED
  BY <1>6, <1>7, <1>8

LEMMA RemovedKeeps ==
  ASSUME NEW T, NEW queue \in Seq(T), NEW k \in DOMAIN queue
  PROVE  /\ Removed(queue, k) \in Seq(T)
         /\ \A e : InSeq(e, queue) /\ e # queue[k] => InSeq(e, Removed(queue, k))
<1>1. /\ Len(queue) \in Nat /\ DOMAIN queue = 1 .. Len(queue) /\ k \in 1 .. Len(queue)
      /\ k - 1 \in 0 .. Len(queue) /\ k + 1 \in 1 .. Len(queue) + 1
      /\ 1 \in 1 .. Len(queue) + 1 /\ Len(queue) \in 0 .. Len(queue)
  OBVIOUS
<1>2. PICK front : front = SubSeq(queue, 1, k - 1)
  OBVIOUS
<1>3. PICK back : back = SubSeq(queue, k + 1, Len(queue))
  OBVIOUS
<1>4. front \in Seq(T) /\ \A i \in 1 .. k - 1 : InSeq(queue[i], front)
  BY <1>1, <1>2, PartKeeps
<1>5. back \in Seq(T) /\ \A i \in k + 1 .. Len(queue) : InSeq(queue[i], back)
  BY <1>1, <1>3, PartKeeps
<1>6. Removed(queue, k) = front \o back
  BY <1>2, <1>3 DEF Removed
<1>7. front \o back \in Seq(T)
  BY <1>4, <1>5
<1>8. ASSUME NEW e, InSeq(e, queue), e # queue[k] PROVE InSeq(e, front \o back)
  <2>1. PICK i \in 1 .. Len(queue) : queue[i] = e
    BY <1>1, <1>8 DEF InSeq
  <2>2. i \in 1 .. k - 1 \/ i \in k + 1 .. Len(queue)
    BY <1>1, <1>8, <2>1
  <2>3. InSeq(e, front) \/ InSeq(e, back)
    BY <1>4, <1>5, <2>1, <2>2
  <2> QED
    BY <1>4, <1>5, <2>3, JoinedKeeps
<1> QED
  BY <1>6, <1>7, <1>8

\* The first of some places of a queue is one of them.
LEMMA FirstPlace ==
  ASSUME NEW n \in Nat, NEW S \in SUBSET (1 .. n), S # {}
  PROVE  First(S) \in S
<1>1. IsFiniteSet(1 .. n)
  BY FS_Interval
<1>2. IsFiniteSet(S)
  BY <1>1, FS_Subset
<1> QED
  BY <1>2, FirstIsThere

\* The job that is started is in the order, for a token whose turn it is.
LEMMA StartPlaces ==
  ASSUME Inv, StartJob, NEW k, k = First(StartTurns), NEW i, i = First(Startable(tokens[k]))
  PROVE  /\ k \in DOMAIN tokens /\ Startable(tokens[k]) # {}
         /\ i \in DOMAIN order /\ MayStart(order[i], tokens[k])
<1>1. /\ Len(order) \in Nat /\ DOMAIN order = 1 .. Len(order)
      /\ Len(tokens) \in Nat /\ DOMAIN tokens = 1 .. Len(tokens)
  BY DEF Inv, ObservationTypeOK
<1>2. k \in DOMAIN tokens /\ Startable(tokens[k]) # {}
  <2>1. StartTurns \in SUBSET (1 .. Len(tokens)) /\ StartTurns # {}
    BY <1>1 DEF StartTurns, StartJob
  <2>2. k \in StartTurns
    BY <1>1, <2>1, FirstPlace
  <2> QED
    BY <2>2 DEF StartTurns
<1>3. i \in DOMAIN order /\ MayStart(order[i], tokens[k])
  <2>1. Startable(tokens[k]) \in SUBSET (1 .. Len(order))
    BY <1>1 DEF Startable
  <2>2. i \in Startable(tokens[k])
    BY <1>1, <1>2, <2>1, FirstPlace
  <2> QED
    BY <2>2 DEF Startable
<1> QED
  BY <1>2, <1>3

LEMMA StartKeeps ==
  ASSUME Inv, StartJob
  PROVE  Inv'
<1>1. order \in Seq(Job) /\ tokens \in Seq(Bearer)
  BY DEF Inv, ObservationTypeOK
<1>2. PICK k : k = First(StartTurns)
  OBVIOUS
<1>4. PICK i : i = First(Startable(tokens[k]))
  OBVIOUS
<1>3. k \in DOMAIN tokens
  BY <1>2, <1>4, StartPlaces
<1>5. i \in DOMAIN order /\ MayStart(order[i], tokens[k])
  BY <1>2, <1>4, StartPlaces
<1>6. PICK j \in Job : j = order[i]
  BY <1>1, <1>5
<1>7. queued[j] # {} /\ work[j].task = "none"
  BY <1>5, <1>6 DEF MayStart
<1> DEFINE task == [readers |-> queued[j], task |-> "running", n |-> starts[j] + 1]
<1>8. /\ tokens' = Rotated(tokens, k) /\ order' = Removed(order, i)
      /\ queued' = [queued EXCEPT ![j] = {}]
      /\ work' = [work EXCEPT ![j] = task]
      /\ starts' = [starts EXCEPT ![j] = @ + 1]
      /\ UNCHANGED <<reader, answer, since, lapsed, asks, cell, step>>
  BY <1>2, <1>4, <1>6 DEF StartJob, readerVars
<1>9. /\ task \in [readers : SUBSET Reader,
                   task : {"none", "running", "aborted", "done", "cancelled"}, n : Nat]
      /\ task.readers = queued[j] /\ task.task = "running" /\ task.n = starts[j] + 1
      /\ task.n # 0
  BY DEF Inv, ObservationTypeOK
<1> HIDE DEF task
<1>10. /\ work' \in [Job -> [readers : SUBSET Reader,
                             task : {"none", "running", "aborted", "done", "cancelled"}, n : Nat]]
       /\ \A x \in Job : work'[x] = IF x = j THEN task ELSE work[x]
  BY <1>8, <1>9 DEF Inv, ObservationTypeOK
<1>11. /\ queued' \in [Job -> SUBSET Reader]
       /\ \A x \in Job : queued'[x] = IF x = j THEN {} ELSE queued[x]
  BY <1>8 DEF Inv, ObservationTypeOK
<1>12. /\ starts' \in [Job -> Nat]
       /\ \A x \in Job : starts'[x] = IF x = j THEN starts[j] + 1 ELSE starts[x]
       /\ \A x \in Job : starts[x] \in Nat
  BY <1>8 DEF Inv, ObservationTypeOK
<1>13. tokens' \in Seq(Bearer) /\ \A e : InSeq(e, tokens) => InSeq(e, tokens')
  BY <1>1, <1>3, <1>8, RotatedKeeps
<1>14. order' \in Seq(Job) /\ \A e : InSeq(e, order) /\ e # j => InSeq(e, order')
  BY <1>1, <1>5, <1>6, <1>8, RemovedKeeps
<1>15. ObservationTypeOK'
  BY <1>8, <1>10, <1>11, <1>12, <1>13, <1>14 DEF Inv, ObservationTypeOK
<1>16. Placed'
  <2>1. ASSUME NEW x \in Job, NEW r \in queued'[x] \cup work'[x].readers
        PROVE  r \in queued[x] \cup work[x].readers
    BY <1>9, <1>10, <1>11, <2>1
  <2> QED
    BY <1>8, <2>1 DEF Inv, Placed
<1>17. Covered'
  BY <1>11, <1>13, <1>14 DEF Inv, Covered
<1>18. Going'
  BY <1>9, <1>10 DEF Inv, Going
<1>19. Once'
  BY <1>7, <1>8, <1>10, <1>11 DEF Inv, Once
<1>20. Fitting'
  BY <1>8 DEF Inv, Fitting
<1>21. Fresh'
  <2>1. ASSUME NEW r \in Reader PROVE since'[r] \in Nat /\ since'[r] <= starts'[JobOf[r]]
    <3>1. since[r] \in Nat /\ since[r] <= starts[JobOf[r]]
      BY DEF Inv, ObservationTypeOK, Fresh
    <3> QED
      BY <1>8, <1>12, <3>1
  <2>2. ASSUME NEW x \in Job \ Refreshes, NEW r \in work'[x].readers
        PROVE  work'[x].n > since'[r]
    <3>1. CASE x = j
      <4>1. r \in queued[j] /\ work'[x].n = starts[j] + 1
        BY <1>9, <1>10, <2>2, <3>1
      <4>2. r \in Reader /\ JobOf[r] = j
        BY <4>1 DEF Inv, ObservationTypeOK, Placed
      <4>3. since[r] \in Nat /\ since[r] <= starts[j] /\ starts[j] \in Nat
        BY <4>2 DEF Inv, ObservationTypeOK, Fresh
      <4> QED
        BY <1>8, <4>1, <4>3
    <3>2. CASE x # j
      BY <1>8, <1>10, <2>2, <3>2 DEF Inv, Fresh
    <3> QED
      BY <3>1, <3>2
  <2> QED
    BY <2>1, <2>2 DEF Fresh
<1>22. ASSUME NEW r \in Reader PROVE LookedAfter(r)'
  <2>1. LookedAfter(r)
    BY LookedAfterAll DEF Inv
  <2>2. Live(r)' <=> Live(r)
    BY <1>8 DEF Live
  <2>3. CASE JobOf[r] = j
    <3>1. r \notin work[j].readers \/ work[j].task \notin {"running", "done"}
      BY <1>7
    <3>2. r \in queued[j] => r \in work'[j].readers /\ work'[j].task = "running"
      BY <1>9, <1>10
    <3> QED
      BY <1>8, <2>1, <2>2, <2>3, <3>1, <3>2 DEF LookedAfter
  <2>4. CASE JobOf[r] # j
    <3>1. /\ queued'[JobOf[r]] = queued[JobOf[r]] /\ work'[JobOf[r]] = work[JobOf[r]]
          /\ InSeq(JobOf[r], order) => InSeq(JobOf[r], order')
          /\ InSeq(BearerOf[r], tokens) => InSeq(BearerOf[r], tokens')
      BY <1>10, <1>11, <1>13, <1>14, <2>4
    <3> QED
      BY <1>8, <2>1, <2>2, <3>1 DEF LookedAfter, InSeq
  <2> QED
    BY <2>3, <2>4
<1>23. NobodyIsForgotten'
  BY <1>22 DEF NobodyIsForgotten, LookedAfter, InSeq
<1> QED
  BY <1>15, <1>16, <1>17, <1>18, <1>19, <1>20, <1>21, <1>23 DEF Inv

\* Nothing moves but the loop.
LEMMA LoopTurns ==
  ASSUME Inv, step' \in {"waiting", "accepting", "starting"},
         UNCHANGED <<readerVars, asks, queueVars, work, cell, starts>>
  PROVE  Inv'
<1>1. ObservationTypeOK' /\ Placed' /\ Covered'
  BY DEF Inv, ObservationTypeOK, Placed, Covered, InSeq, readerVars, queueVars
<1>2. Going' /\ Once' /\ Fitting' /\ Fresh'
  BY DEF Inv, Going, Once, Fitting, Fresh, readerVars, queueVars
<1>3. NobodyIsForgotten'
  BY DEF Inv, NobodyIsForgotten, Live, readerVars, queueVars
<1> QED
  BY <1>1, <1>2, <1>3 DEF Inv

-----------------------------------------------------------------------------
LEMMA NextInv ==
  ASSUME Inv, [ObservationNext]_observationVars
  PROVE  Inv'
<1>1. ASSUME NEW r \in Reader, Request(r) PROVE Inv'
  BY <1>1, RequestKeeps
<1>2. ASSUME NEW r \in Reader, ReadCell(r) \/ Forgo(r) PROVE Inv'
  BY <1>2, ReaderMoves
<1>3. ASSUME NEW t \in Bearer, Lapse(t) PROVE Inv'
  BY <1>3, LapseKeeps
<1>4. ASSUME NEW j \in Job, Complete(j) \/ Cancel(j) PROVE Inv'
  BY <1>4, TaskEnds
<1>5. ASSUME NEW j \in Job, JoinNext(j) PROVE Inv'
  BY <1>5, ConcludeKeeps, DropKeeps DEF JoinNext
<1>6. CASE AcceptCall
  BY <1>6, AcceptCallKeeps
<1>7. CASE PruneJobs
  BY <1>7, PruneKeeps
<1>8. CASE StartJob
  BY <1>8, StartKeeps
<1>9. CASE GoRound \/ EndRound
  BY <1>9, LoopTurns DEF GoRound, EndRound
<1>10. CASE UNCHANGED observationVars
  <2>1. /\ UNCHANGED <<readerVars, asks, queueVars, work, cell, starts>> /\ step' = step
    BY <1>10 DEF observationVars
  <2>2. step' \in {"waiting", "accepting", "starting"}
    BY <2>1 DEF Inv, ObservationTypeOK
  <2> QED
    BY <2>1, <2>2, LoopTurns
<1> QED
  BY <1>1, <1>2, <1>3, <1>4, <1>5, <1>6, <1>7, <1>8, <1>9, <1>10 DEF ObservationNext

LEMMA SpecInv == ObservationSpec => []Inv
<1>1. ObservationInit => Inv
  BY InitInv
<1>2. Inv /\ [ObservationNext]_observationVars => Inv'
  BY NextInv
<1> QED
  BY <1>1, <1>2, PTL DEF ObservationSpec

\* Whoever asked for an observation and still wants it is in the channel, waits in a
\* queue that gets its turn, or waits for a task that will be joined, for any number of
\* readers, jobs, applications and tokens, and any limits.  (Scheduler::run, Jobs)
THEOREM ReadersAreLookedAfter == ObservationSpec => []NobodyIsForgotten
BY SpecInv, PTL DEF Inv

\* A scan is answered by a task that began after its reader asked, and all who are
\* answered about a reference hear the same.  (Jobs::push, Jobs::finish, Refresh.result)
THEOREM AnswersAlwaysFit == ObservationSpec => []AnswersFit
<1>1. Inv => AnswersFit
  BY DEF Inv, Fitting, AnswersFit
<1> QED
  BY <1>1, SpecInv, PTL

-----------------------------------------------------------------------------
(* The order of the jobs. *)

\* No entry is there twice.
Distinct(queue) == \A i, k \in DOMAIN queue : queue[i] = queue[k] => i = k

LEMMA AppendIsDistinct ==
  ASSUME NEW T, NEW queue \in Seq(T), NEW e \in T, Distinct(queue), ~InSeq(e, queue)
  PROVE  Distinct(Append(queue, e))
<1>1. /\ Len(queue) \in Nat /\ DOMAIN queue = 1 .. Len(queue)
      /\ DOMAIN Append(queue, e) = 1 .. Len(queue) + 1
      /\ Append(queue, e)[Len(queue) + 1] = e
      /\ \A i \in 1 .. Len(queue) : Append(queue, e)[i] = queue[i]
  OBVIOUS
<1>2. \A i \in DOMAIN Append(queue, e) : i \in DOMAIN queue \/ i = Len(queue) + 1
  BY <1>1
<1>3. \A i \in DOMAIN queue : queue[i] # e
  BY DEF InSeq
<1> QED
  BY <1>1, <1>2, <1>3 DEF Distinct

LEMMA RemovedIsDistinct ==
  ASSUME NEW T, NEW queue \in Seq(T), NEW k \in DOMAIN queue, Distinct(queue)
  PROVE  /\ Distinct(Removed(queue, k))
         /\ \A e : InSeq(e, Removed(queue, k)) => InSeq(e, queue) /\ e # queue[k]
<1>1. /\ Len(queue) \in Nat /\ DOMAIN queue = 1 .. Len(queue) /\ k \in 1 .. Len(queue)
  OBVIOUS
<1>2. PICK front : front = SubSeq(queue, 1, k - 1)
  OBVIOUS
<1>3. PICK back : back = SubSeq(queue, k + 1, Len(queue))
  OBVIOUS
<1>4. front \in Seq(T) /\ Len(front) = k - 1 /\ \A i \in 1 .. k - 1 : front[i] = queue[i]
  BY <1>1, <1>2
<1>5. /\ back \in Seq(T) /\ Len(back) = Len(queue) - k
      /\ \A i \in 1 .. Len(queue) - k : back[i] = queue[k + i]
  BY <1>1, <1>3
<1>6. Removed(queue, k) = front \o back
  BY <1>2, <1>3 DEF Removed
<1>7. DOMAIN (front \o back) = 1 .. Len(queue) - 1
  <2>0. front \in Seq(T) /\ back \in Seq(T)
    BY <1>4, <1>5
  <2>3. front \o back \in Seq(T) /\ Len(front \o back) = Len(front) + Len(back)
    BY <2>0
  <2>1. DOMAIN (front \o back) = 1 .. Len(front) + Len(back)
    BY <2>3
  <2>2. Len(front) + Len(back) = Len(queue) - 1
    BY <1>1, <1>4, <1>5
  <2> QED
    BY <2>1, <2>2
<1> DEFINE at(i) == IF i < k THEN i ELSE i + 1
<1>8. ASSUME NEW i \in 1 .. Len(queue) - 1
      PROVE  at(i) \in DOMAIN queue /\ at(i) # k /\ (front \o back)[i] = queue[at(i)]
  <2>1. CASE i < k
    <3>1. i \in 1 .. k - 1 /\ i \in 1 .. Len(front)
      BY <1>1, <1>4, <2>1
    <3>2. (front \o back)[i] = front[i]
      BY <1>4, <1>5, <3>1
    <3> QED
      BY <1>1, <1>4, <2>1, <3>1, <3>2
  <2>2. CASE ~(i < k)
    <3>1. /\ i \in 1 .. Len(front) + Len(back) /\ ~(i <= Len(front))
          /\ i - Len(front) \in 1 .. Len(queue) - k /\ k + (i - Len(front)) = i + 1
      BY <1>1, <1>4, <1>5, <2>2
    <3>2. (front \o back)[i] = back[i - Len(front)]
      BY <1>4, <1>5, <3>1
    <3>3. (front \o back)[i] = queue[i + 1]
      BY <1>5, <3>1, <3>2
    <3> QED
      BY <1>1, <2>2, <3>3
  <2> QED
    BY <2>1, <2>2
<1>9. ASSUME NEW i \in 1 .. Len(queue) - 1, NEW j \in 1 .. Len(queue) - 1, at(i) = at(j)
      PROVE  i = j
  BY <1>1, <1>9
<1> HIDE DEF at
<1>10. ASSUME NEW i \in 1 .. Len(queue) - 1, NEW j \in 1 .. Len(queue) - 1,
              (front \o back)[i] = (front \o back)[j]
       PROVE  i = j
  BY <1>8, <1>9, <1>10 DEF Distinct
<1>11. ASSUME NEW e, InSeq(e, front \o back) PROVE InSeq(e, queue) /\ e # queue[k]
  <2>1. PICK i \in 1 .. Len(queue) - 1 : (front \o back)[i] = e
    BY <1>7, <1>11 DEF InSeq
  <2> QED
    BY <1>8, <2>1 DEF InSeq, Distinct
<1>12. Distinct(front \o back)
  BY <1>7, <1>10 DEF Distinct
<1> QED
  BY <1>6, <1>11, <1>12

LEMMA KeptIsDistinct ==
  ASSUME NEW T, NEW queue \in Seq(T), NEW S, Distinct(queue)
  PROVE  /\ Distinct(Kept(queue, S))
         /\ \A i \in DOMAIN Kept(queue, S) : Kept(queue, S)[i] \in S
<1> DEFINE kept == KeptFrom(queue, S)
           n == Cardinality(kept)
<1>1. /\ Kept(queue, S) = [k \in 1 .. n |-> Kept(queue, S)[k]]
      /\ \A k \in 1 .. n : \E i \in kept : Kept(queue, S)[k] = queue[i] /\ Rank(i, kept) = k
  BY KeptPlaces
<1>2. \A i \in kept : i \in DOMAIN queue /\ queue[i] \in S
  BY DEF KeptFrom
<1> HIDE DEF kept, n
<1>3. DOMAIN Kept(queue, S) = 1 .. n
  BY <1>1
<1>4. ASSUME NEW k \in 1 .. n, NEW l \in 1 .. n, Kept(queue, S)[k] = Kept(queue, S)[l]
      PROVE  k = l
  <2>1. PICK i \in kept : Kept(queue, S)[k] = queue[i] /\ Rank(i, kept) = k
    BY <1>1
  <2>2. PICK j \in kept : Kept(queue, S)[l] = queue[j] /\ Rank(j, kept) = l
    BY <1>1
  <2>3. i = j
    BY <1>2, <1>4, <2>1, <2>2 DEF Distinct
  <2> QED
    BY <2>1, <2>2, <2>3
<1>5. \A k \in 1 .. n : Kept(queue, S)[k] \in S
  BY <1>1, <1>2
<1> QED
  BY <1>3, <1>4, <1>5 DEF Distinct

\* The order names a job once, and one that nobody waits for only until the queues are
\* pruned, and only where its result is known.
Ordered ==
  /\ Distinct(order)
  /\ \A j \in Job : InSeq(j, order) /\ queued[j] = {} =>
       step # "starting" /\ j \in Refreshes /\ cell[j] # 0

LEMMA OrderedInit == ObservationInit => Ordered
BY DEF ObservationInit, Ordered, Distinct, InSeq

LEMMA AcceptOrdered ==
  ASSUME Inv, Ordered, AcceptCall
  PROVE  Ordered'
<1> DEFINE q == Head(asks)
           k == JobOf[q]
<1>1. q \in Reader /\ k \in Job
  <2>1. asks \in Seq(Reader) /\ asks # <<>>
    BY DEF Inv, ObservationTypeOK, AcceptCall
  <2>2. q \in Reader
    BY <2>1, HeadOrTail
  <2> QED
    BY <2>2
<1>2. step' # "starting" /\ UNCHANGED cell /\ order \in Seq(Job)
  BY DEF AcceptCall, Inv, ObservationTypeOK
<1>3. CASE PushAnswers(q) \/ PushJoins(q)
  <2>1. UNCHANGED <<order, queued>>
    BY <1>3 DEF PushAnswers, PushJoins, queueVars
  <2> QED
    BY <1>2, <2>1 DEF Ordered, Distinct, InSeq
<1>4. CASE PushQueues(q)
  <2>1. queued' = [queued EXCEPT ![k] = @ \cup {q}]
    BY <1>4 DEF PushQueues
  <2>2. \A j \in Job : queued'[j] = IF j = k THEN queued[k] \cup {q} ELSE queued[j]
    BY <2>1 DEF Inv, ObservationTypeOK
  <2>3. order' = IF queued[k] = {} THEN Append(order, k) ELSE order
    BY <1>4 DEF PushQueues
  <2> HIDE DEF k
  <2>4. CASE queued[k] # {}
    BY <1>2, <2>2, <2>3, <2>4 DEF Ordered, Distinct, InSeq
  <2>5. CASE queued[k] = {}
    <3>1. ~InSeq(k, order)
      BY <1>1, <1>4, <2>5 DEF Ordered, PushQueues, HasResult, k
    <3>2. order' = Append(order, k) /\ Distinct(order')
      BY <1>1, <1>2, <2>3, <2>5, <3>1, AppendIsDistinct DEF Ordered
    <3>3. ASSUME NEW j, InSeq(j, order') PROVE j = k \/ InSeq(j, order)
      <4>1. /\ Len(order) \in Nat /\ DOMAIN order = 1 .. Len(order)
            /\ DOMAIN order' = 1 .. Len(order) + 1 /\ order'[Len(order) + 1] = k
            /\ \A i \in 1 .. Len(order) : order'[i] = order[i]
        BY <1>1, <1>2, <3>2
      <4>2. PICK i \in 1 .. Len(order) + 1 : order'[i] = j
        BY <3>3, <4>1 DEF InSeq
      <4>3. i \in 1 .. Len(order) \/ i = Len(order) + 1
        BY <4>1
      <4> QED
        BY <4>1, <4>2, <4>3 DEF InSeq
    <3> QED
      BY <1>1, <1>2, <2>2, <3>2, <3>3 DEF Ordered
  <2> QED
    BY <2>4, <2>5
<1> QED
  BY <1>3, <1>4 DEF AcceptCall

LEMMA ConcludeOrdered ==
  ASSUME Inv, Ordered, NEW k \in Job, step' = "accepting", Conclude(k)
  PROVE  Ordered'
<1> DEFINE late == IF k \in Refreshes THEN queued[k] ELSE {}
<1>1. /\ UNCHANGED order /\ work[k].task = "done"
      /\ queued' = [queued EXCEPT ![k] = @ \ late]
      /\ cell' = IF k \in Refreshes /\ cell[k] = 0 THEN [cell EXCEPT ![k] = work[k].n] ELSE cell
  BY DEF Conclude
<1>2. work[k].n \in Nat /\ work[k].n # 0
  BY <1>1 DEF Inv, ObservationTypeOK, Going
<1>3. \A j \in Job : queued'[j] = IF j = k THEN queued[k] \ late ELSE queued[j]
  BY <1>1 DEF Inv, ObservationTypeOK
<1>4. \A j \in Job : cell'[j] = IF j = k /\ k \in Refreshes /\ cell[k] = 0 THEN work[k].n ELSE cell[j]
  BY <1>1, <1>2 DEF Inv, ObservationTypeOK
<1>5. k \notin Refreshes => queued'[k] = queued[k]
  BY <1>3
<1>6. \A j \in Job \ {k} : queued'[j] = queued[j]
  BY <1>3
<1>7. k \in Refreshes => cell'[k] # 0
  BY <1>2, <1>4
<1>8. \A j \in Job : cell[j] # 0 => cell'[j] # 0
  BY <1>2, <1>4
<1> HIDE DEF late
<1> QED
  BY <1>1, <1>5, <1>6, <1>7, <1>8 DEF Ordered, Distinct, InSeq

LEMMA PruneOrdered ==
  ASSUME Inv, Ordered, PruneJobs
  PROVE  Ordered'
<1> DEFINE waiting == {j \in Job : queued'[j] # {}}
<1>1. order' = Kept(order, waiting) /\ order \in Seq(Job)
  BY DEF PruneJobs, Inv, ObservationTypeOK
<1>2. Distinct(order') /\ \A i \in DOMAIN order' : order'[i] \in waiting
  <2> HIDE DEF waiting
  <2> QED
    BY <1>1, KeptIsDistinct DEF Ordered
<1> QED
  BY <1>2 DEF Ordered, InSeq

LEMMA StartTakes ==
  ASSUME Inv, StartJob
  PROVE  \E i \in DOMAIN order : /\ order' = Removed(order, i)
                                 /\ queued' = [queued EXCEPT ![order[i]] = {}]
<1>1. PICK k : k = First(StartTurns)
  OBVIOUS
<1>2. PICK i : i = First(Startable(tokens[k]))
  OBVIOUS
<1>3. k \in DOMAIN tokens /\ Startable(tokens[k]) # {} /\ i \in DOMAIN order
  BY <1>1, <1>2, StartPlaces
<1> QED
  BY <1>1, <1>2, <1>3 DEF StartJob

LEMMA StartOrdered ==
  ASSUME Inv, Ordered, StartJob
  PROVE  Ordered'
<1>1. PICK i \in DOMAIN order : /\ order' = Removed(order, i)
                                /\ queued' = [queued EXCEPT ![order[i]] = {}]
  BY StartTakes
<1>2. order \in Seq(Job) /\ order[i] \in Job
  BY DEF Inv, ObservationTypeOK
<1>3. Distinct(order') /\ \A e : InSeq(e, order') => InSeq(e, order) /\ e # order[i]
  BY <1>1, <1>2, RemovedIsDistinct DEF Ordered
<1>4. \A j \in Job : j # order[i] => queued'[j] = queued[j]
  BY <1>1, <1>2 DEF Inv, ObservationTypeOK
<1>5. UNCHANGED cell /\ step = "starting"
  BY DEF StartJob
<1> QED
  BY <1>3, <1>4, <1>5 DEF Ordered

LEMMA OthersOrdered ==
  ASSUME Ordered, UNCHANGED <<queueVars, cell>>, step' = step \/ step' # "starting"
  PROVE  Ordered'
BY DEF Ordered, Distinct, InSeq, queueVars

LEMMA NextOrdered ==
  ASSUME Inv, Ordered, [ObservationNext]_observationVars
  PROVE  Ordered'
<1>1. CASE AcceptCall
  BY <1>1, AcceptOrdered
<1>2. CASE PruneJobs
  BY <1>2, PruneOrdered
<1>3. CASE StartJob
  BY <1>3, StartOrdered
<1>4. ASSUME NEW j \in Job, JoinNext(j) PROVE Ordered'
  <2>1. CASE Conclude(j)
    BY <1>4, <2>1, ConcludeOrdered DEF JoinNext
  <2>2. CASE Drop(j)
    BY <1>4, <2>2, OthersOrdered DEF JoinNext, Drop
  <2> QED
    BY <1>4, <2>1, <2>2 DEF JoinNext
<1>5. ASSUME NEW r \in Reader, Request(r) \/ ReadCell(r) \/ Forgo(r) PROVE Ordered'
  BY <1>5, OthersOrdered DEF Request, ReadCell, Forgo
<1>6. ASSUME NEW t \in Bearer, Lapse(t) PROVE Ordered'
  BY <1>6, OthersOrdered DEF Lapse
<1>7. ASSUME NEW j \in Job, Complete(j) \/ Cancel(j) PROVE Ordered'
  BY <1>7, OthersOrdered DEF Complete, Cancel
<1>8. CASE GoRound \/ EndRound
  BY <1>8, OthersOrdered DEF GoRound, EndRound
<1>9. CASE UNCHANGED observationVars
  BY <1>9, OthersOrdered DEF observationVars
<1> QED
  BY <1>1, <1>2, <1>3, <1>4, <1>5, <1>6, <1>7, <1>8, <1>9 DEF ObservationNext

\* Every entry of the order is a job in the queue when jobs are started, and is there
\* once: Jobs::next never looks up one that is not there.
THEOREM JobsAreFoundInTheQueue == ObservationSpec => []OrderNamesQueuedJobs
<1>1. ObservationInit => Inv /\ Ordered
  BY InitInv, OrderedInit
<1>2. Inv /\ Ordered /\ [ObservationNext]_observationVars => Inv' /\ Ordered'
  BY NextInv, NextOrdered
<1>3. Inv /\ Ordered => OrderNamesQueuedJobs
  <2> SUFFICES ASSUME Inv, Ordered, step = "starting", NEW i \in DOMAIN order
               PROVE  queued[order[i]] # {} /\ \A k \in DOMAIN order : order[k] = order[i] => k = i
    BY DEF OrderNamesQueuedJobs
  <2>1. order[i] \in Job /\ InSeq(order[i], order)
    BY DEF Inv, ObservationTypeOK, InSeq
  <2> QED
    BY <2>1 DEF Ordered, Distinct
<1> QED
  BY <1>1, <1>2, <1>3, PTL DEF ObservationSpec

-----------------------------------------------------------------------------
(* Queues that are cut and joined. *)

\* A part of a queue without repetition has none, and holds just what stood there.
LEMMA PartIsDistinct ==
  ASSUME NEW T, NEW queue \in Seq(T), Distinct(queue),
         NEW m \in 1 .. Len(queue) + 1, NEW n \in 0 .. Len(queue)
  PROVE  /\ SubSeq(queue, m, n) \in Seq(T) /\ Distinct(SubSeq(queue, m, n))
         /\ \A e : InSeq(e, SubSeq(queue, m, n)) <=> \E i \in m .. n : queue[i] = e
<1>1. PICK part : part = SubSeq(queue, m, n)
  OBVIOUS
<1>2. /\ Len(queue) \in Nat /\ DOMAIN queue = 1 .. Len(queue)
      /\ part \in Seq(T) /\ part = SubSeq(queue, m, n)
  BY <1>1
<1>3. CASE m > n
  <2>1. part = <<>> /\ DOMAIN part = {} /\ m .. n = {}
    BY <1>2, <1>3
  <2> QED
    BY <1>2, <2>1 DEF Distinct, InSeq
<1>4. CASE m <= n
  <2>1. /\ DOMAIN part = 1 .. n - m + 1
        /\ \A i \in 1 .. n - m + 1 : part[i] = queue[m + i - 1]
    BY <1>2, <1>4
  <2>2. \A i \in 1 .. n - m + 1 : m + i - 1 \in m .. n /\ m + i - 1 \in DOMAIN queue
    BY <1>2
  <2>3. ASSUME NEW i \in DOMAIN part, NEW j \in DOMAIN part, part[i] = part[j] PROVE i = j
    <3>1. queue[m + i - 1] = queue[m + j - 1]
      BY <2>1, <2>3
    <3>2. m + i - 1 = m + j - 1
      BY <2>1, <2>2, <3>1 DEF Distinct
    <3> QED
      BY <2>1, <3>2
  <2>4. ASSUME NEW e, InSeq(e, part) PROVE \E i \in m .. n : queue[i] = e
    BY <2>1, <2>2, <2>4 DEF InSeq
  <2>5. ASSUME NEW e, NEW i \in m .. n, queue[i] = e PROVE InSeq(e, part)
    <3>1. i - m + 1 \in 1 .. n - m + 1 /\ m + (i - m + 1) - 1 = i
      BY <1>2
    <3> QED
      BY <2>1, <2>5, <3>1 DEF InSeq
  <2> QED
    BY <1>2, <2>3, <2>4, <2>5 DEF Distinct
<1> QED
  BY <1>3, <1>4

\* Two queues that share no entry make one without repetition.
LEMMA JoinedIsDistinct ==
  ASSUME NEW T, NEW front \in Seq(T), NEW back \in Seq(T), Distinct(front), Distinct(back),
         \A e : ~(InSeq(e, front) /\ InSeq(e, back))
  PROVE  /\ front \o back \in Seq(T) /\ Distinct(front \o back)
         /\ \A e : InSeq(e, front \o back) <=> InSeq(e, front) \/ InSeq(e, back)
<1>1. PICK f : f = Len(front)
  OBVIOUS
<1>2. PICK b : b = Len(back)
  OBVIOUS
<1>3. /\ f \in Nat /\ b \in Nat /\ DOMAIN front = 1 .. f /\ DOMAIN back = 1 .. b
      /\ front \o back \in Seq(T) /\ Len(front \o back) = f + b
  BY <1>1, <1>2
<1>4. DOMAIN (front \o back) = 1 .. f + b
  BY <1>3
<1>5. \A i \in 1 .. f + b : (front \o back)[i] = IF i <= f THEN front[i] ELSE back[i - f]
  BY <1>1, <1>2, <1>3
<1>6. PICK all : all = front \o back
  OBVIOUS
<1>7. \A i \in 1 .. f : i \in 1 .. f + b /\ all[i] = front[i] /\ InSeq(all[i], front)
  <2> TAKE i \in 1 .. f
  <2>1. i \in 1 .. f + b /\ i <= f
    BY <1>3
  <2>2. all[i] = front[i]
    BY <1>5, <1>6, <2>1
  <2> QED
    BY <1>3, <2>1, <2>2 DEF InSeq
<1>8. \A i \in 1 .. b : f + i \in 1 .. f + b /\ all[f + i] = back[i] /\ InSeq(all[f + i], back)
  <2> TAKE i \in 1 .. b
  <2>1. f + i \in 1 .. f + b /\ ~(f + i <= f) /\ f + i - f = i
    BY <1>3
  <2> QED
    BY <1>3, <1>5, <1>6, <2>1 DEF InSeq
<1>9. \A i \in 1 .. f + b : i \in 1 .. f \/ \E k \in 1 .. b : i = f + k
  <2> TAKE i \in 1 .. f + b
  <2>1. CASE i <= f
    BY <1>3, <2>1
  <2>2. CASE ~(i <= f)
    <3>1. i - f \in 1 .. b /\ i = f + (i - f)
      BY <1>3, <2>2
    <3> QED
      BY <3>1
  <2> QED
    BY <2>1, <2>2
<1>10. ASSUME NEW i \in 1 .. f + b, NEW j \in 1 .. f + b, all[i] = all[j] PROVE i = j
  <2>1. CASE i \in 1 .. f /\ j \in 1 .. f
    BY <1>3, <1>7, <1>10, <2>1 DEF Distinct
  <2>2. ASSUME NEW k \in 1 .. b, NEW l \in 1 .. b, i = f + k, j = f + l PROVE i = j
    <3>1. back[k] = back[l]
      BY <1>8, <1>10, <2>2
    <3> QED
      BY <1>3, <2>2, <3>1 DEF Distinct
  <2>3. ~(i \in 1 .. f /\ \E k \in 1 .. b : j = f + k)
    BY <1>7, <1>8, <1>10
  <2>4. ~(j \in 1 .. f /\ \E k \in 1 .. b : i = f + k)
    BY <1>7, <1>8, <1>10
  <2> QED
    BY <1>9, <2>1, <2>2, <2>3, <2>4
<1>11. ASSUME NEW e PROVE InSeq(e, all) <=> InSeq(e, front) \/ InSeq(e, back)
  <2>1. InSeq(e, all) => InSeq(e, front) \/ InSeq(e, back)
    BY <1>4, <1>6, <1>7, <1>8, <1>9 DEF InSeq
  <2>2. InSeq(e, front) => InSeq(e, all)
    BY <1>3, <1>4, <1>6, <1>7 DEF InSeq
  <2>3. ASSUME InSeq(e, back) PROVE InSeq(e, all)
    <3>1. PICK i \in 1 .. b : back[i] = e
      BY <1>3, <2>3 DEF InSeq
    <3>2. f + i \in DOMAIN all /\ all[f + i] = e
      BY <1>4, <1>6, <1>8, <3>1
    <3> QED
      BY <3>2 DEF InSeq
  <2> QED
    BY <2>1, <2>2, <2>3
<1> QED
  BY <1>3, <1>4, <1>6, <1>10, <1>11 DEF Distinct

\* The others in their new order: those behind k, then those before it.
Others(queue, k) == SubSeq(queue, k + 1, Len(queue)) \o SubSeq(queue, 1, k - 1)

LEMMA OthersAreKept ==
  ASSUME NEW T, NEW queue \in Seq(T), NEW k \in DOMAIN queue, Distinct(queue)
  PROVE  /\ Others(queue, k) \in Seq(T) /\ Distinct(Others(queue, k))
         /\ \A e : InSeq(e, Others(queue, k)) <=> InSeq(e, queue) /\ e # queue[k]
<1>1. /\ Len(queue) \in Nat /\ DOMAIN queue = 1 .. Len(queue) /\ k \in 1 .. Len(queue)
      /\ k - 1 \in 0 .. Len(queue) /\ k + 1 \in 1 .. Len(queue) + 1
      /\ 1 \in 1 .. Len(queue) + 1 /\ Len(queue) \in 0 .. Len(queue)
  OBVIOUS
<1>2. PICK front : front = SubSeq(queue, k + 1, Len(queue))
  OBVIOUS
<1>3. PICK back : back = SubSeq(queue, 1, k - 1)
  OBVIOUS
<1>4. /\ front \in Seq(T) /\ Distinct(front)
      /\ \A e : InSeq(e, front) <=> \E i \in k + 1 .. Len(queue) : queue[i] = e
  <2>1. PICK m : m = k + 1
    OBVIOUS
  <2>2. m \in 1 .. Len(queue) + 1
    BY <1>1, <2>1
  <2>3. PICK n : n = Len(queue)
    OBVIOUS
  <2>4. n \in 0 .. Len(queue)
    BY <1>1, <2>3
  <2>5. /\ SubSeq(queue, m, n) \in Seq(T) /\ Distinct(SubSeq(queue, m, n))
        /\ \A e : InSeq(e, SubSeq(queue, m, n)) <=> \E i \in m .. n : queue[i] = e
    BY <2>2, <2>4, PartIsDistinct
  <2> QED
    BY <1>2, <2>1, <2>3, <2>5
<1>5. /\ back \in Seq(T) /\ Distinct(back)
      /\ \A e : InSeq(e, back) <=> \E i \in 1 .. k - 1 : queue[i] = e
  <2>1. PICK m : m = 1
    OBVIOUS
  <2>2. m \in 1 .. Len(queue) + 1
    BY <1>1, <2>1
  <2>3. PICK n : n = k - 1
    OBVIOUS
  <2>4. n \in 0 .. Len(queue)
    BY <1>1, <2>3
  <2>5. /\ SubSeq(queue, m, n) \in Seq(T) /\ Distinct(SubSeq(queue, m, n))
        /\ \A e : InSeq(e, SubSeq(queue, m, n)) <=> \E i \in m .. n : queue[i] = e
    BY <2>2, <2>4, PartIsDistinct
  <2> QED
    BY <1>3, <2>1, <2>3, <2>5
<1>6. \A i \in k + 1 .. Len(queue), j \in 1 .. k - 1 : queue[i] # queue[j]
  <2>1. \A i \in k + 1 .. Len(queue), j \in 1 .. k - 1 :
          i \in DOMAIN queue /\ j \in DOMAIN queue /\ i # j
    BY <1>1
  <2> QED
    BY <2>1 DEF Distinct
<1>7. \A e : ~(InSeq(e, front) /\ InSeq(e, back))
  BY <1>4, <1>5, <1>6
<1>8. /\ front \o back \in Seq(T) /\ Distinct(front \o back)
      /\ \A e : InSeq(e, front \o back) <=> InSeq(e, front) \/ InSeq(e, back)
  BY <1>4, <1>5, <1>7, JoinedIsDistinct
<1>9. \A i \in DOMAIN queue : i # k <=> i \in k + 1 .. Len(queue) \/ i \in 1 .. k - 1
  BY <1>1
<1>10. ASSUME NEW e PROVE InSeq(e, front) \/ InSeq(e, back) <=> InSeq(e, queue) /\ e # queue[k]
  <2>1. k + 1 .. Len(queue) \subseteq DOMAIN queue /\ 1 .. k - 1 \subseteq DOMAIN queue
    BY <1>1
  <2>2. \A i \in DOMAIN queue : i # k <=> queue[i] # queue[k]
    BY DEF Distinct
  <2> QED
    BY <1>4, <1>5, <1>9, <2>1, <2>2 DEF InSeq
<1> QED
  BY <1>2, <1>3, <1>8, <1>10 DEF Others

-----------------------------------------------------------------------------
(* Mutations: why the scheduler never sleeps through a slot.  While the task waits,
   every lease it still counts is either held or has somebody on the way to wake it, and
   nothing in the queues could be admitted beside what it counts. *)

\* The turn names the tokens with requests, once each.
Turned == Distinct(turn) /\ \A t \in Tokens : InSeq(t, turn) <=> pending[t] # <<>>

Leases == \A c \in Caller : caller[c] = "granted" => ApplicationOf[c] \in active
Stirred == wake \/ \E c \in Caller : caller[c] = "leaving"
Stirs == place # "accepting" => \A a \in active : Leased(a) \/ Stirred
Rests ==
  place = "waiting" =>
    Cardinality(active) >= MUTATIONS \/ \A t \in Tokens : Ready(t) = {}

AdmissionInv == AdmissionTypeOK /\ Turned /\ Leases /\ OnePermit /\ Stirs /\ Rests

LEMMA AdmissionsBegin == AdmissionInit => AdmissionInv
<1> SUFFICES ASSUME AdmissionInit PROVE AdmissionInv
  OBVIOUS
<1>1. AdmissionTypeOK
  <2>1. /\ caller \in [Caller -> {"idle", "asked", "granted", "leaving"}]
        /\ ended \subseteq Tokens /\ active \subseteq Wanted /\ place = "waiting"
    BY DEF AdmissionInit
  <2>2. requests \in Seq(Caller) /\ turn \in Seq(Tokens) /\ pending \in [Tokens -> Seq(Caller)]
    <3>1. requests = <<>> /\ turn = <<>> /\ pending = [t \in Tokens |-> <<>>]
      BY DEF AdmissionInit
    <3>2. <<>> \in Seq(Caller) /\ <<>> \in Seq(Tokens)
      OBVIOUS
    <3> QED
      BY <3>1, <3>2
  <2>3. wake \in BOOLEAN
    BY DEF AdmissionInit
  <2> QED
    BY <2>1, <2>2, <2>3 DEF AdmissionTypeOK
<1>2. Turned
  <2>1. turn = <<>> /\ DOMAIN turn = {} /\ \A t \in Tokens : pending[t] = <<>>
    BY DEF AdmissionInit
  <2> QED
    BY <2>1 DEF Turned, Distinct, InSeq
<1>3. \A t \in Tokens : Ready(t) = {}
  <2>1. \A t \in Tokens : DOMAIN pending[t] = {}
    BY DEF AdmissionInit
  <2> QED
    BY <2>1 DEF Ready
<1> QED
  BY <1>1, <1>2, <1>3 DEF AdmissionInit, AdmissionInv, Leases, OnePermit, Stirs, Rests

\* A caller that moves: nothing changes in the queues, and a lease that is let go leaves
\* somebody on the way.
LEMMA CallersKeep ==
  ASSUME AdmissionInv, NEW c \in Caller, Ask(c) \/ Forsake(c) \/ DropLease(c) \/ DropWakes(c)
  PROVE  AdmissionInv'
<1>1. AdmissionTypeOK'
  <2>1. caller' \in [Caller -> {"idle", "asked", "granted", "leaving"}]
    BY DEF AdmissionInv, AdmissionTypeOK, Ask, Forsake, DropLease, DropWakes
  <2>2. requests' = Append(requests, c) \/ requests' = requests
    BY DEF Ask, Forsake, DropLease, DropWakes
  <2>3. requests' \in Seq(Caller)
    <3>1. requests \in Seq(Caller)
      BY DEF AdmissionInv, AdmissionTypeOK
    <3>2. Append(requests, c) \in Seq(Caller)
      BY <3>1, AppendKeeps
    <3> QED
      BY <2>2, <3>1, <3>2
  <2>4. UNCHANGED <<ended, pending, turn, active, place>> /\ (wake' = wake \/ wake' = TRUE)
    BY DEF Ask, Forsake, DropLease, DropWakes
  <2> QED
    BY <2>1, <2>3, <2>4 DEF AdmissionInv, AdmissionTypeOK
<1>2. UNCHANGED <<pending, turn, active, place>>
  BY DEF Ask, Forsake, DropLease, DropWakes
<1>3. Turned' /\ Rests'
  BY <1>2 DEF AdmissionInv, Turned, Rests, Ready, Admissible
<1>4. \A d \in Caller : caller'[d] = "granted" => caller[d] = "granted"
  BY DEF AdmissionInv, AdmissionTypeOK, Ask, Forsake, DropLease, DropWakes
<1>5. Leases' /\ OnePermit'
  BY <1>2, <1>4 DEF AdmissionInv, Leases, OnePermit
<1>6. Stirs'
  <2>1. Stirred => Stirred'
    BY DEF AdmissionInv, AdmissionTypeOK, Stirred, Ask, Forsake, DropLease, DropWakes
  <2>2. ASSUME NEW a, Leased(a) PROVE Leased(a)' \/ Stirred'
    BY <2>2 DEF AdmissionInv, AdmissionTypeOK, Leased, Stirred, Ask, Forsake, DropLease, DropWakes
  <2> QED
    BY <1>2, <2>1, <2>2 DEF AdmissionInv, Stirs
<1> QED
  BY <1>1, <1>3, <1>5, <1>6 DEF AdmissionInv

\* A token that ends.
LEMMA EndsKeep == AdmissionInv /\ (\E t \in Tokens : End(t)) => AdmissionInv'
<1> SUFFICES ASSUME AdmissionInv, NEW t \in Tokens, End(t) PROVE AdmissionInv'
  OBVIOUS
<1>1. UNCHANGED <<caller, requests, pending, turn, active, place, wake>> /\ ended' \subseteq Tokens
  BY DEF End, AdmissionInv, AdmissionTypeOK
<1> QED
  BY <1>1 DEF AdmissionInv, AdmissionTypeOK, Turned, Leases, OnePermit, Stirs, Stirred,
              Leased, Rests, Ready, Admissible

\* A request that is pushed gives its token a turn unless it has one.
LEMMA PushKeeps ==
  ASSUME AdmissionInv, requests # <<>>, requests' = Tail(requests), Push(Head(requests)),
         UNCHANGED <<caller, ended, active>>, place' = "accepting", wake' \in BOOLEAN
  PROVE  AdmissionInv'
<1> DEFINE c == Head(requests)
           t == TokenOf[c]
<1>1. c \in Caller /\ requests' \in Seq(Caller) /\ t \in Tokens
  <2>1. c \in Caller /\ requests' \in Seq(Caller)
    BY DEF AdmissionInv, AdmissionTypeOK
  <2> QED
    BY <2>1 DEF Tokens
<1> HIDE DEF c
<1>2. /\ pending' = [pending EXCEPT ![t] = Append(@, c)]
      /\ turn' = IF pending[t] = <<>> THEN Append(turn, t) ELSE turn
  BY DEF Push, c
<1> HIDE DEF t
<1>3. pending \in [Tokens -> Seq(Caller)] /\ turn \in Seq(Tokens) /\ pending[t] \in Seq(Caller)
  BY <1>1 DEF AdmissionInv, AdmissionTypeOK
<1>4. Append(pending[t], c) \in Seq(Caller) /\ Append(pending[t], c) # <<>>
  <2>1. PICK queue \in Seq(Caller) : queue = pending[t]
    BY <1>3
  <2>2. Append(queue, c) \in Seq(Caller) /\ InSeq(c, Append(queue, c))
    BY <1>1, AppendKeeps
  <2>3. DOMAIN <<>> = {}
    OBVIOUS
  <2> QED
    BY <2>1, <2>2, <2>3 DEF InSeq
<1>5. pending' \in [Tokens -> Seq(Caller)] /\ \A u \in Tokens :
        pending'[u] # <<>> <=> pending[u] # <<>> \/ u = t
  BY <1>1, <1>2, <1>3, <1>4
<1>6. turn' \in Seq(Tokens) /\ Distinct(turn')
      /\ \A u \in Tokens : InSeq(u, turn') <=> InSeq(u, turn) \/ u = t
  <2>1. CASE pending[t] # <<>>
    BY <1>1, <1>2, <1>3, <2>1 DEF AdmissionInv, Turned
  <2>2. CASE pending[t] = <<>>
    <3>1. ~InSeq(t, turn) /\ Distinct(turn) /\ turn' = Append(turn, t)
      BY <1>1, <1>2, <2>2 DEF AdmissionInv, Turned
    <3>2. turn' \in Seq(Tokens) /\ Distinct(turn') /\ InSeq(t, turn')
          /\ \A e : InSeq(e, turn) => InSeq(e, turn')
      BY <1>1, <1>3, <3>1, AppendKeeps, AppendIsDistinct
    <3>3. \A e : InSeq(e, turn') => InSeq(e, turn) \/ e = t
      BY <1>1, <1>3, <3>1 DEF InSeq
    <3> QED
      BY <3>2, <3>3
  <2> QED
    BY <2>1, <2>2
<1>7. Turned'
  BY <1>5, <1>6 DEF AdmissionInv, Turned
<1>8. AdmissionTypeOK'
  BY <1>1, <1>5, <1>6 DEF AdmissionInv, AdmissionTypeOK
<1> QED
  BY <1>7, <1>8 DEF AdmissionInv, Leases, OnePermit, Stirs, Rests

\* What is pruned: the leases that are gone, and the tokens without a request.
LEMMA AdmissionPruneKeeps == AdmissionInv /\ Prune => AdmissionInv'
<1> SUFFICES ASSUME AdmissionInv, Prune PROVE AdmissionInv'
  OBVIOUS
<1> DEFINE left == {t \in Tokens : pending'[t] # <<>>}
           waiting == {c \in Caller : Waits(c)}
<1>1. /\ pending \in [Tokens -> Seq(Caller)] /\ turn \in Seq(Tokens)
      /\ pending' = [t \in Tokens |-> Kept(pending[t], waiting)] /\ turn' = Kept(turn, left)
  BY DEF AdmissionInv, AdmissionTypeOK, Prune
<1>2. pending' \in [Tokens -> Seq(Caller)]
  <2>1. \A t \in Tokens : pending[t] \in Seq(Caller)
    BY <1>1
  <2> HIDE DEF waiting
  <2>2. \A t \in Tokens : Kept(pending[t], waiting) \in Seq(Caller)
    BY <2>1, KeptKeeps
  <2> QED
    BY <1>1, <2>2
<1>3. ASSUME NEW t \in Tokens, pending'[t] # <<>> PROVE pending[t] # <<>>
  <2> HIDE DEF waiting
  <2>1. PICK queue \in Seq(Caller) : queue = pending[t]
    BY <1>1
  <2>2. PICK kept \in Seq(Caller) : kept = Kept(queue, waiting)
    BY KeptKeeps
  <2>3. /\ DOMAIN kept = 1 .. Cardinality(KeptFrom(queue, waiting))
        /\ \A k \in 1 .. Cardinality(KeptFrom(queue, waiting)) : \E i : i \in KeptFrom(queue, waiting)
    <3>1. PICK n : n = Cardinality(KeptFrom(queue, waiting))
      OBVIOUS
    <3>2. /\ Kept(queue, waiting) = [k \in 1 .. n |-> Kept(queue, waiting)[k]]
          /\ \A k \in 1 .. n : \E i \in KeptFrom(queue, waiting) :
               Kept(queue, waiting)[k] = queue[i] /\ Rank(i, KeptFrom(queue, waiting)) = k
      BY <3>1, KeptPlaces
    <3>3. DOMAIN kept = 1 .. n
      BY <2>2, <3>2
    <3> QED
      BY <3>1, <3>2, <3>3
  <2>4. \E k : k \in DOMAIN kept
    <3>1. kept # <<>>
      BY <1>1, <1>3, <2>1, <2>2
    <3>2. Len(kept) \in Nat \ {0} /\ DOMAIN kept = 1 .. Len(kept)
      BY <3>1
    <3>3. 1 \in DOMAIN kept
      BY <3>2
    <3> QED
      BY <3>3
  <2>5. \E i : i \in DOMAIN queue
    BY <2>3, <2>4 DEF KeptFrom
  <2> QED
    BY <2>1, <2>5
<1> HIDE DEF left, waiting
<1>4. turn' \in Seq(Tokens) /\ Distinct(turn') /\ \A i \in DOMAIN turn' : turn'[i] \in left
  BY <1>1, KeptKeeps, KeptIsDistinct DEF AdmissionInv, Turned
<1>5. ASSUME NEW t \in Tokens PROVE InSeq(t, turn') <=> pending'[t] # <<>>
  <2>1. InSeq(t, turn') => t \in left
    BY <1>4 DEF InSeq
  <2>2. ASSUME t \in left PROVE InSeq(t, turn')
    <3>1. pending[t] # <<>>
      BY <1>3, <2>2 DEF left
    <3>2. PICK i \in DOMAIN turn : turn[i] = t
      BY <3>1 DEF AdmissionInv, Turned, InSeq
    <3>3. \E k \in DOMAIN Kept(turn, left) : Kept(turn, left)[k] = turn[i]
      BY <1>1, <2>2, <3>2, KeptKeeps
    <3> QED
      BY <1>1, <3>2, <3>3 DEF InSeq
  <2> QED
    BY <2>1, <2>2 DEF left
<1>6. Turned'
  BY <1>4, <1>5 DEF Turned
<1>7. AdmissionTypeOK'
  BY <1>2, <1>4 DEF AdmissionInv, AdmissionTypeOK, Prune
<1>8. active' = {a \in active : Leased(a)} /\ caller' = caller /\ place' = "admitting"
  BY DEF Prune
<1>9. Leases' /\ OnePermit'
  BY <1>8 DEF AdmissionInv, Leases, OnePermit, Leased
<1>10. Stirs' /\ Rests'
  BY <1>8 DEF Stirs, Rests, Leased
<1> QED
  BY <1>6, <1>7, <1>9, <1>10 DEF AdmissionInv

\* What is admitted stands in a queue whose turn it is.
LEMMA AdmitPlaces ==
  ASSUME AdmissionInv, Admit, NEW k, k = First(ReadyTurns), NEW i, i = First(Ready(turn[k]))
  PROVE  /\ k \in DOMAIN turn /\ turn[k] \in Tokens
         /\ i \in DOMAIN pending[turn[k]] /\ Admissible(pending[turn[k]][i])
<1>1. /\ Len(turn) \in Nat /\ DOMAIN turn = 1 .. Len(turn)
      /\ \A j \in DOMAIN turn : turn[j] \in Tokens
  BY DEF AdmissionInv, AdmissionTypeOK
<1>2. k \in DOMAIN turn /\ Ready(turn[k]) # {}
  <2>1. ReadyTurns \in SUBSET (1 .. Len(turn)) /\ ReadyTurns # {}
    BY <1>1 DEF ReadyTurns, Admit
  <2>2. k \in ReadyTurns
    BY <1>1, <2>1, FirstPlace
  <2> QED
    BY <2>2 DEF ReadyTurns
<1>3. PICK queue \in Seq(Caller) : queue = pending[turn[k]]
  BY <1>1, <1>2 DEF AdmissionInv, AdmissionTypeOK
<1>4. i \in Ready(turn[k])
  <2>1. Len(queue) \in Nat /\ DOMAIN queue = 1 .. Len(queue)
    OBVIOUS
  <2>2. Ready(turn[k]) \in SUBSET (1 .. Len(queue))
    BY <1>3, <2>1 DEF Ready
  <2> QED
    BY <1>2, <2>1, <2>2, FirstPlace
<1> QED
  BY <1>1, <1>2, <1>4 DEF Ready

LEMMA AdmitKeeps == AdmissionInv /\ Admit => AdmissionInv'
<1> SUFFICES ASSUME AdmissionInv, Admit PROVE AdmissionInv'
  OBVIOUS
<1>1. PICK k : k = First(ReadyTurns)
  OBVIOUS
<1>2. PICK t : t = turn[k]
  OBVIOUS
<1>3. PICK i : i = First(Ready(t))
  OBVIOUS
<1>4. PICK c : c = pending[t][i]
  OBVIOUS
<1>5. PICK left : left = Removed(pending[t], i)
  OBVIOUS
<1>6. PICK others : others = Others(turn, k)
  OBVIOUS
<1>7. /\ pending' = [pending EXCEPT ![t] = left]
      /\ turn' = IF left = <<>> THEN others ELSE Append(others, t)
      /\ active' = active \cup {ApplicationOf[c]}
      /\ caller' = [caller EXCEPT ![c] = IF @ = "asked" THEN "granted" ELSE @]
      /\ wake' = (wake \/ caller[c] # "asked")
      /\ UNCHANGED <<ended, requests, place>> /\ place = "admitting"
  BY <1>1, <1>2, <1>3, <1>4, <1>5, <1>6 DEF Admit, Others
<1>8. k \in DOMAIN turn /\ t \in Tokens /\ i \in DOMAIN pending[t] /\ Admissible(c)
  BY <1>1, <1>2, <1>3, <1>4, AdmitPlaces
<1>9. pending \in [Tokens -> Seq(Caller)] /\ turn \in Seq(Tokens) /\ pending[t] \in Seq(Caller)
  BY <1>8 DEF AdmissionInv, AdmissionTypeOK
<1>10. c \in Caller /\ left \in Seq(Caller) /\ ApplicationOf[c] \in Wanted
  <2>1. c \in Caller
    BY <1>4, <1>8, <1>9
  <2>2. left \in Seq(Caller)
    BY <1>5, <1>8, <1>9, RemovedKeeps
  <2> QED
    BY <2>1, <2>2 DEF Wanted
<1>11. others \in Seq(Tokens) /\ Distinct(others)
       /\ \A e : InSeq(e, others) <=> InSeq(e, turn) /\ e # t
  BY <1>2, <1>6, <1>8, <1>9, OthersAreKept DEF AdmissionInv, Turned
<1>12. turn' \in Seq(Tokens) /\ Distinct(turn')
       /\ \A u \in Tokens : InSeq(u, turn') <=> IF u = t THEN left # <<>> ELSE InSeq(u, turn)
  <2>1. CASE left = <<>>
    BY <1>7, <1>11, <2>1
  <2>2. CASE left # <<>>
    <3>1. turn' = Append(others, t) /\ ~InSeq(t, others)
      BY <1>7, <1>11, <2>2
    <3>2. turn' \in Seq(Tokens) /\ Distinct(turn') /\ InSeq(t, turn')
          /\ \A e : InSeq(e, others) => InSeq(e, turn')
      BY <1>8, <1>11, <3>1, AppendKeeps, AppendIsDistinct
    <3>3. \A e : InSeq(e, turn') => InSeq(e, others) \/ e = t
      BY <1>8, <1>11, <3>1 DEF InSeq
    <3> QED
      BY <1>11, <2>2, <3>2, <3>3
  <2> QED
    BY <2>1, <2>2
<1>13. pending' \in [Tokens -> Seq(Caller)]
       /\ \A u \in Tokens : pending'[u] = IF u = t THEN left ELSE pending[u]
  BY <1>7, <1>8, <1>9, <1>10
<1>14. Turned'
  BY <1>12, <1>13 DEF AdmissionInv, Turned
<1>15. caller \in [Caller -> {"idle", "asked", "granted", "leaving"}]
       /\ \A d \in Caller : caller'[d] = IF d = c /\ caller[c] = "asked" THEN "granted" ELSE caller[d]
  BY <1>7, <1>10 DEF AdmissionInv, AdmissionTypeOK
<1>16. AdmissionTypeOK'
  BY <1>7, <1>10, <1>12, <1>13, <1>15 DEF AdmissionInv, AdmissionTypeOK
<1>17. Leases'
  BY <1>7, <1>10, <1>15 DEF AdmissionInv, Leases
<1>18. OnePermit'
  <2>1. \A d \in Caller : caller[d] = "granted" => ApplicationOf[d] # ApplicationOf[c]
    BY <1>8 DEF AdmissionInv, Leases, Admissible
  <2> QED
    BY <1>15, <2>1 DEF AdmissionInv, OnePermit
<1>19. Stirs'
  <2>1. Stirred => Stirred'
    BY <1>7, <1>15 DEF Stirred
  <2>2. \A a : Leased(a) => Leased(a)'
    BY <1>15 DEF Leased
  <2>3. Leased(ApplicationOf[c])' \/ Stirred'
    BY <1>7, <1>10, <1>15 DEF Leased, Stirred
  <2>4. \A a \in active : Leased(a) \/ Stirred
    BY <1>7 DEF AdmissionInv, Stirs
  <2> QED
    BY <1>7, <2>1, <2>2, <2>3, <2>4 DEF Stirs
<1>20. Rests'
  BY <1>7 DEF Rests
<1> QED
  BY <1>14, <1>16, <1>17, <1>18, <1>19, <1>20 DEF AdmissionInv

\* The task lies down when nothing more can be admitted.
LEMMA SettleKeeps == AdmissionInv /\ Settle => AdmissionInv'
<1> SUFFICES ASSUME AdmissionInv, Settle PROVE AdmissionInv'
  OBVIOUS
<1>1. UNCHANGED <<caller, ended, requests, pending, turn, active, wake>>
      /\ place = "admitting" /\ place' = "waiting"
  BY DEF Settle
<1>2. AdmissionTypeOK' /\ Turned' /\ Leases' /\ OnePermit' /\ Stirs'
  BY <1>1 DEF AdmissionInv, AdmissionTypeOK, Turned, Leases, OnePermit, Stirs, Stirred, Leased
<1>3. ASSUME ReadyTurns = {}, NEW t \in Tokens PROVE Ready(t) = {}
  <2>1. CASE pending[t] = <<>>
    <3>1. DOMAIN pending[t] = {}
      BY <2>1
    <3> QED
      BY <3>1 DEF Ready
  <2>2. CASE pending[t] # <<>>
    <3>1. PICK k \in DOMAIN turn : turn[k] = t
      BY <2>2 DEF AdmissionInv, Turned, InSeq
    <3> QED
      BY <1>3, <3>1 DEF ReadyTurns
  <2> QED
    BY <2>1, <2>2
<1>4. Cardinality(active) >= MUTATIONS \/ \A t \in Tokens : Ready(t) = {}
  BY <1>3 DEF Settle
<1>5. Rests'
  BY <1>1, <1>4 DEF Rests, Ready, Admissible
<1> QED
  BY <1>2, <1>5 DEF AdmissionInv

LEMMA AdmissionNextInv == AdmissionInv /\ [AdmissionNext]_admissionVars => AdmissionInv'
<1> SUFFICES ASSUME AdmissionInv, [AdmissionNext]_admissionVars PROVE AdmissionInv'
  OBVIOUS
<1>1. CASE UNCHANGED admissionVars
  BY <1>1 DEF admissionVars, AdmissionInv, AdmissionTypeOK, Turned, Leases, OnePermit, Stirs,
              Stirred, Leased, Rests, Ready, Admissible
<1>2. CASE Receive \/ Accept
  <2>1. wake' \in BOOLEAN /\ place' = "accepting"
    BY <1>2 DEF Receive, Accept, AdmissionInv, AdmissionTypeOK
  <2> QED
    BY <1>2, <2>1, PushKeeps DEF Receive, Accept
<1>3. CASE Woken \/ Tick
  <2>1. UNCHANGED <<caller, ended, requests, pending, turn, active>>
        /\ place' = "accepting" /\ wake' \in BOOLEAN
    BY <1>3 DEF Woken, Tick, AdmissionInv, AdmissionTypeOK
  <2> QED
    BY <2>1 DEF AdmissionInv, AdmissionTypeOK, Turned, Leases, OnePermit, Stirs, Rests
<1> QED
  BY <1>1, <1>2, <1>3, CallersKeep, EndsKeep, AdmissionPruneKeeps, AdmitKeeps, SettleKeeps
     DEF AdmissionNext, Task

LEMMA AdmissionSpecInv == AdmissionSpec => []AdmissionInv
<1>1. AdmissionInit => AdmissionInv
  BY AdmissionsBegin
<1>2. AdmissionInv /\ [AdmissionNext]_admissionVars => AdmissionInv'
  BY AdmissionNextInv
<1> QED
  BY <1>1, <1>2, PTL DEF AdmissionSpec

\* No request sits in the queues while its application and a slot are free and nobody is
\* about to wake the task, for any number of callers, tokens and applications, any of
\* which may go at any time.  (Permit::drop, Admissions::dispatch)
THEOREM ReleasesAlwaysWake == AdmissionSpec => []ReleaseWakes
<1>1. ASSUME AdmissionInv PROVE ReleaseWakes
  <2> SUFFICES ASSUME place = "waiting", ~wake, \A c \in Caller : caller[c] # "leaving",
                      NEW t \in Tokens, NEW i \in DOMAIN pending[t]
               PROVE  \/ Leased(ApplicationOf[pending[t][i]])
                      \/ Cardinality({a \in Wanted : Leased(a)}) >= MUTATIONS
    BY DEF ReleaseWakes
  <2>1. active = {a \in Wanted : Leased(a)}
    <3>1. \A a \in active : Leased(a) /\ a \in Wanted
      BY <1>1 DEF AdmissionInv, AdmissionTypeOK, Stirs, Stirred
    <3>2. \A a \in Wanted : Leased(a) => a \in active
      BY <1>1 DEF AdmissionInv, Leases, Leased
    <3> QED
      BY <3>1, <3>2
  <2>2. Cardinality(active) >= MUTATIONS \/ Ready(t) = {}
    BY <1>1 DEF AdmissionInv, Rests
  <2>3. Ready(t) = {} => ApplicationOf[pending[t][i]] \in active
    BY DEF Ready, Admissible
  <2> QED
    BY <2>1, <2>2, <2>3
<1> QED
  BY <1>1, AdmissionSpecInv, PTL

\* Two permits that are alive are never for one application.  (Admissions::dispatch: a
\* lease that is counted is not given again)
THEOREM PermitsNeverShare == AdmissionSpec => []OnePermit
BY AdmissionSpecInv, PTL DEF AdmissionInv

\* A token whose turn it is has a queue, and has one turn: dispatch may unwrap it.
THEOREM TurnsAlwaysHaveQueues == AdmissionSpec => []Turned
BY AdmissionSpecInv, PTL DEF AdmissionInv
=============================================================================
