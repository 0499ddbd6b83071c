-------------------------------- MODULE Turns --------------------------------
(* What both halves of the element scheduler do with their queues: they look *)
(* for the first entry that may go, and take it out of the middle.            *)
EXTENDS Integers, Sequences, FiniteSets

\* position(): the first of some places
First(S) == CHOOSE k \in S : \A other \in S : k <= other

\* VecDeque::remove
Removed(queue, i) == SubSeq(queue, 1, i - 1) \o SubSeq(queue, i + 1, Len(queue))

\* push_back of every entry up to k, each after it was looked at
Rotated(queue, k) == SubSeq(queue, k + 1, Len(queue)) \o SubSeq(queue, 1, k)

\* VecDeque::retain: the entries of S in their order.  (SelectSeq, in a form that can be
\* proved about.)
Kept(queue, S) ==
  LET kept == {i \in DOMAIN queue : queue[i] \in S}
      rank == [i \in kept |-> Cardinality({h \in kept : h <= i})]
  IN  [k \in 1 .. Cardinality(kept) |-> queue[CHOOSE i \in kept : rank[i] = k]]
=============================================================================
