------------------------------ MODULE Lengths ------------------------------
(***************************************************************************)
(* Lengths of prefix codes, of at most so many bits, for symbols that      *)
(* occur so often: package-merge.  Symbols are numbered from 1.            *)
(***************************************************************************)
LOCAL INSTANCE Naturals
LOCAL INSTANCE FiniteSets
LOCAL INSTANCE SequencesExt
LOCAL INSTANCE TLC

(* A sequence as it is, for TLC to have its elements at hand.               *)
Now(seq) == SubSeq(seq, 1, Len(seq))

Numbers(n) == Now([i \in 1 .. n |-> i])
Sorted(seq, Before(_, _)) == SortSeq(seq, Before)

Leaves(used, freqs) ==
  [i \in DOMAIN used |-> [weight |-> freqs[used[i]], is_leaf |-> TRUE]]

Packages(level) ==
  [k \in 1 .. Len(level) \div 2 |-> [weight |-> level[2 * k - 1].weight + level[2 * k].weight, is_leaf |-> FALSE]]

(* By weight, leaves first.                                                 *)
MergedItems(leaves, packages) ==
  LET Merge[i \in 1 .. Len(leaves) + 1, j \in 1 .. Len(packages) + 1] ==
        IF i > Len(leaves) THEN SubSeq(packages, j, Len(packages))
        ELSE IF j > Len(packages) THEN SubSeq(leaves, i, Len(leaves))
        ELSE IF leaves[i].weight <= packages[j].weight THEN <<leaves[i]>> \o Merge[i + 1, j]
        ELSE <<packages[j]>> \o Merge[i, j + 1]
  IN  Merge[1, 1]

Levels(leaves, max_bits) ==
  FoldLeft(LAMBDA ls, l : Append(ls, MergedItems(leaves, Packages(ls[l]))), <<leaves>>, [l \in 1 .. max_bits - 1 |-> l])

Paid(level, n) == Cardinality({i \in 1 .. n : i <= Len(level) /\ level[i].is_leaf})

PackageMerge(used, freqs, max_bits) ==
  LET Pay(x, level) ==
        [take |-> 2 * ((IF x.take < Len(level) THEN x.take ELSE Len(level)) - Paid(level, x.take)),
         lengths |-> Now([i \in DOMAIN used |-> x.lengths[i] + IF i <= Paid(level, x.take) THEN 1 ELSE 0])]
  IN  FoldLeft(Pay, [take |-> 2 * Len(used) - 2, lengths |-> [i \in DOMAIN used |-> 0]], Reverse(Levels(Leaves(used, freqs), max_bits))).lengths

Used(freqs) ==
  Sorted(SelectSeq(Numbers(Len(freqs)), LAMBDA s : freqs[s] > 0), LAMBDA a, b : freqs[a] < freqs[b] \/ (freqs[a] = freqs[b] /\ a < b))

PutBack(freqs, used, lengths) ==
  Now([s \in DOMAIN freqs |-> IF freqs[s] = 0 THEN 0 ELSE lengths[CHOOSE i \in DOMAIN used : used[i] = s]])

(* One symbol alone is given a second to be told from.                      *)
Assigned(freqs, used, max_bits) ==
  IF Len(used) = 1
  THEN Now([s \in DOMAIN freqs |-> IF s = used[1] \/ s = (IF used[1] = 1 THEN 2 ELSE 1) THEN 1 ELSE 0])
  ELSE PutBack(freqs, used, Now(PackageMerge(used, freqs, max_bits)))

AssignLengths(freqs, max_bits) == Assigned(freqs, Used(freqs), max_bits)
=============================================================================
