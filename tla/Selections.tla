----------------------------- MODULE Selections ------------------------------
(***************************************************************************)
(* Loops that build a list from a list, or a number: folds and a recursive  *)
(* function, not SelectSeq, which the proofs could not look into.           *)
(***************************************************************************)
EXTENDS Integers, SequencesExt

(* for x in s: if x in S: kept.append(x) *)
Select(s, S) ==
  FoldLeft(LAMBDA kept, x : IF x \in S THEN Append(kept, x) ELSE kept, <<>>, s)

(* for x in s: if x not in skip and x not in queue: queue.append(x) *)
AddNew(queue, s, skip) ==
  FoldLeft(LAMBDA kept, x : IF x \in skip \/ Contains(kept, x)
                              THEN kept ELSE Append(kept, x),
           queue, s)

(* for x in s: n += x *)
SumOf(s) ==
  LET sum[n \in 0 .. Len(s)] == IF n = 0 THEN 0 ELSE sum[n - 1] + s[n]
  IN  sum[Len(s)]

=============================================================================
