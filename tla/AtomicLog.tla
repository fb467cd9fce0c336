----------------------------- MODULE AtomicLog ------------------------------
(***************************************************************************)
(* What the journal promises: "batch failure aborts whole batch with zero  *)
(* journal change". A log of lines that nothing shortens or rewrites and   *)
(* that grows by whole batches, each the only one of its author.           *)
(***************************************************************************)
EXTENDS Naturals, Sequences, SequencesExt

VARIABLE log

\* A batch numbers its lines from 0 and says in each how many there are.
WholeBatch(lines) ==
  /\ lines # <<>>
  /\ \A i \in 1 .. Len(lines) :
       /\ lines[i].op = lines[1].op
       /\ lines[i].index = i - 1
       /\ lines[i].count = Len(lines)

Init == log = <<>> \/ WholeBatch(log)

Grow ==
  LET batch == SubSeq(log', Len(log) + 1, Len(log')) IN
    /\ IsPrefix(log, log')
    /\ WholeBatch(batch)
    /\ \A i \in 1 .. Len(log) : log[i].op # batch[1].op

Spec == Init /\ [][Grow]_log
=============================================================================
