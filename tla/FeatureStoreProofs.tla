------------------------- MODULE FeatureStoreProofs -------------------------
(***************************************************************************)
(* Theorems about the feature directory, for any number of commands and    *)
(* readers, any size of batch, any projections, and a write that may stop  *)
(* anywhere.                                                               *)
(***************************************************************************)
EXTENDS FeatureStore, SequenceTheorems, FiniteSetTheorems, TLAPS

USE NoProcAssumption, LeafOrderAssumption, KindsAssumption, MaxBatchAssumption,
    EmitsSpecAssumption, CutPointsAssumption, MaxCrashesAssumption

-----------------------------------------------------------------------------
(* What the operators on lines return *)

LEMMA ConcatTyped ==
  ASSUME NEW s \in Histories, NEW t \in Histories
  PROVE  /\ s \o t \in Histories
         /\ Len(s \o t) = Len(s) + Len(t)
         /\ \A i \in 1 .. Len(s) : (s \o t)[i] = s[i]
         /\ \A i \in 1 .. Len(t) : (s \o t)[Len(s) + i] = t[i]
BY ConcatProperties DEF Histories

LEMMA PrefixTyped ==
  ASSUME NEW s \in Histories, NEW k \in 0 .. Len(s)
  PROVE  /\ SubSeq(s, 1, k) \in Histories
         /\ Len(SubSeq(s, 1, k)) = k
         /\ \A i \in 1 .. k : SubSeq(s, 1, k)[i] = s[i]
BY SubSeqProperties DEF Histories

LEMMA CommandTyped ==
  ASSUME NEW c \in Commands \cup {NoCommand}
  PROVE  /\ c.count \in Nat
         /\ c.spec \in BOOLEAN
         /\ c.kind \in AllKinds \cup {"none"}
<1>1. CASE c = NoCommand
  BY <1>1 DEF NoCommand
<1>2. CASE c \in [kind : Kinds \cap {"mutate"}, count : 1 .. MaxBatch, spec : EmitsSpec]
  <2>1. c.kind \in Kinds \cap {"mutate"} /\ c.count \in 1 .. MaxBatch /\ c.spec \in EmitsSpec
    BY <1>2
  <2>2. c.spec \in BOOLEAN
    BY <2>1, Zenon
  <2>3. c.kind \in AllKinds
    BY <2>1, Zenon
  <2>4. c.count \in Nat
    BY <2>1
  <2> QED
    BY <2>2, <2>3, <2>4
<1>3. CASE c \in [kind : Kinds \ {"mutate"}, count : {0}, spec : {FALSE}]
  <2>1. c.kind \in Kinds \ {"mutate"} /\ c.count \in {0} /\ c.spec \in {FALSE}
    BY <1>3
  <2>2. c.kind \in AllKinds
    BY <2>1, Zenon
  <2>3. c.spec \in BOOLEAN
    BY <2>1, Zenon
  <2>4. c.count \in Nat
    BY <2>1
  <2> QED
    BY <2>2, <2>3, <2>4
<1> QED
  BY <1>1, <1>2, <1>3 DEF Commands

\* A batch is a sequence of lines, numbered on from the view it extends.
LEMMA BatchTyped ==
  ASSUME TypeOK, NEW p \in Procs
  PROVE  /\ Batch(p) \in Histories
         /\ Len(Batch(p)) = cmd[p].count
         /\ \A i \in 1 .. cmd[p].count : Batch(p)[i].seq = Len(view[p]) + i - 1
<1>1. cmd[p].count \in Nat /\ cmd[p].spec \in BOOLEAN
  BY CommandTyped DEF TypeOK
<1>2. Len(view[p]) \in Nat
  BY DEF TypeOK, Histories
<1>3. \A i \in 1 .. cmd[p].count :
        [op |-> p, seq |-> Len(view[p]) + i - 1, index |-> i - 1,
         count |-> cmd[p].count, spec |-> cmd[p].spec] \in Lines
  BY <1>1, <1>2 DEF Lines
<1>4. Batch(p) \in [1 .. cmd[p].count -> Lines]
  BY <1>3 DEF Batch
<1>5. Batch(p) \in Seq(Lines) /\ Len(Batch(p)) = cmd[p].count
  BY <1>1, <1>4
<1> QED
  BY <1>5 DEF Batch, Histories

\* The repair of the tail keeps a prefix of the lines.
LEMMA KeepsPrefix ==
  ASSUME NEW lines \in Histories
  PROVE  \E k \in 0 .. Len(lines) : DropIncompleteBatch(lines) = SubSeq(lines, 1, k)
<1>1. Len(lines) \in Nat
  BY DEF Histories
<1>2. IsFiniteSet(1 .. Len(lines)) /\ Cardinality(1 .. Len(lines)) = Len(lines)
  <2>1. IsFiniteSet(1 .. Len(lines))
    BY <1>1, FS_Interval, 1 \in Int, Len(lines) \in Int
  <2>2. Cardinality(1 .. Len(lines)) = IF 1 > Len(lines) THEN 0 ELSE Len(lines) - 1 + 1
    BY <1>1, FS_Interval, 1 \in Int, Len(lines) \in Int
  <2> QED
    BY <1>1, <2>1, <2>2
<1>3. Cardinality(LastBatch(lines)) \in 0 .. Len(lines)
  <2>1. LastBatch(lines) \subseteq 1 .. Len(lines)
    BY DEF LastBatch
  <2> QED
    BY <1>2, <2>1, FS_Subset, FS_CardinalityType
<1>4. lines = SubSeq(lines, 1, Len(lines))
  BY DEF Histories
<1>5. CASE IncompleteLastBatch(lines)
  <2>1. DropIncompleteBatch(lines)
          = SubSeq(lines, 1, Len(lines) - Cardinality(LastBatch(lines)))
    BY <1>5 DEF DropIncompleteBatch, BeforeLastBatch
  <2>2. Len(lines) - Cardinality(LastBatch(lines)) \in 0 .. Len(lines)
    BY <1>1, <1>3
  <2> QED
    BY <2>1, <2>2
<1>6. CASE ~IncompleteLastBatch(lines)
  <2>1. DropIncompleteBatch(lines) = SubSeq(lines, 1, Len(lines))
    BY <1>4, <1>6 DEF DropIncompleteBatch
  <2>2. Len(lines) \in 0 .. Len(lines)
    BY <1>1
  <2> QED
    BY <2>1, <2>2
<1> QED
  BY <1>5, <1>6

LEMMA RecoveredTyped ==
  ASSUME NEW lines \in Histories, NEW end \in Tails
  PROVE  /\ Recovered(lines, end) \in Histories
         /\ Len(Recovered(lines, end)) <= Len(lines)
         /\ \A i \in 1 .. Len(Recovered(lines, end)) : Recovered(lines, end)[i] = lines[i]
<1> DEFINE kept == IF end = "unterminated" THEN Front(lines) ELSE lines
<1>1. \E n \in 0 .. Len(lines) : kept = SubSeq(lines, 1, n)
  <2>1. CASE lines = <<>>
    <3>1. Len(lines) = 0
      BY <2>1
    <3>2. SubSeq(lines, 1, 0) = <<>> /\ SubSeq(lines, 1, -1) = <<>>
      BY SubSeqEmpty
    <3> QED
      BY <2>1, <3>1, <3>2 DEF Front
  <2>2. CASE lines # <<>>
    <3>1. Len(lines) \in Nat \ {0}
      BY <2>2 DEF Histories
    <3>2. lines = SubSeq(lines, 1, Len(lines))
      BY DEF Histories
    <3> QED
      BY <3>1, <3>2 DEF Front
  <2> QED
    BY <2>1, <2>2
<1>2. PICK n \in 0 .. Len(lines) : kept = SubSeq(lines, 1, n)
  BY <1>1
<1>3. kept \in Histories /\ Len(kept) = n /\ \A i \in 1 .. n : kept[i] = lines[i]
  BY <1>2, PrefixTyped
<1>4. PICK k \in 0 .. Len(kept) : Recovered(lines, end) = SubSeq(kept, 1, k)
  BY <1>3, KeepsPrefix DEF Recovered
<1> HIDE DEF kept
<1>5. /\ Recovered(lines, end) \in Histories
      /\ Len(Recovered(lines, end)) = k
      /\ \A i \in 1 .. k : Recovered(lines, end)[i] = kept[i]
  BY <1>3, <1>4, PrefixTyped
<1> QED
  BY <1>3, <1>4, <1>5

-----------------------------------------------------------------------------
(***************************************************************************)
(* Type correctness. It needs to know that a writer is never past the last *)
(* projection file while it writes one, and a reader never past the last   *)
(* leaf while it reads one.                                                *)
(***************************************************************************)
LeafInRange ==
  \A p \in Procs : pc[p] \in {"spec", "leaf"} => leaf[p] \in 1 .. Len(LeafOrder)

ReaderInRange ==
  \A r \in Readers :
    /\ rpc[r] \in {"idle", "check"} => got[r] = <<>>
    /\ rpc[r] = "read" => Len(got[r]) < Len(LeafOrder)

TypeInv == TypeOK /\ LeafInRange /\ ReaderInRange

LEMMA LastLeaf == Len(LeafOrder) \in Nat \ {0}
OBVIOUS

LEMMA TypeInit == Init => TypeInv
<1> SUFFICES ASSUME Init PROVE TypeInv
  OBVIOUS
<1>1. <<>> \in Histories /\ <<StartLine>> \in Histories
  BY DEF Histories, StartLine, Lines
<1>2. journal \in Histories /\ specMd \in Histories
  BY <1>1 DEF Init
<1>3. got \in [Readers -> Seq(Histories)]
  BY DEF Init
<1> QED
  BY <1>1, <1>2, <1>3, LastLeaf DEF Init, TypeInv, TypeOK, Tails, PcStates, Outcomes, LeafInRange,
     ReaderInRange

LEMMA TypeStep == TypeInv /\ [Next]_vars => TypeInv'
<1> SUFFICES ASSUME TypeInv, [Next]_vars PROVE TypeInv'
  OBVIOUS
<1> USE LastLeaf DEF TypeInv, LeafInRange, ReaderInRange, files, procVars, readerVars, Goto,
        Leave, Report
<1>e. <<>> \in Histories
  BY DEF Histories
<1>1. CASE UNCHANGED vars
  BY <1>1 DEF vars, TypeOK
<1>2. ASSUME NEW p \in Procs, Start(p) \/ Locking(p) \/ Interrupt(p) \/ Crash(p)
      PROVE  TypeInv'
  <2> USE <1>e DEF TypeOK, PcStates, Exited, Leased, Outcomes
  <2>1. CASE Start(p)
    BY <2>1 DEF Start
  <2>2. CASE Acquire(p)
    BY <2>2 DEF Acquire
  <2>7. CASE Confirm(p)
    BY <2>7 DEF Confirm
  <2>3. CASE LockTimeout(p)
    BY <2>3 DEF LockTimeout
  <2>4. CASE Release(p)
    BY <2>4 DEF Release
  <2>5. CASE Interrupt(p)
    BY <2>5 DEF Interrupt
  <2>6. CASE Crash(p)
    BY <2>6 DEF Crash
  <2> QED
    BY <1>2, <2>1, <2>2, <2>3, <2>4, <2>5, <2>6, <2>7 DEF Locking
<1>3. ASSUME NEW p \in Procs, Mutating(p) PROVE TypeInv'
  <2> USE <1>e DEF PcStates, Exited, Leased, Outcomes
  <2>1. CASE Load(p)
    <3>1. journal \in Histories /\ 1 \in 1 .. Len(LeafOrder) + 1
      BY DEF TypeOK
    <3>2. UNCHANGED <<journal, tail, leaves, meta, specMd, registry, holder, cmd, outcome,
                      crashes, rpc, cached, got>>
      BY <2>1 DEF Load
    <3>3. CASE tail = "fragment"
      <4>1. /\ pc' = [pc EXCEPT ![p] = "refused"]
            /\ view' = [view EXCEPT ![p] = <<>>]
            /\ leaf' = [leaf EXCEPT ![p] = 1]
        BY <2>1, <3>3 DEF Load
      <4> QED
        BY <3>1, <3>2, <4>1 DEF TypeOK
    <3>4. CASE tail # "fragment"
      <4>1. /\ pc' = [pc EXCEPT ![p] = "acquire"]
            /\ view' = [view EXCEPT ![p] = journal]
            /\ leaf' = leaf
        BY <2>1, <3>4 DEF Load
      <4> QED
        BY <3>1, <3>2, <4>1 DEF TypeOK
    <3> QED
      BY <3>3, <3>4
  <2>2. CASE Reject(p) \/ AppendRefused(p)
    BY <2>2 DEF Reject, AppendRefused, TypeOK
  <2>3. CASE Validate(p)
    BY <2>3 DEF Validate, TypeOK
  <2>4. CASE AppendBatch(p)
    <3>1. journal' \in Histories /\ view[p] \o Batch(p) \in Histories
      BY <2>4, BatchTyped, ConcatTyped DEF AppendBatch, TypeOK
    <3>2. pc' \in [Procs -> PcStates] /\ outcome' \in [Procs -> Outcomes]
      BY <2>4 DEF AppendBatch, TypeOK
    <3>3. view' \in [Procs -> Histories] /\ leaf' \in [Procs -> 1 .. Len(LeafOrder) + 1]
      BY <2>4, <3>1 DEF AppendBatch, TypeOK
    <3>4. TypeOK'
      BY <2>4, <3>1, <3>2, <3>3 DEF AppendBatch, TypeOK
    <3>5. LeafInRange'
      BY <2>4 DEF AppendBatch, TypeOK
    <3> QED
      BY <2>4, <3>4, <3>5 DEF AppendBatch
  <2>5. CASE AppendUnsynced(p)
    <3>1. journal' \in Histories
      BY <2>5, BatchTyped, ConcatTyped DEF AppendUnsynced, TypeOK
    <3> QED
      BY <2>5, <3>1 DEF AppendUnsynced, TypeOK
  <2>6. CASE AppendTorn(p)
    <3>1. PICK cut \in CutPoints, k \in 0 .. cmd[p].count :
            /\ journal' = journal \o SubSeq(Batch(p), 1, k)
            /\ tail' = IF cut = "boundary" THEN "clean" ELSE cut
      BY <2>6 DEF AppendTorn
    <3>2. k \in 0 .. Len(Batch(p)) /\ Batch(p) \in Histories
      BY BatchTyped
    <3>3. journal' \in Histories
      BY <3>1, <3>2, PrefixTyped, ConcatTyped DEF TypeOK
    <3>4. tail' \in Tails
      BY <3>1 DEF AllCutPoints, Tails
    <3> QED
      BY <2>6, <3>3, <3>4 DEF AppendTorn, TypeOK
  <2>7. CASE WriteSpec(p)
    BY <2>7 DEF WriteSpec, TypeOK
  <2>8. CASE WriteRegistry(p)
    BY <2>8 DEF WriteRegistry, TypeOK
  <2> QED
    BY <1>3, <2>1, <2>2, <2>3, <2>4, <2>5, <2>6, <2>7, <2>8 DEF Mutating
<1>4. ASSUME NEW p \in Procs, Repairing(p) \/ Publishing(p) PROVE TypeInv'
  <2> USE <1>e DEF PcStates, Exited, Leased, Outcomes
  <2>1. CASE Recover(p)
    <3>1. journal' \in Histories
      BY <2>1, RecoveredTyped DEF Recover, TypeOK
    <3> QED
      BY <2>1, <3>1 DEF Recover, TypeOK, Tails
  <2>2. CASE RecoverFails(p)
    BY <2>2 DEF RecoverFails, TypeOK
  <2>3. CASE Replay(p)
    <3>1. journal \in Histories /\ 1 \in 1 .. Len(LeafOrder)
      BY DEF TypeOK
    <3>2. CASE tail = "fragment"
      BY <2>3, <3>2 DEF Replay, TypeOK
    <3>3. CASE tail # "fragment"
      <4>1. /\ pc' = [pc EXCEPT ![p] = "leaf"]
            /\ view' = [view EXCEPT ![p] = journal]
            /\ leaf' = [leaf EXCEPT ![p] = 1]
        BY <2>3, <3>3 DEF Replay
      <4>2. UNCHANGED <<journal, tail, leaves, meta, specMd, registry, holder, cmd, outcome,
                        crashes, rpc, cached, got>>
        BY <2>3, <3>3 DEF Replay
      <4>3. LeafInRange'
        BY <3>1, <4>1 DEF TypeOK
      <4> QED
        BY <3>1, <4>1, <4>2, <4>3 DEF TypeOK
    <3> QED
      BY <3>2, <3>3
  <2>4. CASE WriteLeaf(p)
    <3>1. leaves' \in [Leaves -> Histories]
      BY <2>4 DEF WriteLeaf, TypeOK
    <3>2. leaf' \in [Procs -> 1 .. Len(LeafOrder) + 1]
      BY <2>4 DEF WriteLeaf, TypeOK
    <3>3. LeafInRange'
      BY <2>4 DEF WriteLeaf, TypeOK
    <3> QED
      BY <2>4, <3>1, <3>2, <3>3 DEF WriteLeaf, TypeOK
  <2>5. CASE WriteMeta(p)
    BY <2>5 DEF WriteMeta, TypeOK
  <2>6. CASE ProjectionFails(p)
    BY <2>6 DEF ProjectionFails, TypeOK
  <2> QED
    BY <1>4, <2>1, <2>2, <2>3, <2>4, <2>5, <2>6 DEF Repairing, Publishing
<1>5. ASSUME NEW r \in Readers, Reading(r) PROVE TypeInv'
  <2>1. CASE ReadMeta(r)
    BY <2>1 DEF ReadMeta, TypeOK
  <2>2. CASE CheckFresh(r)
    BY <2>2 DEF CheckFresh, TypeOK
  <2>3. CASE ReadLeaf(r)
    <3>1. Len(got[r]) + 1 \in 1 .. Len(LeafOrder) /\ got[r] \in Seq(Histories)
      BY <2>3 DEF ReadLeaf, TypeOK
    <3>2. leaves[LeafOrder[Len(got[r]) + 1]] \in Histories
      BY <3>1 DEF TypeOK, Leaves, Range
    <3>3. /\ got'[r] \in Seq(Histories)
          /\ Len(got'[r]) = Len(got[r]) + 1
          /\ got' = [got EXCEPT ![r] = got'[r]]
      BY <2>3, <3>1, <3>2 DEF ReadLeaf, TypeOK
    <3> QED
      BY <2>3, <3>1, <3>3 DEF ReadLeaf, TypeOK
  <2>4. CASE ReadLeafFails(r)
    BY <2>4 DEF ReadLeafFails, TypeOK
  <2>5. CASE CheckAgain(r)
    BY <2>5 DEF CheckAgain, TypeOK
  <2> QED
    BY <1>5, <2>1, <2>2, <2>3, <2>4, <2>5 DEF Reading
<1> QED
  BY <1>1, <1>2, <1>3, <1>4, <1>5 DEF Next, Working

LEMMA TypeInvariant == Spec => []TypeInv
BY TypeInit, TypeStep, PTL DEF Spec

\* The feature directory is well typed, whoever dies, wherever a write stops.
THEOREM TypeCorrect == Spec => []TypeOK
<1>1. TypeInv => TypeOK
  BY DEF TypeInv
<1> QED
  BY <1>1, TypeInvariant, PTL

-----------------------------------------------------------------------------
(***************************************************************************)
(* The seq numbers stay contiguous. An append numbers its lines from the   *)
(* view its process loaded before the lease; the tail check leaves only    *)
(* views as long as the journal, and a repair keeps a prefix.              *)
(***************************************************************************)
SeqInv == TypeInv /\ SeqContiguous

LEMMA SeqInit == Init => SeqInv
BY TypeInit DEF Init, SeqInv, SeqContiguous, StartLine

\* Lines numbered on from a journal may be added to it, all or some.
LEMMA NumberedOn ==
  ASSUME SeqInv, NEW p \in Procs, Len(view[p]) = Len(journal),
         NEW k \in 0 .. cmd[p].count, journal' = journal \o SubSeq(Batch(p), 1, k)
  PROVE  SeqContiguous'
<1> DEFINE lines == SubSeq(Batch(p), 1, k)
<1>1. /\ Batch(p) \in Histories
      /\ Len(Batch(p)) = cmd[p].count
      /\ \A i \in 1 .. cmd[p].count : Batch(p)[i].seq = Len(journal) + i - 1
  BY BatchTyped DEF SeqInv, TypeInv
<1>2. lines \in Histories /\ Len(lines) = k /\ \A i \in 1 .. k : lines[i] = Batch(p)[i]
  BY <1>1, PrefixTyped
<1>3. cmd[p].count \in Nat
  BY CommandTyped DEF SeqInv, TypeInv, TypeOK
<1>4. \A i \in 1 .. k : lines[i].seq = Len(journal) + i - 1
  BY <1>1, <1>2, <1>3
<1> HIDE DEF lines
<1>5. journal \in Histories /\ Len(journal) \in Nat
  BY DEF SeqInv, TypeInv, TypeOK, Histories
<1>6. /\ Len(journal') = Len(journal) + k
      /\ \A i \in 1 .. Len(journal) : journal'[i] = journal[i]
      /\ \A i \in 1 .. k : journal'[Len(journal) + i] = lines[i]
  BY <1>2, <1>5, ConcatTyped DEF lines
<1>7. ASSUME NEW i \in 1 .. Len(journal') PROVE journal'[i].seq = i - 1
  <2>1. CASE i \in 1 .. Len(journal)
    BY <1>6, <2>1 DEF SeqInv, SeqContiguous
  <2>2. CASE i > Len(journal)
    <3>1. i - Len(journal) \in 1 .. k /\ i = Len(journal) + (i - Len(journal))
      BY <1>5, <1>6, <2>2
    <3>2. journal'[i].seq = Len(journal) + (i - Len(journal)) - 1
      BY <1>4, <1>6, <3>1
    <3> QED
      BY <1>5, <3>2
  <2> QED
    BY <1>5, <1>6, <2>1, <2>2
<1> QED
  BY <1>7 DEF SeqContiguous

LEMMA SeqStep == SeqInv /\ [Next]_vars => SeqInv'
<1> SUFFICES ASSUME SeqInv, [Next]_vars PROVE SeqContiguous'
  BY TypeStep DEF SeqInv
<1>1. CASE UNCHANGED journal
  BY <1>1 DEF SeqInv, SeqContiguous
<1>2. ASSUME NEW p \in Procs, TailMatches(view[p]) PROVE Len(view[p]) = Len(journal)
  BY <1>2 DEF TailMatches, SameTail
<1>3. ASSUME NEW p \in Procs, AppendBatch(p) \/ AppendUnsynced(p) PROVE SeqContiguous'
  <2>1. Batch(p) \in Histories /\ Len(Batch(p)) = cmd[p].count
    BY BatchTyped DEF SeqInv, TypeInv
  <2>2. Batch(p) = SubSeq(Batch(p), 1, cmd[p].count)
    BY <2>1 DEF Histories
  <2>3. cmd[p].count \in 0 .. cmd[p].count
    BY CommandTyped DEF SeqInv, TypeInv, TypeOK
  <2>4. journal' = journal \o SubSeq(Batch(p), 1, cmd[p].count)
    BY <1>3, <2>2 DEF AppendBatch, AppendUnsynced
  <2>5. Len(view[p]) = Len(journal)
    BY <1>2, <1>3 DEF AppendBatch, AppendUnsynced
  <2> QED
    BY <2>3, <2>4, <2>5, NumberedOn
<1>4. ASSUME NEW p \in Procs, AppendTorn(p) PROVE SeqContiguous'
  <2>1. PICK k \in 0 .. cmd[p].count : journal' = journal \o SubSeq(Batch(p), 1, k)
    BY <1>4 DEF AppendTorn
  <2>2. Len(view[p]) = Len(journal)
    BY <1>2, <1>4 DEF AppendTorn
  <2> QED
    BY <2>1, <2>2, NumberedOn
<1>5. ASSUME NEW p \in Procs, Recover(p) PROVE SeqContiguous'
  <2>1. journal \in Histories /\ tail \in Tails
    BY DEF SeqInv, TypeInv, TypeOK
  <2>2. /\ journal' \in Histories
        /\ Len(journal') <= Len(journal)
        /\ \A i \in 1 .. Len(journal') : journal'[i] = journal[i]
    BY <1>5, <2>1, RecoveredTyped DEF Recover
  <2> QED
    BY <2>1, <2>2 DEF SeqInv, SeqContiguous, Histories
<1>6. ASSUME NEW p \in Procs,
             Start(p) \/ Locking(p) \/ Interrupt(p) \/ Crash(p) \/ Publishing(p)
               \/ RecoverFails(p) \/ Replay(p) \/ Load(p) \/ Reject(p) \/ Validate(p)
               \/ AppendRefused(p) \/ WriteSpec(p) \/ WriteRegistry(p)
      PROVE  UNCHANGED journal
  BY <1>6 DEF Start, Locking, Acquire, Confirm, LockTimeout, Release, Interrupt, Crash,
     Publishing,
     WriteLeaf, WriteMeta, ProjectionFails, RecoverFails, Replay, Load, Reject, Validate,
     AppendRefused, WriteSpec, WriteRegistry, files
<1>7. ASSUME NEW r \in Readers, Reading(r) PROVE UNCHANGED journal
  BY <1>7 DEF Reading, ReadMeta, CheckFresh, ReadLeaf, ReadLeafFails, CheckAgain, files
<1>8. CASE UNCHANGED vars
  BY <1>1, <1>8 DEF vars, files
<1> QED
  BY <1>1, <1>3, <1>4, <1>5, <1>6, <1>7, <1>8 DEF Next, Working, Mutating, Repairing

\* "seq: strictly +1 per entry; no gaps": no interleaving of commands, torn
\* write, crash or repair makes a journal whose seq numbers a replay refuses.
THEOREM SeqNumbersContiguous == Spec => []SeqContiguous
<1>1. SeqInv => SeqContiguous
  BY DEF SeqInv
<1> QED
  BY <1>1, SeqInit, SeqStep, PTL DEF Spec
=============================================================================
