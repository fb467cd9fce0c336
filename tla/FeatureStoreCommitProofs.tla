---------------------- MODULE FeatureStoreCommitProofs ----------------------
(***************************************************************************)
(* Theorems about what a mutation is judged on and what becomes of what it *)
(* committed, about what doctor leaves, about what readers without a lease *)
(* are served, and the refinement of AtomicLog: for any number of commands *)
(* and readers and of crashes and repairs. What readers are served needs   *)
(* that a repair truncates nothing that was replayed, the refinement that  *)
(* writes stop within a line; the others hold for every cut.               *)
(***************************************************************************)
EXTENDS FeatureStoreProofs

-----------------------------------------------------------------------------
(* The strengthening. *)

\* The places of a command before its batch lands.
Before == {"idle", "load", "acquire", "confirm", "validate", "append"}

\* Whoever is inside the lease owns it.
LeaseHeld == \A p \in Procs : pc[p] \in Leased => holder = p

\* A line has its author's name only once the author has appended it.
Unheard(lines, p) == \A i \in 1 .. Len(lines) : lines[i].op # p

AppendsOnce ==
  \A p \in Procs : pc[p] \in Before =>
    Unheard(journal, p) /\ \A q \in Procs : Unheard(view[q], p)

\* Two histories that share a line share everything before it.
Agree(s, t) ==
  \A i \in 1 .. Len(s) : i <= Len(t) /\ s[i] = t[i] => \A j \in 1 .. i : s[j] = t[j]

ViewsAgree == \A p \in Procs : Agree(view[p], journal)

\* Only mutations append and commit.
AppendsMutate ==
  \A p \in Procs :
    /\ pc[p] \in {"append", "spec", "registry"} => cmd[p].kind = "mutate"
    /\ pc[p] \in Before => outcome[p] = "none"

BaseInv == SeqInv /\ LeaseHeld /\ AppendsOnce /\ ViewsAgree /\ AppendsMutate

\* The lines of a committed batch stand together, and nowhere else.
Standing(lines, p) ==
  \E i \in 0 .. Len(lines) - cmd[p].count :
    /\ \A k \in 1 .. cmd[p].count :
         /\ lines[i + k].op = p
         /\ lines[i + k].index = k - 1
         /\ lines[i + k].count = cmd[p].count
    /\ \A j \in 1 .. Len(lines) : lines[j].op = p => j \in i + 1 .. i + cmd[p].count

CommittedStand == \A p \in Procs : outcome[p] = "committed" => Standing(journal, p)

\* An unterminated last line is the work of a command that has reported otherwise.
TornUncommitted ==
  tail = "unterminated" =>
    /\ journal # <<>>
    /\ \E q \in Procs : /\ Last(journal).op = q
                        /\ pc[q] \notin Before
                        /\ outcome[q] # "committed"

CommitInv == BaseInv /\ CommittedStand /\ TornUncommitted

\* While doctor publishes, what it replayed is the journal, and the leaves it has
\* passed are composed from it.
Replayed(p) ==
  /\ cmd[p].kind \in {"rebuild", "checkTail"}
  /\ view[p] = journal
  /\ tail # "fragment"
  /\ cmd[p].kind = "checkTail" => tail = "clean"

DoctorOf(p) ==
  /\ pc[p] \in {"recover", "replay"} => cmd[p].kind \in {"rebuild", "checkTail"}
  /\ pc[p] = "replay" /\ cmd[p].kind = "checkTail" => tail = "clean"
  /\ pc[p] = "leaf" /\ cmd[p].kind # "mutate" =>
       Replayed(p) /\ \A i \in 1 .. leaf[p] - 1 : leaves[LeafOrder[i]] = view[p]
  /\ pc[p] = "meta" /\ cmd[p].kind # "mutate" =>
       Replayed(p) /\ \A f \in Leaves : leaves[f] = view[p]
  /\ pc[p] = "release" /\ outcome[p] = "rebuilt" =>
       Replayed(p) /\ meta = view[p] /\ \A f \in Leaves : leaves[f] = view[p]
  /\ outcome[p] = "rebuilt" => pc[p] \in {"release"} \cup Exited

DoctorInv == \A p \in Procs : DoctorOf(p)

-----------------------------------------------------------------------------
(* What a step does, by what the invariants look at. *)

\* A step of p is about p only.
Own(p) ==
  /\ pc' = [pc EXCEPT ![p] = pc'[p]]
  /\ view' = [view EXCEPT ![p] = view'[p]]
  /\ outcome' = [outcome EXCEPT ![p] = outcome'[p]]
  /\ cmd' = [cmd EXCEPT ![p] = cmd'[p]]
  /\ leaf' = [leaf EXCEPT ![p] = leaf'[p]]

\* The lease is taken, kept or left.
Leases(p) ==
  \/ /\ holder' = p
     /\ \A q \in Procs : pc[q] \in Leased => holder # q
  \/ /\ holder' = holder
     /\ pc'[p] \in Leased => pc[p] \in Leased
  \/ /\ holder # p => holder' = holder
     /\ pc'[p] \in Exited

\* The lines of an append, all or some of them.
Grows(p, k) ==
  /\ pc[p] = "append" /\ TailMatches(view[p])
  /\ journal' = journal \o SubSeq(Batch(p), 1, k)
  /\ pc'[p] \in {"spec", "leaf", "release"}
  /\ outcome'[p] = "committed" => k = cmd[p].count
  /\ \/ outcome'[p] = "committed" /\ view'[p] = view[p] \o Batch(p) /\ tail' = tail
     \/ outcome'[p] = "notCommitted" /\ view'[p] = view[p]
  /\ tail' = "unterminated" => k > 0 /\ outcome'[p] = "notCommitted"

Writes(p) ==
  \/ /\ UNCHANGED <<journal, tail>>
     /\ view'[p] \in {<<>>, view[p], journal}
     /\ outcome'[p] = "committed" => outcome[p] = "committed"
  \/ \E k \in 0 .. cmd[p].count : Grows(p, k)
  \/ Recover(p)

\* How the command goes on.
Proceeds(p) ==
  /\ pc'[p] \in Before => pc[p] \in Before /\ outcome'[p] = outcome[p]
  /\ pc[p] \notin Before /\ outcome'[p] = "committed" => outcome[p] = "committed"
  /\ pc'[p] = "append" => cmd[p].kind = "mutate" /\ pc[p] = "validate"
  /\ pc'[p] \in {"spec", "registry"} =>
       pc[p] # "idle" /\ (cmd[p].kind = "mutate" \/ pc[p] = "append")
  /\ pc[p] # "idle" => cmd'[p] = cmd[p]

LEMMA OwnStep ==
  ASSUME TypeInv, NEW p \in Procs, Start(p) \/ Working(p) \/ Interrupt(p) \/ Crash(p)
  PROVE  Own(p) /\ Leases(p)
<1> USE DEF TypeInv, TypeOK, Own, Leases, Goto, Leave, Report, Exited, Leased, procVars, files
<1>1. CASE Start(p)
  BY <1>1 DEF Start
<1>2. CASE Acquire(p)
  <2>1. holder \in {NoProc} \cup {q \in Procs : pc[q] \in Exited} /\ holder' = p
    BY <1>2 DEF Acquire
  <2>2. \A q \in Procs : pc[q] \in Leased => holder # q
    BY <2>1, NoProcAssumption
  <2> QED
    BY <1>2, <2>1, <2>2 DEF Acquire
<1>17. CASE Confirm(p)
  BY <1>17 DEF Confirm
<1>3. CASE LockTimeout(p)
  BY <1>3 DEF LockTimeout
<1>4. CASE Release(p)
  BY <1>4 DEF Release
<1>5. CASE Interrupt(p)
  BY <1>5 DEF Interrupt
<1>6. CASE Crash(p)
  BY <1>6 DEF Crash
<1>7. CASE Load(p) \/ Reject(p) \/ AppendRefused(p)
  BY <1>7 DEF Load, Reject, AppendRefused
<1>8. CASE Validate(p)
  BY <1>8 DEF Validate
<1>9. CASE AppendBatch(p)
  BY <1>9 DEF AppendBatch
<1>10. CASE AppendUnsynced(p) \/ AppendTorn(p)
  BY <1>10 DEF AppendUnsynced, AppendTorn
<1>11. CASE WriteSpec(p) \/ WriteRegistry(p)
  BY <1>11 DEF WriteSpec, WriteRegistry
<1>12. CASE Recover(p) \/ RecoverFails(p)
  BY <1>12 DEF Recover, RecoverFails
<1>13. CASE Replay(p)
  BY <1>13 DEF Replay
<1>14. CASE WriteLeaf(p)
  BY <1>14 DEF WriteLeaf
<1>15. CASE WriteMeta(p)
  BY <1>15 DEF WriteMeta
<1>16. CASE ProjectionFails(p)
  BY <1>16 DEF ProjectionFails
<1> QED
  BY <1>1, <1>2, <1>3, <1>4, <1>5, <1>6, <1>7, <1>8, <1>9, <1>10, <1>11, <1>12, <1>13, <1>14,
     <1>15, <1>16, <1>17 DEF Working, Locking, Mutating, Repairing, Publishing

LEMMA OwnProgress ==
  ASSUME TypeInv, NEW p \in Procs, Start(p) \/ Working(p) \/ Interrupt(p) \/ Crash(p)
  PROVE  Proceeds(p)
<1> USE DEF TypeInv, TypeOK, Proceeds, Goto, Leave, Report, Before, Exited, Leased
<1>1. CASE Start(p)
  BY <1>1 DEF Start
<1>2. CASE Acquire(p)
  BY <1>2 DEF Acquire
<1>17. CASE Confirm(p)
  BY <1>17 DEF Confirm
<1>3. CASE LockTimeout(p)
  BY <1>3 DEF LockTimeout
<1>4. CASE Release(p)
  BY <1>4 DEF Release
<1>5. CASE Interrupt(p)
  BY <1>5 DEF Interrupt
<1>6. CASE Crash(p)
  BY <1>6 DEF Crash
<1>7. CASE Load(p) \/ Reject(p) \/ AppendRefused(p)
  BY <1>7 DEF Load, Reject, AppendRefused
<1>8. CASE Validate(p)
  BY <1>8 DEF Validate
<1>9. CASE AppendBatch(p)
  BY <1>9 DEF AppendBatch
<1>10. CASE AppendUnsynced(p) \/ AppendTorn(p)
  BY <1>10 DEF AppendUnsynced, AppendTorn
<1>11. CASE WriteSpec(p) \/ WriteRegistry(p)
  BY <1>11 DEF WriteSpec, WriteRegistry
<1>12. CASE Recover(p) \/ RecoverFails(p)
  BY <1>12 DEF Recover, RecoverFails
<1>13. CASE Replay(p)
  BY <1>13 DEF Replay
<1>14. CASE WriteLeaf(p)
  BY <1>14 DEF WriteLeaf
<1>15. CASE WriteMeta(p)
  BY <1>15 DEF WriteMeta
<1>16. CASE ProjectionFails(p)
  BY <1>16 DEF ProjectionFails
<1> QED
  BY <1>1, <1>2, <1>3, <1>4, <1>5, <1>6, <1>7, <1>8, <1>9, <1>10, <1>11, <1>12, <1>13, <1>14,
     <1>15, <1>16, <1>17 DEF Working, Locking, Mutating, Repairing, Publishing

\* An append adds the lines that its caller made, and tells which of them.
LEMMA OwnWrites ==
  ASSUME TypeInv, NEW p \in Procs, Start(p) \/ Working(p) \/ Interrupt(p) \/ Crash(p)
  PROVE  Writes(p)
<1> USE DEF Goto, Leave, Report
<1>1. view \in [Procs -> Histories] /\ outcome \in [Procs -> Outcomes]
      /\ pc \in [Procs -> PcStates] /\ cmd[p].count \in Nat
  BY CommandTyped DEF TypeInv, TypeOK
<1>2. CASE /\ UNCHANGED <<journal, tail, view>>
           /\ outcome'[p] \in {outcome[p], "notCommitted", "rebuilt", "failed"}
  BY <1>2 DEF Writes
<1>3. CASE LockTimeout(p) \/ Release(p) \/ Interrupt(p) \/ Crash(p)
  BY <1>1, <1>3 DEF LockTimeout, Release, Interrupt, Crash, files, Writes
<1>4. CASE Load(p) \/ Replay(p)
  BY <1>1, <1>4 DEF Load, Replay, files, Writes
<1>5. ASSUME AppendBatch(p) \/ AppendUnsynced(p)
      PROVE  Writes(p)
  <2>1. Batch(p) = SubSeq(Batch(p), 1, cmd[p].count)
    BY BatchTyped DEF TypeInv, Histories
  <2>3. journal' = journal \o SubSeq(Batch(p), 1, cmd[p].count)
    BY <1>5, <2>1 DEF AppendBatch, AppendUnsynced
  <2>4. tail' = "clean" /\ tail' = tail
    BY <1>5 DEF AppendBatch, AppendUnsynced, TailMatches, SameTail
  <2>5. CASE AppendBatch(p)
    <3>1. outcome'[p] = "committed" /\ view'[p] = view[p] \o Batch(p)
          /\ pc'[p] \in {"spec", "leaf"}
      BY <1>1, <2>5 DEF AppendBatch
    <3>2. Grows(p, cmd[p].count)
      BY <2>3, <2>4, <2>5, <3>1 DEF AppendBatch, Grows
    <3> QED
      BY <1>1, <3>2 DEF Writes
  <2>6. CASE AppendUnsynced(p)
    <3>1. outcome'[p] = "notCommitted" /\ view' = view /\ pc'[p] = "release"
      BY <1>1, <2>6 DEF AppendUnsynced
    <3>2. Grows(p, cmd[p].count)
      BY <2>3, <2>4, <2>6, <3>1 DEF AppendUnsynced, Grows
    <3> QED
      BY <1>1, <3>2 DEF Writes
  <2> QED
    BY <1>5, <2>5, <2>6
<1>6. CASE AppendTorn(p)
  <2>1. PICK cut \in CutPoints, k \in 0 .. cmd[p].count :
          /\ cut = "unterminated" => k > 0
          /\ journal' = journal \o SubSeq(Batch(p), 1, k)
          /\ tail' = IF cut = "boundary" THEN "clean" ELSE cut
    BY <1>6 DEF AppendTorn
  <2>2. outcome'[p] = "notCommitted" /\ view' = view /\ pc'[p] = "release"
    BY <1>1, <1>6 DEF AppendTorn
  <2>3. Grows(p, k)
    BY <1>6, <2>1, <2>2 DEF AppendTorn, Grows
  <2> QED
    BY <2>3 DEF Writes
<1>7. CASE Recover(p)
  BY <1>7 DEF Writes
<1>8. CASE Start(p) \/ Acquire(p) \/ Confirm(p) \/ Reject(p) \/ Validate(p) \/ AppendRefused(p)
           \/ WriteSpec(p) \/ WriteRegistry(p) \/ RecoverFails(p) \/ Publishing(p)
  BY <1>1, <1>2, <1>8 DEF Start, Acquire, Confirm, Reject, Validate, AppendRefused, WriteSpec,
     WriteRegistry,
     RecoverFails, Publishing, WriteLeaf, WriteMeta, ProjectionFails, files
<1> QED
  BY <1>3, <1>4, <1>5, <1>6, <1>7, <1>8 DEF Working, Locking, Mutating, Repairing

LEMMA ReaderStep ==
  ASSUME NEW r \in Readers, Reading(r)
  PROVE  UNCHANGED <<files, holder, procVars, crashes>>
BY DEF Reading, ReadMeta, CheckFresh, ReadLeaf, ReadLeafFails, CheckAgain

\* Every step is one of a command, or leaves files and commands alone.
LEMMA Steps ==
  ASSUME TypeInv, [Next]_vars
  PROVE  \/ UNCHANGED <<files, holder, procVars>>
         \/ \E p \in Procs :
              /\ Start(p) \/ Working(p) \/ Interrupt(p) \/ Crash(p)
              /\ Own(p) /\ Leases(p) /\ Proceeds(p) /\ Writes(p)
BY OwnStep, OwnProgress, OwnWrites, ReaderStep DEF Next, vars

-----------------------------------------------------------------------------
(* The lease keeps the others out, and an unchanged tail an unchanged base. *)

LEMMA BaseInit == Init => BaseInv
<1> SUFFICES ASSUME Init PROVE BaseInv
  OBVIOUS
<1>1. SeqInv
  BY SeqInit
<1>2. LeaseHeld
  BY DEF Init, LeaseHeld, Leased
<1>3. AppendsOnce
  BY NoProcAssumption DEF Init, AppendsOnce, Unheard, StartLine
<1>4. ViewsAgree
  BY DEF Init, ViewsAgree, Agree
<1>5. AppendsMutate
  BY DEF Init, AppendsMutate
<1> QED
  BY <1>1, <1>2, <1>3, <1>4, <1>5 DEF BaseInv

\* The tail check: a view that ends where the journal ends, is the journal.
LEMMA MatchingIsJournal ==
  ASSUME TypeInv, ViewsAgree, NEW p \in Procs, TailMatches(view[p])
  PROVE  view[p] = journal /\ tail = "clean"
<1>1. view[p] \in Seq(Lines) /\ journal \in Seq(Lines)
  BY DEF TypeInv, TypeOK, Histories
<1>2. Len(view[p]) = Len(journal) /\ tail = "clean"
  BY DEF TailMatches, SameTail
<1>3. \A j \in 1 .. Len(journal) : view[p][j] = journal[j]
  <2>1. CASE journal = <<>>
    BY <2>1
  <2>2. CASE journal # <<>>
    <3>1. Len(journal) \in 1 .. Len(view[p]) /\ view[p][Len(journal)] = journal[Len(journal)]
      BY <1>1, <1>2, <2>2 DEF TailMatches, SameTail, Last
    <3> QED
      BY <1>2, <3>1 DEF ViewsAgree, Agree
  <2> QED
    BY <2>1, <2>2
<1> QED
  BY <1>1, <1>2, <1>3

\* What an append leaves in the file.
LEMMA GrownJournal ==
  ASSUME TypeInv, ViewsAgree, NEW p \in Procs, NEW k \in 0 .. cmd[p].count, Grows(p, k)
  PROVE  /\ k \in Nat /\ cmd[p].count \in Nat
         /\ view[p] = journal
         /\ journal' \in Histories /\ Len(journal') = Len(journal) + k
         /\ \A i \in 1 .. Len(journal) : journal'[i] = journal[i]
         /\ \A i \in 1 .. k : journal'[Len(journal) + i] = Batch(p)[i]
         /\ view'[p] \in {journal, journal'}
<1>1. cmd[p].count \in Nat /\ k \in Nat
  BY CommandTyped DEF TypeInv, TypeOK
<1>2. /\ Batch(p) \in Histories /\ Len(Batch(p)) = cmd[p].count
      /\ SubSeq(Batch(p), 1, k) \in Histories
      /\ Len(SubSeq(Batch(p), 1, k)) = k
      /\ \A i \in 1 .. k : SubSeq(Batch(p), 1, k)[i] = Batch(p)[i]
  BY BatchTyped, PrefixTyped DEF TypeInv
<1>3. view[p] = journal
  BY MatchingIsJournal DEF Grows
<1>4. journal \in Histories
  BY DEF TypeInv, TypeOK
<1>5. /\ journal' \in Histories /\ Len(journal') = Len(journal) + k
      /\ \A i \in 1 .. Len(journal) : journal'[i] = journal[i]
      /\ \A i \in 1 .. k : journal'[Len(journal) + i] = SubSeq(Batch(p), 1, k)[i]
  BY <1>2, <1>4, ConcatTyped DEF Grows
<1>6. Batch(p) = SubSeq(Batch(p), 1, cmd[p].count)
  BY <1>2 DEF Histories
<1>7. view'[p] \in {journal, journal'}
  BY <1>3, <1>6 DEF Grows
<1> QED
  BY <1>1, <1>2, <1>3, <1>5, <1>7

LEMMA BatchAuthor ==
  ASSUME NEW p \in Procs, NEW i \in 1 .. cmd[p].count
  PROVE  Batch(p)[i].op = p /\ Batch(p)[i].index = i - 1 /\ Batch(p)[i].count = cmd[p].count
BY DEF Batch

LEMMA RecoveredPrefix ==
  ASSUME TypeInv, NEW p \in Procs, Recover(p)
  PROVE  /\ Len(journal') <= Len(journal) /\ Len(journal') \in Nat /\ Len(journal) \in Nat
         /\ \A i \in 1 .. Len(journal') : journal'[i] = journal[i]
         /\ view'[p] = view[p] /\ tail' = "clean" /\ outcome' = outcome
         /\ pc[p] = "recover" /\ pc'[p] = "replay"
<1>1. journal \in Histories /\ tail \in Tails /\ pc \in [Procs -> PcStates]
  BY DEF TypeInv, TypeOK
<1>2. journal' = Recovered(journal, tail)
  BY DEF Recover
<1>3. Len(journal') <= Len(journal) /\ \A i \in 1 .. Len(journal') : journal'[i] = journal[i]
  BY <1>1, <1>2, RecoveredTyped
<1>4. Len(journal') \in Nat /\ Len(journal) \in Nat
  BY <1>1, <1>2, RecoveredTyped DEF Histories
<1>5. /\ view'[p] = view[p] /\ tail' = "clean" /\ outcome' = outcome
      /\ pc[p] = "recover" /\ pc'[p] = "replay"
  BY <1>1 DEF Recover, Goto
<1> QED
  BY <1>3, <1>4, <1>5

LEMMA LeaseHeldStep ==
  ASSUME BaseInv, NEW p \in Procs, Own(p), Leases(p)
  PROVE  LeaseHeld'
<1>1. pc \in [Procs -> PcStates]
  BY DEF BaseInv, SeqInv, TypeInv, TypeOK
<1> SUFFICES ASSUME NEW q \in Procs, pc'[q] \in Leased PROVE holder' = q
  BY DEF LeaseHeld
<1>2. \A x \in Procs : pc[x] \in Leased => holder = x
  BY DEF LeaseHeld, BaseInv
<1>3. CASE q # p
  <2>1. pc[q] \in Leased /\ holder = q
    BY <1>1, <1>2, <1>3 DEF Own
  <2> QED
    BY <1>3, <2>1 DEF Leases
<1>4. CASE q = p
  <2>1. pc'[p] \notin Exited
    BY <1>4 DEF Exited, Leased
  <2> QED
    BY <1>2, <1>4, <2>1 DEF Leases
<1> QED
  BY <1>3, <1>4

LEMMA AppendsMutateStep ==
  ASSUME BaseInv, NEW p \in Procs, Own(p), Proceeds(p)
  PROVE  AppendsMutate'
<1>1. /\ pc \in [Procs -> PcStates] /\ outcome \in [Procs -> Outcomes]
      /\ cmd \in [Procs -> Commands \cup {NoCommand}]
  BY DEF BaseInv, SeqInv, TypeInv, TypeOK
<1> SUFFICES ASSUME NEW q \in Procs
             PROVE  /\ pc'[q] \in {"append", "spec", "registry"} => cmd'[q].kind = "mutate"
                    /\ pc'[q] \in Before => outcome'[q] = "none"
  BY DEF AppendsMutate
<1>2. CASE q = p
  BY <1>2 DEF AppendsMutate, BaseInv, Proceeds, Before
<1>3. CASE q # p
  BY <1>1, <1>3 DEF AppendsMutate, BaseInv, Own
<1> QED
  BY <1>2, <1>3

LEMMA AppendsOnceStep ==
  ASSUME BaseInv, NEW p \in Procs, Own(p), Proceeds(p), Writes(p)
  PROVE  AppendsOnce'
<1>1. TypeInv /\ ViewsAgree /\ AppendsOnce
  BY DEF BaseInv, SeqInv
<1>2. pc \in [Procs -> PcStates] /\ view \in [Procs -> Histories]
  BY <1>1 DEF TypeInv, TypeOK
<1> SUFFICES ASSUME NEW q \in Procs, pc'[q] \in Before
             PROVE  Unheard(journal', q) /\ \A x \in Procs : Unheard(view'[x], q)
  BY DEF AppendsOnce, Unheard
<1>3. pc[q] \in Before
  BY <1>2 DEF Own, Proceeds
<1>4. Unheard(journal, q) /\ \A x \in Procs : Unheard(view[x], q)
  BY <1>1, <1>3 DEF AppendsOnce
<1>5. Unheard(<<>>, q)
  BY DEF Unheard
<1>6. \A x \in Procs : x # p => view'[x] = view[x]
  BY <1>2 DEF Own
<1>7. CASE UNCHANGED journal /\ view'[p] \in {<<>>, view[p], journal}
  BY <1>4, <1>5, <1>6, <1>7
<1>8. CASE Recover(p)
  <2>1. Unheard(journal', q)
    BY <1>1, <1>4, <1>8, RecoveredPrefix DEF Unheard
  <2> QED
    BY <1>1, <1>4, <1>6, <1>8, <2>1, RecoveredPrefix
<1>9. ASSUME NEW k \in 0 .. cmd[p].count, Grows(p, k)
      PROVE  Unheard(journal', q) /\ \A x \in Procs : Unheard(view'[x], q)
  <2>1. q # p
    BY <1>9 DEF Grows, Before
  <2>2. journal \in Histories /\ Len(journal) \in Nat
    BY <1>1 DEF TypeInv, TypeOK, Histories
  <2>3. ASSUME NEW i \in 1 .. Len(journal') PROVE journal'[i].op # q
    <3>1. CASE i <= Len(journal)
      BY <1>1, <1>4, <1>9, <2>2, <3>1, GrownJournal DEF Unheard
    <3>2. CASE i > Len(journal)
      <4>1. i - Len(journal) \in 1 .. k /\ i = Len(journal) + (i - Len(journal))
        BY <1>1, <1>9, <2>2, <3>2, GrownJournal
      <4>2. journal'[i] = Batch(p)[i - Len(journal)]
        BY <1>1, <1>9, <4>1, GrownJournal
      <4>3. i - Len(journal) \in 1 .. cmd[p].count
        BY <1>1, <1>9, <4>1, GrownJournal
      <4> QED
        BY <2>1, <4>2, <4>3, BatchAuthor
    <3> QED
      BY <2>2, <3>1, <3>2
  <2>4. Unheard(journal', q)
    BY <2>3 DEF Unheard
  <2> QED
    BY <1>1, <1>4, <1>6, <1>9, <2>4, GrownJournal
<1> QED
  BY <1>7, <1>8, <1>9 DEF Writes

LEMMA ViewsAgreeStep ==
  ASSUME BaseInv, NEW p \in Procs, Own(p), Writes(p)
  PROVE  ViewsAgree'
<1>1. TypeInv /\ ViewsAgree /\ AppendsOnce
  BY DEF BaseInv, SeqInv
<1>2. view \in [Procs -> Histories] /\ journal \in Histories /\ Len(journal) \in Nat
  BY <1>1 DEF TypeInv, TypeOK, Histories
<1> SUFFICES ASSUME NEW q \in Procs PROVE Agree(view'[q], journal')
  BY DEF ViewsAgree, Agree
<1>3. q # p => view'[q] = view[q]
  BY <1>2 DEF Own
<1>4. Agree(view[q], journal)
  BY <1>1 DEF ViewsAgree
<1>5. \A s : Agree(<<>>, s) /\ Agree(s, s)
  BY DEF Agree
<1>6. CASE UNCHANGED journal /\ view'[p] \in {<<>>, view[p], journal}
  BY <1>3, <1>4, <1>5, <1>6
<1>7. CASE Recover(p)
  <2>1. view'[q] = view[q]
    BY <1>1, <1>3, <1>7, RecoveredPrefix
  <2>2. /\ Len(journal') \in Nat /\ Len(journal') <= Len(journal)
        /\ \A i \in 1 .. Len(journal') : journal'[i] = journal[i]
    BY <1>1, <1>7, RecoveredPrefix
  <2>3. ASSUME NEW i \in 1 .. Len(view[q]), i <= Len(journal'), view[q][i] = journal'[i],
               NEW j \in 1 .. i
        PROVE  view[q][j] = journal'[j]
    <3>1. Len(view[q]) \in Nat
      BY <1>2 DEF Histories
    <3>2. i <= Len(journal) /\ i \in 1 .. Len(journal') /\ j \in 1 .. Len(journal')
      BY <1>2, <2>2, <2>3, <3>1
    <3>3. view[q][i] = journal[i]
      BY <2>2, <2>3, <3>2
    <3>4. view[q][j] = journal[j]
      BY <1>4, <3>2, <3>3 DEF Agree
    <3> QED
      BY <2>2, <3>2, <3>4
  <2> QED
    BY <2>1, <2>3 DEF Agree
<1>8. ASSUME NEW k \in 0 .. cmd[p].count, Grows(p, k) PROVE Agree(view'[q], journal')
  <2>1. Len(journal') = Len(journal) + k /\ k \in Nat
    BY <1>1, <1>8, GrownJournal
  <2>2. \A i \in 1 .. Len(journal) : journal'[i] = journal[i]
    BY <1>1, <1>8, GrownJournal
  <2>3. Agree(journal, journal')
    BY <1>2, <2>2 DEF Agree
  <2>4. CASE q = p
    BY <1>1, <1>5, <1>8, <2>3, <2>4, GrownJournal
  <2>5. CASE q # p
    <3>1. view'[q] = view[q] /\ Len(view[q]) \in Nat
      BY <1>2, <1>3, <2>5 DEF Histories
    <3>2. Unheard(view[q], p)
      BY <1>1, <1>8 DEF AppendsOnce, Grows, Before
    <3>3. ASSUME NEW i \in 1 .. Len(view[q]), i <= Len(journal'), view[q][i] = journal'[i],
                 NEW j \in 1 .. i
          PROVE  view[q][j] = journal'[j]
      <4>1. CASE i <= Len(journal)
        <5>1. i \in 1 .. Len(journal) /\ j \in 1 .. Len(journal)
          BY <1>2, <3>1, <4>1
        <5>2. view[q][i] = journal[i]
          BY <2>2, <3>3, <5>1
        <5>3. view[q][j] = journal[j]
          BY <1>4, <4>1, <5>2 DEF Agree
        <5> QED
          BY <2>2, <5>1, <5>3
      <4>2. CASE i > Len(journal)
        <5>1. i - Len(journal) \in 1 .. k /\ i = Len(journal) + (i - Len(journal))
          BY <1>2, <2>1, <3>1, <3>3, <4>2
        <5>2. journal'[i] = Batch(p)[i - Len(journal)]
          BY <1>1, <1>8, <5>1, GrownJournal
        <5>3. i - Len(journal) \in 1 .. cmd[p].count
          BY <1>1, <1>8, <5>1, GrownJournal
        <5>4. view[q][i].op = p
          BY <3>3, <5>2, <5>3, BatchAuthor
        <5> QED
          BY <3>2, <5>4 DEF Unheard
      <4> QED
        BY <1>2, <3>1, <4>1, <4>2
    <3> QED
      BY <3>1, <3>3 DEF Agree
  <2> QED
    BY <2>4, <2>5
<1> QED
  BY <1>6, <1>7, <1>8 DEF Writes

LEMMA BaseStep == BaseInv /\ [Next]_vars => BaseInv'
<1> SUFFICES ASSUME BaseInv, [Next]_vars PROVE BaseInv'
  OBVIOUS
<1>1. SeqInv'
  BY SeqStep DEF BaseInv
<1>2. CASE UNCHANGED <<files, holder, procVars>>
  <2>1. UNCHANGED <<journal, holder, pc, cmd, view, outcome>>
    BY <1>2 DEF files, procVars
  <2> QED
    BY <1>1, <2>1 DEF BaseInv, LeaseHeld, AppendsOnce, Unheard, ViewsAgree, Agree, AppendsMutate
<1>3. ASSUME NEW p \in Procs, Own(p), Leases(p), Proceeds(p), Writes(p) PROVE BaseInv'
  BY <1>1, <1>3, LeaseHeldStep, AppendsMutateStep, AppendsOnceStep, ViewsAgreeStep DEF BaseInv
<1>4. TypeInv
  BY DEF BaseInv, SeqInv
<1> QED
  BY <1>2, <1>3, <1>4, Steps

\* "preflight against the latest snapshot before the append": no command, crash
\* or repair between the load and the append puts other lines under a mutation
\* than the ones it was judged on, although it was judged before it had the lease.
THEOREM AppendBase == Spec => AppendsBehindValidatedBase
<1>1. ASSUME BaseInv, [Next]_vars
      PROVE  [\A p \in Procs :
                pc[p] = "append" /\ journal' # journal
                  => view[p] = journal /\ tail = "clean"]_vars
  <2>1. TypeInv /\ ViewsAgree /\ LeaseHeld
    BY <1>1 DEF BaseInv, SeqInv
  <2> SUFFICES ASSUME NEW p \in Procs, pc[p] = "append", journal' # journal
               PROVE  view[p] = journal /\ tail = "clean"
    OBVIOUS
  <2>2. PICK q \in Procs : Writes(q)
    BY <1>1, <2>1, Steps DEF files
  <2>3. pc[q] \in {"append", "recover"}
    BY <2>1, <2>2, RecoveredPrefix DEF Writes, Grows
  <2>4. q = p
    BY <2>1, <2>3 DEF LeaseHeld, Leased
  <2>5. ~Recover(q)
    BY <2>1, <2>4, RecoveredPrefix
  <2> QED
    BY <2>1, <2>2, <2>4, <2>5, MatchingIsJournal DEF Writes, Grows
<1> QED
  BY <1>1, BaseInit, BaseStep, PTL DEF Spec, AppendsBehindValidatedBase

-----------------------------------------------------------------------------
(***************************************************************************)
(* What is committed stands. A repair drops the last batch only when lines *)
(* of it are missing, and a line without its newline only when the append  *)
(* that left it reported otherwise.                                        *)
(***************************************************************************)

\* The lines at the end of a journal that are not q's start behind q's.
LEMMA LastBatchBehind ==
  ASSUME NEW lines \in Histories, NEW q, NEW m \in 1 .. Len(lines),
         lines[m].op = q, Last(lines).op # q
  PROVE  Cardinality(LastBatch(lines)) \in 0 .. Len(lines) - m
<1>1. Len(lines) \in Nat
  BY DEF Histories
<1>2. LastBatch(lines) \subseteq m + 1 .. Len(lines)
  <2> SUFFICES ASSUME NEW i \in LastBatch(lines) PROVE i \in m + 1 .. Len(lines)
    OBVIOUS
  <2>1. i \in 1 .. Len(lines) /\ \A j \in i .. Len(lines) : lines[j].op = Last(lines).op
    BY DEF LastBatch
  <2>2. m \notin i .. Len(lines)
    BY <2>1
  <2> QED
    BY <1>1, <2>1, <2>2
<1>3. IsFiniteSet(m + 1 .. Len(lines))
      /\ Cardinality(m + 1 .. Len(lines))
           = IF m + 1 > Len(lines) THEN 0 ELSE Len(lines) - (m + 1) + 1
  BY <1>1, FS_Interval, m + 1 \in Int, Len(lines) \in Int
<1>4. Cardinality(LastBatch(lines)) <= Cardinality(m + 1 .. Len(lines))
      /\ Cardinality(LastBatch(lines)) \in Nat
  BY <1>2, <1>3, FS_Subset, FS_CardinalityType
<1> QED
  BY <1>1, <1>3, <1>4

\* A batch whose lines end the journal, all of them, is complete.
LEMMA WholeLastBatch ==
  ASSUME NEW lines \in Histories, NEW c \in Nat \ {0}, NEW i \in 0 .. Len(lines) - c,
         i + c = Len(lines), Last(lines).count = c,
         \A k \in 1 .. c : lines[i + k].op = Last(lines).op
  PROVE  ~IncompleteLastBatch(lines)
<1>1. Len(lines) \in Nat
  BY DEF Histories
<1>2. i + 1 .. Len(lines) \subseteq LastBatch(lines)
  <2> SUFFICES ASSUME NEW j \in i + 1 .. Len(lines), NEW k \in j .. Len(lines)
               PROVE  j \in 1 .. Len(lines) /\ lines[k].op = Last(lines).op
    BY DEF LastBatch
  <2>1. k - i \in 1 .. c /\ k = i + (k - i)
    BY <1>1
  <2>2. lines[k].op = Last(lines).op
    BY <2>1
  <2> QED
    BY <1>1, <2>2
<1>3. IsFiniteSet(1 .. Len(lines)) /\ LastBatch(lines) \subseteq 1 .. Len(lines)
  BY <1>1, FS_Interval, 1 \in Int, Len(lines) \in Int DEF LastBatch
<1>4. IsFiniteSet(LastBatch(lines))
  BY <1>3, FS_Subset
<1>5. Cardinality(i + 1 .. Len(lines))
        = IF i + 1 > Len(lines) THEN 0 ELSE Len(lines) - (i + 1) + 1
  BY <1>1, FS_Interval, i + 1 \in Int, Len(lines) \in Int
<1>6. Cardinality(i + 1 .. Len(lines)) <= Cardinality(LastBatch(lines))
      /\ Cardinality(LastBatch(lines)) \in Nat
  BY <1>2, <1>4, FS_Subset, FS_CardinalityType
<1>7. c <= Cardinality(LastBatch(lines))
  BY <1>1, <1>5, <1>6
<1> QED
  BY <1>6, <1>7 DEF IncompleteLastBatch

\* The repair keeps every line up to the end of a batch that stands.
LEMMA RepairKeeps ==
  ASSUME NEW lines \in Histories, NEW end \in Tails, NEW q, NEW c \in Nat \ {0},
         NEW i \in 0 .. Len(lines) - c,
         \A k \in 1 .. c : lines[i + k].op = q /\ lines[i + k].count = c,
         \A j \in 1 .. Len(lines) : lines[j].op = q => j \in i + 1 .. i + c,
         end = "unterminated" => Last(lines).op # q
  PROVE  i + c <= Len(Recovered(lines, end))
<1>1. Len(lines) \in Nat /\ i + c \in 1 .. Len(lines) /\ lines[i + c].op = q
  BY DEF Histories
<1> DEFINE kept == IF end = "unterminated" THEN Front(lines) ELSE lines
<1>2. PICK n \in i + c .. Len(lines) : kept = SubSeq(lines, 1, n)
  <2>1. CASE end = "unterminated"
    <3>1. Last(lines) = lines[Len(lines)]
      BY DEF Last
    <3>2. i + c # Len(lines)
      BY <1>1, <2>1, <3>1
    <3>3. Len(lines) - 1 \in i + c .. Len(lines)
      BY <1>1, <3>2
    <3> QED
      BY <2>1, <3>3 DEF Front
  <2>2. CASE end # "unterminated"
    <3>1. lines = SubSeq(lines, 1, Len(lines))
      BY DEF Histories
    <3>2. kept = SubSeq(lines, 1, Len(lines))
      BY <2>2, <3>1, Zenon
    <3>3. Len(lines) \in i + c .. Len(lines)
      BY <1>1
    <3> QED
      BY <3>2, <3>3, Zenon
  <2> QED
    BY <2>1, <2>2
<1>3. kept \in Histories /\ Len(kept) = n /\ \A j \in 1 .. n : kept[j] = lines[j]
  <2>1. n \in 0 .. Len(lines)
    BY <1>1
  <2> HIDE DEF kept
  <2> QED
    BY <1>2, <2>1, PrefixTyped
<1>4. Recovered(lines, end) = DropIncompleteBatch(kept)
  BY DEF Recovered
<1> HIDE DEF kept
<1>5. n \in Nat /\ i + c \in 1 .. n /\ kept[i + c].op = q
  BY <1>1, <1>2, <1>3
<1>6. Last(kept) = kept[n] /\ n \in 1 .. Len(lines)
  BY <1>1, <1>3, <1>5 DEF Last
<1>7. CASE Last(kept).op = q
  <2>1. n \in i + 1 .. i + c
    BY <1>3, <1>6, <1>7, <1>5
  <2>2. n = i + c
    BY <1>5, <2>1
  <2>3. Last(kept).count = c
    BY <1>3, <1>5, <1>6, <2>2
  <2>4. \A k \in 1 .. c : kept[i + k].op = Last(kept).op
    <3>1. \A k \in 1 .. c : i + k \in 1 .. n
      BY <2>2
    <3> QED
      BY <1>3, <1>7, <3>1
  <2>5. ~IncompleteLastBatch(kept)
    <3>1. i \in 0 .. Len(kept) - c /\ i + c = Len(kept)
      BY <1>3, <2>2
    <3> QED
      BY <1>3, <2>3, <2>4, <3>1, WholeLastBatch
  <2> QED
    BY <1>3, <1>4, <2>2, <2>5 DEF DropIncompleteBatch
<1>8. CASE Last(kept).op # q
  <2>1. Cardinality(LastBatch(kept)) \in 0 .. n - (i + c)
    BY <1>3, <1>5, <1>8, LastBatchBehind
  <2>2. n - Cardinality(LastBatch(kept)) \in i + c .. n
    BY <1>5, <2>1
  <2>3. CASE IncompleteLastBatch(kept)
    <3>1. DropIncompleteBatch(kept) = SubSeq(kept, 1, n - Cardinality(LastBatch(kept)))
      BY <1>3, <2>3 DEF DropIncompleteBatch, BeforeLastBatch
    <3>2. n - Cardinality(LastBatch(kept)) \in 0 .. Len(kept)
      BY <1>3, <1>5, <2>2
    <3>3. Len(DropIncompleteBatch(kept)) = n - Cardinality(LastBatch(kept))
      BY <1>3, <3>1, <3>2, PrefixTyped
    <3> QED
      BY <1>4, <2>2, <3>3
  <2>4. CASE ~IncompleteLastBatch(kept)
    BY <1>3, <1>4, <1>5, <2>4 DEF DropIncompleteBatch
  <2> QED
    BY <2>3, <2>4
<1> QED
  BY <1>7, <1>8

LEMMA CommitInit == Init => CommitInv
BY BaseInit DEF Init, CommitInv, CommittedStand, TornUncommitted

\* A repair keeps the committed batches.
LEMMA StandsRepaired ==
  ASSUME CommitInv, NEW p \in Procs, Recover(p), NEW q \in Procs, outcome[q] = "committed"
  PROVE  Standing(journal', q)
<1>1. TypeInv
  BY DEF CommitInv, BaseInv, SeqInv
<1> DEFINE c == cmd[q].count
<1>2. journal \in Histories /\ tail \in Tails /\ c \in Nat /\ cmd' = cmd
  BY <1>1, CommandTyped DEF TypeInv, TypeOK, Recover
<1>3. /\ journal' = Recovered(journal, tail)
      /\ Len(journal') \in Nat /\ Len(journal') <= Len(journal) /\ Len(journal) \in Nat
      /\ \A j \in 1 .. Len(journal') : journal'[j] = journal[j]
  BY <1>1, RecoveredPrefix DEF Recover
<1>4. PICK i \in 0 .. Len(journal) - c :
        /\ \A k \in 1 .. c : /\ journal[i + k].op = q
                             /\ journal[i + k].index = k - 1
                             /\ journal[i + k].count = c
        /\ \A j \in 1 .. Len(journal) : journal[j].op = q => j \in i + 1 .. i + c
  BY DEF CommitInv, CommittedStand, Standing
<1> HIDE DEF c
<1>5. CASE c = 0
  <2>1. \A j \in 1 .. Len(journal) : journal[j].op # q
    BY <1>4, <1>5
  <2>2. \A j \in 1 .. Len(journal') : journal'[j].op # q
    BY <1>3, <2>1
  <2>3. 0 \in 0 .. Len(journal') - c /\ \A k \in 1 .. c : FALSE
    BY <1>3, <1>5
  <2> QED
    BY <1>2, <2>2, <2>3 DEF Standing, c
<1>6. CASE c # 0
  <2>1. tail = "unterminated" => Last(journal).op # q
    <3> SUFFICES ASSUME tail = "unterminated", Last(journal).op = q PROVE FALSE
      OBVIOUS
    <3>1. \E x \in Procs : Last(journal).op = x /\ outcome[x] # "committed"
      BY DEF CommitInv, TornUncommitted
    <3> QED
      BY <3>1
  <2>2. i + c <= Len(journal')
    BY <1>2, <1>3, <1>4, <1>6, <2>1, RepairKeeps
  <2>3. i \in 0 .. Len(journal') - c
    BY <1>2, <1>3, <1>4, <2>2
  <2>4. \A k \in 1 .. c : i + k \in 1 .. Len(journal')
    BY <1>2, <1>3, <2>3
  <2>5. \A k \in 1 .. c : /\ journal'[i + k].op = q
                          /\ journal'[i + k].index = k - 1
                          /\ journal'[i + k].count = c
    BY <1>3, <1>4, <2>4
  <2>6. \A j \in 1 .. Len(journal') : journal'[j].op = q => j \in i + 1 .. i + c
    BY <1>3, <1>4
  <2> QED
    BY <1>2, <2>3, <2>5, <2>6 DEF Standing, c
<1> QED
  BY <1>5, <1>6

\* Another's append leaves a batch where it stands.
LEMMA StandsBefore ==
  ASSUME CommitInv, NEW p \in Procs, NEW n \in 0 .. cmd[p].count, Grows(p, n),
         NEW q \in Procs, q # p, outcome[q] = "committed", cmd'[q] = cmd[q]
  PROVE  Standing(journal', q)
<1>1. TypeInv /\ ViewsAgree
  BY DEF CommitInv, BaseInv, SeqInv
<1> DEFINE c == cmd[q].count
<1>2. c \in Nat /\ Len(journal) \in Nat
  BY <1>1, CommandTyped DEF TypeInv, TypeOK, Histories
<1>3. PICK i \in 0 .. Len(journal) - c :
        /\ \A k \in 1 .. c : /\ journal[i + k].op = q
                             /\ journal[i + k].index = k - 1
                             /\ journal[i + k].count = c
        /\ \A j \in 1 .. Len(journal) : journal[j].op = q => j \in i + 1 .. i + c
  BY DEF CommitInv, CommittedStand, Standing
<1> HIDE DEF c
<1>4. /\ n \in Nat /\ Len(journal') = Len(journal) + n
      /\ \A j \in 1 .. Len(journal) : journal'[j] = journal[j]
      /\ \A k \in 1 .. n : journal'[Len(journal) + k].op = p
  <2>1. /\ n \in Nat /\ cmd[p].count \in Nat /\ Len(journal') = Len(journal) + n
        /\ \A j \in 1 .. Len(journal) : journal'[j] = journal[j]
        /\ \A k \in 1 .. n : journal'[Len(journal) + k] = Batch(p)[k]
    BY <1>1, GrownJournal
  <2>2. \A k \in 1 .. n : k \in 1 .. cmd[p].count
    BY <2>1
  <2> QED
    BY <2>1, <2>2, BatchAuthor
<1>5. i \in 0 .. Len(journal') - c
  BY <1>2, <1>3, <1>4
<1>6. \A k \in 1 .. c : i + k \in 1 .. Len(journal)
  BY <1>2, <1>3
<1>7. \A k \in 1 .. c : /\ journal'[i + k].op = q
                        /\ journal'[i + k].index = k - 1
                        /\ journal'[i + k].count = c
  BY <1>3, <1>4, <1>6
<1>8. ASSUME NEW j \in 1 .. Len(journal'), journal'[j].op = q
      PROVE  j \in i + 1 .. i + c
  <2>1. CASE j <= Len(journal)
    BY <1>2, <1>3, <1>4, <1>8, <2>1
  <2>2. CASE j > Len(journal)
    <3>1. j - Len(journal) \in 1 .. n /\ j = Len(journal) + (j - Len(journal))
      BY <1>2, <1>4, <2>2
    <3> QED
      BY <1>4, <1>8, <3>1
  <2> QED
    BY <1>2, <1>4, <2>1, <2>2
<1> QED
  BY <1>5, <1>7, <1>8 DEF Standing, c

\* A whole append makes its batch stand.
LEMMA StandsAppended ==
  ASSUME CommitInv, NEW p \in Procs, Grows(p, cmd[p].count), cmd'[p] = cmd[p]
  PROVE  Standing(journal', p)
<1>1. TypeInv /\ ViewsAgree /\ AppendsOnce
  BY DEF CommitInv, BaseInv, SeqInv
<1> DEFINE c == cmd[p].count
<1>2. c \in Nat /\ c \in 0 .. c /\ Len(journal) \in Nat
  BY <1>1, CommandTyped DEF TypeInv, TypeOK, Histories
<1>3. Unheard(journal, p)
  BY <1>1 DEF AppendsOnce, Grows, Before
<1>4. /\ Len(journal') = Len(journal) + c
      /\ \A j \in 1 .. Len(journal) : journal'[j] = journal[j]
      /\ \A k \in 1 .. c : journal'[Len(journal) + k] = Batch(p)[k]
  BY <1>1, <1>2, GrownJournal
<1>5. \A k \in 1 .. c : /\ journal'[Len(journal) + k].op = p
                        /\ journal'[Len(journal) + k].index = k - 1
                        /\ journal'[Len(journal) + k].count = c
  BY <1>4, BatchAuthor
<1> HIDE DEF c
<1>6. ASSUME NEW j \in 1 .. Len(journal'), journal'[j].op = p
      PROVE  j \in Len(journal) + 1 .. Len(journal) + c
  <2>1. j > Len(journal)
    BY <1>2, <1>3, <1>4, <1>6 DEF Unheard
  <2> QED
    BY <1>2, <1>4, <2>1
<1>7. Len(journal) \in 0 .. Len(journal') - c
  BY <1>2, <1>4
<1> QED
  BY <1>5, <1>6, <1>7 DEF Standing, c

LEMMA CommittedStandStep ==
  ASSUME CommitInv, NEW p \in Procs, Own(p), Proceeds(p), Writes(p)
  PROVE  CommittedStand'
<1>1. /\ TypeInv /\ ViewsAgree /\ AppendsMutate
      /\ pc \in [Procs -> PcStates] /\ outcome \in [Procs -> Outcomes]
      /\ cmd \in [Procs -> Commands \cup {NoCommand}]
  BY DEF CommitInv, BaseInv, SeqInv, TypeInv, TypeOK
<1> SUFFICES ASSUME NEW q \in Procs, outcome'[q] = "committed" PROVE Standing(journal, q)'
  BY DEF CommittedStand
<1>2. Standing(journal', q) /\ cmd'[q] = cmd[q] => Standing(journal, q)'
  BY DEF Standing
<1>3. q # p => outcome[q] = "committed" /\ cmd'[q] = cmd[q]
  BY <1>1 DEF Own
<1>4. outcome[q] = "committed" => cmd'[q] = cmd[q]
  BY <1>1, <1>3 DEF AppendsMutate, Before, Proceeds
<1>5. CASE UNCHANGED journal /\ outcome[q] = "committed"
  BY <1>2, <1>4, <1>5 DEF CommitInv, CommittedStand
<1>6. CASE Recover(p)
  <2>1. outcome[q] = "committed"
    BY <1>1, <1>6, RecoveredPrefix
  <2> QED
    BY <1>2, <1>4, <1>6, <2>1, StandsRepaired
<1>7. ASSUME NEW k \in 0 .. cmd[p].count, Grows(p, k) PROVE Standing(journal, q)'
  <2>1. CASE q # p
    BY <1>2, <1>3, <1>7, <2>1, StandsBefore
  <2>2. CASE q = p
    <3>1. k = cmd[p].count /\ cmd'[p] = cmd[p]
      BY <1>7, <2>2 DEF Grows, Proceeds
    <3> QED
      BY <1>2, <1>7, <2>2, <3>1, StandsAppended
  <2> QED
    BY <2>1, <2>2
<1> QED
  BY <1>3, <1>5, <1>6, <1>7 DEF Writes

LEMMA TornUncommittedStep ==
  ASSUME CommitInv, NEW p \in Procs, Own(p), Proceeds(p), Writes(p)
  PROVE  TornUncommitted'
<1>1. /\ TypeInv /\ ViewsAgree
      /\ pc \in [Procs -> PcStates] /\ outcome \in [Procs -> Outcomes]
  BY DEF CommitInv, BaseInv, SeqInv, TypeInv, TypeOK
<1> SUFFICES ASSUME tail' = "unterminated"
             PROVE  /\ journal' # <<>>
                    /\ \E q \in Procs : /\ Last(journal').op = q
                                        /\ pc'[q] \notin Before
                                        /\ outcome'[q] # "committed"
  BY DEF TornUncommitted
<1>2. CASE UNCHANGED <<journal, tail>>
             /\ (outcome'[p] = "committed" => outcome[p] = "committed")
  <2>1. PICK q \in Procs : /\ Last(journal).op = q
                           /\ pc[q] \notin Before
                           /\ outcome[q] # "committed"
    BY <1>2 DEF CommitInv, TornUncommitted
  <2>2. pc'[q] \notin Before /\ outcome'[q] # "committed"
    BY <1>1, <1>2, <2>1 DEF Own, Proceeds
  <2> QED
    BY <1>2, <2>1, <2>2 DEF CommitInv, TornUncommitted
<1>3. ~Recover(p)
  BY <1>1, RecoveredPrefix
<1>4. ASSUME NEW k \in 0 .. cmd[p].count, Grows(p, k)
      PROVE  /\ journal' # <<>>
             /\ \E q \in Procs : /\ Last(journal').op = q
                                 /\ pc'[q] \notin Before
                                 /\ outcome'[q] # "committed"
  <2>1. k > 0 /\ outcome'[p] = "notCommitted" /\ pc'[p] \notin Before
    BY <1>4 DEF Grows, Before
  <2>2. /\ k \in Nat /\ cmd[p].count \in Nat
        /\ journal' \in Histories /\ Len(journal') = Len(journal) + k
        /\ journal'[Len(journal) + k] = Batch(p)[k]
    BY <1>1, <1>4, <2>1, GrownJournal
  <2>3. Len(journal) \in Nat
    BY <1>1 DEF TypeInv, TypeOK, Histories
  <2>4. Last(journal').op = p
    BY <2>1, <2>2, <2>3, BatchAuthor DEF Last
  <2>5. journal' # <<>>
    BY <2>1, <2>2, <2>3
  <2> QED
    BY <2>1, <2>4, <2>5
<1> QED
  BY <1>2, <1>3, <1>4 DEF Writes

LEMMA CommitStep == CommitInv /\ [Next]_vars => CommitInv'
<1> SUFFICES ASSUME CommitInv, [Next]_vars PROVE CommitInv'
  OBVIOUS
<1>1. BaseInv'
  BY BaseStep DEF CommitInv
<1>2. CASE UNCHANGED <<files, holder, procVars>>
  <2>1. UNCHANGED <<journal, tail, pc, cmd, outcome>>
    BY <1>2 DEF files, procVars
  <2> QED
    BY <1>1, <2>1 DEF CommitInv, CommittedStand, Standing, TornUncommitted, Last
<1>3. ASSUME NEW p \in Procs, Own(p), Proceeds(p), Writes(p) PROVE CommitInv'
  BY <1>1, <1>3, CommittedStandStep, TornUncommittedStep DEF CommitInv
<1>4. TypeInv
  BY DEF CommitInv, BaseInv, SeqInv
<1> QED
  BY <1>2, <1>3, <1>4, Steps

\* What a mutation reported as committed stays in the journal, whole, whatever
\* is torn, repaired, killed or appended afterwards.
THEOREM CommittedBatchesStay == Spec => []CommittedSurvives
<1>1. CommitInv => CommittedSurvives
  BY DEF CommitInv, CommittedStand, Standing, CommittedSurvives
<1> QED
  BY <1>1, CommitInit, CommitStep, PTL DEF Spec

-----------------------------------------------------------------------------
(***************************************************************************)
(* Doctor. From its replay to its release nobody else holds the lease, so  *)
(* the journal it replayed is still the journal, and a leaf it has written *)
(* is still the one it wrote.                                              *)
(***************************************************************************)
DoctorAll == BaseInv /\ DoctorInv

LEMMA DoctorInit == Init => DoctorAll
BY BaseInit DEF Init, DoctorAll, DoctorInv, DoctorOf

\* What a process outside the lease does not touch.
LEMMA OutsideUntouched ==
  ASSUME TypeInv, NEW p \in Procs, Start(p) \/ Working(p) \/ Interrupt(p) \/ Crash(p),
         pc[p] \notin Leased
  PROVE  UNCHANGED files
BY DEF Leased, Start, Interrupt, Crash, Working, Locking, Acquire, Confirm, LockTimeout, Release,
   Mutating, Load, Reject, Validate, AppendRefused, AppendBatch, AppendUnsynced, AppendTorn,
   WriteSpec, WriteRegistry, Repairing, Recover, RecoverFails, Replay, Publishing, WriteLeaf,
   WriteMeta, ProjectionFails

\* What another's step does to doctor: nothing, for doctor has the lease.
LEMMA DoctorUndisturbed ==
  ASSUME DoctorAll, NEW p \in Procs, Start(p) \/ Working(p) \/ Interrupt(p) \/ Crash(p), Own(p),
         NEW q \in Procs, q # p
  PROVE  DoctorOf(q)'
<1>1. TypeInv /\ LeaseHeld /\ DoctorOf(q)
  BY DEF DoctorAll, DoctorInv, BaseInv, SeqInv
<1>2. /\ pc'[q] = pc[q] /\ view'[q] = view[q] /\ outcome'[q] = outcome[q]
      /\ cmd'[q] = cmd[q] /\ leaf'[q] = leaf[q]
  BY <1>1 DEF Own, TypeInv, TypeOK
<1>3. CASE pc[p] \in Leased
  <2>1. pc'[q] \notin Leased
    BY <1>1, <1>2, <1>3 DEF LeaseHeld
  <2> QED
    BY <1>1, <1>2, <2>1 DEF DoctorOf, Leased
<1>4. CASE pc[p] \notin Leased
  <2>1. UNCHANGED <<journal, tail, leaves, meta>>
    BY <1>1, <1>4, OutsideUntouched DEF files
  <2> QED
    BY <1>1, <1>2, <2>1 DEF DoctorOf, Replayed
<1> QED
  BY <1>3, <1>4

LEMMA DoctorOwnStep ==
  ASSUME DoctorAll, NEW p \in Procs, Start(p) \/ Working(p) \/ Interrupt(p) \/ Crash(p)
  PROVE  DoctorOf(p)'
<1>1. TypeInv /\ DoctorOf(p) /\ AppendsMutate
  BY DEF DoctorAll, DoctorInv, BaseInv, SeqInv
<1>2. /\ pc \in [Procs -> PcStates] /\ outcome \in [Procs -> Outcomes]
      /\ view \in [Procs -> Histories] /\ cmd \in [Procs -> Commands \cup {NoCommand}]
      /\ leaf \in [Procs -> 1 .. Len(LeafOrder) + 1] /\ leaves \in [Leaves -> Histories]
  BY <1>1 DEF TypeInv, TypeOK
<1>3. outcome[p] = "rebuilt" => pc[p] \in {"release"} \cup Exited
  BY <1>1 DEF DoctorOf
<1> USE DEF Goto, Leave, Report, Exited
<1>4. CASE Start(p)
  BY <1>2, <1>3, <1>4 DEF Start, DoctorOf
<1>5. CASE Acquire(p) \/ Confirm(p)
  BY <1>2, <1>3, <1>5 DEF Acquire, Confirm, DoctorOf
<1>6. CASE LockTimeout(p) \/ Release(p) \/ Interrupt(p) \/ Crash(p)
  BY <1>2, <1>6 DEF LockTimeout, Release, Interrupt, Crash, DoctorOf
<1>7. CASE Load(p)
  BY <1>2, <1>3, <1>7 DEF Load, DoctorOf
<1>8. CASE Reject(p) \/ Validate(p) \/ AppendRefused(p)
  BY <1>2, <1>3, <1>8 DEF Reject, Validate, AppendRefused, DoctorOf
<1>9. CASE AppendBatch(p)
  BY <1>1, <1>2, <1>9 DEF AppendBatch, DoctorOf, AppendsMutate
<1>10. CASE AppendUnsynced(p) \/ AppendTorn(p)
  BY <1>2, <1>10 DEF AppendUnsynced, AppendTorn, DoctorOf
<1>11. CASE WriteSpec(p)
  BY <1>1, <1>2, <1>3, <1>11 DEF WriteSpec, DoctorOf, AppendsMutate
<1>12. CASE WriteRegistry(p)
  BY <1>2, <1>3, <1>12 DEF WriteRegistry, DoctorOf
<1>13. CASE Recover(p)
  BY <1>1, <1>2, <1>3, <1>13 DEF Recover, DoctorOf
<1>14. CASE RecoverFails(p) \/ ProjectionFails(p)
  BY <1>2, <1>3, <1>14 DEF RecoverFails, ProjectionFails, DoctorOf
<1>15. CASE Replay(p)
  <2>1. CASE tail = "fragment"
    BY <1>2, <1>3, <1>15, <2>1 DEF Replay, DoctorOf
  <2>2. CASE tail # "fragment"
    <3>1. /\ pc'[p] = "leaf" /\ view'[p] = journal /\ leaf'[p] = 1 /\ outcome'[p] # "rebuilt"
          /\ UNCHANGED <<journal, tail, cmd>> /\ pc[p] = "replay"
      BY <1>2, <1>3, <1>15, <2>2 DEF Replay, files
    <3> QED
      BY <1>1, <2>2, <3>1 DEF DoctorOf, Replayed
  <2> QED
    BY <2>1, <2>2
<1>16. CASE WriteLeaf(p)
  <2>1. leaf[p] \in 1 .. Len(LeafOrder)
    BY <1>1, <1>16 DEF WriteLeaf, TypeInv, LeafInRange
  <2>2. /\ pc[p] = "leaf" /\ outcome'[p] # "rebuilt" /\ leaf'[p] = leaf[p] + 1
        /\ UNCHANGED <<journal, tail, cmd, view>>
        /\ pc'[p] = IF leaf[p] = Len(LeafOrder) THEN "meta" ELSE "leaf"
        /\ leaves' = [leaves EXCEPT ![LeafOrder[leaf[p]]] = view[p]]
    BY <1>2, <1>3, <1>16 DEF WriteLeaf
  <2>3. \A i \in 1 .. Len(LeafOrder) : LeafOrder[i] \in Leaves
    BY LeafOrderAssumption DEF Leaves, Range
  <2>4. ASSUME cmd[p].kind # "mutate"
        PROVE  Replayed(p)' /\ \A i \in 1 .. leaf[p] : leaves'[LeafOrder[i]] = view'[p]
    <3>1. Replayed(p) /\ \A i \in 1 .. leaf[p] - 1 : leaves[LeafOrder[i]] = view[p]
      BY <1>1, <2>2, <2>4 DEF DoctorOf
    <3>2. Replayed(p)'
      BY <2>2, <3>1 DEF Replayed
    <3>3. ASSUME NEW i \in 1 .. leaf[p] PROVE leaves'[LeafOrder[i]] = view'[p]
      <4>1. i \in 1 .. Len(LeafOrder) /\ (i = leaf[p] \/ i \in 1 .. leaf[p] - 1)
        BY <2>1
      <4> QED
        BY <1>2, <2>2, <2>3, <3>1, <4>1
    <3> QED
      BY <3>2, <3>3
  <2>5. CASE leaf[p] = Len(LeafOrder)
    <3>1. cmd[p].kind # "mutate" => Replayed(p)' /\ \A f \in Leaves : leaves'[f] = view'[p]
      BY <2>4, <2>5, LeafOrderAssumption DEF Leaves, Range
    <3> QED
      BY <2>2, <2>5, <3>1 DEF DoctorOf
  <2>6. CASE leaf[p] # Len(LeafOrder)
    <3>1. leaf'[p] - 1 = leaf[p]
      BY <2>1, <2>2
    <3> QED
      BY <2>2, <2>4, <2>6, <3>1 DEF DoctorOf
  <2> QED
    BY <2>5, <2>6
<1>17. CASE WriteMeta(p)
  <2>1. /\ pc[p] = "meta" /\ UNCHANGED <<journal, tail, cmd, view, leaves>>
        /\ meta' = view[p] /\ pc'[p] \in {"registry", "release"}
        /\ outcome'[p] = "rebuilt" => cmd[p].kind # "mutate" /\ pc'[p] = "release"
    BY <1>2, <1>3, <1>17 DEF WriteMeta
  <2>2. cmd[p].kind # "mutate" => Replayed(p) /\ \A f \in Leaves : leaves[f] = view[p]
    BY <1>1, <2>1 DEF DoctorOf
  <2>3. cmd[p].kind # "mutate" => Replayed(p)'
    BY <2>1, <2>2 DEF Replayed
  <2> QED
    BY <2>1, <2>2, <2>3 DEF DoctorOf
<1> QED
  BY <1>4, <1>5, <1>6, <1>7, <1>8, <1>9, <1>10, <1>11, <1>12, <1>13, <1>14, <1>15, <1>16, <1>17
     DEF Working, Locking, Mutating, Repairing, Publishing

LEMMA DoctorStep == DoctorAll /\ [Next]_vars => DoctorAll'
<1> SUFFICES ASSUME DoctorAll, [Next]_vars PROVE DoctorAll'
  OBVIOUS
<1>1. BaseInv' /\ TypeInv
  BY BaseStep DEF DoctorAll, BaseInv, SeqInv
<1>2. CASE UNCHANGED <<files, holder, procVars>>
  BY <1>1, <1>2 DEF files, procVars, DoctorAll, DoctorInv, DoctorOf, Replayed
<1>3. ASSUME NEW p \in Procs, Start(p) \/ Working(p) \/ Interrupt(p) \/ Crash(p), Own(p)
      PROVE  DoctorAll'
  <2>1. \A q \in Procs : DoctorOf(q)'
    BY <1>3, DoctorUndisturbed, DoctorOwnStep
  <2> QED
    BY <1>1, <2>1 DEF DoctorAll, DoctorInv
<1> QED
  BY <1>1, <1>2, <1>3, Steps

\* When doctor reports success, `_meta.json` and every leaf agree with the
\* journal as it is then, and not only as it was when doctor replayed it.
THEOREM DoctorLeavesFresh == Spec => []DoctorRefreshes
<1>1. DoctorAll => DoctorRefreshes
  <2> SUFFICES ASSUME DoctorAll, NEW p \in Procs, pc[p] = "release", outcome[p] = "rebuilt"
               PROVE  /\ Fresh(meta) \/ (cmd[p].kind = "rebuild" /\ tail = "unterminated")
                      /\ \A f \in Leaves : leaves[f] = meta
    BY DEF DoctorRefreshes
  <2>1. Replayed(p) /\ meta = view[p] /\ \A f \in Leaves : leaves[f] = view[p]
    BY DEF DoctorAll, DoctorInv, DoctorOf
  <2>2. tail \in Tails
    BY DEF DoctorAll, BaseInv, SeqInv, TypeInv, TypeOK
  <2> QED
    BY <2>1, <2>2 DEF Replayed, Fresh, SameTail, Tails
<1> QED
  BY <1>1, DoctorInit, DoctorStep, PTL DEF Spec

-----------------------------------------------------------------------------
(***************************************************************************)
(* The journal with its torn tail discounted, where a write that stops     *)
(* short does so within a line: a batch whose whole lines are there in     *)
(* part is not replayed by anybody before it is repaired. With the other   *)
(* cuts the statements that assume it are false.                           *)
(***************************************************************************)
OnlyFragments == CutPoints \subseteq {"fragment"}

\* The journal a repair would leave.
Kept == Recovered(journal, tail)

Begins(s, t) == Len(s) <= Len(t) /\ \A i \in 1 .. Len(s) : s[i] = t[i]

TailInv ==
  /\ tail # "unterminated"
  /\ tail = "clean" => Kept = journal
  /\ ~IncompleteLastBatch(Kept)

\* The journal is replaced by what a repair leaves, or it grows by one batch.
AppendsWhole(p) ==
  /\ pc[p] = "append"
  /\ Kept = journal /\ Kept' = journal' /\ journal' = journal \o Batch(p)
  /\ cmd[p].count > 0
  /\ view[p] = journal /\ view'[p] \in {journal, journal'}

LEMMA AppendedCount ==
  ASSUME BaseInv, NEW p \in Procs, pc[p] = "append"
  PROVE  cmd[p].count \in Nat \ {0}
<1>1. cmd[p].kind = "mutate" /\ cmd[p] \in Commands \cup {NoCommand}
  BY DEF BaseInv, AppendsMutate, SeqInv, TypeInv, TypeOK
<1>2. cmd[p] # NoCommand
  BY <1>1 DEF NoCommand
<1>3. cmd[p] \notin [kind : Kinds \ {"mutate"}, count : {0}, spec : {FALSE}]
  BY <1>1
<1>4. cmd[p] \in [kind : Kinds \cap {"mutate"}, count : 1 .. MaxBatch, spec : EmitsSpec]
  BY <1>1, <1>2, <1>3 DEF Commands
<1>5. cmd[p].count \in 1 .. MaxBatch
  BY <1>4
<1> QED
  BY <1>5, MaxBatchAssumption

\* A journal that a whole batch of p ends is complete.
LEMMA AppendComplete ==
  ASSUME BaseInv, NEW p \in Procs, pc[p] = "append", journal' = journal \o Batch(p)
  PROVE  /\ DropIncompleteBatch(journal') = journal'
         /\ ~IncompleteLastBatch(journal')
<1> DEFINE c == cmd[p].count
           n == Len(journal)
<1>1. c \in Nat \ {0} /\ n \in Nat
  BY AppendedCount DEF BaseInv, SeqInv, TypeInv, TypeOK, Histories
<1>2. /\ journal' \in Histories /\ Len(journal') = n + c
      /\ \A k \in 1 .. c : journal'[n + k] = Batch(p)[k]
  BY BatchTyped, ConcatTyped DEF BaseInv, SeqInv, TypeInv, TypeOK
<1>3. \A k \in 1 .. c : journal'[n + k].op = p /\ journal'[n + k].count = c
  <2>1. \A k \in 1 .. c : Batch(p)[k].op = p /\ Batch(p)[k].count = c
    BY BatchAuthor
  <2> HIDE DEF c, n
  <2> QED
    BY <1>2, <2>1
<1> HIDE DEF c, n
<1>4. Last(journal').op = p /\ Last(journal').count = c
  <2>1. c \in 1 .. c
    BY <1>1
  <2>2. Last(journal') = journal'[n + c]
    BY <1>2 DEF Last
  <2> QED
    BY <1>3, <2>1, <2>2, Zenon
<1>5. n \in 0 .. Len(journal') - c /\ n + c = Len(journal')
  BY <1>1, <1>2
<1>6. ~IncompleteLastBatch(journal')
  BY <1>1, <1>2, <1>3, <1>4, <1>5, WholeLastBatch
<1> QED
  BY <1>6 DEF DropIncompleteBatch

\* An incomplete batch is dropped from its first line on.
LEMMA DropFrom ==
  ASSUME NEW lines \in Histories, NEW n \in Nat, NEW k \in Nat, Len(lines) = n + k,
         Cardinality(LastBatch(lines)) = k, IncompleteLastBatch(lines)
  PROVE  DropIncompleteBatch(lines) = SubSeq(lines, 1, n)
<1>1. Len(lines) - Cardinality(LastBatch(lines)) = n
  OBVIOUS
<1> QED
  BY <1>1 DEF DropIncompleteBatch, BeforeLastBatch

\* A journal that a part of a batch of p ends, is repaired to what it was.
LEMMA PartDropped ==
  ASSUME BaseInv, NEW p \in Procs, pc[p] = "append", NEW k \in 1 .. cmd[p].count,
         k < cmd[p].count, journal' = journal \o SubSeq(Batch(p), 1, k)
  PROVE  DropIncompleteBatch(journal') = journal
<1> DEFINE c == cmd[p].count
           n == Len(journal)
<1>1. c \in Nat \ {0} /\ n \in Nat /\ k \in Nat \ {0} /\ journal \in Histories
  BY AppendedCount DEF BaseInv, SeqInv, TypeInv, TypeOK, Histories
<1>2. /\ Batch(p) \in Histories /\ Len(Batch(p)) = c
      /\ SubSeq(Batch(p), 1, k) \in Histories
      /\ Len(SubSeq(Batch(p), 1, k)) = k
      /\ \A i \in 1 .. k : SubSeq(Batch(p), 1, k)[i] = Batch(p)[i]
  <2>1. Batch(p) \in Histories /\ Len(Batch(p)) = c
    BY BatchTyped DEF BaseInv, SeqInv, TypeInv
  <2>2. k \in 0 .. Len(Batch(p))
    BY <1>1, <2>1
  <2> QED
    BY <2>1, <2>2, PrefixTyped
<1>3. /\ journal' \in Histories /\ Len(journal') = n + k
      /\ \A i \in 1 .. n : journal'[i] = journal[i]
      /\ \A i \in 1 .. k : journal'[n + i] = SubSeq(Batch(p), 1, k)[i]
  BY <1>1, <1>2, ConcatTyped
<1>4. \A i \in 1 .. k : journal'[n + i].op = p /\ journal'[n + i].count = c
  <2>1. \A i \in 1 .. k : i \in 1 .. c
    BY <1>1
  <2> QED
    BY <1>2, <1>3, <2>1, BatchAuthor
<1>5. \A i \in 1 .. n : journal'[i].op # p
  BY <1>3 DEF BaseInv, AppendsOnce, Before, Unheard
<1> HIDE DEF c, n
<1>6. Last(journal').op = p /\ Last(journal').count = c /\ journal' # <<>>
  <2>1. Last(journal') = journal'[n + k]
    BY <1>3 DEF Last
  <2>2. k \in 1 .. k
    BY <1>1
  <2>3. Len(journal') # 0
    <3>1. n + k # 0
      BY <1>1
    <3> QED
      BY <1>3, <3>1, Zenon
  <2>4. Len(<<>>) = 0
    OBVIOUS
  <2>5. journal' # <<>>
    BY <2>3, <2>4, Zenon
  <2> QED
    BY <1>4, <2>1, <2>2, <2>5, Zenon
<1>7. LastBatch(journal') = n + 1 .. n + k
  <2>1. ASSUME NEW i \in LastBatch(journal') PROVE i \in n + 1 .. n + k
    <3>1. i \in 1 .. n + k /\ journal'[i].op = p
      BY <1>1, <1>3, <1>6, <2>1 DEF LastBatch
    <3>2. i \notin 1 .. n
      BY <1>5, <3>1, Zenon
    <3> QED
      BY <1>1, <3>1, <3>2
  <2>2. ASSUME NEW i \in n + 1 .. n + k PROVE i \in LastBatch(journal')
    <3>1. \A j \in i .. n + k : j - n \in 1 .. k /\ j = n + (j - n)
      BY <1>1
    <3>2. \A j \in i .. n + k : journal'[j].op = p
      BY <1>4, <3>1
    <3> QED
      BY <1>1, <1>3, <1>6, <3>2 DEF LastBatch
  <2> QED
    BY <2>1, <2>2
<1>8. Cardinality(LastBatch(journal')) = k
  <2>1. Cardinality(n + 1 .. n + k) = IF n + 1 > n + k THEN 0 ELSE n + k - (n + 1) + 1
    BY <1>1, FS_Interval, n + 1 \in Int, n + k \in Int
  <2> QED
    BY <1>1, <1>7, <2>1
<1>9. DropIncompleteBatch(journal') = SubSeq(journal', 1, n)
  <2>1. IncompleteLastBatch(journal')
    BY <1>6, <1>8 DEF IncompleteLastBatch, c
  <2>2. n \in Nat /\ k \in Nat
    BY <1>1
  <2> QED
    BY <1>3, <1>8, <2>1, <2>2, DropFrom, Zenon
<1>10. /\ SubSeq(journal', 1, n) \in Histories
       /\ Len(SubSeq(journal', 1, n)) = n
       /\ \A i \in 1 .. n : SubSeq(journal', 1, n)[i] = journal[i]
  <2>1. n \in 0 .. Len(journal')
    BY <1>1, <1>3
  <2> QED
    BY <1>3, <2>1, PrefixTyped
<1>11. SubSeq(journal', 1, n) = journal
  BY <1>1, <1>10 DEF Histories, n
<1> QED
  BY <1>9, <1>11

LEMMA KeptMoves ==
  ASSUME OnlyFragments, BaseInv, TailInv, NEW p \in Procs,
         Start(p) \/ Working(p) \/ Interrupt(p) \/ Crash(p)
  PROVE  /\ TailInv'
         /\ \/ Kept' = Kept /\ (view'[p] \in {<<>>, view[p]} \/ view'[p] = Kept)
            \/ AppendsWhole(p)
<1>1. /\ TypeInv /\ ViewsAgree
      /\ journal \in Histories /\ tail \in Tails /\ view \in [Procs -> Histories]
  BY DEF BaseInv, SeqInv, TypeInv, TypeOK
<1>2. \A lines : Recovered(lines, "clean") = DropIncompleteBatch(lines)
                 /\ Recovered(lines, "fragment") = DropIncompleteBatch(lines)
  BY DEF Recovered
<1>3. Kept = DropIncompleteBatch(journal)
  BY <1>1, <1>2 DEF TailInv, Kept, Tails
<1>4. DropIncompleteBatch(Kept) = Kept
  BY DEF TailInv, DropIncompleteBatch
<1>5. CASE AppendBatch(p) \/ AppendUnsynced(p)
  <2>1. /\ pc[p] = "append" /\ journal' = journal \o Batch(p)
        /\ view[p] = journal /\ tail = "clean" /\ tail' = "clean"
    BY <1>1, <1>5, MatchingIsJournal DEF AppendBatch, AppendUnsynced
  <2>2. view'[p] \in {journal, journal'}
    BY <1>1, <1>5, <2>1 DEF AppendBatch, AppendUnsynced
  <2>3. DropIncompleteBatch(journal') = journal' /\ ~IncompleteLastBatch(journal')
    BY <2>1, AppendComplete
  <2>4. Kept' = journal'
    BY <1>2, <2>1, <2>3 DEF Kept
  <2>5. Kept = journal /\ cmd[p].count > 0
    BY <2>1, AppendedCount DEF TailInv
  <2> QED
    BY <2>1, <2>2, <2>3, <2>4, <2>5 DEF TailInv, AppendsWhole
<1>6. CASE AppendTorn(p)
  <2>1. /\ pc[p] = "append" /\ view[p] = journal /\ tail = "clean" /\ view' = view
    BY <1>1, <1>6, MatchingIsJournal DEF AppendTorn
  <2>2. PICK k \in 0 .. cmd[p].count :
          /\ k < cmd[p].count
          /\ journal' = journal \o SubSeq(Batch(p), 1, k)
          /\ tail' = "fragment"
    BY <1>6 DEF AppendTorn, OnlyFragments
  <2>3. Kept = journal
    BY <2>1 DEF TailInv
  <2>4. DropIncompleteBatch(journal') = journal
    <3>1. CASE k = 0
      <4>1. SubSeq(Batch(p), 1, 0) = <<>>
        BY SubSeqEmpty
      <4>2. journal' = journal
        BY <1>1, <2>2, <3>1, <4>1 DEF Histories
      <4> QED
        BY <1>4, <2>3, <4>2
    <3>2. CASE k # 0
      <4>1. k \in 1 .. cmd[p].count
        BY <2>1, <3>2, AppendedCount
      <4> QED
        BY <2>1, <2>2, <4>1, PartDropped
    <3> QED
      BY <3>1, <3>2
  <2>5. Kept' = Kept
    BY <1>2, <2>2, <2>3, <2>4 DEF Kept
  <2>6. tail' = "fragment" /\ ~IncompleteLastBatch(Kept)
    BY <2>2 DEF TailInv
  <2> QED
    BY <2>1, <2>5, <2>6 DEF TailInv
<1>7. CASE Recover(p)
  <2>1. journal' = Kept /\ tail' = "clean" /\ view' = view
    BY <1>7 DEF Recover, Kept
  <2>2. Kept' = Kept
    BY <1>2, <1>4, <2>1 DEF Kept
  <2> QED
    BY <2>1, <2>2 DEF TailInv
<1>8. CASE Load(p) \/ Replay(p)
  <2>1. UNCHANGED <<journal, tail>>
    BY <1>8 DEF Load, Replay, files
  <2>2. Kept' = Kept /\ TailInv'
    BY <2>1 DEF TailInv, Kept
  <2>3. tail # "fragment" => journal = Kept
    BY <1>1 DEF TailInv, Tails
  <2>4. view'[p] \in {<<>>, view[p]} \/ (tail # "fragment" /\ view'[p] = journal)
    BY <1>1, <1>8 DEF Load, Replay, Leave, Goto, Report
  <2> QED
    BY <2>2, <2>3, <2>4
<1>9. CASE Start(p) \/ Interrupt(p) \/ Crash(p) \/ Locking(p) \/ Publishing(p) \/ Reject(p)
             \/ Validate(p) \/ AppendRefused(p) \/ WriteSpec(p) \/ WriteRegistry(p)
             \/ RecoverFails(p)
  <2>1. UNCHANGED <<journal, tail>> /\ view'[p] \in {<<>>, view[p]}
    BY <1>1, <1>9 DEF Start, Interrupt, Crash, Locking, Acquire, Confirm, LockTimeout, Release,
       Publishing, WriteLeaf, WriteMeta, ProjectionFails, Reject, Validate, AppendRefused,
       WriteSpec, WriteRegistry, RecoverFails, files, Leave
  <2> QED
    BY <2>1 DEF TailInv, Kept
<1> QED
  BY <1>5, <1>6, <1>7, <1>8, <1>9 DEF Working, Mutating, Repairing

LEMMA TailStays ==
  ASSUME TailInv, UNCHANGED <<journal, tail>>
  PROVE  TailInv'
BY DEF TailInv, Kept

LEMMA TailInit == Init => TailInv /\ Kept = journal
<1> SUFFICES ASSUME Init PROVE TailInv /\ Kept = journal
  OBVIOUS
<1>1. Kept = DropIncompleteBatch(journal) /\ tail = "clean"
  BY DEF Init, Kept, Recovered
<1>2. ~IncompleteLastBatch(journal)
  <2>1. CASE journal = <<>>
    BY <2>1 DEF IncompleteLastBatch
  <2>2. CASE journal = <<StartLine>>
    <3>1. journal \in Histories /\ Len(journal) = 1 /\ journal[1] = StartLine
      BY <2>2 DEF Histories, StartLine, Lines
    <3>2. Last(journal) = StartLine
      BY <3>1 DEF Last
    <3>3. 1 \in Nat \ {0} /\ 0 \in 0 .. Len(journal) - 1 /\ 0 + 1 = Len(journal)
      BY <3>1
    <3>4. Last(journal).count = 1
      BY <3>2 DEF StartLine
    <3>5. \A k \in 1 .. 1 : journal[0 + k].op = Last(journal).op
      BY <3>1, <3>2
    <3> QED
      BY <3>1, <3>3, <3>4, <3>5, WholeLastBatch
  <2> QED
    BY <2>1, <2>2 DEF Init
<1>3. Kept = journal
  BY <1>1, <1>2 DEF DropIncompleteBatch
<1> QED
  BY <1>1, <1>2, <1>3 DEF TailInv

-----------------------------------------------------------------------------
(***************************************************************************)
(* Readers. What they are served must not be taken back. A repair takes    *)
(* whole lines back, but where writes stop within a line nobody can have   *)
(* replayed them; with another cut a rebuild may have published them, and  *)
(* then no repair may follow. Without either the statements of this        *)
(* section are false: a rebuild that dies leaves leaves composed from      *)
(* lines that a repair then truncates, and meta becomes fresh over them.   *)
(***************************************************************************)
OnlyUnreadIsTruncated == OnlyFragments \/ "checkTail" \notin Kinds

\* What of the journal nobody takes back.
Stable == IF OnlyFragments THEN Kept ELSE journal

StableInv ==
  /\ tail # "fragment" => Stable = journal
  /\ OnlyFragments => TailInv
  /\ ~OnlyFragments => \A p \in Procs : pc[p] # "recover"

AppendsSome(p) ==
  /\ pc[p] = "append"
  /\ Stable = journal /\ Stable' = journal'
  /\ journal' \in Histories
  /\ Len(journal) < Len(journal')
  /\ \A i \in 1 .. Len(journal) : journal'[i] = journal[i]

LEMMA StableTyped ==
  ASSUME TypeInv
  PROVE  Stable \in Histories
BY RecoveredTyped DEF Stable, Kept, TypeInv, TypeOK

LEMMA StableStays ==
  ASSUME UNCHANGED <<journal, tail>>
  PROVE  Stable' = Stable
BY DEF Stable, Kept

LEMMA StableInit == Init => StableInv /\ Stable = journal
<1> SUFFICES ASSUME Init PROVE StableInv /\ Stable = journal
  OBVIOUS
<1>1. TailInv /\ Kept = journal
  BY TailInit
<1>2. \A p \in Procs : pc[p] = "idle"
  BY DEF Init
<1> QED
  BY <1>1, <1>2 DEF StableInv, Stable

\* Without check-tail nobody repairs.
LEMMA NobodyRepairs ==
  ASSUME TypeInv, "checkTail" \notin Kinds, NEW p \in Procs, pc[p] # "recover",
         Start(p) \/ Working(p) \/ Interrupt(p) \/ Crash(p)
  PROVE  pc'[p] # "recover"
<1>1. cmd[p].kind # "checkTail"
  <2>1. cmd[p] \in Commands \cup {NoCommand}
    BY DEF TypeInv, TypeOK
  <2>2. CASE cmd[p] = NoCommand
    BY <2>2 DEF NoCommand
  <2>3. CASE cmd[p] \in Commands
    <3>1. cmd[p].kind \in Kinds
      BY <2>3 DEF Commands
    <3> QED
      BY <3>1
  <2> QED
    BY <2>1, <2>2, <2>3
<1> USE DEF TypeInv, TypeOK, Goto, Leave, Exited, Leased
<1>2. CASE Start(p) \/ Interrupt(p) \/ Crash(p)
  BY <1>2 DEF Start, Interrupt, Crash
<1>3. CASE Locking(p)
  BY <1>1, <1>3 DEF Locking, Acquire, Confirm, LockTimeout, Release
<1>4. CASE Mutating(p)
  BY <1>4 DEF Mutating, Load, Reject, Validate, AppendRefused, AppendBatch, AppendUnsynced,
     AppendTorn, WriteSpec, WriteRegistry
<1>5. CASE Repairing(p) \/ Publishing(p)
  BY <1>5 DEF Repairing, Recover, RecoverFails, Replay, Publishing, WriteLeaf, WriteMeta,
     ProjectionFails
<1> QED
  BY <1>2, <1>3, <1>4, <1>5 DEF Working

LEMMA StableMoves ==
  ASSUME OnlyUnreadIsTruncated, BaseInv, StableInv, NEW p \in Procs,
         Start(p) \/ Working(p) \/ Interrupt(p) \/ Crash(p)
  PROVE  StableInv' /\ (Stable' = Stable \/ AppendsSome(p))
<1>1. /\ TypeInv /\ ViewsAgree /\ tail' \in Tails
      /\ journal \in Histories /\ pc \in [Procs -> PcStates]
  BY BaseStep DEF BaseInv, SeqInv, TypeInv, TypeOK, Next
<1>2. CASE OnlyFragments
  <2>1. TailInv /\ Stable = Kept /\ Stable' = Kept'
    BY <1>2 DEF StableInv, Stable
  <2>2. TailInv'
    BY <1>2, <2>1, KeptMoves
  <2>3. StableInv'
    BY <1>1, <1>2, <2>1, <2>2 DEF StableInv, TailInv, Tails
  <2>4. ASSUME AppendsWhole(p) PROVE AppendsSome(p)
    <3>1. /\ Batch(p) \in Histories /\ Len(Batch(p)) = cmd[p].count
          /\ cmd[p].count \in Nat
      BY <1>1, BatchTyped, CommandTyped DEF TypeInv, TypeOK
    <3>2. /\ journal \o Batch(p) \in Histories
          /\ Len(journal \o Batch(p)) = Len(journal) + Len(Batch(p))
          /\ \A i \in 1 .. Len(journal) : (journal \o Batch(p))[i] = journal[i]
      BY <1>1, <3>1, ConcatTyped
    <3>3. Len(journal) < Len(journal \o Batch(p))
      <4>1. Len(journal) \in Nat
        BY <1>1 DEF Histories
      <4> QED
        BY <2>4, <3>1, <3>2, <4>1 DEF AppendsWhole
    <3>4. journal' = journal \o Batch(p)
      BY <2>4 DEF AppendsWhole
    <3> QED
      BY <2>1, <2>4, <3>2, <3>3, <3>4, Zenon DEF AppendsWhole, AppendsSome
  <2> QED
    BY <1>2, <2>1, <2>3, <2>4, KeptMoves
<1>3. CASE ~OnlyFragments
  <2>1. /\ "checkTail" \notin Kinds /\ Stable = journal /\ Stable' = journal'
        /\ pc[p] # "recover"
    BY <1>3 DEF OnlyUnreadIsTruncated, Stable, StableInv
  <2>2. pc'[p] # "recover" /\ Own(p) /\ Writes(p)
    BY <1>1, <2>1, NobodyRepairs, OwnStep, OwnWrites
  <2>3. \A q \in Procs : pc'[q] # "recover"
    BY <1>1, <1>3, <2>2 DEF StableInv, Own
  <2>4. StableInv'
    BY <1>3, <2>1, <2>3 DEF StableInv
  <2>5. ASSUME NEW k \in 0 .. cmd[p].count, Grows(p, k)
        PROVE  journal' = journal \/ AppendsSome(p)
    <3>1. /\ k \in Nat /\ journal' \in Histories /\ Len(journal') = Len(journal) + k
          /\ \A i \in 1 .. Len(journal) : journal'[i] = journal[i]
          /\ Len(journal) \in Nat
      BY <1>1, <2>5, GrownJournal DEF Histories
    <3>2. CASE k = 0
      <4>1. Len(journal') = Len(journal)
        BY <3>1, <3>2
      <4> QED
        BY <1>1, <3>1, <4>1 DEF Histories
    <3>3. CASE k # 0
      BY <2>1, <2>5, <3>1, <3>3 DEF AppendsSome, Grows
    <3> QED
      BY <3>2, <3>3
  <2>6. ~Recover(p)
    BY <2>1 DEF Recover
  <2> QED
    BY <2>1, <2>2, <2>4, <2>5, <2>6 DEF Writes
<1> QED
  BY <1>2, <1>3

\* `_meta.json` describes a prefix, and the whole of it only with all leaves.
MetaInv == Begins(meta, Stable) /\ (meta = Stable => \A f \in Leaves : leaves[f] = Stable)

\* Whoever publishes, publishes what is kept.
PublishOf(p) ==
  /\ pc[p] \in {"spec", "leaf", "meta"} => view[p] = Stable
  /\ pc[p] = "spec" => leaf[p] = 1
  /\ pc[p] = "leaf" => \A i \in 1 .. leaf[p] - 1 : leaves[LeafOrder[i]] = Stable
  /\ pc[p] = "meta" => \A f \in Leaves : leaves[f] = Stable

\* As long as the cached meta is that of the kept journal, no meta but it was
\* written, and the leaves read so far are that journal's.
ReadOf(r) ==
  /\ Begins(cached[r], Stable)
  /\ rpc[r] \in {"check", "read", "recheck"} /\ cached[r] = Stable =>
       meta = Stable /\ \A i \in 1 .. Len(got[r]) : got[r][i] = Stable
  /\ rpc[r] = "recheck" => Len(got[r]) = Len(LeafOrder)
  /\ rpc[r] = "served" => \A i \in 1 .. Len(LeafOrder) : got[r][i] = cached[r]

ServeInv ==
  /\ BaseInv
  /\ StableInv
  /\ MetaInv
  /\ \A p \in Procs : PublishOf(p)
  /\ \A r \in Readers : ReadOf(r)

LEMMA ServeInit == OnlyUnreadIsTruncated /\ Init => ServeInv
<1> SUFFICES ASSUME OnlyUnreadIsTruncated, Init PROVE ServeInv
  OBVIOUS
<1>1. BaseInv /\ StableInv /\ Stable = journal
  BY BaseInit, StableInit
<1>2. journal \in Histories
  BY <1>1 DEF BaseInv, SeqInv, TypeInv, TypeOK
<1>3. MetaInv
  BY <1>1 DEF Init, MetaInv, Begins
<1>4. Begins(<<>>, Stable)
  BY <1>1, <1>2 DEF Begins, Histories
<1> QED
  BY <1>1, <1>3, <1>4 DEF Init, ServeInv, PublishOf, ReadOf

\* A prefix that passes the fast check is all that is kept.
LEMMA FreshIsStable ==
  ASSUME TypeInv, StableInv, NEW s \in Histories, Begins(s, Stable), Fresh(s)
  PROVE  s = Stable
<1>1. Stable = journal /\ Len(s) = Len(journal) /\ journal \in Histories
  BY DEF Fresh, SameTail, StableInv, TypeInv, TypeOK
<1> QED
  BY <1>1 DEF Begins, Histories

\* A command writes a leaf, or meta, or neither; it never touches a reader.
LEMMA Publishes ==
  ASSUME NEW p \in Procs, Start(p) \/ Working(p) \/ Interrupt(p) \/ Crash(p)
  PROVE  /\ UNCHANGED readerVars
         /\ \/ UNCHANGED <<leaves, meta>>
            \/ /\ pc[p] = "leaf" /\ WriteLeaf(p)
               /\ UNCHANGED <<meta, journal, tail>>
            \/ /\ pc[p] = "meta" /\ meta' = view[p]
               /\ UNCHANGED <<leaves, journal, tail>>
BY DEF Start, Interrupt, Crash, Working, Locking, Acquire, Confirm, LockTimeout, Release,
   Mutating, Load, Reject, Validate, AppendRefused, AppendBatch, AppendUnsynced, AppendTorn,
   WriteSpec, WriteRegistry, Repairing, Recover, RecoverFails, Replay, Publishing, WriteLeaf,
   WriteMeta, ProjectionFails, files

\* What begins the stable journal begins the grown one, and is not all of it.
LEMMA GrownPast ==
  ASSUME TypeInv, NEW p \in Procs, AppendsSome(p), NEW s \in Histories, Begins(s, Stable)
  PROVE  Begins(s, Stable') /\ s # Stable'
<1>1. /\ Len(s) \in Nat /\ Len(journal) \in Nat /\ Len(journal') \in Nat
      /\ Len(s) <= Len(journal) /\ Len(journal) < Len(journal')
  BY DEF Begins, AppendsSome, Histories, TypeInv, TypeOK
<1>2. \A i \in 1 .. Len(s) : s[i] = journal'[i]
  <2>1. \A i \in 1 .. Len(s) : i \in 1 .. Len(journal) /\ s[i] = journal[i]
    BY <1>1 DEF Begins, AppendsSome
  <2> QED
    BY <2>1 DEF AppendsSome
<1> QED
  BY <1>1, <1>2 DEF Begins, AppendsSome

LEMMA MetaStep ==
  ASSUME OnlyUnreadIsTruncated, ServeInv, NEW p \in Procs,
         Start(p) \/ Working(p) \/ Interrupt(p) \/ Crash(p)
  PROVE  MetaInv' /\ (Stable' = Stable /\ meta = Stable => meta' = Stable)
<1>1. /\ BaseInv /\ TypeInv /\ StableInv /\ MetaInv /\ PublishOf(p)
      /\ meta \in Histories /\ leaves \in [Leaves -> Histories]
  BY DEF ServeInv, BaseInv, SeqInv, TypeInv, TypeOK
<1>2. CASE AppendsSome(p)
  <2>1. UNCHANGED <<leaves, meta>>
    BY <1>2, Publishes DEF AppendsSome
  <2>2. Begins(meta, Stable') /\ meta # Stable'
    BY <1>1, <1>2, GrownPast DEF MetaInv
  <2>3. MetaInv'
    BY <2>1, <2>2 DEF MetaInv, Begins
  <2> QED
    BY <2>1, <2>3
<1>3. CASE Stable' = Stable
  <2>1. Begins(Stable, Stable)
    <3>1. Stable \in Histories
      BY <1>1, StableTyped
    <3> QED
      BY <3>1 DEF Begins, Histories
  <2>2. CASE UNCHANGED <<leaves, meta>>
    BY <1>1, <1>3, <2>2 DEF MetaInv, Begins
  <2>3. CASE pc[p] = "leaf" /\ WriteLeaf(p) /\ UNCHANGED <<meta, journal, tail>>
    <3>1. leaves' = [leaves EXCEPT ![LeafOrder[leaf[p]]] = Stable]
      BY <1>1, <2>3 DEF WriteLeaf, PublishOf
    <3>2. (\A f \in Leaves : leaves[f] = Stable) => \A f \in Leaves : leaves'[f] = Stable
      BY <1>1, <3>1
    <3> QED
      BY <1>1, <1>3, <2>3, <3>2 DEF MetaInv, Begins
  <2>4. CASE pc[p] = "meta" /\ meta' = view[p] /\ UNCHANGED <<leaves, journal, tail>>
    <3>1. meta' = Stable /\ \A f \in Leaves : leaves'[f] = Stable
      BY <1>1, <2>4 DEF PublishOf
    <3> QED
      BY <1>3, <2>1, <3>1 DEF MetaInv, Begins
  <2> QED
    BY <2>2, <2>3, <2>4, Publishes
<1> QED
  BY <1>1, <1>2, <1>3, StableMoves

LEMMA ReadersUndisturbed ==
  ASSUME OnlyUnreadIsTruncated, ServeInv, NEW p \in Procs,
         Start(p) \/ Working(p) \/ Interrupt(p) \/ Crash(p), NEW r \in Readers
  PROVE  ReadOf(r)'
<1>1. /\ BaseInv /\ TypeInv /\ StableInv /\ ReadOf(r) /\ cached[r] \in Histories
  BY DEF ServeInv, BaseInv, SeqInv, TypeInv, TypeOK
<1>2. rpc' = rpc /\ cached' = cached /\ got' = got
  BY Publishes DEF readerVars
<1>3. CASE AppendsSome(p)
  <2>1. Begins(cached[r], Stable') /\ cached[r] # Stable'
    BY <1>1, <1>3, GrownPast DEF ReadOf
  <2>2. Begins(cached[r], Stable)' /\ ~(cached[r] = Stable)'
    BY <1>2, <2>1 DEF Begins
  <2> QED
    BY <1>1, <1>2, <2>2 DEF ReadOf
<1>4. CASE Stable' = Stable
  <2>1. meta = Stable => meta' = Stable
    BY <1>4, MetaStep
  <2>2. Begins(cached[r], Stable)'
    BY <1>1, <1>2, <1>4 DEF ReadOf, Begins
  <2> QED
    BY <1>1, <1>2, <1>4, <2>1, <2>2 DEF ReadOf
<1> QED
  BY <1>1, <1>3, <1>4, StableMoves

LEMMA PublisherUndisturbed ==
  ASSUME ServeInv, NEW p \in Procs, Start(p) \/ Working(p) \/ Interrupt(p) \/ Crash(p), Own(p),
         NEW q \in Procs, q # p
  PROVE  PublishOf(q)'
<1>1. TypeInv /\ LeaseHeld /\ PublishOf(q)
  BY DEF ServeInv, BaseInv, SeqInv
<1>2. pc'[q] = pc[q] /\ view'[q] = view[q] /\ leaf'[q] = leaf[q]
  BY <1>1 DEF Own, TypeInv, TypeOK
<1>3. CASE pc[p] \in Leased
  <2>1. pc'[q] \notin Leased
    BY <1>1, <1>2, <1>3 DEF LeaseHeld
  <2> QED
    BY <2>1 DEF PublishOf, Leased
<1>4. CASE pc[p] \notin Leased
  <2>1. UNCHANGED <<journal, tail, leaves>>
    BY <1>1, <1>4, OutsideUntouched DEF files
  <2> QED
    BY <1>1, <1>2, <2>1, StableStays DEF PublishOf
<1> QED
  BY <1>3, <1>4

LEMMA PublisherStep ==
  ASSUME OnlyUnreadIsTruncated, ServeInv, NEW p \in Procs,
         Start(p) \/ Working(p) \/ Interrupt(p) \/ Crash(p)
  PROVE  PublishOf(p)'
<1>1. BaseInv /\ TypeInv /\ StableInv /\ PublishOf(p)
  BY DEF ServeInv, BaseInv, SeqInv
<1>2. /\ pc \in [Procs -> PcStates] /\ view \in [Procs -> Histories] /\ tail \in Tails
      /\ leaf \in [Procs -> 1 .. Len(LeafOrder) + 1] /\ leaves \in [Leaves -> Histories]
  BY <1>1 DEF TypeInv, TypeOK
<1>3. CASE pc'[p] \notin {"spec", "leaf", "meta"}
  BY <1>3 DEF PublishOf
<1>4. CASE AppendBatch(p)
  <2>1. /\ view[p] = journal /\ journal' = journal \o Batch(p) /\ pc[p] = "append"
        /\ view'[p] = view[p] \o Batch(p) /\ tail' = "clean"
        /\ pc'[p] \in {"spec", "leaf"} /\ leaf'[p] = 1
    BY <1>1, <1>2, <1>4, MatchingIsJournal DEF AppendBatch, Goto, BaseInv
  <2>2. Stable' = journal'
    BY <1>1, <1>4, <2>1, StableMoves DEF StableInv, Working, Mutating
  <2> QED
    BY <2>1, <2>2 DEF PublishOf
<1>5. CASE WriteSpec(p)
  <2>1. /\ pc[p] = "spec" /\ pc'[p] = "leaf" /\ UNCHANGED <<journal, tail, view, leaf>>
    BY <1>2, <1>5 DEF WriteSpec, Goto
  <2> QED
    BY <1>1, <2>1, StableStays DEF PublishOf
<1>6. CASE Replay(p) /\ tail # "fragment"
  <2>1. /\ pc'[p] = "leaf" /\ view'[p] = journal /\ leaf'[p] = 1
        /\ UNCHANGED <<journal, tail>>
    BY <1>2, <1>6 DEF Replay, Goto, files
  <2>2. journal = Stable
    BY <1>1, <1>2, <1>6 DEF StableInv, Tails
  <2> QED
    BY <2>1, <2>2, StableStays DEF PublishOf
<1>7. CASE WriteLeaf(p)
  <2>1. leaf[p] \in 1 .. Len(LeafOrder) /\ view[p] = Stable
    BY <1>1, <1>7 DEF WriteLeaf, TypeInv, LeafInRange, PublishOf
  <2>2. /\ leaf'[p] = leaf[p] + 1 /\ view'[p] = view[p]
        /\ UNCHANGED <<journal, tail>>
        /\ pc'[p] = IF leaf[p] = Len(LeafOrder) THEN "meta" ELSE "leaf"
        /\ leaves' = [leaves EXCEPT ![LeafOrder[leaf[p]]] = Stable]
    BY <1>2, <1>7, <2>1 DEF WriteLeaf, Goto
  <2>3. \A i \in 1 .. Len(LeafOrder) : LeafOrder[i] \in Leaves
    BY LeafOrderAssumption DEF Leaves, Range
  <2>4. \A i \in 1 .. leaf[p] : leaves'[LeafOrder[i]] = Stable
    <3>1. \A i \in 1 .. leaf[p] - 1 : leaves[LeafOrder[i]] = Stable
      BY <1>1, <1>7 DEF WriteLeaf, PublishOf
    <3>2. \A i \in 1 .. leaf[p] :
            i \in 1 .. Len(LeafOrder) /\ (i = leaf[p] \/ i \in 1 .. leaf[p] - 1)
      BY <2>1
    <3> QED
      BY <1>2, <2>2, <2>3, <3>1, <3>2
  <2>5. Stable' = Stable
    BY <2>2, StableStays
  <2>6. CASE leaf[p] = Len(LeafOrder)
    <3>1. \A f \in Leaves : leaves'[f] = Stable
      BY <2>4, <2>6, LeafOrderAssumption DEF Leaves, Range
    <3> QED
      BY <2>1, <2>2, <2>5, <2>6, <3>1 DEF PublishOf
  <2>7. CASE leaf[p] # Len(LeafOrder)
    <3>1. leaf'[p] - 1 = leaf[p]
      BY <2>1, <2>2
    <3> QED
      BY <2>1, <2>2, <2>4, <2>5, <2>7, <3>1 DEF PublishOf
  <2> QED
    BY <2>6, <2>7
<1>8. ASSUME pc'[p] \in {"spec", "leaf", "meta"}
      PROVE  AppendBatch(p) \/ WriteSpec(p) \/ (Replay(p) /\ tail # "fragment") \/ WriteLeaf(p)
  <2> USE <1>2, <1>8 DEF Goto, Leave, Exited, Leased
  <2>1. ~Start(p) /\ ~Interrupt(p) /\ ~Crash(p) /\ ~Locking(p)
    BY DEF Start, Interrupt, Crash, Locking, Acquire, Confirm, LockTimeout, Release
  <2>2. ~Load(p) /\ ~Reject(p) /\ ~Validate(p) /\ ~AppendRefused(p) /\ ~AppendUnsynced(p)
        /\ ~AppendTorn(p) /\ ~WriteRegistry(p)
    BY DEF Load, Reject, Validate, AppendRefused, AppendUnsynced, AppendTorn, WriteRegistry
  <2>3. ~Recover(p) /\ ~RecoverFails(p) /\ (Replay(p) => tail # "fragment")
    BY DEF Recover, RecoverFails, Replay
  <2>4. ~WriteMeta(p) /\ ~ProjectionFails(p)
    BY DEF WriteMeta, ProjectionFails
  <2> QED
    BY <2>1, <2>2, <2>3, <2>4 DEF Working, Mutating, Repairing, Publishing
<1> QED
  BY <1>3, <1>4, <1>5, <1>6, <1>7, <1>8

LEMMA ReaderReads ==
  ASSUME ServeInv, NEW r \in Readers, Reading(r)
  PROVE  ReadOf(r)'
<1>1. /\ TypeInv /\ StableInv /\ MetaInv /\ ReadOf(r)
      /\ rpc \in [Readers -> {"idle", "check", "read", "recheck", "served", "refused"}]
      /\ cached \in [Readers -> Histories] /\ got \in [Readers -> Seq(Histories)]
      /\ meta \in Histories
  BY DEF ServeInv, BaseInv, SeqInv, TypeInv, TypeOK
<1>2. UNCHANGED <<journal, tail, meta, leaves>>
  BY ReaderStep DEF files
<1>3. Stable' = Stable
  BY <1>2, StableStays
<1>4. CASE ReadMeta(r)
  <2>1. /\ cached'[r] = meta /\ got'[r] = <<>> /\ rpc'[r] \in {"refused", "check"}
    BY <1>1, <1>4 DEF ReadMeta, TypeInv, ReaderInRange
  <2>2. Begins(cached[r], Stable)'
    BY <1>1, <1>3, <2>1 DEF MetaInv, Begins
  <2> QED
    BY <1>2, <1>3, <2>1, <2>2 DEF ReadOf
<1>6. CASE CheckFresh(r)
  <2>1. /\ rpc[r] = "check" /\ got' = got /\ cached' = cached
        /\ rpc'[r] \in {"read", "refused"}
    BY <1>1, <1>6 DEF CheckFresh
  <2>2. Begins(cached[r], Stable)'
    BY <1>1, <1>3, <2>1 DEF ReadOf, Begins
  <2> QED
    BY <1>1, <1>2, <1>3, <2>1, <2>2 DEF ReadOf
<1>7. CASE ReadLeaf(r)
  <2>1. /\ Len(got[r]) + 1 \in 1 .. Len(LeafOrder) /\ Len(got[r]) \in Nat
        /\ LeafOrder[Len(got[r]) + 1] \in Leaves
    <3>1. Len(got[r]) + 1 \in 1 .. Len(LeafOrder) /\ Len(got[r]) \in Nat
      BY <1>1, <1>7 DEF ReadLeaf, TypeInv, ReaderInRange
    <3> QED
      BY <3>1, LeafOrderAssumption DEF Leaves, Range
  <2> DEFINE next == leaves[LeafOrder[Len(got[r]) + 1]]
  <2>2. /\ rpc[r] = "read" /\ cached' = cached /\ got'[r] = got[r] \o <<next>>
        /\ rpc'[r] = IF Len(got[r]) + 1 = Len(LeafOrder) THEN "recheck" ELSE "read"
    BY <1>1, <1>7 DEF ReadLeaf
  <2>3. next \in Histories
    BY <1>1, <2>1 DEF TypeInv, TypeOK
  <2> HIDE DEF next
  <2>4. /\ Len(got'[r]) = Len(got[r]) + 1
        /\ \A i \in 1 .. Len(got[r]) : got'[r][i] = got[r][i]
        /\ got'[r][Len(got[r]) + 1] = next
    BY <1>1, <2>1, <2>2, <2>3
  <2>5. Begins(cached[r], Stable)'
    BY <1>1, <1>3, <2>2 DEF ReadOf, Begins
  <2>6. ASSUME cached[r] = Stable
        PROVE  meta = Stable /\ \A i \in 1 .. Len(got'[r]) : got'[r][i] = Stable
    <3>1. meta = Stable /\ \A i \in 1 .. Len(got[r]) : got[r][i] = Stable
      BY <1>1, <2>2, <2>6 DEF ReadOf
    <3>2. next = Stable
      BY <1>1, <2>1, <3>1 DEF MetaInv, next
    <3>3. \A i \in 1 .. Len(got'[r]) : i \in 1 .. Len(got[r]) \/ i = Len(got[r]) + 1
      BY <2>1, <2>4
    <3> QED
      BY <2>4, <3>1, <3>2, <3>3
  <2> QED
    BY <1>2, <1>3, <2>1, <2>2, <2>4, <2>5, <2>6 DEF ReadOf
<1>8. CASE ReadLeafFails(r)
  <2>1. cached' = cached /\ rpc'[r] = "refused"
    BY <1>1, <1>8 DEF ReadLeafFails
  <2>2. Begins(cached[r], Stable)'
    BY <1>1, <1>3, <2>1 DEF ReadOf, Begins
  <2> QED
    BY <2>1, <2>2 DEF ReadOf
<1>9. CASE CheckAgain(r)
  <2>1. /\ rpc[r] = "recheck" /\ got' = got /\ cached' = cached
        /\ rpc'[r] = IF Fresh(cached[r]) THEN "served" ELSE "refused"
    BY <1>1, <1>9 DEF CheckAgain
  <2>2. Begins(cached[r], Stable)'
    BY <1>1, <1>3, <2>1 DEF ReadOf, Begins
  <2>3. Fresh(cached[r]) => \A i \in 1 .. Len(LeafOrder) : got[r][i] = cached[r]
    <3>1. Fresh(cached[r]) => cached[r] = Stable
      BY <1>1, FreshIsStable DEF ReadOf
    <3> QED
      BY <1>1, <2>1, <3>1 DEF ReadOf
  <2> QED
    BY <2>1, <2>2, <2>3 DEF ReadOf
<1> QED
  BY <1>4, <1>6, <1>7, <1>8, <1>9 DEF Reading

\* Reading writes nothing, and disturbs no other reader.
LEMMA OtherReaders ==
  ASSUME ServeInv, NEW r \in Readers, Reading(r), NEW x \in Readers, x # r
  PROVE  ReadOf(x)'
<1>1. ReadOf(x) /\ TypeOK
  BY DEF ServeInv, BaseInv, SeqInv, TypeInv
<1>2. UNCHANGED <<journal, tail, meta, leaves>>
  BY ReaderStep DEF files
<1>3. rpc'[x] = rpc[x] /\ cached'[x] = cached[x] /\ got'[x] = got[x]
  BY <1>1 DEF Reading, ReadMeta, CheckFresh, ReadLeaf, ReadLeafFails, CheckAgain, TypeOK
<1> QED
  BY <1>1, <1>2, <1>3, StableStays DEF ReadOf, Begins

LEMMA ServeStep == OnlyUnreadIsTruncated /\ ServeInv /\ [Next]_vars => ServeInv'
<1> SUFFICES ASSUME OnlyUnreadIsTruncated, ServeInv, [Next]_vars PROVE ServeInv'
  OBVIOUS
<1>1. BaseInv' /\ BaseInv /\ TypeInv /\ StableInv
  BY BaseStep DEF ServeInv, BaseInv, SeqInv
<1>2. CASE UNCHANGED <<files, holder, procVars>> /\ \A r \in Readers : ReadOf(r)'
  <2>1. UNCHANGED <<journal, tail, leaves, meta, pc, view, leaf>>
    BY <1>2 DEF files, procVars
  <2> QED
    BY <1>1, <1>2, <2>1, StableStays, TailStays
    DEF ServeInv, StableInv, MetaInv, PublishOf, Begins
<1>3. CASE UNCHANGED vars
  <2>1. UNCHANGED <<journal, tail, leaves, meta, rpc, cached, got>>
    BY <1>3 DEF vars, files, readerVars
  <2>2. \A r \in Readers : ReadOf(r)'
    BY <2>1, StableStays DEF ServeInv, ReadOf, Begins
  <2> QED
    BY <1>2, <1>3, <2>2 DEF vars
<1>4. ASSUME NEW r \in Readers, Reading(r) PROVE ServeInv'
  <2>1. \A x \in Readers : ReadOf(x)'
    BY <1>4, ReaderReads, OtherReaders
  <2> QED
    BY <1>2, <1>4, <2>1, ReaderStep
<1>5. ASSUME NEW p \in Procs, Start(p) \/ Working(p) \/ Interrupt(p) \/ Crash(p)
      PROVE  ServeInv'
  <2>1. Own(p)
    BY <1>1, <1>5, OwnStep
  <2>2. StableInv' /\ MetaInv'
    BY <1>1, <1>5, StableMoves, MetaStep
  <2>3. \A q \in Procs : PublishOf(q)'
    BY <1>5, <2>1, PublisherUndisturbed, PublisherStep
  <2>4. \A r \in Readers : ReadOf(r)'
    BY <1>5, ReadersUndisturbed
  <2> QED
    BY <1>1, <2>2, <2>3, <2>4 DEF ServeInv
<1> QED
  BY <1>3, <1>4, <1>5 DEF Next

LEMMA ServeInvariant ==
  ASSUME OnlyUnreadIsTruncated
  PROVE  Spec => []ServeInv
BY ServeInit, ServeStep, PTL DEF Spec

\* "a reader must never see a fresh _meta pointing at stale projection files":
\* where writes stop within a line, or nobody runs check-tail, no crash of a
\* publication and no repair brings meta back to life over leaves that are not
\* its own.
THEOREM FreshMetaIsComplete ==
  ASSUME OnlyUnreadIsTruncated
  PROVE  Spec => []FreshMetaDescribesLeaves
<1>1. ServeInv => FreshMetaDescribesLeaves
  <2> SUFFICES ASSUME ServeInv, Fresh(meta), NEW f \in Leaves PROVE leaves[f] = meta
    BY DEF FreshMetaDescribesLeaves
  <2>1. TypeInv /\ StableInv /\ MetaInv /\ meta \in Histories
    BY DEF ServeInv, BaseInv, SeqInv, TypeInv, TypeOK
  <2>2. meta = Stable
    BY <2>1, FreshIsStable DEF MetaInv
  <2> QED
    BY <2>1, <2>2 DEF MetaInv
<1> QED
  BY <1>1, ServeInvariant, PTL

\* Under the same condition two looks at the journal tail, against the cached
\* meta, are enough for a reader without a lease, however many commands publish
\* between its reads.
THEOREM ReadersConsistent ==
  ASSUME OnlyUnreadIsTruncated
  PROVE  Spec => []ReadersServeOnePrefix
<1>1. ServeInv => ReadersServeOnePrefix
  BY DEF ServeInv, ReadOf, ReadersServeOnePrefix
<1> QED
  BY <1>1, ServeInvariant, PTL

-----------------------------------------------------------------------------
\* The journal with its torn tail discounted is a log that grows by batches.

\* A whole batch of an author that the journal did not have.
LEMMA GrowsByBatch ==
  ASSUME BaseInv, NEW p \in Procs, AppendsWhole(p)
  PROVE  Log!Grow
<1> DEFINE c == cmd[p].count
           n == Len(journal)
<1>1. c \in Nat \ {0} /\ n \in Nat /\ journal \in Histories
      /\ Batch(p) \in Histories /\ Len(Batch(p)) = c
  BY AppendedCount, BatchTyped
     DEF BaseInv, SeqInv, TypeInv, TypeOK, Histories, AppendsWhole
<1>2. journal' = journal \o Batch(p) /\ Kept = journal /\ Kept' = journal'
  BY DEF AppendsWhole
<1> HIDE DEF c, n
<1>3. /\ Len(journal \o Batch(p)) = n + c
      /\ \A i \in 1 .. n : (journal \o Batch(p))[i] = journal[i]
      /\ journal \o Batch(p) \in Histories
  BY <1>1, ConcatTyped DEF n
<1>4. SubSeq(journal \o Batch(p), 1, n) = journal
  BY <1>1 DEF n, Histories
<1>5. SubSeq(journal \o Batch(p), n + 1, n + c) = Batch(p)
  BY <1>1 DEF n, Histories
<1>6. IsPrefix(journal, journal \o Batch(p))
  <2>1. SubSeq(journal, 1, n) = journal
    BY <1>1 DEF n, Histories
  <2>2. Len(journal) <= Len(journal \o Batch(p))
    BY <1>1, <1>3 DEF n
  <2> QED
    BY <1>4, <2>1, <2>2 DEF IsPrefix, n
<1>7. Log!WholeBatch(Batch(p))
  <2>1. \A i \in 1 .. c : /\ Batch(p)[i].op = p
                          /\ Batch(p)[i].index = i - 1
                          /\ Batch(p)[i].count = c
    BY BatchAuthor DEF c
  <2>2. 1 \in 1 .. c /\ Batch(p) # <<>>
    BY <1>1
  <2> QED
    BY <1>1, <2>1, <2>2 DEF Log!WholeBatch
<1>8. \A i \in 1 .. n : journal[i].op # Batch(p)[1].op
  <2>1. Unheard(journal, p)
    BY DEF BaseInv, AppendsOnce, AppendsWhole, Before
  <2>2. 1 \in 1 .. cmd[p].count
    BY <1>1 DEF c
  <2>3. Batch(p)[1].op = p
    BY <2>2, BatchAuthor
  <2> QED
    BY <2>1, <2>3 DEF Unheard, n
<1>9. Recovered(journal, tail) = journal /\ Recovered(journal, tail)' = journal \o Batch(p)
  BY <1>2 DEF Kept
<1>10. SubSeq(journal \o Batch(p), Len(journal) + 1, Len(journal \o Batch(p))) = Batch(p)
  BY <1>3, <1>5, Zenon DEF n
<1> QED
  BY <1>6, <1>7, <1>8, <1>9, <1>10, Zenon DEF Log!Grow, Log!IsPrefix, IsPrefix, n

LEMMA TailInvariant ==
  ASSUME OnlyFragments
  PROVE  Spec => [](BaseInv /\ TailInv)
<1>1. Init => BaseInv /\ TailInv
  BY BaseInit, TailInit
<1>2. BaseInv /\ TailInv /\ [Next]_vars => BaseInv' /\ TailInv'
  <2> SUFFICES ASSUME BaseInv, TailInv, [Next]_vars PROVE TailInv'
    BY BaseStep
  <2>1. CASE UNCHANGED <<journal, tail>>
    BY <2>1, TailStays
  <2>2. ASSUME NEW p \in Procs, Start(p) \/ Working(p) \/ Interrupt(p) \/ Crash(p)
        PROVE  TailInv'
    BY <2>2, KeptMoves
  <2>3. ASSUME NEW r \in Readers, Reading(r) PROVE UNCHANGED <<journal, tail>>
    BY <2>3, ReaderStep DEF files
  <2>4. UNCHANGED vars => UNCHANGED <<journal, tail>>
    BY DEF vars, files
  <2> QED
    BY <2>1, <2>2, <2>3, <2>4 DEF Next
<1> QED
  BY <1>1, <1>2, PTL DEF Spec

\* "batch failure aborts whole batch with zero journal change", for a reader of the
\* repaired journal: a torn append, its repair and a crash between the two are
\* no change at all, and whatever was appended is a whole batch and stays.
THEOREM StoreImplementsAtomicLog ==
  ASSUME OnlyFragments
  PROVE  Spec => ImplementsAtomicLog
<1>1. Init => Log!Init
  <2> SUFFICES ASSUME Init PROVE Log!Init
    OBVIOUS
  <2>1. Recovered(journal, tail) = journal /\ journal \in {<<>>, <<StartLine>>}
    BY TailInit DEF Init, Kept
  <2>2. Log!WholeBatch(<<StartLine>>)
    BY DEF Log!WholeBatch, StartLine
  <2> QED
    BY <2>1, <2>2 DEF Log!Init
<1>2. BaseInv /\ TailInv /\ [Next]_vars => [Log!Grow]_(Recovered(journal, tail))
  <2> SUFFICES ASSUME BaseInv, TailInv, [Next]_vars
               PROVE  Log!Grow \/ Recovered(journal, tail)' = Recovered(journal, tail)
    OBVIOUS
  <2>2. ASSUME NEW p \in Procs, Start(p) \/ Working(p) \/ Interrupt(p) \/ Crash(p)
        PROVE  Log!Grow \/ Recovered(journal, tail)' = Recovered(journal, tail)
    BY <2>2, KeptMoves, GrowsByBatch DEF Kept
  <2>3. CASE UNCHANGED <<journal, tail>>
    BY <2>3
  <2>4. ASSUME NEW r \in Readers, Reading(r) PROVE UNCHANGED <<journal, tail>>
    BY <2>4, ReaderStep DEF files
  <2>5. UNCHANGED vars => UNCHANGED <<journal, tail>>
    BY DEF vars, files
  <2> QED
    BY <2>2, <2>3, <2>4, <2>5 DEF Next
<1> QED
  BY <1>1, <1>2, TailInvariant, PTL DEF Spec, ImplementsAtomicLog, Log!Spec

-----------------------------------------------------------------------------
(***************************************************************************)
(* The lease around a command, and the length of a command.                *)
(***************************************************************************)

\* Whoever the lease names is inside, or died there without cleaning up.
HolderInside == \A p \in Procs : holder = p => pc[p] \in Leased \cup {"crashed", "cutOff"}

LEMMA HolderInsideStep ==
  ASSUME BaseInv, HolderInside, NEW p \in Procs,
         Start(p) \/ Working(p) \/ Interrupt(p) \/ Crash(p)
  PROVE  HolderInside'
<1>1. TypeInv /\ pc \in [Procs -> PcStates] /\ Own(p)
  BY OwnStep DEF BaseInv, SeqInv, TypeInv, TypeOK
<1>2. \A q \in Procs \ {p} : pc'[q] = pc[q]
  BY <1>1 DEF Own
<1>3. holder' = p => pc'[p] \in Leased \cup {"crashed", "cutOff"}
  <2> USE <1>1 DEF HolderInside, Goto, Leave, Leased, Exited
  <2>1. CASE Start(p) \/ Interrupt(p) \/ Crash(p)
    BY <2>1, NoProcAssumption DEF Start, Interrupt, Crash, Registered
  <2>2. CASE Acquire(p) \/ Confirm(p)
    BY <2>2 DEF Acquire, Confirm
  <2>3. CASE LockTimeout(p) \/ Release(p)
    BY <2>3, NoProcAssumption DEF LockTimeout, Release
  <2>4. CASE Load(p) \/ Reject(p) \/ Validate(p) \/ AppendRefused(p) \/ AppendUnsynced(p)
    BY <2>4 DEF Load, Reject, Validate, AppendRefused, AppendUnsynced
  <2>5. CASE AppendBatch(p) \/ AppendTorn(p)
    BY <2>5 DEF AppendBatch, AppendTorn
  <2>6. CASE WriteSpec(p) \/ WriteRegistry(p) \/ Repairing(p)
    BY <2>6 DEF WriteSpec, WriteRegistry, Repairing, Recover, RecoverFails, Replay
  <2>7. CASE Publishing(p)
    BY <2>7 DEF Publishing, WriteLeaf, WriteMeta, ProjectionFails
  <2> QED
    BY <2>1, <2>2, <2>3, <2>4, <2>5, <2>6, <2>7 DEF Working, Locking, Mutating
<1>4. holder' \in {p, NoProc, holder}
  BY OwnStep, <1>1 DEF Start, Interrupt, Crash, Working, Locking, Acquire, Confirm, LockTimeout,
     Release, Mutating, Load, Reject, Validate, AppendRefused, AppendBatch, AppendUnsynced,
     AppendTorn, WriteSpec, WriteRegistry, Repairing, Recover, RecoverFails, Replay,
     Publishing, WriteLeaf, WriteMeta, ProjectionFails
<1> QED
  BY <1>2, <1>3, <1>4, NoProcAssumption DEF HolderInside

LEMMA HolderInvariant == Spec => [](BaseInv /\ HolderInside)
<1>1. Init => BaseInv /\ HolderInside
  BY BaseInit, NoProcAssumption DEF Init, HolderInside
<1>2. BaseInv /\ HolderInside /\ [Next]_vars => BaseInv' /\ HolderInside'
  <2> SUFFICES ASSUME BaseInv, HolderInside, [Next]_vars PROVE HolderInside'
    BY BaseStep
  <2>1. CASE UNCHANGED <<holder, pc>>
    BY <2>1 DEF HolderInside
  <2>2. ASSUME NEW r \in Readers, Reading(r) PROVE UNCHANGED <<holder, pc>>
    BY <2>2, ReaderStep DEF procVars
  <2>3. UNCHANGED vars => UNCHANGED <<holder, pc>>
    BY DEF vars, procVars
  <2> QED
    BY <2>1, <2>2, <2>3, HolderInsideStep DEF Next
<1> QED
  BY <1>1, <1>2, PTL DEF Spec

\* No way out of a command, by success, refusal, a failed write, or Ctrl-C while
\* it works under its lease, leaves the lease behind: the owner of a lease that
\* runs no more was killed, or stopped by Ctrl-C between createLease and the
\* registration of the lease, or within release(). Together with
\* CommandsAreBounded this is LeaseReturned, but for the fairness that lets a live
\* command go on.
THEOREM LeaseNeverForgotten ==
  Spec => [](\A p \in Procs :
               holder = p /\ pc[p] \in Exited => pc[p] \in {"crashed", "cutOff"})
<1>1. HolderInside =>
        \A p \in Procs : holder = p /\ pc[p] \in Exited => pc[p] \in {"crashed", "cutOff"}
  BY DEF HolderInside, Leased, Exited
<1> QED
  BY <1>1, HolderInvariant, PTL

\* The calls a command still makes: at most one per projection file, and ten.
CallsLeft(label, written) ==
  CASE label = "idle" -> Len(LeafOrder) + 10
    [] label = "load" -> Len(LeafOrder) + 9
    [] label = "acquire" -> Len(LeafOrder) + 8
    [] label = "confirm" -> Len(LeafOrder) + 7
    [] label \in {"validate", "recover"} -> Len(LeafOrder) + 6
    [] label \in {"append", "replay"} -> Len(LeafOrder) + 5
    [] label = "spec" -> Len(LeafOrder) + 4
    [] label = "leaf" -> Len(LeafOrder) + 4 - written
    [] label = "meta" -> 3
    [] label = "registry" -> 2
    [] label = "release" -> 1
    [] OTHER -> 0

Work(p) == CallsLeft(pc[p], leaf[p])

LEMMA WorkSpent ==
  ASSUME TypeInv, NEW p \in Procs, Start(p) \/ Working(p) \/ Interrupt(p) \/ Crash(p)
  PROVE  Work(p)' < Work(p) /\ Work(p)' <= Work(p)
<1> USE LastLeaf DEF Work, CallsLeft, Goto, Leave, Exited, Leased
<1>1. /\ pc \in [Procs -> PcStates] /\ leaf \in [Procs -> 1 .. Len(LeafOrder) + 1]
      /\ pc[p] = "leaf" => leaf[p] \in 1 .. Len(LeafOrder)
  BY DEF TypeInv, TypeOK, LeafInRange
<1>2. CASE Start(p)
  BY <1>1, <1>2 DEF Start
<1>3. CASE Interrupt(p) \/ Crash(p)
  BY <1>1, <1>3 DEF Interrupt, Crash, PcStates
<1>4. CASE Locking(p)
  BY <1>1, <1>4 DEF Locking, Acquire, Confirm, LockTimeout, Release
<1>5. CASE Mutating(p)
  BY <1>1, <1>5 DEF Mutating, Load, Reject, Validate, AppendRefused, AppendBatch,
     AppendUnsynced, AppendTorn, WriteSpec, WriteRegistry
<1>6. CASE Repairing(p)
  BY <1>1, <1>6 DEF Repairing, Recover, RecoverFails, Replay
<1>7. CASE Publishing(p)
  BY <1>1, <1>7 DEF Publishing, WriteLeaf, WriteMeta, ProjectionFails
<1> QED
  BY <1>2, <1>3, <1>4, <1>5, <1>6, <1>7 DEF Working

\* No command loops, and none can make another one go on: each step of a command
\* spends some of its calls, which no other process ever adds to.
THEOREM CommandsAreBounded ==
  Spec => /\ [](\A p \in Procs : Work(p) \in Nat)
          /\ [][\A p \in Procs :
                  /\ Work(p)' <= Work(p)
                  /\ Start(p) \/ Working(p) => Work(p)' < Work(p)]_vars
<1>1. TypeInv => \A p \in Procs : Work(p) \in Nat
  <2> SUFFICES ASSUME TypeInv, NEW p \in Procs PROVE Work(p) \in Nat
    OBVIOUS
  <2>1. leaf[p] \in 1 .. Len(LeafOrder) + 1 /\ (pc[p] = "leaf" => leaf[p] \in 1 .. Len(LeafOrder))
    BY DEF TypeInv, TypeOK, LeafInRange
  <2> QED
    BY <2>1, LastLeaf DEF Work, CallsLeft
<1>2. TypeInv /\ [Next]_vars =>
        [\A p \in Procs :
           /\ Work(p)' <= Work(p)
           /\ Start(p) \/ Working(p) => Work(p)' < Work(p)]_vars
  <2> SUFFICES ASSUME TypeInv, Next, NEW p \in Procs
               PROVE  /\ Work(p)' <= Work(p)
                      /\ Start(p) \/ Working(p) => Work(p)' < Work(p)
    OBVIOUS
  <2>1. Work(p) \in Nat
    BY <1>1
  <2>2. CASE Start(p) \/ Working(p) \/ Interrupt(p) \/ Crash(p)
    BY <2>2, WorkSpent
  <2>3. CASE ~(Start(p) \/ Working(p) \/ Interrupt(p) \/ Crash(p))
    <3>1. ASSUME NEW q \in Procs, Own(q), q # p
          PROVE  pc'[p] = pc[p] /\ leaf'[p] = leaf[p]
      BY <3>1 DEF Own, TypeInv, TypeOK
    <3>2. \A r \in Readers : Reading(r) => UNCHANGED <<pc, leaf>>
      BY ReaderStep DEF procVars
    <3>3. pc'[p] = pc[p] /\ leaf'[p] = leaf[p]
      BY <2>3, <3>1, <3>2, OwnStep DEF Next
    <3> QED
      BY <2>1, <2>3, <3>3 DEF Work
  <2> QED
    BY <2>2, <2>3
<1> QED
  BY <1>1, <1>2, TypeInvariant, PTL DEF Spec
=============================================================================
