------------------------- MODULE FeatureLeaseProofs -------------------------
(***************************************************************************)
(* Theorems about the feature lease, for any number of commands and any    *)
(* number of attempts.                                                     *)
(***************************************************************************)
EXTENDS FeatureLease, TLAPS

USE ProcsAssumption, AttemptsAssumption, CrashesAssumption, SlowCreateAssumption,
    LeftBehindAssumption

Step(p) ==
  Start(p) \/ Acquiring(p) \/ WriteFails(p) \/ FinishWork(p) \/ Releasing(p)
    \/ Interrupt(p) \/ Crash(p)

-----------------------------------------------------------------------------
(* Every variable keeps its type, whatever crashes and whoever recovers. *)

\* The records the actions build are lock files.
LEMMA NewFileTyped ==
  ASSUME NEW o \in Procs \cup {NoProc}, NEW t \in Nat, NEW b \in Bodies, NEW a \in BOOLEAN
  PROVE  [owner |-> o, try |-> t, body |-> b, aged |-> a] \in LockFiles
BY DEF LockFiles

LEMMA ChangedFileTyped ==
  ASSUME NEW f \in LockFiles, NEW b \in Bodies, NEW a \in BOOLEAN
  PROVE  /\ [f EXCEPT !.body = b] \in LockFiles
         /\ [f EXCEPT !.aged = a] \in LockFiles
         /\ [f EXCEPT !.body = b, !.aged = a] \in LockFiles
BY DEF LockFiles

\* NoFile is the only value of the lock that is not a file.
LEMMA ExistsIsFile ==
  ASSUME NEW f \in LockFiles \cup {NoFile}
  PROVE  /\ Exists(f) <=> f \in LockFiles
         /\ Exists(f) <=> f # NoFile
         /\ f \in LockFiles => f.body \in Bodies
BY DEF LockFiles, NoFile, Exists, Bodies

LEMMA TypeInit == Init => TypeOK
<1> SUFFICES ASSUME Init PROVE TypeOK
  OBVIOUS
<1>1. lock \in LockFiles \cup {NoFile}
  BY NewFileTyped DEF Init, Bodies
<1> QED
  BY <1>1 DEF Init, TypeOK, PcStates

LEMMA TypeStep == TypeOK /\ [Next]_vars => TypeOK'
<1> SUFFICES ASSUME TypeOK, [Next]_vars PROVE TypeOK'
  OBVIOUS
<1> USE DEF TypeOK, PcStates, Exited, Goto, Retry
<1>1. CASE UNCHANGED vars
  BY <1>1 DEF vars
<1>2. CASE Age
  <2>1. lock' \in LockFiles
    BY <1>2, ExistsIsFile, ChangedFileTyped DEF Age, Exists
  <2> QED
    BY <1>2, <2>1 DEF Age
<1>3. ASSUME NEW p \in Procs, Start(p) \/ Acquiring(p) PROVE TypeOK'
  <2>1. CASE Start(p)
    BY <2>1 DEF Start
  <2>2. CASE Open(p)
    <3>1. CASE Exists(lock)
      BY <2>2, <3>1 DEF Open
    <3>2. CASE ~Exists(lock)
      <4>1. lock' = [owner |-> p, try |-> attempts[p], body |-> "empty", aged |-> FALSE]
        BY <2>2, <3>2 DEF Open
      <4>2. lock' \in LockFiles
        BY <4>1, NewFileTyped DEF Bodies
      <4> QED
        BY <2>2, <3>2, <4>2 DEF Open
    <3> QED
      BY <3>1, <3>2
  <2>3. CASE Write(p)
    <3>1. lock' \in LockFiles \cup {NoFile}
      <4>1. CASE Mine(p)
        BY <2>3, <4>1, ExistsIsFile, ChangedFileTyped DEF Write, Mine, Bodies
      <4>2. CASE ~Mine(p)
        BY <2>3, <4>2 DEF Write
      <4> QED
        BY <4>1, <4>2
    <3>2. Goto(p, "chmod") /\ UNCHANGED <<attempts, obs, crashes>>
      BY <2>3 DEF Write
    <3> QED
      BY <3>1, <3>2
  <2>4. CASE Chmod(p)
    BY <2>4 DEF Chmod
  <2>5. CASE Abandon(p)
    BY <2>5 DEF Abandon
  <2>6. CASE Confirm(p)
    BY <2>6 DEF Confirm
  <2>7. CASE Observe(p)
    BY <2>7 DEF Observe
  <2>8. CASE Revalidate(p)
    BY <2>8 DEF Revalidate
  <2>9. CASE Fence(p)
    BY <2>9 DEF Fence
  <2>10. CASE Unlink(p)
    BY <2>10 DEF Unlink
  <2> QED
    BY <1>3, <2>1, <2>2, <2>3, <2>4, <2>5, <2>6, <2>7, <2>8, <2>9, <2>10 DEF Acquiring
<1>4. ASSUME NEW p \in Procs,
             WriteFails(p) \/ FinishWork(p) \/ Releasing(p) \/ Interrupt(p) \/ Crash(p)
      PROVE  TypeOK'
  <2>1. CASE WriteFails(p) \/ FinishWork(p) \/ Interrupt(p)
    BY <2>1 DEF WriteFails, FinishWork, Interrupt
  <2>2. CASE Release(p)
    BY <2>2 DEF Release
  <2>3. CASE ReleaseFence(p)
    BY <2>3 DEF ReleaseFence
  <2>4. CASE ReleaseUnlink(p)
    BY <2>4 DEF ReleaseUnlink
  <2>5. CASE Crash(p)
    <3>1. lock' \in LockFiles \cup {NoFile}
      <4>1. CASE UNCHANGED lock
        BY <4>1
      <4>2. CASE Mine(p) /\ lock' = [lock EXCEPT !.body = "partial"]
        BY <4>2, ExistsIsFile, ChangedFileTyped DEF Mine, Bodies
      <4> QED
        BY <2>5, <4>1, <4>2 DEF Crash
    <3> QED
      BY <2>5, <3>1 DEF Crash
  <2> QED
    BY <1>4, <2>1, <2>2, <2>3, <2>4, <2>5 DEF Releasing
<1> QED
  BY <1>1, <1>2, <1>3, <1>4 DEF Next

\* The lease protocol is well typed for every number of commands, attempts and
\* crashes, and whatever `.lock` was left behind.
THEOREM TypeCorrect == Spec => []TypeOK
BY TypeInit, TypeStep, PTL DEF Spec

-----------------------------------------------------------------------------
(***************************************************************************)
(* Mutual exclusion, while nobody needs recovering: no process dies, no    *)
(* creator sleeps past the stale limit, and no older lock file is there.   *)
(* Commands may still be interrupted, fail to write, wait and give up.     *)
(***************************************************************************)
NoRecovery == MaxCrashes = 0 /\ SlowCreate = FALSE /\ LeftBehind = {}

\* Where a process stands while the file in place is its own.
OwnStates ==
  {"write", "chmod", "confirm", "abandon",
   "held", "release", "releaseFence", "releaseUnlink", "signalUnlink"}

\* The places only a recovery reaches.
RecoveryStates == {"revalidate", "fence", "unlink", "crashed"}

OwnersOwn == \A p \in Procs : pc[p] \in OwnStates => Mine(p)

FileIsOwned == Exists(lock) => lock.owner \in Procs /\ pc[lock.owner] \in OwnStates

FilledInTime ==
  \A p \in Procs :
    /\ pc[p] \in {"write", "abandon"} => lock.body = "empty"
    /\ pc[p] \in OwnStates \ {"write", "abandon"} => lock.body = "full"
    /\ pc[p] = "releaseFence" => SameGeneration(lock, obs[p])

NobodyRecovers ==
  /\ crashes = 0
  /\ ~lock.aged
  /\ \A p \in Procs : pc[p] \notin RecoveryStates

IInv == TypeOK /\ OwnersOwn /\ FileIsOwned /\ FilledInTime /\ NobodyRecovers

LEMMA IndInit == NoRecovery /\ Init => IInv
<1> SUFFICES ASSUME NoRecovery, Init PROVE IInv
  OBVIOUS
<1>1. lock = NoFile
  BY DEF NoRecovery, Init
<1> QED
  BY <1>1, TypeInit DEF Init, NoFile, Exists, IInv, OwnersOwn, FileIsOwned, FilledInTime,
     NobodyRecovers, OwnStates, RecoveryStates

LEMMA IndStep == NoRecovery /\ IInv /\ [Next]_vars => IInv'
<1> SUFFICES ASSUME NoRecovery, IInv, [Next]_vars PROVE IInv'
  OBVIOUS
<1>t. TypeOK'
  BY TypeStep DEF IInv
<1> USE DEF IInv, OwnersOwn, FileIsOwned, FilledInTime, NobodyRecovers, OwnStates,
        RecoveryStates, Goto
<1>1. CASE UNCHANGED vars
  BY <1>1, <1>t DEF vars, Mine
<1>2. CASE Age
  <2>1. lock.owner \in Procs /\ pc[lock.owner] \in OwnStates
    BY <1>2 DEF Age, Exists
  <2> QED
    BY <1>2, <2>1 DEF Age, NoRecovery, PidDead, Exited
<1>3. ASSUME NEW p \in Procs, Start(p) \/ Acquiring(p) PROVE IInv'
  <2>1. CASE Start(p)
    BY <1>t, <2>1 DEF Start, Mine, TypeOK
  <2>2. CASE Open(p)
    BY <1>t, <2>2 DEF Open, Mine, Exists, TypeOK
  <2>3. CASE Write(p)
    BY <1>t, <2>3 DEF Write, Mine, Exists, TypeOK
  <2>4. CASE Chmod(p)
    BY <1>t, <2>4 DEF Chmod, Mine, TypeOK
  <2>5. CASE Abandon(p)
    BY <1>t, <2>5 DEF Abandon, NoFile, Mine, Exists, TypeOK
  <2>6. CASE Confirm(p)
    BY <1>t, <2>6 DEF Confirm, Mine, TypeOK
  <2>7. CASE Observe(p)
    BY <1>t, <2>7 DEF Observe, Retry, PidDead, Exited, Mine, Exists, TypeOK
  <2>8. CASE Revalidate(p) \/ Fence(p) \/ Unlink(p)
    BY <2>8 DEF Revalidate, Fence, Unlink
  <2> QED
    BY <1>3, <2>1, <2>2, <2>3, <2>4, <2>5, <2>6, <2>7, <2>8 DEF Acquiring
<1>4. ASSUME NEW p \in Procs,
             WriteFails(p) \/ FinishWork(p) \/ Releasing(p) \/ Interrupt(p) \/ Crash(p)
      PROVE  IInv'
  <2>1. CASE WriteFails(p)
    BY <1>t, <2>1 DEF WriteFails, Mine, TypeOK
  <2>2. CASE FinishWork(p)
    BY <1>t, <2>2 DEF FinishWork, Mine, TypeOK
  <2>3. CASE Release(p)
    BY <1>t, <2>3 DEF Release, SameGeneration, Mine, TypeOK
  <2>4. CASE ReleaseFence(p)
    BY <1>t, <2>4 DEF ReleaseFence, Mine, TypeOK
  <2>5. CASE ReleaseUnlink(p)
    BY <1>t, <2>5 DEF ReleaseUnlink, NoFile, Exists, Mine, TypeOK
  <2>6. CASE Interrupt(p)
    BY <1>t, <2>6 DEF Interrupt, Mine, TypeOK
  <2>7. CASE Crash(p)
    BY <2>7 DEF Crash, NoRecovery
  <2> QED
    BY <1>4, <2>1, <2>2, <2>3, <2>4, <2>5, <2>6, <2>7 DEF Releasing
<1> QED
  BY <1>1, <1>2, <1>3, <1>4 DEF Next

LEMMA IndInvariant ==
  ASSUME NoRecovery
  PROVE  Spec => []IInv
<1>1. IInv /\ [Next]_vars => IInv'
  BY IndStep
<1>2. Init => IInv
  BY IndInit
<1> QED
  BY <1>1, <1>2, PTL DEF Spec

\* Two processes whose file is in place are the same process.
LEMMA OneOwner ==
  IInv => \A p, q \in Procs : pc[p] \in OwnStates /\ pc[q] \in OwnStates => p = q
BY DEF IInv, OwnersOwn, Mine

\* Of all the commands that contend for a feature, at most one is inside
\* withFeatureWriteLease's body.
THEOREM LeaseExcludes ==
  ASSUME NoRecovery
  PROVE  Spec => []MutualExclusion
<1>1. IInv => MutualExclusion
  BY OneOwner DEF MutualExclusion, Holders, OwnStates
<1> QED
  BY <1>1, IndInvariant, PTL

\* And whoever is inside finds its own complete token in `.lock`.
THEOREM LeaseIsOwned ==
  ASSUME NoRecovery
  PROVE  Spec => []HolderOwnsFile
<1>1. IInv => HolderOwnsFile
  BY DEF IInv, OwnersOwn, FilledInTime, HolderOwnsFile, Holders, OwnStates
<1> QED
  BY <1>1, IndInvariant, PTL

\* Exclusion is all the refinement needs: a confirmation acquires, and whatever
\* takes a command out of its body releases.
LEMMA StepRefines ==
  ASSUME TypeOK, MutualExclusion, MutualExclusion', [Next]_vars
  PROVE  [Lease!Next]_Holders
<1>1. CASE UNCHANGED vars \/ Age
  BY <1>1 DEF vars, Age, Holders
<1>2. ASSUME NEW p \in Procs, \A q \in Procs \ {p} : pc'[q] = pc[q],
             pc[p] # "held", pc'[p] = "held"
      PROVE  Lease!Acquire(p)
  <2>1. Holders = {} /\ Holders' = {p}
    BY <1>2 DEF MutualExclusion, Holders
  <2> QED
    BY <2>1 DEF Lease!Acquire
<1>3. ASSUME NEW p \in Procs, \A q \in Procs \ {p} : pc'[q] = pc[q],
             pc[p] = "held", pc'[p] # "held"
      PROVE  Lease!Release(p)
  <2>1. Holders = {p} /\ Holders' = {}
    BY <1>3 DEF MutualExclusion, Holders
  <2> QED
    BY <2>1 DEF Lease!Release
<1>4. ASSUME NEW p \in Procs, \A q \in Procs \ {p} : pc'[q] = pc[q],
             pc[p] = "held" <=> pc'[p] = "held"
      PROVE  UNCHANGED Holders
  BY <1>4 DEF Holders
<1>5. ASSUME NEW p \in Procs, Step(p)
      PROVE  \A q \in Procs \ {p} : pc'[q] = pc[q]
  BY <1>5 DEF Step, Acquiring, Releasing, Start, Open, Write, WriteFails, Chmod, Abandon,
     Confirm, Observe, Revalidate, Fence, Unlink, FinishWork, Release, ReleaseFence,
     ReleaseUnlink, Interrupt, Crash, Goto, Retry, TypeOK
<1>6. ASSUME NEW p \in Procs, Step(p) PROVE [Lease!Next]_Holders
  BY <1>2, <1>3, <1>4, <1>5, <1>6 DEF Lease!Next
<1> QED
  BY <1>1, <1>6 DEF Next, Step

LEMMA InitRefines == Init => Lease!Init
BY DEF Init, Lease!Init, Holders

\* The lock file and its retries implement the lease its callers program
\* against: acquire when free, release when held, nothing else.
THEOREM LeaseRefines ==
  ASSUME NoRecovery
  PROVE  Spec => ImplementsExclusiveLease
<1>1. TypeOK /\ MutualExclusion /\ MutualExclusion' /\ [Next]_vars => [Lease!Next]_Holders
  BY StepRefines
<1> QED
  BY <1>1, InitRefines, TypeCorrect, LeaseExcludes, PTL
  DEF Spec, Lease!Spec, ImplementsExclusiveLease

-----------------------------------------------------------------------------
(***************************************************************************)
(* With deaths, slow creators and older files. Recovery breaks mutual      *)
(* exclusion, and the rest of this module proves by what exactly. What     *)
(* follows is an invariant of every behaviour: what a process last saw,    *)
(* set against the file that is there now.                                 *)
(***************************************************************************)

\* Process o has been through the creation of its attempt t.
Spent(o, t) ==
  \/ t < attempts[o]
  \/ /\ t = attempts[o]
     /\ pc[o] \notin {"idle", "create", "revalidate", "fence", "unlink"}

\* A generation cannot come back: a file that exists, or that somebody saw, is
\* of an attempt that is past or running.
OldAttempt(f) == f.owner \in Procs => Spent(f.owner, f.try)

SeenIsOld == OldAttempt(lock) /\ \A q \in Procs : OldAttempt(obs[q])

\* Until its creator has written it, nobody has seen bytes in the file.
EmptyTillWritten(f) ==
  \A r \in Procs : pc[r] = "write" /\ f.owner = r /\ f.try = attempts[r] => f.body = "empty"

EmptyWhileWriting == EmptyTillWritten(lock) /\ \A q \in Procs : EmptyTillWritten(obs[q])

\* A file that is there while its creator's attempt runs is of that attempt.
OneTry == \A r \in Procs : pc[r] \in OwnStates /\ lock.owner = r => lock.try = attempts[r]

FullOnceWritten ==
  \A r \in Procs : pc[r] \in OwnStates \ {"write", "abandon"} /\ Mine(r) => lock.body = "full"

\* A process that got to create a file found the name free: what it had seen
\* before is gone for good.
BeforeRelease == OwnStates \ {"releaseFence", "releaseUnlink"}

SeenIsGone == \A q \in Procs : pc[q] \in BeforeRelease => ~SameGeneration(lock, obs[q])

RecoversTheDead ==
  \A q \in Procs : pc[q] \in {"revalidate", "fence", "unlink"} =>
    /\ obs[q].body \in {"full", "empty"}
    /\ obs[q].body = "full" => PidDead(obs[q].owner)

ReleasesItsOwn ==
  \A q \in Procs : pc[q] \in {"releaseFence", "releaseUnlink"} => obs[q].owner = q

RInv ==
  /\ TypeOK
  /\ SeenIsOld
  /\ EmptyWhileWriting
  /\ OneTry
  /\ FullOnceWritten
  /\ SeenIsGone
  /\ RecoversTheDead
  /\ ReleasesItsOwn

LEMMA RecInit == Init => RInv
<1> SUFFICES ASSUME Init PROVE RInv
  OBVIOUS
<1>1. lock.owner = NoProc
  BY DEF Init, NoFile
<1>2. \A q \in Procs : obs[q] = NoFile /\ pc[q] = "idle"
  BY DEF Init
<1>3. NoFile.owner = NoProc
  BY DEF NoFile
<1> QED
  BY <1>1, <1>2, <1>3, TypeInit DEF RInv, SeenIsOld, OldAttempt, EmptyWhileWriting,
     EmptyTillWritten, OneTry, FullOnceWritten, SeenIsGone, RecoversTheDead,
     ReleasesItsOwn, OwnStates, BeforeRelease

LEMMA RecStep == RInv /\ [Next]_vars => RInv'
<1> SUFFICES ASSUME RInv, [Next]_vars PROVE RInv'
  OBVIOUS
<1>t. TypeOK'
  BY TypeStep DEF RInv
<1> USE DEF RInv, SeenIsOld, OldAttempt, EmptyWhileWriting, EmptyTillWritten, OneTry,
        FullOnceWritten, SeenIsGone, RecoversTheDead, ReleasesItsOwn, OwnStates,
        BeforeRelease, Spent, Mine, PidDead, Exited, SameGeneration, Generation, Exists,
        Goto
<1>1. CASE UNCHANGED vars
  BY <1>1, <1>t DEF vars
<1>2. CASE Age
  BY <1>2, <1>t DEF Age, TypeOK, LockFiles, NoFile
<1>3. ASSUME NEW p \in Procs, Start(p) \/ Acquiring(p) PROVE RInv'
  <2>1. CASE Start(p)
    BY <1>t, <2>1 DEF Start, TypeOK
  <2>2. CASE Open(p)
    BY <1>t, <2>2 DEF Open, TypeOK
  <2>3. CASE Write(p)
    BY <1>t, <2>3 DEF Write, TypeOK, LockFiles, NoFile
  <2>4. CASE Chmod(p)
    BY <1>t, <2>4 DEF Chmod, TypeOK
  <2>5. CASE Abandon(p)
    BY <1>t, <2>5 DEF Abandon, NoFile, TypeOK
  <2>6. CASE Confirm(p)
    BY <1>t, <2>6 DEF Confirm, TypeOK
  <2>7. CASE Observe(p)
    <3>1. /\ lock' = lock
          /\ pc[p] = "observe"
          /\ attempts'[p] = attempts[p] + 1
          /\ obs'[p] = lock
          /\ \A q \in Procs \ {p} :
               attempts'[q] = attempts[q] /\ obs'[q] = obs[q] /\ pc'[q] = pc[q]
      BY <2>7 DEF Observe, Retry, TypeOK
    <3>2. \/ pc'[p] \in {"create", "timedOut", "refused"}
          \/ pc'[p] = "revalidate" /\ lock.body = "full" /\ PidDead(lock.owner)
          \/ pc'[p] = "fence" /\ lock.body = "empty"
      BY <2>7 DEF Observe, Retry, TypeOK
    <3>3. SeenIsOld' /\ EmptyWhileWriting'
      BY <3>1, <3>2 DEF TypeOK, LockFiles, NoFile
    <3>4. OneTry' /\ FullOnceWritten' /\ SeenIsGone' /\ ReleasesItsOwn'
      BY <3>1, <3>2 DEF TypeOK
    <3>5. RecoversTheDead'
      BY <3>1, <3>2 DEF TypeOK
    <3> QED
      BY <1>t, <3>3, <3>4, <3>5
  <2>8. CASE Revalidate(p)
    BY <1>t, <2>8 DEF Revalidate, Retry, TypeOK
  <2>9. CASE Fence(p)
    BY <1>t, <2>9 DEF Fence, Retry, TypeOK
  <2>10. CASE Unlink(p)
    BY <1>t, <2>10 DEF Unlink, Retry, NoFile, TypeOK
  <2> QED
    BY <1>3, <2>1, <2>2, <2>3, <2>4, <2>5, <2>6, <2>7, <2>8, <2>9, <2>10 DEF Acquiring
<1>4. ASSUME NEW p \in Procs,
             WriteFails(p) \/ FinishWork(p) \/ Releasing(p) \/ Interrupt(p) \/ Crash(p)
      PROVE  RInv'
  <2>1. CASE WriteFails(p)
    BY <1>t, <2>1 DEF WriteFails, TypeOK
  <2>2. CASE FinishWork(p)
    BY <1>t, <2>2 DEF FinishWork, TypeOK
  <2>3. CASE Release(p)
    BY <1>t, <2>3 DEF Release, TypeOK
  <2>4. CASE ReleaseFence(p)
    BY <1>t, <2>4 DEF ReleaseFence, TypeOK
  <2>5. CASE ReleaseUnlink(p)
    BY <1>t, <2>5 DEF ReleaseUnlink, NoFile, TypeOK
  <2>6. CASE Interrupt(p)
    BY <1>t, <2>6 DEF Interrupt, TypeOK
  <2>7. CASE Crash(p)
    BY <1>t, <2>7 DEF Crash, TypeOK, LockFiles, NoFile
  <2> QED
    BY <1>4, <2>1, <2>2, <2>3, <2>4, <2>5, <2>6, <2>7 DEF Releasing
<1> QED
  BY <1>1, <1>2, <1>3, <1>4 DEF Next

LEMMA RecInvariant == Spec => []RInv
BY RecInit, RecStep, PTL DEF Spec

\* A step that changes a confirmed file takes it away, by an unlink that was
\* decided on another generation.
LEMMA LossIsStale ==
  ASSUME RInv, Next, NEW p \in Procs, pc[p] = "held", pc'[p] = "held", Mine(p), lock' # lock
  PROVE  \E q \in Procs \ {p} :
           /\ pc[q] \in {"unlink", "releaseUnlink", "signalUnlink", "abandon"}
           /\ pc'[q] # pc[q]
           /\ ~SameGeneration(lock, obs[q])
           /\ lock' = NoFile
<1> USE DEF RInv, Goto
<1>1. lock.body = "full" /\ lock.owner = p
  BY DEF FullOnceWritten, OwnStates, Mine
<1>2. ~Age
  BY <1>1 DEF Age
<1>3. PICK q \in Procs : Step(q)
  BY <1>2 DEF Next, Step
<1>4. q # p
  BY <1>3 DEF Step, Acquiring, Releasing, Start, Open, Write, WriteFails, Chmod, Abandon,
     Confirm, Observe, Revalidate, Fence, Unlink, FinishWork, Release, ReleaseFence,
     ReleaseUnlink, Interrupt, Crash, Retry, TypeOK, Exited
<1>5. Abandon(q) \/ Unlink(q) \/ ReleaseUnlink(q)
  BY <1>1, <1>3, <1>4 DEF Step, Acquiring, Releasing, Start, Open, Write, WriteFails, Chmod,
     Confirm, Observe, Revalidate, Fence, FinishWork, Release, ReleaseFence,
     Interrupt, Crash, Mine, Exists
<1>6. pc'[q] # pc[q] /\ lock' = NoFile
  BY <1>5 DEF Abandon, Unlink, ReleaseUnlink, Retry, TypeOK
<1>7. CASE Abandon(q)
  BY <1>4, <1>6, <1>7 DEF Abandon, SeenIsGone, BeforeRelease, OwnStates
<1>8. CASE Unlink(q)
  <2>1. SameGeneration(lock, obs[q]) => PidDead(p)
    BY <1>1, <1>8 DEF Unlink, RecoversTheDead, SameGeneration, Generation
  <2>2. ~PidDead(p)
    BY DEF PidDead, Exited
  <2> QED
    BY <1>4, <1>6, <1>8, <2>1, <2>2 DEF Unlink
<1>9. CASE ReleaseUnlink(q)
  <2>1. CASE pc[q] = "signalUnlink"
    BY <1>4, <1>6, <2>1 DEF SeenIsGone, BeforeRelease, OwnStates
  <2>2. CASE pc[q] = "releaseUnlink"
    BY <1>1, <1>4, <1>6, <2>2 DEF ReleasesItsOwn, SameGeneration, Generation
  <2> QED
    BY <1>9, <2>1, <2>2 DEF ReleaseUnlink
<1> QED
  BY <1>5, <1>7, <1>8, <1>9

\* Whatever dies and whoever recovers, a live holder's file is lost only to an
\* unlink by name that was decided on another generation of the file: the
\* check that unlinkIfUnchanged makes never condemns a live lease.
THEOREM LiveLeaseLostOnlyToStaleUnlink == Spec => LostOnlyToStaleUnlink
<1>1. RInv /\ [Next]_vars =>
        [\A p \in Procs :
           pc[p] = "held" /\ pc'[p] = "held" /\ Mine(p) /\ lock' # lock
           => \E q \in Procs \ {p} :
                /\ pc[q] \in {"unlink", "releaseUnlink", "signalUnlink", "abandon"}
                /\ pc'[q] # pc[q]
                /\ ~SameGeneration(lock, obs[q])]_vars
  BY LossIsStale
<1> QED
  BY <1>1, RecInvariant, PTL DEF Spec, LostOnlyToStaleUnlink

-----------------------------------------------------------------------------
(***************************************************************************)
(* The converse: were the check and the unlink one step, the lease would   *)
(* be safe with every death, slow creator and older file. A stale unlink   *)
(* removes a file that is neither the process's own nor the generation it  *)
(* last looked at; it can only come from the gap between the two calls of  *)
(* unlinkIfUnchanged, or from an unlink by name without any check (the     *)
(* catch block of createLease, the SIGINT handler).                        *)
(***************************************************************************)
StaleUnlink(q) ==
  /\ pc[q] \in {"unlink", "releaseUnlink", "signalUnlink", "abandon"}
  /\ pc'[q] # pc[q]
  /\ Exists(lock) /\ lock' = NoFile
  /\ ~Mine(q)
  /\ ~SameGeneration(lock, obs[q])

NoStaleUnlink == \A q \in Procs : ~StaleUnlink(q)

LEMMA OwnershipStep ==
  ASSUME RInv, HolderOwnsFile, Next, NoStaleUnlink
  PROVE  HolderOwnsFile'
<1> SUFFICES ASSUME NEW p \in Procs, pc'[p] = "held"
             PROVE  Mine(p)' /\ lock'.body = "full"
  BY DEF HolderOwnsFile, Holders
<1>1. CASE pc[p] = "held"
  <2>1. Mine(p) /\ lock.body = "full"
    BY <1>1 DEF HolderOwnsFile, Holders
  <2>2. lock' = lock
    <3> SUFFICES ASSUME lock' # lock PROVE FALSE
      OBVIOUS
    <3>1. PICK q \in Procs \ {p} :
            /\ pc[q] \in {"unlink", "releaseUnlink", "signalUnlink", "abandon"}
            /\ pc'[q] # pc[q]
            /\ ~SameGeneration(lock, obs[q])
            /\ lock' = NoFile
      BY <1>1, <2>1, LossIsStale
    <3>2. ~Mine(q) /\ Exists(lock)
      BY <2>1 DEF Mine
    <3> QED
      BY <3>1, <3>2 DEF NoStaleUnlink, StaleUnlink
  <2>3. attempts'[p] = attempts[p]
    BY <1>1 DEF Next, Acquiring, Releasing, Start, Open, Write, WriteFails, Chmod, Abandon,
       Confirm, Observe, Revalidate, Fence, Unlink, FinishWork, Release, ReleaseFence,
       ReleaseUnlink, Interrupt, Crash, Age, Retry, RInv, TypeOK
  <2> QED
    BY <2>1, <2>2, <2>3 DEF Mine
<1>2. CASE pc[p] # "held"
  <2>1. Confirm(p)
    BY <1>2 DEF Next, Acquiring, Releasing, Start, Open, Write, WriteFails, Chmod, Abandon,
       Confirm, Observe, Revalidate, Fence, Unlink, FinishWork, Release, ReleaseFence,
       ReleaseUnlink, Interrupt, Crash, Age, Retry, Goto, Exited, RInv, TypeOK
  <2>2. lock.body = "full" /\ lock.owner = p /\ UNCHANGED <<lock, attempts>>
    BY <2>1 DEF Confirm, Goto, RInv, TypeOK
  <2>3. lock.try = attempts[p]
    BY <2>1, <2>2 DEF Confirm, RInv, OneTry, OwnStates
  <2> QED
    BY <2>2, <2>3 DEF Mine, Exists
<1> QED
  BY <1>1, <1>2

LEMMA OwnersExclude == HolderOwnsFile => MutualExclusion
BY DEF HolderOwnsFile, MutualExclusion, Mine

LEMMA OwnershipInvariant ==
  Spec /\ [][NoStaleUnlink]_vars => [](RInv /\ HolderOwnsFile)
<1>1. Init => HolderOwnsFile
  BY DEF Init, HolderOwnsFile, Holders
<1>2. RInv /\ HolderOwnsFile /\ [Next]_vars /\ [NoStaleUnlink]_vars => HolderOwnsFile'
  <2>1. HolderOwnsFile /\ UNCHANGED vars => HolderOwnsFile'
    BY DEF vars, HolderOwnsFile, Holders, Mine
  <2> QED
    BY <2>1, OwnershipStep
<1> QED
  BY <1>1, <1>2, RecInvariant, PTL DEF Spec

\* Deaths, slow creators and older files are harmless as long as no unlink is
\* stale: whoever is inside then finds its own complete token in `.lock`, and
\* nobody else is inside.
THEOREM OnlyStaleUnlinksBreakTheLease ==
  Spec /\ [][NoStaleUnlink]_vars => [](MutualExclusion /\ HolderOwnsFile)
BY OwnersExclude, OwnershipInvariant, PTL

\* Under the same condition the lock file is the lease its callers program
\* against, a holder's death being a release that nobody announces.
THEOREM NoStaleUnlinkRefines ==
  Spec /\ [][NoStaleUnlink]_vars => ImplementsExclusiveLease
<1>1. TypeOK /\ MutualExclusion /\ MutualExclusion' /\ [Next]_vars => [Lease!Next]_Holders
  BY StepRefines
<1> QED
  BY <1>1, InitRefines, TypeCorrect, OnlyStaleUnlinksBreakTheLease, PTL
  DEF Spec, Lease!Spec, ImplementsExclusiveLease

-----------------------------------------------------------------------------
(***************************************************************************)
(* The wait is bounded. Each acquisition has a budget of steps that only   *)
(* its own steps spend and that nothing gives back, so what is left to     *)
(* fairness is that a live process takes its steps. Ten per attempt: seven *)
(* to create, confirm and observe, three to recover, which an attempt      *)
(* borrows from the next one because `observe` opens it.                   *)
(***************************************************************************)
Looping == {"create", "write", "chmod", "abandon", "confirm", "observe"}

Recovering == {"revalidate", "fence", "unlink"}

\* The most steps an acquisition can still take in its current attempt.
StepsLeft(label) ==
  CASE label = "idle" -> 9
    [] label = "create" -> 8
    [] label = "write" -> 7
    [] label = "chmod" -> 6
    [] label \in {"abandon", "confirm"} -> 5
    [] label = "observe" -> 4
    [] label = "revalidate" -> 13
    [] label = "fence" -> 12
    [] label = "unlink" -> 11
    [] OTHER -> 0

Budget(p) == 10 * (MaxAttempts - attempts[p]) + StepsLeft(pc[p])

AttemptsBounded ==
  \A p \in Procs :
    /\ attempts[p] <= MaxAttempts
    /\ pc[p] \in Looping \cup {"idle"} => attempts[p] < MaxAttempts

LEMMA StepsLeftTyped == \A label \in PcStates : StepsLeft(label) \in Nat
BY DEF StepsLeft

\* A step of an acquisition, by what it does to the loop counter.
LEMMA AcquiringMoves ==
  ASSUME TypeOK, AttemptsBounded, NEW p \in Procs, Acquiring(p)
  PROVE  \/ /\ attempts'[p] = attempts[p]
            /\ StepsLeft(pc'[p]) < StepsLeft(pc[p])
         \/ /\ pc[p] = "observe"
            /\ attempts'[p] = attempts[p] + 1
            /\ StepsLeft(pc'[p]) < 14
<1> USE DEF TypeOK, Goto, Retry, StepsLeft
<1>1. CASE Open(p) \/ Write(p) \/ Chmod(p) \/ Abandon(p) \/ Confirm(p)
  BY <1>1 DEF Open, Write, Chmod, Abandon, Confirm
<1>2. CASE Observe(p)
  BY <1>2 DEF Observe
<1>3. CASE Revalidate(p) \/ Fence(p) \/ Unlink(p)
  BY <1>3 DEF Revalidate, Fence, Unlink
<1> QED
  BY <1>1, <1>2, <1>3 DEF Acquiring

LEMMA AttemptsStep == TypeOK /\ AttemptsBounded /\ [Next]_vars => AttemptsBounded'
<1> SUFFICES ASSUME TypeOK, AttemptsBounded, [Next]_vars PROVE AttemptsBounded'
  OBVIOUS
<1> USE DEF AttemptsBounded, TypeOK, Looping
<1>1. CASE UNCHANGED vars \/ Age
  BY <1>1 DEF vars, Age
<1>2. ASSUME NEW p \in Procs, Step(p) PROVE AttemptsBounded'
  <2>1. CASE Observe(p)
    BY <2>1 DEF Observe, Goto, Retry
  <2>2. CASE Step(p) /\ ~Observe(p)
    BY <2>2 DEF Step, Acquiring, Releasing, Start, Open, Write, WriteFails, Chmod, Abandon,
       Confirm, Revalidate, Fence, Unlink, FinishWork, Release, ReleaseFence,
       ReleaseUnlink, Interrupt, Crash, Goto, Retry
  <2> QED
    BY <1>2, <2>1, <2>2
<1> QED
  BY <1>1, <1>2 DEF Next, Step

LEMMA AttemptsInvariant == Spec => []AttemptsBounded
<1>1. Init => AttemptsBounded
  <2> SUFFICES ASSUME Init, NEW p \in Procs
               PROVE  attempts[p] <= MaxAttempts /\ attempts[p] < MaxAttempts
    BY Zenon DEF AttemptsBounded
  <2>1. 0 <= MaxAttempts /\ 0 < MaxAttempts
    BY AttemptsAssumption
  <2>2. attempts[p] = 0
    BY DEF Init
  <2> QED
    BY <2>1, <2>2
<1> QED
  BY <1>1, AttemptsStep, TypeCorrect, PTL DEF Spec

LEMMA BudgetTyped ==
  ASSUME TypeOK, AttemptsBounded, NEW p \in Procs
  PROVE  /\ MaxAttempts - attempts[p] \in Nat
         /\ StepsLeft(pc[p]) \in Nat
         /\ Budget(p) \in Nat
BY StepsLeftTyped DEF TypeOK, AttemptsBounded, Budget

\* What any step, of p or of another process, does to p's budget.
LEMMA BudgetSpent ==
  ASSUME TypeOK, AttemptsBounded, [Next]_vars, NEW p \in Procs
  PROVE  /\ Budget(p)' <= Budget(p)
         /\ Acquiring(p) => Budget(p)' < Budget(p)
<1>t. /\ TypeOK' /\ AttemptsBounded'
  BY TypeStep, AttemptsStep
<1>1. /\ MaxAttempts - attempts[p] \in Nat /\ StepsLeft(pc[p]) \in Nat
      /\ MaxAttempts - attempts'[p] \in Nat /\ StepsLeft(pc'[p]) \in Nat
  BY <1>t, BudgetTyped, StepsLeftTyped DEF TypeOK, AttemptsBounded
<1>2. CASE Acquiring(p)
  <2>1. pc[p] = "observe" => StepsLeft(pc[p]) = 4
    BY DEF StepsLeft
  <2> QED
    BY <1>1, <1>2, <2>1, AcquiringMoves DEF Budget, TypeOK
<1>3. CASE ~Acquiring(p)
  <2>1. attempts'[p] = attempts[p]
    BY <1>3 DEF Next, vars, Acquiring, Releasing, Start, Open, Write, WriteFails, Chmod,
       Abandon, Confirm, Observe, Revalidate, Fence, Unlink, FinishWork, Release,
       ReleaseFence, ReleaseUnlink, Interrupt, Crash, Age, TypeOK
  <2>2. StepsLeft(pc'[p]) <= StepsLeft(pc[p])
    <3>1. CASE UNCHANGED vars \/ Age
      BY <1>1, <3>1 DEF vars, Age
    <3>2. ASSUME NEW q \in Procs, Step(q), q # p PROVE pc'[p] = pc[p]
      BY <3>2 DEF Step, Acquiring, Releasing, Start, Open, Write, WriteFails, Chmod,
         Abandon, Confirm, Observe, Revalidate, Fence, Unlink, FinishWork, Release,
         ReleaseFence, ReleaseUnlink, Interrupt, Crash, Goto, Retry, TypeOK
    <3>3. CASE Step(p)
      BY <1>1, <1>3, <3>3 DEF Step, Releasing, Start, WriteFails, FinishWork, Release,
         ReleaseFence, ReleaseUnlink, Interrupt, Crash, Goto, TypeOK, StepsLeft
    <3> QED
      BY <1>1, <3>1, <3>2, <3>3 DEF Next, Step
  <2> QED
    BY <1>1, <1>3, <2>1, <2>2, BudgetTyped DEF Budget, TypeOK
<1> QED
  BY <1>2, <1>3

\* "bounded wait", without fairness: a command never counts past maxAttempts,
\* and from its start on it spends a budget of steps that nobody, not even a
\* process that keeps creating and removing the file, can refill.
THEOREM WaitIsBounded ==
  Spec => /\ [](\A p \in Procs : attempts[p] <= MaxAttempts /\ Budget(p) \in Nat)
          /\ [][\A p \in Procs :
                  Budget(p)' <= Budget(p) /\ (Acquiring(p) => Budget(p)' < Budget(p))]_vars
<1>1. TypeOK /\ AttemptsBounded =>
        \A p \in Procs : attempts[p] <= MaxAttempts /\ Budget(p) \in Nat
  BY BudgetTyped DEF AttemptsBounded
<1>2. TypeOK /\ AttemptsBounded /\ [Next]_vars =>
        [\A p \in Procs :
           Budget(p)' <= Budget(p) /\ (Acquiring(p) => Budget(p)' < Budget(p))]_vars
  BY BudgetSpent
<1> QED
  BY <1>1, <1>2, TypeCorrect, AttemptsInvariant, PTL DEF Spec
=============================================================================
