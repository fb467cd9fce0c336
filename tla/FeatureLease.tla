---------------------------- MODULE FeatureLease ----------------------------
(***************************************************************************)
(* The per-feature write lease of src/core/feature-write-lease.ts: the     *)
(* `.lock` file, and the commands that create, confirm, recover and        *)
(* release it. Each file-system call of the code is a step of its own, so  *)
(* every await is a point where another command may run.                   *)
(*                                                                         *)
(* A process stands for one run of the CLI, hence for one pid and one      *)
(* random owner token; a later run is another process. The try number in   *)
(* which a process created the file, with its token, stands for what       *)
(* `observe` compares to tell two generations of the file apart: the inode *)
(* and its times; the body stands for the raw text and its size.           *)
(***************************************************************************)
EXTENDS Naturals

CONSTANTS
  Procs,          \* runs of the CLI that contend for one feature
  NoProc,         \* "no process": the owner of a lock an older binary left
  MaxAttempts,    \* maxAttempts of acquireFeatureWriteLease
  MaxCrashes,     \* bound: how many processes may die without cleaning up
  SlowCreate,     \* may a live creator sleep past legacyLockStaleMs?
  LeftBehind      \* bodies of a `.lock` that may exist before the first run

Bodies == {"empty", "partial", "full"}

ASSUME ProcsAssumption == NoProc \notin Procs
ASSUME AttemptsAssumption == MaxAttempts \in Nat \ {0}
ASSUME CrashesAssumption == MaxCrashes \in Nat
ASSUME SlowCreateAssumption == SlowCreate \in BOOLEAN
ASSUME LeftBehindAssumption == LeftBehind \subseteq {"empty", "partial"}

VARIABLES
  lock,       \* the `.lock` file
  pc,         \* where each process is
  attempts,   \* loop counter of acquireFeatureWriteLease
  obs,        \* the observation a process acts on
  crashes     \* processes that died so far

vars == <<lock, pc, attempts, obs, crashes>>

-----------------------------------------------------------------------------
(* The lock file *)

NoFile == [owner |-> NoProc, try |-> 0, body |-> "none", aged |-> FALSE]

\* aged: the file's mtime lies legacyLockStaleMs or more in the past.
LockFiles == [owner : Procs \cup {NoProc}, try : Nat, body : Bodies, aged : BOOLEAN]

Exists(f) == f.body # "none"

Generation(f) == [owner |-> f.owner, try |-> f.try, body |-> f.body]

SameGeneration(f, g) == Exists(f) /\ Generation(f) = Generation(g)

\* Places where a process has left the lease code for good: its pid is dead.
Exited == {"released", "timedOut", "refused", "failed", "crashed"}

PcStates == Exited \cup
  { "idle", "create", "write", "chmod", "confirm", "abandon",
    "observe", "revalidate", "fence", "unlink",
    "held", "release", "releaseFence", "releaseUnlink", "signalUnlink" }

\* Mutant: EPERM from kill(pid, 0) is read as "no such process".
PidDead_EpermIsDead(p) == p \in Procs

PidDead(p) == p \in Procs /\ pc[p] \in Exited

\* The file is the one p created in its current attempt.
Mine(p) == Exists(lock) /\ lock.owner = p /\ lock.try = attempts[p]

Holders == {p \in Procs : pc[p] = "held"}

Goto(p, label) == pc' = [pc EXCEPT ![p] = label]

\* The loop condition: another attempt, or LOCK_TIMEOUT.
Retry(p) ==
  Goto(p, IF attempts'[p] < MaxAttempts THEN "create" ELSE "timedOut")

-----------------------------------------------------------------------------
Init ==
  /\ lock \in {NoFile} \cup
       {[owner |-> NoProc, try |-> 0, body |-> b, aged |-> FALSE] : b \in LeftBehind}
  /\ pc = [p \in Procs |-> "idle"]
  /\ attempts = [p \in Procs |-> 0]
  /\ obs = [p \in Procs |-> NoFile]
  /\ crashes = 0

Start(p) ==
  /\ pc[p] = "idle"
  /\ Goto(p, "create")
  /\ UNCHANGED <<lock, attempts, obs, crashes>>

(* createLease: open "wx", write, fsync and close, chmod *)

\* Mutant: the file is opened "w", not "wx".
Open_Truncates(p) ==
  /\ pc[p] = "create"
  /\ Goto(p, "write")
  /\ lock' = [owner |-> p, try |-> attempts[p], body |-> "empty", aged |-> FALSE]
  /\ UNCHANGED <<attempts, obs, crashes>>

Open(p) ==
  /\ pc[p] = "create"
  /\ IF Exists(lock)
     THEN Goto(p, "observe") /\ UNCHANGED lock          \* EEXIST
     ELSE /\ Goto(p, "write")
          /\ lock' = [owner |-> p, try |-> attempts[p], body |-> "empty", aged |-> FALSE]
  /\ UNCHANGED <<attempts, obs, crashes>>

\* The bytes go to the inode p opened: if the name is gone, nobody sees them.
Write(p) ==
  /\ pc[p] = "write"
  /\ lock' = IF Mine(p) THEN [lock EXCEPT !.body = "full", !.aged = FALSE] ELSE lock
  /\ Goto(p, "chmod")
  /\ UNCHANGED <<attempts, obs, crashes>>

WriteFails(p) ==
  /\ pc[p] = "write"
  /\ Goto(p, "abandon")
  /\ UNCHANGED <<lock, attempts, obs, crashes>>

\* chmod goes by name: it fails when no file has that name.
Chmod(p) ==
  /\ pc[p] = "chmod"
  /\ Goto(p, IF Exists(lock) THEN "confirm" ELSE "abandon")
  /\ UNCHANGED <<lock, attempts, obs, crashes>>

\* The catch block unlinks whatever has the name, then rethrows.
Abandon(p) ==
  /\ pc[p] = "abandon"
  /\ lock' = NoFile
  /\ Goto(p, "failed")
  /\ UNCHANGED <<attempts, obs, crashes>>

Confirm(p) ==
  /\ pc[p] = "confirm"
  /\ Goto(p, IF lock.body = "full" /\ lock.owner = p THEN "held" ELSE "observe")
  /\ UNCHANGED <<lock, attempts, obs, crashes>>

(* The rest of the loop: look at whoever is there, perhaps recover *)

\* Mutant: an empty file is taken for stale whatever its age.
Observe_AnyEmptyIsStale(p) ==
  /\ pc[p] = "observe"
  /\ attempts' = [attempts EXCEPT ![p] = @ + 1]
  /\ obs' = [obs EXCEPT ![p] = lock]
  /\ \/ lock.body = "partial" /\ Goto(p, "refused")
     \/ lock.body = "full" /\ PidDead(lock.owner) /\ Goto(p, "revalidate")
     \/ lock.body = "full" /\ ~PidDead(lock.owner) /\ Retry(p)
     \/ lock.body = "empty" /\ Goto(p, "fence")
     \/ ~Exists(lock) /\ Retry(p)
  /\ UNCHANGED <<lock, crashes>>

\* Mutant: only a finished wait counts as an attempt, so none ever does.
Observe_Uncounted(p) ==
  /\ pc[p] = "observe"
  /\ UNCHANGED attempts
  /\ obs' = [obs EXCEPT ![p] = lock]
  /\ \/ lock.body = "partial" /\ Goto(p, "refused")
     \/ lock.body = "full" /\ PidDead(lock.owner) /\ Goto(p, "revalidate")
     \/ lock.body = "full" /\ ~PidDead(lock.owner) /\ Retry(p)
     \/ lock.body = "empty" /\ lock.aged /\ Goto(p, "fence")
     \/ lock.body = "empty" /\ ~lock.aged /\ Retry(p)
     \/ ~Exists(lock) /\ Retry(p)
  /\ UNCHANGED <<lock, crashes>>

Observe(p) ==
  /\ pc[p] = "observe"
  /\ attempts' = [attempts EXCEPT ![p] = @ + 1]
  /\ obs' = [obs EXCEPT ![p] = lock]
  /\ \/ lock.body = "partial" /\ Goto(p, "refused")                   \* LOCK_INVALID
     \/ lock.body = "full" /\ PidDead(lock.owner) /\ Goto(p, "revalidate")
     \/ lock.body = "full" /\ ~PidDead(lock.owner) /\ Retry(p)
     \/ lock.body = "empty" /\ lock.aged /\ Goto(p, "fence")
     \/ lock.body = "empty" /\ ~lock.aged /\ Retry(p)
     \/ ~Exists(lock) /\ Retry(p)
  /\ UNCHANGED <<lock, crashes>>

\* Mutant: the two readings are compared as objects, which never are the same.
Revalidate_NeverSame(p) ==
  /\ pc[p] = "revalidate"
  /\ UNCHANGED <<lock, attempts, obs, crashes>>
  /\ Retry(p)

Revalidate(p) ==
  /\ pc[p] = "revalidate"
  /\ UNCHANGED <<lock, attempts, obs, crashes>>
  /\ IF lock.body = "full" /\ SameGeneration(lock, obs[p]) /\ PidDead(lock.owner)
     THEN Goto(p, "fence")
     ELSE Retry(p)

\* unlinkIfUnchanged, its observation: the unlink is a call of its own.
Fence(p) ==
  /\ pc[p] = "fence"
  /\ UNCHANGED <<lock, attempts, obs, crashes>>
  /\ IF SameGeneration(lock, obs[p]) THEN Goto(p, "unlink") ELSE Retry(p)

Unlink(p) ==
  /\ pc[p] = "unlink"
  /\ lock' = NoFile
  /\ UNCHANGED <<attempts, obs, crashes>>
  /\ Retry(p)

(* release(), and the same from the SIGINT handler *)

FinishWork(p) ==
  /\ pc[p] = "held"
  /\ Goto(p, "release")
  /\ UNCHANGED <<lock, attempts, obs, crashes>>

Release(p) ==
  /\ pc[p] = "release"
  /\ IF lock.body = "full" /\ lock.owner = p
     THEN Goto(p, "releaseFence") /\ obs' = [obs EXCEPT ![p] = lock]
     ELSE Goto(p, "released") /\ UNCHANGED obs
  /\ UNCHANGED <<lock, attempts, crashes>>

ReleaseFence(p) ==
  /\ pc[p] = "releaseFence"
  /\ Goto(p, IF SameGeneration(lock, obs[p]) THEN "releaseUnlink" ELSE "released")
  /\ UNCHANGED <<lock, attempts, obs, crashes>>

\* Mutant: the file is truncated to nothing instead of unlinked.
ReleaseUnlink_Truncates(p) ==
  /\ pc[p] \in {"releaseUnlink", "signalUnlink"}
  /\ lock' = [lock EXCEPT !.body = "none"]
  /\ Goto(p, "released")
  /\ UNCHANGED <<attempts, obs, crashes>>

ReleaseUnlink(p) ==
  /\ pc[p] \in {"releaseUnlink", "signalUnlink"}
  /\ lock' = NoFile
  /\ Goto(p, "released")
  /\ UNCHANGED <<attempts, obs, crashes>>

\* activeOwners names the lease only between the confirmation and release().
Interrupt(p) ==
  /\ pc[p] = "held"
  /\ Goto(p, IF lock.body = "full" /\ lock.owner = p THEN "signalUnlink" ELSE "released")
  /\ UNCHANGED <<lock, attempts, obs, crashes>>

(* The environment *)

\* SIGKILL, power loss, a second Ctrl-C, or a first one outside "held".
Crash(p) ==
  /\ pc[p] \notin Exited \cup {"idle"}
  /\ crashes < MaxCrashes
  /\ crashes' = crashes + 1
  /\ Goto(p, "crashed")
  /\ \/ UNCHANGED lock
     \/ pc[p] = "write" /\ Mine(p) /\ lock' = [lock EXCEPT !.body = "partial"]
  /\ UNCHANGED <<attempts, obs>>

\* Time passes over a file that was created but never filled.
Age ==
  /\ lock.body = "empty"
  /\ ~lock.aged
  /\ lock.owner = NoProc \/ PidDead(lock.owner) \/ SlowCreate
  /\ lock' = [lock EXCEPT !.aged = TRUE]
  /\ UNCHANGED <<pc, attempts, obs, crashes>>

-----------------------------------------------------------------------------
Acquiring(p) ==
  \/ Open(p) \/ Write(p) \/ Chmod(p) \/ Abandon(p) \/ Confirm(p)
  \/ Observe(p) \/ Revalidate(p) \/ Fence(p) \/ Unlink(p)

Releasing(p) == Release(p) \/ ReleaseFence(p) \/ ReleaseUnlink(p)

Next ==
  \/ \E p \in Procs :
       Start(p) \/ Acquiring(p) \/ WriteFails(p) \/ FinishWork(p) \/ Releasing(p)
         \/ Interrupt(p) \/ Crash(p)
  \/ Age

\* A live process is scheduled, and time passes. Nothing obliges a command to
\* start, to finish its work while it holds the lease, an I/O call to fail, or a
\* process to be interrupted or to die.
Fairness ==
  /\ \A p \in Procs : WF_vars(Acquiring(p)) /\ WF_vars(Releasing(p))
  /\ WF_vars(Age)

Spec == Init /\ [][Next]_vars

FairSpec == Spec /\ Fairness
-----------------------------------------------------------------------------
(* Properties *)

\* Every variable has its type.
TypeOK ==
  /\ lock \in LockFiles \cup {NoFile}
  /\ pc \in [Procs -> PcStates]
  /\ attempts \in [Procs -> Nat]
  /\ obs \in [Procs -> LockFiles \cup {NoFile}]
  /\ crashes \in Nat

\* At most one command is inside withFeatureWriteLease's body at a time.
MutualExclusion == \A p, q \in Holders : p = q

\* A command that is inside its body can still read its own token in `.lock`,
\* which is what its release and the SIGINT handler look for.
HolderOwnsFile == \A p \in Holders : Mine(p) /\ lock.body = "full"

\* "live PID never stolen": while a live command keeps holding the lease, the
\* file it confirmed stays as it is.
LiveLeaseNeverStolen ==
  [][\A p \in Procs : pc[p] = "held" /\ pc'[p] = "held" /\ Mine(p) => lock' = lock]_vars

\* What the code does guarantee: a live holder's file is only ever lost to an
\* unlink whose decision was taken on another generation of the file. Reading
\* the holder's own generation never justifies removing it.
LostOnlyToStaleUnlink ==
  [][\A p \in Procs :
       pc[p] = "held" /\ pc'[p] = "held" /\ Mine(p) /\ lock' # lock
       => \E q \in Procs \ {p} :
            /\ pc[q] \in {"unlink", "releaseUnlink", "signalUnlink", "abandon"}
            /\ pc'[q] # pc[q]
            /\ ~SameGeneration(lock, obs[q])]_vars

\* "bounded wait": every acquisition ends, with the lease or with an error.
AcquisitionSettles ==
  \A p \in Procs : pc[p] = "create" ~> pc[p] \in Exited \cup {"held"}

\* A lease whose owner died does not outlive a command that is about to look
\* at it: the file is reclaimed, unless that command dies in its turn.
DeadLeaseReclaimed ==
  \A p, q \in Procs :
    (lock.body = "full" /\ lock.owner = q /\ PidDead(q) /\ pc[p] = "create")
      ~> (lock.owner # q \/ pc[p] = "crashed")

Lease == INSTANCE ExclusiveLease WITH holders <- Holders

\* The lease file implements the one-owner-at-a-time lease.
ImplementsExclusiveLease == Lease!Spec
=============================================================================
