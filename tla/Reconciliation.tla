---------------------------- MODULE Reconciliation ----------------------------
(***************************************************************************)
(* Reconciliation runs: apps/trade/src/server/reconciliationScheduler.ts   *)
(* and reconciliation.ts.  The replicas compete for a Redis lease; the     *)
(* holder claims a run by its reference, compares the books, stores the    *)
(* discrepancies as cases in one transaction, opens the blocks of each     *)
(* critical case in transactions of their own, and completes the run.      *)
(* Operators release blocks and resolve cases meanwhile.  A replica may    *)
(* fail, crash, or stall for so long that its lease and its run pass to    *)
(* another one while it still works.                                       *)
(*                                                                         *)
(* What the checks compare is left open: an attempt finds any set of       *)
(* discrepancies.  Acknowledging a case only decorates it.                 *)
(***************************************************************************)
EXTENDS Integers, FiniteSets, Functions

CONSTANTS
  Replica,
  Reference,          \* run references, scheduled or the caller's own
  User,
  Finding,            \* what an attempt may find
  Critical,           \* the findings of critical severity
  Concerns,           \* [Finding -> SUBSET User]; a trial balance concerns all
  Scopes,             \* [Finding -> SUBSET {"TRADE", "WITHDRAW"}]
  None,
  Handled,            \* bound: [user, scope] whose blocks are released singly
  MaxAttempts,        \* bound on the attempts of a run
  MaxFailures,        \* bound on errors and crashes
  MaxLapses           \* bound on leases and heartbeats a live replica loses

ASSUME FindingAssumption ==
  /\ Critical \subseteq Finding
  /\ Handled \subseteq [user: User, scope: {"TRADE", "WITHDRAW"}]
  /\ Concerns \in [Finding -> SUBSET User]
  /\ Scopes \in [Finding -> SUBSET {"TRADE", "WITHDRAW"}]
ASSUME NoneAssumption == None \notin Replica
ASSUME BoundAssumption ==
  MaxAttempts \in Nat /\ MaxFailures \in Nat /\ MaxLapses \in Nat

VARIABLES
  lease,      \* holder of the Redis key, or None
  expired,    \* replicas whose lease ran out while they worked
  worker,     \* [Replica -> its call of runReconciliation]
  run,        \* [Reference -> ReconciliationRun.status]
  stale,      \* references whose last heartbeat is older than RUN_STALE_MS
  attempts,   \* [Reference -> how often it was claimed]
  cases,      \* ReconciliationCase rows: a function to their status
  blocks,     \* ReconciliationBlock rows: a function to their status
  finished,   \* the attempts that completed their run themselves
  stalled,    \* references that went stale under a live worker
  failures, lapses

runVars == <<run, stale, attempts>>
caseVars == <<cases, blocks>>
ghosts == <<finished, stalled>>
counts == <<failures, lapses>>
vars == <<lease, expired, worker, runVars, caseVars, ghosts, counts>>

Case == [run: Reference, attempt: 1..MaxAttempts, finding: Finding]
Block == [case: Case, user: User, scope: {"TRADE", "WITHDRAW"}]
Idle == [at |-> "idle"]
Call == {Idle} \cup
  [at: {"claim", "check", "persist", "block", "failed", "return"},
   run: Reference, attempt: 0..MaxAttempts, found: SUBSET Finding,
   todo: SUBSET (Case \X User)]

Init ==
  /\ lease = None /\ expired = {}
  /\ worker = [w \in Replica |-> Idle]
  /\ run = [r \in Reference |-> "ABSENT"]
  /\ stale = {}
  /\ attempts = [r \in Reference |-> 0]
  /\ cases = <<>> /\ blocks = <<>>
  /\ finished = {} /\ stalled = {}
  /\ failures = 0 /\ lapses = 0

At(w, place) == worker[w].at = place
Goes(w, place) == worker' = [worker EXCEPT ![w].at = place]
CasesOf(r) == {c \in DOMAIN cases : c.run = r}

\* f with every element of S mapped to "value".
With(f, S, value) ==
  [x \in DOMAIN f \cup S |-> IF x \in S THEN value ELSE f[x]]

-----------------------------------------------------------------------------
(* The scheduler.                                                          *)

Begin(w, r) ==
  /\ worker[w] = Idle /\ lease = None
  /\ lease' = w
  /\ worker' = [worker EXCEPT ![w] =
       [at |-> "claim", run |-> r, attempt |-> 0, found |-> {}, todo |-> {}]]
  /\ UNCHANGED <<expired, runVars, caseVars, ghosts, counts>>

\* Defect: the key is deleted whoever holds it.
ReturnDeletesKey(w) ==
  /\ At(w, "return")
  /\ lease' = None
  /\ expired' = expired \ {w}
  /\ worker' = [worker EXCEPT ![w] = Idle]
  /\ UNCHANGED <<runVars, caseVars, ghosts, counts>>

\* RELEASE_SCRIPT deletes the key only if it still holds the caller's token.
Return(w) ==
  /\ At(w, "return")
  /\ lease' = IF lease = w THEN None ELSE lease
  /\ expired' = expired \ {w}
  /\ worker' = [worker EXCEPT ![w] = Idle]
  /\ UNCHANGED <<runVars, caseVars, ghosts, counts>>

\* Nobody renewed the key in time: its holder is gone, stalled or cut off.
LeaseExpires ==
  /\ lease # None
  /\ lease' = None
  /\ \/ worker[lease] = Idle /\ UNCHANGED <<expired, lapses>>
     \/ /\ worker[lease] # Idle /\ lapses < MaxLapses
        /\ lapses' = lapses + 1
        /\ expired' = expired \cup {lease}
  /\ UNCHANGED <<worker, runVars, caseVars, ghosts, failures>>

-----------------------------------------------------------------------------
(* claimRun, under an advisory lock on the reference.                      *)

Answered(r) == run[r] = "COMPLETED"
InProgress(r) == run[r] = "RUNNING" /\ r \notin stale

Turned(w) ==
  /\ At(w, "claim")
  /\ Answered(worker[w].run) \/ InProgress(worker[w].run)
  /\ Goes(w, "return")
  /\ UNCHANGED <<lease, expired, runVars, caseVars, ghosts, counts>>

Claimable(r) == ~ Answered(r) /\ ~ InProgress(r)

\* An earlier attempt stored its cases: the run is taken as complete.
Recover(w) ==
  LET r == worker[w].run
  IN /\ At(w, "claim") /\ Claimable(r) /\ CasesOf(r) # {}
     /\ run' = [run EXCEPT ![r] = "COMPLETED"]
     /\ stale' = stale \ {r}
     /\ Goes(w, "return")
     /\ UNCHANGED <<lease, expired, attempts, caseVars, ghosts, counts>>

\* Defect: a run in progress is reclaimed whatever its heartbeat.
MayClaimAny(r) == ~ Answered(r) /\ CasesOf(r) = {}
\* Defect: the stored cases of an earlier attempt are not looked for.
MayClaimAgain(r) == Claimable(r)
\* Defect: a run once started is never reclaimed.
MayClaimNew(r) == run[r] \in {"ABSENT", "FAILED"} /\ CasesOf(r) = {}

MayClaim(r) == Claimable(r) /\ CasesOf(r) = {}

Claim(w) ==
  LET r == worker[w].run
  IN /\ At(w, "claim") /\ MayClaim(r)
     /\ attempts[r] < MaxAttempts
     /\ run' = [run EXCEPT ![r] = "RUNNING"]
     /\ stale' = stale \ {r}
     /\ attempts' = [attempts EXCEPT ![r] = @ + 1]
     /\ worker' = [worker EXCEPT ![w].at = "check",
                                 ![w].attempt = attempts[r] + 1]
     /\ UNCHANGED <<lease, expired, caseVars, ghosts, counts>>

-----------------------------------------------------------------------------
(* runReconciliation                                                       *)

\* The three feeds, with a heartbeat after each.
Check(w) ==
  /\ At(w, "check")
  /\ \E found \in SUBSET Finding :
       worker' = [worker EXCEPT ![w].at = "persist", ![w].found = found]
  /\ stale' = stale \ {worker[w].run}
  /\ UNCHANGED <<lease, expired, run, attempts, caseVars, ghosts, counts>>

CaseFor(w, f) ==
  [run |-> worker[w].run, attempt |-> worker[w].attempt, finding |-> f]

\* Defect: only the findings about a single customer get blocks.
BlocksOneUser(f) == f \in Critical /\ Cardinality(Concerns[f]) = 1

Blocks(f) == f \in Critical

\* The cases, in one transaction; one block transaction per case and chunk
\* of users is left to do.
PersistCases(w) ==
  /\ At(w, "persist")
  /\ LET new == {CaseFor(w, f) : f \in worker[w].found}
     IN /\ cases' = With(cases, new, "unresolved")
        /\ worker' = [worker EXCEPT
             ![w].at = "block",
             ![w].todo = {p \in new \X User :
                            /\ Blocks(p[1].finding)
                            /\ p[2] \in Concerns[p[1].finding]}]
  /\ UNCHANGED <<lease, expired, runVars, blocks, ghosts, counts>>

OpenBlocks(w, p) ==
  /\ At(w, "block") /\ p \in worker[w].todo
  /\ blocks' = With(blocks,
       {[case |-> p[1], user |-> p[2], scope |-> s] :
          s \in Scopes[p[1].finding]}, "active")
  /\ worker' = [worker EXCEPT ![w].todo = @ \ {p}]
  /\ UNCHANGED <<lease, expired, runVars, cases, ghosts, counts>>

\* finalizeRun does not look at the status it replaces.
Finalize(w) ==
  LET r == worker[w].run
  IN /\ At(w, "block") /\ worker[w].todo = {}
     /\ run' = [run EXCEPT ![r] = "COMPLETED"]
     /\ stale' = stale \ {r}
     /\ finished' = finished \cup {<<r, worker[w].attempt>>}
     /\ Goes(w, "return")
     /\ UNCHANGED <<lease, expired, attempts, caseVars, stalled, counts>>

\* finalizeRun commits, but its answer is lost: the same catch is entered.
FinalizeUnacknowledged(w) ==
  LET r == worker[w].run
  IN /\ At(w, "block") /\ worker[w].todo = {}
     /\ failures < MaxFailures
     /\ failures' = failures + 1
     /\ run' = [run EXCEPT ![r] = "COMPLETED"]
     /\ stale' = stale \ {r}
     /\ finished' = finished \cup {<<r, worker[w].attempt>>}
     /\ Goes(w, "failed")
     /\ UNCHANGED <<lease, expired, attempts, caseVars, stalled, lapses>>

\* A check or a transaction throws after its retries, with no effect or with
\* that of the step before: a write whose answer was lost.
Throws(w) ==
  /\ worker[w].at \in {"check", "persist", "block"}
  /\ failures < MaxFailures
  /\ failures' = failures + 1
  /\ Goes(w, "failed")
  /\ UNCHANGED <<lease, expired, runVars, caseVars, ghosts, lapses>>

\* Defect: the failed attempt reports a status of its own.
MarkAborted(w) ==
  LET r == worker[w].run
  IN /\ At(w, "failed")
     /\ run' = [run EXCEPT ![r] = "ABORTED"]
     /\ stale' = stale \ {r}
     /\ Goes(w, "return")
     /\ UNCHANGED <<lease, expired, attempts, caseVars, ghosts, counts>>

\* The catch does not look at the status it replaces either.
MarkFailed(w) ==
  LET r == worker[w].run
  IN /\ At(w, "failed")
     /\ run' = [run EXCEPT ![r] = "FAILED"]
     /\ stale' = stale \ {r}
     /\ Goes(w, "return")
     /\ UNCHANGED <<lease, expired, attempts, caseVars, ghosts, counts>>

\* The process dies; its Redis key and its RUNNING row stay behind.  A write
\* outside the try that throws, of the claim or in the catch, leaves the same
\* row and frees the key at once, as an expiry after the crash does.
Crash(w) ==
  /\ worker[w] # Idle
  /\ failures < MaxFailures
  /\ failures' = failures + 1
  /\ worker' = [worker EXCEPT ![w] = Idle]
  /\ expired' = expired \ {w}
  /\ UNCHANGED <<lease, runVars, caseVars, ghosts, lapses>>

Owned(r) ==
  \E w \in Replica : /\ worker[w] # Idle
                     /\ worker[w].run = r
                     /\ worker[w].at \notin {"claim", "return"}

\* RUN_STALE_MS pass without a heartbeat.
RunAges(r) ==
  /\ run[r] = "RUNNING" /\ r \notin stale
  /\ stale' = stale \cup {r}
  /\ \/ ~ Owned(r) /\ UNCHANGED <<stalled, lapses>>
     \/ /\ Owned(r) /\ lapses < MaxLapses
        /\ lapses' = lapses + 1
        /\ stalled' = stalled \cup {r}
  /\ UNCHANGED <<lease, expired, worker, run, attempts, caseVars, finished,
                 failures>>

-----------------------------------------------------------------------------
(* Operators.                                                              *)

ActiveBlocks == {b \in DOMAIN blocks : blocks[b] = "active"}

ReleaseBlock(b) ==
  /\ [user |-> b.user, scope |-> b.scope] \in Handled
  /\ blocks' = With(blocks, {b}, "released")
  /\ UNCHANGED <<lease, expired, worker, runVars, cases, ghosts, counts>>

ResolveCase(c) ==
  /\ cases[c] = "unresolved"
  /\ \A b \in ActiveBlocks : b.case # c
  /\ cases' = With(cases, {c}, "resolved")
  /\ UNCHANGED <<lease, expired, worker, runVars, blocks, ghosts, counts>>

BulkResolveAll ==
  /\ blocks' = With(blocks, DOMAIN blocks, "released")
  /\ cases' = With(cases, DOMAIN cases, "resolved")
  /\ UNCHANGED <<lease, expired, worker, runVars, ghosts, counts>>

-----------------------------------------------------------------------------

Step(w) ==
  \/ Turned(w) \/ Recover(w) \/ Claim(w) \/ Check(w) \/ PersistCases(w)
  \/ \E p \in worker[w].todo : OpenBlocks(w, p)
  \/ Finalize(w) \/ MarkFailed(w) \/ Return(w)

Next ==
  \/ \E w \in Replica : \/ \E r \in Reference : Begin(w, r)
                        \/ worker[w] # Idle /\ Step(w)
                        \/ FinalizeUnacknowledged(w)
                        \/ Throws(w) \/ Crash(w)
  \/ LeaseExpires
  \/ \E r \in Reference : RunAges(r)
  \/ \E b \in ActiveBlocks : ReleaseBlock(b)
  \/ \E c \in DOMAIN cases : ResolveCase(c)
  \/ BulkResolveAll

Spec == Init /\ [][Next]_vars

\* A call runs to its end, what a dead replica left behind expires, and a run
\* that is not complete is requested again.
FairSpec ==
  /\ Spec
  /\ \A w \in Replica : WF_vars(worker[w] # Idle /\ Step(w))
  /\ WF_vars(LeaseExpires)
  /\ \A r \in Reference :
       /\ WF_vars(RunAges(r))
       /\ SF_vars(run[r] # "COMPLETED" /\ \E w \in Replica : Begin(w, r))

-----------------------------------------------------------------------------

TypeOK ==
  /\ lease \in Replica \cup {None} /\ expired \subseteq Replica
  /\ worker \in [Replica -> Call]
  /\ run \in [Reference -> {"ABSENT", "RUNNING", "COMPLETED", "FAILED"}]
  /\ stale \subseteq Reference
  /\ attempts \in [Reference -> 0..MaxAttempts]
  /\ DOMAIN cases \subseteq Case
  /\ \A c \in DOMAIN cases : cases[c] \in {"unresolved", "resolved"}
  /\ DOMAIN blocks \subseteq Block
  /\ \A b \in DOMAIN blocks : blocks[b] \in {"active", "released"}
  /\ finished \subseteq Reference \X (1..MaxAttempts)
  /\ stalled \subseteq Reference
  /\ failures \in 0..MaxFailures /\ lapses \in 0..MaxLapses

(***************************************************************************)
(* A replica loses its lease by expiry only, never by the late end of a    *)
(* call that had lost its own: so two replicas work at the same time only  *)
(* if one of them was too slow to renew.                                   *)
(***************************************************************************)
LeaseIsExclusive ==
  \A w \in Replica : worker[w] # Idle /\ w \notin expired => lease = w

(***************************************************************************)
(* A reference is replay-safe: however often it is requested, after        *)
(* failures, crashes and a lost lease, its run stores a discrepancy once,  *)
(* as long as no live worker stalled beyond RUN_STALE_MS.                  *)
(***************************************************************************)
NoDuplicateCases ==
  \A c, d \in DOMAIN cases :
    /\ c.run = d.run /\ c.run \notin stalled
    /\ c.finding = d.finding
    => c = d

\* w completed run r and did not hear so: it is about to mark it as failed.
Misheard(w, r) ==
  /\ At(w, "failed") /\ worker[w].run = r
  /\ <<r, worker[w].attempt>> \in finished

(***************************************************************************)
(* Under the same condition a completed run stays completed: no older      *)
(* attempt is left that could mark it as failed, and nobody claims it.     *)
(* There is one exception, and it is the code's: the attempt that          *)
(* completed the run, if the answer to that write was lost, marks it as    *)
(* failed itself.                                                          *)
(***************************************************************************)
CompletedIsFinal ==
  [][ \A r \in Reference :
        run[r] = "COMPLETED" /\ r \notin stalled =>
          \/ run'[r] = "COMPLETED"
          \/ run'[r] = "FAILED" /\ \E w \in Replica : Misheard(w, r)
    ]_vars

BlocksWanted(c) ==
  IF c.finding \in Critical
  THEN {[case |-> c, user |-> u, scope |-> s] :
          u \in Concerns[c.finding], s \in Scopes[c.finding]}
  ELSE {}

(***************************************************************************)
(* An attempt that completes its run has opened every block its critical   *)
(* cases call for, for every user and scope, however operators and other   *)
(* attempts interfered.                                                    *)
(***************************************************************************)
FinishedAttemptsBlocked ==
  \A c \in DOMAIN cases :
    <<c.run, c.attempt>> \in finished => BlocksWanted(c) \subseteq DOMAIN blocks

(***************************************************************************)
(* A run that keeps being requested is completed in the end: no crash or   *)
(* error leaves a lease or a RUNNING row that blocks it for ever.          *)
(***************************************************************************)
RunsComplete == \A r \in Reference : <>(run[r] = "COMPLETED")

(***************************************************************************)
(* claimRun takes a run with cases as complete because "cases and blocks   *)
(* are persisted atomically": the critical cases of a completed run have   *)
(* had their blocks.                                                       *)
(***************************************************************************)
CompletedRunsBlocked ==
  \A c \in DOMAIN cases :
    run[c.run] = "COMPLETED" /\ c.run \notin stalled
      => BlocksWanted(c) \subseteq DOMAIN blocks

(***************************************************************************)
(* The invariant that resolveCase states in its error message, "release    *)
(* every active block linked to this case before resolving it", and that   *)
(* bulkResolveAll says it preserves "by construction".                     *)
(***************************************************************************)
ResolvedCasesHaveNoBlock ==
  \A b \in ActiveBlocks : cases[b.case] # "resolved"
=============================================================================
