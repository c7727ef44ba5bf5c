------------------------ MODULE Reconciliation_proofs ------------------------
(***************************************************************************)
(* Proofs about reconciliation runs, for any replicas, references, users   *)
(* and findings, and any number of attempts, failures and lapses.          *)
(***************************************************************************)
EXTENDS Reconciliation, TLAPS

-----------------------------------------------------------------------------
(* The records of the workers.                                             *)

Busy(w) == worker[w] # Idle

\* A worker in the middle of a call is not idle, and its fields have types.
LEMMA CallFields ==
  ASSUME TypeOK, NEW w \in Replica, Busy(w)
  PROVE  /\ worker[w].at \in {"claim", "check", "persist", "block", "failed",
                              "return"}
         /\ worker[w].run \in Reference
         /\ worker[w].attempt \in 0..MaxAttempts
         /\ worker[w].found \subseteq Finding
         /\ worker[w].todo \subseteq Case \X User
  BY DEF TypeOK, Call, Busy

LEMMA NotIdle ==
  ASSUME NEW w \in Replica, worker[w].at # "idle"
  PROVE  Busy(w)
  BY DEF Busy, Idle

\* A call goes to another place and keeps what it knows.
LEMMA GoesType ==
  ASSUME TypeOK, NEW w \in Replica, Busy(w),
         NEW place \in {"claim", "check", "persist", "block", "failed",
                        "return"},
         Goes(w, place)
  PROVE  /\ worker' \in [Replica -> Call]
         /\ worker'[w] \in Call /\ worker'[w] # Idle
         /\ worker'[w].at = place
         /\ worker'[w].run = worker[w].run
         /\ worker'[w].attempt = worker[w].attempt
         /\ worker'[w].todo = worker[w].todo
         /\ \A v \in Replica \ {w} : worker'[v] = worker[v]
<1>1. worker[w] \in Call /\ worker[w] # Idle
  BY DEF TypeOK, Busy
<1>2. [worker[w] EXCEPT !.at = place] \in Call
  BY <1>1 DEF Call
<1>3. worker'[w] = [worker[w] EXCEPT !.at = place]
  BY DEF Goes, TypeOK
<1>4. /\ worker'[w].at = place /\ worker'[w].run = worker[w].run
      /\ worker'[w].attempt = worker[w].attempt
      /\ worker'[w].todo = worker[w].todo
  BY <1>1, <1>3 DEF Call
<1>5. worker'[w] # Idle
  BY <1>4 DEF Idle
<1>6. \A v \in Replica \ {w} : worker'[v] = worker[v]
  BY DEF Goes, TypeOK
<1>7. worker' = [worker EXCEPT ![w] = [worker[w] EXCEPT !.at = place]]
  BY DEF Goes
<1> QED
  BY <1>1, <1>2, <1>3, <1>4, <1>5, <1>6, <1>7 DEF TypeOK

-----------------------------------------------------------------------------
(* A replica loses its lease by expiry only.                               *)

\* A step that keeps the lease, and makes nobody busy who was not.
LEMMA LeaseKept ==
  ASSUME LeaseIsExclusive, lease' = lease,
         \A v \in Replica : worker'[v] # Idle /\ v \notin expired'
           => worker[v] # Idle /\ v \notin expired
  PROVE  LeaseIsExclusive'
  BY DEF LeaseIsExclusive

LEMMA StepKeepsLease ==
  ASSUME TypeOK, LeaseIsExclusive, Next
  PROVE  LeaseIsExclusive'
<1>1. ASSUME NEW w \in Replica, NEW r \in Reference, Begin(w, r)
      PROVE  LeaseIsExclusive'
  BY <1>1, NoneAssumption DEF Begin, LeaseIsExclusive, TypeOK
<1>2. ASSUME NEW w \in Replica, Busy(w), Step(w) PROVE LeaseIsExclusive'
  <2>1. CASE Return(w)
    BY <1>2, <2>1 DEF Return, LeaseIsExclusive, TypeOK, Busy
  <2>2. CASE ~ Return(w)
    <3>1. /\ lease' = lease /\ expired' = expired
          /\ \A v \in Replica \ {w} : worker'[v] = worker[v]
      BY <1>2, <2>2 DEF Step, Turned, Recover, Claim, Check, PersistCases,
                        OpenBlocks, Finalize, MarkFailed, Goes, TypeOK
    <3> QED
      BY <1>2, <3>1, LeaseKept DEF Busy
  <2> QED
    BY <2>1, <2>2
<1>3. ASSUME NEW w \in Replica, FinalizeUnacknowledged(w) \/ Throws(w)
      PROVE  LeaseIsExclusive'
  <2>1. /\ lease' = lease /\ expired' = expired /\ Busy(w)
        /\ \A v \in Replica \ {w} : worker'[v] = worker[v]
    BY <1>3, NotIdle DEF FinalizeUnacknowledged, Throws, At, Goes, TypeOK
  <2> QED
    BY <2>1, LeaseKept DEF Busy
<1>4. ASSUME NEW w \in Replica, Crash(w) PROVE LeaseIsExclusive'
  BY <1>4 DEF Crash, LeaseIsExclusive, TypeOK
<1>5. CASE LeaseExpires
  BY <1>5 DEF LeaseExpires, LeaseIsExclusive, TypeOK
<1>6. ASSUME NEW r \in Reference, RunAges(r) PROVE LeaseIsExclusive'
  BY <1>6, LeaseKept DEF RunAges
<1>7. CASE \/ \E b \in ActiveBlocks : ReleaseBlock(b)
           \/ \E c \in DOMAIN cases : ResolveCase(c)
           \/ BulkResolveAll
  BY <1>7, LeaseKept DEF ReleaseBlock, ResolveCase, BulkResolveAll
<1> QED
  BY <1>1, <1>2, <1>3, <1>4, <1>5, <1>6, <1>7 DEF Next, Busy

-----------------------------------------------------------------------------
(* The inductive invariant.  A worker owns its run from the claim to the   *)
(* last write; attempts are numbered, so it never shares a number, and     *)
(* while no heartbeat lapsed it does not share the run either.             *)

Owns(w) == worker[w] # Idle /\ worker[w].at \notin {"claim", "return"}
Mark(w) == <<worker[w].run, worker[w].attempt>>
Origin(c) == <<c.run, c.attempt>>

Numbered ==
  /\ \A w \in Replica : Owns(w) =>
       worker[w].attempt \in 1..attempts[worker[w].run]
  /\ \A c \in DOMAIN cases : c.attempt \in 1..attempts[c.run]
  /\ \A m \in finished : m[2] \in 1..attempts[m[1]]

OwnAttempt ==
  \A v, w \in Replica : Owns(v) /\ Owns(w) /\ Mark(v) = Mark(w) => v = w

Unfinished ==
  \A w \in Replica : Owns(w) /\ worker[w].at # "failed" =>
    Mark(w) \notin finished

NothingStored ==
  \A w \in Replica : worker[w].at \in {"check", "persist"} =>
    \A c \in DOMAIN cases : Origin(c) # Mark(w)

BlocksPending ==
  \A w \in Replica : worker[w].at = "block" =>
    \A c \in DOMAIN cases : Origin(c) = Mark(w) =>
      \A b \in BlocksWanted(c) :
        b \in DOMAIN blocks \/ <<b.case, b.user>> \in worker[w].todo

\* The run of w is not to be claimed: it is in progress, or it was completed
\* by w, which did not hear so.
Taken(w) ==
  \/ run[worker[w].run] = "RUNNING" /\ worker[w].run \notin stale
  \/ /\ run[worker[w].run] = "COMPLETED"
     /\ worker[w].at = "failed" /\ Mark(w) \in finished

Sole ==
  \A w \in Replica : Owns(w) /\ worker[w].run \notin stalled =>
    /\ Taken(w)
    /\ \A v \in Replica : Owns(v) /\ worker[v].run = worker[w].run => v = w
    /\ worker[w].at \in {"check", "persist"} =>
         \A c \in DOMAIN cases : c.run # worker[w].run

OneAttempt ==
  \A c, d \in DOMAIN cases :
    c.run = d.run /\ c.run \notin stalled => c.attempt = d.attempt

IInv ==
  /\ TypeOK /\ LeaseIsExclusive /\ Numbered /\ OwnAttempt /\ Unfinished
  /\ NothingStored /\ BlocksPending /\ FinishedAttemptsBlocked
  /\ Sole /\ OneAttempt

-----------------------------------------------------------------------------
(* Types.                                                                  *)

LEMMA WithAdds ==
  ASSUME NEW f, NEW S, NEW value
  PROVE  /\ DOMAIN With(f, S, value) = DOMAIN f \cup S
         /\ \A x \in S : With(f, S, value)[x] = value
         /\ \A x \in DOMAIN f \ S : With(f, S, value)[x] = f[x]
  BY DEF With

LEMMA CasesTyped ==
  ASSUME TypeOK, NEW S \in SUBSET Case, NEW value \in {"unresolved", "resolved"},
         cases' = With(cases, S, value)
  PROVE  /\ DOMAIN cases' \subseteq Case
         /\ \A c \in DOMAIN cases' : cases'[c] \in {"unresolved", "resolved"}
<1>1. /\ DOMAIN cases \subseteq Case
      /\ \A c \in DOMAIN cases : cases[c] \in {"unresolved", "resolved"}
  BY DEF TypeOK
<1> QED
  BY <1>1 DEF With

LEMMA BlocksTyped ==
  ASSUME TypeOK, NEW S \in SUBSET Block, NEW value \in {"active", "released"},
         blocks' = With(blocks, S, value)
  PROVE  /\ DOMAIN blocks' \subseteq Block
         /\ \A b \in DOMAIN blocks' : blocks'[b] \in {"active", "released"}
<1>1. /\ DOMAIN blocks \subseteq Block
      /\ \A b \in DOMAIN blocks : blocks[b] \in {"active", "released"}
  BY DEF TypeOK
<1> QED
  BY <1>1 DEF With

BusyCall ==
  [at: {"claim", "check", "persist", "block", "failed", "return"},
   run: Reference, attempt: 0..MaxAttempts, found: SUBSET Finding,
   todo: SUBSET (Case \X User)]

LEMMA CallIsBusy ==
  ASSUME TypeOK, NEW w \in Replica, Busy(w)
  PROVE  worker[w] \in BusyCall /\ BusyCall \subseteq Call
  BY DEF TypeOK, Call, Busy, BusyCall

LEMMA MoveKeepsTypes ==
  ASSUME TypeOK, NEW w \in Replica, NEW call \in Call,
         worker' = [worker EXCEPT ![w] = call]
  PROVE  worker' \in [Replica -> Call]
  BY DEF TypeOK

\* A worker's step that writes neither cases nor blocks.
LEMMA CallKeepsTypes ==
  ASSUME TypeOK, Numbered, NEW w \in Replica, Busy(w),
         \/ Turned(w) \/ Recover(w) \/ Claim(w) \/ Check(w)
         \/ Finalize(w) \/ MarkFailed(w) \/ Return(w)
  PROVE  TypeOK'
<1> USE BoundAssumption
<1>0. Idle \in Call
  BY DEF Call
<1>1. CASE Turned(w)
  <2>1. worker' \in [Replica -> Call]
    BY <1>1, GoesType DEF Turned
  <2> QED
    BY <1>1, <2>1 DEF Turned, TypeOK, runVars, caseVars, ghosts, counts
<1>2. CASE Recover(w)
  <2>1. worker' \in [Replica -> Call]
    BY <1>2, GoesType DEF Recover
  <2> QED
    BY <1>2, <2>1 DEF Recover, TypeOK, caseVars, ghosts, counts
<1>3. CASE Claim(w)
  <2> DEFINE r == worker[w].run
             call == [worker[w] EXCEPT !.at = "check",
                                       !.attempt = attempts[r] + 1]
  <2>1. r \in Reference /\ attempts[r] + 1 \in 0..MaxAttempts
    BY <1>3, CallFields DEF Claim, TypeOK
  <2>2. call \in Call
    <3>1. call \in BusyCall
      BY <2>1, CallIsBusy DEF BusyCall
    <3> QED
      BY <3>1, CallIsBusy
  <2>3. worker' = [worker EXCEPT ![w] = call]
    BY <1>3 DEF Claim
  <2>4. worker' \in [Replica -> Call]
    BY <2>2, <2>3, MoveKeepsTypes
  <2>5. attempts' \in [Reference -> 0..MaxAttempts]
    BY <1>3, <2>1 DEF Claim, TypeOK
  <2> QED
    BY <1>3, <2>4, <2>5 DEF Claim, TypeOK, caseVars, ghosts, counts
<1>4. CASE Check(w)
  <2>1. PICK found \in SUBSET Finding :
          worker' = [worker EXCEPT ![w].at = "persist", ![w].found = found]
    BY <1>4 DEF Check
  <2> DEFINE call == [worker[w] EXCEPT !.at = "persist", !.found = found]
  <2>2. call \in Call
    <3>1. call \in BusyCall
      BY CallIsBusy DEF BusyCall
    <3> QED
      BY <3>1, CallIsBusy
  <2>3. worker' = [worker EXCEPT ![w] = call]
    BY <2>1
  <2>4. worker' \in [Replica -> Call]
    BY <2>2, <2>3, MoveKeepsTypes
  <2> QED
    BY <1>4, <2>4 DEF Check, TypeOK, caseVars, ghosts, counts
<1>5. CASE Finalize(w)
  <2>1. worker' \in [Replica -> Call]
    BY <1>5, GoesType DEF Finalize
  <2>2. Owns(w)
    BY <1>5 DEF Finalize, At, Owns, Busy
  <2>3. Mark(w) \in Reference \X (1..MaxAttempts)
    BY <2>2, CallFields DEF Mark, Numbered, TypeOK
  <2>4. finished' \subseteq Reference \X (1..MaxAttempts)
    BY <1>5, <2>3 DEF Finalize, Mark, TypeOK
  <2> QED
    BY <1>5, <2>1, <2>4 DEF Finalize, TypeOK, caseVars, counts
<1>6. CASE MarkFailed(w)
  <2>1. worker' \in [Replica -> Call]
    BY <1>6, GoesType DEF MarkFailed
  <2> QED
    BY <1>6, <2>1 DEF MarkFailed, TypeOK, caseVars, ghosts, counts
<1>7. CASE Return(w)
  <2>1. worker' \in [Replica -> Call]
    BY <1>7, <1>0, MoveKeepsTypes DEF Return
  <2> QED
    BY <1>7, <2>1 DEF Return, TypeOK, runVars, caseVars, ghosts, counts
<1> QED
  BY <1>1, <1>2, <1>3, <1>4, <1>5, <1>6, <1>7

\* The two steps of a worker that write cases or blocks.
LEMMA WriteKeepsTypes ==
  ASSUME TypeOK, Numbered, NEW w \in Replica, Busy(w),
         \/ PersistCases(w)
         \/ \E p \in worker[w].todo : OpenBlocks(w, p)
  PROVE  TypeOK'
<1>1. CASE PersistCases(w)
  <2> DEFINE new == {CaseFor(w, f) : f \in worker[w].found}
             todo == {p \in new \X User :
                            /\ Blocks(p[1].finding)
                            /\ p[2] \in Concerns[p[1].finding]}
             call == [worker[w] EXCEPT !.at = "block", !.todo = todo]
  <2>1. Owns(w)
    BY <1>1 DEF PersistCases, At, Owns, Busy
  <2>2. worker[w].run \in Reference /\ worker[w].attempt \in 1..MaxAttempts
    BY <2>1, CallFields, BoundAssumption DEF Numbered, TypeOK
  <2>3. new \subseteq Case
    BY <2>2, CallFields DEF Case, CaseFor
  <2>4. todo \subseteq Case \X User
    BY <2>3
  <2>5. call \in Call
    <3> HIDE DEF todo
    <3>1. call \in BusyCall
      BY <2>4, CallIsBusy DEF BusyCall
    <3> QED
      BY <3>1, CallIsBusy
  <2>6. worker' = [worker EXCEPT ![w] = call]
    BY <1>1 DEF PersistCases
  <2>7. worker' \in [Replica -> Call]
    BY <2>5, <2>6, MoveKeepsTypes
  <2>8. cases' = With(cases, new, "unresolved")
    BY <1>1 DEF PersistCases
  <2>9. /\ DOMAIN cases' \subseteq Case
        /\ \A c \in DOMAIN cases' : cases'[c] \in {"unresolved", "resolved"}
    <3> HIDE DEF new
    <3> QED
      BY <2>3, <2>8, CasesTyped
  <2> QED
    BY <1>1, <2>7, <2>9 DEF PersistCases, TypeOK, runVars, ghosts, counts
<1>2. ASSUME NEW p \in worker[w].todo, OpenBlocks(w, p) PROVE TypeOK'
  <2> DEFINE opened == {[case |-> p[1], user |-> p[2], scope |-> s] :
                          s \in Scopes[p[1].finding]}
             call == [worker[w] EXCEPT !.todo = @ \ {p}]
  <2>1. p[1] \in Case /\ p[2] \in User
    BY <1>2, CallFields
  <2>2. Scopes[p[1].finding] \subseteq {"TRADE", "WITHDRAW"}
    BY <2>1, FindingAssumption DEF Case
  <2>3. opened \subseteq Block
    BY <2>1, <2>2 DEF Block
  <2>4. blocks' = With(blocks, opened, "active")
    BY <1>2 DEF OpenBlocks
  <2>5. /\ DOMAIN blocks' \subseteq Block
        /\ \A b \in DOMAIN blocks' : blocks'[b] \in {"active", "released"}
    <3> HIDE DEF opened
    <3> QED
      BY <2>3, <2>4, BlocksTyped
  <2>6. call \in Call
    <3>1. call \in BusyCall
      BY CallIsBusy DEF BusyCall
    <3> QED
      BY <3>1, CallIsBusy
  <2>7. worker' = [worker EXCEPT ![w] = call]
    BY <1>2 DEF OpenBlocks
  <2>8. worker' \in [Replica -> Call]
    BY <2>6, <2>7, MoveKeepsTypes
  <2> QED
    BY <1>2, <2>5, <2>8 DEF OpenBlocks, TypeOK, runVars, ghosts, counts
<1> QED
  BY <1>1, <1>2

LEMMA StepKeepsTypes ==
  ASSUME TypeOK, Numbered, Next
  PROVE  TypeOK'
<1> USE BoundAssumption
<1>1. ASSUME NEW w \in Replica, NEW r \in Reference, Begin(w, r)
      PROVE  TypeOK'
  <2> DEFINE call == [at |-> "claim", run |-> r, attempt |-> 0,
                      found |-> {}, todo |-> {}]
  <2>1. call \in Call
    BY DEF Call
  <2>2. worker' \in [Replica -> Call]
    BY <1>1, <2>1, MoveKeepsTypes DEF Begin
  <2> QED
    BY <1>1, <2>2 DEF Begin, TypeOK, runVars, caseVars, ghosts, counts
<1>2. ASSUME NEW w \in Replica, Busy(w), Step(w) PROVE TypeOK'
  BY <1>2, CallKeepsTypes, WriteKeepsTypes DEF Step
<1>10. ASSUME NEW w \in Replica, FinalizeUnacknowledged(w) PROVE TypeOK'
  <2>1. Owns(w) /\ Busy(w)
    BY <1>10 DEF FinalizeUnacknowledged, At, Owns, Busy, Idle
  <2>2. worker' \in [Replica -> Call]
    BY <1>10, <2>1, GoesType DEF FinalizeUnacknowledged
  <2>3. Mark(w) \in Reference \X (1..MaxAttempts)
    BY <2>1, CallFields DEF Mark, Numbered, TypeOK
  <2>4. finished' \subseteq Reference \X (1..MaxAttempts)
    BY <1>10, <2>3 DEF FinalizeUnacknowledged, Mark, TypeOK
  <2>5. failures' \in 0..MaxFailures
    BY <1>10 DEF FinalizeUnacknowledged, TypeOK
  <2>6. /\ run' \in [Reference -> {"ABSENT", "RUNNING", "COMPLETED", "FAILED"}]
        /\ stale' \subseteq Reference
    BY <1>10 DEF FinalizeUnacknowledged, TypeOK
  <2>7. UNCHANGED <<lease, expired, attempts, cases, blocks, stalled, lapses>>
    BY <1>10 DEF FinalizeUnacknowledged, caseVars
  <2> QED
    BY <2>2, <2>4, <2>5, <2>6, <2>7 DEF TypeOK
<1>3. ASSUME NEW w \in Replica, Throws(w) PROVE TypeOK'
  <2>1. Busy(w)
    BY <1>3, NotIdle DEF Throws
  <2>2. worker' \in [Replica -> Call]
    BY <1>3, <2>1, GoesType DEF Throws
  <2> QED
    BY <1>3, <2>2 DEF Throws, TypeOK, runVars, caseVars, ghosts
<1>4. ASSUME NEW w \in Replica, Crash(w) PROVE TypeOK'
  <2>1. worker' \in [Replica -> Call]
    BY <1>4, MoveKeepsTypes DEF Crash, Call
  <2> QED
    BY <1>4, <2>1 DEF Crash, TypeOK, runVars, caseVars, ghosts
<1>5. CASE LeaseExpires
  BY <1>5 DEF LeaseExpires, TypeOK, runVars, caseVars, ghosts
<1>6. ASSUME NEW r \in Reference, RunAges(r) PROVE TypeOK'
  BY <1>6 DEF RunAges, TypeOK, caseVars
<1>7. ASSUME NEW b \in ActiveBlocks, ReleaseBlock(b) PROVE TypeOK'
  <2>1. /\ DOMAIN blocks' \subseteq Block
        /\ \A d \in DOMAIN blocks' : blocks'[d] \in {"active", "released"}
    <3>1. {b} \in SUBSET Block /\ blocks' = With(blocks, {b}, "released")
      BY <1>7 DEF ReleaseBlock, ActiveBlocks, TypeOK
    <3> QED
      BY <3>1, BlocksTyped
  <2> QED
    BY <1>7, <2>1 DEF ReleaseBlock, TypeOK, runVars, ghosts, counts
<1>8. ASSUME NEW c \in DOMAIN cases, ResolveCase(c) PROVE TypeOK'
  <2>1. /\ DOMAIN cases' \subseteq Case
        /\ \A d \in DOMAIN cases' : cases'[d] \in {"unresolved", "resolved"}
    <3>1. {c} \in SUBSET Case /\ cases' = With(cases, {c}, "resolved")
      BY <1>8 DEF ResolveCase, TypeOK
    <3> QED
      BY <3>1, CasesTyped
  <2> QED
    BY <1>8, <2>1 DEF ResolveCase, TypeOK, runVars, ghosts, counts
<1>9. CASE BulkResolveAll
  <2>1. /\ DOMAIN cases' \subseteq Case
        /\ \A d \in DOMAIN cases' : cases'[d] \in {"unresolved", "resolved"}
    BY <1>9, CasesTyped DEF BulkResolveAll, TypeOK
  <2>2. /\ DOMAIN blocks' \subseteq Block
        /\ \A d \in DOMAIN blocks' : blocks'[d] \in {"active", "released"}
    BY <1>9, BlocksTyped DEF BulkResolveAll, TypeOK
  <2> QED
    BY <1>9, <2>1, <2>2 DEF BulkResolveAll, TypeOK, runVars, ghosts, counts
<1> QED
  BY <1>1, <1>2, <1>3, <1>4, <1>5, <1>6, <1>7, <1>8, <1>9, <1>10
     DEF Next, Busy

-----------------------------------------------------------------------------
(* Quiet steps: nobody takes over a run, and no case is written.           *)

Opened(p) ==
  {[case |-> p[1], user |-> p[2], scope |-> s] : s \in Scopes[p[1].finding]}

Follows(v) ==
  /\ Owns(v)' => /\ Owns(v)
                 /\ worker'[v].run = worker[v].run
                 /\ worker'[v].attempt = worker[v].attempt
                 /\ worker[v].at = "failed" => worker'[v].at = "failed"
  /\ worker'[v].at \in {"check", "persist"} =>
       worker[v].at \in {"check", "persist"}
  /\ worker'[v].at = "block" =>
       /\ worker[v].at = "block"
       /\ \A p \in worker[v].todo \ worker'[v].todo :
            Opened(p) \subseteq DOMAIN blocks'

Quiet ==
  /\ attempts' = attempts /\ finished' = finished
  /\ DOMAIN cases' = DOMAIN cases
  /\ DOMAIN blocks \subseteq DOMAIN blocks'
  /\ stalled \subseteq stalled'
  /\ \A v \in Replica : Follows(v)

Rest ==
  /\ Numbered /\ OwnAttempt /\ Unfinished /\ NothingStored
  /\ BlocksPending /\ FinishedAttemptsBlocked /\ Sole /\ OneAttempt

\* A worker that has a place owns its run.
LEMMA PlaceOwns ==
  ASSUME NEW w \in Replica,
         worker[w].at \in {"check", "persist", "block", "failed"}
  PROVE  Owns(w)
  BY DEF Owns, Idle

LEMMA PlaceOwnsNext ==
  ASSUME NEW w \in Replica,
         worker'[w].at \in {"check", "persist", "block", "failed"}
  PROVE  Owns(w)'
  BY DEF Owns, Idle

LEMMA QuietKeepsRest ==
  ASSUME TypeOK, Rest, Quiet,
         \A v \in Replica : Owns(v)' /\ worker[v].run \notin stalled' =>
           /\ run'[worker[v].run] = run[worker[v].run]
           /\ worker[v].run \notin stale' \/ worker[v].run \in stale
  PROVE  Rest'
<1>1. Numbered'
  BY DEF Rest, Quiet, Follows, Numbered
<1>2. OwnAttempt'
  BY DEF Rest, Quiet, Follows, OwnAttempt, Mark
<1>3. Unfinished'
  BY DEF Rest, Quiet, Follows, Unfinished, Mark
<1>4. NothingStored'
  BY PlaceOwnsNext DEF Rest, Quiet, Follows, NothingStored, Mark, Origin
<1>5. BlocksPending'
  <2> SUFFICES ASSUME NEW w \in Replica, worker'[w].at = "block",
                      NEW c \in DOMAIN cases', Origin(c) = Mark(w)',
                      NEW b \in BlocksWanted(c)
               PROVE  \/ b \in DOMAIN blocks'
                      \/ <<b.case, b.user>> \in worker'[w].todo
    BY DEF BlocksPending
  <2>1. Follows(w) /\ Owns(w)' /\ c \in DOMAIN cases
    BY PlaceOwnsNext DEF Quiet
  <2>2. worker[w].at = "block" /\ Origin(c) = Mark(w)
    BY <2>1 DEF Follows, Mark
  <2>3. b \in DOMAIN blocks \/ <<b.case, b.user>> \in worker[w].todo
    BY <2>1, <2>2 DEF Rest, BlocksPending
  <2>4. b \in Opened(<<b.case, b.user>>)
    BY DEF BlocksWanted, Opened
  <2> QED
    BY <2>1, <2>3, <2>4 DEF Follows, Quiet
<1>6. FinishedAttemptsBlocked'
  BY DEF Rest, Quiet, FinishedAttemptsBlocked, BlocksWanted
<1>7. Sole'
  <2> SUFFICES ASSUME NEW w \in Replica, Owns(w)', worker'[w].run \notin stalled'
               PROVE  /\ Taken(w)'
                      /\ \A v \in Replica :
                           Owns(v)' /\ worker'[v].run = worker'[w].run => v = w
                      /\ worker'[w].at \in {"check", "persist"} =>
                           \A c \in DOMAIN cases' : c.run # worker'[w].run
    BY DEF Sole
  <2>1. /\ Owns(w) /\ worker'[w].run = worker[w].run
        /\ worker[w].run \notin stalled
    BY DEF Quiet, Follows
  <2>2. \A v \in Replica : Owns(v)' => Owns(v) /\ worker'[v].run = worker[v].run
    BY DEF Quiet, Follows
  <2>3. \A v \in Replica : Owns(v)' /\ worker'[v].run = worker'[w].run => v = w
    BY <2>1, <2>2 DEF Rest, Sole
  <2>4. ASSUME worker'[w].at \in {"check", "persist"}
        PROVE  \A c \in DOMAIN cases' : c.run # worker'[w].run
    BY <2>1, <2>4 DEF Rest, Sole, Quiet, Follows
  <2>5. Taken(w)
    BY <2>1 DEF Rest, Sole
  <2>6. /\ worker'[w].attempt = worker[w].attempt
        /\ worker[w].at = "failed" => worker'[w].at = "failed"
        /\ finished' = finished
    BY DEF Quiet, Follows
  <2>7. /\ run'[worker[w].run] = run[worker[w].run]
        /\ worker[w].run \notin stale' \/ worker[w].run \in stale
    BY <2>1 DEF Quiet
  <2>8. Taken(w)'
    BY <2>1, <2>5, <2>6, <2>7 DEF Taken, Mark
  <2> QED
    BY <2>1, <2>3, <2>4, <2>8
<1>8. OneAttempt'
  BY DEF Rest, Quiet, OneAttempt
<1> QED
  BY <1>1, <1>2, <1>3, <1>4, <1>5, <1>6, <1>7, <1>8 DEF Rest

-----------------------------------------------------------------------------
(* The quiet steps of a worker, one lemma per group of actions.            *)

\* Another worker is never disturbed by a step of w.
LEMMA OthersFollow ==
  ASSUME NEW v \in Replica, worker'[v] = worker[v]
  PROVE  Follows(v)
  BY DEF Follows, Owns

\* What a worker that is about to begin or to leave is: nobody's owner.
LEMMA LeaverFollows ==
  ASSUME NEW w \in Replica,
         worker'[w] = Idle \/ worker'[w].at \in {"claim", "return"}
  PROVE  Follows(w) /\ ~ Owns(w)'
<1>1. ~ Owns(w)'
  BY DEF Owns
<1>2. worker'[w].at \notin {"check", "persist", "block"}
  BY DEF Idle
<1> QED
  BY <1>1, <1>2 DEF Follows

\* A live owner of a run whose heartbeat did not lapse excludes the others.
LEMMA OwnerRuns ==
  ASSUME Rest, NEW v \in Replica, Owns(v), worker[v].run \notin stalled
  PROVE  /\ Taken(v)
         /\ \A w \in Replica : Owns(w) /\ worker[w].run = worker[v].run => w = v
  BY DEF Rest, Sole

\* w stops owning its run, or never did; the run of nobody else changes.
LEMMA LeavingKeepsRest ==
  ASSUME TypeOK, Rest, NEW w \in Replica,
         worker'[w] = Idle \/ worker'[w].at \in {"claim", "return"},
         \A v \in Replica \ {w} : worker'[v] = worker[v],
         attempts' = attempts, caseVars' = caseVars, ghosts' = ghosts,
         \A v \in Replica \ {w} : Owns(v) /\ worker[v].run \notin stalled =>
           /\ run'[worker[v].run] = run[worker[v].run]
           /\ worker[v].run \notin stale' \/ worker[v].run \in stale
  PROVE  Rest'
<1>1. Quiet
  BY OthersFollow, LeaverFollows DEF Quiet, caseVars, ghosts
<1>2. ASSUME NEW v \in Replica, Owns(v)', worker[v].run \notin stalled'
      PROVE  /\ run'[worker[v].run] = run[worker[v].run]
             /\ worker[v].run \notin stale' \/ worker[v].run \in stale
  <2>1. v # w /\ worker'[v] = worker[v] /\ stalled' = stalled
    BY <1>2, LeaverFollows DEF ghosts
  <2> QED
    BY <1>2, <2>1 DEF Owns
<1> QED
  BY <1>1, <1>2, QuietKeepsRest

LEMMA BeginKeepsRest ==
  ASSUME TypeOK, Rest, NEW w \in Replica, NEW r \in Reference, Begin(w, r)
  PROVE  Rest'
<1>1. /\ worker'[w].at = "claim"
      /\ \A v \in Replica \ {w} : worker'[v] = worker[v]
      /\ attempts' = attempts /\ run' = run /\ stale' = stale
      /\ caseVars' = caseVars /\ ghosts' = ghosts
  BY DEF Begin, TypeOK, runVars
<1> QED
  BY <1>1, OwnerRuns, LeavingKeepsRest

LEMMA TurnedKeepsRest ==
  ASSUME TypeOK, Rest, NEW w \in Replica, Busy(w), Turned(w)
  PROVE  Rest'
<1>1. /\ worker'[w].at = "return"
      /\ \A v \in Replica \ {w} : worker'[v] = worker[v]
  BY GoesType DEF Turned
<1>2. /\ attempts' = attempts /\ run' = run /\ stale' = stale
      /\ caseVars' = caseVars /\ ghosts' = ghosts
  BY DEF Turned, runVars
<1> QED
  BY <1>1, <1>2, OwnerRuns, LeavingKeepsRest

\* Who finds a run claimable finds no live owner: its heartbeat is old.
LEMMA RecoverKeepsRest ==
  ASSUME TypeOK, Rest, NEW w \in Replica, Busy(w), Recover(w)
  PROVE  Rest'
<1>1. /\ worker'[w].at = "return"
      /\ \A v \in Replica \ {w} : worker'[v] = worker[v]
  BY GoesType DEF Recover
<1>2. /\ attempts' = attempts /\ caseVars' = caseVars /\ ghosts' = ghosts
      /\ run' = [run EXCEPT ![worker[w].run] = "COMPLETED"]
      /\ stale' = stale \ {worker[w].run}
      /\ Claimable(worker[w].run)
  BY DEF Recover
<1>3. ASSUME NEW v \in Replica, Owns(v), worker[v].run \notin stalled
      PROVE  /\ run'[worker[v].run] = run[worker[v].run]
             /\ worker[v].run \notin stale' \/ worker[v].run \in stale
  <2>1. Taken(v)
    BY <1>3, OwnerRuns
  <2>2. worker[v].run # worker[w].run
    BY <1>2, <2>1 DEF Claimable, Answered, InProgress, Taken
  <2>3. worker[v].run \in Reference
    BY <1>3, CallFields DEF Owns, Busy
  <2> QED
    BY <1>2, <2>1, <2>2, <2>3 DEF TypeOK
<1> QED
  BY <1>1, <1>2, <1>3, LeavingKeepsRest

\* The one live owner of its run writes the run's status.
LEMMA FailureKeepsRest ==
  ASSUME TypeOK, Rest, NEW w \in Replica, Busy(w), MarkFailed(w)
  PROVE  Rest'
<1>1. /\ worker'[w].at = "return"
      /\ \A v \in Replica \ {w} : worker'[v] = worker[v]
  BY GoesType DEF MarkFailed
<1>2. /\ attempts' = attempts /\ caseVars' = caseVars /\ ghosts' = ghosts
      /\ run' = [run EXCEPT ![worker[w].run] = "FAILED"]
      /\ stale' = stale \ {worker[w].run}
      /\ Owns(w)
  BY PlaceOwns DEF MarkFailed, At
<1>3. ASSUME NEW v \in Replica \ {w}, Owns(v), worker[v].run \notin stalled
      PROVE  /\ run'[worker[v].run] = run[worker[v].run]
             /\ worker[v].run \notin stale' \/ worker[v].run \in stale
  <2>1. worker[v].run # worker[w].run
    BY <1>2, <1>3, OwnerRuns
  <2>2. worker[v].run \in Reference
    BY <1>3, CallFields DEF Owns, Busy
  <2> QED
    BY <1>2, <2>1, <2>2 DEF TypeOK
<1> QED
  BY <1>1, <1>2, <1>3, LeavingKeepsRest

LEMMA ReturnKeepsRest ==
  ASSUME TypeOK, Rest, NEW w \in Replica, Return(w)
  PROVE  Rest'
<1>1. /\ worker'[w] = Idle
      /\ \A v \in Replica \ {w} : worker'[v] = worker[v]
      /\ attempts' = attempts /\ run' = run /\ stale' = stale
      /\ caseVars' = caseVars /\ ghosts' = ghosts
  BY DEF Return, TypeOK, runVars
<1> QED
  BY <1>1, OwnerRuns, LeavingKeepsRest

LEMMA CrashKeepsRest ==
  ASSUME TypeOK, Rest, NEW w \in Replica, Crash(w)
  PROVE  Rest'
<1>1. /\ worker'[w] = Idle
      /\ \A v \in Replica \ {w} : worker'[v] = worker[v]
      /\ attempts' = attempts /\ run' = run /\ stale' = stale
      /\ caseVars' = caseVars /\ ghosts' = ghosts
  BY DEF Crash, TypeOK, runVars
<1> QED
  BY <1>1, OwnerRuns, LeavingKeepsRest

\* The check, an error and the opening of blocks go on with the same run.
LEMMA ThrowsKeepsRest ==
  ASSUME TypeOK, Rest, NEW w \in Replica, Throws(w)
  PROVE  Rest'
<1>1. Owns(w) /\ Busy(w)
  BY PlaceOwns, NotIdle DEF Throws
<1>2. /\ worker'[w].at = "failed"
      /\ worker'[w].run = worker[w].run
      /\ worker'[w].attempt = worker[w].attempt
      /\ \A v \in Replica \ {w} : worker'[v] = worker[v]
  BY <1>1, GoesType DEF Throws
<1>3. Follows(w)
  BY <1>1, <1>2 DEF Follows
<1>4. Quiet
  BY <1>2, <1>3, OthersFollow DEF Throws, Quiet, runVars, caseVars, ghosts
<1>5. run' = run /\ stale' = stale /\ stalled' = stalled
  BY DEF Throws, runVars, ghosts
<1>6. \A v \in Replica : Owns(v)' => Owns(v)
  BY <1>4 DEF Quiet, Follows
<1> QED
  BY <1>4, <1>5, <1>6, OwnerRuns, QuietKeepsRest

LEMMA CheckKeepsRest ==
  ASSUME TypeOK, Rest, NEW w \in Replica, Busy(w), Check(w)
  PROVE  Rest'
<1>1. Owns(w) /\ worker[w].at = "check"
  BY PlaceOwns DEF Check, At
<1>2. /\ worker'[w].at = "persist"
      /\ worker'[w].run = worker[w].run
      /\ worker'[w].attempt = worker[w].attempt
      /\ \A v \in Replica \ {w} : worker'[v] = worker[v]
  <2>1. PICK found \in SUBSET Finding :
          worker' = [worker EXCEPT ![w].at = "persist", ![w].found = found]
    BY DEF Check
  <2>2. worker'[w] = [worker[w] EXCEPT !.at = "persist", !.found = found]
    BY <2>1 DEF TypeOK
  <2> QED
    BY <2>1, <2>2, CallIsBusy DEF BusyCall, TypeOK
<1>3. Follows(w)
  BY <1>1, <1>2 DEF Follows
<1>4. Quiet
  BY <1>2, <1>3, OthersFollow DEF Check, Quiet, caseVars, ghosts
<1>5. run' = run /\ stale' \subseteq stale /\ stalled' = stalled
  BY DEF Check, ghosts
<1>6. \A v \in Replica : Owns(v)' => Owns(v)
  BY <1>4 DEF Quiet, Follows
<1> QED
  BY <1>4, <1>5, <1>6, OwnerRuns, QuietKeepsRest

LEMMA OpeningKeepsRest ==
  ASSUME TypeOK, Rest, NEW w \in Replica, Busy(w),
         NEW p \in worker[w].todo, OpenBlocks(w, p)
  PROVE  Rest'
<1>1. Owns(w) /\ worker[w].at = "block"
  BY PlaceOwns DEF OpenBlocks, At
<1>2. worker'[w] = [worker[w] EXCEPT !.todo = @ \ {p}]
  BY DEF OpenBlocks, TypeOK
<1>3. /\ worker'[w].at = "block"
      /\ worker'[w].run = worker[w].run
      /\ worker'[w].attempt = worker[w].attempt
      /\ worker'[w].todo = worker[w].todo \ {p}
  BY <1>1, <1>2, CallIsBusy DEF BusyCall
<1>4. \A v \in Replica \ {w} : worker'[v] = worker[v]
  BY DEF OpenBlocks, TypeOK
<1>5. DOMAIN blocks' = DOMAIN blocks \cup Opened(p)
  BY DEF OpenBlocks, Opened, With
<1>6. Follows(w)
  BY <1>1, <1>3, <1>5 DEF Follows
<1>7. Quiet
  BY <1>4, <1>5, <1>6, OthersFollow DEF OpenBlocks, Quiet, runVars, ghosts
<1>8. run' = run /\ stale' = stale /\ stalled' = stalled
  BY DEF OpenBlocks, runVars, ghosts
<1>9. \A v \in Replica : Owns(v)' => Owns(v)
  BY <1>7 DEF Quiet, Follows
<1> QED
  BY <1>7, <1>8, <1>9, OwnerRuns, QuietKeepsRest

-----------------------------------------------------------------------------
(* The three steps that take a run over, store its cases and complete it.  *)

\* A claim has a number nobody used, and finds no owner unless one stalled.
LEMMA ClaimKeepsRest ==
  ASSUME TypeOK, Rest, NEW w \in Replica, Busy(w), Claim(w)
  PROVE  Rest'
<1> DEFINE r == worker[w].run
           n == attempts[r] + 1
<1>1. /\ r \in Reference /\ attempts[r] \in Nat
      /\ MayClaim(r)
      /\ run' = [run EXCEPT ![r] = "RUNNING"] /\ stale' = stale \ {r}
      /\ attempts' = [attempts EXCEPT ![r] = @ + 1]
      /\ cases' = cases /\ blocks' = blocks
      /\ finished' = finished /\ stalled' = stalled
  BY CallFields, BoundAssumption DEF Claim, TypeOK, caseVars, ghosts
<1>2. worker'[w] = [worker[w] EXCEPT !.at = "check", !.attempt = n]
  BY DEF Claim, TypeOK
<1>3. /\ worker'[w].at = "check" /\ worker'[w].run = r
      /\ worker'[w].attempt = n
  BY <1>2, CallIsBusy DEF BusyCall
<1>4. \A v \in Replica \ {w} : worker'[v] = worker[v]
  BY DEF Claim, TypeOK
<1>5. Owns(w)'
  BY <1>3, PlaceOwnsNext
<1>6. \A v \in Replica \ {w} : Owns(v)' => Owns(v)
  BY <1>4 DEF Owns
<1>7. /\ attempts'[r] = n
      /\ \A x \in Reference : attempts[x] \in Nat /\ attempts'[x] \in Nat
                              /\ attempts[x] <= attempts'[x]
  BY <1>1, BoundAssumption DEF TypeOK
<1>8. ASSUME NEW v \in Replica, Owns(v)
      PROVE  /\ worker[v].run \in Reference
             /\ worker[v].attempt \in 1..attempts[worker[v].run]
  BY <1>8, CallFields DEF Rest, Numbered, Owns, Busy
<1>9. ASSUME NEW c \in DOMAIN cases
      PROVE  c.run \in Reference /\ c.attempt \in 1..attempts[c.run]
  BY DEF Rest, Numbered, TypeOK, Case
<1>10. ASSUME NEW m \in finished
       PROVE  m[1] \in Reference /\ m[2] \in 1..attempts[m[1]]
  BY DEF Rest, Numbered, TypeOK
<1>11. \A c \in DOMAIN cases : c.run # r
  BY <1>1 DEF MayClaim, CasesOf
<1> HIDE DEF r, n
<1>12. n \in 1..attempts'[r] /\ n > attempts[r] /\ n \in Nat
  BY <1>1, <1>7 DEF n
<1>13. Numbered'
  <2>1. ASSUME NEW v \in Replica, Owns(v)'
        PROVE  worker'[v].attempt \in 1..attempts'[worker'[v].run]
    <3>1. CASE v = w
      BY <3>1, <1>3, <1>12
    <3>2. CASE v # w
      BY <2>1, <3>2, <1>4, <1>6, <1>7, <1>8
    <3> QED
      BY <3>1, <3>2
  <2>2. \A c \in DOMAIN cases' : c.attempt \in 1..attempts'[c.run]
    BY <1>1, <1>7, <1>9
  <2>3. \A m \in finished' : m[2] \in 1..attempts'[m[1]]
    BY <1>1, <1>7, <1>10
  <2> QED
    BY <2>1, <2>2, <2>3 DEF Numbered
<1>14. ASSUME NEW v \in Replica \ {w}, Owns(v)' PROVE Mark(v)' # Mark(w)'
  <2>1. worker[v].run = r => worker[v].attempt <= attempts[r]
    BY <1>6, <1>8, <1>14
  <2> QED
    BY <2>1, <1>1, <1>3, <1>4, <1>6, <1>8, <1>12, <1>14 DEF Mark
<1>15. OwnAttempt'
  <2>1. ASSUME NEW v \in Replica \ {w}, NEW u \in Replica \ {w},
               Owns(v)', Owns(u)', Mark(v)' = Mark(u)'
        PROVE  v = u
    BY <2>1, <1>4, <1>6 DEF Rest, OwnAttempt, Mark
  <2> QED
    BY <2>1, <1>14 DEF OwnAttempt
<1>16. Unfinished'
  <2>1. Mark(w)' \notin finished
    <3>1. <<r, n>> \notin finished
      BY <1>1, <1>10, <1>12
    <3> QED
      BY <3>1, <1>3 DEF Mark
  <2>2. \A v \in Replica \ {w} : Owns(v)' /\ worker'[v].at # "failed" =>
          Mark(v)' \notin finished
    BY <1>4, <1>6 DEF Rest, Unfinished, Mark
  <2> QED
    BY <2>1, <2>2, <1>1 DEF Unfinished
<1>17. NothingStored'
  BY <1>1, <1>3, <1>4, <1>11 DEF Rest, NothingStored, Mark, Origin
<1>18. BlocksPending'
  <2> SUFFICES ASSUME NEW v \in Replica, worker'[v].at = "block",
                      NEW c \in DOMAIN cases', Origin(c) = Mark(v)',
                      NEW b \in BlocksWanted(c)
               PROVE  \/ b \in DOMAIN blocks'
                      \/ <<b.case, b.user>> \in worker'[v].todo
    BY DEF BlocksPending
  <2>1. v # w /\ worker'[v] = worker[v] /\ Mark(v)' = Mark(v)
    BY <1>3, <1>4 DEF Mark
  <2> QED
    BY <2>1, <1>1 DEF Rest, BlocksPending
<1>19. FinishedAttemptsBlocked'
  BY <1>1 DEF Rest, FinishedAttemptsBlocked, BlocksWanted
<1>20. ASSUME NEW v \in Replica \ {w}, Owns(v), worker[v].run \notin stalled
       PROVE  worker[v].run # r
  BY <1>1, <1>20, OwnerRuns DEF MayClaim, Claimable, Answered, InProgress,
                                Taken
<1>21. Sole'
  <2> SUFFICES ASSUME NEW u \in Replica, Owns(u)', worker'[u].run \notin stalled'
               PROVE  /\ Taken(u)'
                      /\ \A v \in Replica :
                           Owns(v)' /\ worker'[v].run = worker'[u].run => v = u
                      /\ worker'[u].at \in {"check", "persist"} =>
                           \A c \in DOMAIN cases' : c.run # worker'[u].run
    BY DEF Sole
  <2>1. CASE u = w
    <3>1. \A v \in Replica : Owns(v)' /\ worker'[v].run = r => v = w
      BY <2>1, <1>1, <1>3, <1>4, <1>6, <1>20
    <3> QED
      BY <2>1, <3>1, <1>1, <1>3, <1>11 DEF TypeOK, Taken
  <2>2. CASE u # w
    <3>1. /\ Owns(u) /\ worker'[u] = worker[u]
          /\ worker[u].run \notin stalled
      BY <2>2, <1>1, <1>4, <1>6
    <3>2. worker[u].run # r /\ worker[u].run \in Reference
      BY <2>2, <3>1, <1>8, <1>20
    <3>3. Taken(u)'
      <4>1. Taken(u)
        BY <3>1, OwnerRuns
      <4>2. run'[worker[u].run] = run[worker[u].run] /\ stale' \subseteq stale
        BY <3>2, <1>1 DEF TypeOK
      <4> QED
        BY <3>1, <4>1, <4>2, <1>1 DEF Taken, Mark
    <3>4. \A v \in Replica : Owns(v)' /\ worker'[v].run = worker[u].run => v = u
      BY <3>1, <3>2, <1>3, <1>4, <1>6, OwnerRuns
    <3>5. worker[u].at \in {"check", "persist"} =>
            \A c \in DOMAIN cases' : c.run # worker[u].run
      BY <3>1, <1>1 DEF Rest, Sole
    <3> QED
      BY <3>1, <3>3, <3>4, <3>5
  <2> QED
    BY <2>1, <2>2
<1>22. OneAttempt'
  BY <1>1 DEF Rest, OneAttempt
<1> QED
  BY <1>13, <1>15, <1>16, <1>17, <1>18, <1>19, <1>21, <1>22 DEF Rest

\* The new cases carry the number of the attempt, which stored none before.
LEMMA PersistKeepsRest ==
  ASSUME TypeOK, Rest, NEW w \in Replica, Busy(w), PersistCases(w)
  PROVE  Rest'
<1> DEFINE r == worker[w].run
           new == {CaseFor(w, f) : f \in worker[w].found}
           todo == {p \in new \X User :
                         /\ Blocks(p[1].finding)
                         /\ p[2] \in Concerns[p[1].finding]}
<1>1. /\ worker[w].at = "persist" /\ Owns(w)
      /\ attempts' = attempts /\ run' = run /\ stale' = stale
      /\ blocks' = blocks /\ finished' = finished /\ stalled' = stalled
  BY PlaceOwns DEF PersistCases, At, runVars, ghosts
<1>2. worker'[w] = [worker[w] EXCEPT !.at = "block", !.todo = todo]
  BY DEF PersistCases, TypeOK
<1>3. /\ worker'[w].at = "block" /\ worker'[w].run = r
      /\ worker'[w].attempt = worker[w].attempt /\ worker'[w].todo = todo
  <2> HIDE DEF todo
  <2> QED
    BY <1>2, CallIsBusy DEF BusyCall
<1>4. \A v \in Replica \ {w} : worker'[v] = worker[v]
  BY DEF PersistCases, TypeOK
<1>5. DOMAIN cases' = DOMAIN cases \cup new
  BY DEF PersistCases, With
<1>6. ASSUME NEW c \in new
      PROVE  /\ c.run = r /\ c.attempt = worker[w].attempt
             /\ Origin(c) = Mark(w)
             /\ c.finding \in Finding
  BY CallFields DEF CaseFor, Origin, Mark
<1>7. todo = {p \in new \X User : /\ p[1].finding \in Critical
                                  /\ p[2] \in Concerns[p[1].finding]}
  BY DEF Blocks
<1> HIDE DEF r, new, todo
<1>8. \A v \in Replica : /\ Owns(v)' <=> Owns(v)
                         /\ worker'[v].run = worker[v].run
                         /\ worker'[v].attempt = worker[v].attempt
                         /\ Mark(v)' = Mark(v)
                         /\ worker'[v].at = "failed" <=> worker[v].at = "failed"
  <2>1. Owns(w)'
    BY <1>3, PlaceOwnsNext
  <2> QED
    BY <2>1, <1>1, <1>3, <1>4 DEF Owns, Mark, r
<1>9. Numbered'
  <2>1. worker[w].attempt \in 1..attempts[r]
    BY <1>1 DEF Rest, Numbered, r
  <2>2. \A v \in Replica : worker'[v].attempt = worker[v].attempt
    BY <1>3, <1>4
  <2> QED
    BY <2>1, <2>2, <1>1, <1>5, <1>6, <1>8 DEF Rest, Numbered
<1>10. OwnAttempt'
  BY <1>8 DEF Rest, OwnAttempt
<1>11. Unfinished'
  BY <1>1, <1>8 DEF Rest, Unfinished
<1>12. ASSUME NEW v \in Replica \ {w}, Owns(v) PROVE Mark(v) # Mark(w)
  BY <1>1, <1>12 DEF Rest, OwnAttempt
<1>13. NothingStored'
  <2> SUFFICES ASSUME NEW v \in Replica, worker'[v].at \in {"check", "persist"},
                      NEW c \in DOMAIN cases'
               PROVE  Origin(c) # Mark(v)'
    BY DEF NothingStored, Origin
  <2>1. v # w /\ worker[v].at \in {"check", "persist"}
    BY <1>3, <1>4
  <2>2. Owns(v)
    BY <2>1, PlaceOwns
  <2>3. Mark(v) # Mark(w)
    BY <2>1, <2>2, <1>12
  <2>4. Mark(v)' = Mark(v)
    BY <1>8 DEF Mark
  <2> QED
    BY <2>1, <2>3, <2>4, <1>5, <1>6 DEF Rest, NothingStored
<1>14. BlocksPending'
  <2> SUFFICES ASSUME NEW v \in Replica, worker'[v].at = "block",
                      NEW c \in DOMAIN cases', Origin(c) = Mark(v)',
                      NEW b \in BlocksWanted(c)
               PROVE  \/ b \in DOMAIN blocks'
                      \/ <<b.case, b.user>> \in worker'[v].todo
    BY DEF BlocksPending
  <2>1. CASE v = w
    <3>1. c \in new
      <4>1. Mark(w)' = Mark(w)
        BY <1>8 DEF Mark
      <4>2. Origin(c) = Mark(w)
        BY <2>1, <4>1
      <4> QED
        BY <4>2, <1>1, <1>5 DEF Rest, NothingStored
    <3>2. /\ c.finding \in Critical
          /\ b.case = c /\ b.user \in Concerns[c.finding]
      BY DEF BlocksWanted
    <3>3. b.user \in User
      BY <3>1, <3>2, <1>6, FindingAssumption
    <3>4. <<c, b.user>> \in todo
      BY <3>1, <3>2, <3>3, <1>7
    <3> QED
      BY <2>1, <3>2, <3>4, <1>3
  <2>2. CASE v # w
    <3>1. worker'[v] = worker[v] /\ worker[v].at = "block"
      BY <2>2, <1>4
    <3>2. Owns(v)
      BY <3>1, PlaceOwns
    <3>3. Mark(v)' = Mark(v)
      BY <1>8 DEF Mark
    <3>4. c \in DOMAIN cases
      BY <2>2, <3>2, <3>3, <1>5, <1>6, <1>12
    <3> QED
      BY <3>1, <3>3, <3>4, <1>1 DEF Rest, BlocksPending
  <2> QED
    BY <2>1, <2>2
<1>15. FinishedAttemptsBlocked'
  <2>1. Mark(w) \notin finished
    BY <1>1 DEF Rest, Unfinished
  <2>2. ASSUME NEW c \in DOMAIN cases', Origin(c) \in finished
        PROVE  BlocksWanted(c) \subseteq DOMAIN blocks
    <3>1. c \in DOMAIN cases
      BY <2>1, <2>2, <1>5, <1>6
    <3> QED
      BY <2>2, <3>1 DEF Rest, FinishedAttemptsBlocked, Origin
  <2> QED
    BY <2>2, <1>1 DEF FinishedAttemptsBlocked, Origin, BlocksWanted
<1>16. r \notin stalled => \A c \in DOMAIN cases : c.run # r
  BY <1>1 DEF Rest, Sole, r
<1>17. Sole'
  <2> SUFFICES ASSUME NEW u \in Replica, Owns(u)', worker'[u].run \notin stalled'
               PROVE  /\ Taken(u)'
                      /\ \A v \in Replica :
                           Owns(v)' /\ worker'[v].run = worker'[u].run => v = u
                      /\ worker'[u].at \in {"check", "persist"} =>
                           \A c \in DOMAIN cases' : c.run # worker'[u].run
    BY DEF Sole
  <2>1. Owns(u) /\ worker'[u].run = worker[u].run /\ worker[u].run \notin stalled
    BY <1>1, <1>8
  <2>2. \A v \in Replica : Owns(v)' /\ worker'[v].run = worker'[u].run => v = u
    BY <2>1, <1>8, OwnerRuns
  <2>3. ASSUME worker'[u].at \in {"check", "persist"}
        PROVE  \A c \in DOMAIN cases' : c.run # worker'[u].run
    <3>1. u # w /\ worker[u].at \in {"check", "persist"}
      BY <2>3, <1>3, <1>4
    <3>2. worker[u].run # r
      BY <2>1, <3>1, <1>1, OwnerRuns DEF r
    <3>3. \A c \in DOMAIN cases : c.run # worker[u].run
      BY <2>1, <3>1 DEF Rest, Sole
    <3> QED
      BY <2>1, <3>2, <3>3, <1>5, <1>6
  <2>4. Taken(u)'
    <3>1. Taken(u)
      BY <2>1, OwnerRuns
    <3>2. Mark(u)' = Mark(u)
      BY <1>8
    <3> QED
      BY <2>1, <3>1, <3>2, <1>1, <1>8 DEF Taken
  <2> QED
    BY <2>1, <2>2, <2>3, <2>4
<1>18. OneAttempt'
  BY <1>1, <1>5, <1>6, <1>16 DEF Rest, OneAttempt
<1> QED
  BY <1>9, <1>10, <1>11, <1>13, <1>14, <1>15, <1>17, <1>18 DEF Rest

\* Nothing is left to do: every block of the attempt's cases is stored.  If
\* the answer is lost, w stays on to mark the run as failed.
LEMMA FinalizeKeepsRest ==
  ASSUME TypeOK, Rest, NEW w \in Replica, Busy(w),
         Finalize(w) \/ FinalizeUnacknowledged(w)
  PROVE  Rest'
<1>1. /\ worker[w].at = "block" /\ worker[w].todo = {} /\ Owns(w)
      /\ attempts' = attempts /\ stalled' = stalled
      /\ cases' = cases /\ blocks' = blocks
      /\ finished' = finished \cup {Mark(w)}
      /\ run' = [run EXCEPT ![worker[w].run] = "COMPLETED"]
      /\ stale' = stale \ {worker[w].run}
  BY PlaceOwns DEF Finalize, FinalizeUnacknowledged, At, caseVars, Mark
<1>2. /\ worker'[w].at \in {"failed", "return"}
      /\ worker'[w].run = worker[w].run
      /\ worker'[w].attempt = worker[w].attempt
      /\ \A v \in Replica \ {w} : worker'[v] = worker[v]
  BY GoesType DEF Finalize, FinalizeUnacknowledged
<1>3. Owns(w)' => worker'[w].at = "failed"
  BY <1>2 DEF Owns
<1>4. \A v \in Replica :
        /\ Owns(v)' => Owns(v)
        /\ worker'[v].run = worker[v].run
        /\ worker'[v].attempt = worker[v].attempt
        /\ Mark(v)' = Mark(v)
  BY <1>1, <1>2 DEF Owns, Mark
<1>5. Numbered'
  <2>1. Mark(w)[2] \in 1..attempts[Mark(w)[1]]
    BY <1>1 DEF Rest, Numbered, Mark
  <2>2. \A v \in Replica : Owns(v)' =>
          worker'[v].attempt \in 1..attempts'[worker'[v].run]
    BY <1>1, <1>4 DEF Rest, Numbered
  <2>3. \A c \in DOMAIN cases' : c.attempt \in 1..attempts'[c.run]
    BY <1>1 DEF Rest, Numbered
  <2>4. \A m \in finished' : m[2] \in 1..attempts'[m[1]]
    BY <2>1, <1>1 DEF Rest, Numbered
  <2> QED
    BY <2>2, <2>3, <2>4 DEF Numbered
<1>6. OwnAttempt'
  BY <1>4 DEF Rest, OwnAttempt
<1>7. Unfinished'
  <2>1. ASSUME NEW v \in Replica, Owns(v)', worker'[v].at # "failed"
        PROVE  Mark(v)' \notin finished'
    <3>1. v # w
      BY <2>1, <1>3
    <3>2. Owns(v) /\ Mark(v)' = Mark(v) /\ worker[v].at # "failed"
      BY <2>1, <3>1, <1>2, <1>4
    <3>3. Mark(v) # Mark(w) /\ Mark(v) \notin finished
      BY <3>1, <3>2, <1>1 DEF Rest, OwnAttempt, Unfinished
    <3> QED
      BY <3>2, <3>3, <1>1
  <2> QED
    BY <2>1 DEF Unfinished
<1>8. NothingStored'
  <2>1. ASSUME NEW v \in Replica, worker'[v].at \in {"check", "persist"}
        PROVE  worker[v].at \in {"check", "persist"} /\ Mark(v)' = Mark(v)
    <3>1. v # w
      BY <2>1, <1>2
    <3> QED
      BY <2>1, <3>1, <1>2, <1>4
  <2> QED
    BY <2>1, <1>1 DEF Rest, NothingStored, Origin
<1>9. BlocksPending'
  <2> SUFFICES ASSUME NEW v \in Replica, worker'[v].at = "block",
                      NEW c \in DOMAIN cases', Origin(c) = Mark(v)',
                      NEW b \in BlocksWanted(c)
               PROVE  \/ b \in DOMAIN blocks'
                      \/ <<b.case, b.user>> \in worker'[v].todo
    BY DEF BlocksPending
  <2>1. v # w
    BY <1>2
  <2>2. worker'[v] = worker[v] /\ Mark(v)' = Mark(v)
    BY <2>1, <1>2, <1>4
  <2> QED
    BY <2>2, <1>1 DEF Rest, BlocksPending
<1>10. FinishedAttemptsBlocked'
  <2>1. ASSUME NEW c \in DOMAIN cases, Origin(c) \in finished'
        PROVE  BlocksWanted(c) \subseteq DOMAIN blocks
    <3>1. CASE Origin(c) \in finished
      BY <3>1 DEF Rest, FinishedAttemptsBlocked, Origin
    <3>2. CASE Origin(c) = Mark(w)
      BY <3>2, <1>1 DEF Rest, BlocksPending
    <3> QED
      BY <2>1, <3>1, <3>2, <1>1
  <2> QED
    BY <2>1, <1>1 DEF FinishedAttemptsBlocked, Origin, BlocksWanted
<1>11. Sole'
  <2> SUFFICES ASSUME NEW u \in Replica, Owns(u)', worker'[u].run \notin stalled'
               PROVE  /\ Taken(u)'
                      /\ \A v \in Replica :
                           Owns(v)' /\ worker'[v].run = worker'[u].run => v = u
                      /\ worker'[u].at \in {"check", "persist"} =>
                           \A c \in DOMAIN cases' : c.run # worker'[u].run
    BY DEF Sole
  <2>1. /\ Owns(u) /\ worker'[u].run = worker[u].run
        /\ worker[u].run \notin stalled /\ worker[u].run \in Reference
    BY <1>1, <1>4, CallFields DEF Owns, Busy
  <2>2. \A v \in Replica : Owns(v)' /\ worker'[v].run = worker'[u].run => v = u
    BY <2>1, <1>4, OwnerRuns
  <2>3. Taken(u)'
    <3>1. CASE u = w
      <4>1. worker'[w].at = "failed" /\ Mark(w)' \in finished'
        BY <3>1, <1>1, <1>3, <1>4
      <4>2. run'[worker'[w].run] = "COMPLETED"
        BY <2>1, <3>1, <1>1 DEF TypeOK
      <4> QED
        BY <3>1, <4>1, <4>2 DEF Taken
    <3>2. CASE u # w
      <4>1. worker[u].run # worker[w].run /\ Taken(u)
        BY <2>1, <3>2, <1>1, OwnerRuns
      <4>2. /\ run'[worker[u].run] = run[worker[u].run]
            /\ worker'[u] = worker[u] /\ Mark(u)' = Mark(u)
            /\ stale' \subseteq stale /\ finished \subseteq finished'
        BY <2>1, <3>2, <4>1, <1>1, <1>2, <1>4 DEF TypeOK
      <4> QED
        BY <4>1, <4>2 DEF Taken
    <3> QED
      BY <3>1, <3>2
  <2>4. ASSUME worker'[u].at \in {"check", "persist"}
        PROVE  \A c \in DOMAIN cases' : c.run # worker'[u].run
    <3>1. u # w
      BY <2>4, <1>2
    <3> QED
      BY <2>1, <2>4, <3>1, <1>1, <1>2 DEF Rest, Sole
  <2> QED
    BY <2>2, <2>3, <2>4
<1>12. OneAttempt'
  BY <1>1 DEF Rest, OneAttempt
<1> QED
  BY <1>5, <1>6, <1>7, <1>8, <1>9, <1>10, <1>11, <1>12 DEF Rest

-----------------------------------------------------------------------------
(* The environment and the operators.                                      *)

\* Steps of nobody's call.
LEMMA OutsideKeepsRest ==
  ASSUME TypeOK, Rest, worker' = worker, attempts' = attempts,
         finished' = finished, DOMAIN cases' = DOMAIN cases,
         DOMAIN blocks \subseteq DOMAIN blocks', stalled \subseteq stalled',
         run' = run,
         \A v \in Replica : Owns(v) /\ worker[v].run \notin stalled' =>
           worker[v].run \notin stale' \/ worker[v].run \in stale
  PROVE  Rest'
<1>1. \A v \in Replica : Follows(v) /\ (Owns(v)' <=> Owns(v))
  BY DEF Follows, Owns
<1>2. Quiet
  BY <1>1 DEF Quiet
<1>3. ASSUME NEW v \in Replica, Owns(v)', worker[v].run \notin stalled'
      PROVE  worker[v].run \notin stale' \/ worker[v].run \in stale
  BY <1>3 DEF Owns
<1> QED
  BY <1>2, <1>3, QuietKeepsRest

\* A heartbeat that is old although the owner lives counts as a stall.
LEMMA AgeingKeepsRest ==
  ASSUME TypeOK, Rest, NEW r \in Reference, RunAges(r)
  PROVE  Rest'
<1>1. /\ worker' = worker /\ attempts' = attempts /\ finished' = finished
      /\ cases' = cases /\ blocks' = blocks /\ run' = run
      /\ stale' = stale \cup {r} /\ stalled \subseteq stalled'
      /\ ~ Owned(r) \/ r \in stalled'
  BY DEF RunAges, caseVars
<1>2. ASSUME NEW v \in Replica, Owns(v), worker[v].run \notin stalled'
      PROVE  worker[v].run # r
  BY <1>1, <1>2 DEF Owns, Owned
<1> QED
  BY <1>1, <1>2, OutsideKeepsRest

LEMMA StepKeepsRest ==
  ASSUME TypeOK, Rest, Next
  PROVE  Rest'
<1>1. ASSUME NEW w \in Replica, Busy(w), Step(w) PROVE Rest'
  BY <1>1, TurnedKeepsRest, RecoverKeepsRest, ClaimKeepsRest, CheckKeepsRest,
     PersistKeepsRest, OpeningKeepsRest, FinalizeKeepsRest, FailureKeepsRest,
     ReturnKeepsRest DEF Step
<1>2. CASE LeaseExpires
  BY <1>2, OutsideKeepsRest DEF LeaseExpires, runVars, caseVars, ghosts
<1>3. ASSUME NEW b \in ActiveBlocks, ReleaseBlock(b) PROVE Rest'
  <2>1. DOMAIN blocks \subseteq DOMAIN blocks'
    BY <1>3 DEF ReleaseBlock, With
  <2> QED
    BY <1>3, <2>1, OutsideKeepsRest DEF ReleaseBlock, runVars, ghosts
<1>4. ASSUME NEW c \in DOMAIN cases, ResolveCase(c) PROVE Rest'
  <2>1. DOMAIN cases' = DOMAIN cases
    BY <1>4 DEF ResolveCase, With
  <2> QED
    BY <1>4, <2>1, OutsideKeepsRest DEF ResolveCase, runVars, ghosts
<1>5. CASE BulkResolveAll
  <2>1. DOMAIN cases' = DOMAIN cases /\ DOMAIN blocks' = DOMAIN blocks
    BY <1>5 DEF BulkResolveAll, With
  <2> QED
    BY <1>5, <2>1, OutsideKeepsRest DEF BulkResolveAll, runVars, ghosts
<1>6. ASSUME NEW w \in Replica, FinalizeUnacknowledged(w) PROVE Rest'
  <2>1. Busy(w)
    BY <1>6, NotIdle DEF FinalizeUnacknowledged, At
  <2> QED
    BY <1>6, <2>1, FinalizeKeepsRest
<1> QED
  BY <1>1, <1>2, <1>3, <1>4, <1>5, <1>6, BeginKeepsRest, ThrowsKeepsRest,
     CrashKeepsRest, AgeingKeepsRest DEF Next, Busy

-----------------------------------------------------------------------------
(* The theorems.                                                           *)

LEMMA StutterKeeps ==
  ASSUME IInv, UNCHANGED vars
  PROVE  IInv'
<1>1. TypeOK' /\ LeaseIsExclusive'
  BY DEF IInv, vars, runVars, caseVars, ghosts, counts, TypeOK,
         LeaseIsExclusive
<1>2. Rest'
  <2>1. Rest
    BY DEF IInv, Rest
  <2>2. /\ worker' = worker /\ run' = run /\ stale' = stale
        /\ attempts' = attempts /\ cases' = cases /\ blocks' = blocks
        /\ finished' = finished /\ stalled' = stalled
    BY DEF vars, runVars, caseVars, ghosts
  <2> QED
    BY <2>1, <2>2, OutsideKeepsRest DEF IInv
<1> QED
  BY <1>1, <1>2 DEF IInv, Rest

LEMMA InitIInv == Init => IInv
<1> SUFFICES ASSUME Init PROVE IInv
  OBVIOUS
<1> USE DEF Init
<1>1. TypeOK
  BY BoundAssumption DEF TypeOK, Call
<1>2. \A w \in Replica :
        ~ Owns(w) /\ worker[w].at \notin {"check", "persist", "block"}
  BY DEF Owns, Idle
<1>3. DOMAIN cases = {} /\ finished = {}
  OBVIOUS
<1>4. LeaseIsExclusive
  BY DEF LeaseIsExclusive
<1>5. Numbered /\ OwnAttempt /\ Unfinished /\ NothingStored
  BY <1>2, <1>3 DEF Numbered, OwnAttempt, Unfinished, NothingStored
<1>6. BlocksPending /\ FinishedAttemptsBlocked /\ Sole /\ OneAttempt
  BY <1>2, <1>3
     DEF BlocksPending, FinishedAttemptsBlocked, Sole, OneAttempt
<1> QED
  BY <1>1, <1>4, <1>5, <1>6 DEF IInv

(***************************************************************************)
(* The invariant behind the others: the numbers of the attempts, what each *)
(* worker's place in runReconciliation says about the stored cases and     *)
(* blocks, and that the heartbeat and claimRun keep a run to one worker.   *)
(***************************************************************************)
THEOREM Invariance == Spec => []IInv
<1>1. Init => IInv
  BY InitIInv
<1>2. IInv /\ [Next]_vars => IInv'
  <2> SUFFICES ASSUME IInv, [Next]_vars PROVE IInv'
    OBVIOUS
  <2>1. CASE Next
    <3>1. TypeOK' /\ LeaseIsExclusive'
      BY <2>1, StepKeepsTypes, StepKeepsLease DEF IInv
    <3>2. Rest'
      BY <2>1, StepKeepsRest DEF IInv, Rest
    <3> QED
      BY <3>1, <3>2 DEF IInv, Rest
  <2>2. CASE UNCHANGED vars
    BY <2>2, StutterKeeps
  <2> QED
    BY <2>1, <2>2
<1> QED
  BY <1>1, <1>2, PTL DEF Spec

(***************************************************************************)
(* The rows of runs, cases and blocks keep their types.                    *)
(***************************************************************************)
THEOREM Typing == Spec => []TypeOK
<1>1. IInv => TypeOK
  BY DEF IInv
<1> QED
  BY <1>1, Invariance, PTL

(***************************************************************************)
(* Of any number of replicas only the holder of the Redis key works, save  *)
(* those whose own lease ran out: RELEASE_SCRIPT never frees another's.    *)
(***************************************************************************)
THEOREM Exclusive == Spec => []LeaseIsExclusive
<1>1. IInv => LeaseIsExclusive
  BY DEF IInv
<1> QED
  BY <1>1, Invariance, PTL

(***************************************************************************)
(* A reference replayed any number of times, through any failures and      *)
(* crashes, stores a discrepancy once unless a live worker stalled.        *)
(***************************************************************************)
THEOREM ReplaySafe == Spec => []NoDuplicateCases
<1>1. IInv => NoDuplicateCases
  <2> SUFFICES ASSUME IInv, NEW c \in DOMAIN cases, NEW d \in DOMAIN cases,
                      c.run = d.run, c.run \notin stalled,
                      c.finding = d.finding
               PROVE  c = d
    BY DEF NoDuplicateCases
  <2>1. c.attempt = d.attempt
    BY DEF IInv, OneAttempt
  <2>2. c \in Case /\ d \in Case
    BY DEF IInv, TypeOK
  <2> QED
    BY <2>1, <2>2 DEF Case
<1> QED
  BY <1>1, Invariance, PTL

(***************************************************************************)
(* An attempt that completed its run left no block of its critical cases   *)
(* unopened, for any operators and any number of other attempts.           *)
(***************************************************************************)
THEOREM Blocked == Spec => []FinishedAttemptsBlocked
<1>1. IInv => FinishedAttemptsBlocked
  BY DEF IInv
<1> QED
  BY <1>1, Invariance, PTL

LEMMA StepKeepsCompleted ==
  ASSUME IInv, Next, NEW r \in Reference, run[r] = "COMPLETED", r \notin stalled
  PROVE  \/ run'[r] = "COMPLETED"
         \/ run'[r] = "FAILED" /\ \E w \in Replica : Misheard(w, r)
<1>1. run \in [Reference -> {"ABSENT", "RUNNING", "COMPLETED", "FAILED"}]
  BY DEF IInv, TypeOK
<1>2. ASSUME NEW w \in Replica, Busy(w), Step(w)
      PROVE  \/ run'[r] = "COMPLETED"
             \/ run'[r] = "FAILED" /\ Misheard(w, r)
  <2>1. CASE Recover(w)
    BY <2>1, <1>1 DEF Recover
  <2>2. CASE Claim(w)
    <3>1. worker[w].run # r /\ run' = [run EXCEPT ![worker[w].run] = "RUNNING"]
      BY <2>2 DEF Claim, MayClaim, Claimable, Answered
    <3> QED
      BY <3>1, <1>1
  <2>3. CASE Finalize(w)
    BY <2>3, <1>1 DEF Finalize
  <2>4. CASE MarkFailed(w)
    <3>1. Owns(w)
      BY <2>4, PlaceOwns DEF MarkFailed, At
    <3>2. run' = [run EXCEPT ![worker[w].run] = "FAILED"]
      BY <2>4 DEF MarkFailed
    <3>3. CASE worker[w].run = r
      <4>1. Taken(w)
        BY <3>1, <3>3 DEF IInv, Sole
      <4>2. Misheard(w, r)
        BY <2>4, <3>3, <4>1 DEF Taken, Mark, Misheard, MarkFailed
      <4> QED
        BY <3>2, <3>3, <4>2, <1>1
    <3> QED
      BY <3>2, <3>3, <1>1
  <2>5. CASE \/ Turned(w) \/ Check(w) \/ PersistCases(w) \/ Return(w)
             \/ \E p \in worker[w].todo : OpenBlocks(w, p)
    BY <2>5 DEF Turned, Check, PersistCases, Return, OpenBlocks, runVars
  <2> QED
    BY <1>2, <2>1, <2>2, <2>3, <2>4, <2>5 DEF Step
<1>3. ASSUME NEW w \in Replica,
             (\E q \in Reference : Begin(w, q)) \/ Throws(w) \/ Crash(w)
      PROVE  run'[r] = "COMPLETED"
  BY <1>3 DEF Begin, Throws, Crash, runVars
<1>4. CASE LeaseExpires \/ BulkResolveAll
  BY <1>4 DEF LeaseExpires, BulkResolveAll, runVars
<1>5. CASE \/ \E q \in Reference : RunAges(q)
           \/ \E b \in ActiveBlocks : ReleaseBlock(b)
           \/ \E c \in DOMAIN cases : ResolveCase(c)
  BY <1>5 DEF RunAges, ReleaseBlock, ResolveCase, runVars
<1>6. ASSUME NEW w \in Replica, FinalizeUnacknowledged(w)
      PROVE  run'[r] = "COMPLETED"
  BY <1>6, <1>1 DEF FinalizeUnacknowledged
<1> QED
  BY <1>2, <1>3, <1>4, <1>5, <1>6 DEF Next, Busy

(***************************************************************************)
(* finalizeRun and the catch around it overwrite whatever status they      *)
(* find, yet a completed run that never stalled leaves COMPLETED in one    *)
(* way only: the attempt that completed it lost the answer of that write   *)
(* and reports itself as failed.  Nobody else marks, claims or reopens it. *)
(***************************************************************************)
THEOREM Completion == Spec => CompletedIsFinal
<1>1. IInv /\ [Next]_vars =>
        [ \A r \in Reference :
            run[r] = "COMPLETED" /\ r \notin stalled =>
              \/ run'[r] = "COMPLETED"
              \/ run'[r] = "FAILED" /\ \E w \in Replica : Misheard(w, r)
        ]_vars
  BY StepKeepsCompleted
<1> QED
  BY <1>1, Invariance, PTL DEF Spec, CompletedIsFinal
-----------------------------------------------------------------------------
(* What may be wrong about a completed run.                                *)

\* What a run is while no attempt has failed: whoever claimed it still works
\* on it, and its cases are those of an attempt that got to its end.
Steady(r) ==
  /\ run[r] # "FAILED"
  /\ run[r] = "RUNNING" => \E w \in Replica : Owns(w) /\ worker[w].run = r
  /\ run[r] = "ABSENT" => CasesOf(r) = {}
  /\ run[r] = "COMPLETED" => \A c \in CasesOf(r) : Origin(c) \in finished

\* A worker that opens blocks finds no cases but its own.
OwnCases ==
  \A w \in Replica : worker[w].at = "block" /\ worker[w].run \notin stalled =>
    \A c \in CasesOf(worker[w].run) : Origin(c) = Mark(w)

Calm ==
  /\ \A w \in Replica : worker[w].at # "failed"
  /\ OwnCases
  /\ \A r \in Reference : r \notin stalled => Steady(r)

\* A step that leaves runs, cases and finished attempts as they are.
LEMMA StillCalm ==
  ASSUME Calm, run' = run, DOMAIN cases' = DOMAIN cases, finished' = finished,
         stalled \subseteq stalled',
         \A v \in Replica :
           /\ Owns(v) => Owns(v)' /\ worker'[v].run = worker[v].run
           /\ worker'[v].at # "failed"
           /\ worker'[v].at = "block" =>
                /\ worker[v].at = "block" /\ worker'[v].run = worker[v].run
                /\ worker'[v].attempt = worker[v].attempt
  PROVE  Calm'
<1>1. OwnCases'
  BY DEF Calm, OwnCases, CasesOf, Mark
<1>2. ASSUME NEW r \in Reference, r \notin stalled' PROVE Steady(r)'
  BY <1>2 DEF Calm, Steady, CasesOf
<1> QED
  BY <1>1, <1>2 DEF Calm

\* No run that did not stall is ever taken over.
LEMMA NothingToRecover ==
  ASSUME IInv, Calm, NEW r \in Reference, r \notin stalled, Claimable(r)
  PROVE  run[r] = "ABSENT" /\ CasesOf(r) = {}
<1>1. Steady(r)
  BY DEF Calm
<1>2. run[r] # "RUNNING"
  <2> SUFFICES ASSUME run[r] = "RUNNING" PROVE FALSE
    OBVIOUS
  <2>1. PICK w \in Replica : Owns(w) /\ worker[w].run = r
    BY <1>1 DEF Steady
  <2>2. r \notin stale
    BY <2>1 DEF IInv, Sole, Taken
  <2> QED
    BY <2>2 DEF Claimable, InProgress
<1> QED
  BY <1>1, <1>2 DEF Steady, Claimable, Answered, IInv, TypeOK

\* Recovery finds only a run that stalled.
LEMMA RecoverIsCalm ==
  ASSUME IInv, Calm, NEW w \in Replica, Busy(w), Recover(w)
  PROVE  Calm'
<1> DEFINE q == worker[w].run
<1>1. q \in Reference
  BY CallFields DEF IInv
<1>2. q \in stalled
  BY <1>1, NothingToRecover DEF Recover
<1>3. /\ worker'[w].at = "return"
      /\ \A v \in Replica \ {w} : worker'[v] = worker[v]
  BY GoesType DEF Recover, IInv
<1>4. /\ cases' = cases /\ ghosts' = ghosts
      /\ run' = [run EXCEPT ![q] = "COMPLETED"]
      /\ worker[w].at = "claim"
  BY DEF Recover, caseVars, At
<1>5. finished' = finished /\ stalled' = stalled
  BY <1>4 DEF ghosts
<1>6. OwnCases'
  BY <1>3, <1>4, <1>5 DEF Calm, OwnCases, CasesOf, Mark
<1>7. ASSUME NEW r \in Reference, r \notin stalled' PROVE Steady(r)'
  <2>1. run'[r] = run[r] /\ Steady(r)
    BY <1>1, <1>2, <1>4, <1>5, <1>7 DEF Calm, IInv, TypeOK
  <2>2. \A v \in Replica : Owns(v) => worker'[v] = worker[v]
    BY <1>3, <1>4 DEF Owns
  <2> QED
    BY <1>4, <1>5, <2>1, <2>2 DEF Steady, CasesOf, Owns
<1> QED
  BY <1>3, <1>6, <1>7 DEF Calm

\* Who claims a run owns it.
LEMMA ClaimIsCalm ==
  ASSUME IInv, Calm, NEW w \in Replica, Busy(w), Claim(w)
  PROVE  Calm'
<1> DEFINE q == worker[w].run
<1>1. q \in Reference /\ worker[w].at = "claim"
  BY CallFields DEF IInv, Claim, At
<1>2. /\ worker'[w].at = "check" /\ worker'[w].run = q
      /\ \A v \in Replica \ {w} : worker'[v] = worker[v]
  <2>1. worker[w] \in BusyCall
    BY CallIsBusy DEF IInv
  <2>2. worker' = [worker EXCEPT ![w].at = "check",
                                 ![w].attempt = attempts[q] + 1]
    BY DEF Claim
  <2> QED
    BY <2>1, <2>2 DEF IInv, TypeOK, BusyCall
<1>3. /\ cases' = cases /\ finished' = finished /\ stalled' = stalled
      /\ run' = [run EXCEPT ![q] = "RUNNING"]
  BY DEF Claim, caseVars, ghosts
<1>4. OwnCases'
  BY <1>2, <1>3 DEF Calm, OwnCases, CasesOf, Mark
<1>5. ASSUME NEW r \in Reference, r \notin stalled' PROVE Steady(r)'
  <2>1. Steady(r)
    BY <1>3, <1>5 DEF Calm
  <2>2. CASE r = q
    <3>1. run'[r] = "RUNNING"
      BY <1>1, <1>3, <2>2 DEF IInv, TypeOK
    <3>2. Owns(w)'
      BY <1>2, PlaceOwnsNext
    <3> QED
      BY <1>2, <2>2, <3>1, <3>2 DEF Steady
  <2>3. CASE r # q
    <3>1. run'[r] = run[r]
      BY <1>1, <1>3, <2>3 DEF IInv, TypeOK
    <3>2. \A v \in Replica : Owns(v) => worker'[v] = worker[v]
      BY <1>1, <1>2 DEF Owns
    <3> QED
      BY <1>3, <2>1, <3>1, <3>2 DEF Steady, CasesOf, Owns
  <2> QED
    BY <2>2, <2>3
<1> QED
  BY <1>2, <1>4, <1>5 DEF Calm

\* The cases stored are those of the run's only owner.
LEMMA PersistIsCalm ==
  ASSUME IInv, Calm, NEW w \in Replica, Busy(w), PersistCases(w)
  PROVE  Calm'
<1> DEFINE q == worker[w].run
           new == {CaseFor(w, f) : f \in worker[w].found}
<1>1. q \in Reference /\ worker[w].at = "persist" /\ Owns(w)
  BY CallFields, PlaceOwns DEF IInv, PersistCases, At
<1>2. /\ worker'[w].at = "block" /\ Mark(w)' = Mark(w)
      /\ worker'[w].run = q
      /\ \A v \in Replica \ {w} : worker'[v] = worker[v]
  <2>1. worker[w] \in BusyCall
    BY CallIsBusy DEF IInv
  <2>2. PICK todo : worker' = [worker EXCEPT ![w].at = "block",
                                             ![w].todo = todo]
    BY DEF PersistCases
  <2> QED
    BY <2>1, <2>2 DEF IInv, TypeOK, BusyCall, Mark
<1>3. /\ DOMAIN cases' = DOMAIN cases \cup new
      /\ finished' = finished /\ stalled' = stalled /\ run' = run
  BY WithAdds DEF PersistCases, ghosts, runVars
<1>4. \A c \in new : c.run = q /\ Origin(c) = Mark(w)
  BY DEF CaseFor, Origin, Mark
<1> HIDE DEF new
<1>5. ASSUME NEW v \in Replica, worker'[v].at = "block",
             worker'[v].run \notin stalled'
      PROVE  \A c \in CasesOf(worker[v].run)' : Origin(c) = Mark(v)'
  <2>1. CASE v = w
    <3>1. \A c \in DOMAIN cases : c.run # q
      BY <1>1, <1>2, <1>3, <1>5, <2>1 DEF IInv, Sole
    <3> QED
      BY <1>2, <1>3, <1>4, <2>1, <3>1 DEF CasesOf
  <2>2. CASE v # w
    <3>1. worker'[v] = worker[v]
      BY <1>2, <2>2
    <3>2. worker[v].run # q
      BY <1>1, <1>3, <1>5, <2>2, <3>1, PlaceOwns DEF IInv, Sole
    <3> QED
      BY <1>3, <1>4, <1>5, <3>1, <3>2 DEF Calm, OwnCases, CasesOf, Mark
  <2> QED
    BY <2>1, <2>2
<1>6. ASSUME NEW r \in Reference, r \notin stalled' PROVE Steady(r)'
  <2>1. Steady(r)
    BY <1>3, <1>6 DEF Calm
  <2>2. \A v \in Replica : Owns(v) => Owns(v)' /\ worker'[v].run = worker[v].run
    BY <1>2, PlaceOwnsNext DEF Owns
  <2>3. r = q => run[r] = "RUNNING"
    BY <1>1, <1>3, <1>6 DEF IInv, Sole, Taken
  <2>4. r # q => CasesOf(r)' = CasesOf(r)
    BY <1>3, <1>4 DEF CasesOf
  <2> QED
    BY <1>3, <2>1, <2>2, <2>3, <2>4 DEF Steady
<1> QED
  BY <1>2, <1>5, <1>6 DEF Calm, OwnCases

\* The run is complete by the attempt that stored its cases.
LEMMA FinalizeIsCalm ==
  ASSUME IInv, Calm, NEW w \in Replica, Busy(w), Finalize(w)
  PROVE  Calm'
<1> DEFINE q == worker[w].run
<1>1. q \in Reference /\ worker[w].at = "block" /\ Owns(w)
  BY CallFields, PlaceOwns DEF IInv, Finalize, At
<1>2. /\ worker'[w].at = "return"
      /\ \A v \in Replica \ {w} : worker'[v] = worker[v]
  BY GoesType DEF Finalize, IInv
<1>3. /\ cases' = cases /\ stalled' = stalled
      /\ finished' = finished \cup {Mark(w)}
      /\ run' = [run EXCEPT ![q] = "COMPLETED"]
  BY DEF Finalize, caseVars, Mark
<1>4. OwnCases'
  BY <1>2, <1>3 DEF Calm, OwnCases, CasesOf, Mark
<1>5. ASSUME NEW r \in Reference, r \notin stalled' PROVE Steady(r)'
  <2>1. Steady(r)
    BY <1>3, <1>5 DEF Calm
  <2>2. CASE r = q
    <3>1. run'[r] = "COMPLETED"
      BY <1>1, <1>3, <2>2 DEF IInv, TypeOK
    <3>2. \A c \in CasesOf(r) : Origin(c) = Mark(w)
      BY <1>1, <1>3, <1>5, <2>2 DEF Calm, OwnCases
    <3> QED
      BY <1>3, <3>1, <3>2 DEF Steady, CasesOf
  <2>3. CASE r # q
    <3>1. run'[r] = run[r]
      BY <1>1, <1>3, <2>3 DEF IInv, TypeOK
    <3>2. \A v \in Replica : Owns(v) /\ worker[v].run = r
                               => worker'[v] = worker[v]
      BY <1>2, <2>3
    <3> QED
      BY <1>3, <2>1, <3>1, <3>2 DEF Steady, CasesOf, Owns
  <2> QED
    BY <2>2, <2>3
<1> QED
  BY <1>2, <1>4, <1>5 DEF Calm

\* Any step but an error or a crash.
LEMMA StepIsCalm ==
  ASSUME IInv, Calm, Next, failures = 0, failures' = 0
  PROVE  Calm'
<1>1. ASSUME NEW w \in Replica,
             FinalizeUnacknowledged(w) \/ Throws(w) \/ Crash(w)
      PROVE  FALSE
  BY <1>1 DEF FinalizeUnacknowledged, Throws, Crash
<1>2. ASSUME NEW w \in Replica, NEW r \in Reference, Begin(w, r)
      PROVE  Calm'
  <2>1. /\ worker[w] = Idle /\ worker'[w].at = "claim"
        /\ \A v \in Replica \ {w} : worker'[v] = worker[v]
        /\ run' = run /\ cases' = cases /\ ghosts' = ghosts
    BY <1>2 DEF Begin, IInv, TypeOK, runVars, caseVars
  <2> QED
    BY <2>1, StillCalm DEF ghosts, Owns, Calm
<1>3. ASSUME NEW w \in Replica, Busy(w), Step(w) PROVE Calm'
  <2>1. CASE Turned(w)
    <3>1. /\ worker[w].at = "claim" /\ worker'[w].at = "return"
          /\ \A v \in Replica \ {w} : worker'[v] = worker[v]
          /\ run' = run /\ cases' = cases /\ ghosts' = ghosts
      BY <1>3, <2>1, GoesType DEF Turned, At, IInv, runVars, caseVars
    <3> QED
      BY <3>1, StillCalm DEF ghosts, Owns, Calm
  <2>2. CASE Return(w)
    <3>1. /\ worker[w].at = "return" /\ worker'[w] = Idle
          /\ \A v \in Replica \ {w} : worker'[v] = worker[v]
          /\ run' = run /\ cases' = cases /\ ghosts' = ghosts
      BY <2>2 DEF Return, At, IInv, TypeOK, runVars, caseVars
    <3> QED
      BY <3>1, StillCalm DEF ghosts, Owns, Calm, Idle
  <2>3. CASE Check(w)
    <3>1. worker[w] \in BusyCall
      BY <1>3, CallIsBusy DEF IInv
    <3>2. PICK found : worker' = [worker EXCEPT ![w].at = "persist",
                                                ![w].found = found]
      BY <2>3 DEF Check
    <3>3. /\ worker'[w].at = "persist" /\ worker'[w].run = worker[w].run
          /\ \A v \in Replica \ {w} : worker'[v] = worker[v]
      BY <3>1, <3>2 DEF IInv, TypeOK, BusyCall
    <3>4. run' = run /\ cases' = cases /\ ghosts' = ghosts /\ Owns(w)'
      BY <2>3, <3>3, PlaceOwnsNext DEF Check, caseVars
    <3> QED
      BY <3>3, <3>4, StillCalm DEF ghosts, Owns, Calm
  <2>4. ASSUME NEW p \in worker[w].todo, OpenBlocks(w, p) PROVE Calm'
    <3>1. worker[w] \in BusyCall
      BY <1>3, CallIsBusy DEF IInv
    <3>2. PICK todo : worker' = [worker EXCEPT ![w].todo = todo]
      BY <2>4 DEF OpenBlocks
    <3>3. /\ worker'[w].at = worker[w].at /\ worker'[w].run = worker[w].run
          /\ worker'[w].attempt = worker[w].attempt
          /\ \A v \in Replica \ {w} : worker'[v] = worker[v]
      BY <3>1, <3>2 DEF IInv, TypeOK, BusyCall
    <3>4. /\ run' = run /\ cases' = cases /\ ghosts' = ghosts
          /\ worker[w].at = "block" /\ Owns(w)'
      BY <2>4, <3>3, PlaceOwnsNext DEF OpenBlocks, At, runVars
    <3> QED
      BY <3>3, <3>4, StillCalm DEF ghosts, Owns, Calm
  <2>5. ~ MarkFailed(w)
    BY DEF MarkFailed, At, Calm
  <2> QED
    BY <1>3, <2>1, <2>2, <2>3, <2>4, <2>5, RecoverIsCalm, ClaimIsCalm,
       PersistIsCalm, FinalizeIsCalm DEF Step
<1>4. CASE \/ LeaseExpires \/ BulkResolveAll
           \/ \E r \in Reference : RunAges(r)
           \/ \E b \in ActiveBlocks : ReleaseBlock(b)
           \/ \E c \in DOMAIN cases : ResolveCase(c)
  <2>1. worker' = worker /\ run' = run /\ finished' = finished
    BY <1>4
    DEF LeaseExpires, BulkResolveAll, RunAges, ReleaseBlock, ResolveCase,
        runVars, ghosts
  <2>2. stalled \subseteq stalled'
    BY <1>4
    DEF LeaseExpires, BulkResolveAll, RunAges, ReleaseBlock, ResolveCase,
        ghosts
  <2>3. DOMAIN cases' = DOMAIN cases
    <3>1. ASSUME NEW c \in DOMAIN cases, ResolveCase(c)
          PROVE  DOMAIN cases' = DOMAIN cases
      BY <3>1 DEF ResolveCase, With
    <3>2. BulkResolveAll => DOMAIN cases' = DOMAIN cases
      BY DEF BulkResolveAll, With
    <3> QED
      BY <1>4, <3>1, <3>2 DEF LeaseExpires, RunAges, ReleaseBlock, caseVars
  <2> QED
    BY <2>1, <2>2, <2>3, StillCalm DEF Calm, Owns
<1> QED
  BY <1>1, <1>2, <1>3, <1>4 DEF Next, Busy

(***************************************************************************)
(* What claimRun takes for granted holds while no attempt fails or dies:   *)
(* then the critical cases of a completed run have had their blocks.  So   *)
(* it is only an attempt that ends between its transactions that leaves    *)
(* them without.                                                           *)
(***************************************************************************)
THEOREM OnlyBrokenAttemptsLeaveGaps ==
  Spec => [](failures = 0 => CompletedRunsBlocked)
<1> DEFINE J == failures = 0 => Calm
<1>1. Init => J
  <2> SUFFICES ASSUME Init PROVE Calm
    OBVIOUS
  <2>1. OwnCases
    BY DEF Init, OwnCases, Idle
  <2>2. \A r \in Reference : Steady(r)
    BY DEF Init, Steady, CasesOf
  <2> QED
    BY <2>1, <2>2 DEF Init, Calm, Idle
<1>2. IInv /\ J /\ [Next]_vars => J'
  <2> SUFFICES ASSUME IInv, J, [Next]_vars, failures' = 0 PROVE Calm'
    OBVIOUS
  <2>1. CASE Next
    <3>1. failures = 0
      <4>1. ASSUME NEW w \in Replica
            PROVE  /\ Step(w) => failures' = failures
                   /\ FinalizeUnacknowledged(w) \/ Throws(w) \/ Crash(w)
                        => failures' = failures + 1
                   /\ (\E r \in Reference : Begin(w, r))
                        => failures' = failures
        BY DEF Step, Begin, Turned, Recover, Claim, Check, PersistCases,
               OpenBlocks, Finalize, MarkFailed, Return,
               FinalizeUnacknowledged, Throws, Crash, counts
      <4>2. CASE \/ LeaseExpires \/ BulkResolveAll
                 \/ \E r \in Reference : RunAges(r)
                 \/ \E b \in ActiveBlocks : ReleaseBlock(b)
                 \/ \E c \in DOMAIN cases : ResolveCase(c)
        BY <4>2
        DEF LeaseExpires, BulkResolveAll, RunAges, ReleaseBlock, ResolveCase,
            counts
      <4>3. failures' = failures \/ failures' = failures + 1
        BY <2>1, <4>1, <4>2 DEF Next
      <4>4. failures \in Nat
        BY BoundAssumption DEF IInv, TypeOK
      <4> QED
        BY <4>3, <4>4
    <3> QED
      BY <2>1, <3>1, StepIsCalm
  <2>2. CASE UNCHANGED vars
    <3>1. failures = 0 /\ Calm
      BY <2>2 DEF vars, counts
    <3> QED
      BY <2>2, <3>1, StillCalm
      DEF vars, runVars, caseVars, ghosts, Owns, Calm
  <2> QED
    BY <2>1, <2>2
<1>3. IInv /\ J => (failures = 0 => CompletedRunsBlocked)
  <2> SUFFICES ASSUME IInv, Calm, NEW c \in DOMAIN cases,
                      run[c.run] = "COMPLETED", c.run \notin stalled
               PROVE  BlocksWanted(c) \subseteq DOMAIN blocks
    BY DEF CompletedRunsBlocked
  <2>1. c.run \in Reference /\ c \in CasesOf(c.run)
    BY DEF IInv, TypeOK, Case, CasesOf
  <2>2. Origin(c) \in finished
    BY <2>1 DEF Calm, Steady
  <2> QED
    BY <2>2 DEF IInv, FinishedAttemptsBlocked, Origin
<1> QED
  BY Invariance, <1>1, <1>2, <1>3, PTL DEF Spec
-----------------------------------------------------------------------------
(* What may be wrong about a resolved case.                                *)

\* Blocks, those still to be opened too, refer to cases that are stored.
Referenced ==
  /\ \A b \in DOMAIN blocks : b.case \in DOMAIN cases
  /\ \A w \in Replica : Busy(w) =>
       \A p \in worker[w].todo : p[1] \in DOMAIN cases

\* Cases are never deleted.
LEMMA StepKeepsReferences ==
  ASSUME TypeOK, Referenced, [Next]_vars
  PROVE  Referenced'
<1>1. ASSUME DOMAIN cases \subseteq DOMAIN cases',
             DOMAIN blocks' \subseteq DOMAIN blocks,
             \A v \in Replica : Busy(v)' =>
               \/ worker'[v].todo = {}
               \/ Busy(v) /\ worker'[v].todo \subseteq worker[v].todo
      PROVE  Referenced'
  BY <1>1 DEF Referenced
<1>2. ASSUME NEW w \in Replica, Busy(w), NEW place \in
               {"claim", "check", "persist", "block", "failed", "return"},
             Goes(w, place), caseVars' = caseVars
      PROVE  Referenced'
  BY <1>1, <1>2, GoesType DEF Busy, caseVars
<1>3. ASSUME NEW w \in Replica,
             \/ Turned(w) \/ Recover(w) \/ Finalize(w) \/ MarkFailed(w)
             \/ FinalizeUnacknowledged(w) \/ Throws(w)
      PROVE  Referenced'
  <2>1. Busy(w)
    BY <1>3, NotIdle
    DEF Turned, Recover, Finalize, MarkFailed, FinalizeUnacknowledged, Throws,
        At
  <2> QED
    BY <1>2, <1>3, <2>1
    DEF Turned, Recover, Finalize, MarkFailed, FinalizeUnacknowledged, Throws,
        caseVars
<1>4. ASSUME NEW w \in Replica, Busy(w), Claim(w) \/ Check(w)
      PROVE  Referenced'
  <2>1. worker[w] \in BusyCall
    BY <1>4, CallIsBusy
  <2>2. \/ worker' = [worker EXCEPT ![w].at = "check",
                                    ![w].attempt = attempts[worker[w].run] + 1]
        \/ \E found : worker' = [worker EXCEPT ![w].at = "persist",
                                               ![w].found = found]
    BY <1>4 DEF Claim, Check
  <2>3. worker'[w].todo = worker[w].todo
    BY <2>1, <2>2 DEF TypeOK, BusyCall
  <2>4. \A v \in Replica \ {w} : worker'[v] = worker[v]
    BY <2>2 DEF TypeOK
  <2>5. cases' = cases /\ blocks' = blocks
    BY <1>4 DEF Claim, Check, caseVars
  <2> QED
    BY <1>1, <1>4, <2>3, <2>4, <2>5 DEF Busy
<1>5. ASSUME NEW w \in Replica, Busy(w), PersistCases(w)
      PROVE  Referenced'
  <2> DEFINE new == {CaseFor(w, f) : f \in worker[w].found}
             todo == {p \in new \X User : /\ Blocks(p[1].finding)
                                          /\ p[2] \in Concerns[p[1].finding]}
  <2>1. worker' = [worker EXCEPT ![w].at = "block", ![w].todo = todo]
    BY <1>5 DEF PersistCases
  <2>2. DOMAIN cases' = DOMAIN cases \cup new /\ blocks' = blocks
    BY <1>5, WithAdds DEF PersistCases
  <2>3. \A p \in todo : p[1] \in new
    OBVIOUS
  <2> HIDE DEF todo, new
  <2>4. worker[w] \in BusyCall
    BY <1>5, CallIsBusy
  <2>5. /\ worker'[w].todo = todo
        /\ \A v \in Replica \ {w} : worker'[v] = worker[v]
    BY <2>1, <2>4 DEF TypeOK, BusyCall
  <2> QED
    BY <2>2, <2>3, <2>5 DEF Referenced, Busy
<1>6. ASSUME NEW w \in Replica, Busy(w),
             NEW p \in worker[w].todo, OpenBlocks(w, p)
      PROVE  Referenced'
  <2> DEFINE S == {[case |-> p[1], user |-> p[2], scope |-> s] :
                     s \in Scopes[p[1].finding]}
             todo == worker[w].todo \ {p}
  <2>1. DOMAIN blocks' = DOMAIN blocks \cup S /\ cases' = cases
    <3>1. blocks' = With(blocks, S, "active") /\ cases' = cases
      BY <1>6 DEF OpenBlocks
    <3> HIDE DEF S
    <3> QED
      BY <3>1, WithAdds
  <2>2. \A b \in S : b.case \in DOMAIN cases
    BY <1>6 DEF Referenced
  <2> HIDE DEF S
  <2>3. worker[w] \in BusyCall
    BY <1>6, CallIsBusy
  <2>4. worker' = [worker EXCEPT ![w].todo = todo]
    BY <1>6, <2>3 DEF OpenBlocks, TypeOK
  <2>5. /\ worker'[w].todo \subseteq worker[w].todo
        /\ \A v \in Replica \ {w} : worker'[v] = worker[v]
    BY <2>3, <2>4 DEF TypeOK, BusyCall
  <2> QED
    BY <1>6, <2>1, <2>2, <2>5 DEF Referenced, Busy
<1>7. ASSUME NEW w \in Replica,
             \/ Return(w) \/ Crash(w) \/ \E r \in Reference : Begin(w, r)
      PROVE  Referenced'
  <2>1. /\ worker'[w] = Idle \/ worker'[w].todo = {}
        /\ \A v \in Replica \ {w} : worker'[v] = worker[v]
    BY <1>7 DEF Return, Crash, Begin, TypeOK
  <2>2. cases' = cases /\ blocks' = blocks
    BY <1>7 DEF Return, Crash, Begin, caseVars
  <2> QED
    BY <1>1, <2>1, <2>2 DEF Busy
<1>8. CASE \/ LeaseExpires \/ (\E r \in Reference : RunAges(r))
           \/ UNCHANGED vars
  BY <1>1, <1>8 DEF LeaseExpires, RunAges, vars, caseVars, Busy
<1>9. CASE \/ \E b \in ActiveBlocks : ReleaseBlock(b)
           \/ \E c \in DOMAIN cases : ResolveCase(c)
           \/ BulkResolveAll
  <2>1. worker' = worker
    BY <1>9 DEF ReleaseBlock, ResolveCase, BulkResolveAll
  <2>2. DOMAIN cases \subseteq DOMAIN cases'
    <3>1. ASSUME NEW c \in DOMAIN cases, ResolveCase(c)
          PROVE  DOMAIN cases \subseteq DOMAIN cases'
      BY <3>1 DEF ResolveCase, With
    <3>2. BulkResolveAll => DOMAIN cases \subseteq DOMAIN cases'
      BY DEF BulkResolveAll, With
    <3> QED
      BY <1>9, <3>1, <3>2 DEF ReleaseBlock
  <2>3. DOMAIN blocks' \subseteq DOMAIN blocks
    <3>1. ASSUME NEW b \in ActiveBlocks, ReleaseBlock(b)
          PROVE  DOMAIN blocks' \subseteq DOMAIN blocks
      BY <3>1 DEF ReleaseBlock, With, ActiveBlocks
    <3>2. BulkResolveAll => DOMAIN blocks' \subseteq DOMAIN blocks
      BY DEF BulkResolveAll, With
    <3> QED
      BY <1>9, <3>1, <3>2 DEF ResolveCase
  <2> QED
    BY <1>1, <2>1, <2>2, <2>3 DEF Busy
<1> QED
  BY <1>3, <1>4, <1>5, <1>6, <1>7, <1>8, <1>9 DEF Next, Step, Busy

\* So it is in every state.
LEMMA References == Spec => []Referenced
<1>1. Init => Referenced
  BY DEF Init, Referenced, Busy
<1> QED
  BY <1>1, StepKeepsReferences, Typing, PTL DEF Spec

\* What a step may leave of resolved cases with active blocks.
OpenedLate(b) ==
  \E w \in Replica : At(w, "block") /\ <<b.case, b.user>> \in worker[w].todo
ResolvedStay ==
  \A b \in ActiveBlocks' :
    cases'[b.case] = "resolved" =>
      (b \in ActiveBlocks /\ cases[b.case] = "resolved") \/ OpenedLate(b)

(***************************************************************************)
(* A resolved case has an active block only because an attempt was not     *)
(* done: no operator resolves a case with an active block, and it is a     *)
(* worker with that block still to open that opens it after the case was   *)
(* resolved.                                                               *)
(***************************************************************************)
THEOREM OnlyLateBlocksRemain == Spec => [][ResolvedStay]_vars
<1>1. ASSUME TypeOK, Referenced, Referenced', Next, NEW b \in ActiveBlocks',
             cases'[b.case] = "resolved", ~ OpenedLate(b)
      PROVE  b \in ActiveBlocks /\ cases[b.case] = "resolved"
  <2>1. b \in DOMAIN blocks' /\ blocks'[b] = "active"
    BY <1>1 DEF ActiveBlocks
  <2>2. ASSUME caseVars' = caseVars
        PROVE  b \in ActiveBlocks /\ cases[b.case] = "resolved"
    BY <1>1, <2>1, <2>2 DEF caseVars, ActiveBlocks
  <2>3. ASSUME NEW w \in Replica, PersistCases(w)
        PROVE  b \in ActiveBlocks /\ cases[b.case] = "resolved"
    <3>1. PICK S : cases' = With(cases, S, "unresolved") /\ blocks' = blocks
      BY <2>3 DEF PersistCases
    <3>2. b \in ActiveBlocks /\ b.case \in DOMAIN cases'
      BY <1>1, <2>1, <3>1 DEF ActiveBlocks, Referenced
    <3> QED
      BY <1>1, <3>1, <3>2 DEF With
  <2>4. ASSUME NEW w \in Replica, NEW p \in worker[w].todo, OpenBlocks(w, p)
        PROVE  b \in ActiveBlocks /\ cases[b.case] = "resolved"
    <3> DEFINE S == {[case |-> p[1], user |-> p[2], scope |-> s] :
                       s \in Scopes[p[1].finding]}
    <3>1. /\ blocks' = With(blocks, S, "active") /\ cases' = cases
          /\ At(w, "block")
      BY <2>4 DEF OpenBlocks
    <3>2. b \notin S
      <4>1. worker[w].todo \subseteq Case \X User
        BY <1>1, <3>1, NotIdle, CallFields DEF At
      <4>2. p = <<p[1], p[2]>>
        BY <4>1
      <4> QED
        BY <1>1, <3>1, <4>2 DEF OpenedLate
    <3> HIDE DEF S
    <3> QED
      BY <1>1, <2>1, <3>1, <3>2 DEF With, ActiveBlocks
  <2>5. ASSUME NEW d \in ActiveBlocks, ReleaseBlock(d)
        PROVE  b \in ActiveBlocks /\ cases[b.case] = "resolved"
    BY <1>1, <2>1, <2>5 DEF ReleaseBlock, With, ActiveBlocks
  <2>6. ASSUME NEW c \in DOMAIN cases, ResolveCase(c)
        PROVE  b \in ActiveBlocks /\ cases[b.case] = "resolved"
    <3>1. b \in ActiveBlocks /\ b.case # c
      BY <2>1, <2>6 DEF ResolveCase, ActiveBlocks
    <3>2. cases' = With(cases, {c}, "resolved") /\ b.case \in DOMAIN cases
      BY <1>1, <2>6, <3>1 DEF ResolveCase, Referenced, ActiveBlocks
    <3> QED
      BY <1>1, <3>1, <3>2 DEF With
  <2>7. ~ BulkResolveAll
    BY <2>1 DEF BulkResolveAll, With
  <2>8. ASSUME NEW w \in Replica,
               \/ Turned(w) \/ Recover(w) \/ Claim(w) \/ Check(w)
               \/ Finalize(w) \/ MarkFailed(w) \/ Return(w)
               \/ FinalizeUnacknowledged(w) \/ Throws(w) \/ Crash(w)
               \/ \E r \in Reference : Begin(w, r)
        PROVE  caseVars' = caseVars
    BY <2>8
    DEF Turned, Recover, Claim, Check, Finalize, MarkFailed, Return,
        FinalizeUnacknowledged, Throws,
        Crash, Begin, caseVars
  <2>9. LeaseExpires \/ (\E r \in Reference : RunAges(r))
          => caseVars' = caseVars
    BY DEF LeaseExpires, RunAges, caseVars
  <2> QED
    BY <1>1, <2>2, <2>3, <2>4, <2>5, <2>6, <2>7, <2>8, <2>9 DEF Next, Step
<1>2. TypeOK /\ Referenced /\ Referenced' /\ [Next]_vars
        => [ResolvedStay]_vars
  BY <1>1 DEF ResolvedStay
<1> QED
  BY <1>2, Typing, References, PTL DEF Spec
=============================================================================
