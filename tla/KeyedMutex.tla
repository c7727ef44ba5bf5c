----------------------------- MODULE KeyedMutex -----------------------------
(***************************************************************************)
(* userMutationMutex, the process-local keyed mutex of                     *)
(* apps/trade/src/server/locks.ts.  There is no queue and no owner field:  *)
(* a call of runExclusive reads the promise stored for its key, stores a   *)
(* promise of its own, and waits for the one it read.  A stored promise is *)
(* named here by the call that stored it.                                  *)
(***************************************************************************)
EXTENDS Naturals

CONSTANTS Call,    \* invocations of runExclusive
          Key,     \* user ids
          KeyOf,   \* [Call -> Key]
          NoCall   \* the absent map entry, i.e. Promise.resolve()

ASSUME KeyOfIsFunction == KeyOf \in [Call -> Key]
ASSUME NoCallIsNotACall == NoCall \notin Call

VARIABLES
  tails,      \* [Key -> Call \cup {NoCall}]: the map `tails`
  previous,   \* [Call -> Call \cup {NoCall}]: what a call awaits
  pc,         \* [Call -> stage of the call]
  arrival,    \* [Call -> Nat]: history, the rank of the call (0: not made)
  clock       \* history, the number of calls made

vars == <<tails, previous, pc, arrival, clock>>

Made(c) == pc[c] # "idle"
Over(c) == pc[c] \in {"done", "failed"}
SameKey(c, d) == KeyOf[c] = KeyOf[d]

Init ==
  /\ tails = [k \in Key |-> NoCall]
  /\ previous = [c \in Call |-> NoCall]
  /\ pc = [c \in Call |-> "idle"]
  /\ arrival = [c \in Call |-> 0]
  /\ clock = 0

\* Defect: an await separates reading the tail from storing the new one, so
\* two calls may chain behind the same promise.
RequestWithoutChaining(c) ==
  /\ pc[c] = "idle"
  /\ previous' = [previous EXCEPT ![c] = tails[KeyOf[c]]]
  /\ tails' = IF tails[KeyOf[c]] = NoCall
              THEN [tails EXCEPT ![KeyOf[c]] = c] ELSE tails
  /\ pc' = [pc EXCEPT ![c] = "waiting"]
  /\ arrival' = [arrival EXCEPT ![c] = clock + 1]
  /\ clock' = clock + 1

\* Defect: the map is rebuilt with the caller's entry alone.
RequestRebuildsMap(c) ==
  /\ pc[c] = "idle"
  /\ previous' = [previous EXCEPT ![c] = tails[KeyOf[c]]]
  /\ tails' = [k \in {KeyOf[c]} |-> c]
  /\ pc' = [pc EXCEPT ![c] = "waiting"]
  /\ arrival' = [arrival EXCEPT ![c] = clock + 1]
  /\ clock' = clock + 1

\* Up to the first await: read the key's tail, then replace it.
Request(c) ==
  /\ pc[c] = "idle"
  /\ previous' = [previous EXCEPT ![c] = tails[KeyOf[c]]]
  /\ tails' = [tails EXCEPT ![KeyOf[c]] = c]
  /\ pc' = [pc EXCEPT ![c] = "waiting"]
  /\ arrival' = [arrival EXCEPT ![c] = clock + 1]
  /\ clock' = clock + 1

\* Defect: the rejection of the previous call is not swallowed, and its
\* successor never runs.
EnterUnlessFailed(c) ==
  /\ pc[c] = "waiting"
  /\ previous[c] # NoCall => pc[previous[c]] = "done"
  /\ pc' = [pc EXCEPT ![c] = "working"]
  /\ UNCHANGED <<tails, previous, arrival, clock>>

\* The awaited tail has settled: its own call released, and what that call
\* awaited had settled before it began.
Enter(c) ==
  /\ pc[c] = "waiting"
  /\ previous[c] # NoCall => Over(previous[c])
  /\ pc' = [pc EXCEPT ![c] = "working"]
  /\ UNCHANGED <<tails, previous, arrival, clock>>

\* Defect: the entry is deleted without comparing it with the call's own tail.
FinishDeletesAnyTail(c) ==
  /\ pc[c] = "working"
  /\ pc' = [pc EXCEPT ![c] = "done"]
  /\ tails' = [tails EXCEPT ![KeyOf[c]] = NoCall]
  /\ UNCHANGED <<previous, arrival, clock>>

\* Defect: the entry is never deleted.
FinishKeepsTail(c) ==
  /\ pc[c] = "working"
  /\ pc' = [pc EXCEPT ![c] = "done"]
  /\ UNCHANGED <<tails, previous, arrival, clock>>

\* The finally block: work() returned or threw; release the successor, and
\* drop the map entry if no later call has replaced it.
Finish(c) ==
  /\ pc[c] = "working"
  /\ \E outcome \in {"done", "failed"} : pc' = [pc EXCEPT ![c] = outcome]
  /\ tails' = IF tails[KeyOf[c]] = c
              THEN [tails EXCEPT ![KeyOf[c]] = NoCall] ELSE tails
  /\ UNCHANGED <<previous, arrival, clock>>

Next == \E c \in Call : Request(c) \/ Enter(c) \/ Finish(c)

Spec == Init /\ [][Next]_vars

\* The event loop runs every settled continuation, and the work of every
\* holder (a database transaction with a timeout) ends.
FairSpec ==
  /\ Spec
  /\ \A c \in Call : WF_vars(Enter(c)) /\ WF_vars(Finish(c))

-----------------------------------------------------------------------------

TypeOK ==
  /\ tails \in [Key -> Call \cup {NoCall}]
  /\ previous \in [Call -> Call \cup {NoCall}]
  /\ pc \in [Call -> {"idle", "waiting", "working", "done", "failed"}]
  /\ arrival \in [Call -> Nat]
  /\ clock \in Nat

(***************************************************************************)
(* A money or position mutation never overlaps another of the same user,   *)
(* although the map entry is deleted before the successor has woken up.    *)
(***************************************************************************)
MutualExclusion ==
  \A c, d \in Call :
    pc[c] = "working" /\ pc[d] = "working" /\ SameKey(c, d) => c = d

(***************************************************************************)
(* First come, first served: when a call's work runs, every call made      *)
(* earlier for its key is over.  A call that arrives between a release and *)
(* the wake-up of the released call cannot overtake it.                    *)
(***************************************************************************)
Fifo ==
  \A c, d \in Call :
    /\ pc[c] = "working"
    /\ Made(d) /\ SameKey(c, d) /\ arrival[d] < arrival[c]
    => Over(d)

(***************************************************************************)
(* The map keeps no entry for a user with no call in progress: it cannot   *)
(* grow with the number of users ever seen.                                *)
(***************************************************************************)
NoLeakedTail ==
  \A k \in Key :
    (\A c \in Call : KeyOf[c] = k => pc[c] = "idle" \/ Over(c))
      => tails[k] = NoCall

(***************************************************************************)
(* A call that waits is eventually served, even when the work of the calls *)
(* before it throws.                                                       *)
(***************************************************************************)
EveryCallServed ==
  \A c \in Call : pc[c] = "waiting" ~> Over(c)

(***************************************************************************)
(* The promise chain implements the lock its callers rely on.              *)
(***************************************************************************)
Abstract == INSTANCE Lock WITH
  asked   <- {c \in Call : Made(c)},
  before  <- [c \in Call |->
                IF Made(c)
                THEN {d \in Call : /\ Made(d) /\ SameKey(c, d)
                                   /\ arrival[d] < arrival[c]}
                ELSE {}],
  running <- {c \in Call : pc[c] = "working"},
  over    <- {c \in Call : Over(c)}

ImplementsLock == Abstract!Spec

=============================================================================
