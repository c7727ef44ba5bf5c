-------------------------- MODULE KeyedMutex_proofs --------------------------
(***************************************************************************)
(* The mutex of locks.ts is correct for any set of calls and of keys.      *)
(* Mutual exclusion is not inductive: it rests on the order of the chain,  *)
(* which IInv makes explicit (a tail is the latest call of its key; a call *)
(* awaits the call made just before it; a call that has begun has only     *)
(* finished calls before it).                                              *)
(***************************************************************************)
EXTENDS KeyedMutex, WellFoundedInduction, TLAPS

Begun(c) == pc[c] \in {"working", "done", "failed"}

Earlier(d, c) == Made(d) /\ SameKey(d, c) /\ arrival[d] < arrival[c]

\* Calls are ranked by a clock that never repeats.
Ranked ==
  /\ \A c \in Call : arrival[c] <= clock
  /\ \A c \in Call : Made(c) => arrival[c] > 0
  /\ \A c, d \in Call : Made(c) /\ Made(d) /\ arrival[c] = arrival[d] => c = d

\* The entry of a key is its latest call, and is there while a call is open.
LatestAt(k) ==
  IF tails[k] = NoCall
  THEN \A c \in Call : KeyOf[c] = k => pc[c] = "idle" \/ Over(c)
  ELSE /\ KeyOf[tails[k]] = k
       /\ pc[tails[k]] \in {"waiting", "working"}
       /\ \A c \in Call :
            Made(c) /\ KeyOf[c] = k => arrival[c] <= arrival[tails[k]]

TailIsLatest == \A k \in Key : LatestAt(k)

\* A call awaits the one made just before it.
Chained(c) ==
  IF previous[c] = NoCall
  THEN \A d \in Call : Earlier(d, c) => Over(d)
  ELSE /\ Earlier(previous[c], c)
       /\ \A d \in Call : Earlier(d, c) => arrival[d] <= arrival[previous[c]]

AwaitsPredecessor == \A c \in Call : Made(c) => Chained(c)

\* Fifo, kept after the call is over.
BegunInOrder ==
  \A c, d \in Call : Begun(c) /\ Earlier(d, c) => Over(d)

IInv == TypeOK /\ Ranked /\ TailIsLatest /\ AwaitsPredecessor /\ BegunInOrder

-----------------------------------------------------------------------------

LEMMA InitIInv == Init => IInv
BY KeyOfIsFunction
DEF Init, IInv, TypeOK, Ranked, TailIsLatest, AwaitsPredecessor,
    BegunInOrder, Begun, Earlier, Made, Over, LatestAt, Chained

LEMMA RequestPreserves ==
  ASSUME IInv, NEW c \in Call, Request(c)
  PROVE  IInv'
<1> USE KeyOfIsFunction, NoCallIsNotACall
<1> USE DEF Made, Over, SameKey, Earlier, Begun, LatestAt, Chained
<1>1. TypeOK'
  <2>1. KeyOf[c] \in Key /\ tails[KeyOf[c]] \in Call \cup {NoCall}
    BY DEF IInv, TypeOK
  <2>2. tails' \in [Key -> Call \cup {NoCall}]
    BY <2>1 DEF IInv, TypeOK, Request
  <2>3. previous' \in [Call -> Call \cup {NoCall}]
    BY <2>1 DEF IInv, TypeOK, Request
  <2>4. arrival' \in [Call -> Nat] /\ clock' \in Nat
    BY DEF IInv, TypeOK, Request
  <2>5. pc' \in [Call -> {"idle", "waiting", "working", "done", "failed"}]
    BY DEF IInv, TypeOK, Request
  <2> QED BY <2>2, <2>3, <2>4, <2>5 DEF TypeOK
<1>2. Ranked'
  BY DEF IInv, TypeOK, Ranked, Request
<1>3. TailIsLatest'
  <2> SUFFICES ASSUME NEW k \in Key
               PROVE  LatestAt(k)'
    BY DEF TailIsLatest
  <2>1. CASE k = KeyOf[c]
    <3>1. tails'[k] = c
      BY <2>1 DEF IInv, TypeOK, Request
    <3>2. \A d \in Call : Made(d)' /\ KeyOf[d] = k => arrival'[d] <= arrival'[c]
      BY DEF IInv, TypeOK, Ranked, Request
    <3> QED BY <2>1, <3>1, <3>2 DEF IInv, TypeOK, Request
  <2>2. CASE k # KeyOf[c]
    <3>1. tails'[k] = tails[k]
      BY <2>2 DEF IInv, TypeOK, Request
    <3>2. \A d \in Call : KeyOf[d] = k => pc'[d] = pc[d] /\ arrival'[d] = arrival[d]
      BY <2>2 DEF IInv, TypeOK, Request
    <3> QED BY <3>1, <3>2 DEF IInv, TypeOK, TailIsLatest
  <2> QED BY <2>1, <2>2
<1>4. AwaitsPredecessor'
  <2> SUFFICES ASSUME NEW d \in Call, Made(d)'
               PROVE  Chained(d)'
    BY DEF AwaitsPredecessor
  <2>1. CASE d = c
    <3>1. previous'[d] = tails[KeyOf[c]]
      BY <2>1 DEF IInv, TypeOK, Request
    <3>2. \A e \in Call : Earlier(e, d)' => e # c /\ Made(e) /\ SameKey(e, c)
      BY <2>1 DEF IInv, TypeOK, Request
    <3>3. \A e \in Call : e # c => pc'[e] = pc[e] /\ arrival'[e] = arrival[e]
      BY DEF IInv, TypeOK, Request
    <3>4. CASE tails[KeyOf[c]] = NoCall
      BY <2>1, <3>1, <3>2, <3>3, <3>4 DEF IInv, TypeOK, TailIsLatest
    <3>5. CASE tails[KeyOf[c]] # NoCall
      <4> DEFINE t == tails[KeyOf[c]]
      <4>1. t \in Call /\ t # c /\ Made(t) /\ SameKey(t, c)
        <5>1. KeyOf[c] \in Key /\ t \in Call
          BY <3>5 DEF IInv, TypeOK
        <5>2. KeyOf[t] = KeyOf[c] /\ pc[t] \in {"waiting", "working"}
          BY <3>5, <5>1 DEF IInv, TailIsLatest
        <5> QED BY <5>1, <5>2 DEF Request
      <4>2. arrival'[t] < arrival'[c]
        BY <4>1, <3>3 DEF IInv, TypeOK, Ranked, Request
      <4>3. \A e \in Call : Earlier(e, d)' => arrival'[e] <= arrival'[t]
        BY <3>2, <3>3, <3>5, <4>1 DEF IInv, TypeOK, TailIsLatest
      <4> QED BY <2>1, <3>1, <3>3, <3>5, <4>1, <4>2, <4>3
    <3> QED BY <3>4, <3>5
  <2>2. CASE d # c
    <3>1. \A e \in Call : e # c => pc'[e] = pc[e] /\ arrival'[e] = arrival[e]
      BY DEF IInv, TypeOK, Request
    <3>2. ~ Earlier(c, d)'
      BY <2>2, <3>1 DEF IInv, TypeOK, Ranked, Request
    <3>3. \A e \in Call : Earlier(e, d)' => Earlier(e, d) /\ e # c
      BY <2>2, <3>1, <3>2
    <3>4. previous'[d] = previous[d] /\ Made(d)
      BY <2>2, <3>1 DEF IInv, TypeOK, Request
    <3>5. CASE previous[d] = NoCall
      BY <3>1, <3>3, <3>4, <3>5 DEF IInv, AwaitsPredecessor
    <3>6. CASE previous[d] # NoCall
      <4>1. previous[d] \in Call /\ previous[d] # c /\ Earlier(previous[d], d)
        BY <3>4, <3>6 DEF IInv, TypeOK, AwaitsPredecessor, Request
      <4>2. \A e \in Call : Earlier(e, d) => arrival[e] <= arrival[previous[d]]
        BY <3>4, <3>6 DEF IInv, AwaitsPredecessor
      <4> QED BY <2>2, <3>1, <3>3, <3>4, <3>6, <4>1, <4>2
    <3> QED BY <3>5, <3>6
  <2> QED BY <2>1, <2>2
<1>5. BegunInOrder'
  BY DEF IInv, TypeOK, Ranked, BegunInOrder, Request
<1> QED BY <1>1, <1>2, <1>3, <1>4, <1>5 DEF IInv

LEMMA EnterPreserves ==
  ASSUME IInv, NEW c \in Call, Enter(c)
  PROVE  IInv'
<1> USE KeyOfIsFunction, NoCallIsNotACall
<1> USE DEF Made, Over, SameKey, Earlier, Begun, LatestAt, Chained
<1>1. TypeOK' /\ Ranked'
  BY DEF IInv, TypeOK, Ranked, Enter
<1>2. TailIsLatest'
  BY DEF IInv, TypeOK, TailIsLatest, Enter
<1>3. AwaitsPredecessor'
  BY DEF IInv, TypeOK, AwaitsPredecessor, Enter
<1>4. \A d \in Call : Earlier(d, c) => Over(d)
  <2> SUFFICES ASSUME NEW d \in Call, Earlier(d, c)
               PROVE  Over(d)
    OBVIOUS
  <2>1. CASE previous[c] = NoCall
    BY <2>1 DEF IInv, AwaitsPredecessor, Enter
  <2>2. CASE previous[c] # NoCall
    <3>1. previous[c] \in Call /\ Over(previous[c]) /\ Made(previous[c])
      BY <2>2 DEF IInv, TypeOK, Enter
    <3>2. SameKey(previous[c], c) /\ arrival[d] <= arrival[previous[c]]
      BY <2>2 DEF IInv, AwaitsPredecessor, Enter
    <3>3. CASE arrival[d] = arrival[previous[c]]
      BY <3>1, <3>3 DEF IInv, Ranked
    <3>4. CASE arrival[d] # arrival[previous[c]]
      <4>1. Earlier(d, previous[c])
        BY <3>1, <3>2, <3>4 DEF IInv, TypeOK
      <4> QED BY <3>1, <4>1 DEF IInv, BegunInOrder
    <3> QED BY <3>3, <3>4
  <2> QED BY <2>1, <2>2
<1>5. BegunInOrder'
  BY <1>4 DEF IInv, TypeOK, BegunInOrder, Enter
<1> QED BY <1>1, <1>2, <1>3, <1>5 DEF IInv

LEMMA FinishPreserves ==
  ASSUME IInv, NEW c \in Call, Finish(c)
  PROVE  IInv'
<1> USE KeyOfIsFunction, NoCallIsNotACall
<1> USE DEF Made, Over, SameKey, Earlier, Begun, LatestAt, Chained
<1>1. PICK outcome \in {"done", "failed"} : pc' = [pc EXCEPT ![c] = outcome]
  BY DEF Finish
<1>2. TypeOK' /\ Ranked'
  BY <1>1 DEF IInv, TypeOK, Ranked, Finish
<1>3. \A d \in Call : Made(d) /\ SameKey(d, c) /\ arrival[d] <= arrival[c]
                        => Over(d)'
  BY <1>1 DEF IInv, TypeOK, Ranked, BegunInOrder, Finish
<1>4. TailIsLatest'
  <2> SUFFICES ASSUME NEW k \in Key
               PROVE  LatestAt(k)'
    BY DEF TailIsLatest
  <2>1. CASE tails[k] = c
    <3>1. k = KeyOf[c] /\ tails'[k] = NoCall
      BY <2>1 DEF IInv, TypeOK, TailIsLatest, Finish
    <3>2. \A d \in Call : Made(d) /\ KeyOf[d] = k => arrival[d] <= arrival[c]
      BY <2>1 DEF IInv, TailIsLatest
    <3>3. \A d \in Call : KeyOf[d] = k => pc'[d] = "idle" \/ Over(d)'
      BY <1>1, <1>3, <3>1, <3>2 DEF IInv, TypeOK, Finish
    <3> QED BY <3>1, <3>3
  <2>2. CASE tails[k] # c
    <3>1. tails'[k] = tails[k]
      BY <2>2 DEF IInv, TypeOK, Finish
    <3> QED BY <1>1, <2>2, <3>1 DEF IInv, TypeOK, TailIsLatest, Finish
  <2> QED BY <2>1, <2>2
<1>5. AwaitsPredecessor'
  BY <1>1 DEF IInv, TypeOK, AwaitsPredecessor, Finish
<1>6. BegunInOrder'
  BY <1>1 DEF IInv, TypeOK, BegunInOrder, Finish
<1> QED BY <1>2, <1>4, <1>5, <1>6 DEF IInv

(***************************************************************************)
(* The strengthened invariant holds of every behaviour of the mutex.       *)
(***************************************************************************)
THEOREM Invariance == Spec => []IInv
<1>1. IInv /\ [Next]_vars => IInv'
  <2> SUFFICES ASSUME IInv, [Next]_vars
               PROVE  IInv'
    OBVIOUS
  <2>1. ASSUME NEW c \in Call, Request(c) PROVE IInv'
    BY <2>1, RequestPreserves
  <2>2. ASSUME NEW c \in Call, Enter(c) PROVE IInv'
    BY <2>2, EnterPreserves
  <2>3. ASSUME NEW c \in Call, Finish(c) PROVE IInv'
    BY <2>3, FinishPreserves
  <2>4. CASE UNCHANGED vars
    BY <2>4 DEF vars, IInv, TypeOK, Ranked, TailIsLatest, AwaitsPredecessor,
                BegunInOrder, Begun, Earlier, Made, Over, SameKey, LatestAt, Chained
  <2> QED BY <2>1, <2>2, <2>3, <2>4 DEF Next
<1> QED BY InitIInv, <1>1, PTL DEF Spec

(***************************************************************************)
(* However many calls are made, a call's turn is the promise it found, and *)
(* the tail of a key is a call of that key.                                *)
(***************************************************************************)
THEOREM Typing == Spec => []TypeOK
<1>1. IInv => TypeOK
  BY DEF IInv
<1> QED
  BY <1>1, Invariance, PTL

(***************************************************************************)
(* Calls of one key run in the order in which they were made.              *)
(***************************************************************************)
THEOREM FirstComeFirstServed == Spec => []Fifo
<1>1. IInv => Fifo
  BY DEF IInv, BegunInOrder, Fifo, Begun, Earlier, Made, SameKey
<1> QED BY Invariance, <1>1, PTL

(***************************************************************************)
(* Two mutations of the same user never overlap.                           *)
(***************************************************************************)
THEOREM Exclusion == Spec => []MutualExclusion
<1>1. IInv => MutualExclusion
  <2> SUFFICES ASSUME IInv, NEW c \in Call, NEW d \in Call,
                      pc[c] = "working", pc[d] = "working", SameKey(c, d)
               PROVE  c = d
    BY DEF MutualExclusion
  <2>1. ~ Earlier(c, d) /\ ~ Earlier(d, c)
    BY DEF IInv, BegunInOrder, Begun, Over
  <2>2. arrival[c] = arrival[d]
    BY <2>1 DEF IInv, TypeOK, Earlier, Made, SameKey
  <2> QED BY <2>2 DEF IInv, Ranked, Made
<1> QED BY Invariance, <1>1, PTL

(***************************************************************************)
(* The map holds no entry for a user without a call in progress.           *)
(***************************************************************************)
THEOREM NoLeak == Spec => []NoLeakedTail
<1>1. IInv => NoLeakedTail
  BY NoCallIsNotACall
  DEF IInv, TypeOK, TailIsLatest, LatestAt, NoLeakedTail, Over
<1> QED BY Invariance, <1>1, PTL

-----------------------------------------------------------------------------
(* Deadlock.                                                               *)

\* Some number of the set is the least.
LEMMA LeastNumber ==
  ASSUME NEW T \in SUBSET Nat, T # {}
  PROVE  \E x \in T : \A y \in T : x <= y
<1>1. PICK x \in T : \A y \in T : ~(<<y, x>> \in OpToRel(<, Nat))
  BY NatLessThanWellFounded, WFMin
<1>2. \A y \in T : ~(y < x)
  BY <1>1 DEF OpToRel
<1> QED BY <1>2

Unfinished(c) == Made(c) /\ ~ Over(c)

\* The guards of Enter and Finish.
MayGo(c) ==
  \/ pc[c] = "working"
  \/ pc[c] = "waiting" /\ (previous[c] # NoCall => Over(previous[c]))

\* Whoever waits, somebody at the front of the line for its key may go on.
NeverStuck ==
  \A c \in Call : Unfinished(c) =>
    \E d \in Call : /\ Unfinished(d) /\ SameKey(d, c)
                    /\ arrival[d] <= arrival[c] /\ MayGo(d)

(***************************************************************************)
(* The queue of a user never gets stuck, with any number of calls: while a *)
(* call is not over, it or one made before it for the same user may go on. *)
(***************************************************************************)
THEOREM NoDeadlock == Spec => []NeverStuck
<1>1. IInv => NeverStuck
  <2> SUFFICES ASSUME IInv, NEW c \in Call, Unfinished(c)
               PROVE  \E d \in Call : /\ Unfinished(d) /\ SameKey(d, c)
                                      /\ arrival[d] <= arrival[c] /\ MayGo(d)
    BY DEF NeverStuck
  <2> DEFINE Ahead(d) == /\ Unfinished(d) /\ SameKey(d, c)
                         /\ arrival[d] <= arrival[c]
             T == {arrival[d] : d \in {e \in Call : Ahead(e)}}
  <2>1. Ahead(c) /\ \A d \in Call : arrival[d] \in Nat
    BY DEF IInv, TypeOK, SameKey
  <2>2. T \in SUBSET Nat /\ T # {}
    BY <2>1
  <2>3. PICK n \in T : \A m \in T : n <= m
    BY <2>2, LeastNumber
  <2>4. PICK d \in Call : Ahead(d) /\ arrival[d] = n
    BY <2>3
  <2>5. MayGo(d)
    <3>1. SUFFICES ASSUME pc[d] = "waiting", previous[d] # NoCall,
                          ~ Over(previous[d])
                   PROVE  FALSE
      BY <2>4 DEF MayGo, Unfinished, Made, Over, IInv, TypeOK
    <3> DEFINE e == previous[d]
    <3>2. e \in Call /\ Made(e) /\ SameKey(e, d) /\ arrival[e] < arrival[d]
      BY <2>4, <3>1
      DEF IInv, TypeOK, AwaitsPredecessor, Chained, Earlier, Unfinished
    <3>3. Ahead(e)
      BY <2>1, <2>4, <3>1, <3>2 DEF Unfinished, SameKey
    <3> QED BY <2>1, <2>3, <2>4, <3>2, <3>3
  <2> QED BY <2>4, <2>5
<1> QED BY Invariance, <1>1, PTL

-----------------------------------------------------------------------------
(* Refinement.                                                             *)

Asked == {c \in Call : Made(c)}
EarlierCalls(c) ==
  {d \in Call : Made(d) /\ SameKey(c, d) /\ arrival[d] < arrival[c]}
Before == [c \in Call |-> IF Made(c) THEN EarlierCalls(c) ELSE {}]
Working == {c \in Call : pc[c] = "working"}
Ended == {c \in Call : Over(c)}

LEMMA RequestIsAsk ==
  ASSUME IInv, NEW c \in Call, Request(c)
  PROVE  Abstract!Ask(c)
<1> USE KeyOfIsFunction, NoCallIsNotACall DEF Made, Over, SameKey
<1>1. pc' = [pc EXCEPT ![c] = "waiting"] /\ pc[c] = "idle"
  BY DEF Request
<1>2. \A d \in Call : d # c => pc'[d] = pc[d] /\ arrival'[d] = arrival[d]
  BY DEF IInv, TypeOK, Request
<1>3. pc'[c] = "waiting" /\ arrival'[c] = clock + 1
  BY DEF IInv, TypeOK, Request
<1>4. c \notin Asked /\ Asked' = Asked \cup {c}
  BY <1>1, <1>2, <1>3 DEF Asked
<1>5. Working' = Working /\ Ended' = Ended
  BY <1>1, <1>2, <1>3 DEF Working, Ended
<1>6. Before' = [Before EXCEPT ![c] = {d \in Asked : KeyOf[d] = KeyOf[c]}]
  <2>1. ASSUME NEW d \in Call, d # c
        PROVE  Before'[d] = Before[d]
    <3>1. CASE ~ Made(d)
      BY <1>2, <2>1, <3>1 DEF Before
    <3>2. CASE Made(d)
      <4>1. ~ (arrival'[c] < arrival'[d])
        BY <1>2, <1>3, <2>1, <3>2 DEF IInv, TypeOK, Ranked
      <4>2. EarlierCalls(d)' = EarlierCalls(d)
        BY <1>1, <1>2, <2>1, <4>1 DEF EarlierCalls
      <4> QED BY <1>2, <2>1, <3>2, <4>2 DEF Before
    <3> QED BY <3>1, <3>2
  <2>2. Before'[c] = {d \in Asked : KeyOf[d] = KeyOf[c]}
    <3>1. Before'[c] = EarlierCalls(c)'
      BY <1>3 DEF Before
    <3>2. \A d \in Call : d # c => (arrival'[d] < arrival'[c])
      BY <1>2, <1>3 DEF IInv, TypeOK, Ranked
    <3>3. ~ (arrival'[c] < arrival'[c])
      BY <1>3 DEF IInv, TypeOK
    <3>4. EarlierCalls(c)' = {d \in Asked : KeyOf[d] = KeyOf[c]}
      BY <1>1, <1>2, <1>4, <3>2, <3>3 DEF EarlierCalls, Asked
    <3> QED BY <3>1, <3>4
  <2> QED BY <2>1, <2>2 DEF Before
<1> QED
  BY <1>4, <1>5, <1>6
  DEF Abstract!Ask, Asked, Before, EarlierCalls, Working, Ended

LEMMA EnterIsStart ==
  ASSUME IInv, IInv', NEW c \in Call, Enter(c)
  PROVE  Abstract!Start(c)
<1> USE DEF Made, Over, SameKey
<1>1. pc' = [pc EXCEPT ![c] = "working"] /\ pc[c] = "waiting"
  BY DEF Enter
<1>2. \A d \in Call : d # c => pc'[d] = pc[d]
  BY <1>1 DEF IInv, TypeOK
<1>3. pc'[c] = "working"
  BY <1>1 DEF IInv, TypeOK
<1>4. Asked' = Asked /\ Ended' = Ended /\ Working' = Working \cup {c}
  BY <1>1, <1>2, <1>3 DEF Asked, Working, Ended
<1>5. arrival' = arrival
  BY DEF Enter
<1>6. \A d \in Call : EarlierCalls(d)' = EarlierCalls(d)
  BY <1>1, <1>2, <1>3, <1>5 DEF EarlierCalls
<1>7. Before' = Before
  BY <1>1, <1>2, <1>3, <1>6 DEF Before
<1>8. Before[c] \subseteq Ended
  <2>1. Before[c] = EarlierCalls(c)
    BY <1>1 DEF Before
  <2>2. \A d \in EarlierCalls(c) : d # c /\ Over(d)'
    BY <1>1, <1>2, <1>3, <1>5
    DEF EarlierCalls, IInv, TypeOK, BegunInOrder, Begun, Earlier
  <2>3. \A d \in EarlierCalls(c) : Over(d)
    BY <1>2, <2>2 DEF EarlierCalls
  <2> QED BY <2>1, <2>3 DEF EarlierCalls, Ended
<1>9. c \in Asked \ (Working \cup Ended)
  BY <1>1 DEF Asked, Working, Ended
<1> QED
  BY <1>4, <1>7, <1>8, <1>9
  DEF Abstract!Start, Asked, Before, EarlierCalls, Working, Ended

LEMMA FinishIsEnd ==
  ASSUME IInv, NEW c \in Call, Finish(c)
  PROVE  Abstract!End(c)
<1> USE DEF Made, Over, SameKey
<1>1. PICK outcome \in {"done", "failed"} : pc' = [pc EXCEPT ![c] = outcome]
  BY DEF Finish
<1>2. \A d \in Call : d # c => pc'[d] = pc[d]
  BY <1>1 DEF IInv, TypeOK
<1>3. pc[c] = "working" /\ pc'[c] \in {"done", "failed"}
  BY <1>1 DEF IInv, TypeOK, Finish
<1>4. Asked' = Asked /\ Ended' = Ended \cup {c} /\ Working' = Working \ {c}
  BY <1>2, <1>3 DEF Asked, Working, Ended
<1>5. arrival' = arrival
  BY DEF Finish
<1>6. \A d \in Call : EarlierCalls(d)' = EarlierCalls(d)
  BY <1>2, <1>3, <1>5 DEF EarlierCalls
<1>7. Before' = Before
  BY <1>2, <1>3, <1>6 DEF Before
<1> QED
  BY <1>3, <1>4, <1>7
  DEF Abstract!End, Asked, Before, EarlierCalls, Working, Ended

(***************************************************************************)
(* The promise chain of runExclusive implements the first-come-first-served *)
(* lock that every mutation of a user's money or positions relies on.      *)
(***************************************************************************)
THEOREM Refinement == Spec => ImplementsLock
<1>1. Init => Abstract!Init
  BY DEF Init, Abstract!Init, Made, Over
<1>2. IInv /\ IInv' /\ [Next]_vars => [Abstract!Next]_(Abstract!lockVars)
  <2> SUFFICES ASSUME IInv, IInv', [Next]_vars
               PROVE  [Abstract!Next]_(Abstract!lockVars)
    OBVIOUS
  <2>1. ASSUME NEW c \in Call, Request(c) PROVE Abstract!Next
    BY <2>1, RequestIsAsk DEF Abstract!Next
  <2>2. ASSUME NEW c \in Call, Enter(c) PROVE Abstract!Next
    BY <2>2, EnterIsStart DEF Abstract!Next
  <2>3. ASSUME NEW c \in Call, Finish(c) PROVE Abstract!Next
    BY <2>3, FinishIsEnd DEF Abstract!Next
  <2>4. CASE UNCHANGED vars
    BY <2>4 DEF vars, Abstract!lockVars, Made, Over, SameKey
  <2> QED BY <2>1, <2>2, <2>3, <2>4 DEF Next
<1> QED
  BY Invariance, <1>1, <1>2, PTL DEF Spec, ImplementsLock, Abstract!Spec
=============================================================================
