-------------------------------- MODULE Lock --------------------------------
(***************************************************************************)
(* What callers of runExclusive rely on: of all the calls made for one key, *)
(* at most one is running its work at any time, and the calls of a key run *)
(* in the order in which they were made.                                   *)
(***************************************************************************)
CONSTANTS Call, Key, KeyOf

VARIABLES asked,    \* calls made so far
          before,   \* [Call -> SUBSET Call] same-key calls made before it
          running,  \* calls whose work is running
          over      \* calls whose work has ended

lockVars == <<asked, before, running, over>>

Init ==
  /\ asked = {}
  /\ before = [c \in Call |-> {}]
  /\ running = {}
  /\ over = {}

Ask(c) ==
  /\ c \notin asked
  /\ asked' = asked \cup {c}
  /\ before' = [before EXCEPT ![c] = {d \in asked : KeyOf[d] = KeyOf[c]}]
  /\ UNCHANGED <<running, over>>

\* First come, first served: a call starts when all the earlier ones are over.
Start(c) ==
  /\ c \in asked \ (running \cup over)
  /\ before[c] \subseteq over
  /\ running' = running \cup {c}
  /\ UNCHANGED <<asked, before, over>>

End(c) ==
  /\ c \in running
  /\ running' = running \ {c}
  /\ over' = over \cup {c}
  /\ UNCHANGED <<asked, before>>

Next == \E c \in Call : Ask(c) \/ Start(c) \/ End(c)

Spec == Init /\ [][Next]_lockVars
=============================================================================
