------------------------------ MODULE Delivery ------------------------------
(***************************************************************************)
(* What the outbox promises of a mail: it is settled as sent only after    *)
(* the provider accepted it, given up only after MaxAttempts attempts      *)
(* since it was opened, and stays settled unless an operator reopens it.   *)
(* Three exceptions are part of the promise: a record of success that was  *)
(* not acknowledged may be taken back once by its own attempt (doubted), a *)
(* mail that was reopened while an old copy of it was held may be given up *)
(* at its first attempt (hurried), and an attempt that outlived its claim  *)
(* may change its mind late (lapsed).                                      *)
(***************************************************************************)
EXTENDS Naturals

CONSTANTS Mail, MaxAttempts

VARIABLES state,      \* [Mail -> stage of the mail]
          tried,      \* [Mail -> Nat] attempts since it was opened
          accepted,   \* mails the provider took
          doubted,    \* sent, but whoever recorded it was not told
          hurried,    \* reopened while an old copy was held
          lapsed      \* mails with a claim that expired under a live attempt

deliveryVars == <<state, tried, accepted, doubted, hurried, lapsed>>

Init ==
  /\ state = [m \in Mail |-> "absent"]
  /\ tried = [m \in Mail |-> 0]
  /\ accepted = {} /\ doubted = {} /\ hurried = {} /\ lapsed = {}

Settled(m) == state[m] \in {"sent", "failed", "skipped"}
Becomes(m, stage) == state' = [state EXCEPT ![m] = stage]

Exhausted(m) ==
  \/ tried[m] >= MaxAttempts
  \/ m \in hurried /\ (tried[m] >= 1 \/ m \in lapsed)

Open(m) ==
  /\ state[m] = "absent"
  /\ Becomes(m, "open") \/ Becomes(m, "skipped")
  /\ UNCHANGED <<tried, accepted, doubted, hurried, lapsed>>

\* Sent at once, without waiting in the outbox.
Post(m) ==
  /\ state[m] = "absent"
  /\ accepted' = accepted \cup {m}
  /\ \/ Becomes(m, "sent") /\ tried' = [tried EXCEPT ![m] = 1]
     \/ Becomes(m, "unlogged") /\ UNCHANGED tried
  /\ UNCHANGED <<doubted, hurried, lapsed>>

Try(m) ==
  /\ state[m] = "open"
  /\ tried' = [tried EXCEPT ![m] = @ + 1]
  /\ UNCHANGED <<state, accepted, doubted, hurried, lapsed>>

Accept(m) ==
  /\ state[m] = "open" \/ m \in lapsed
  /\ accepted' = accepted \cup {m}
  /\ UNCHANGED <<state, tried, doubted, hurried, lapsed>>

Settle(m) ==
  /\ state[m] = "open"
  /\ \/ /\ m \in accepted /\ Becomes(m, "sent")
        /\ doubted' \in {doubted, doubted \cup {m}}
     \/ Exhausted(m) /\ Becomes(m, "failed") /\ UNCHANGED doubted
  /\ UNCHANGED <<tried, accepted, hurried, lapsed>>

Confirm(m) ==
  /\ m \in doubted
  /\ doubted' = doubted \ {m}
  /\ UNCHANGED <<state, tried, accepted, hurried, lapsed>>

\* The attempt that recorded the success takes it for a failure.
Retract(m) ==
  /\ m \in doubted
  /\ Becomes(m, "open") \/ (Exhausted(m) /\ Becomes(m, "failed"))
  /\ doubted' = doubted \ {m}
  /\ UNCHANGED <<tried, accepted, hurried, lapsed>>

\* By an operator.
Reopen(m) ==
  /\ state[m] = "failed"
  /\ Becomes(m, "open")
  /\ tried' = [tried EXCEPT ![m] = 0]
  /\ hurried' \in {hurried \ {m}, hurried \cup {m}}
  /\ UNCHANGED <<accepted, doubted, lapsed>>

\* A late attempt replaces the verdict.
Overrule(m) ==
  /\ m \in lapsed /\ Settled(m)
  /\ \/ Becomes(m, "open")
     \/ m \in accepted /\ Becomes(m, "sent")
     \/ Exhausted(m) /\ Becomes(m, "failed")
  /\ UNCHANGED <<tried, accepted, doubted, hurried, lapsed>>

Lapse(m) ==
  /\ state[m] = "open"
  /\ lapsed' = lapsed \cup {m}
  /\ UNCHANGED <<state, tried, accepted, doubted, hurried>>

Next ==
  \E m \in Mail : \/ Open(m) \/ Post(m) \/ Try(m) \/ Accept(m) \/ Settle(m)
                  \/ Confirm(m) \/ Retract(m) \/ Reopen(m) \/ Overrule(m)
                  \/ Lapse(m)

Spec == Init /\ [][Next]_deliveryVars
=============================================================================
