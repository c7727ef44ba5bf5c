----------------------------- MODULE EmailOutbox -----------------------------
(***************************************************************************)
(* The email outbox: apps/trade/src/server/email/service.ts and provider.ts*)
(* (apps/web holds the same two files), and the requeue route of the admin *)
(* console.  A business transaction inserts a delivery row; the dispatcher *)
(* of every process makes one pass at a time over the rows that are due:   *)
(* it reads a batch, claims each row by the status it read, calls the      *)
(* provider, and records the outcome, unconditionally.  Claims that a dead *)
(* process left are recovered once they are old enough.                    *)
(*                                                                         *)
(* Rows are numbered in the order of createdAt.  Time is only what the     *)
(* code compares it with: whether a retry is due, and whether a claim is   *)
(* older than the processing timeout.  An attempt ends within 12 s and the *)
(* timeout is at least 30 s, so a claim expires under a live attempt only  *)
(* if the process or its database stalled.                                 *)
(***************************************************************************)
EXTENDS Integers, FiniteSets

CONSTANTS
  Mails,          \* number of delivery rows
  Dispatcher,     \* processes that run a dispatcher
  MaxAttempts,    \* EMAIL_MAX_ATTEMPTS
  Batch,          \* rows read by a pass
  MaxFaults,      \* bound on crashes, errors, lost answers and stalls
  MaxRequeues     \* bound on the use of the requeue route

ASSUME SizeAssumption ==
  Mails \in Nat /\ MaxAttempts \in Nat \ {0} /\ Batch \in Nat \ {0}
ASSUME BoundAssumption == MaxFaults \in Nat /\ MaxRequeues \in Nat
ASSUME DispatcherAssumption == IsFiniteSet(Dispatcher) /\ Dispatcher # {}

Mail == 1..Mails

VARIABLES
  status,     \* [Mail -> EmailDelivery.status], or "absent"
  attempts,   \* [Mail -> EmailDelivery.attempts]
  due,        \* rows whose nextAttemptAt has come
  old,        \* claimed rows not updated for the processing timeout
  pass,       \* [Dispatcher -> its dispatchOnce]
  accepted,   \* mails the provider took
  hurried,    \* rows requeued while a pass held an old copy of them
  stalled,    \* rows whose claim expired under a live attempt
  faults, requeues

row == <<status, attempts, due, old>>
ghosts == <<accepted, hurried, stalled>>
counts == <<faults, requeues>>
vars == <<row, pass, ghosts, counts>>

Waiting == {"PENDING", "RETRY"}
Snapshot == [mail: Mail, status: Waiting, attempts: Nat]
Pass ==
  [at: {"idle", "select", "claim", "deliver", "accepted", "error"},
   jobs: SUBSET Snapshot]
Idle == [at |-> "idle", jobs |-> {}]

Init ==
  /\ status = [m \in Mail |-> "absent"]
  /\ attempts = [m \in Mail |-> 0]
  /\ due = {} /\ old = {}
  /\ pass = [d \in Dispatcher |-> Idle]
  /\ accepted = {} /\ hurried = {} /\ stalled = {}
  /\ faults = 0 /\ requeues = 0

At(d, place) == pass[d].at = place
Goes(d, place) == pass' = [pass EXCEPT ![d].at = place]

\* Jobs are done in the order of their rows.
First(jobs) == CHOOSE j \in jobs : \A k \in jobs : j.mail <= k.mail
Job(d) == First(pass[d].jobs)
\* Defect: the loop does not end with its last job.
AdvancePast(d) ==
  pass' = [pass EXCEPT ![d] = [at |-> "claim", jobs |-> @.jobs \ {Job(d)}]]

\* The loop goes to its next job, or the pass is over.
Advance(d) ==
  LET rest == pass[d].jobs \ {Job(d)}
  IN pass' = [pass EXCEPT ![d] =
       IF rest = {} THEN Idle ELSE [at |-> "claim", jobs |-> rest]]

Attempting(d, m) ==
  pass[d].at \in {"deliver", "accepted", "error"} /\ Job(d).mail = m

Fault == faults < MaxFaults /\ faults' = faults + 1

-----------------------------------------------------------------------------
(* Insertion of a row.                                                     *)

NextMail(m) ==
  /\ status[m] = "absent"
  /\ \A n \in Mail : n < m => status[n] # "absent"

\* queueUserEmail: SKIPPED when no provider is configured.
Queue(m) ==
  /\ NextMail(m)
  /\ \/ status' = [status EXCEPT ![m] = "PENDING"] /\ due' = due \cup {m}
     \/ status' = [status EXCEPT ![m] = "SKIPPED"] /\ UNCHANGED due
  /\ UNCHANGED <<attempts, old, pass, ghosts, counts>>

\* sendImmediateEmail: the row is only a record, and its insert may fail.
SendNow(m) ==
  /\ NextMail(m)
  /\ accepted' = accepted \cup {m}
  /\ \/ /\ status' = [status EXCEPT ![m] = "SENT"]
        /\ attempts' = [attempts EXCEPT ![m] = 1]
        /\ UNCHANGED faults
     \/ /\ Fault
        /\ status' = [status EXCEPT ![m] = "unlogged"]
        /\ UNCHANGED attempts
  /\ UNCHANGED <<due, old, pass, hurried, stalled, requeues>>

-----------------------------------------------------------------------------
(* dispatchOnce.                                                           *)

\* Defect: claims are never taken back.
RecoverNone(d) ==
  /\ pass[d] = Idle
  /\ Goes(d, "select")
  /\ UNCHANGED <<row, ghosts, counts>>

Recover(d) ==
  /\ pass[d] = Idle
  /\ status' = [m \in Mail |-> IF m \in old THEN "RETRY" ELSE status[m]]
  /\ due' = due \cup old
  /\ old' = {}
  /\ Goes(d, "select")
  /\ UNCHANGED <<attempts, ghosts, counts>>

Ready == {m \in due : status[m] \in Waiting}

\* The oldest Batch of them.
Taken == {m \in Ready : Cardinality({n \in Ready : n < m}) < Batch}

Read(m) == [mail |-> m, status |-> status[m], attempts |-> attempts[m]]

Select(d) ==
  /\ At(d, "select")
  /\ pass' = [pass EXCEPT ![d] =
       IF Taken = {} THEN Idle
       ELSE [at |-> "claim", jobs |-> {Read(m) : m \in Taken}]]
  /\ UNCHANGED <<row, ghosts, counts>>

\* Defect: a row is claimed by its id alone.
ClaimableById(d) == TRUE

\* The compare-and-set compares the status only.
Claimable(d) == status[Job(d).mail] = Job(d).status

Claim(d) ==
  LET m == Job(d).mail
  IN /\ At(d, "claim") /\ Claimable(d)
     /\ status' = [status EXCEPT ![m] = "PROCESSING"]
     /\ attempts' = [attempts EXCEPT ![m] = @ + 1]
     /\ old' = old \ {m}
     /\ Goes(d, "deliver")
     /\ UNCHANGED <<due, ghosts, counts>>

PassOver(d) ==
  /\ At(d, "claim") /\ ~ Claimable(d)
  /\ Advance(d)
  /\ UNCHANGED <<row, ghosts, counts>>

\* Defect: an answer that never comes is taken for an acceptance.
DeliverOptimistic(d) ==
  /\ At(d, "deliver")
  /\ \/ /\ accepted' = accepted \cup {Job(d).mail}
        /\ Goes(d, "accepted") /\ UNCHANGED faults
     \/ /\ Goes(d, "error") /\ UNCHANGED <<accepted, faults>>
     \/ /\ Fault /\ Goes(d, "accepted") /\ UNCHANGED accepted
  /\ UNCHANGED <<row, hurried, stalled, requeues>>

\* The provider takes the mail, refuses it, or takes it while the answer is
\* lost or comes after the timeout of the request.
Deliver(d) ==
  /\ At(d, "deliver")
  /\ \/ /\ accepted' = accepted \cup {Job(d).mail}
        /\ Goes(d, "accepted") /\ UNCHANGED faults
     \/ /\ Goes(d, "error") /\ UNCHANGED <<accepted, faults>>
     \/ /\ accepted' = accepted \cup {Job(d).mail}
        /\ Fault /\ Goes(d, "error")
  /\ UNCHANGED <<row, hurried, stalled, requeues>>

RecordSent(d) ==
  LET m == Job(d).mail
  IN /\ At(d, "accepted")
     /\ status' = [status EXCEPT ![m] = "SENT"]
     /\ old' = old \ {m}
     /\ Advance(d)
     /\ UNCHANGED <<attempts, due, ghosts, counts>>

\* The update is inside the try: its error is taken for one of the provider.
RecordSentFails(d) ==
  /\ At(d, "accepted")
  /\ Fault
  /\ Goes(d, "error")
  /\ UNCHANGED <<row, ghosts, requeues>>

\* The same error after the update took effect: its acknowledgement is lost.
RecordSentUnacknowledged(d) ==
  LET m == Job(d).mail
  IN /\ At(d, "accepted")
     /\ Fault
     /\ status' = [status EXCEPT ![m] = "SENT"]
     /\ old' = old \ {m}
     /\ Goes(d, "error")
     /\ UNCHANGED <<attempts, due, ghosts, requeues>>

\* Defect: gives up one attempt too late.
TerminalLate(d) == Job(d).attempts >= MaxAttempts

\* Decided by the count read with the batch, not by the one in the row.
Terminal(d) == Job(d).attempts + 1 >= MaxAttempts

\* Whatever the status is by then.
RecordError(d) ==
  LET m == Job(d).mail
  IN /\ At(d, "error")
     /\ status' = [status EXCEPT ![m] =
          IF Terminal(d) THEN "FAILED" ELSE "RETRY"]
     /\ due' = due \ {m}
     /\ old' = old \ {m}
     /\ Advance(d)
     /\ UNCHANGED <<attempts, ghosts, counts>>

\* The process dies, or the catch block itself throws: the claim stays.
Abort(d) ==
  /\ pass[d] # Idle
  /\ Fault
  /\ pass' = [pass EXCEPT ![d] = Idle]
  /\ UNCHANGED <<row, ghosts, requeues>>

-----------------------------------------------------------------------------
(* Time, and the operator.                                                 *)

BecomesDue(m) ==
  /\ status[m] = "RETRY" /\ m \notin due
  /\ due' = due \cup {m}
  /\ UNCHANGED <<status, attempts, old, pass, ghosts, counts>>

Claimed(m) == status[m] = "PROCESSING" /\ m \notin old

OrphanExpires(m) ==
  /\ Claimed(m)
  /\ \A d \in Dispatcher : ~ Attempting(d, m)
  /\ old' = old \cup {m}
  /\ UNCHANGED <<status, attempts, due, pass, ghosts, counts>>

LiveClaimExpires(m) ==
  /\ Claimed(m)
  /\ \E d \in Dispatcher : Attempting(d, m)
  /\ Fault
  /\ stalled' = stalled \cup {m}
  /\ old' = old \cup {m}
  /\ UNCHANGED <<status, attempts, due, pass, accepted, hurried, requeues>>

Held(m) == \E d \in Dispatcher : \E j \in pass[d].jobs : j.mail = m

Requeue(m) ==
  /\ status[m] = "FAILED"
  /\ requeues < MaxRequeues
  /\ requeues' = requeues + 1
  /\ status' = [status EXCEPT ![m] = "RETRY"]
  /\ attempts' = [attempts EXCEPT ![m] = 0]
  /\ due' = due \cup {m}
  /\ hurried' = IF Held(m) THEN hurried \cup {m} ELSE hurried \ {m}
  /\ UNCHANGED <<old, pass, accepted, stalled, faults>>

-----------------------------------------------------------------------------

Step(d) ==
  \/ Recover(d) \/ Select(d) \/ Claim(d) \/ PassOver(d) \/ Deliver(d)
  \/ RecordSent(d) \/ RecordError(d)

Next ==
  \/ \E d \in Dispatcher : \/ Step(d) \/ Abort(d)
                           \/ RecordSentFails(d)
                           \/ RecordSentUnacknowledged(d)
  \/ \E m \in Mail : \/ Queue(m) \/ SendNow(m)
                     \/ BecomesDue(m) \/ OrphanExpires(m)
                     \/ LiveClaimExpires(m) \/ Requeue(m)

Spec == Init /\ [][Next]_vars

\* The timer starts passes for ever, a pass runs to its end unless it is
\* aborted, and the times that rows wait for come.
FairSpec ==
  /\ Spec
  /\ \A d \in Dispatcher : WF_vars(Step(d))
  /\ \A m \in Mail : WF_vars(BecomesDue(m)) /\ WF_vars(OrphanExpires(m))

-----------------------------------------------------------------------------

TypeOK ==
  /\ status \in [Mail -> {"absent", "unlogged", "SKIPPED", "PROCESSING",
                          "SENT", "FAILED"} \cup Waiting]
  /\ attempts \in [Mail -> Nat] /\ hurried \subseteq Mail
  /\ due \subseteq Mail /\ accepted \subseteq Mail /\ stalled \subseteq Mail
  /\ old \subseteq {m \in Mail : status[m] = "PROCESSING"}
  /\ pass \in [Dispatcher -> Pass]
  /\ \A d \in Dispatcher :
       pass[d].jobs = {} <=> pass[d].at \in {"idle", "select"}
  /\ faults \in 0..MaxFaults /\ requeues \in 0..MaxRequeues

(***************************************************************************)
(* However the passes of the two applications overlap and whatever they    *)
(* read before, a mail is in the hands of one of them at a time, which     *)
(* holds its claim until it has recorded the mail as sent, told so or not; *)
(* only a claim that expired under a live attempt breaks this.             *)
(***************************************************************************)
OneDeliverer ==
  \A m \in Mail \ stalled :
    \A d, e \in Dispatcher :
      Attempting(d, m) =>
        /\ \/ status[m] = "PROCESSING"
           \/ status[m] = "SENT" /\ At(d, "error")
        /\ Attempting(e, m) => d = e

(***************************************************************************)
(* The claim compares the status but not the count it was read with, and   *)
(* the count that was read decides when to give up.  So a row can be tried *)
(* more than MaxAttempts times, but only once more for each other          *)
(* dispatcher that held an old copy, and once more for each aborted pass.  *)
(***************************************************************************)
AttemptsBounded ==
  \A m \in Mail \ stalled :
    attempts[m] <= MaxAttempts + Cardinality(Dispatcher) - 1 + faults

(***************************************************************************)
(* No mail stays unsettled: through crashes, database errors, lost answers *)
(* and stalls, every queued mail ends as sent or as failed.                *)
(***************************************************************************)
EveryMailSettles ==
  \A m \in Mail :
    status[m] \in Waiting \cup {"PROCESSING"}
      ~> status[m] \in {"SENT", "FAILED"}

\* What a mail is to those who queued it.
Stage(m) ==
  CASE status[m] = "SENT" -> "sent"
    [] status[m] = "FAILED" -> "failed"
    [] status[m] = "SKIPPED" -> "skipped"
    [] status[m] \in Waiting \cup {"PROCESSING"} -> "open"
    [] OTHER -> status[m]

\* Recorded as sent by an attempt that takes the record for a failure.
Doubted ==
  {m \in Mail \ stalled :
     status[m] = "SENT" /\ \E d \in Dispatcher : Attempting(d, m)}

Outcome == INSTANCE Delivery WITH state <- [m \in Mail |-> Stage(m)],
                                  tried <- attempts,
                                  doubted <- Doubted,
                                  lapsed <- stalled

(***************************************************************************)
(* The outbox implements Delivery: no interleaving of passes, recoveries,  *)
(* faults and requeues records a mail as sent that the provider never took *)
(* or gives one up before MaxAttempts claims since it was queued or        *)
(* requeued, and a settled mail is final until an operator requeues it.    *)
(* Delivery's exceptions are all there is: the SENT whose acknowledgement  *)
(* its own attempt lost, the old copy held over a requeue, and the claim   *)
(* that expired under a live attempt.                                      *)
(***************************************************************************)
ImplementsDelivery == Outcome!Spec
=============================================================================
