-------------------------- MODULE EmailOutbox_proofs --------------------------
(***************************************************************************)
(* The theorems about EmailOutbox, for any number of mails, dispatchers,   *)
(* attempts, faults and requeues.                                          *)
(***************************************************************************)
EXTENDS EmailOutbox, WellFoundedInduction, NaturalsInduction,
        FiniteSetTheorems, TLAPS

(* Rows that went through the outbox.                                      *)
Ever == Waiting \cup {"PROCESSING", "SENT", "FAILED"}

Busy == {"deliver", "accepted", "error"}

(* A claim that did not expire under its attempt has one holder.           *)
Owned ==
  \A m \in Mail \ stalled : \A d \in Dispatcher :
    Attempting(d, m) =>
      /\ \/ status[m] = "PROCESSING"
         \/ status[m] = "SENT" /\ At(d, "error")
      /\ m \notin old
      /\ \A e \in Dispatcher : Attempting(e, m) => d = e

(* Whoever is about to record a mail as sent has the provider's answer.    *)
Answered ==
  \A d \in Dispatcher : At(d, "accepted") => Job(d).mail \in accepted

(* The copies a pass holds are of queued rows and not ahead of the claims, *)
(* unless the row was requeued under them.                                 *)
Copied ==
  \A d \in Dispatcher :
    /\ \A j \in pass[d].jobs :
         /\ status[j.mail] \in Ever
         /\ j.mail \in hurried \/ j.attempts <= attempts[j.mail]
    /\ pass[d].at \in Busy =>
         /\ \/ Job(d).mail \in hurried
            \/ Job(d).attempts + 1 <= attempts[Job(d).mail]
         /\ Job(d).mail \in stalled \/ attempts[Job(d).mail] >= 1

Lapsed == \A m \in stalled : status[m] \in Ever

IInv ==
  /\ TypeOK
  /\ Owned /\ Answered /\ Copied /\ Lapsed

-----------------------------------------------------------------------------
(* Jobs.                                                                   *)

LEMMA LeastNatural ==
  ASSUME NEW T \in SUBSET Nat, T # {}
  PROVE  \E x \in T : \A y \in T : x <= y
<1>1. PICK x \in T : \A y \in T : ~(<<y, x>> \in OpToRel(<, Nat))
  BY NatLessThanWellFounded, WFMin
<1>2. \A y \in T : ~(y < x)
  BY <1>1 DEF OpToRel
<1> QED
  BY <1>2

LEMMA FirstIsOne ==
  ASSUME NEW jobs \in SUBSET Snapshot, jobs # {}
  PROVE  First(jobs) \in jobs
<1> DEFINE T == {j.mail : j \in jobs}
<1>1. T \in SUBSET Nat /\ T # {}
  BY SizeAssumption DEF Snapshot, Mail
<1>2. PICK x \in T : \A y \in T : x <= y
  BY <1>1, LeastNatural
<1>3. PICK j \in jobs : j.mail = x
  BY <1>2
<1>4. \A k \in jobs : j.mail <= k.mail
  BY <1>2, <1>3
<1> QED
  BY <1>3, <1>4 DEF First

LEMMA JobFacts ==
  ASSUME TypeOK, NEW d \in Dispatcher, pass[d].at \notin {"idle", "select"}
  PROVE  /\ Job(d) \in pass[d].jobs /\ Job(d) \in Snapshot
         /\ Job(d).mail \in Mail /\ Job(d).status \in Waiting
         /\ Job(d).attempts \in Nat
<1>1. pass[d].jobs \in SUBSET Snapshot /\ pass[d].jobs # {}
  BY DEF TypeOK, Pass
<1>2. Job(d) \in pass[d].jobs
  BY <1>1, FirstIsOne DEF Job
<1> QED
  BY <1>1, <1>2 DEF Snapshot

LEMMA GoesFacts ==
  ASSUME TypeOK, NEW d \in Dispatcher, pass[d].at \notin {"idle", "select"},
         NEW place \in Busy, Goes(d, place)
  PROVE  /\ pass' \in [Dispatcher -> Pass]
         /\ \A e \in Dispatcher :
              pass'[e].jobs = {} <=> pass'[e].at \in {"idle", "select"}
         /\ pass'[d].at = place
         /\ \A e \in Dispatcher : e # d => pass'[e].at = pass[e].at
         /\ \A e \in Dispatcher :
              pass'[e].jobs = pass[e].jobs /\ Job(e)' = Job(e)
<1>1. /\ pass' \in [Dispatcher -> Pass]
      /\ pass'[d].at = place
      /\ \A e \in Dispatcher : e # d => pass'[e].at = pass[e].at
      /\ \A e \in Dispatcher : pass'[e].jobs = pass[e].jobs
  BY DEF Goes, TypeOK, Pass, Busy
<1>2. \A e \in Dispatcher :
        pass'[e].jobs = {} <=> pass'[e].at \in {"idle", "select"}
  BY <1>1 DEF TypeOK, Busy
<1>3. \A e \in Dispatcher : Job(e)' = Job(e)
  BY <1>1 DEF Job
<1> QED
  BY <1>1, <1>2, <1>3

LEMMA AdvanceFacts ==
  ASSUME TypeOK, NEW d \in Dispatcher, Advance(d)
  PROVE  /\ pass' \in [Dispatcher -> Pass]
         /\ \A e \in Dispatcher :
              pass'[e].jobs = {} <=> pass'[e].at \in {"idle", "select"}
         /\ pass'[d].at \in {"idle", "claim"}
         /\ pass'[d].jobs \subseteq pass[d].jobs
         /\ \A e \in Dispatcher : e # d =>
              /\ pass'[e].at = pass[e].at /\ pass'[e].jobs = pass[e].jobs
              /\ Job(e)' = Job(e)
<1> DEFINE rest == pass[d].jobs \ {Job(d)}
           next == IF rest = {} THEN Idle
                   ELSE [at |-> "claim", jobs |-> rest]
<1>1. pass' = [pass EXCEPT ![d] = next]
  BY DEF Advance
<1>2. rest \in SUBSET Snapshot
  BY DEF TypeOK, Pass
<1>3. /\ next \in Pass /\ next.at \in {"idle", "claim"}
      /\ next.jobs = rest
      /\ next.jobs = {} <=> next.at \in {"idle", "select"}
  <2>1. CASE rest = {}
    BY <2>1 DEF Idle, Pass
  <2>2. CASE rest # {}
    BY <1>2, <2>2 DEF Pass
  <2> QED
    BY <2>1, <2>2
<1> HIDE DEF next
<1>4. pass'[d] = next /\ \A e \in Dispatcher : e # d => pass'[e] = pass[e]
  BY <1>1 DEF TypeOK
<1>5. pass' \in [Dispatcher -> Pass]
  BY <1>1, <1>3 DEF TypeOK
<1>6. \A e \in Dispatcher :
        pass'[e].jobs = {} <=> pass'[e].at \in {"idle", "select"}
  BY <1>3, <1>4 DEF TypeOK
<1>7. \A e \in Dispatcher : e # d => Job(e)' = Job(e)
  BY <1>4 DEF Job
<1> QED
  BY <1>3, <1>4, <1>5, <1>6, <1>7

LEMMA InitIInv == Init => IInv
<1> SUFFICES ASSUME Init PROVE IInv
  OBVIOUS
<1>1. TypeOK
  <2>1. Idle \in Pass
    BY DEF Idle, Pass
  <2> QED
    BY <2>1, BoundAssumption DEF Init, TypeOK, Idle
<1>2. \A d \in Dispatcher : pass[d] = Idle
  BY DEF Init
<1> QED
  BY <1>1, <1>2
  DEF Init, IInv, Owned, Answered, Copied, Lapsed, Attempting, At, Idle, Busy

-----------------------------------------------------------------------------
(* Insertion.                                                              *)

(* An absent row is in no copy and under no attempt.                       *)
LEMMA AbsentIsUnknown ==
  ASSUME IInv, NEW m \in Mail, status[m] = "absent"
  PROVE  /\ m \notin stalled
         /\ \A d \in Dispatcher : \A j \in pass[d].jobs : j.mail # m
         /\ \A d \in Dispatcher : ~ Attempting(d, m)
<1>1. m \notin stalled
  BY DEF IInv, Lapsed, Ever, Waiting
<1>2. \A d \in Dispatcher : \A j \in pass[d].jobs : j.mail # m
  BY DEF IInv, Copied, Ever, Waiting
<1>3. \A d \in Dispatcher : ~ Attempting(d, m)
  BY <1>1 DEF IInv, Owned
<1> QED
  BY <1>1, <1>2, <1>3

LEMMA QueuePreserves ==
  ASSUME IInv, NEW m \in Mail, Queue(m)
  PROVE  IInv'
<1>1. /\ status[m] = "absent"
      /\ \E s \in {"PENDING", "SKIPPED"} : status' = [status EXCEPT ![m] = s]
      /\ due' \in {due, due \cup {m}}
      /\ attempts' = attempts /\ old' = old /\ pass' = pass
      /\ accepted' = accepted /\ hurried' = hurried /\ stalled' = stalled
      /\ faults' = faults /\ requeues' = requeues
  BY DEF Queue, NextMail, ghosts, counts
<1>2. /\ m \notin stalled
      /\ \A d \in Dispatcher : \A j \in pass[d].jobs : j.mail # m
      /\ \A d \in Dispatcher : ~ Attempting(d, m)
  BY <1>1, AbsentIsUnknown
<1>3. /\ \A d \in Dispatcher : Job(d)' = Job(d)
      /\ \A n \in Mail : n # m => status'[n] = status[n]
      /\ \A d \in Dispatcher, n \in Mail : Attempting(d, n)' <=> Attempting(d, n)
  BY <1>1 DEF Job, Attempting, IInv, TypeOK
<1>4. TypeOK'
  BY <1>1 DEF IInv, TypeOK, Waiting
<1>5. Owned'
  BY <1>1, <1>2, <1>3 DEF IInv, Owned, At
<1>6. Answered'
  BY <1>1, <1>3 DEF IInv, Answered, At
<1>7. Copied'
  <2>1. \A d \in Dispatcher : \A j \in pass[d].jobs : j.mail \in Mail
    BY DEF IInv, TypeOK, Pass, Snapshot
  <2> QED
    BY <1>1, <1>2, <1>3, <2>1 DEF IInv, Copied
<1>8. Lapsed'
  BY <1>1, <1>2, <1>3 DEF IInv, Lapsed, TypeOK
<1> QED
  BY <1>4, <1>5, <1>6, <1>7, <1>8 DEF IInv

LEMMA SendNowPreserves ==
  ASSUME IInv, NEW m \in Mail, SendNow(m)
  PROVE  IInv'
<1>1. /\ status[m] = "absent"
      /\ \/ /\ status' = [status EXCEPT ![m] = "SENT"]
            /\ attempts' = [attempts EXCEPT ![m] = 1]
            /\ faults' = faults
         \/ /\ status' = [status EXCEPT ![m] = "unlogged"]
            /\ attempts' = attempts
            /\ faults < MaxFaults /\ faults' = faults + 1
      /\ due' = due /\ old' = old /\ pass' = pass
      /\ accepted' = accepted \cup {m}
      /\ hurried' = hurried /\ stalled' = stalled
      /\ requeues' = requeues
  BY DEF SendNow, NextMail, Fault
<1>2. /\ m \notin stalled
      /\ \A d \in Dispatcher : \A j \in pass[d].jobs : j.mail # m
      /\ \A d \in Dispatcher : ~ Attempting(d, m)
  BY <1>1, AbsentIsUnknown
<1>3. /\ \A d \in Dispatcher : Job(d)' = Job(d)
      /\ \A n \in Mail : n # m =>
           status'[n] = status[n] /\ attempts'[n] = attempts[n]
      /\ \A d \in Dispatcher, n \in Mail : Attempting(d, n)' <=> Attempting(d, n)
  BY <1>1 DEF Job, Attempting, IInv, TypeOK
<1>4. TypeOK'
  BY <1>1, BoundAssumption DEF IInv, TypeOK, Waiting
<1>5. Owned'
  BY <1>1, <1>2, <1>3 DEF IInv, Owned, At
<1>6. Answered'
  BY <1>1, <1>3 DEF IInv, Answered, At
<1>7. Copied'
  <2>1. \A d \in Dispatcher : \A j \in pass[d].jobs : j.mail \in Mail
    BY DEF IInv, TypeOK, Pass, Snapshot
  <2>2. ASSUME NEW d \in Dispatcher, pass[d].at \in Busy
        PROVE  Job(d).mail \in Mail \ {m}
    BY <1>2, <2>2, JobFacts DEF IInv, Busy
  <2>3. ASSUME NEW d \in Dispatcher, NEW j \in pass[d].jobs
        PROVE  /\ status'[j.mail] = status[j.mail]
               /\ attempts'[j.mail] = attempts[j.mail]
    BY <1>2, <1>3, <2>1, <2>3
  <2>4. \A d \in Dispatcher : pass[d].at \in Busy =>
          attempts'[Job(d).mail] = attempts[Job(d).mail]
    BY <1>3, <2>2
  <2> QED
    BY <1>1, <1>3, <2>3, <2>4 DEF IInv, Copied
<1>8. Lapsed'
  BY <1>1, <1>2, <1>3 DEF IInv, Lapsed, TypeOK
<1> QED
  BY <1>4, <1>5, <1>6, <1>7, <1>8 DEF IInv

-----------------------------------------------------------------------------
(* The steps of a pass.                                                    *)

LEMMA RecoverPreserves ==
  ASSUME IInv, NEW d \in Dispatcher, Recover(d)
  PROVE  IInv'
<1>1. /\ pass[d] = Idle
      /\ status' = [m \in Mail |-> IF m \in old THEN "RETRY" ELSE status[m]]
      /\ due' = due \cup old /\ old' = {} /\ Goes(d, "select")
      /\ attempts' = attempts /\ accepted' = accepted /\ hurried' = hurried
      /\ stalled' = stalled /\ faults' = faults /\ requeues' = requeues
  BY DEF Recover, ghosts, counts
<1>2. /\ pass' \in [Dispatcher -> Pass]
      /\ pass'[d] = [at |-> "select", jobs |-> {}]
      /\ \A e \in Dispatcher : e # d => pass'[e] = pass[e]
  <2>1. /\ pass' = [pass EXCEPT ![d] = [pass[d] EXCEPT !.at = "select"]]
        /\ pass \in [Dispatcher -> Pass]
    BY <1>1 DEF Goes, IInv, TypeOK
  <2>2. [pass[d] EXCEPT !.at = "select"] = [at |-> "select", jobs |-> {}]
    BY <1>1 DEF Idle
  <2>3. [at |-> "select", jobs |-> {}] \in Pass
    BY DEF Pass
  <2> QED
    BY <2>1, <2>2, <2>3
<1>3. /\ \A e \in Dispatcher : pass'[e].jobs = pass[e].jobs
      /\ pass[d].at = "idle" /\ pass'[d].at = "select"
      /\ \A e \in Dispatcher : Job(e)' = Job(e)
  <2>1. pass[d].at = "idle" /\ pass[d].jobs = {}
    BY <1>1 DEF Idle
  <2>2. pass'[d].at = "select" /\ pass'[d].jobs = {}
    BY <1>2
  <2>3. \A e \in Dispatcher : pass'[e].jobs = pass[e].jobs
    BY <1>2, <2>1, <2>2
  <2>4. \A e \in Dispatcher : Job(e)' = Job(e)
    BY <2>3 DEF Job
  <2> QED
    BY <2>1, <2>2, <2>3, <2>4
<1>4. \A e \in Dispatcher, m \in Mail : Attempting(e, m)' <=> Attempting(e, m)
  BY <1>2, <1>3 DEF Attempting
<1>5. TypeOK'
  BY <1>1, <1>2, <1>3 DEF IInv, TypeOK, Waiting
<1>6. Owned'
  <2>1. \A e \in Dispatcher : At(e, "error") => At(e, "error")'
    BY <1>2, <1>3 DEF At
  <2> QED
    BY <1>1, <1>4, <2>1 DEF IInv, Owned
<1>7. Answered'
  BY <1>1, <1>2, <1>3 DEF IInv, Answered, At
<1>8. Copied'
  <2>1. \A e \in Dispatcher : \A j \in pass[e].jobs : j.mail \in Mail
    BY DEF IInv, TypeOK, Pass, Snapshot
  <2>2. \A e \in Dispatcher : pass'[e].at \in Busy => pass[e].at \in Busy
    BY <1>2, <1>3 DEF Busy
  <2> QED
    BY <1>1, <1>3, <2>1, <2>2 DEF IInv, Copied, Ever, Waiting
<1>9. Lapsed'
  BY <1>1 DEF IInv, Lapsed, Ever, Waiting, TypeOK
<1> QED
  BY <1>5, <1>6, <1>7, <1>8, <1>9 DEF IInv

LEMMA SelectPreserves ==
  ASSUME IInv, NEW d \in Dispatcher, Select(d)
  PROVE  IInv'
<1> DEFINE next == IF Taken = {} THEN Idle
                   ELSE [at |-> "claim", jobs |-> {Read(m) : m \in Taken}]
<1>1. /\ pass[d].at = "select"
      /\ pass' = [pass EXCEPT ![d] = next]
      /\ status' = status /\ attempts' = attempts /\ due' = due /\ old' = old
      /\ accepted' = accepted /\ hurried' = hurried /\ stalled' = stalled
      /\ faults' = faults /\ requeues' = requeues
  BY DEF Select, At, row, ghosts, counts
<1>2. \A m \in Taken :
        m \in Mail /\ status[m] \in Waiting /\ Read(m) \in Snapshot
  BY DEF Taken, Ready, Read, Snapshot, IInv, TypeOK
<1>3. /\ next \in Pass /\ next.at \in {"idle", "claim"}
      /\ next.jobs = {} <=> next.at = "idle"
      /\ \A j \in next.jobs : \E m \in Taken : j = Read(m)
  <2>1. CASE Taken = {}
    BY <2>1 DEF Idle, Pass
  <2>2. CASE Taken # {}
    BY <1>2, <2>2 DEF Pass
  <2> QED
    BY <2>1, <2>2
<1> HIDE DEF next
<1>4. pass'[d] = next /\ \A e \in Dispatcher : e # d => pass'[e] = pass[e]
  BY <1>1 DEF IInv, TypeOK
<1>5. /\ \A e \in Dispatcher : e # d => Job(e)' = Job(e)
      /\ pass'[d].at \notin Busy /\ pass'[d].at # "select"
      /\ pass[d].at \notin Busy
  BY <1>1, <1>3, <1>4 DEF Job, Busy
<1>6. \A e \in Dispatcher, m \in Mail : Attempting(e, m)' <=> Attempting(e, m)
  BY <1>4, <1>5 DEF Attempting, Busy
<1>7. TypeOK'
  <2>1. pass' \in [Dispatcher -> Pass]
    BY <1>1, <1>3 DEF IInv, TypeOK
  <2>2. \A e \in Dispatcher :
          pass'[e].jobs = {} <=> pass'[e].at \in {"idle", "select"}
    BY <1>3, <1>4 DEF IInv, TypeOK
  <2> QED
    BY <1>1, <2>1, <2>2 DEF IInv, TypeOK
<1>8. Owned'
  <2>1. \A e \in Dispatcher : At(e, "error") => At(e, "error")'
    BY <1>1, <1>4, <1>5 DEF At, Busy
  <2> QED
    BY <1>1, <1>6, <2>1 DEF IInv, Owned
<1>9. Answered'
  BY <1>1, <1>4, <1>5 DEF IInv, Answered, At, Busy
<1>10. Copied'
  <2>1. \A j \in pass'[d].jobs :
          status[j.mail] \in Ever /\ j.attempts <= attempts[j.mail]
    <3>1. ASSUME NEW m \in Taken
          PROVE  /\ status[Read(m).mail] \in Ever
                 /\ Read(m).attempts <= attempts[Read(m).mail]
      <4>1. m \in Mail /\ status[m] \in Waiting /\ attempts[m] \in Nat
        BY <1>2 DEF IInv, TypeOK
      <4>2. Read(m).mail = m /\ Read(m).attempts = attempts[m]
        BY DEF Read
      <4> QED
        BY <4>1, <4>2 DEF Ever
    <3> QED
      BY <1>3, <1>4, <3>1
  <2>2. \A e \in Dispatcher : e # d => pass'[e].at = pass[e].at
    BY <1>4
  <2> QED
    BY <1>1, <1>4, <1>5, <2>1, <2>2 DEF IInv, Copied
<1>11. Lapsed'
  BY <1>1 DEF IInv, Lapsed
<1> QED
  BY <1>7, <1>8, <1>9, <1>10, <1>11 DEF IInv

LEMMA ClaimPreserves ==
  ASSUME IInv, NEW d \in Dispatcher, Claim(d)
  PROVE  IInv'
<1>0. PICK m \in Mail : m = Job(d).mail
  BY JobFacts DEF Claim, At, IInv
<1>1. /\ pass[d].at = "claim" /\ status[m] = Job(d).status
      /\ status' = [status EXCEPT ![m] = "PROCESSING"]
      /\ attempts' = [attempts EXCEPT ![m] = @ + 1]
      /\ old' = old \ {m} /\ Goes(d, "deliver")
      /\ due' = due /\ accepted' = accepted /\ hurried' = hurried
      /\ stalled' = stalled
      /\ faults' = faults /\ requeues' = requeues
  BY <1>0 DEF Claim, Claimable, At, ghosts, counts
<1>2. /\ status[m] \in Waiting /\ Job(d).attempts \in Nat
      /\ Job(d) \in pass[d].jobs
  BY <1>1, JobFacts DEF IInv
<1>3. /\ pass' \in [Dispatcher -> Pass]
      /\ \A e \in Dispatcher :
           pass'[e].jobs = {} <=> pass'[e].at \in {"idle", "select"}
      /\ pass'[d].at = "deliver"
      /\ \A e \in Dispatcher : e # d => pass'[e].at = pass[e].at
      /\ \A e \in Dispatcher :
           pass'[e].jobs = pass[e].jobs /\ Job(e)' = Job(e)
  BY <1>1, GoesFacts DEF IInv, Busy
<1>4. /\ status'[m] = "PROCESSING" /\ attempts'[m] = attempts[m] + 1
      /\ \A n \in Mail : n # m => /\ status'[n] = status[n]
                                  /\ attempts'[n] = attempts[n]
  BY <1>1, <1>2 DEF IInv, TypeOK
<1>5. TypeOK'
  BY <1>1, <1>2, <1>3 DEF IInv, TypeOK, Waiting
<1>6. Owned'
  <2>1. ASSUME NEW n \in Mail \ stalled, n # m, NEW e \in Dispatcher
        PROVE  /\ Attempting(e, n)' <=> Attempting(e, n)
               /\ At(e, "error") => At(e, "error")'
    BY <1>1, <1>3, <2>1, <1>0 DEF Attempting, At
  <2>2. m \notin stalled => \A e \in Dispatcher : ~ Attempting(e, m)
    BY <1>2 DEF IInv, Owned, Waiting
  <2>3. m \notin stalled =>
          \A e \in Dispatcher : Attempting(e, m)' => e = d
    BY <1>3, <2>2 DEF Attempting
  <2> QED
    BY <1>1, <1>4, <2>1, <2>3 DEF IInv, Owned
<1>7. Answered'
  BY <1>1, <1>3 DEF IInv, Answered, At
<1>8. Copied'
  <2>1. \A e \in Dispatcher : \A j \in pass[e].jobs :
          j.mail \in Mail /\ j.attempts \in Nat
    BY DEF IInv, TypeOK, Pass, Snapshot
  <2>2. \A n \in Mail :
          /\ attempts[n] \in Nat /\ attempts'[n] \in Nat
          /\ attempts[n] <= attempts'[n]
    BY <1>4, <1>5 DEF IInv, TypeOK
  <2>3. \A n \in Mail : status[n] \in Ever => status'[n] \in Ever
    BY <1>4 DEF Ever
  <2>4. ASSUME NEW e \in Dispatcher, NEW j \in pass'[e].jobs
        PROVE  (/\ status[j.mail] \in Ever
                /\ j.mail \in hurried \/ j.attempts <= attempts[j.mail])'
    <3>1. /\ j \in pass[e].jobs /\ j.mail \in Mail /\ j.attempts \in Nat
          /\ status[j.mail] \in Ever
          /\ j.mail \in hurried \/ j.attempts <= attempts[j.mail]
      BY <1>3, <2>1, <2>4 DEF IInv, Copied
    <3> QED
      BY <1>1, <2>2, <2>3, <3>1
  <2>5. ASSUME NEW e \in Dispatcher, pass'[e].at \in Busy
        PROVE  (/\ \/ Job(e).mail \in hurried
                   \/ Job(e).attempts + 1 <= attempts[Job(e).mail]
                /\ Job(e).mail \in stalled \/ attempts[Job(e).mail] >= 1)'
    <3>1. CASE e = d
      <4>1. m \in hurried \/ Job(d).attempts <= attempts[m]
        BY <1>0, <1>2 DEF IInv, Copied
      <4>2. Job(d)' = Job(d)
        BY <1>3
      <4> QED
        BY <1>0, <1>1, <1>2, <1>4, <2>2, <3>1, <4>1, <4>2
    <3>2. CASE e # d
      <4>1. /\ pass[e].at \in Busy /\ Job(e)' = Job(e)
            /\ pass[e].at \notin {"idle", "select"}
        BY <1>3, <2>5, <3>2 DEF Busy
      <4>2. /\ \/ Job(e).mail \in hurried
               \/ Job(e).attempts + 1 <= attempts[Job(e).mail]
            /\ Job(e).mail \in stalled \/ attempts[Job(e).mail] >= 1
        BY <4>1 DEF IInv, Copied
      <4>3. Job(e).mail \in Mail /\ Job(e).attempts \in Nat
        BY <4>1, JobFacts DEF IInv
      <4> QED
        BY <1>1, <2>2, <4>1, <4>2, <4>3
    <3> QED
      BY <3>1, <3>2
  <2> QED
    BY <2>4, <2>5 DEF Copied
<1>9. Lapsed'
  BY <1>1, <1>4 DEF IInv, Lapsed, Ever, TypeOK
<1> QED
  BY <1>5, <1>6, <1>7, <1>8, <1>9 DEF IInv

LEMMA PassOverPreserves ==
  ASSUME IInv, NEW d \in Dispatcher, PassOver(d)
  PROVE  IInv'
<1>1. /\ pass[d].at = "claim" /\ Advance(d)
      /\ status' = status /\ attempts' = attempts /\ due' = due /\ old' = old
      /\ accepted' = accepted /\ hurried' = hurried /\ stalled' = stalled
      /\ faults' = faults /\ requeues' = requeues
  BY DEF PassOver, At, row, ghosts, counts
<1>2. /\ pass' \in [Dispatcher -> Pass]
      /\ \A e \in Dispatcher :
           pass'[e].jobs = {} <=> pass'[e].at \in {"idle", "select"}
      /\ pass'[d].at \in {"idle", "claim"}
      /\ pass'[d].jobs \subseteq pass[d].jobs
      /\ \A e \in Dispatcher : e # d =>
           /\ pass'[e].at = pass[e].at /\ pass'[e].jobs = pass[e].jobs
           /\ Job(e)' = Job(e)
  BY <1>1, AdvanceFacts DEF IInv
<1>3. \A e \in Dispatcher, n \in Mail : Attempting(e, n)' <=> Attempting(e, n)
  BY <1>1, <1>2 DEF Attempting
<1>4. TypeOK'
  BY <1>1, <1>2 DEF IInv, TypeOK
<1>5. Owned'
  <2>1. \A e \in Dispatcher : At(e, "error") => At(e, "error")'
    BY <1>1, <1>2 DEF At
  <2> QED
    BY <1>1, <1>3, <2>1 DEF IInv, Owned
<1>6. Answered'
  BY <1>1, <1>2 DEF IInv, Answered, At
<1>7. Copied'
  BY <1>1, <1>2 DEF IInv, Copied, Busy
<1>8. Lapsed'
  BY <1>1 DEF IInv, Lapsed
<1> QED
  BY <1>4, <1>5, <1>6, <1>7, <1>8 DEF IInv

LEMMA DeliverPreserves ==
  ASSUME IInv, NEW d \in Dispatcher, Deliver(d)
  PROVE  IInv'
<1>1. PICK place \in {"accepted", "error"} :
        /\ Goes(d, place)
        /\ \/ accepted' = accepted \cup {Job(d).mail}
           \/ place = "error" /\ accepted' = accepted
  BY DEF Deliver
<1>2. /\ pass[d].at = "deliver"
      /\ \/ faults' = faults
         \/ faults < MaxFaults /\ faults' = faults + 1
      /\ status' = status /\ attempts' = attempts /\ due' = due /\ old' = old
      /\ hurried' = hurried /\ stalled' = stalled /\ requeues' = requeues
  BY DEF Deliver, Fault, At, row
<1>3. /\ pass' \in [Dispatcher -> Pass]
      /\ \A e \in Dispatcher :
           pass'[e].jobs = {} <=> pass'[e].at \in {"idle", "select"}
      /\ pass'[d].at = place
      /\ \A e \in Dispatcher : e # d => pass'[e].at = pass[e].at
      /\ \A e \in Dispatcher :
           pass'[e].jobs = pass[e].jobs /\ Job(e)' = Job(e)
  BY <1>1, <1>2, GoesFacts DEF IInv, Busy
<1>4. Job(d).mail \in Mail
  BY <1>2, JobFacts DEF IInv
<1>5. /\ \A e \in Dispatcher, n \in Mail : Attempting(e, n)' <=> Attempting(e, n)
      /\ \A e \in Dispatcher : pass'[e].at \in Busy <=> pass[e].at \in Busy
  BY <1>2, <1>3 DEF Attempting, Busy
<1>6. TypeOK'
  BY <1>1, <1>2, <1>3, <1>4, BoundAssumption DEF IInv, TypeOK
<1>7. Owned'
  <2>1. \A e \in Dispatcher : At(e, "error") => At(e, "error")'
    BY <1>2, <1>3 DEF At
  <2> QED
    BY <1>2, <1>5, <2>1 DEF IInv, Owned
<1>8. Answered'
  BY <1>1, <1>3 DEF IInv, Answered, At
<1>9. Copied'
  BY <1>2, <1>3, <1>5 DEF IInv, Copied
<1>10. Lapsed'
  BY <1>2 DEF IInv, Lapsed
<1> QED
  BY <1>6, <1>7, <1>8, <1>9, <1>10 DEF IInv

(* The record of a success throws, whether it took effect or not.          *)
Unrecorded(d) == RecordSentFails(d) \/ RecordSentUnacknowledged(d)

LEMMA UnrecordedFacts ==
  ASSUME NEW d \in Dispatcher, Unrecorded(d)
  PROVE  /\ pass[d].at = "accepted" /\ Goes(d, "error")
         /\ faults < MaxFaults /\ faults' = faults + 1
         /\ \/ status' = status /\ old' = old
            \/ /\ status' = [status EXCEPT ![Job(d).mail] = "SENT"]
               /\ old' = old \ {Job(d).mail}
         /\ attempts' = attempts /\ due' = due /\ accepted' = accepted
         /\ hurried' = hurried /\ stalled' = stalled /\ requeues' = requeues
  BY DEF Unrecorded, RecordSentFails, RecordSentUnacknowledged, Fault, At, row,
         ghosts

LEMMA UnrecordedPreserves ==
  ASSUME IInv, NEW d \in Dispatcher, Unrecorded(d)
  PROVE  IInv'
<1>1. /\ pass[d].at = "accepted" /\ Goes(d, "error")
      /\ faults < MaxFaults /\ faults' = faults + 1
      /\ \/ status' = status /\ old' = old
         \/ /\ status' = [status EXCEPT ![Job(d).mail] = "SENT"]
            /\ old' = old \ {Job(d).mail}
      /\ attempts' = attempts /\ due' = due /\ accepted' = accepted
      /\ hurried' = hurried /\ stalled' = stalled /\ requeues' = requeues
  BY UnrecordedFacts
<1>2. /\ pass' \in [Dispatcher -> Pass]
      /\ \A e \in Dispatcher :
           pass'[e].jobs = {} <=> pass'[e].at \in {"idle", "select"}
      /\ pass'[d].at = "error"
      /\ \A e \in Dispatcher : e # d => pass'[e].at = pass[e].at
      /\ \A e \in Dispatcher :
           pass'[e].jobs = pass[e].jobs /\ Job(e)' = Job(e)
  BY <1>1, GoesFacts DEF IInv, Busy
<1>3. /\ \A e \in Dispatcher, n \in Mail : Attempting(e, n)' <=> Attempting(e, n)
      /\ \A e \in Dispatcher : pass'[e].at \in Busy <=> pass[e].at \in Busy
      /\ \A e \in Dispatcher : At(e, "error") => At(e, "error")'
  BY <1>1, <1>2 DEF Attempting, Busy, At
<1>4. /\ Job(d).mail \in Mail /\ Attempting(d, Job(d).mail)
      /\ status[Job(d).mail] \in Ever
  BY <1>1, JobFacts DEF IInv, Copied, Attempting, Busy
<1>5. TypeOK'
  BY <1>1, <1>2, BoundAssumption DEF IInv, TypeOK, Waiting
<1>6. Owned'
  <2>1. ASSUME NEW n \in Mail \ stalled, NEW e \in Dispatcher,
               Attempting(e, n)
        PROVE  (\/ status[n] = "PROCESSING"
                \/ status[n] = "SENT" /\ At(e, "error"))'
    <3>1. CASE status' = status
      BY <1>3, <2>1, <3>1 DEF IInv, Owned
    <3>2. CASE n # Job(d).mail
      BY <1>1, <1>3, <2>1, <3>2 DEF IInv, Owned, TypeOK
    <3>3. CASE n = Job(d).mail
      <4>1. e = d
        BY <1>4, <2>1, <3>3 DEF IInv, Owned
      <4>2. status'[n] \in {status[n], "SENT"}
        BY <1>1 DEF IInv, TypeOK
      <4>3. At(e, "error")'
        BY <1>2, <4>1 DEF At
      <4> QED
        BY <2>1, <4>2, <4>3 DEF IInv, Owned
    <3> QED
      BY <1>1, <3>1, <3>2, <3>3
  <2> QED
    BY <1>1, <1>3, <2>1 DEF IInv, Owned
<1>7. Answered'
  BY <1>1, <1>2 DEF IInv, Answered, At
<1>8. \A n \in Mail : status[n] \in Ever => status'[n] \in Ever
  BY <1>1, <1>4 DEF Ever, IInv, TypeOK
<1>9. Copied'
  <2>1. \A e \in Dispatcher : \A j \in pass[e].jobs : j.mail \in Mail
    BY DEF IInv, TypeOK, Pass, Snapshot
  <2> QED
    BY <1>1, <1>2, <1>3, <1>8, <2>1 DEF IInv, Copied
<1>10. Lapsed'
  BY <1>1, <1>8 DEF IInv, Lapsed, TypeOK
<1> QED
  BY <1>5, <1>6, <1>7, <1>9, <1>10 DEF IInv

(* RecordSent and RecordError: the row gets its verdict, the loop goes on. *)
LEMMA VerdictPreserves ==
  ASSUME IInv, NEW d \in Dispatcher, pass[d].at \in Busy, Advance(d),
         NEW s \in {"SENT", "FAILED", "RETRY"},
         status' = [status EXCEPT ![Job(d).mail] = s],
         due' \subseteq due, old' = old \ {Job(d).mail},
         attempts' = attempts, accepted' = accepted, hurried' = hurried,
         stalled' = stalled, faults' = faults, requeues' = requeues
  PROVE  IInv'
<1>1. PICK m \in Mail : m = Job(d).mail /\ Job(d) \in pass[d].jobs
  BY JobFacts DEF IInv, Busy
<1>2. /\ pass' \in [Dispatcher -> Pass]
      /\ \A e \in Dispatcher :
           pass'[e].jobs = {} <=> pass'[e].at \in {"idle", "select"}
      /\ pass'[d].at \in {"idle", "claim"}
      /\ pass'[d].jobs \subseteq pass[d].jobs
      /\ \A e \in Dispatcher : e # d =>
           /\ pass'[e].at = pass[e].at /\ pass'[e].jobs = pass[e].jobs
           /\ Job(e)' = Job(e)
  BY AdvanceFacts DEF IInv
<1>3. /\ status'[m] = s /\ old' = old \ {m}
      /\ \A n \in Mail : n # m => status'[n] = status[n]
  BY <1>1 DEF IInv, TypeOK
<1>4. /\ Attempting(d, m)
      /\ \A n \in Mail : ~ Attempting(d, n)'
      /\ \A e \in Dispatcher, n \in Mail :
           e # d => (Attempting(e, n)' <=> Attempting(e, n))
  BY <1>1, <1>2 DEF Attempting, Busy
<1>5. TypeOK'
  BY <1>1, <1>2 DEF IInv, TypeOK, Waiting
<1>6. Owned'
  <2>1. m \notin stalled => \A e \in Dispatcher : ~ Attempting(e, m)'
    BY <1>4 DEF IInv, Owned
  <2>2. \A e \in Dispatcher : e # d => (At(e, "error") => At(e, "error")')
    BY <1>2 DEF At
  <2> QED
    BY <1>3, <1>4, <2>1, <2>2 DEF IInv, Owned
<1>7. Answered'
  BY <1>2 DEF IInv, Answered, At
<1>8. Copied'
  <2>1. \A e \in Dispatcher : \A j \in pass[e].jobs : j.mail \in Mail
    BY DEF IInv, TypeOK, Pass, Snapshot
  <2>2. \A n \in Mail : status[n] \in Ever => status'[n] \in Ever
    BY <1>3 DEF Ever, Waiting
  <2>3. \A e \in Dispatcher : pass'[e].jobs \subseteq pass[e].jobs
    BY <1>2
  <2>4. pass'[d].at \notin Busy
    BY <1>2 DEF Busy
  <2> QED
    BY <1>2, <2>1, <2>2, <2>3, <2>4 DEF IInv, Copied
<1>9. Lapsed'
  BY <1>3 DEF IInv, Lapsed, Ever, Waiting, TypeOK
<1> QED
  BY <1>5, <1>6, <1>7, <1>8, <1>9 DEF IInv

LEMMA RecordPreserves ==
  ASSUME IInv, NEW d \in Dispatcher, RecordSent(d) \/ RecordError(d)
  PROVE  IInv'
<1>1. CASE RecordSent(d)
  BY <1>1, VerdictPreserves DEF RecordSent, At, Busy, ghosts, counts
<1>2. CASE RecordError(d)
  BY <1>2, VerdictPreserves DEF RecordError, At, Busy, ghosts, counts
<1> QED
  BY <1>1, <1>2

LEMMA AbortPreserves ==
  ASSUME IInv, NEW d \in Dispatcher, Abort(d)
  PROVE  IInv'
<1>1. /\ pass' = [pass EXCEPT ![d] = Idle]
      /\ faults < MaxFaults /\ faults' = faults + 1
      /\ status' = status /\ attempts' = attempts /\ due' = due /\ old' = old
      /\ accepted' = accepted /\ hurried' = hurried /\ stalled' = stalled
      /\ requeues' = requeues
  BY DEF Abort, Fault, row, ghosts
<1>2. /\ Idle \in Pass /\ Idle.at = "idle" /\ Idle.jobs = {}
  BY DEF Idle, Pass
<1>3. /\ pass'[d] = Idle
      /\ \A e \in Dispatcher : e # d =>
           pass'[e] = pass[e] /\ Job(e)' = Job(e)
  BY <1>1 DEF IInv, TypeOK, Job
<1>4. TypeOK'
  <2>1. \A e \in Dispatcher :
          pass'[e].jobs = {} <=> pass'[e].at \in {"idle", "select"}
    BY <1>2, <1>3 DEF IInv, TypeOK
  <2> QED
    BY <1>1, <1>2, <2>1, BoundAssumption DEF IInv, TypeOK
<1>5. /\ \A n \in Mail : ~ Attempting(d, n)'
      /\ \A e \in Dispatcher, n \in Mail :
           e # d => (Attempting(e, n)' <=> Attempting(e, n))
  BY <1>2, <1>3 DEF Attempting
<1>6. Owned'
  <2>1. \A e \in Dispatcher : e # d => (At(e, "error") => At(e, "error")')
    BY <1>3 DEF At
  <2> QED
    BY <1>1, <1>5, <2>1 DEF IInv, Owned
<1>7. Answered'
  BY <1>1, <1>2, <1>3 DEF IInv, Answered, At
<1>8. Copied'
  BY <1>1, <1>2, <1>3 DEF IInv, Copied, Busy
<1>9. Lapsed'
  BY <1>1 DEF IInv, Lapsed
<1> QED
  BY <1>4, <1>6, <1>7, <1>8, <1>9 DEF IInv

-----------------------------------------------------------------------------
(* Time, and the operator.                                                 *)

(* A step that leaves the passes and the provider alone and keeps what the *)
(* rows are to them.                                                       *)
LEMMA RowStepPreserves ==
  ASSUME IInv, TypeOK', Owned', Copied',
         pass' = pass, accepted' = accepted,
         stalled \subseteq stalled', stalled' \subseteq Mail,
         \A n \in Mail :
           /\ status[n] \in Ever => status'[n] \in Ever
           /\ n \in stalled' \ stalled => status[n] = "PROCESSING"
  PROVE  IInv'
<1>1. \A e \in Dispatcher : Job(e)' = Job(e)
  BY DEF Job
<1>2. Answered'
  BY <1>1 DEF IInv, Answered, At
<1>3. Lapsed'
  BY DEF IInv, Lapsed, Ever
<1> QED
  BY <1>2, <1>3 DEF IInv

(* A step that touches neither the passes nor the rows' status and count.  *)
LEMMA CopiesStay ==
  ASSUME IInv, pass' = pass, status' = status, attempts' = attempts,
         hurried' = hurried, stalled \subseteq stalled'
  PROVE  Copied'
<1>1. \A e \in Dispatcher : Job(e)' = Job(e)
  BY DEF Job
<1> QED
  BY <1>1 DEF IInv, Copied

LEMMA BecomesDuePreserves ==
  ASSUME IInv, NEW m \in Mail, BecomesDue(m)
  PROVE  IInv'
<1>1. /\ due' = due \cup {m}
      /\ status' = status /\ attempts' = attempts /\ old' = old /\ pass' = pass
      /\ accepted' = accepted /\ hurried' = hurried /\ stalled' = stalled
      /\ faults' = faults /\ requeues' = requeues
  BY DEF BecomesDue, ghosts, counts
<1>2. TypeOK'
  BY <1>1 DEF IInv, TypeOK
<1>3. Owned'
  BY <1>1 DEF IInv, Owned, Attempting, Job, At
<1>4. Copied'
  BY <1>1, CopiesStay
<1> QED
  BY <1>1, <1>2, <1>3, <1>4, RowStepPreserves DEF IInv, TypeOK

LEMMA OrphanExpiresPreserves ==
  ASSUME IInv, NEW m \in Mail, OrphanExpires(m)
  PROVE  IInv'
<1>1. /\ status[m] = "PROCESSING" /\ old' = old \cup {m}
      /\ \A d \in Dispatcher : ~ Attempting(d, m)
      /\ status' = status /\ attempts' = attempts /\ due' = due /\ pass' = pass
      /\ accepted' = accepted /\ hurried' = hurried /\ stalled' = stalled
      /\ faults' = faults /\ requeues' = requeues
  BY DEF OrphanExpires, Claimed, ghosts, counts
<1>2. TypeOK'
  BY <1>1 DEF IInv, TypeOK
<1>3. Owned'
  <2>1. \A d \in Dispatcher, n \in Mail :
          Attempting(d, n)' <=> Attempting(d, n)
    BY <1>1 DEF Attempting, Job
  <2> QED
    BY <1>1, <2>1 DEF IInv, Owned, At
<1>4. Copied'
  BY <1>1, CopiesStay
<1> QED
  BY <1>1, <1>2, <1>3, <1>4, RowStepPreserves DEF IInv, TypeOK

LEMMA LiveClaimExpiresPreserves ==
  ASSUME IInv, NEW m \in Mail, LiveClaimExpires(m)
  PROVE  IInv'
<1>1. /\ status[m] = "PROCESSING" /\ old' = old \cup {m}
      /\ faults < MaxFaults /\ faults' = faults + 1
      /\ stalled' = stalled \cup {m}
      /\ status' = status /\ attempts' = attempts /\ due' = due /\ pass' = pass
      /\ accepted' = accepted /\ hurried' = hurried /\ requeues' = requeues
  BY DEF LiveClaimExpires, Claimed, Fault
<1>2. TypeOK'
  BY <1>1, BoundAssumption DEF IInv, TypeOK
<1>3. Owned'
  <2>1. \A d \in Dispatcher, n \in Mail :
          Attempting(d, n)' <=> Attempting(d, n)
    BY <1>1 DEF Attempting, Job
  <2> QED
    BY <1>1, <2>1 DEF IInv, Owned, At
<1>4. Copied'
  BY <1>1, CopiesStay
<1> QED
  BY <1>1, <1>2, <1>3, <1>4, RowStepPreserves DEF IInv, TypeOK

LEMMA RequeuePreserves ==
  ASSUME IInv, NEW m \in Mail, Requeue(m)
  PROVE  IInv'
<1>1. /\ status[m] = "FAILED" /\ status' = [status EXCEPT ![m] = "RETRY"]
      /\ attempts' = [attempts EXCEPT ![m] = 0]
      /\ requeues < MaxRequeues /\ requeues' = requeues + 1
      /\ due' = due \cup {m} /\ old' = old /\ pass' = pass
      /\ hurried' = IF Held(m) THEN hurried \cup {m} ELSE hurried \ {m}
      /\ accepted' = accepted /\ stalled' = stalled /\ faults' = faults
  BY DEF Requeue
<1>2. TypeOK'
  BY <1>1, BoundAssumption DEF IInv, TypeOK, Waiting
<1>3. /\ status'[m] = "RETRY" /\ attempts'[m] = 0
      /\ \A n \in Mail : n # m =>
           status'[n] = status[n] /\ attempts'[n] = attempts[n]
  BY <1>1 DEF IInv, TypeOK
<1>4. Owned'
  <2>1. \A d \in Dispatcher, n \in Mail :
          Attempting(d, n)' <=> Attempting(d, n)
    BY <1>1 DEF Attempting, Job
  <2> QED
    BY <1>1, <1>3, <2>1 DEF IInv, Owned, At
<1>5. stalled \subseteq Mail
  BY DEF IInv, TypeOK
<1>6. \A n \in Mail : status[n] \in Ever => status'[n] \in Ever
  BY <1>1, <1>3 DEF Ever, Waiting
<1>7. Copied'
  <2>1. /\ \A d \in Dispatcher : Job(d)' = Job(d)
        /\ \A d \in Dispatcher : \A j \in pass[d].jobs : j.mail \in Mail
    BY <1>1 DEF Job, IInv, TypeOK, Pass, Snapshot
  <2>2. ASSUME NEW d \in Dispatcher, NEW j \in pass[d].jobs
        PROVE  (j.mail \in hurried \/ j.attempts <= attempts[j.mail])'
    <3>1. CASE j.mail = m
      BY <1>1, <2>2, <3>1 DEF Held
    <3>2. CASE j.mail # m
      BY <1>1, <1>3, <2>1, <2>2, <3>2 DEF IInv, Copied
    <3> QED
      BY <3>1, <3>2
  <2>3. ASSUME NEW d \in Dispatcher, pass[d].at \in Busy
        PROVE  (/\ \/ Job(d).mail \in hurried
                   \/ Job(d).attempts + 1 <= attempts[Job(d).mail]
                /\ Job(d).mail \in stalled \/ attempts[Job(d).mail] >= 1)'
    <3>1. Job(d) \in pass[d].jobs /\ Job(d).mail \in Mail
      BY <2>3, JobFacts DEF IInv, Busy
    <3>2. CASE Job(d).mail = m
      <4>1. Attempting(d, m)
        BY <2>3, <3>2 DEF Attempting, Busy
      <4>2. m \in stalled
        BY <1>1, <4>1 DEF IInv, Owned
      <4> QED
        BY <1>1, <2>1, <3>1, <3>2, <4>2 DEF Held
    <3>3. CASE Job(d).mail # m
      BY <1>1, <1>3, <2>1, <2>3, <3>1, <3>3 DEF IInv, Copied
    <3> QED
      BY <3>2, <3>3
  <2> QED
    BY <1>1, <1>6, <2>1, <2>2, <2>3 DEF IInv, Copied
<1> QED
  BY <1>1, <1>2, <1>4, <1>5, <1>6, <1>7, RowStepPreserves

(***************************************************************************)
(* The inductive invariant.  A row that is PROCESSING belongs to the one   *)
(* pass that claimed it as long as its claim does not expire under the     *)
(* attempt, and the copies that a pass holds lag behind the claims made,   *)
(* which is what makes giving up by a copy safe, unless a requeue has set  *)
(* the count back under them.                                              *)
(***************************************************************************)
THEOREM Invariance == Spec => []IInv
<1>1. IInv /\ [Next]_vars => IInv'
  <2> SUFFICES ASSUME IInv, [Next]_vars PROVE IInv'
    OBVIOUS
  <2>1. ASSUME NEW d \in Dispatcher,
               Step(d) \/ Unrecorded(d) \/ Abort(d)
        PROVE  IInv'
    BY <2>1, RecoverPreserves, SelectPreserves, ClaimPreserves,
       PassOverPreserves, DeliverPreserves, RecordPreserves,
       UnrecordedPreserves, AbortPreserves DEF Step
  <2>2. ASSUME NEW m \in Mail,
               \/ Queue(m) \/ SendNow(m) \/ BecomesDue(m)
               \/ OrphanExpires(m) \/ LiveClaimExpires(m) \/ Requeue(m)
        PROVE  IInv'
    BY <2>2, QueuePreserves, SendNowPreserves, BecomesDuePreserves,
       OrphanExpiresPreserves, LiveClaimExpiresPreserves, RequeuePreserves
  <2>3. CASE UNCHANGED vars
    BY <2>3
    DEF vars, row, ghosts, counts, IInv, TypeOK, Owned, Answered, Copied,
        Lapsed, Attempting, At, Job
  <2> QED
    BY <2>1, <2>2, <2>3 DEF Next, Unrecorded
<1> QED
  BY <1>1, InitIInv, PTL DEF Spec

(***************************************************************************)
(* Rows, passes and counts keep their types; only a row in PROCESSING has  *)
(* a claim that can be recovered, and only a pass at work holds copies.    *)
(***************************************************************************)
THEOREM Typing == Spec => []TypeOK
<1>1. IInv => TypeOK
  BY DEF IInv
<1> QED
  BY <1>1, Invariance, PTL

(***************************************************************************)
(* However the passes overlap, a mail is in the hands of one of them, for  *)
(* any number of dispatchers, crashes and requeues.                        *)
(***************************************************************************)
THEOREM SingleHands == Spec => []OneDeliverer
<1>1. IInv => OneDeliverer
  BY DEF IInv, Owned, OneDeliverer
<1> QED
  BY <1>1, Invariance, PTL

-----------------------------------------------------------------------------
(* The bound on attempts.                                                  *)

(* A pass holds one copy of a row.                                         *)
Distinct ==
  \A d \in Dispatcher : \A i, j \in pass[d].jobs : i.mail = j.mail => i = j

(* The dispatchers whose copy of a row lets them try it and not give up.   *)
Stale(m) ==
  {d \in Dispatcher :
     /\ ~ Attempting(d, m)
     /\ \E j \in pass[d].jobs : j.mail = m /\ j.attempts + 1 < MaxAttempts}

(* The last attempt at a row is made, or was.                              *)
Closing(m) ==
  \/ status[m] = "FAILED"
  \/ status[m] = "SENT" /\ \A d \in Dispatcher : ~ Attempting(d, m)
  \/ \E d \in Dispatcher : Attempting(d, m) /\ Terminal(d)

(* The attempts made and the further ones that stale copies allow.         *)
Bound(m) ==
  attempts[m] + Cardinality(Stale(m)) <=
    MaxAttempts - 2 + Cardinality(Dispatcher) + faults
      + (IF Closing(m) THEN 1 ELSE 0)

Quota == Distinct /\ \A m \in Mail \ stalled : Bound(m)

LEMMA Dispatchers ==
  /\ Cardinality(Dispatcher) \in Nat
  /\ Cardinality(Dispatcher) >= 1
  /\ \A S \in SUBSET Dispatcher :
       /\ IsFiniteSet(S) /\ Cardinality(S) \in Nat
       /\ Cardinality(S) <= Cardinality(Dispatcher)
<1>1. Cardinality(Dispatcher) \in Nat
  BY DispatcherAssumption, FS_CardinalityType
<1>2. Cardinality(Dispatcher) # 0
  BY DispatcherAssumption, FS_EmptySet
<1>3. ASSUME NEW S \in SUBSET Dispatcher
      PROVE  /\ IsFiniteSet(S) /\ Cardinality(S) \in Nat
             /\ Cardinality(S) <= Cardinality(Dispatcher)
  <2>1. IsFiniteSet(S) /\ Cardinality(S) <= Cardinality(Dispatcher)
    BY DispatcherAssumption, FS_Subset
  <2> QED
    BY <2>1, FS_CardinalityType
<1> QED
  BY <1>1, <1>2, <1>3

(* No new attempt, no new stale copy, and what closed the row stays or the *)
(* step is a fault.                                                        *)
LEMMA BoundStays ==
  ASSUME IInv, IInv', NEW m \in Mail, Bound(m),
         attempts'[m] = attempts[m], Stale(m)' \subseteq Stale(m),
         \/ faults' >= faults /\ (Closing(m) => Closing(m)')
         \/ faults' = faults + 1
  PROVE  Bound(m)'
<1>1. PICK S \in SUBSET Dispatcher : S = Stale(m)
  BY DEF Stale
<1>2. PICK T \in SUBSET Dispatcher : T = Stale(m)'
  BY DEF Stale
<1>3. Cardinality(T) <= Cardinality(S)
  BY <1>1, <1>2, Dispatchers, FS_Subset
<1>4. /\ Cardinality(S) \in Nat /\ Cardinality(T) \in Nat
      /\ Cardinality(Dispatcher) \in Nat
  BY Dispatchers
<1>5. attempts[m] \in Nat /\ faults \in Nat /\ faults' \in Nat
  BY BoundAssumption DEF IInv, TypeOK
<1>6. attempts[m] + Cardinality(S) <=
        MaxAttempts - 2 + Cardinality(Dispatcher) + faults
          + (IF Closing(m) THEN 1 ELSE 0)
  BY <1>1 DEF Bound
<1>7. attempts'[m] + Cardinality(T) <=
        MaxAttempts - 2 + Cardinality(Dispatcher) + faults'
          + (IF Closing(m)' THEN 1 ELSE 0)
  BY <1>3, <1>4, <1>5, <1>6, SizeAssumption
<1> QED
  BY <1>2, <1>7 DEF Bound

(* Few attempts: even if every dispatcher holds a stale copy.              *)
LEMMA FreshBound ==
  ASSUME IInv, IInv', NEW m \in Mail,
         attempts'[m] + 1 < MaxAttempts \/ Stale(m)' = {},
         \/ attempts'[m] + 1 < MaxAttempts \/ attempts'[m] = 0
         \/ attempts'[m] = 1 /\ Closing(m)'
  PROVE  Bound(m)'
<1>1. PICK T \in SUBSET Dispatcher : T = Stale(m)'
  BY DEF Stale
<1>2. /\ Cardinality(T) \in Nat /\ Cardinality(T) <= Cardinality(Dispatcher)
      /\ Cardinality(Dispatcher) \in Nat /\ Cardinality(Dispatcher) >= 1
      /\ T = {} => Cardinality(T) = 0
  BY Dispatchers, FS_EmptySet
<1>3. attempts'[m] \in Nat /\ faults' \in Nat
  BY BoundAssumption DEF IInv, TypeOK
<1>4. attempts'[m] + Cardinality(T) <=
        MaxAttempts - 2 + Cardinality(Dispatcher) + faults'
          + (IF Closing(m)' THEN 1 ELSE 0)
  BY <1>1, <1>2, <1>3, SizeAssumption
<1> QED
  BY <1>1, <1>4 DEF Bound

(* A dispatcher whose pass stays is what it was to every row.              *)
LEMMA OthersStay ==
  ASSUME NEW e \in Dispatcher, NEW m \in Mail,
         pass'[e].at = pass[e].at, pass'[e].jobs = pass[e].jobs
  PROVE  /\ Attempting(e, m)' <=> Attempting(e, m)
         /\ Terminal(e)' <=> Terminal(e)
         /\ e \in Stale(m)' <=> e \in Stale(m)
<1>1. Job(e)' = Job(e)
  BY DEF Job
<1>2. Attempting(e, m)' <=> Attempting(e, m)
  BY <1>1 DEF Attempting
<1> QED
  BY <1>1, <1>2 DEF Terminal, Stale

(* A step that leaves the passes alone.                                    *)
LEMMA RowStepKeepsBound ==
  ASSUME IInv, IInv', NEW m \in Mail, Bound(m), pass' = pass,
         attempts'[m] = attempts[m], faults' >= faults,
         status[m] \in {"SENT", "FAILED"} => status'[m] = status[m]
  PROVE  Bound(m)'
<1>1. \A e \in Dispatcher :
        /\ Attempting(e, m)' <=> Attempting(e, m)
        /\ Terminal(e)' <=> Terminal(e)
        /\ e \in Stale(m)' <=> e \in Stale(m)
  BY OthersStay
<1>2. Stale(m)' \subseteq Stale(m)
  BY <1>1 DEF Stale
<1>3. Closing(m) => Closing(m)'
  BY <1>1 DEF Closing
<1> QED
  BY <1>2, <1>3, BoundStays

LEMMA InsertionKeepsBound ==
  ASSUME IInv, IInv', NEW n \in Mail, Queue(n) \/ SendNow(n),
         NEW m \in Mail, Bound(m)
  PROVE  Bound(m)'
<1>1. /\ status[n] = "absent" /\ pass' = pass
      /\ \E s \in {"PENDING", "SKIPPED", "SENT", "unlogged"} :
           status' = [status EXCEPT ![n] = s]
      /\ attempts' \in {attempts, [attempts EXCEPT ![n] = 1]}
      /\ faults' \in {faults, faults + 1}
  BY DEF Queue, SendNow, NextMail, Fault, counts
<1>2. faults \in Nat /\ faults' >= faults
  BY <1>1, BoundAssumption DEF IInv, TypeOK
<1>3. CASE m # n \/ attempts' = attempts
  <2>1. attempts'[m] = attempts[m]
    BY <1>1, <1>3 DEF IInv, TypeOK
  <2>2. status[m] \in {"SENT", "FAILED"} => status'[m] = status[m]
    BY <1>1 DEF IInv, TypeOK
  <2> QED
    BY <1>1, <1>2, <2>1, <2>2, RowStepKeepsBound
<1>4. CASE m = n /\ attempts' # attempts
  <2>1. /\ status' = [status EXCEPT ![m] = "SENT"]
        /\ attempts' = [attempts EXCEPT ![m] = 1]
    BY <1>4 DEF Queue, SendNow
  <2>2. /\ \A d \in Dispatcher : \A j \in pass'[d].jobs : j.mail # m
        /\ \A d \in Dispatcher : ~ Attempting(d, m)'
    BY <1>1, <1>4, AbsentIsUnknown DEF Attempting, Job
  <2>3. attempts'[m] = 1 /\ Closing(m)'
    BY <2>1, <2>2 DEF IInv, TypeOK, Closing
  <2>4. Stale(m)' = {}
    BY <2>2 DEF Stale
  <2> QED
    BY <2>3, <2>4, FreshBound
<1> QED
  BY <1>3, <1>4

LEMMA RecoverKeepsBound ==
  ASSUME IInv, IInv', NEW d \in Dispatcher, Recover(d),
         NEW m \in Mail \ stalled, Bound(m)
  PROVE  Bound(m)'
<1>1. /\ pass[d].at = "idle" /\ pass'[d].at = "select"
      /\ \A e \in Dispatcher : pass'[e].jobs = pass[e].jobs
      /\ \A e \in Dispatcher : e # d => pass'[e].at = pass[e].at
      /\ status'[m] = IF m \in old THEN "RETRY" ELSE status[m]
      /\ attempts' = attempts /\ faults' = faults
  <2>1. /\ pass[d] = Idle /\ pass \in [Dispatcher -> Pass]
        /\ pass' = [pass EXCEPT ![d] = [pass[d] EXCEPT !.at = "select"]]
    BY DEF Recover, Goes, IInv, TypeOK
  <2>2. [Idle EXCEPT !.at = "select"] = [at |-> "select", jobs |-> {}]
    BY DEF Idle
  <2>3. /\ pass'[d] = [at |-> "select", jobs |-> {}]
        /\ \A e \in Dispatcher : e # d => pass'[e] = pass[e]
    BY <2>1, <2>2
  <2>4. /\ attempts' = attempts /\ faults' = faults
        /\ status'[m] = IF m \in old THEN "RETRY" ELSE status[m]
    BY DEF Recover, counts
  <2> QED
    BY <2>1, <2>3, <2>4 DEF Idle
<1>2. ~ Attempting(d, m) /\ ~ Attempting(d, m)'
  BY <1>1 DEF Attempting
<1>3. \A e \in Dispatcher : e # d =>
        /\ Attempting(e, m)' <=> Attempting(e, m)
        /\ Terminal(e)' <=> Terminal(e)
        /\ e \in Stale(m)' <=> e \in Stale(m)
  BY <1>1, OthersStay
<1>4. Stale(m)' \subseteq Stale(m)
  <2>1. d \in Stale(m)' => d \in Stale(m)
    BY <1>1, <1>2 DEF Stale
  <2> QED
    BY <1>3, <2>1 DEF Stale
<1>5. Closing(m) => Closing(m)'
  <2>1. CASE Closing(m) /\ status[m] \in {"SENT", "FAILED"}
    <3>1. m \notin old
      BY <2>1 DEF IInv, TypeOK
    <3>2. \A e \in Dispatcher : Attempting(e, m)' <=> Attempting(e, m)
      BY <1>2, <1>3
    <3>3. \A e \in Dispatcher :
            Attempting(e, m) => (Terminal(e)' <=> Terminal(e))
      BY <1>2, <1>3
    <3> QED
      BY <1>1, <2>1, <3>1, <3>2, <3>3 DEF Closing
  <2>2. ASSUME NEW e \in Dispatcher, Attempting(e, m), Terminal(e)
        PROVE  Closing(m)'
    BY <1>2, <1>3, <2>2 DEF Closing
  <2> QED
    BY <2>1, <2>2 DEF Closing
<1>6. faults' >= faults
  BY <1>1, BoundAssumption DEF IInv, TypeOK
<1> QED
  BY <1>1, <1>4, <1>5, <1>6, BoundStays

(* A copy is as new as the row when it is read.                            *)
LEMMA SelectKeepsBound ==
  ASSUME IInv, IInv', NEW d \in Dispatcher, Select(d),
         NEW m \in Mail, Bound(m)
  PROVE  Bound(m)'
<1>1. /\ pass[d].at = "select" /\ pass'[d].at \in {"idle", "claim"}
      /\ \A j \in pass'[d].jobs : \E n \in Taken : j = Read(n)
      /\ \A e \in Dispatcher : e # d => pass'[e] = pass[e]
      /\ status' = status /\ attempts' = attempts /\ faults' = faults
  BY DEF Select, At, Idle, row, counts, IInv, TypeOK
<1>2. ~ Attempting(d, m) /\ ~ Attempting(d, m)'
  BY <1>1 DEF Attempting
<1>3. \A e \in Dispatcher : e # d =>
        /\ Attempting(e, m)' <=> Attempting(e, m)
        /\ Terminal(e)' <=> Terminal(e)
        /\ e \in Stale(m)' <=> e \in Stale(m)
  BY <1>1, OthersStay
<1>4. CASE d \in Stale(m)'
  <2>1. PICK j \in pass'[d].jobs : j.mail = m /\ j.attempts + 1 < MaxAttempts
    BY <1>4 DEF Stale
  <2>2. j.attempts = attempts[m]
    BY <1>1, <2>1 DEF Read
  <2>3. attempts'[m] + 1 < MaxAttempts
    BY <1>1, <2>1, <2>2
  <2> QED
    BY <2>3, FreshBound
<1>5. CASE d \notin Stale(m)'
  <2>1. Stale(m)' \subseteq Stale(m)
    BY <1>3, <1>5 DEF Stale
  <2>2. Closing(m) => Closing(m)'
    BY <1>1, <1>2, <1>3 DEF Closing
  <2>3. faults' >= faults
    BY <1>1, BoundAssumption DEF IInv, TypeOK
  <2> QED
    BY <1>1, <2>1, <2>2, <2>3, BoundStays
<1> QED
  BY <1>4, <1>5

(* A claim by a stale copy uses that copy up; a claim by any other copy is *)
(* the last.                                                               *)
LEMMA ClaimKeepsBound ==
  ASSUME IInv, IInv', NEW d \in Dispatcher, Claim(d),
         NEW m \in Mail \ stalled, Bound(m)
  PROVE  Bound(m)'
<1>1. /\ Job(d) \in pass[d].jobs /\ Job(d).mail \in Mail
      /\ Job(d).status \in Waiting /\ Job(d).attempts \in Nat
      /\ pass[d].at = "claim"
  BY JobFacts DEF Claim, At, IInv
<1>2. /\ pass'[d].at = "deliver"
      /\ \A e \in Dispatcher : e # d => pass'[e].at = pass[e].at
      /\ \A e \in Dispatcher :
           pass'[e].jobs = pass[e].jobs /\ Job(e)' = Job(e)
  BY <1>1, GoesFacts DEF Claim, Busy, IInv
<1>3. /\ status[Job(d).mail] = Job(d).status
      /\ status' = [status EXCEPT ![Job(d).mail] = "PROCESSING"]
      /\ attempts' = [attempts EXCEPT ![Job(d).mail] = @ + 1]
      /\ faults' = faults
  BY DEF Claim, Claimable, counts
<1>4. \A e \in Dispatcher : e # d =>
        /\ Attempting(e, m)' <=> Attempting(e, m)
        /\ Terminal(e)' <=> Terminal(e)
        /\ e \in Stale(m)' <=> e \in Stale(m)
  BY <1>2, OthersStay
<1>5. ~ Attempting(d, m) /\ (Attempting(d, m)' <=> Job(d).mail = m)
  BY <1>1, <1>2 DEF Attempting
<1>6. faults \in Nat
  BY BoundAssumption DEF IInv, TypeOK
<1>7. Stale(m)' \subseteq Stale(m)
  <2>1. d \in Stale(m)' => d \in Stale(m)
    BY <1>2, <1>5 DEF Stale
  <2> QED
    BY <1>4, <2>1 DEF Stale
<1>8. CASE Job(d).mail # m
  <2>1. attempts'[m] = attempts[m] /\ status'[m] = status[m]
    BY <1>1, <1>3, <1>8 DEF IInv, TypeOK
  <2>2. Closing(m) => Closing(m)'
    <3>1. ~ Attempting(d, m) /\ ~ Attempting(d, m)'
      BY <1>5, <1>8
    <3> QED
      BY <1>4, <2>1, <3>1 DEF Closing
  <2> QED
    BY <1>3, <1>6, <1>7, <2>1, <2>2, BoundStays
<1>9. CASE Job(d).mail = m
  <2>1. attempts[m] \in Nat /\ attempts'[m] = attempts[m] + 1
    BY <1>3, <1>9 DEF IInv, TypeOK
  <2>2. ~ Closing(m)
    BY <1>1, <1>3, <1>9 DEF IInv, Owned, Closing, Waiting
  <2>3. PICK S \in SUBSET Dispatcher : S = Stale(m)
    BY DEF Stale
  <2>4. PICK T \in SUBSET Dispatcher : T = Stale(m)'
    BY DEF Stale
  <2>5. /\ Cardinality(S) \in Nat /\ Cardinality(T) \in Nat
        /\ Cardinality(Dispatcher) \in Nat
    BY Dispatchers
  <2>6. attempts[m] + Cardinality(S)
          <= MaxAttempts - 2 + Cardinality(Dispatcher) + faults
    <3>1. attempts[m] + Cardinality(S)
            <= MaxAttempts - 2 + Cardinality(Dispatcher) + faults + 0
      BY <2>2, <2>3 DEF Bound
    <3> QED
      BY <1>6, <2>5, <3>1, SizeAssumption
  <2>7. CASE Terminal(d)
    <3>1. Closing(m)'
      <4>1. Terminal(d)'
        BY <1>2, <2>7 DEF Terminal
      <4> QED
        BY <1>5, <1>9, <4>1 DEF Closing
    <3>2. Cardinality(T) <= Cardinality(S)
      BY <1>7, <2>3, <2>4, Dispatchers, FS_Subset
    <3>3. attempts'[m] + Cardinality(T)
            <= MaxAttempts - 2 + Cardinality(Dispatcher) + faults' + 1
      BY <1>3, <1>6, <2>1, <2>5, <2>6, <3>2, SizeAssumption
    <3> QED
      BY <2>4, <3>1, <3>3 DEF Bound
  <2>8. CASE ~ Terminal(d)
    <3>1. d \in S /\ d \notin T
      BY <1>1, <1>5, <1>9, <2>3, <2>4, <2>8, SizeAssumption
      DEF Stale, Terminal
    <3>2. T \subseteq S \ {d}
      BY <1>7, <2>3, <2>4, <3>1
    <3>3. Cardinality(S \ {d}) = Cardinality(S) - 1 /\ IsFiniteSet(S \ {d})
      BY <3>1, Dispatchers, FS_RemoveElement
    <3>4. Cardinality(T) <= Cardinality(S) - 1
      BY <3>2, <3>3, FS_Subset
    <3>5. attempts'[m] + Cardinality(T)
            <= MaxAttempts - 2 + Cardinality(Dispatcher) + faults'
      BY <1>3, <1>6, <2>1, <2>5, <2>6, <3>4, SizeAssumption
    <3>6. attempts'[m] + Cardinality(T)
            <= MaxAttempts - 2 + Cardinality(Dispatcher) + faults'
                 + (IF Closing(m)' THEN 1 ELSE 0)
      BY <1>3, <1>6, <2>1, <2>5, <3>5, SizeAssumption
    <3> QED
      BY <2>4, <3>6 DEF Bound
  <2> QED
    BY <2>7, <2>8
<1> QED
  BY <1>8, <1>9

(* A pass goes to its next job, or another ends it.                        *)
LEMMA AdvanceKeepsBound ==
  ASSUME IInv, IInv', NEW d \in Dispatcher, Advance(d) \/ pass'[d] = Idle,
         pass[d].at \notin {"idle", "select"},
         \A e \in Dispatcher : e # d =>
           pass'[e].at = pass[e].at /\ pass'[e].jobs = pass[e].jobs,
         NEW m \in Mail, Bound(m), Distinct,
         attempts'[m] = attempts[m],
         \/ faults' = faults + 1
         \/ /\ faults' = faults
            /\ IF Attempting(d, m)
               THEN /\ \A e \in Dispatcher : Attempting(e, m) => e = d
                    /\ Terminal(d) => status'[m] \in {"SENT", "FAILED"}
                    /\ status[m] # "FAILED"
               ELSE status'[m] = status[m]
  PROVE  Bound(m)'
<1>1. /\ Job(d) \in pass[d].jobs
      /\ \A j \in pass[d].jobs : j.mail = Job(d).mail => j = Job(d)
  BY JobFacts DEF IInv, Distinct
<1>2. /\ pass'[d].at \in {"idle", "claim"}
      /\ pass'[d].jobs \subseteq pass[d].jobs \ {Job(d)}
  <2>1. CASE Advance(d)
    BY <2>1 DEF Advance, Idle, IInv, TypeOK
  <2>2. CASE pass'[d] = Idle
    BY <2>2 DEF Idle
  <2> QED
    BY <2>1, <2>2
<1>3. \A e \in Dispatcher : e # d =>
        /\ Attempting(e, m)' <=> Attempting(e, m)
        /\ Terminal(e)' <=> Terminal(e)
        /\ e \in Stale(m)' <=> e \in Stale(m)
  BY OthersStay
<1>4. d \in Stale(m)' => d \in Stale(m)
  <2> SUFFICES ASSUME d \in Stale(m)' PROVE d \in Stale(m)
    OBVIOUS
  <2>1. PICK j \in pass'[d].jobs : j.mail = m /\ j.attempts + 1 < MaxAttempts
    BY DEF Stale
  <2>2. Job(d).mail # m
    BY <1>1, <1>2, <2>1
  <2> QED
    BY <1>2, <2>1, <2>2 DEF Stale, Attempting
<1>5. Stale(m)' \subseteq Stale(m)
  BY <1>3, <1>4 DEF Stale
<1>6. ~ Attempting(d, m)'
  BY <1>2 DEF Attempting
<1>7. \/ faults' = faults + 1
      \/ faults' = faults /\ (Closing(m) => Closing(m)')
  <2>1. CASE faults' = faults /\ Attempting(d, m)
    BY <1>3, <1>6, <2>1 DEF Closing
  <2>2. CASE faults' = faults /\ ~ Attempting(d, m)
    BY <1>3, <1>6, <2>2 DEF Closing
  <2> QED
    BY <2>1, <2>2
<1>8. faults \in Nat
  BY BoundAssumption DEF IInv, TypeOK
<1> QED
  BY <1>5, <1>7, <1>8, BoundStays

(* An attempt goes on.                                                     *)
LEMMA AttemptKeepsBound ==
  ASSUME IInv, IInv', NEW d \in Dispatcher, Deliver(d) \/ Unrecorded(d),
         NEW m \in Mail, Bound(m)
  PROVE  Bound(m)'
<1>1. /\ pass[d].at \in Busy /\ \E place \in Busy : Goes(d, place)
      /\ attempts' = attempts
      /\ \/ status' = status /\ faults' \in {faults, faults + 1}
         \/ faults' = faults + 1
  BY UnrecordedFacts DEF Deliver, At, Fault, Busy, row
<1>2. /\ pass'[d].at \in Busy
      /\ \A e \in Dispatcher : e # d => pass'[e].at = pass[e].at
      /\ \A e \in Dispatcher :
           pass'[e].jobs = pass[e].jobs /\ Job(e)' = Job(e)
  BY <1>1, GoesFacts DEF IInv, Busy
<1>3. \A e \in Dispatcher :
        /\ Attempting(e, m)' <=> Attempting(e, m)
        /\ Terminal(e)' <=> Terminal(e)
  BY <1>1, <1>2 DEF Attempting, Terminal, Busy
<1>4. Stale(m)' \subseteq Stale(m)
  BY <1>2, <1>3 DEF Stale
<1>5. \/ faults' = faults + 1
      \/ faults' = faults /\ (Closing(m) => Closing(m)')
  BY <1>1, <1>3 DEF Closing
<1>6. faults \in Nat
  BY BoundAssumption DEF IInv, TypeOK
<1> QED
  BY <1>1, <1>4, <1>5, <1>6, BoundStays

LEMMA PassKeepsBound ==
  ASSUME IInv, IInv', NEW d \in Dispatcher,
         PassOver(d) \/ RecordSent(d) \/ RecordError(d) \/ Abort(d),
         NEW m \in Mail \ stalled, Bound(m), Distinct
  PROVE  Bound(m)'
<1>1. CASE PassOver(d)
  <2>1. /\ pass[d].at = "claim" /\ Advance(d)
        /\ status' = status /\ attempts' = attempts /\ faults' = faults
    BY <1>1 DEF PassOver, At, row, counts
  <2>2. ~ Attempting(d, m)
    BY <2>1 DEF Attempting
  <2>3. \A e \in Dispatcher : e # d =>
          pass'[e].at = pass[e].at /\ pass'[e].jobs = pass[e].jobs
    BY <2>1, AdvanceFacts DEF IInv
  <2> QED
    BY <2>1, <2>2, <2>3, AdvanceKeepsBound
<1>2. CASE RecordSent(d) \/ RecordError(d)
  <2>1. /\ pass[d].at \in Busy /\ Advance(d)
        /\ attempts' = attempts /\ faults' = faults
    BY <1>2 DEF RecordSent, RecordError, At, Busy, counts
  <2>2. \A e \in Dispatcher : e # d =>
          pass'[e].at = pass[e].at /\ pass'[e].jobs = pass[e].jobs
    BY <2>1, AdvanceFacts DEF IInv
  <2>3. PICK s \in {"SENT", "FAILED", "RETRY"} :
          /\ status' = [status EXCEPT ![Job(d).mail] = s]
          /\ Terminal(d) => s # "RETRY"
    BY <1>2 DEF RecordSent, RecordError
  <2>4. pass[d].at \notin {"idle", "select"} /\ Job(d).mail \in Mail
    BY <2>1, JobFacts DEF IInv, Busy
  <2>5. CASE Job(d).mail = m
    <3>1. /\ Attempting(d, m) /\ status[m] # "FAILED"
          /\ \A e \in Dispatcher : Attempting(e, m) => e = d
      BY <2>1, <2>5 DEF IInv, Owned, Attempting, Busy
    <3>2. Terminal(d) => status'[m] \in {"SENT", "FAILED"}
      BY <2>3, <2>5 DEF IInv, TypeOK
    <3> QED
      BY <2>1, <2>2, <2>4, <3>1, <3>2, AdvanceKeepsBound
  <2>6. CASE Job(d).mail # m
    <3>1. ~ Attempting(d, m) /\ status'[m] = status[m]
      BY <2>3, <2>4, <2>6 DEF Attempting, IInv, TypeOK
    <3> QED
      BY <2>1, <2>2, <2>4, <3>1, AdvanceKeepsBound
  <2> QED
    BY <2>5, <2>6
<1>3. CASE Abort(d)
  <2>1. /\ pass[d] # Idle /\ pass' = [pass EXCEPT ![d] = Idle]
        /\ attempts' = attempts /\ faults' = faults + 1 /\ status' = status
    BY <1>3 DEF Abort, Fault, row
  <2>2. /\ pass'[d] = Idle
        /\ \A e \in Dispatcher : e # d => pass'[e] = pass[e]
    BY <2>1 DEF IInv, TypeOK
  <2>3. \A e \in Dispatcher :
          (e \in Stale(m)' => e \in Stale(m)) \/ e # d
    BY <2>2 DEF Stale, Idle
  <2>4. \A e \in Dispatcher : e # d => (e \in Stale(m)' <=> e \in Stale(m))
    BY <2>2, OthersStay
  <2>5. Stale(m)' \subseteq Stale(m)
    BY <2>3, <2>4 DEF Stale
  <2> QED
    BY <2>1, <2>5, BoundStays
<1> QED
  BY <1>1, <1>2, <1>3

(* Requeueing starts the count again.                                      *)
LEMMA RequeueKeepsBound ==
  ASSUME IInv, IInv', NEW n \in Mail, Requeue(n), NEW m \in Mail, Bound(m)
  PROVE  Bound(m)'
<1>1. /\ pass' = pass /\ faults' = faults /\ faults \in Nat
      /\ status' = [status EXCEPT ![n] = "RETRY"]
      /\ attempts' = [attempts EXCEPT ![n] = 0]
  BY BoundAssumption DEF Requeue, IInv, TypeOK
<1>2. CASE m # n
  <2>1. attempts'[m] = attempts[m] /\ status'[m] = status[m]
    BY <1>1, <1>2 DEF IInv, TypeOK
  <2> QED
    BY <1>1, <2>1, RowStepKeepsBound
<1>3. CASE m = n
  <2>1. attempts'[m] = 0
    BY <1>1, <1>3 DEF IInv, TypeOK
  <2>2. MaxAttempts = 1 => Stale(m)' = {}
    <3>1. \A d \in Dispatcher : \A j \in pass'[d].jobs : j.attempts \in Nat
      BY DEF IInv, TypeOK, Pass, Snapshot
    <3> QED
      BY <3>1 DEF Stale
  <2>3. attempts'[m] + 1 < MaxAttempts \/ Stale(m)' = {}
    BY <2>1, <2>2, SizeAssumption
  <2> QED
    BY <2>1, <2>3, FreshBound
<1> QED
  BY <1>2, <1>3

LEMMA TimeKeepsBound ==
  ASSUME IInv, IInv', NEW n \in Mail,
         BecomesDue(n) \/ OrphanExpires(n) \/ LiveClaimExpires(n),
         NEW m \in Mail, Bound(m)
  PROVE  Bound(m)'
<1>1. /\ pass' = pass /\ status' = status /\ attempts' = attempts
      /\ faults' \in {faults, faults + 1}
  BY DEF BecomesDue, OrphanExpires, LiveClaimExpires, Fault, counts
<1>2. faults' >= faults
  BY <1>1, BoundAssumption DEF IInv, TypeOK
<1> QED
  BY <1>1, <1>2, RowStepKeepsBound

LEMMA DistinctStays ==
  ASSUME IInv, Distinct,
         \A d \in Dispatcher :
           pass'[d].jobs \subseteq pass[d].jobs \/ Select(d)
  PROVE  Distinct'
<1> SUFFICES ASSUME NEW d \in Dispatcher,
                    NEW i \in pass'[d].jobs, NEW j \in pass'[d].jobs,
                    i.mail = j.mail
             PROVE  i = j
  BY DEF Distinct
<1>1. CASE pass'[d].jobs \subseteq pass[d].jobs
  BY <1>1 DEF Distinct
<1>2. CASE Select(d)
  <2>1. \A k \in pass'[d].jobs : \E n \in Taken : k = Read(n)
    BY <1>2 DEF Select, Idle, IInv, TypeOK
  <2> QED
    BY <2>1 DEF Read
<1> QED
  BY <1>1, <1>2

LEMMA StepKeepsQuota ==
  ASSUME IInv, IInv', Quota, NEW d \in Dispatcher,
         Step(d) \/ Unrecorded(d) \/ Abort(d)
  PROVE  Quota'
<1>1. Distinct'
  <2>1. CASE Recover(d) \/ Deliver(d) \/ Unrecorded(d) \/ Claim(d)
    <3>1. \E place \in {"select", "accepted", "error", "deliver"} :
            Goes(d, place)
      BY <2>1, UnrecordedFacts DEF Recover, Deliver, Claim
    <3>2. \A e \in Dispatcher : pass'[e].jobs = pass[e].jobs
      BY <3>1 DEF Goes, IInv, TypeOK, Pass
    <3> QED
      BY <3>2, DistinctStays DEF Quota
  <2>2. CASE Select(d)
    <3>1. \A e \in Dispatcher : e # d => pass'[e] = pass[e]
      BY <2>2 DEF Select, IInv, TypeOK
    <3> QED
      BY <2>2, <3>1, DistinctStays DEF Quota
  <2>3. CASE PassOver(d) \/ RecordSent(d) \/ RecordError(d)
    <3>1. \A e \in Dispatcher : pass'[e].jobs \subseteq pass[e].jobs
      BY <2>3, AdvanceFacts DEF PassOver, RecordSent, RecordError, IInv
    <3> QED
      BY <3>1, DistinctStays DEF Quota
  <2>4. CASE Abort(d)
    <3>1. \A e \in Dispatcher : pass'[e].jobs \subseteq pass[e].jobs
      BY <2>4 DEF Abort, Idle, IInv, TypeOK
    <3> QED
      BY <3>1, DistinctStays DEF Quota
  <2> QED
    BY <2>1, <2>2, <2>3, <2>4 DEF Step
<1>2. stalled' = stalled
  BY UnrecordedFacts
  DEF Step, Recover, Select, Claim, PassOver, Deliver, RecordSent, RecordError,
      Abort, ghosts
<1>3. ASSUME NEW m \in Mail \ stalled PROVE Bound(m)'
  <2>1. Bound(m) /\ Distinct
    BY DEF Quota
  <2> QED
    BY <2>1, RecoverKeepsBound, SelectKeepsBound, ClaimKeepsBound,
       AttemptKeepsBound, PassKeepsBound DEF Step
<1> QED
  BY <1>1, <1>2, <1>3 DEF Quota

LEMMA RowKeepsQuota ==
  ASSUME IInv, IInv', Quota, NEW n \in Mail,
         \/ Queue(n) \/ SendNow(n) \/ BecomesDue(n)
         \/ OrphanExpires(n) \/ LiveClaimExpires(n) \/ Requeue(n)
  PROVE  Quota'
<1>1. pass' = pass /\ stalled \subseteq stalled'
  BY DEF Queue, SendNow, BecomesDue, OrphanExpires, LiveClaimExpires, Requeue,
         ghosts
<1>2. Distinct'
  BY <1>1, DistinctStays DEF Quota
<1>3. ASSUME NEW m \in Mail \ stalled PROVE Bound(m)'
  <2>1. Bound(m)
    BY DEF Quota
  <2> QED
    BY <2>1, InsertionKeepsBound, TimeKeepsBound, RequeueKeepsBound
<1> QED
  BY <1>1, <1>2, <1>3 DEF Quota

(***************************************************************************)
(* A mail is tried at most once more than MaxAttempts for each dispatcher  *)
(* besides the first and once more for each fault, for any number of       *)
(* dispatchers, mails and requeues: each attempt beyond the count a copy   *)
(* shows uses up a stale copy, and stale copies are one to a dispatcher.   *)
(***************************************************************************)
THEOREM RetriesBounded == Spec => []AttemptsBounded
<1>1. Init => Quota
  <2> SUFFICES ASSUME Init PROVE Quota
    OBVIOUS
  <2>1. \A d \in Dispatcher : pass[d].jobs = {}
    BY DEF Init, Idle
  <2>2. Distinct
    BY <2>1 DEF Distinct
  <2>3. ASSUME NEW m \in Mail PROVE Bound(m)
    <3>1. Stale(m) = {}
      BY <2>1 DEF Stale
    <3>2. Cardinality(Stale(m)) = 0
      BY <3>1, FS_EmptySet
    <3> QED
      BY <3>2, Dispatchers, SizeAssumption DEF Init, Bound
  <2> QED
    BY <2>2, <2>3 DEF Quota
<1>2. IInv /\ IInv' /\ Quota /\ [Next]_vars => Quota'
  <2> SUFFICES ASSUME IInv, IInv', Quota, [Next]_vars PROVE Quota'
    OBVIOUS
  <2>1. CASE UNCHANGED vars
    BY <2>1
    DEF vars, row, ghosts, counts, Quota, Distinct, Bound, Stale, Closing,
        Attempting, Terminal, Job
  <2> QED
    BY <2>1, StepKeepsQuota, RowKeepsQuota DEF Next, Unrecorded
<1>3. IInv /\ Quota => AttemptsBounded
  <2> SUFFICES ASSUME IInv, Quota, NEW m \in Mail \ stalled
               PROVE  attempts[m] <=
                        MaxAttempts + Cardinality(Dispatcher) - 1 + faults
    BY DEF AttemptsBounded
  <2>1. PICK S \in SUBSET Dispatcher : S = Stale(m)
    BY DEF Stale
  <2>2. Cardinality(S) \in Nat /\ Cardinality(Dispatcher) \in Nat
    BY Dispatchers
  <2>3. attempts[m] \in Nat /\ faults \in Nat
    BY BoundAssumption DEF IInv, TypeOK
  <2>4. attempts[m] + Cardinality(S) <=
          MaxAttempts - 2 + Cardinality(Dispatcher) + faults
            + (IF Closing(m) THEN 1 ELSE 0)
    BY <2>1 DEF Quota, Bound
  <2> QED
    BY <2>2, <2>3, <2>4, SizeAssumption
<1> QED
  BY <1>1, <1>2, <1>3, Invariance, PTL DEF Spec

-----------------------------------------------------------------------------
(* The refinement of Delivery.                                             *)

Stages == [m \in Mail |-> Stage(m)]

LEMMA StageOfStatus ==
  ASSUME TypeOK, TypeOK', NEW m \in Mail
  PROVE  /\ Stage(m) = "sent" <=> status[m] = "SENT"
         /\ Stage(m) = "failed" <=> status[m] = "FAILED"
         /\ Stage(m) = "open" <=> status[m] \in Waiting \cup {"PROCESSING"}
         /\ Stage(m) = "absent" <=> status[m] = "absent"
         /\ status'[m] = "SENT" => Stage(m)' = "sent"
         /\ status'[m] = "FAILED" => Stage(m)' = "failed"
         /\ status'[m] = "SKIPPED" => Stage(m)' = "skipped"
         /\ status'[m] = "unlogged" => Stage(m)' = "unlogged"
         /\ status'[m] \in Waiting \cup {"PROCESSING"} => Stage(m)' = "open"
<1>1. /\ status[m] \in {"absent", "unlogged", "SKIPPED", "PROCESSING",
                        "SENT", "FAILED"} \cup Waiting
      /\ status'[m] \in {"absent", "unlogged", "SKIPPED", "PROCESSING",
                         "SENT", "FAILED"} \cup Waiting
  BY DEF TypeOK
<1> QED
  BY <1>1 DEF Stage, Waiting

LEMMA StageBecomes ==
  ASSUME TypeOK, NEW m \in Mail, NEW s, Stage(m)' = s,
         NEW value, status' = [status EXCEPT ![m] = value]
  PROVE  Stages' = [Stages EXCEPT ![m] = s]
<1>1. \A n \in Mail : n # m => status'[n] = status[n]
  BY DEF TypeOK
<1>2. \A n \in Mail : n # m => Stage(n)' = Stage(n)
  BY <1>1 DEF Stage
<1> QED
  BY <1>2 DEF Stages

LEMMA StageStays ==
  ASSUME TypeOK, NEW m \in Mail, Stage(m)' = Stage(m),
         NEW value, status' = [status EXCEPT ![m] = value]
  PROVE  Stages' = Stages
<1>1. Stages' = [Stages EXCEPT ![m] = Stage(m)]
  BY StageBecomes
<1> QED
  BY <1>1 DEF Stages

LEMMA SameStages ==
  ASSUME status' = status
  PROVE  Stages' = Stages
  BY DEF Stages, Stage

(* Where nobody's attempt at a row in SENT begins or ends, none is doubted *)
(* or confirmed.                                                           *)
LEMMA SameDoubts ==
  ASSUME stalled' = stalled,
         \A n \in Mail \ stalled :
           \/ status[n] # "SENT" /\ status'[n] # "SENT"
           \/ /\ status'[n] = "SENT" <=> status[n] = "SENT"
              /\ (\E d \in Dispatcher : Attempting(d, n))'
                   <=> \E d \in Dispatcher : Attempting(d, n)
           \/ /\ ~ \E d \in Dispatcher : Attempting(d, n)
              /\ ~ (\E d \in Dispatcher : Attempting(d, n))'
  PROVE  Doubted' = Doubted
  BY DEF Doubted

LEMMA InsertionIsPromised ==
  ASSUME IInv, IInv', NEW m \in Mail, Queue(m) \/ SendNow(m)
  PROVE  Outcome!Next
<1>1. /\ status[m] = "absent" /\ Stage(m) = "absent"
      /\ stalled' = stalled /\ hurried' = hurried /\ pass' = pass
      /\ \E s \in {"PENDING", "SKIPPED", "SENT", "unlogged"} :
           status' = [status EXCEPT ![m] = s]
  BY StageOfStatus DEF Queue, SendNow, NextMail, IInv, ghosts
<1>0. Doubted' = Doubted
  <2>1. \A d \in Dispatcher, n \in Mail : Attempting(d, n)' <=> Attempting(d, n)
    BY <1>1 DEF Attempting, Job
  <2>2. \A d \in Dispatcher : ~ Attempting(d, m)
    BY <1>1, AbsentIsUnknown
  <2>3. \A n \in Mail : n # m => status'[n] = status[n]
    BY <1>1 DEF IInv, TypeOK
  <2> QED
    BY <1>1, <2>1, <2>2, <2>3, SameDoubts
<1>2. CASE Queue(m)
  <2>1. PICK value \in {"PENDING", "SKIPPED"} :
          status' = [status EXCEPT ![m] = value]
    BY <1>2 DEF Queue
  <2>2. status'[m] = value
    BY <2>1 DEF IInv, TypeOK
  <2>3. Stage(m)' \in {"open", "skipped"}
    BY <2>1, <2>2, StageOfStatus DEF IInv, Waiting
  <2>4. \/ Stages' = [Stages EXCEPT ![m] = "open"]
        \/ Stages' = [Stages EXCEPT ![m] = "skipped"]
    BY <2>1, <2>3, StageBecomes DEF IInv
  <2>5. attempts' = attempts /\ accepted' = accepted
    BY <1>2 DEF Queue, ghosts
  <2>6. Outcome!Open(m)
    BY <1>0, <1>1, <2>4, <2>5 DEF Outcome!Open, Outcome!Becomes, Stages
  <2> QED
    BY <2>6 DEF Outcome!Next
<1>3. CASE SendNow(m)
  <2>1. PICK value \in {"SENT", "unlogged"} :
          /\ status' = [status EXCEPT ![m] = value]
          /\ value = "SENT" => attempts' = [attempts EXCEPT ![m] = 1]
          /\ value = "unlogged" => attempts' = attempts
    BY <1>3 DEF SendNow
  <2>2. status'[m] = value
    BY <2>1 DEF IInv, TypeOK
  <2>3. /\ value = "SENT" => Stage(m)' = "sent"
        /\ value = "unlogged" => Stage(m)' = "unlogged"
    BY <2>1, <2>2, StageOfStatus DEF IInv
  <2>4. \/ /\ Stages' = [Stages EXCEPT ![m] = "sent"]
           /\ attempts' = [attempts EXCEPT ![m] = 1]
        \/ Stages' = [Stages EXCEPT ![m] = "unlogged"] /\ attempts' = attempts
    BY <2>1, <2>3, StageBecomes DEF IInv
  <2>5. accepted' = accepted \cup {m}
    BY <1>3 DEF SendNow
  <2>6. Outcome!Post(m)
    BY <1>0, <1>1, <2>4, <2>5 DEF Outcome!Post, Outcome!Becomes, Stages
  <2> QED
    BY <2>6 DEF Outcome!Next
<1> QED
  BY <1>2, <1>3

LEMMA RecoverIsSilent ==
  ASSUME IInv, IInv', NEW d \in Dispatcher, Recover(d)
  PROVE  UNCHANGED Outcome!deliveryVars
<1>1. /\ \A m \in Mail : \/ status'[m] = status[m]
                         \/ status[m] = "PROCESSING" /\ status'[m] = "RETRY"
      /\ hurried' = hurried /\ accepted' = accepted /\ stalled' = stalled
      /\ attempts' = attempts
      /\ pass[d] = Idle /\ pass' = [pass EXCEPT ![d].at = "select"]
  BY DEF Recover, Goes, ghosts, IInv, TypeOK
<1>0. Doubted' = Doubted
  <2>1. \A e \in Dispatcher :
          \/ e # d /\ pass'[e] = pass[e]
          \/ pass[e].at = "idle" /\ pass'[e].at = "select"
    BY <1>1 DEF IInv, TypeOK, Pass, Idle
  <2>2. \A e \in Dispatcher, n \in Mail : Attempting(e, n)' <=> Attempting(e, n)
    BY <2>1 DEF Attempting, Job
  <2> QED
    BY <1>1, <2>2, SameDoubts
<1>2. ASSUME NEW m \in Mail PROVE Stage(m)' = Stage(m)
  <2>1. CASE status'[m] = status[m]
    BY <2>1 DEF Stage
  <2>2. CASE status[m] = "PROCESSING" /\ status'[m] = "RETRY"
    BY <2>2, StageOfStatus DEF IInv, Waiting
  <2> QED
    BY <1>1, <2>1, <2>2
<1> QED
  BY <1>0, <1>1, <1>2 DEF Outcome!deliveryVars

LEMMA ClaimIsTry ==
  ASSUME IInv, IInv', NEW d \in Dispatcher, Claim(d)
  PROVE  Outcome!Next
<1>1. PICK m \in Mail : m = Job(d).mail /\ Job(d).status \in Waiting
  BY JobFacts DEF Claim, At, IInv
<1>2. /\ status[m] \in Waiting /\ status' = [status EXCEPT ![m] = "PROCESSING"]
      /\ attempts' = [attempts EXCEPT ![m] = @ + 1]
      /\ accepted' = accepted /\ stalled' = stalled /\ hurried' = hurried
      /\ pass[d].at = "claim" /\ Goes(d, "deliver")
  BY <1>1 DEF Claim, Claimable, At, ghosts
<1>0. Doubted' = Doubted
  <2>1. \A e \in Dispatcher : /\ Job(e)' = Job(e)
                              /\ e # d => pass'[e].at = pass[e].at
    BY <1>2, GoesFacts DEF IInv, Busy
  <2>2. \A e \in Dispatcher, n \in Mail :
          n # m => (Attempting(e, n)' <=> Attempting(e, n))
    BY <1>1, <2>1 DEF Attempting
  <2>3. \A n \in Mail : n # m => status'[n] = status[n]
    BY <1>2 DEF IInv, TypeOK
  <2>4. status[m] # "SENT" /\ status'[m] # "SENT"
    BY <1>2 DEF IInv, TypeOK, Waiting
  <2> QED
    BY <1>2, <2>2, <2>3, <2>4, SameDoubts
<1>3. status'[m] = "PROCESSING"
  BY <1>2 DEF IInv, TypeOK
<1>4. Stage(m) = "open" /\ Stage(m)' = "open"
  BY <1>2, <1>3, StageOfStatus DEF IInv
<1>5. Stages' = Stages
  BY <1>2, <1>4, StageStays DEF IInv
<1>6. Outcome!Try(m)
  BY <1>0, <1>2, <1>4, <1>5 DEF Outcome!Try, Stages
<1> QED
  BY <1>6 DEF Outcome!Next

LEMMA DeliverIsAccept ==
  ASSUME IInv, IInv', NEW d \in Dispatcher, Deliver(d)
  PROVE  Outcome!Next \/ UNCHANGED Outcome!deliveryVars
<1>1. PICK m \in Mail : m = Job(d).mail
  BY JobFacts DEF Deliver, At, IInv
<1>2. /\ accepted' = accepted \cup {m} \/ accepted' = accepted
      /\ status' = status /\ hurried' = hurried /\ stalled' = stalled
      /\ attempts' = attempts /\ pass[d].at = "deliver"
      /\ \E place \in Busy : Goes(d, place)
  BY <1>1 DEF Deliver, At, Busy, row
<1>0. Doubted' = Doubted
  <2>1. \A e \in Dispatcher :
          /\ Job(e)' = Job(e)
          /\ pass'[e].at \in Busy <=> pass[e].at \in Busy
    BY <1>2, GoesFacts DEF IInv, Busy
  <2>2. \A e \in Dispatcher, n \in Mail : Attempting(e, n)' <=> Attempting(e, n)
    BY <2>1 DEF Attempting, Busy
  <2> QED
    BY <1>2, <2>2, SameDoubts
<1>3. m \in stalled \/ Stage(m) = "open"
  <2>1. Attempting(d, m)
    BY <1>1 DEF Deliver, At, Attempting
  <2>2. m \notin stalled => status[m] = "PROCESSING"
    BY <1>2, <2>1 DEF IInv, Owned, At
  <2> QED
    BY <2>2, StageOfStatus DEF IInv
<1>4. Stages' = Stages
  BY <1>2, SameStages
<1>5. CASE accepted' = accepted \cup {m}
  <2>1. Outcome!Accept(m)
    BY <1>0, <1>2, <1>3, <1>4, <1>5 DEF Outcome!Accept, Stages
  <2> QED
    BY <2>1 DEF Outcome!Next
<1>6. CASE accepted' = accepted
  BY <1>0, <1>2, <1>4, <1>6 DEF Outcome!deliveryVars, Stages
<1> QED
  BY <1>2, <1>5, <1>6

(* The row of an attempt gets verdict s; the attempt may go on.            *)
LEMMA VerdictIsPromised ==
  ASSUME IInv, IInv', NEW d \in Dispatcher, NEW m \in Mail, Attempting(d, m),
         NEW s \in {"SENT", "FAILED", "RETRY"},
         status' = [status EXCEPT ![m] = s],
         accepted' = accepted, attempts' = attempts, hurried' = hurried,
         stalled' = stalled,
         \A e \in Dispatcher, n \in Mail :
           e # d \/ n # m => (Attempting(e, n)' <=> Attempting(e, n)),
         s # "SENT" => ~ Attempting(d, m)',
         s = "SENT" => m \in accepted /\ (m \in stalled \/ status[m] # "SENT"),
         s = "FAILED" => Outcome!Exhausted(m)
  PROVE  Outcome!Next \/ UNCHANGED Outcome!deliveryVars
<1> USE DEF Outcome!Becomes, Outcome!Settled
<1>1. status'[m] = s /\ \A n \in Mail : n # m => status'[n] = status[n]
  BY DEF IInv, TypeOK
<1>2. /\ s = "SENT" => Stage(m)' = "sent"
      /\ s = "FAILED" => Stage(m)' = "failed"
      /\ s = "RETRY" => Stage(m)' = "open"
  BY <1>1, StageOfStatus DEF IInv, Waiting
<1>3. /\ s = "SENT" => Stages' = [Stages EXCEPT ![m] = "sent"]
      /\ s = "FAILED" => Stages' = [Stages EXCEPT ![m] = "failed"]
      /\ s = "RETRY" => Stages' = [Stages EXCEPT ![m] = "open"]
  BY <1>2, StageBecomes DEF IInv
<1>4. Stages[m] = Stage(m)
  BY DEF Stages
<1>5. \A n \in Mail : n # m => (n \in Doubted' <=> n \in Doubted)
  BY <1>1 DEF Doubted
<1>6. CASE m \in stalled
  <2>1. Doubted' = Doubted
    BY <1>5, <1>6 DEF Doubted
  <2>2. Stage(m) \in {"open", "sent", "failed"}
    BY <1>6, StageOfStatus DEF IInv, Lapsed, Ever, Waiting
  <2>3. CASE Stage(m) = "open" /\ s = "RETRY"
    <3>1. Stages' = Stages
      BY <1>3, <1>4, <2>3 DEF Stages
    <3> QED
      BY <2>1, <3>1 DEF Outcome!deliveryVars, Stages
  <2>4. CASE Stage(m) = "open" /\ s # "RETRY"
    <3>1. Outcome!Settle(m)
      BY <1>3, <1>4, <2>1, <2>4 DEF Outcome!Settle, Stages
    <3> QED
      BY <3>1 DEF Outcome!Next
  <2>5. CASE Stage(m) \in {"sent", "failed"}
    <3>1. Outcome!Overrule(m)
      BY <1>3, <1>4, <1>6, <2>1, <2>5 DEF Outcome!Overrule, Stages
    <3> QED
      BY <3>1 DEF Outcome!Next
  <2> QED
    BY <2>2, <2>3, <2>4, <2>5
<1>7. CASE m \notin stalled /\ status[m] = "PROCESSING"
  <2>1. Stage(m) = "open" /\ m \notin Doubted
    BY <1>7, StageOfStatus DEF IInv, Doubted
  <2>2. CASE s = "RETRY"
    <3>1. Stages' = Stages
      BY <1>3, <1>4, <2>1, <2>2 DEF Stages
    <3>2. Doubted' = Doubted
      BY <1>1, <1>5, <2>1, <2>2 DEF Doubted
    <3> QED
      BY <3>1, <3>2 DEF Outcome!deliveryVars, Stages
  <2>3. CASE s = "FAILED"
    <3>1. Doubted' = Doubted
      BY <1>1, <1>5, <2>1, <2>3 DEF Doubted
    <3>2. Outcome!Settle(m)
      BY <1>3, <1>4, <2>1, <2>3, <3>1 DEF Outcome!Settle, Stages
    <3> QED
      BY <3>2 DEF Outcome!Next
  <2>4. CASE s = "SENT"
    <3>1. Doubted' \in {Doubted, Doubted \cup {m}}
      BY <1>5, <2>1 DEF Doubted
    <3>2. Outcome!Settle(m)
      BY <1>3, <1>4, <2>1, <2>4, <3>1 DEF Outcome!Settle, Stages
    <3> QED
      BY <3>2 DEF Outcome!Next
  <2> QED
    BY <2>2, <2>3, <2>4
<1>8. CASE m \notin stalled /\ status[m] = "SENT"
  <2>1. s # "SENT" /\ m \in Doubted /\ m \notin Doubted'
    BY <1>1, <1>8 DEF Doubted
  <2>2. Doubted' = Doubted \ {m}
    <3>1. Doubted \subseteq Mail /\ Doubted' \subseteq Mail
      BY DEF Doubted
    <3> QED
      BY <1>5, <2>1, <3>1
  <2>3. Outcome!Retract(m)
    BY <1>3, <2>1, <2>2 DEF Outcome!Retract, Stages
  <2> QED
    BY <2>3 DEF Outcome!Next
<1>9. m \in stalled \/ status[m] \in {"PROCESSING", "SENT"}
  BY DEF IInv, Owned
<1> QED
  BY <1>6, <1>7, <1>8, <1>9

LEMMA RecordIsPromised ==
  ASSUME IInv, IInv', NEW d \in Dispatcher, RecordSent(d) \/ RecordError(d)
  PROVE  Outcome!Next \/ UNCHANGED Outcome!deliveryVars
<1>1. /\ pass[d].at \in Busy /\ Advance(d)
      /\ accepted' = accepted /\ attempts' = attempts /\ hurried' = hurried
      /\ stalled' = stalled
  BY DEF RecordSent, RecordError, At, Busy, ghosts
<1>2. PICK m \in Mail : m = Job(d).mail /\ Job(d).attempts \in Nat
  BY <1>1, JobFacts DEF IInv, Busy
<1>3. Attempting(d, m)
  BY <1>1, <1>2 DEF Attempting, Busy
<1>4. /\ ~ Attempting(d, m)'
      /\ \A e \in Dispatcher, n \in Mail :
           e # d \/ n # m => (Attempting(e, n)' <=> Attempting(e, n))
  <2>1. /\ pass[d].at \notin {"idle", "select"}
        /\ pass'[d].at \in {"idle", "claim"}
        /\ \A e \in Dispatcher : e # d =>
             pass'[e].at = pass[e].at /\ Job(e)' = Job(e)
    BY <1>1, AdvanceFacts DEF IInv, Busy
  <2> QED
    BY <1>2, <2>1 DEF Attempting
<1>5. CASE RecordSent(d)
  <2>1. m \in accepted /\ (m \in stalled \/ status[m] # "SENT")
    BY <1>2, <1>3, <1>5 DEF RecordSent, IInv, Answered, Owned, At
  <2>2. status' = [status EXCEPT ![m] = "SENT"]
    BY <1>2, <1>5 DEF RecordSent
  <2> QED
    BY <1>1, <1>3, <1>4, <2>1, <2>2, VerdictIsPromised
<1>6. CASE RecordError(d)
  <2>1. CASE Terminal(d)
    <3>1. attempts[m] \in Nat
      BY DEF IInv, TypeOK
    <3>2. m \in hurried \/ attempts[m] >= MaxAttempts
      BY <1>1, <1>2, <2>1, <3>1, SizeAssumption DEF Terminal, IInv, Copied
    <3>3. m \in stalled \/ attempts[m] >= 1
      BY <1>1, <1>2 DEF IInv, Copied
    <3>4. Outcome!Exhausted(m)
      BY <3>2, <3>3 DEF Outcome!Exhausted
    <3>5. status' = [status EXCEPT ![m] = "FAILED"]
      BY <1>2, <1>6, <2>1 DEF RecordError
    <3> QED
      BY <1>1, <1>3, <1>4, <3>4, <3>5, VerdictIsPromised
  <2>2. CASE ~ Terminal(d)
    <3>1. status' = [status EXCEPT ![m] = "RETRY"]
      BY <1>2, <1>6, <2>2 DEF RecordError
    <3> QED
      BY <1>1, <1>3, <1>4, <3>1, VerdictIsPromised
  <2> QED
    BY <2>1, <2>2
<1> QED
  BY <1>5, <1>6

LEMMA UnrecordedIsPromised ==
  ASSUME IInv, IInv', NEW d \in Dispatcher, Unrecorded(d)
  PROVE  Outcome!Next \/ UNCHANGED Outcome!deliveryVars
<1>1. /\ pass[d].at = "accepted" /\ Goes(d, "error")
      /\ \/ status' = status
         \/ status' = [status EXCEPT ![Job(d).mail] = "SENT"]
      /\ accepted' = accepted /\ attempts' = attempts /\ hurried' = hurried
      /\ stalled' = stalled
  BY UnrecordedFacts
<1>2. PICK m \in Mail : m = Job(d).mail
  BY <1>1, JobFacts DEF IInv
<1>3. /\ \A e \in Dispatcher, n \in Mail : Attempting(e, n)' <=> Attempting(e, n)
      /\ Attempting(d, m)
  <2>1. \A e \in Dispatcher :
          /\ Job(e)' = Job(e)
          /\ pass'[e].at \in Busy <=> pass[e].at \in Busy
    BY <1>1, GoesFacts DEF IInv, Busy
  <2> QED
    BY <1>1, <1>2, <2>1 DEF Attempting, Busy
<1>4. CASE status' = status
  <2>1. Stages' = Stages
    BY <1>4, SameStages
  <2>2. Doubted' = Doubted
    BY <1>1, <1>3, <1>4, SameDoubts
  <2> QED
    BY <1>1, <2>1, <2>2 DEF Outcome!deliveryVars, Stages
<1>5. CASE status' = [status EXCEPT ![m] = "SENT"]
  <2>1. m \in accepted /\ (m \in stalled \/ status[m] # "SENT")
    BY <1>1, <1>2, <1>3 DEF IInv, Answered, Owned, At
  <2> QED
    BY <1>1, <1>3, <1>5, <2>1, VerdictIsPromised
<1> QED
  BY <1>1, <1>2, <1>4, <1>5

(* Whoever ends without looking back leaves the record as it is.           *)
LEMMA AbortIsConfirm ==
  ASSUME IInv, IInv', NEW d \in Dispatcher, Abort(d)
  PROVE  Outcome!Next \/ UNCHANGED Outcome!deliveryVars
<1>1. /\ pass' = [pass EXCEPT ![d] = Idle]
      /\ status' = status /\ attempts' = attempts /\ accepted' = accepted
      /\ hurried' = hurried /\ stalled' = stalled
  BY DEF Abort, row, ghosts
<1>2. Stages' = Stages
  BY <1>1, SameStages
<1>3. /\ \A n \in Mail : ~ Attempting(d, n)'
      /\ \A e \in Dispatcher, n \in Mail :
           e # d => (Attempting(e, n)' <=> Attempting(e, n))
  BY <1>1 DEF Attempting, Job, Idle, IInv, TypeOK
<1>4. CASE \E m \in Doubted : Attempting(d, m)
  <2>1. PICK m \in Doubted : Attempting(d, m)
    BY <1>4
  <2>2. /\ m \in Mail \ stalled
        /\ \A e \in Dispatcher : Attempting(e, m) => e = d
        /\ \A n \in Mail : n # m => ~ Attempting(d, n)
    BY <2>1 DEF Doubted, IInv, Owned, Attempting
  <2>3. Doubted' = Doubted \ {m}
    BY <1>1, <1>3, <2>1, <2>2 DEF Doubted
  <2>4. Outcome!Confirm(m)
    BY <1>1, <1>2, <2>1, <2>3 DEF Outcome!Confirm, Stages
  <2> QED
    BY <2>2, <2>4 DEF Outcome!Next
<1>5. CASE ~ \E m \in Doubted : Attempting(d, m)
  <2>1. Doubted' = Doubted
    BY <1>1, <1>3, <1>5 DEF Doubted
  <2> QED
    BY <1>1, <1>2, <2>1 DEF Outcome!deliveryVars, Stages
<1> QED
  BY <1>4, <1>5

LEMMA ExpiryIsLapse ==
  ASSUME IInv, IInv', NEW m \in Mail, LiveClaimExpires(m)
  PROVE  Outcome!Next
<1>1. /\ status[m] = "PROCESSING" /\ status' = status
      /\ stalled' = stalled \cup {m} /\ accepted' = accepted
      /\ hurried' = hurried /\ attempts' = attempts /\ pass' = pass
  BY DEF LiveClaimExpires, Claimed
<1>0. Doubted' = Doubted
  <2>1. \A d \in Dispatcher, n \in Mail : Attempting(d, n)' <=> Attempting(d, n)
    BY <1>1 DEF Attempting, Job
  <2> QED
    BY <1>1, <2>1 DEF Doubted
<1>2. Stage(m) = "open" /\ Stages' = Stages
  BY <1>1, SameStages, StageOfStatus DEF IInv
<1>3. Outcome!Lapse(m)
  BY <1>0, <1>1, <1>2 DEF Outcome!Lapse, Stages
<1> QED
  BY <1>3 DEF Outcome!Next

LEMMA RequeueIsReopen ==
  ASSUME IInv, IInv', NEW m \in Mail, Requeue(m)
  PROVE  Outcome!Next
<1>1. /\ status[m] = "FAILED" /\ status' = [status EXCEPT ![m] = "RETRY"]
      /\ attempts' = [attempts EXCEPT ![m] = 0]
      /\ hurried' \in {hurried \ {m}, hurried \cup {m}}
      /\ stalled' = stalled /\ accepted' = accepted /\ pass' = pass
  BY DEF Requeue
<1>0. Doubted' = Doubted
  <2>1. \A d \in Dispatcher, n \in Mail : Attempting(d, n)' <=> Attempting(d, n)
    BY <1>1 DEF Attempting, Job
  <2>2. /\ \A n \in Mail : n # m => status'[n] = status[n]
        /\ status'[m] = "RETRY"
    BY <1>1 DEF IInv, TypeOK
  <2> QED
    BY <1>1, <2>1, <2>2, SameDoubts
<1>2. status'[m] = "RETRY"
  BY <1>1 DEF IInv, TypeOK
<1>3. Stage(m) = "failed" /\ Stage(m)' = "open"
  BY <1>1, <1>2, StageOfStatus DEF IInv, Waiting
<1>4. Stages' = [Stages EXCEPT ![m] = "open"]
  BY <1>1, <1>3, StageBecomes DEF IInv
<1>5. Outcome!Reopen(m)
  BY <1>0, <1>1, <1>3, <1>4 DEF Outcome!Reopen, Outcome!Becomes, Stages
<1> QED
  BY <1>5 DEF Outcome!Next

(***************************************************************************)
(* The outbox implements Delivery: whatever the dispatchers, the provider, *)
(* the database and the operators do, a mail is recorded as sent only if   *)
(* the provider took it, is given up only after MaxAttempts claims since   *)
(* it was queued or requeued, and stays settled until it is requeued; with *)
(* Delivery's three exceptions: a SENT that its own attempt was not told   *)
(* of, a requeue under an old copy, a claim expired under a live attempt.  *)
(***************************************************************************)
THEOREM Refinement == Spec => ImplementsDelivery
<1>1. Init => Outcome!Init
  <2> SUFFICES ASSUME Init PROVE Outcome!Init
    OBVIOUS
  <2>1. \A m \in Mail : Stage(m) = "absent" /\ m \notin Doubted
    BY DEF Init, Stage, Waiting, Doubted
  <2>2. Doubted = {}
    BY <2>1 DEF Doubted
  <2> QED
    BY <2>1, <2>2 DEF Init, Outcome!Init
<1>2. IInv /\ IInv' /\ [Next]_vars => [Outcome!Next]_(Outcome!deliveryVars)
  <2> SUFFICES ASSUME IInv, IInv', [Next]_vars
               PROVE  Outcome!Next \/ UNCHANGED Outcome!deliveryVars
    OBVIOUS
  <2>1. ASSUME NEW d \in Dispatcher,
               Step(d) \/ Unrecorded(d) \/ Abort(d)
        PROVE  Outcome!Next \/ UNCHANGED Outcome!deliveryVars
    <3>1. CASE Recover(d)
      BY <3>1, RecoverIsSilent
    <3>2. CASE Claim(d)
      BY <3>2, ClaimIsTry
    <3>3. CASE Deliver(d)
      BY <3>3, DeliverIsAccept
    <3>4. CASE RecordSent(d) \/ RecordError(d)
      BY <3>4, RecordIsPromised
    <3>5. CASE Unrecorded(d)
      BY <3>5, UnrecordedIsPromised
    <3>6. CASE Abort(d)
      BY <3>6, AbortIsConfirm
    <3>7. CASE Select(d) \/ PassOver(d)
      <4>1. /\ status' = status /\ attempts' = attempts /\ hurried' = hurried
            /\ accepted' = accepted /\ stalled' = stalled
            /\ pass[d].at \in {"select", "claim"}
        BY <3>7 DEF Select, PassOver, At, row, ghosts
      <4>2. Stages' = Stages
        BY <4>1, SameStages
      <4>3. /\ pass'[d].at \in {"idle", "claim"}
            /\ \A e \in Dispatcher : e # d =>
                 pass'[e].at = pass[e].at /\ pass'[e].jobs = pass[e].jobs
        BY <3>7, <4>1, AdvanceFacts DEF Select, PassOver, Idle, IInv, TypeOK
      <4>4. \A e \in Dispatcher, n \in Mail :
              Attempting(e, n)' <=> Attempting(e, n)
        BY <4>1, <4>3 DEF Attempting, Job
      <4>5. Doubted' = Doubted
        BY <4>1, <4>4, SameDoubts
      <4> QED
        BY <4>1, <4>2, <4>5 DEF Outcome!deliveryVars, Stages
    <3> QED
      BY <2>1, <3>1, <3>2, <3>3, <3>4, <3>5, <3>6, <3>7 DEF Step
  <2>2. ASSUME NEW m \in Mail,
               \/ Queue(m) \/ SendNow(m) \/ BecomesDue(m)
               \/ OrphanExpires(m) \/ LiveClaimExpires(m) \/ Requeue(m)
        PROVE  Outcome!Next \/ UNCHANGED Outcome!deliveryVars
    <3>1. CASE Queue(m) \/ SendNow(m)
      BY <3>1, InsertionIsPromised
    <3>2. CASE LiveClaimExpires(m)
      BY <3>2, ExpiryIsLapse
    <3>3. CASE Requeue(m)
      BY <3>3, RequeueIsReopen
    <3>4. CASE BecomesDue(m) \/ OrphanExpires(m)
      <4>1. /\ status' = status /\ attempts' = attempts /\ hurried' = hurried
            /\ accepted' = accepted /\ stalled' = stalled /\ pass' = pass
        BY <3>4 DEF BecomesDue, OrphanExpires, ghosts
      <4>2. Stages' = Stages
        BY <4>1, SameStages
      <4>3. Doubted' = Doubted
        BY <4>1 DEF Doubted, Attempting, Job
      <4> QED
        BY <4>1, <4>2, <4>3 DEF Outcome!deliveryVars, Stages
    <3> QED
      BY <2>2, <3>1, <3>2, <3>3, <3>4
  <2>3. CASE UNCHANGED vars
    <3>1. Stages' = Stages
      BY <2>3, SameStages DEF vars, row
    <3>2. Doubted' = Doubted
      BY <2>3 DEF vars, row, ghosts, Doubted, Attempting, Job
    <3> QED
      BY <2>3, <3>1, <3>2 DEF vars, row, ghosts, Outcome!deliveryVars, Stages
  <2> QED
    BY <2>1, <2>2, <2>3 DEF Next, Unrecorded
<1> QED
  BY Invariance, <1>1, <1>2, PTL DEF Spec, ImplementsDelivery, Outcome!Spec
=============================================================================
