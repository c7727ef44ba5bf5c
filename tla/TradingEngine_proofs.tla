------------------------ MODULE TradingEngine_proofs ------------------------
(***************************************************************************)
(* Proofs about the position engine, for any orders, rates, stop levels    *)
(* and requests, and any number of failures.                               *)
(***************************************************************************)
EXTENDS TradingEngine, Sums, FiniteSetTheorems, TLAPS

-----------------------------------------------------------------------------
(* Types of the data.                                                      *)

\* A directed amount is an integer.
LEMMA DirectedInt ==
  ASSUME NEW k \in Order, NEW x \in Int
  PROVE  Direction[k] * x \in Int
<1>1. Direction[k] = 1 \/ Direction[k] = -1
  BY OrderAssumption
<1>2. CASE Direction[k] = 1
  BY <1>2
<1>3. CASE Direction[k] = -1
  BY <1>3
<1> QED
  BY <1>1, <1>2, <1>3

\* What a position is marked and opened at.
LEMMA RateTypes ==
  ASSUME TypeOK, NEW k \in Order
  PROVE  /\ rate \in Int
         /\ MarkRate(k) \in Int
         /\ rate + Direction[k] * Markup \in Int
<1>1. rate \in Int /\ Markup \in Int
  BY MoneyAssumption DEF TypeOK
<1>2. Direction[k] * Markup \in Int
  BY <1>1, DirectedInt
<1> QED
  BY <1>1, <1>2 DEF MarkRate

LEMMA ProfitType ==
  ASSUME NEW k \in Order, NEW p \in Position
  PROVE  Profit(k, p) \in Int
<1>1. p.mark - p.entry \in Int /\ p.adjustment \in Int
  BY DEF Position
<1>2. Direction[k] * (p.mark - p.entry) \in Int
  BY <1>1, DirectedInt
<1> QED
  BY <1>1, <1>2 DEF Profit

\* A position put into memory, or taken from it.
LEMMA PutType ==
  ASSUME TypeOK, NEW k \in Order, NEW p \in Position
  PROVE  /\ DOMAIN Put(k, p) = Loaded \cup {k}
         /\ Put(k, p) \in [Loaded \cup {k} -> Position]
         /\ Loaded \cup {k} \subseteq Order
  BY DEF TypeOK, Put, Loaded

LEMMA DropType ==
  ASSUME TypeOK, NEW k
  PROVE  /\ DOMAIN Drop(k) = Loaded \ {k}
         /\ Drop(k) \in [Loaded \ {k} -> Position]
         /\ Loaded \ {k} \subseteq Order
  BY DEF TypeOK, Drop, Restrict, Loaded

LEMMA JobFields ==
  ASSUME job \in Job, job # Free
  PROVE  /\ job.kind \in {"open", "close", "due", "stopOut", "adjust",
                          "protect"}
         /\ job.step \in {"check", "commit", "mirror"}
         /\ job.order \in Order
         /\ job.position \in Position
  BY DEF Job

LEMMA DoingType ==
  ASSUME NEW kind \in {"open", "close", "due", "stopOut", "adjust", "protect"},
         NEW step \in {"check", "commit", "mirror"},
         NEW k \in Order, NEW p \in Position
  PROVE  Doing(kind, step, k, p) \in Job
  BY DEF Doing, Job

\* What a transaction writes, by the kind of its job.
LEMMA WriteCases ==
  ASSUME TypeOK, job # Free, Write
  PROVE  LET k == job.order
             p == job.position
         IN \/ job.kind = "open" /\ Affords /\ WriteOpen(k, p)
            \/ job.kind = "adjust" /\ status[k] = "OPEN" /\ WriteAdjust(k, p)
            \/ job.kind = "protect" /\ status[k] = "OPEN" /\ WriteProtect(k, p)
            \/ /\ job.kind \in {"close", "due", "stopOut"}
               /\ status[k] = "OPEN" /\ WriteClose(k, p)
<1>1. job.kind \in {"open", "close", "due", "stopOut", "adjust", "protect"}
  BY JobFields DEF TypeOK
<1>2. CASE job.kind = "open"
  BY <1>2 DEF Write
<1>3. CASE job.kind = "adjust"
  BY <1>3 DEF Write
<1>4. CASE job.kind = "protect"
  BY <1>4 DEF Write
<1>5. CASE job.kind \in {"close", "due", "stopOut"}
  BY <1>5 DEF Write
<1> QED
  BY <1>1, <1>2, <1>3, <1>4, <1>5

RowsAndMoneyTyped ==
  /\ status \in [Order -> {"NONE", "OPEN", "CLOSED"}]
  /\ saved \in [Order -> Position]
  /\ booked \in [Order -> Int] /\ cover \in [Order -> Nat]
  /\ available \in Int /\ margin \in Int /\ funded \in Int

LEMMA WriteType ==
  ASSUME TypeOK, job # Free, Write
  PROVE  RowsAndMoneyTyped'
<1> DEFINE k == job.order
           p == job.position
<1>1. k \in Order /\ p \in Position
  BY JobFields DEF TypeOK
<1>2. Profit(k, p) \in Int
  BY <1>1, ProfitType
<1>3. Margin \in Int /\ Commission \in Int
  BY MoneyAssumption
<1>4. CASE WriteOpen(k, p)
  BY <1>1, <1>3, <1>4 DEF TypeOK, WriteOpen, RowsAndMoneyTyped
<1>5. CASE WriteAdjust(k, p)
  <2>1. [saved[k] EXCEPT !.adjustment = p.adjustment, !.mark = p.mark]
          \in Position
    BY <1>1 DEF TypeOK, Position
  <2> QED
    BY <1>1, <1>5, <2>1 DEF TypeOK, WriteAdjust, RowsAndMoneyTyped, money
<1>6. CASE WriteProtect(k, p)
  <2>1. [saved[k] EXCEPT !.stop = p.stop] \in Position
    BY <1>1 DEF TypeOK, Position
  <2> QED
    BY <1>1, <1>6, <2>1 DEF TypeOK, WriteProtect, RowsAndMoneyTyped, money
<1>7. CASE WriteClose(k, p)
  <2>1. [saved[k] EXCEPT !.mark = p.mark] \in Position
    BY <1>1 DEF TypeOK, Position
  <2> DEFINE left == available + Margin + Profit(k, p)
  <2>2. left \in Int
    BY <1>2, <1>3 DEF TypeOK
  <2>3. (IF left < 0 THEN - left ELSE 0) \in Nat
    BY <2>2
  <2>4. (IF left < 0 THEN 0 ELSE left) \in Int
    BY <2>2
  <2> HIDE DEF left
  <2>5. /\ status' = [status EXCEPT ![k] = "CLOSED"]
        /\ saved' = [saved EXCEPT ![k] = [saved[k] EXCEPT !.mark = p.mark]]
        /\ booked' = [booked EXCEPT ![k] = Profit(k, p)]
        /\ cover' = [cover EXCEPT ![k] = IF left < 0 THEN - left ELSE 0]
        /\ margin' = margin - Margin
        /\ available' = IF left < 0 THEN 0 ELSE left
        /\ funded' = funded
    BY <1>7 DEF WriteClose, left
  <2> HIDE DEF k, p
  <2> QED
    BY <1>1, <1>2, <1>3, <2>1, <2>3, <2>4, <2>5
    DEF TypeOK, RowsAndMoneyTyped
<1> QED
  BY <1>4, <1>5, <1>6, <1>7, WriteCases

-----------------------------------------------------------------------------
(* TypeOK is inductive.                                                    *)

LEMMA InitType == Init => TypeOK
<1>1. SUFFICES ASSUME Init PROVE TypeOK
  OBVIOUS
<1>2. Blank \in Position
  BY DEF Blank, Position
<1>3. Free \in Job
  BY DEF Job
<1>4. mirror = <<>> /\ Loaded = {} /\ mirror \in [Loaded -> Position]
  BY <1>1 DEF Init, Loaded
<1>5. /\ DOMAIN snapshot = {} /\ snapshot \in [DOMAIN snapshot -> Position]
  BY <1>1 DEF Init
<1>6. /\ status \in [Order -> {"NONE", "OPEN", "CLOSED"}]
      /\ saved \in [Order -> Position]
      /\ booked \in [Order -> Int] /\ cover \in [Order -> Nat]
  BY <1>1, <1>2 DEF Init
<1>7. available \in Int /\ margin \in Int /\ funded \in Int
  BY <1>1, MoneyAssumption DEF Init
<1>8. /\ tick = "idle" /\ due \subseteq Order /\ job \in Job
      /\ lost \in BOOLEAN /\ rate \in Rate
  BY <1>1, <1>3 DEF Init
<1>9. failures \in 0..MaxFailures
  BY <1>1, BoundAssumption DEF Init
<1> QED
  BY <1>4, <1>5, <1>6, <1>7, <1>8, <1>9 DEF TypeOK

\* The requests of a customer or dealer.
LEMMA RequestType == ASSUME TypeOK, Request PROVE TypeOK'
<1>1. PICK r \in Sent :
        \/ r.kind = "open" /\ OpenBegin(r.order, r.level)
        \/ r.kind = "close" /\ CloseBegin(r.order)
        \/ r.kind = "adjust" /\ AdjustBegin(r.order, r.level)
        \/ r.kind = "protect" /\ ProtectBegin(r.order, r.level)
  BY DEF Request
<1>2. /\ r.order \in Order
      /\ r.kind \in {"open", "protect"} => r.level \in Stop \cup {NoStop}
      /\ r.kind = "adjust" => r.level \in Int
  BY SentAssumption
<1> DEFINE k == r.order
<1>3. /\ rate \in Int /\ MarkRate(k) \in Int
      /\ rate + Direction[k] * Markup \in Int
  BY <1>2, RateTypes
<1>4. CASE r.kind = "open" /\ OpenBegin(k, r.level)
  <2> DEFINE p == [entry |-> rate + Direction[k] * Markup,
                   mark |-> MarkRate(k), adjustment |-> 0, stop |-> r.level]
  <2>1. p \in Position
    BY <1>2, <1>3, <1>4 DEF Position
  <2>2. job' = Doing("open", "commit", k, p)
    BY <1>4 DEF OpenBegin
  <2>3. job' \in Job
    BY <1>2, <2>1, <2>2, DoingType
  <2> QED
    BY <1>4, <2>3 DEF OpenBegin, TypeOK, Loaded, rows, money, health
<1>5. CASE r.kind = "close" /\ CloseBegin(k)
  <2> DEFINE p == [mirror[k] EXCEPT !.mark = rate]
  <2>1. p \in Position
    BY <1>3, <1>5 DEF CloseBegin, TypeOK, Position
  <2>2. mirror' = Put(k, p) /\ job' = Doing("close", "commit", k, p)
    BY <1>5 DEF CloseBegin
  <2>3. job' \in Job
    BY <1>2, <2>1, <2>2, DoingType
  <2>4. Loaded' \subseteq Order /\ mirror' \in [Loaded' -> Position]
    BY <1>2, <2>1, <2>2, PutType DEF Loaded
  <2> QED
    BY <1>5, <2>3, <2>4 DEF CloseBegin, TypeOK, rows, money, health
<1>6. CASE r.kind = "adjust" /\ AdjustBegin(k, r.level)
  <2>1. k \in Loaded /\ mirror[k] \in Position
    BY <1>6 DEF AdjustBegin, TypeOK
  <2> DEFINE unadjusted == Profit(k, mirror[k]) - mirror[k].adjustment
             p == [mirror[k] EXCEPT !.adjustment = r.level - unadjusted]
  <2>2. Profit(k, mirror[k]) \in Int
    BY <1>2, <2>1, ProfitType
  <2>3. r.level - unadjusted \in Int
    BY <1>2, <1>6, <2>1, <2>2 DEF Position
  <2>4. p \in Position
    BY <2>1, <2>3 DEF Position
  <2>5. job' = Doing("adjust", "commit", k, p)
    BY <1>6 DEF AdjustBegin
  <2>6. job' \in Job
    BY <1>2, <2>4, <2>5, DoingType
  <2> QED
    BY <1>6, <2>6 DEF AdjustBegin, TypeOK, Loaded, rows, money, health
<1>7. CASE r.kind = "protect" /\ ProtectBegin(k, r.level)
  <2> DEFINE p == [mirror[k] EXCEPT !.stop = r.level]
  <2>1. p \in Position
    BY <1>2, <1>7 DEF ProtectBegin, TypeOK, Position
  <2>2. job' = Doing("protect", "commit", k, p)
    BY <1>7 DEF ProtectBegin
  <2>3. job' \in Job
    BY <1>2, <2>1, <2>2, DoingType
  <2> QED
    BY <1>7, <2>3 DEF ProtectBegin, TypeOK, Loaded, rows, money, health
<1> QED
  BY <1>1, <1>4, <1>5, <1>6, <1>7

\* What Abort leaves behind.
LEMMA AbortType ==
  ASSUME TypeOK, Abort
  PROVE  /\ rate' = rate /\ mirror' = mirror /\ snapshot' = snapshot
         /\ job' \in Job /\ failures' \in 0..MaxFailures
         /\ tick' \in {"idle", "closing", "stopOut", "saving", "writing"}
         /\ due' \subseteq Order
<1>1. job' \in Job
  BY DEF Abort, Job
<1>2. failures' \in 0..MaxFailures
  BY BoundAssumption DEF Abort, TypeOK
<1> QED
  BY <1>1, <1>2 DEF Abort, TypeOK

\* A position is protected or adjusted only while it is in memory.
ProtectsLoaded == job.kind \in {"protect", "adjust"} => job.order \in Loaded

\* The steps of a job.
LEMMA JobStepType ==
  ASSUME TypeOK, ProtectsLoaded, JobStep \/ CommitRefused \/ CommitAckLost
  PROVE  TypeOK'
<1>1. Free \in Job
  BY DEF Job
<1>2. CASE OpenRefused
  BY <1>1, <1>2 DEF OpenRefused, TypeOK, Loaded, rows, money, health
<1>3. CASE UpdateConflicts
  BY <1>1, <1>3 DEF UpdateConflicts, TypeOK, Loaded, rows, money, health
<1>4. CASE CloseFindsClosed
  <2>1. Loaded' \subseteq Order /\ mirror' \in [Loaded' -> Position]
    BY <1>4, DropType DEF CloseFindsClosed, Loaded
  <2> QED
    BY <1>1, <1>4, <2>1 DEF CloseFindsClosed, TypeOK, rows, money, health
<1>5. CASE Commit
  <2>1. RowsAndMoneyTyped'
    BY <1>5, WriteType DEF Commit
  <2>2. job' \in Job
    BY <1>5 DEF Commit, TypeOK, Job
  <2> QED
    BY <1>5, <2>1, <2>2
    DEF Commit, TypeOK, RowsAndMoneyTyped, Loaded, health
<1>6. CASE UpdateMirror
  <2> DEFINE k == job.order
  <2>1. job # Free /\ k \in Order /\ job.position \in Position
    BY <1>6, JobFields DEF UpdateMirror, TypeOK
  <2>2. job' \in Job
    BY <1>1, <1>6 DEF UpdateMirror, TypeOK, Job
  <2>3. Loaded' \subseteq Order /\ mirror' \in [Loaded' -> Position]
    <3>1. CASE job.kind \in {"open", "adjust"}
      <4>1. mirror' = Put(k, job.position)
        BY <1>6, <3>1 DEF UpdateMirror
      <4> QED
        BY <2>1, <4>1, PutType DEF Loaded
    <3>2. CASE job.kind = "protect"
      <4> DEFINE p == [mirror[k] EXCEPT !.stop = job.position.stop]
      <4>1. mirror' = Put(k, p)
        BY <1>6, <3>2 DEF UpdateMirror
      <4>2. k \in Loaded
        BY <3>2 DEF ProtectsLoaded
      <4>3. p \in Position
        BY <2>1, <4>2 DEF TypeOK, Position
      <4> QED
        BY <2>1, <4>1, <4>3, PutType DEF Loaded
    <3>3. CASE job.kind \notin {"open", "adjust", "protect"}
      <4>1. mirror' = Drop(k)
        BY <1>6, <3>3 DEF UpdateMirror
      <4> QED
        BY <4>1, DropType DEF Loaded
    <3> QED
      BY <3>1, <3>2, <3>3
  <2> QED
    BY <1>6, <2>2, <2>3 DEF UpdateMirror, TypeOK, rows, money, health
<1>7. CASE CommitRefused
  BY <1>7, AbortType DEF CommitRefused, TypeOK, Loaded, rows, money
<1>8. CASE CommitAckLost
  <2>1. RowsAndMoneyTyped'
    BY <1>8, WriteType DEF CommitAckLost
  <2> QED
    BY <1>8, <2>1, AbortType
    DEF CommitAckLost, TypeOK, RowsAndMoneyTyped, Loaded
<1> QED
  BY <1>2, <1>3, <1>4, <1>5, <1>6, <1>7, <1>8 DEF JobStep

\* The market, the pass and everything else around the jobs.
LEMMA TickType ==
  ASSUME TypeOK, TickTakesLock \/ TickRuns
  PROVE  TypeOK'
<1>1. CASE TickMarks
  <2>1. \A k \in Loaded :
          /\ [mirror[k] EXCEPT !.mark = MarkRate(k)] \in Position
          /\ [mirror[k] EXCEPT !.mark = rate] \in Position
    BY RateTypes DEF TypeOK, Position
  <2>2. Loaded' \subseteq Order /\ mirror' \in [Loaded' -> Position]
    <3>1. PICK f \in [Loaded -> Position] : mirror' = f
      <4>1. CASE mirror' = [k \in Loaded |->
                             [mirror[k] EXCEPT !.mark = MarkRate(k)]]
        BY <2>1, <4>1
      <4>2. CASE mirror' = [k \in Loaded |-> [mirror[k] EXCEPT !.mark = rate]]
        BY <2>1, <4>2
      <4> QED
        BY <1>1, <4>1, <4>2 DEF TickMarks
    <3>2. Loaded' = Loaded
      BY <3>1 DEF Loaded
    <3> QED
      BY <3>1, <3>2 DEF TypeOK
  <2>3. /\ due' \subseteq Order /\ tick' = "closing"
        /\ failures' \in 0..MaxFailures
    BY <1>1, BoundAssumption DEF TickMarks, TypeOK
  <2> QED
    BY <1>1, <2>2, <2>3 DEF TickMarks, TypeOK, rows, money
<1>2. ASSUME NEW k \in Order, TickCloses(k) PROVE TypeOK'
  <2>1. job' \in Job
    <3>1. CASE k \in Loaded
      <4>1. mirror[k] \in Position
        BY <3>1 DEF TypeOK
      <4> QED
        BY <1>2, <3>1, <4>1, DoingType DEF TickCloses
    <3>2. CASE k \notin Loaded
      BY <1>2, <3>2 DEF TickCloses, Job
    <3> QED
      BY <3>1, <3>2
  <2> QED
    BY <1>2, <2>1 DEF TickCloses, TypeOK, Loaded, rows, money, health
<1>3. ASSUME NEW k \in Order, StopOutCloses(k) PROVE TypeOK'
  <2> DEFINE p == [mirror[k] EXCEPT !.mark = rate]
  <2>1. p \in Position
    BY <1>3, RateTypes DEF StopOutCloses, TypeOK, Position
  <2>2. mirror' = Put(k, p) /\ job' = Doing("stopOut", "commit", k, p)
    BY <1>3 DEF StopOutCloses
  <2>3. job' \in Job
    BY <2>1, <2>2, DoingType
  <2>4. Loaded' \subseteq Order /\ mirror' \in [Loaded' -> Position]
    BY <2>1, <2>2, PutType DEF Loaded
  <2> QED
    BY <1>3, <2>3, <2>4 DEF StopOutCloses, TypeOK, rows, money, health
<1>4. CASE StopOutEnds
  BY <1>4 DEF StopOutEnds, TypeOK, Loaded, Job, rows, money, health
<1>5. CASE TickGate \/ TickEnds \/ CheckpointBegins \/ CheckpointFails
  <2>1. CASE TickGate
    BY <2>1 DEF TickGate, TypeOK, Loaded, rows, money, health
  <2>2. CASE TickEnds
    BY <2>2 DEF TickEnds, TypeOK, Loaded, rows, money, health
  <2>3. CASE CheckpointBegins
    BY <2>3 DEF CheckpointBegins, TypeOK, Loaded, rows, money, health
  <2>4. CASE CheckpointFails
    <3>1. DOMAIN snapshot' = {} /\ snapshot' \in [DOMAIN snapshot' -> Position]
      BY <2>4 DEF CheckpointFails
    <3> QED
      BY <2>4, <3>1 DEF CheckpointFails, TypeOK, Loaded, rows, money, health
  <2> QED
    BY <1>5, <2>1, <2>2, <2>3, <2>4
<1>6. CASE Checkpoint
  <2>1. \A k \in DOMAIN snapshot :
          [saved[k] EXCEPT !.mark = snapshot[k].mark,
                           !.adjustment = snapshot[k].adjustment] \in Position
    BY DEF TypeOK, Position
  <2>2. saved' \in [Order -> Position]
    BY <1>6, <2>1 DEF Checkpoint, TypeOK
  <2>3. DOMAIN snapshot' = {} /\ snapshot' \in [DOMAIN snapshot' -> Position]
    <3>1. snapshot' = <<>>
      BY <1>6 DEF Checkpoint
    <3> QED
      BY <3>1
  <2> QED
    BY <1>6, <2>2, <2>3 DEF Checkpoint, TypeOK, Loaded, money, health
<1> QED
  BY <1>1, <1>2, <1>3, <1>4, <1>5, <1>6 DEF TickTakesLock, TickRuns

LEMMA EnvironmentType ==
  ASSUME TypeOK, Feed \/ FundsMove \/ Crash
  PROVE  TypeOK'
<1>1. CASE Feed
  BY <1>1 DEF Feed, TypeOK, Loaded, rows, money, health
<1>2. CASE FundsMove
  <2>1. funded' \in Int /\ available' \in Int
    BY <1>2, MoneyAssumption DEF FundsMove, TypeOK
  <2> QED
    BY <1>2, <2>1 DEF FundsMove, TypeOK, Loaded, rows, health
<1>3. CASE Crash
  <2>1. Loaded' \subseteq Order /\ mirror' \in [Loaded' -> Position]
    BY <1>3 DEF Crash, Restrict, Open, Loaded, TypeOK
  <2>2. failures' \in 0..MaxFailures
    BY <1>3, BoundAssumption DEF Crash, TypeOK
  <2>3. DOMAIN snapshot' = {} /\ snapshot' \in [DOMAIN snapshot' -> Position]
    BY <1>3 DEF Crash
  <2> QED
    BY <1>3, <2>1, <2>2, <2>3 DEF Crash, TypeOK, Job, rows, money
<1> QED
  BY <1>1, <1>2, <1>3

-----------------------------------------------------------------------------
(* The inductive invariant.  The lock is what makes it one: while a job    *)
(* is between its parts, nobody else opens its order, unloads its position *)
(* or changes a stop loss.                                                 *)

OrderIsNew == At("open", "commit") => status[job.order] = "NONE"

\* Memory and the rows agree on what is open and on its stop losses.
InStep ==
  /\ Loaded = Open
  /\ \A j \in Open : mirror[j].stop = saved[j].stop

\* They agree but for the job's order, whose row has the news.
OneBehind ==
  /\ \A j \in Order \ {job.order} :
       /\ j \in Loaded <=> j \in Open
       /\ j \in Open => mirror[j].stop = saved[j].stop
  /\ IF job.kind \in {"open", "adjust", "protect"}
     THEN /\ job.order \in Open
          /\ saved[job.order].stop = job.position.stop
     ELSE job.order \notin Open

MirrorFollows ==
  ~ lost =>
    /\ job = Free \/ job.step # "mirror" => InStep
    /\ job.kind = "adjust" => job.position.stop = mirror[job.order].stop
    /\ job # Free /\ job.step = "mirror" => OneBehind

IInv ==
  /\ TypeOK /\ ProtectsLoaded /\ OrderIsNew
  /\ MarginBacksOpenRows /\ NeverNegative
  /\ MirrorFollows

LEMMA OpenIsFinite ==
  IsFiniteSet(Open) /\ Cardinality(Open) \in Nat
<1>1. IsFiniteSet(Open)
  BY OrderAssumption, FS_Subset DEF Open
<1> QED
  BY <1>1, FS_CardinalityType

\* What a transaction does to the open rows and to the account.
LEMMA WriteOpensOrCloses ==
  ASSUME IInv, job # Free, job.step = "commit", Write
  PROVE  /\ MarginBacksOpenRows' /\ NeverNegative'
         /\ \A j \in Order : status[j] = "CLOSED" =>
              /\ status'[j] = "CLOSED" /\ saved'[j] = saved[j]
              /\ booked'[j] = booked[j]
<1> DEFINE k == job.order
           p == job.position
<1>1. k \in Order /\ p \in Position /\ TypeOK
  BY JobFields DEF IInv, TypeOK
<1>2. Margin \in Int /\ Commission \in Int /\ Margin >= 0 /\ Commission >= 0
  BY MoneyAssumption
<1>3. /\ available \in Int /\ margin \in Int /\ available >= 0
      /\ margin = Margin * Cardinality(Open)
  BY <1>1 DEF IInv, TypeOK, NeverNegative, MarginBacksOpenRows
<1>4. CASE job.kind = "open" /\ Affords /\ WriteOpen(k, p)
  <2>1. status[k] = "NONE"
    BY <1>4 DEF IInv, OrderIsNew, At
  <2>2. Open' = Open \cup {k} /\ k \notin Open
    BY <1>1, <1>4, <2>1 DEF WriteOpen, Open, TypeOK
  <2>3. Cardinality(Open') = Cardinality(Open) + 1
    BY <2>2, OpenIsFinite, FS_AddElement
  <2>4. /\ margin' = margin + Margin
        /\ available' = available - Margin - Commission
    BY <1>4 DEF WriteOpen
  <2>5. margin' = Margin * Cardinality(Open')
    BY <1>2, <1>3, <2>3, <2>4, OpenIsFinite
  <2>6. available' >= 0
    BY <1>2, <1>3, <1>4, <2>4 DEF Affords
  <2>7. \A j \in Order : status[j] = "CLOSED" =>
          /\ status'[j] = "CLOSED" /\ saved'[j] = saved[j]
          /\ booked'[j] = booked[j]
    BY <1>1, <1>4, <2>1 DEF WriteOpen, TypeOK
  <2> QED
    BY <2>5, <2>6, <2>7 DEF MarginBacksOpenRows, NeverNegative
<1>5. CASE job.kind = "adjust" /\ status[k] = "OPEN" /\ WriteAdjust(k, p)
  BY <1>1, <1>3, <1>5
  DEF WriteAdjust, TypeOK, money, MarginBacksOpenRows, NeverNegative, Open
<1>6. CASE job.kind = "protect" /\ status[k] = "OPEN" /\ WriteProtect(k, p)
  BY <1>1, <1>3, <1>6
  DEF WriteProtect, TypeOK, money, MarginBacksOpenRows, NeverNegative, Open
<1>7. CASE /\ job.kind \in {"close", "due", "stopOut"}
           /\ status[k] = "OPEN" /\ WriteClose(k, p)
  <2> DEFINE left == available + Margin + Profit(k, p)
  <2>1. Profit(k, p) \in Int
    BY <1>1, ProfitType
  <2>2. Open' = Open \ {k} /\ k \in Open
    BY <1>1, <1>7 DEF WriteClose, Open, TypeOK
  <2>3. Cardinality(Open') = Cardinality(Open) - 1
    BY <2>2, OpenIsFinite, FS_RemoveElement
  <2>4. margin' = margin - Margin /\ available' = IF left < 0 THEN 0 ELSE left
    BY <1>7 DEF WriteClose
  <2>5. margin' = Margin * Cardinality(Open')
    BY <1>2, <1>3, <2>3, <2>4, OpenIsFinite
  <2>6. available' >= 0
    BY <1>2, <1>3, <2>1, <2>4
  <2>7. \A j \in Order : status[j] = "CLOSED" =>
          /\ status'[j] = "CLOSED" /\ saved'[j] = saved[j]
          /\ booked'[j] = booked[j]
    <3>1. /\ \A j \in Order \ {k} : /\ status'[j] = status[j]
                                    /\ saved'[j] = saved[j]
                                    /\ booked'[j] = booked[j]
      BY <1>1, <1>7 DEF WriteClose, TypeOK
    <3> QED
      BY <1>7, <3>1
  <2> QED
    BY <2>5, <2>6, <2>7 DEF MarginBacksOpenRows, NeverNegative
<1> QED
  BY <1>1, <1>4, <1>5, <1>6, <1>7, WriteCases

\* The transactions of a job that may write.
Writes == job # Free /\ job.step = "commit" /\ Write

\* Whatever does not write leaves the rows' statuses and the account alone,
\* but for the desk, which never overdraws it.
LEMMA OnlyWritesWrite ==
  ASSUME TypeOK, Next
  PROVE  \/ Writes /\ (Commit \/ CommitAckLost)
         \/ /\ status' = status /\ booked' = booked /\ margin' = margin
            /\ \/ available' = available
               \/ available' >= 0
            /\ \A k \in Order : status[k] = "CLOSED" => saved'[k] = saved[k]
            /\ \A k \in Order : saved'[k].stop = saved[k].stop
<1>1. CASE Request
  BY <1>1 DEF Request, OpenBegin, CloseBegin, AdjustBegin, ProtectBegin, rows,
              money
<1>2. CASE JobStep
  BY <1>2 DEF JobStep, OpenRefused, CloseFindsClosed, UpdateConflicts, Commit,
              UpdateMirror, Writes, rows, money
<1>3. CASE TickTakesLock
  BY <1>3 DEF TickTakesLock, TickCloses, StopOutCloses, StopOutEnds, rows, money
<1>4. CASE TickRuns
  <2>1. CASE TickMarks \/ TickGate \/ TickEnds \/ CheckpointBegins
             \/ CheckpointFails
    BY <2>1 DEF TickMarks, TickGate, TickEnds, CheckpointBegins,
                CheckpointFails, rows, money
  <2>2. CASE Checkpoint
    <3>1. \A k \in Order :
            saved'[k] = IF k \in Open \cap DOMAIN snapshot
                        THEN [saved[k] EXCEPT
                                !.mark = snapshot[k].mark,
                                !.adjustment = snapshot[k].adjustment]
                        ELSE saved[k]
      BY <2>2 DEF Checkpoint
    <3>2. \A k \in Order : status[k] = "CLOSED" => saved'[k] = saved[k]
      BY <3>1 DEF Open
    <3>3. \A k \in Order : saved'[k].stop = saved[k].stop
      BY <3>1 DEF TypeOK, Position
    <3> QED
      BY <2>2, <3>2, <3>3 DEF Checkpoint, money
  <2> QED
    BY <1>4, <2>1, <2>2 DEF TickRuns
<1>5. CASE CommitRefused
  BY <1>5 DEF CommitRefused, rows, money
<1>6. CASE CommitAckLost
  BY <1>6 DEF CommitAckLost, Writes
<1>7. CASE Feed \/ FundsMove \/ Crash
  BY <1>7 DEF Feed, FundsMove, Crash, rows, money
<1> QED
  BY <1>1, <1>2, <1>3, <1>4, <1>5, <1>6, <1>7 DEF Next

\* What a job needs while it holds the lock.
LEMMA StepKeepsJob ==
  ASSUME IInv, Next
  PROVE  ProtectsLoaded' /\ OrderIsNew'
<1>0. TypeOK /\ ProtectsLoaded /\ OrderIsNew
  BY DEF IInv
<1>1. CASE Request
  BY <1>0, <1>1
  DEF Request, OpenBegin, CloseBegin, AdjustBegin, ProtectBegin, Doing, At,
      ProtectsLoaded, OrderIsNew, Loaded, rows
<1>2. CASE JobStep
  <2>1. CASE OpenRefused \/ CloseFindsClosed \/ UpdateConflicts
    BY <2>1 DEF OpenRefused, CloseFindsClosed, UpdateConflicts, Free, At,
                ProtectsLoaded, OrderIsNew
  <2>2. CASE Commit
    <3>1. job.kind' = job.kind /\ job.order' = job.order /\ job.step' = "mirror"
      BY <1>0, <2>2 DEF Commit, TypeOK, Job
    <3> QED
      BY <1>0, <2>2, <3>1 DEF Commit, At, ProtectsLoaded, OrderIsNew, Loaded
  <2>3. CASE UpdateMirror
    <3>1. \/ job' = Free
          \/ job.kind = "stopOut" /\ job' = [job EXCEPT !.step = "check"]
      BY <2>3 DEF UpdateMirror
    <3>2. job'.kind \notin {"open", "protect", "adjust"}
      BY <1>0, <2>3, <3>1 DEF Free, TypeOK, Job, UpdateMirror
    <3> QED
      BY <3>2 DEF At, ProtectsLoaded, OrderIsNew
  <2> QED
    BY <1>2, <2>1, <2>2, <2>3 DEF JobStep
<1>3. CASE TickTakesLock
  <2>1. job'.kind \in {"due", "stopOut", "free"}
    <3>1. ASSUME NEW k \in Order, TickCloses(k)
          PROVE  job'.kind \in {"due", "free"}
      <4>1. job' = Free \/ job' = Doing("due", "commit", k, mirror[k])
        BY <3>1 DEF TickCloses
      <4> QED
        BY <4>1 DEF Doing, Free
    <3>2. ASSUME NEW k \in Order, StopOutCloses(k)
          PROVE  job'.kind = "stopOut"
      BY <3>2 DEF StopOutCloses, Doing
    <3>3. CASE StopOutEnds
      BY <3>3 DEF StopOutEnds, Free
    <3> QED
      BY <1>3, <3>1, <3>2, <3>3 DEF TickTakesLock
  <2> QED
    BY <2>1 DEF At, ProtectsLoaded, OrderIsNew
<1>4. CASE TickRuns \/ Feed \/ FundsMove
  <2>1. job' = job /\ DOMAIN mirror' = DOMAIN mirror /\ status' = status
    BY <1>4 DEF TickRuns, TickMarks, TickGate, TickEnds, CheckpointBegins,
                Checkpoint, CheckpointFails, Feed, FundsMove, Loaded, rows
  <2> QED
    BY <1>0, <2>1 DEF At, ProtectsLoaded, OrderIsNew, Loaded
<1>5. CASE CommitRefused \/ CommitAckLost \/ Crash
  BY <1>5 DEF CommitRefused, CommitAckLost, Crash, Abort, Free, At,
              ProtectsLoaded, OrderIsNew
<1> QED
  BY <1>1, <1>2, <1>3, <1>4, <1>5 DEF Next

-----------------------------------------------------------------------------
(* Memory follows the rows.                                                *)

\* A step that leaves the job, the stops and what is open and loaded alone.
LEMMA SameStops ==
  ASSUME MirrorFollows, ProtectsLoaded, TypeOK,
         job' = job, lost' = lost, status' = status,
         DOMAIN mirror' = DOMAIN mirror,
         \A k \in Loaded : mirror'[k].stop = mirror[k].stop,
         \A k \in Order : saved'[k].stop = saved[k].stop
  PROVE  MirrorFollows'
<1>1. Open' = Open /\ Loaded' = Loaded
  BY DEF Open, Loaded
<1>2. SUFFICES ASSUME ~ lost PROVE MirrorFollows'
  BY DEF MirrorFollows
<1>3. Open \subseteq Order
  BY DEF Open
<1>4. ASSUME job = Free \/ job.step # "mirror" PROVE InStep'
  <2>1. InStep
    BY <1>2, <1>4 DEF MirrorFollows
  <2> QED
    BY <1>1, <1>3, <2>1 DEF InStep
<1>5. ASSUME job.kind = "adjust"
      PROVE  job'.position.stop = mirror'[job'.order].stop
  BY <1>2, <1>5 DEF MirrorFollows, ProtectsLoaded
<1>6. ASSUME job # Free, job.step = "mirror" PROVE OneBehind'
  <2>1. OneBehind /\ job.order \in Order
    BY <1>2, <1>6, JobFields DEF MirrorFollows, TypeOK
  <2> QED
    BY <1>1, <2>1 DEF OneBehind
<1> QED
  BY <1>4, <1>5, <1>6 DEF MirrorFollows

\* A step that starts from and ends in agreement.
LEMMA StaysInStep ==
  ASSUME ~ lost' => InStep', ~ lost' => job'.step # "mirror" \/ job' = Free,
         job'.kind # "adjust"
  PROVE  MirrorFollows'
<1>1. ASSUME ~ lost', job' # Free, job'.step = "mirror" PROVE FALSE
  BY <1>1
<1> QED
  BY <1>1 DEF MirrorFollows

\* Marking one position in memory changes neither.
LEMMA MarkKeepsStep ==
  ASSUME TypeOK, InStep, status' = status, saved' = saved,
         NEW k \in Loaded, NEW mark \in Int,
         mirror' = Put(k, [mirror[k] EXCEPT !.mark = mark])
  PROVE  InStep'
<1>1. mirror[k] \in Position /\ k \in Order
  BY DEF TypeOK
<1>2. Loaded' = Loaded
  BY DEF Put, Loaded
<1>3. \A j \in Loaded : mirror'[j].stop = mirror[j].stop
  BY <1>1 DEF Put, Position
<1> QED
  BY <1>2, <1>3 DEF InStep, Open

\* Unloading a position that is not open changes neither.
LEMMA DropKeepsStep ==
  ASSUME InStep, status' = status, saved' = saved,
         NEW k, k \notin Open, mirror' = Drop(k)
  PROVE  InStep'
<1>1. Loaded' = Loaded /\ \A j \in Loaded : mirror'[j] = mirror[j]
  BY DEF Drop, Restrict, InStep, Loaded
<1> QED
  BY <1>1 DEF InStep, Open

LEMMA RequestFollows ==
  ASSUME IInv, Request PROVE MirrorFollows'
<1>0. TypeOK /\ MirrorFollows
  BY DEF IInv
<1>1. job = Free /\ status' = status /\ saved' = saved /\ lost' = lost
  BY DEF Request, OpenBegin, CloseBegin, AdjustBegin, ProtectBegin, rows, health
<1>2. ~ lost => InStep
  BY <1>0, <1>1 DEF MirrorFollows
<1>3. PICK r \in Sent :
        \/ OpenBegin(r.order, r.level)
        \/ CloseBegin(r.order)
        \/ AdjustBegin(r.order, r.level)
        \/ ProtectBegin(r.order, r.level)
  BY DEF Request
<1>4. CASE OpenBegin(r.order, r.level) \/ ProtectBegin(r.order, r.level)
  <2>1. mirror' = mirror /\ job'.step = "commit" /\ job'.kind # "adjust"
    BY <1>4 DEF OpenBegin, ProtectBegin, Doing
  <2>2. ~ lost' => InStep'
    BY <1>1, <1>2, <2>1 DEF InStep, Loaded, Open
  <2> QED
    BY <2>1, <2>2, StaysInStep
<1>5. CASE CloseBegin(r.order)
  <2>1. /\ r.order \in Loaded
        /\ mirror' = Put(r.order, [mirror[r.order] EXCEPT !.mark = rate])
        /\ job'.step = "commit" /\ job'.kind = "close"
    BY <1>5 DEF CloseBegin, Doing
  <2>2. rate \in Int
    BY <1>0, MoneyAssumption DEF TypeOK
  <2>3. ~ lost' => InStep'
    BY <1>0, <1>1, <1>2, <2>1, <2>2, MarkKeepsStep
  <2> QED
    BY <2>1, <2>3, StaysInStep
<1>6. CASE AdjustBegin(r.order, r.level)
  <2> DEFINE k == r.order
  <2>1. /\ k \in Loaded /\ mirror' = mirror
        /\ job'.step = "commit" /\ job'.kind = "adjust" /\ job'.order = k
        /\ job'.position =
             [mirror[k] EXCEPT !.adjustment =
                r.level - (Profit(k, mirror[k]) - mirror[k].adjustment)]
    BY <1>6 DEF AdjustBegin, Doing
  <2>2. mirror[k] \in Position
    BY <1>0, <2>1 DEF TypeOK
  <2>3. job'.position.stop = mirror[k].stop
    BY <2>1, <2>2 DEF Position
  <2>4. ~ lost' => InStep'
    BY <1>1, <1>2, <2>1 DEF InStep, Loaded, Open
  <2> QED
    BY <2>1, <2>3, <2>4 DEF MirrorFollows
<1> QED
  BY <1>3, <1>4, <1>5, <1>6

LEMMA CommitFollows ==
  ASSUME IInv, Commit PROVE MirrorFollows'
<1> DEFINE k == job.order
           p == job.position
<1>0. /\ TypeOK /\ MirrorFollows /\ ProtectsLoaded /\ OrderIsNew
      /\ job # Free /\ job.step = "commit" /\ Write
  BY DEF IInv, Commit
<1>1. k \in Order /\ p \in Position /\ saved[k] \in Position
  BY <1>0, JobFields DEF TypeOK
<1>2. /\ job'.kind = job.kind /\ job'.step = "mirror"
      /\ job'.order = k /\ job'.position = p
      /\ mirror' = mirror /\ lost' = lost
  BY <1>0 DEF Commit, TypeOK, Job, health
<1>3. SUFFICES ASSUME ~ lost PROVE MirrorFollows'
  BY <1>2 DEF MirrorFollows
<1>4. InStep
  BY <1>0, <1>3 DEF MirrorFollows
<1>5. OneBehind'
  <2>1. CASE job.kind = "open" /\ WriteOpen(k, p)
    <3>1. k \in Open' /\ saved'[k] = p
      BY <1>1, <2>1, <1>0 DEF WriteOpen, Open, TypeOK
    <3>2. \A j \in Order \ {k} : /\ j \in Open' <=> j \in Open
                                 /\ saved'[j] = saved[j]
      BY <1>1, <2>1, <1>0 DEF WriteOpen, Open, TypeOK
    <3> QED
      BY <1>2, <1>4, <2>1, <3>1, <3>2 DEF OneBehind, InStep, Loaded
  <2>2. CASE job.kind = "adjust" /\ status[k] = "OPEN" /\ WriteAdjust(k, p)
    <3>1. Open' = Open /\ k \in Open
      BY <1>1, <2>2 DEF WriteAdjust, Open
    <3>2. saved'[k].stop = saved[k].stop
      BY <1>0, <1>1, <2>2 DEF WriteAdjust, TypeOK, Position
    <3>3. \A j \in Order \ {k} : saved'[j] = saved[j]
      BY <1>0, <1>1, <2>2 DEF WriteAdjust, TypeOK
    <3>4. p.stop = mirror[k].stop
      BY <1>0, <1>3, <2>2 DEF MirrorFollows
    <3>5. saved'[k].stop = p.stop
      BY <1>4, <3>1, <3>2, <3>4 DEF InStep
    <3> QED
      BY <1>2, <1>4, <2>2, <3>1, <3>3, <3>5 DEF OneBehind, InStep, Loaded
  <2>3. CASE job.kind = "protect" /\ status[k] = "OPEN" /\ WriteProtect(k, p)
    <3>1. Open' = Open /\ k \in Open
      BY <1>1, <2>3 DEF WriteProtect, Open
    <3>2. saved'[k].stop = p.stop
      BY <1>0, <1>1, <2>3 DEF WriteProtect, TypeOK, Position
    <3>3. \A j \in Order \ {k} : saved'[j] = saved[j]
      BY <1>0, <1>1, <2>3 DEF WriteProtect, TypeOK
    <3> QED
      BY <1>2, <1>4, <2>3, <3>1, <3>2, <3>3 DEF OneBehind, InStep, Loaded
  <2>4. CASE job.kind \in {"close", "due", "stopOut"} /\ WriteClose(k, p)
    <3>1. k \notin Open'
      BY <1>1, <2>4, <1>0 DEF WriteClose, Open, TypeOK
    <3>2. \A j \in Order \ {k} : /\ j \in Open' <=> j \in Open
                                 /\ saved'[j] = saved[j]
      BY <1>1, <2>4, <1>0 DEF WriteClose, Open, TypeOK
    <3> QED
      BY <1>2, <1>4, <2>4, <3>1, <3>2 DEF OneBehind, InStep, Loaded
  <2> QED
    BY <1>0, <2>1, <2>2, <2>3, <2>4, WriteCases
<1>6. job'.kind = "adjust" => job'.position.stop = mirror'[job'.order].stop
  BY <1>0, <1>2, <1>3 DEF MirrorFollows
<1>7. job' # Free
  <2>1. job'.kind # "free"
    BY <1>0, <1>2, JobFields DEF TypeOK
  <2> QED
    BY <2>1 DEF Free
<1> QED
  BY <1>2, <1>5, <1>6, <1>7 DEF MirrorFollows

LEMMA UpdateFollows ==
  ASSUME IInv, UpdateMirror PROVE MirrorFollows'
<1> DEFINE k == job.order
           p == job.position
<1>0. /\ TypeOK /\ MirrorFollows /\ ProtectsLoaded
      /\ job # Free /\ job.step = "mirror"
      /\ status' = status /\ saved' = saved /\ lost' = lost
  BY DEF IInv, UpdateMirror, rows, health
<1>1. k \in Order /\ p \in Position
  BY <1>0, JobFields DEF TypeOK
<1>2. (job' = Free \/ job'.step # "mirror") /\ job'.kind # "adjust"
  <2>1. CASE job.kind = "stopOut"
    BY <1>0, <2>1 DEF UpdateMirror, TypeOK, Job
  <2>2. CASE job.kind # "stopOut"
    BY <2>2 DEF UpdateMirror, Free
  <2> QED
    BY <2>1, <2>2
<1>3. SUFFICES ASSUME ~ lost PROVE InStep'
  BY <1>0, <1>2, StaysInStep
<1>4. OneBehind
  BY <1>0, <1>3 DEF MirrorFollows
<1>5. Open' = Open /\ Open \subseteq Order /\ Loaded \subseteq Order
  BY <1>0 DEF Open, TypeOK
<1>6. CASE job.kind \in {"open", "adjust"}
  <2>1. mirror' = Put(k, p)
    BY <1>6 DEF UpdateMirror
  <2>2. /\ Loaded' = Loaded \cup {k} /\ mirror'[k] = p
        /\ \A j \in Loaded \ {k} : mirror'[j] = mirror[j]
    BY <2>1 DEF Put, Loaded
  <2> QED
    BY <1>0, <1>1, <1>4, <1>5, <1>6, <2>2 DEF OneBehind, InStep
<1>7. CASE job.kind = "protect"
  <2>1. mirror' = Put(k, [mirror[k] EXCEPT !.stop = p.stop])
    BY <1>7 DEF UpdateMirror
  <2>2. k \in Loaded /\ mirror[k] \in Position
    BY <1>0, <1>7 DEF ProtectsLoaded, TypeOK
  <2>3. /\ Loaded' = Loaded \cup {k} /\ mirror'[k].stop = p.stop
        /\ \A j \in Loaded \ {k} : mirror'[j] = mirror[j]
    BY <2>1, <2>2 DEF Put, Loaded, Position
  <2> QED
    BY <1>0, <1>1, <1>4, <1>5, <1>7, <2>3 DEF OneBehind, InStep
<1>8. CASE job.kind \notin {"open", "adjust", "protect"}
  <2>1. mirror' = Drop(k)
    BY <1>8 DEF UpdateMirror
  <2>2. /\ Loaded' = Loaded \ {k}
        /\ \A j \in Loaded \ {k} : mirror'[j] = mirror[j]
    BY <2>1 DEF Drop, Restrict, Loaded
  <2> QED
    BY <1>0, <1>1, <1>4, <1>5, <1>8, <2>2 DEF OneBehind, InStep
<1> QED
  BY <1>6, <1>7, <1>8

LEMMA JobEndFollows ==
  ASSUME IInv,
         \/ OpenRefused \/ CloseFindsClosed \/ UpdateConflicts
         \/ CommitRefused \/ CommitAckLost
  PROVE  MirrorFollows'
<1>0. TypeOK /\ MirrorFollows
  BY DEF IInv
<1>1. job' = Free /\ job'.kind # "adjust"
  <2>1. job' = Free
    BY DEF OpenRefused, CloseFindsClosed, UpdateConflicts, CommitRefused,
           CommitAckLost, Abort
  <2> QED
    BY <2>1 DEF Free
<1>2. CASE CommitAckLost
  BY <1>2 DEF CommitAckLost, MirrorFollows
<1>3. CASE ~ CommitAckLost
  <2>1. /\ job.step = "commit" /\ lost' = lost
        /\ status' = status /\ saved' = saved
    BY <1>3 DEF OpenRefused, CloseFindsClosed, UpdateConflicts, CommitRefused,
                At, rows, health
  <2>2. ~ lost => InStep
    BY <1>0, <2>1 DEF MirrorFollows
  <2>3. CASE CloseFindsClosed
    <3>1. job.order \notin Open /\ mirror' = Drop(job.order)
      BY <2>3 DEF CloseFindsClosed, Open
    <3>2. ~ lost' => InStep'
      BY <2>1, <2>2, <3>1, DropKeepsStep
    <3> QED
      BY <1>1, <3>2, StaysInStep
  <2>4. CASE OpenRefused \/ UpdateConflicts \/ CommitRefused
    <3>1. mirror' = mirror
      BY <2>4 DEF OpenRefused, UpdateConflicts, CommitRefused, Abort
    <3>2. ~ lost' => InStep'
      BY <2>1, <2>2, <3>1 DEF InStep, Loaded, Open
    <3> QED
      BY <1>1, <3>2, StaysInStep
  <2> QED
    BY <1>3, <2>3, <2>4
<1> QED
  BY <1>2, <1>3

LEMMA TickFollows ==
  ASSUME IInv, TickTakesLock \/ TickRuns PROVE MirrorFollows'
<1>0. TypeOK /\ MirrorFollows /\ ProtectsLoaded
  BY DEF IInv
<1>1. status' = status /\ lost' = lost
  BY DEF TickTakesLock, TickCloses, StopOutCloses, StopOutEnds, TickRuns,
         TickMarks, TickGate, TickEnds, CheckpointBegins, Checkpoint,
         CheckpointFails, rows, health
<1>2. CASE TickRuns
  <2>1. job' = job
    BY <1>2 DEF TickRuns, TickMarks, TickGate, TickEnds, CheckpointBegins,
                Checkpoint, CheckpointFails
  <2>2. /\ DOMAIN mirror' = DOMAIN mirror
        /\ \A k \in Loaded : mirror'[k].stop = mirror[k].stop
    <3>1. CASE TickMarks
      <4>1. \/ mirror' = [k \in Loaded |->
                            [mirror[k] EXCEPT !.mark = MarkRate(k)]]
            \/ mirror' = [k \in Loaded |-> [mirror[k] EXCEPT !.mark = rate]]
        BY <3>1 DEF TickMarks
      <4>2. \A k \in Loaded : mirror[k] \in Position
        BY <1>0 DEF TypeOK
      <4> QED
        BY <4>1, <4>2 DEF Position, Loaded
    <3>2. CASE ~ TickMarks
      BY <1>2, <3>2 DEF TickRuns, TickGate, TickEnds, CheckpointBegins,
                        Checkpoint, CheckpointFails
    <3> QED
      BY <3>1, <3>2
  <2>3. \A k \in Order : saved'[k].stop = saved[k].stop
    <3>1. CASE Checkpoint
      <4>1. \A k \in Order :
              saved'[k] = IF k \in Open \cap DOMAIN snapshot
                          THEN [saved[k] EXCEPT
                                  !.mark = snapshot[k].mark,
                                  !.adjustment = snapshot[k].adjustment]
                          ELSE saved[k]
        BY <3>1 DEF Checkpoint
      <4> QED
        BY <1>0, <4>1 DEF TypeOK, Position
    <3>2. CASE ~ Checkpoint
      BY <1>2, <3>2 DEF TickRuns, TickMarks, TickGate, TickEnds,
                        CheckpointBegins, CheckpointFails, rows
    <3> QED
      BY <3>1, <3>2
  <2> QED
    BY <1>0, <1>1, <2>1, <2>2, <2>3, SameStops
<1>3. ASSUME NEW k \in Order, TickCloses(k) PROVE MirrorFollows'
  <2>1. job = Free /\ mirror' = mirror /\ saved' = saved
    BY <1>3 DEF TickCloses, rows
  <2>2. ~ lost' => InStep'
    BY <1>0, <1>1, <2>1 DEF MirrorFollows, InStep, Loaded, Open
  <2>3. job' = Free \/ job' = Doing("due", "commit", k, mirror[k])
    BY <1>3 DEF TickCloses
  <2>4. (job' = Free \/ job'.step # "mirror") /\ job'.kind # "adjust"
    BY <2>3 DEF Doing, Free
  <2> QED
    BY <2>2, <2>4, StaysInStep
<1>4. ASSUME NEW k \in Order, StopOutCloses(k) PROVE MirrorFollows'
  <2>1. /\ job = Free \/ job.step = "check"
        /\ k \in Loaded /\ saved' = saved
        /\ mirror' = Put(k, [mirror[k] EXCEPT !.mark = rate])
        /\ job'.kind = "stopOut" /\ job'.step = "commit"
    BY <1>4 DEF StopOutCloses, At, Doing, rows
  <2>2. rate \in Int
    BY <1>0, MoneyAssumption DEF TypeOK
  <2>3. ~ lost => InStep
    BY <1>0, <2>1 DEF MirrorFollows
  <2>4. ~ lost' => InStep'
    BY <1>0, <1>1, <2>1, <2>2, <2>3, MarkKeepsStep
  <2> QED
    BY <2>1, <2>4, StaysInStep
<1>5. CASE StopOutEnds
  <2>1. job = Free \/ job.step = "check"
    BY <1>5 DEF StopOutEnds, At
  <2>2. job' = Free /\ mirror' = mirror /\ saved' = saved
    BY <1>5 DEF StopOutEnds, rows
  <2>3. ~ lost' => InStep'
    BY <1>0, <1>1, <2>1, <2>2 DEF MirrorFollows, InStep, Loaded, Open
  <2> QED
    BY <2>2, <2>3, StaysInStep DEF Free
<1> QED
  BY <1>2, <1>3, <1>4, <1>5 DEF TickTakesLock

LEMMA EnvironmentFollows ==
  ASSUME IInv, Feed \/ FundsMove \/ Crash PROVE MirrorFollows'
<1>0. TypeOK /\ MirrorFollows /\ ProtectsLoaded
  BY DEF IInv
<1>1. CASE Feed \/ FundsMove
  <2>1. /\ job' = job /\ lost' = lost /\ status' = status
        /\ saved' = saved /\ mirror' = mirror
    BY <1>1 DEF Feed, FundsMove, rows, health
  <2> QED
    BY <1>0, <2>1, SameStops
<1>2. CASE Crash
  <2>1. /\ mirror' = Restrict(saved, Open) /\ job' = Free
        /\ status' = status /\ saved' = saved
    BY <1>2 DEF Crash, rows
  <2>2. InStep'
    BY <2>1 DEF InStep, Restrict, Loaded, Open
  <2> QED
    BY <2>1, <2>2, StaysInStep DEF Free
<1> QED
  BY <1>1, <1>2

-----------------------------------------------------------------------------
(* The theorems.                                                           *)

LEMMA InitIInv == Init => IInv
<1>1. SUFFICES ASSUME Init PROVE IInv
  OBVIOUS
<1>2. Open = {} /\ Loaded = {}
  BY <1>1 DEF Init, Open, Loaded
<1>3. MarginBacksOpenRows /\ NeverNegative
  <2>1. Cardinality(Open) = 0
    BY <1>2, FS_EmptySet
  <2> QED
    BY <1>1, <2>1, MoneyAssumption DEF Init, MarginBacksOpenRows, NeverNegative
<1>4. job = Free /\ job.kind = "free" /\ InStep
  BY <1>1, <1>2 DEF Init, Free, InStep
<1>5. ProtectsLoaded /\ OrderIsNew /\ MirrorFollows
  BY <1>4 DEF ProtectsLoaded, OrderIsNew, MirrorFollows, At
<1> QED
  BY <1>1, <1>3, <1>5, InitType DEF IInv

LEMMA StepIInv == IInv /\ [Next]_vars => IInv'
<1>1. SUFFICES ASSUME IInv, [Next]_vars PROVE IInv'
  OBVIOUS
<1>2. CASE UNCHANGED vars
  BY <1>1, <1>2
  DEF IInv, TypeOK, ProtectsLoaded, OrderIsNew, MarginBacksOpenRows,
      NeverNegative, MirrorFollows, InStep, OneBehind, Open, Loaded, At, vars,
      rows, money, health
<1>3. CASE Next
  <2>0. TypeOK /\ ProtectsLoaded /\ MarginBacksOpenRows /\ NeverNegative
    BY <1>1 DEF IInv
  <2>1. TypeOK'
    BY <1>3, <2>0, RequestType, JobStepType, TickType, EnvironmentType DEF Next
  <2>2. ProtectsLoaded' /\ OrderIsNew'
    BY <1>1, <1>3, StepKeepsJob
  <2>3. MarginBacksOpenRows' /\ NeverNegative'
    <3>1. CASE Writes
      BY <1>1, <3>1, WriteOpensOrCloses DEF Writes
    <3>2. CASE /\ status' = status /\ margin' = margin
               /\ available' = available \/ available' >= 0
      BY <2>0, <3>2 DEF MarginBacksOpenRows, NeverNegative, Open
    <3> QED
      BY <1>3, <2>0, <3>1, <3>2, OnlyWritesWrite
  <2>4. MirrorFollows'
    BY <1>1, <1>3, RequestFollows, CommitFollows, UpdateFollows, JobEndFollows,
       TickFollows, EnvironmentFollows DEF Next, JobStep
  <2> QED
    BY <2>1, <2>2, <2>3, <2>4 DEF IInv
<1> QED
  BY <1>1, <1>2, <1>3

THEOREM Invariance == Spec => []IInv
BY InitIInv, StepIInv, PTL DEF Spec

(***************************************************************************)
(* The variables keep their types: openPositions holds positions of known  *)
(* orders, and a failed pass leaves none of the passes stuck.              *)
(***************************************************************************)
THEOREM Typing == Spec => []TypeOK
<1>1. IInv => TypeOK
  BY DEF IInv
<1> QED
  BY <1>1, Invariance, PTL

(***************************************************************************)
(* The margin bucket is the margin of the open rows.                       *)
(***************************************************************************)
THEOREM MarginBacked == Spec => []MarginBacksOpenRows
<1>1. IInv => MarginBacksOpenRows
  BY DEF IInv
<1> QED
  BY <1>1, Invariance, PTL

(***************************************************************************)
(* The free funds never go below zero: negative-balance protection and the *)
(* check of the cash an order requires suffice.                            *)
(***************************************************************************)
THEOREM Solvent == Spec => []NeverNegative
<1>1. IInv => NeverNegative
  BY DEF IInv
<1> QED
  BY <1>1, Invariance, PTL

(***************************************************************************)
(* Between mutations memory and the rows agree on the open positions and   *)
(* their stop losses, unless an acknowledgement was lost.                  *)
(***************************************************************************)
THEOREM Durability == Spec => []ProtectionIsDurable
<1>1. IInv => ProtectionIsDurable
  BY DEF IInv, MirrorFollows, InStep, ProtectionIsDurable
<1> QED
  BY <1>1, Invariance, PTL

(***************************************************************************)
(* No checkpoint, adjustment, protection or second close writes to a row   *)
(* that is closed.                                                         *)
(***************************************************************************)
THEOREM Finality == Spec => ClosedRowsAreFinal
<1> DEFINE Kept == \A k \in Order :
                     status[k] = "CLOSED" => /\ status'[k] = "CLOSED"
                                             /\ saved'[k] = saved[k]
                                             /\ booked'[k] = booked[k]
<1>1. IInv /\ [Next]_vars => [Kept]_vars
  <2>1. SUFFICES ASSUME IInv, Next PROVE Kept
    OBVIOUS
  <2>2. TypeOK
    BY <2>1 DEF IInv
  <2>3. CASE Writes
    BY <2>1, <2>3, WriteOpensOrCloses DEF Writes
  <2>4. CASE /\ status' = status /\ booked' = booked
             /\ \A k \in Order : status[k] = "CLOSED" => saved'[k] = saved[k]
    BY <2>4
  <2> QED
    BY <2>1, <2>2, <2>3, <2>4, OnlyWritesWrite
<1>2. IInv /\ [Next]_vars =>
        [ \A k \in Order :
            status[k] = "CLOSED" => /\ status'[k] = "CLOSED"
                                    /\ saved'[k] = saved[k]
                                    /\ booked'[k] = booked[k] ]_vars
  BY <1>1
<1> HIDE DEF Kept
<1> QED
  BY <1>2, Invariance, PTL DEF Spec, ClosedRowsAreFinal

-----------------------------------------------------------------------------
(* The account adds up.                                                    *)

Results == [k \in Order |-> booked[k] + cover[k]]

\* Nothing is booked for a position that is not closed.
Balanced ==
  /\ SettledOnce
  /\ \A k \in Order : status[k] # "CLOSED" => booked[k] = 0 /\ cover[k] = 0

LEMMA ResultsSum ==
  ASSUME TypeOK
  PROVE  /\ SettledOnce <=>
              available + margin = funded - Commission * Cardinality(Existing)
                                     + SumOver(Results, Order)
         /\ SumOver(Results, Order) \in Int
         /\ IsFiniteSet(Existing) /\ Cardinality(Existing) \in Nat
<1>1. IsFiniteSet(Existing) /\ IsFiniteSet(Order)
  BY OrderAssumption, FS_Subset DEF Existing
<1>2. SumFunction(Results) = SumOver(Results, Order)
  BY SumOfFunction DEF Results
<1>3. \A k \in Order : Results[k] \in Int
  BY DEF Results, TypeOK
<1>4. SumOver(Results, Order) \in Int
  BY <1>1, <1>3, SumType
<1> QED
  BY <1>1, <1>2, <1>4, FS_CardinalityType DEF SettledOnce, Results

\* A close adds what it books to the results.
LEMMA ResultAdded ==
  ASSUME TypeOK, TypeOK', NEW k \in Order,
         booked[k] = 0 /\ cover[k] = 0,
         \A j \in Order \ {k} : booked'[j] = booked[j] /\ cover'[j] = cover[j]
  PROVE  SumOver(Results', Order)
           = SumOver(Results, Order) + booked'[k] + cover'[k]
<1>1. /\ \A j \in Order : Results[j] \in Int /\ Results'[j] \in Int
      /\ \A j \in Order \ {k} : Results[j] = Results'[j]
      /\ Results[k] = 0 /\ Results'[k] = booked'[k] + cover'[k]
  BY DEF Results, TypeOK
<1>2. PICK f, g : f = Results /\ g = Results'
  OBVIOUS
<1>3. SumOver(g, Order) = SumOver(f, Order) + g[k] - f[k]
  BY <1>1, <1>2, OrderAssumption, SumChange
<1>4. SumOver(Results, Order) \in Int
  BY ResultsSum
<1>5. booked'[k] \in Int /\ cover'[k] \in Int
  BY DEF TypeOK
<1> QED
  BY <1>1, <1>2, <1>3, <1>4, <1>5

LEMMA SettledNext ==
  ASSUME available' + margin' =
           funded' - Commission * Cardinality(Existing')
             + SumOver(Results', Order)
  PROVE  SettledOnce'
<1>1. PICK f : f = Results'
  OBVIOUS
<1>2. SumFunction(f) = SumOver(f, Order)
  BY <1>1, SumOfFunction DEF Results
<1> QED
  BY <1>1, <1>2 DEF SettledOnce, Results

LEMMA WriteBalances ==
  ASSUME IInv, Balanced, TypeOK', Writes
  PROVE  Balanced'
<1> DEFINE k == job.order
           p == job.position
<1>1. k \in Order /\ p \in Position /\ TypeOK
  BY JobFields DEF IInv, TypeOK, Writes
<1>2. Margin \in Int /\ Commission \in Int
  BY MoneyAssumption
<1>3. available \in Int /\ margin \in Int /\ funded \in Int
  BY <1>1 DEF TypeOK
<1>4. /\ available + margin = funded - Commission * Cardinality(Existing)
                                + SumOver(Results, Order)
      /\ SumOver(Results, Order) \in Int
      /\ IsFiniteSet(Existing) /\ Cardinality(Existing) \in Nat
  BY <1>1, ResultsSum DEF Balanced
<1>5. \A j \in Order :
        status[j] # "CLOSED" => booked[j] = 0 /\ cover[j] = 0
  BY DEF Balanced
<1>6. CASE job.kind = "open" /\ Affords /\ WriteOpen(k, p)
  <2>1. status[k] = "NONE"
    BY <1>6 DEF IInv, OrderIsNew, At, Writes
  <2>2. Existing' = Existing \cup {k} /\ k \notin Existing
    BY <1>1, <1>6, <2>1 DEF WriteOpen, Existing, TypeOK
  <2>3. Cardinality(Existing') = Cardinality(Existing) + 1
    BY <1>4, <2>2, FS_AddElement
  <2>4. /\ margin' = margin + Margin /\ funded' = funded
        /\ available' = available - Margin - Commission
        /\ booked' = booked /\ cover' = cover /\ Results' = Results
    BY <1>6 DEF WriteOpen, Results
  <2>5. Commission * Cardinality(Existing')
          = Commission * Cardinality(Existing) + Commission
    BY <1>2, <1>4, <2>3
  <2>6. SettledOnce'
    <3>1. Commission * Cardinality(Existing) \in Int
      BY <1>2, <1>4
    <3>2. SumOver(Results', Order) = SumOver(Results, Order)
      BY <2>4
    <3>3. available' + margin' = available + margin - Commission
      BY <1>2, <1>3, <2>4
    <3>4. PICK total, fees \in Int :
            /\ total = SumOver(Results, Order)
            /\ fees = Commission * Cardinality(Existing)
      BY <1>4, <3>1
    <3>5. available + margin = funded - fees + total
      BY <1>4, <3>4
    <3>6. available' + margin' = funded - (fees + Commission) + total
      BY <1>2, <1>3, <3>3, <3>5
    <3>7. available' + margin' =
            funded' - Commission * Cardinality(Existing')
              + SumOver(Results', Order)
      BY <2>4, <2>5, <3>2, <3>4, <3>6
    <3> QED
      BY <3>7, SettledNext
  <2>7. \A j \in Order :
          status'[j] # "CLOSED" => booked'[j] = 0 /\ cover'[j] = 0
    BY <1>1, <1>5, <1>6, <2>1, <2>4 DEF WriteOpen, TypeOK
  <2> QED
    BY <2>6, <2>7 DEF Balanced
<1>7. CASE \/ job.kind = "adjust" /\ status[k] = "OPEN" /\ WriteAdjust(k, p)
           \/ job.kind = "protect" /\ status[k] = "OPEN" /\ WriteProtect(k, p)
  BY <1>7 DEF WriteAdjust, WriteProtect, money, Balanced, SettledOnce, Existing
<1>8. CASE /\ job.kind \in {"close", "due", "stopOut"}
           /\ status[k] = "OPEN" /\ WriteClose(k, p)
  <2> DEFINE left == available + Margin + Profit(k, p)
  <2>1. Profit(k, p) \in Int
    BY <1>1, ProfitType
  <2>2. Existing' = Existing
    BY <1>1, <1>8 DEF WriteClose, Existing, TypeOK
  <2>3. /\ margin' = margin - Margin /\ funded' = funded
        /\ available' = IF left < 0 THEN 0 ELSE left
        /\ booked'[k] = Profit(k, p)
        /\ cover'[k] = IF left < 0 THEN - left ELSE 0
        /\ \A j \in Order \ {k} : booked'[j] = booked[j] /\ cover'[j] = cover[j]
    BY <1>1, <1>8 DEF WriteClose, TypeOK
  <2>4. booked[k] = 0 /\ cover[k] = 0
    BY <1>1, <1>5, <1>8
  <2>5. SumOver(Results', Order)
          = SumOver(Results, Order) + booked'[k] + cover'[k]
    BY <1>1, <2>3, <2>4, ResultAdded
  <2>6. available' + margin'
          = available + margin + booked'[k] + cover'[k]
    BY <1>2, <1>3, <2>1, <2>3
  <2>7. SettledOnce'
    <3>1. Commission * Cardinality(Existing) \in Int
      BY <1>2, <1>4
    <3>2. booked'[k] \in Int /\ cover'[k] \in Int
      BY <1>1 DEF TypeOK
    <3>3. available' + margin' =
            funded' - Commission * Cardinality(Existing')
              + SumOver(Results', Order)
      BY <1>3, <1>4, <2>2, <2>3, <2>5, <2>6, <3>1, <3>2
    <3> QED
      BY <3>3, SettledNext
  <2>8. \A j \in Order :
          status'[j] # "CLOSED" => booked'[j] = 0 /\ cover'[j] = 0
    BY <1>1, <1>5, <1>8, <2>3 DEF WriteClose, TypeOK
  <2> QED
    BY <2>7, <2>8 DEF Balanced
<1> QED
  BY <1>1, <1>6, <1>7, <1>8, WriteCases DEF Writes

\* Every other step leaves the account as it is, or moves what was paid in.
LEMMA AccountAlone ==
  ASSUME TypeOK, Next
  PROVE  \/ Writes
         \/ FundsMove
         \/ UNCHANGED <<status, booked, cover, money>>
<1>1. CASE Request
  BY <1>1 DEF Request, OpenBegin, CloseBegin, AdjustBegin, ProtectBegin, rows
<1>2. CASE JobStep
  BY <1>2 DEF JobStep, OpenRefused, CloseFindsClosed, UpdateConflicts, Commit,
              UpdateMirror, Writes, rows
<1>3. CASE TickTakesLock
  BY <1>3 DEF TickTakesLock, TickCloses, StopOutCloses, StopOutEnds, rows
<1>4. CASE TickRuns
  BY <1>4 DEF TickRuns, TickMarks, TickGate, TickEnds, CheckpointBegins,
              Checkpoint, CheckpointFails, rows
<1>5. CASE CommitRefused \/ CommitAckLost
  BY <1>5 DEF CommitRefused, CommitAckLost, Writes, rows
<1>6. CASE Feed \/ FundsMove \/ Crash
  BY <1>6 DEF Feed, Crash, rows
<1> QED
  BY <1>1, <1>2, <1>3, <1>4, <1>5, <1>6 DEF Next

(***************************************************************************)
(* The account is what was paid in, less a commission per order, plus what *)
(* each position was settled at, once, for any number of positions: no     *)
(* retry, stale object or restart books a result twice or loses one.       *)
(***************************************************************************)
THEOREM Settlement == Spec => []SettledOnce
<1>1. Init => Balanced
  <2> SUFFICES ASSUME Init PROVE Balanced
    OBVIOUS
  <2>1. TypeOK
    BY InitType
  <2>2. Existing = {} /\ Cardinality(Existing) = 0
    BY FS_EmptySet DEF Init, Existing
  <2>3. \A k \in Order : Results[k] = 0
    BY DEF Init, Results
  <2>4. SumOver(Results, Order) = 0
    BY <2>3, OrderAssumption, SumZero
  <2>5. available + margin = funded - Commission * Cardinality(Existing)
                               + SumOver(Results, Order)
    BY <2>1, <2>2, <2>4, MoneyAssumption DEF Init, TypeOK
  <2> QED
    BY <2>1, <2>5, ResultsSum DEF Init, Balanced
<1>2. Balanced /\ IInv /\ IInv' /\ [Next]_vars => Balanced'
  <2> SUFFICES ASSUME Balanced, IInv, IInv', [Next]_vars PROVE Balanced'
    OBVIOUS
  <2>0. TypeOK /\ TypeOK'
    BY DEF IInv
  <2>1. CASE Writes
    BY <2>0, <2>1, WriteBalances
  <2>2. CASE FundsMove
    <3>1. /\ Existing' = Existing /\ Results' = Results /\ margin' = margin
          /\ status' = status /\ booked' = booked /\ cover' = cover
          /\ available' = available + funded' - funded
      BY <2>2 DEF FundsMove, Existing, Results, rows
    <3>2. /\ available + margin = funded - Commission * Cardinality(Existing)
                                    + SumOver(Results, Order)
          /\ SumOver(Results, Order) \in Int
          /\ Cardinality(Existing) \in Nat
      BY <2>0, ResultsSum DEF Balanced
    <3>3. Commission * Cardinality(Existing) \in Int
      BY <3>2, MoneyAssumption
    <3>4. available' + margin' =
            funded' - Commission * Cardinality(Existing')
              + SumOver(Results', Order)
      BY <2>0, <3>1, <3>2, <3>3 DEF TypeOK
    <3> QED
      BY <3>1, <3>4, SettledNext DEF Balanced
  <2>3. CASE UNCHANGED <<status, booked, cover, money>>
    BY <2>3 DEF Balanced, SettledOnce, Existing, money
  <2>4. CASE UNCHANGED vars
    BY <2>4 DEF Balanced, SettledOnce, Existing, money, rows, vars
  <2> QED
    BY <2>0, <2>1, <2>2, <2>3, <2>4, AccountAlone
<1>3. Balanced => SettledOnce
  BY DEF Balanced
<1> QED
  BY Invariance, <1>1, <1>2, <1>3, PTL DEF Spec

-----------------------------------------------------------------------------
(* The stop-out.                                                           *)

\* What the gate assumes: positions in memory have their margin in the
\* bucket and the free funds are not negative, so that a loss of at most half
\* the margin leaves the equity at or above the stop-out level.
LEMMA GateIsSafe ==
  ASSUME IInv, job = Free, ~ lost, Safe
  PROVE  ~ BelowStopOut
<1>1. TypeOK /\ Loaded = Open /\ Loaded \subseteq Order
  BY DEF IInv, MirrorFollows, InStep, TypeOK
<1>2. /\ IsFiniteSet(Loaded) /\ Cardinality(Loaded) \in Nat
      /\ margin = LockedMargin /\ available >= 0
  BY <1>1, OpenIsFinite
  DEF IInv, MarginBacksOpenRows, NeverNegative, LockedMargin
<1> DEFINE f == [k \in Loaded |-> Net(k, mirror[k])]
           g == [k \in Loaded |-> Profit(k, mirror[k])]
<1>3. \A k \in Loaded : /\ f[k] \in Int /\ g[k] \in Int
                        /\ f[k] <= g[k]
  <2> SUFFICES ASSUME NEW k \in Loaded
               PROVE  /\ f[k] \in Int /\ g[k] \in Int
                      /\ f[k] <= g[k]
    OBVIOUS
  <2>1. Profit(k, mirror[k]) \in Int
    BY <1>1, ProfitType DEF TypeOK
  <2> QED
    BY <2>1, MoneyAssumption DEF Net
<1>4. NetFloating = SumOver(f, Loaded) /\ Floating = SumOver(g, Loaded)
  BY SumOfFunction DEF NetFloating, Floating
<1> HIDE DEF f, g
<1>5. SumOver(f, Loaded) <= SumOver(g, Loaded)
  BY <1>2, <1>3, SumMonotonic
<1>6. SumOver(f, Loaded) \in Int /\ SumOver(g, Loaded) \in Int
  BY <1>2, <1>3, SumType
<1>7. LockedMargin \in Int /\ available \in Int
  BY <1>1, <1>2 DEF TypeOK
<1> QED
  BY <1>2, <1>4, <1>5, <1>6, <1>7 DEF Safe, BelowStopOut, Equity

(***************************************************************************)
(* Whatever the rates, volumes of orders and profits, a pass that ends     *)
(* without a close, also by the cheap gate of nine passes in ten, leaves   *)
(* an account at or above the stop-out level.                              *)
(***************************************************************************)
THEOREM StopOut == Spec => StopOutEnforced
<1>1. IInv /\ [Next]_vars =>
        [ tick # "saving" /\ tick' = "saving" /\ job = Free /\ ~ lost
            => ~ BelowStopOut ]_vars
  <2> SUFFICES ASSUME IInv, Next, tick # "saving", tick' = "saving",
                      job = Free, ~ lost
               PROVE  ~ BelowStopOut
    OBVIOUS
  <2>1. CASE TickGate
    <3>1. Safe
      BY <2>1 DEF TickGate
    <3> QED
      BY <3>1, GateIsSafe
  <2>2. CASE StopOutEnds
    BY <2>2 DEF StopOutEnds
  <2>3. CASE JobStep
    BY <2>3
    DEF JobStep, OpenRefused, CloseFindsClosed, UpdateConflicts, Commit,
        UpdateMirror, At, Free
  <2>4. CASE \/ Request \/ Feed \/ FundsMove
             \/ \E k \in Order : TickCloses(k) \/ StopOutCloses(k)
    BY <2>4
    DEF Request, OpenBegin, CloseBegin, AdjustBegin, ProtectBegin, Feed,
        FundsMove, TickCloses, StopOutCloses
  <2>5. CASE \/ TickMarks \/ TickEnds \/ CheckpointBegins \/ Checkpoint
             \/ CheckpointFails \/ Crash
    BY <2>5
    DEF TickMarks, TickEnds, CheckpointBegins, Checkpoint, CheckpointFails,
        Crash
  <2>6. CASE CommitRefused \/ CommitAckLost
    BY <2>6 DEF CommitRefused, CommitAckLost
  <2> QED
    BY <2>1, <2>2, <2>3, <2>4, <2>5, <2>6 DEF Next, TickTakesLock, TickRuns
<1> QED
  BY Invariance, <1>1, PTL DEF Spec, StopOutEnforced
-----------------------------------------------------------------------------
(* Deadlock.                                                               *)

\* Among finitely many positions one has the worst result.
LEMMA WorstExists ==
  ASSUME TypeOK, Loaded # {}
  PROVE  \E k \in Loaded : Worst(k)
<1> DEFINE N(k) == Net(k, mirror[k])
           Good(s) == \E k \in s : \A j \in s : N(k) <= N(j)
           W == {s \in SUBSET Loaded : s # {} /\ ~ Good(s)}
<1>1. SUFFICES ASSUME W # {} PROVE FALSE
  BY DEF Worst
<1>2. \A s \in SUBSET Loaded : IsFiniteSet(s)
  BY OrderAssumption, FS_Subset DEF TypeOK
<1>3. \A k \in Loaded : N(k) \in Int
  BY MoneyAssumption, ProfitType DEF TypeOK, Net
<1>4. PICK s \in W : \A t \in W : Cardinality(s) <= Cardinality(t)
  BY <1>1, <1>2, SmallestSet
<1>5. s \in SUBSET Loaded /\ s # {} /\ ~ Good(s)
  BY <1>4
<1>6. PICK k \in s : TRUE
  BY <1>5
<1>7. s \ {k} \notin W
  <2>1. Cardinality(s \ {k}) = Cardinality(s) - 1 /\ Cardinality(s) \in Nat
    BY <1>2, <1>5, <1>6, FS_RemoveElement, FS_CardinalityType
  <2>2. ~ (Cardinality(s) <= Cardinality(s \ {k}))
    BY <2>1
  <2> HIDE DEF W
  <2> QED
    BY <1>4, <2>2
<1> HIDE DEF N
<1>8. CASE s \ {k} = {}
  <2>1. \A j \in s : j = k
    BY <1>8
  <2>2. N(k) \in Int
    BY <1>3, <1>5, <1>6
  <2> QED
    BY <1>5, <1>6, <2>1, <2>2
<1>9. CASE s \ {k} # {}
  <2>1. Good(s \ {k})
    BY <1>5, <1>7, <1>9
  <2>2. PICK m \in s \ {k} : \A j \in s \ {k} : N(m) <= N(j)
    BY <2>1
  <2>3. \A j \in s : N(j) \in Int
    BY <1>3, <1>5
  <2>4. CASE N(k) <= N(m)
    <3>1. \A j \in s : N(k) <= N(j)
      BY <1>6, <2>2, <2>3, <2>4
    <3> QED
      BY <1>5, <1>6, <3>1
  <2>5. CASE ~ (N(k) <= N(m))
    <3>1. \A j \in s : N(m) <= N(j)
      BY <1>6, <2>2, <2>3, <2>5
    <3> QED
      BY <1>5, <3>1
  <2> QED
    BY <2>4, <2>5
<1> QED
  BY <1>8, <1>9

\* The stop-out pass stays where it is while it holds the lock, and only it
\* keeps the lock between two jobs.
InPlace ==
  /\ job.kind = "stopOut" => tick = "stopOut"
  /\ job # Free /\ job.step = "check" => job.kind = "stopOut"

\* Every step leaves it there.
LEMMA StepKeepsPlace ==
  ASSUME TypeOK, InPlace, [Next]_vars
  PROVE  InPlace'
<1> USE DEF InPlace
<1>1. ASSUME NEW kind, NEW step, NEW k, NEW p, job' = Doing(kind, step, k, p)
      PROVE  job'.kind = kind /\ job'.step = step
  BY <1>1 DEF Doing
<1>2. Free.kind = "free"
  BY DEF Free
<1>3. CASE Request
  <2>1. /\ job'.kind \in {"open", "close", "adjust", "protect"}
        /\ job'.step = "commit"
    BY <1>1, <1>3
    DEF Request, OpenBegin, CloseBegin, AdjustBegin, ProtectBegin
  <2> QED
    BY <2>1
<1>4. CASE OpenRefused \/ CloseFindsClosed \/ UpdateConflicts
  BY <1>2, <1>4 DEF OpenRefused, CloseFindsClosed, UpdateConflicts
<1>5. CASE Commit
  <2>1. job'.kind = job.kind /\ job'.step = "mirror" /\ tick' = tick
    BY <1>5 DEF Commit, TypeOK, Job
  <2> QED
    BY <1>5, <2>1 DEF Commit
<1>6. CASE UpdateMirror
  <2>1. tick' = tick
    BY <1>6 DEF UpdateMirror
  <2>2. CASE job.kind = "stopOut"
    <3>1. job'.kind = job.kind
      BY <1>6, <2>2 DEF UpdateMirror, TypeOK, Job
    <3> QED
      BY <2>1, <2>2, <3>1
  <2>3. CASE job.kind # "stopOut"
    BY <1>2, <1>6, <2>3 DEF UpdateMirror
  <2> QED
    BY <2>2, <2>3
<1>7. ASSUME NEW k \in Order, TickCloses(k) \/ StopOutCloses(k)
      PROVE  InPlace'
  <2>1. CASE TickCloses(k)
    <3>1. \/ job' = Free
          \/ job' = Doing("due", "commit", k, mirror[k])
      BY <2>1 DEF TickCloses
    <3> QED
      BY <1>1, <1>2, <3>1
  <2>2. CASE StopOutCloses(k)
    <3>1. /\ tick' = "stopOut"
          /\ job' = Doing("stopOut", "commit", k,
                          [mirror[k] EXCEPT !.mark = rate])
      BY <2>2 DEF StopOutCloses
    <3> QED
      BY <1>1, <3>1
  <2> QED
    BY <1>7, <2>1, <2>2
<1>8. CASE StopOutEnds \/ CommitRefused \/ CommitAckLost \/ Crash
  BY <1>2, <1>8 DEF StopOutEnds, CommitRefused, CommitAckLost, Abort, Crash
<1>9. CASE TickRuns
  <2>1. job' = job /\ (job.kind = "stopOut" => FALSE)
    BY <1>9
    DEF TickRuns, TickMarks, TickGate, TickEnds, CheckpointBegins,
        Checkpoint, CheckpointFails
  <2> QED
    BY <2>1
<1>10. CASE Feed \/ FundsMove \/ UNCHANGED vars
  BY <1>10 DEF Feed, FundsMove, vars
<1>11. CASE TickTakesLock
  BY <1>7, <1>8, <1>11 DEF TickTakesLock
<1>12. CASE JobStep
  BY <1>4, <1>5, <1>6, <1>12 DEF JobStep
<1> QED
  BY <1>3, <1>8, <1>9, <1>10, <1>11, <1>12 DEF Next

\* So it is always there.
LEMMA PlaceKept == Spec => []InPlace
<1>1. Init => InPlace
  BY DEF Init, InPlace, Free
<1> QED
  BY Typing, <1>1, StepKeepsPlace, PTL DEF Spec

\* The guards of the steps of a job and of a pass.  A job at its commit is
\* carried out or refused, as the row and the balance are.
JobGoesOn == job # Free /\ job.step \in {"commit", "mirror"}
PassGoesOn ==
  \/ tick \in {"idle", "saving", "writing"}
  \/ /\ tick = "closing"
     /\ IF due = {} THEN job.kind \notin {"due", "stopOut"} ELSE job = Free
  \/ /\ tick = "stopOut"
     /\ job = Free \/ At("stopOut", "check")
     /\ BelowStopOut => \E k \in Loaded : Worst(k)
\* One of the two can go on.
NeverFrozen == JobGoesOn \/ PassGoesOn

(***************************************************************************)
(* The engine never freezes, for any orders, rates and failures: a         *)
(* mutation that holds the lock can go on, or else the market pass can,    *)
(* and a stop-out pass below the level finds a position to close.          *)
(***************************************************************************)
THEOREM NoDeadlock == Spec => []NeverFrozen
<1>1. TypeOK /\ InPlace => NeverFrozen
  <2> SUFFICES ASSUME TypeOK, InPlace, ~ JobGoesOn
               PROVE  PassGoesOn
    BY DEF NeverFrozen
  <2>1. \/ job = Free
        \/ At("stopOut", "check") /\ tick = "stopOut"
    BY DEF JobGoesOn, InPlace, At, TypeOK, Job
  <2>2. job = Free => job.kind = "free"
    BY DEF Free
  <2>3. BelowStopOut => \E k \in Loaded : Worst(k)
    <3> SUFFICES ASSUME BelowStopOut PROVE Loaded # {}
      BY WorstExists
    <3>1. Cardinality({}) = 0 /\ Margin * 0 = 0
      BY FS_EmptySet, MoneyAssumption
    <3> QED
      BY <3>1 DEF BelowStopOut, LockedMargin
  <2>4. tick \in {"idle", "closing", "stopOut", "saving", "writing"}
    BY DEF TypeOK
  <2> QED
    BY <2>1, <2>2, <2>3, <2>4 DEF PassGoesOn
<1> QED
  BY Typing, PlaceKept, <1>1, PTL

-----------------------------------------------------------------------------
(* What is not in memory.                                                  *)

(***************************************************************************)
(* Unless an acknowledgement was lost, the only open row that is not in    *)
(* memory is the one whose opening has committed and is about to enter it. *)
(***************************************************************************)
Mirrored ==
  ~ lost => Open \ Loaded \subseteq
              (IF At("open", "mirror") THEN {job.order} ELSE {})

(***************************************************************************)
(* Only a lost acknowledgement keeps an open position out of memory, where *)
(* alone it is marked, protected and stopped out.                          *)
(***************************************************************************)
THEOREM OnlyLostAcksHide == Spec => []Mirrored
<1>1. IInv => Mirrored
  <2> SUFFICES ASSUME IInv, ~ lost, NEW k \in Open \ Loaded
               PROVE  At("open", "mirror") /\ k = job.order
    BY DEF Mirrored
  <2>1. job # Free /\ job.step = "mirror" /\ OneBehind
    BY DEF IInv, MirrorFollows, InStep
  <2>2. k = job.order
    BY <2>1 DEF OneBehind, Open
  <2>3. job.kind \in {"open", "adjust", "protect"}
    BY <2>1, <2>2 DEF OneBehind
  <2> QED
    BY <2>1, <2>2, <2>3 DEF IInv, ProtectsLoaded, At
<1> QED
  BY Invariance, <1>1, PTL
=============================================================================
