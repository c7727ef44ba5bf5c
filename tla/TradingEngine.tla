---------------------------- MODULE TradingEngine ----------------------------
(***************************************************************************)
(* The position engine of apps/trade/src/server/engine/hub.ts for one      *)
(* user.  Open positions live twice: as rows in PostgreSQL and as objects  *)
(* in the memory of the process.  The user's mutations hold his lock       *)
(* (module KeyedMutex) and have three parts: what they capture from        *)
(* memory, one transaction, and the update of memory.  The market feed,    *)
(* the marks and the checkpoint of a tick, and the payment desk do not     *)
(* take the lock and run between the parts.  The process may crash.        *)
(*                                                                         *)
(* Of the data only the money is kept: a position has unit volume, swap    *)
(* is part of its profit, the dealer's percentage is 0, and a stop loss    *)
(* stands for the three triggers of markPosition.                          *)
(***************************************************************************)
EXTENDS Integers, FiniteSets, Functions, FiniteSetsExt

CONSTANTS
  Order,        \* orders of the user by idempotency key; each is at most one
                \* position
  Direction,    \* [Order -> {1, -1}]: BUY or SELL
  Rate,         \* the market rates
  Markup,       \* spread markup of the user, in the unit of the rates
  Stop, NoStop, \* the stop-loss levels he may choose
  Margin, Commission,      \* of one position
  Sent,         \* the requests sent: [kind, order, level], where the level
                \* is a stop loss, or the profit a dealer sets
  Funding,      \* the totals paid in between which the payment desk moves
  MaxFailures   \* bound on crashes, failed transactions and settings
                \* that cannot be read

ASSUME OrderAssumption ==
  /\ Direction \in [Order -> {1, -1}]
  /\ IsFiniteSet(Order)
ASSUME MoneyAssumption ==
  /\ Rate \subseteq Int /\ Stop \subseteq Int /\ NoStop \notin Int
  /\ Margin \in Nat \ {0} /\ Commission \in Nat /\ Markup \in Nat
  /\ Funding \subseteq Nat
ASSUME SentAssumption ==
  Sent \subseteq
    [kind: {"open", "protect"}, order: Order, level: Stop \cup {NoStop}]
    \cup [kind: {"adjust"}, order: Order, level: Int]
    \cup [kind: {"close"}, order: Order, level: {0}]
ASSUME BoundAssumption == MaxFailures \in Nat

VARIABLES
  rate,       \* the executable market rate
  \* PostgreSQL
  status,     \* Position.status, or NONE
  saved,      \* the Position rows
  booked,     \* TRADING_PNL posted for a position when it closed
  cover,      \* NEGATIVE_BALANCE_PROTECTION posted for it
  available, margin,       \* the two ledger buckets
  funded,     \* deposits minus withdrawals so far
  \* the process
  mirror,     \* openPositions: a function on the loaded positions
  job,        \* the mutation that holds the lock
  tick,       \* where the market pass is
  due,        \* closeRequests of this pass
  snapshot,   \* the marks a checkpoint is about to write
  failures,   \* how many of these there were
  lost        \* was a commit reported as failed since the process started?

money == <<available, margin, funded>>
rows == <<status, saved, booked, cover>>
health == <<failures, lost>>
vars == <<rate, rows, money, mirror, job, tick, due, snapshot, health>>

Position == [entry: Int, mark: Int, adjustment: Int, stop: Stop \cup {NoStop}]
Blank == [entry |-> 0, mark |-> 0, adjustment |-> 0, stop |-> NoStop]
Free == [kind |-> "free"]
Job == {Free} \cup
  [kind: {"open", "close", "due", "stopOut", "adjust", "protect"},
   step: {"check", "commit", "mirror"}, order: Order, position: Position]

\* What "kind" does to order k: it will write position p.
Doing(kind, step, k, p) ==
  [kind |-> kind, step |-> step, order |-> k, position |-> p]
At(kind, step) == job.kind = kind /\ job.step = step

Loaded == DOMAIN mirror
Open == {k \in Order : status[k] = "OPEN"}
Existing == {k \in Order : status[k] # "NONE"}

-----------------------------------------------------------------------------
(* positionEngine.ts                                                       *)

\* The rate a position would close at, worse by the markup.
MarkRate(k) == rate - Direction[k] * Markup

Profit(k, p) == Direction[k] * (p.mark - p.entry) + p.adjustment
Net(k, p) == Profit(k, p) - Commission

Hit(k, p) ==
  p.stop # NoStop /\ Direction[k] * p.mark <= Direction[k] * p.stop

\* protectionLevelError
StopAllowed(k, stop, reference) ==
  stop # NoStop => Direction[k] * stop < Direction[k] * reference

\* computeMetrics over the positions in memory.
Floating == SumFunction([k \in Loaded |-> Profit(k, mirror[k])])
NetFloating == SumFunction([k \in Loaded |-> Net(k, mirror[k])])
LockedMargin == Margin * Cardinality(Loaded)
Equity == available + margin + Floating
BelowStopOut == LockedMargin > 0 /\ 2 * Equity < LockedMargin

-----------------------------------------------------------------------------

Init ==
  /\ rate \in Rate
  /\ status = [k \in Order |-> "NONE"]
  /\ saved = [k \in Order |-> Blank]
  /\ booked = [k \in Order |-> 0]
  /\ cover = [k \in Order |-> 0]
  /\ funded \in Funding /\ available = funded /\ margin = 0
  /\ mirror = <<>>
  /\ job = Free
  /\ tick = "idle"
  /\ due = {}
  /\ snapshot = <<>>
  /\ failures = 0 /\ lost = FALSE

Put(k, p) == [j \in Loaded \cup {k} |-> IF j = k THEN p ELSE mirror[j]]
Drop(k) == Restrict(mirror, Loaded \ {k})

-----------------------------------------------------------------------------
(* openPositionReq.  The admission checks that only refuse (settings,      *)
(* limits, block, age of the quote) are left out.  A replay is answered    *)
(* and changes nothing; the replay looked for again in the transaction     *)
(* cannot be new, since the lock is held.                                  *)

OpenBegin(k, stop) ==
  LET entry == rate + Direction[k] * Markup
  IN /\ job = Free
     /\ status[k] = "NONE"
     /\ StopAllowed(k, stop, entry)
     /\ job' = Doing("open", "commit", k,
                     [entry |-> entry, mark |-> MarkRate(k),
                      adjustment |-> 0, stop |-> stop])
     /\ UNCHANGED <<rate, rows, money, mirror, tick, due, snapshot, health>>

\* Defect: the commission is not part of the cash an order requires.
AffordsMargin == available >= Margin

Affords == available >= Margin + Commission

OpenRefused ==
  /\ At("open", "commit") /\ ~ Affords
  /\ job' = Free
  /\ UNCHANGED <<rate, rows, money, mirror, tick, due, snapshot, health>>

\* What the transactions write.
WriteOpen(k, p) ==
  /\ status' = [status EXCEPT ![k] = "OPEN"]
  /\ saved' = [saved EXCEPT ![k] = p]
  /\ available' = available - Margin - Commission
  /\ margin' = margin + Margin
  /\ UNCHANGED <<booked, cover, funded>>

-----------------------------------------------------------------------------
(* closePositionReq and adminClosePosition: mark without the markup, then  *)
(* closePositionInternal with what is in memory at that time.              *)

CloseBegin(k) ==
  /\ job = Free /\ k \in Loaded
  /\ LET p == [mirror[k] EXCEPT !.mark = rate]
     IN /\ mirror' = Put(k, p)
        /\ job' = Doing("close", "commit", k, p)
  /\ UNCHANGED <<rate, rows, money, tick, due, snapshot, health>>

\* Defect: the margin stays reserved.
WriteCloseKeepsMargin(k, p) ==
  LET left == available + Profit(k, p)
  IN /\ status' = [status EXCEPT ![k] = "CLOSED"]
     /\ saved' = [saved EXCEPT ![k] = [@ EXCEPT !.mark = p.mark]]
     /\ booked' = [booked EXCEPT ![k] = Profit(k, p)]
     /\ cover' = [cover EXCEPT ![k] = IF left < 0 THEN - left ELSE 0]
     /\ available' = IF left < 0 THEN 0 ELSE left
     /\ UNCHANGED <<margin, funded>>

\* Release the margin, book the profit, raise a negative balance to zero.
\* The row keeps the adjustment of its last checkpoint.
WriteClose(k, p) ==
  LET left == available + Margin + Profit(k, p)
  IN /\ status' = [status EXCEPT ![k] = "CLOSED"]
     /\ saved' = [saved EXCEPT ![k] = [@ EXCEPT !.mark = p.mark]]
     /\ booked' = [booked EXCEPT ![k] = Profit(k, p)]
     /\ cover' = [cover EXCEPT ![k] = IF left < 0 THEN - left ELSE 0]
     /\ margin' = margin - Margin
     /\ available' = IF left < 0 THEN 0 ELSE left
     /\ UNCHANGED funded

\* The row is closed already: only the stale object in memory goes.
CloseFindsClosed ==
  /\ job.kind \in {"close", "due", "stopOut"} /\ job.step = "commit"
  /\ status[job.order] # "OPEN"
  /\ mirror' = Drop(job.order)
  /\ job' = Free
  /\ tick' = IF job.kind = "stopOut" THEN "saving" ELSE tick
  /\ UNCHANGED <<rate, rows, money, due, snapshot, health>>

-----------------------------------------------------------------------------
(* adminAdjustPositionPnl and updatePositionProtectionReq                  *)

AdjustBegin(k, target) ==
  /\ job = Free /\ k \in Loaded
  /\ LET p == mirror[k]
         unadjusted == Profit(k, p) - p.adjustment
     IN job' = Doing("adjust", "commit", k,
                     [p EXCEPT !.adjustment = target - unadjusted])
  /\ UNCHANGED <<rate, rows, money, mirror, tick, due, snapshot, health>>

WriteAdjust(k, p) ==
  /\ saved' = [saved EXCEPT ![k] = [@ EXCEPT !.adjustment = p.adjustment,
                                              !.mark = p.mark]]
  /\ UNCHANGED <<status, booked, cover, money>>

\* Defect: memory changes first; a refused transaction leaves it changed.
ProtectEarly(k, stop) ==
  /\ job = Free /\ k \in Loaded
  /\ StopAllowed(k, stop, MarkRate(k))
  /\ mirror' = Put(k, [mirror[k] EXCEPT !.stop = stop])
  /\ job' = Doing("protect", "commit", k, mirror'[k])
  /\ UNCHANGED <<rate, rows, money, tick, due, snapshot, health>>

ProtectBegin(k, stop) ==
  /\ job = Free /\ k \in Loaded
  /\ StopAllowed(k, stop, MarkRate(k))
  /\ job' = Doing("protect", "commit", k, [mirror[k] EXCEPT !.stop = stop])
  /\ UNCHANGED <<rate, rows, money, mirror, tick, due, snapshot, health>>

WriteProtect(k, p) ==
  /\ saved' = [saved EXCEPT ![k] = [@ EXCEPT !.stop = p.stop]]
  /\ UNCHANGED <<status, booked, cover, money>>

\* updateMany found no OPEN row.
UpdateConflicts ==
  /\ job.kind \in {"adjust", "protect"} /\ job.step = "commit"
  /\ status[job.order] # "OPEN"
  /\ job' = Free
  /\ UNCHANGED <<rate, rows, money, mirror, tick, due, snapshot, health>>

-----------------------------------------------------------------------------
(* The transaction of a job: its effect on the database, then on memory.   *)

\* Defect: a close writes to its row whatever the status.
WriteAnyStatus ==
  LET k == job.order
      p == job.position
  IN CASE job.kind = "open" -> Affords /\ WriteOpen(k, p)
       [] job.kind = "adjust" -> status[k] = "OPEN" /\ WriteAdjust(k, p)
       [] job.kind = "protect" -> status[k] = "OPEN" /\ WriteProtect(k, p)
       [] OTHER -> WriteClose(k, p)

Write ==
  LET k == job.order
      p == job.position
  IN CASE job.kind = "open" -> Affords /\ WriteOpen(k, p)
       [] job.kind = "adjust" -> status[k] = "OPEN" /\ WriteAdjust(k, p)
       [] job.kind = "protect" -> status[k] = "OPEN" /\ WriteProtect(k, p)
       [] OTHER -> status[k] = "OPEN" /\ WriteClose(k, p)

Commit ==
  /\ job # Free /\ job.step = "commit"
  /\ Write
  /\ job' = [job EXCEPT !.step = "mirror"]
  /\ UNCHANGED <<rate, mirror, tick, due, snapshot, health>>

\* After a stop-out close the loop looks at the account again, lock in hand.
UpdateMirror ==
  /\ job # Free /\ job.step = "mirror"
  /\ LET k == job.order
     IN mirror' =
          CASE job.kind \in {"open", "adjust"} -> Put(k, job.position)
            [] job.kind = "protect" ->
                 Put(k, [mirror[k] EXCEPT !.stop = job.position.stop])
            [] OTHER -> Drop(k)
  /\ job' = IF job.kind = "stopOut" THEN [job EXCEPT !.step = "check"]
                                    ELSE Free
  /\ UNCHANGED <<rate, rows, money, tick, due, snapshot, health>>

\* Defect: an error leaves tickRunning set.
AbortKeepsTickRunning ==
  /\ failures < MaxFailures
  /\ failures' = failures + 1
  /\ job' = Free
  /\ due' = IF job.kind \in {"due", "stopOut"} THEN {} ELSE due
  /\ tick' = IF job.kind \in {"due", "stopOut"} THEN "stuck" ELSE tick
  /\ UNCHANGED <<rate, mirror, snapshot>>

\* The transaction throws: the job ends; a tick gives up the whole pass.
Abort ==
  /\ failures < MaxFailures
  /\ failures' = failures + 1
  /\ job' = Free
  /\ due' = IF job.kind \in {"due", "stopOut"} THEN {} ELSE due
  /\ tick' = IF job.kind \in {"due", "stopOut"} THEN "idle" ELSE tick
  /\ UNCHANGED <<rate, mirror, snapshot>>

CommitRefused ==
  /\ job # Free /\ job.step = "commit"
  /\ Abort
  /\ UNCHANGED <<rows, money, lost>>

\* The connection fails after PostgreSQL committed.
CommitAckLost ==
  /\ job # Free /\ job.step = "commit"
  /\ Write
  /\ lost' = TRUE
  /\ Abort

-----------------------------------------------------------------------------
(* tickAll: one pass at a time.                                            *)

Feed ==
  /\ rate' \in Rate
  /\ UNCHANGED <<rows, money, mirror, job, tick, due, snapshot, health>>

\* markOpenPositions, which does not take the lock.  When the settings of the
\* user cannot be read, the markup is left out.
TickMarks ==
  /\ tick = "idle"
  /\ \/ /\ mirror' = [k \in Loaded |-> [mirror[k] EXCEPT !.mark = MarkRate(k)]]
        /\ UNCHANGED failures
     \/ /\ failures < MaxFailures /\ failures' = failures + 1
        /\ mirror' = [k \in Loaded |-> [mirror[k] EXCEPT !.mark = rate]]
  /\ due' = {k \in Loaded : Hit(k, mirror'[k])}
  /\ tick' = "closing"
  /\ UNCHANGED <<rate, rows, money, job, snapshot, lost>>

\* The request is carried out with the mark of that time, and not checked
\* against it again.
TickCloses(k) ==
  /\ tick = "closing" /\ k \in due /\ job = Free
  /\ due' = due \ {k}
  /\ job' = IF k \in Loaded THEN Doing("due", "commit", k, mirror[k]) ELSE Free
  /\ UNCHANGED <<rate, rows, money, mirror, tick, snapshot, health>>

\* Defect: the gate forgets the stop-out level.
SafeAtFullMargin ==
  /\ LockedMargin # 0
  /\ NetFloating >= - LockedMargin

\* The gate that spares an account the check: its balance covers its margin.
Safe ==
  /\ LockedMargin # 0
  /\ 2 * NetFloating >= - LockedMargin

\* Every tenth pass ignores the gate.
TickGate ==
  /\ tick = "closing" /\ due = {} /\ job.kind \notin {"due", "stopOut"}
  /\ \/ tick' = "stopOut"
     \/ Safe /\ tick' = "saving"
  /\ UNCHANGED <<rate, rows, money, mirror, job, due, snapshot, health>>

Worst(k) == \A j \in Loaded : Net(k, mirror[k]) <= Net(j, mirror[j])

StopOutCloses(k) ==
  /\ tick = "stopOut"
  /\ job = Free \/ At("stopOut", "check")
  /\ BelowStopOut /\ k \in Loaded /\ Worst(k)
  /\ LET p == [mirror[k] EXCEPT !.mark = rate]
     IN /\ mirror' = Put(k, p)
        /\ job' = Doing("stopOut", "commit", k, p)
  /\ UNCHANGED <<rate, rows, money, tick, due, snapshot, health>>

StopOutEnds ==
  /\ tick = "stopOut"
  /\ job = Free \/ At("stopOut", "check")
  /\ ~ BelowStopOut
  /\ job' = Free
  /\ tick' = "saving"
  /\ UNCHANGED <<rate, rows, money, mirror, due, snapshot, health>>

\* Not every pass ends with a checkpoint.
TickEnds ==
  /\ tick = "saving"
  /\ tick' = "idle"
  /\ UNCHANGED <<rate, rows, money, mirror, job, due, snapshot, health>>

CheckpointBegins ==
  /\ tick = "saving"
  /\ snapshot' = mirror
  /\ tick' = "writing"
  /\ UNCHANGED <<rate, rows, money, mirror, job, due, health>>

\* Defect: rows are written whatever their status.
CheckpointAll ==
  /\ tick = "writing"
  /\ saved' = [k \in Order |->
       IF k \in DOMAIN snapshot
       THEN [saved[k] EXCEPT !.mark = snapshot[k].mark,
                             !.adjustment = snapshot[k].adjustment]
       ELSE saved[k]]
  /\ snapshot' = <<>>
  /\ tick' = "idle"
  /\ UNCHANGED <<rate, status, booked, cover, money, mirror, job, due,
                 health>>

\* persistOpenPositions writes what it copied, over what was written since.
Checkpoint ==
  /\ tick = "writing"
  /\ saved' = [k \in Order |->
       IF k \in Open \cap DOMAIN snapshot
       THEN [saved[k] EXCEPT !.mark = snapshot[k].mark,
                             !.adjustment = snapshot[k].adjustment]
       ELSE saved[k]]
  /\ snapshot' = <<>>
  /\ tick' = "idle"
  /\ UNCHANGED <<rate, status, booked, cover, money, mirror, job, due,
                 health>>

\* Its transaction fails for good: the batch waits for the next checkpoint.
CheckpointFails ==
  /\ tick = "writing"
  /\ snapshot' = <<>>
  /\ tick' = "idle"
  /\ UNCHANGED <<rate, rows, money, mirror, job, due, health>>

-----------------------------------------------------------------------------

\* The payment desk settles a deposit or reserves a withdrawal.
FundsMove ==
  /\ funded' \in Funding
  /\ available' = available + funded' - funded
  /\ available' >= 0
  /\ UNCHANGED <<rate, rows, margin, mirror, job, tick, due, snapshot,
                 health>>

\* The process dies; initialize loads the open rows.
Crash ==
  /\ failures < MaxFailures
  /\ failures' = failures + 1
  /\ mirror' = Restrict(saved, Open)
  /\ job' = Free
  /\ tick' = "idle"
  /\ due' = {}
  /\ snapshot' = <<>>
  /\ lost' = FALSE
  /\ UNCHANGED <<rate, rows, money>>

Request ==
  \E r \in Sent :
    \/ r.kind = "open" /\ OpenBegin(r.order, r.level)
    \/ r.kind = "close" /\ CloseBegin(r.order)
    \/ r.kind = "adjust" /\ AdjustBegin(r.order, r.level)
    \/ r.kind = "protect" /\ ProtectBegin(r.order, r.level)

JobStep ==
  \/ OpenRefused \/ CloseFindsClosed \/ UpdateConflicts
  \/ Commit \/ UpdateMirror

TickTakesLock ==
  \/ \E k \in Order : TickCloses(k) \/ StopOutCloses(k)
  \/ StopOutEnds
TickRuns ==
  TickMarks \/ TickGate \/ TickEnds \/ CheckpointBegins \/ Checkpoint
  \/ CheckpointFails

Next ==
  \/ Request \/ JobStep \/ TickTakesLock \/ TickRuns
  \/ CommitRefused \/ CommitAckLost
  \/ Feed \/ FundsMove \/ Crash

Spec == Init /\ [][Next]_vars

\* The interval timer keeps ticking, a transaction ends, and the lock is
\* first come, first served (KeyedMutex!Fifo).
FairSpec ==
  Spec /\ WF_vars(JobStep) /\ WF_vars(TickRuns) /\ SF_vars(TickTakesLock)
-----------------------------------------------------------------------------

TypeOK ==
  /\ rate \in Rate
  /\ status \in [Order -> {"NONE", "OPEN", "CLOSED"}]
  /\ saved \in [Order -> Position]
  /\ booked \in [Order -> Int] /\ cover \in [Order -> Nat]
  /\ available \in Int /\ margin \in Int /\ funded \in Int
  /\ Loaded \subseteq Order /\ mirror \in [Loaded -> Position]
  /\ job \in Job
  /\ tick \in {"idle", "closing", "stopOut", "saving", "writing"}
  /\ due \subseteq Order
  /\ DOMAIN snapshot \subseteq Order
  /\ snapshot \in [DOMAIN snapshot -> Position]
  /\ failures \in 0..MaxFailures
  /\ lost \in BOOLEAN

(***************************************************************************)
(* Every position is settled exactly once: the account is what was paid    *)
(* in, less a commission per order, plus the profit and the cover that the *)
(* model remembers of each order's one close, also when a close is tried   *)
(* again after its acknowledgement was lost.                               *)
(***************************************************************************)
SettledOnce ==
  available + margin =
    funded - Commission * Cardinality(Existing)
           + SumFunction([k \in Order |-> booked[k] + cover[k]])

(***************************************************************************)
(* The margin bucket backs exactly the open rows, through failed commits,  *)
(* stale objects in memory and restarts.                                   *)
(***************************************************************************)
MarginBacksOpenRows == margin = Margin * Cardinality(Open)

(***************************************************************************)
(* The free funds never go below zero, so the balance always covers the    *)
(* margin: what the gate of the stop-out pass assumes.                     *)
(***************************************************************************)
NeverNegative == available >= 0

(***************************************************************************)
(* While no mutation is in progress and no acknowledgement was lost,       *)
(* memory holds exactly the open positions, each with the stop loss that   *)
(* its row has: a restart changes no protection.                           *)
(***************************************************************************)
ProtectionIsDurable ==
  job = Free /\ ~ lost =>
    /\ Loaded = Open
    /\ \A k \in Open : mirror[k].stop = saved[k].stop

(***************************************************************************)
(* hub.ts says that "open positions are mirrored in memory while           *)
(* PostgreSQL remains the durable source of truth": an open row gets into  *)
(* memory, where alone it is marked, protected and stopped out, unless it  *)
(* is closed first.                                                        *)
(***************************************************************************)
OpenRowsGetMirrored ==
  \A k \in Order : (k \in Open) ~> (k \in Loaded \/ k \notin Open)

(***************************************************************************)
(* A pass that leaves the account alone, by the gate or after the check,   *)
(* leaves it at or above the stop-out level, given the marks it holds.     *)
(***************************************************************************)
StopOutEnforced ==
  [][ tick # "saving" /\ tick' = "saving" /\ job = Free /\ ~ lost
        => ~ BelowStopOut ]_vars

(***************************************************************************)
(* A closed row is final: no checkpoint, adjustment, protection or second  *)
(* close writes to it.                                                     *)
(***************************************************************************)
ClosedRowsAreFinal ==
  [][ \A k \in Order :
        status[k] = "CLOSED" => /\ status'[k] = "CLOSED"
                                /\ saved'[k] = saved[k]
                                /\ booked'[k] = booked[k] ]_vars

(***************************************************************************)
(* A position whose stop loss stays hit is closed in the end, whatever     *)
(* requests, failed passes and restarts come between.                      *)
(***************************************************************************)
StopLossHonoured ==
  \A k \in Order :
    ~ <>[]( /\ k \in Open /\ ~ lost
            /\ Hit(k, [saved[k] EXCEPT !.mark = MarkRate(k)]) )
=============================================================================
