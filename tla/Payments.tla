------------------------------ MODULE Payments ------------------------------
(***************************************************************************)
(* The manual payment desk of apps/trade/src/server/payments.ts and the    *)
(* two wallet routes that open requests.  Every command is one database    *)
(* transaction under a request-level advisory lock, so it is one action;   *)
(* commands may be delivered again, in any order, long after they ran.     *)
(*                                                                         *)
(* A command whose key is already recorded for its request changes         *)
(* nothing (it is answered as a replay, or refused with 409 when its type  *)
(* or body differ): such a delivery is a stuttering step here.             *)
(***************************************************************************)
EXTENDS Integers, FiniteSets, FiniteSetsExt

CONSTANTS
  User,          \* customers; finance reviewers may be among them
  Actor,         \* everyone who can send a command
  Deposit, Withdrawal,   \* payment request ids, one per client reference
  Card,          \* the requests paid or refunded by card
  OwnerOf, Amount, DestinationOf,
  Command,       \* [type, req, actor, key, body]: the commands sent
  Opening,       \* [User -> Nat] available funds at the start
  Floating,      \* the open-position P/L values a withdrawal may meet
  MarginUnit,    \* the margin of one position
  DailyLimit, DailyCount,  \* velocity limits of withdrawalRiskHold
  Config,        \* the deployments: records [simple, strict]
  Contended,     \* bound: the commands whose commit may be refused,
  MaxAborts,     \* and how many times in all
  Nobody

Request == Deposit \cup Withdrawal
Destination == {DestinationOf[r] : r \in Withdrawal}
Cash == <<"SYSTEM", "CASH_CLEARING">>
Account == {Cash} \cup (User \X {"AVAILABLE", "MARGIN", "WITHDRAWAL_PENDING"})

ASSUME RequestAssumption ==
  /\ Deposit \cap Withdrawal = {} /\ IsFiniteSet(Request)
  /\ OwnerOf \in [Request -> User]
  /\ Amount \in [Request -> Nat \ {0}]
  /\ Opening \in [User -> Nat]
ASSUME CommandAssumption ==
  Command \subseteq [type: {"PREPARED", "APPROVED", "REJECTED", "CANCELLED",
                            "REVERSED", "RECONCILED"},
                     req: Request, actor: Actor, key: Nat, body: Nat]
ASSUME ConfigAssumption == Config \subseteq [simple: BOOLEAN, strict: BOOLEAN]
ASSUME NobodyAssumption == Nobody \notin Actor
ASSUME BoundAssumption == MaxAborts \in Nat /\ MarginUnit \in Nat
ASSUME LimitAssumption == DailyLimit \in Nat /\ DailyCount \in Nat

VARIABLES
  config,      \* SIMPLE_PAYMENT_APPROVAL, PAYMENT_REQUIRE_DUAL_FINANCE_REVIEW
  status,      \* PaymentRequest.status, or ABSENT
  preparedBy, reviewedBy,
  verdict,     \* reconciliationStatus
  proof,       \* does the request have a live CLEAN proof
  cooling,     \* [Destination -> its beneficiary cooling-off]
  events,      \* the commands recorded as PaymentEvent rows
  posted,      \* references of the posted ledger transactions
  balance,     \* [Account -> Int] credits minus debits
  blocked,     \* users with an unreleased WITHDRAW reconciliation block
  told,        \* [Request -> statuses announced to the CRM]
  aborts

recordVars == <<preparedBy, reviewedBy, verdict, proof>>
worldVars == <<config, cooling, blocked, aborts>>
vars == <<recordVars, worldVars, status, events, posted, balance, told>>

Live == {"PENDING", "AWAITING_APPROVAL"}
Status == Live \cup {"ABSENT", "APPROVED", "REJECTED", "CANCELLED", "REVERSED"}
Available(u) == <<u, "AVAILABLE">>
Margin(u) == <<u, "MARGIN">>
Pending(u) == <<u, "WITHDRAWAL_PENDING">>

Total(S) == MapThenSumSet(LAMBDA r : Amount[r], S)
Counted(u) ==
  {r \in Withdrawal : OwnerOf[r] = u /\ status[r] \in Live \cup {"APPROVED"}}

Init ==
  /\ config \in Config
  /\ status = [r \in Request |-> "ABSENT"]
  /\ preparedBy = [r \in Request |-> Nobody]
  /\ reviewedBy = [r \in Request |-> Nobody]
  /\ verdict = [r \in Request |-> "UNRECONCILED"]
  /\ proof = [r \in Request |-> FALSE]
  /\ cooling = [d \in Destination |-> "unseen"]
  /\ events = {}
  /\ posted = {}
  /\ balance = [a \in Account |->
       IF \E u \in User : a = Available(u) THEN Opening[a[1]] ELSE 0]
  /\ blocked = {}
  /\ told = [r \in Request |-> {}]
  /\ aborts = 0

-----------------------------------------------------------------------------
(* The ledger: one debit and one credit line, once per reference.          *)

Move(b, debit, credit, amount) ==
  [b EXCEPT ![debit] = @ - amount, ![credit] = @ + amount]

Post(reference, debit, credit, amount) ==
  /\ reference \notin posted
  /\ posted' = posted \cup {reference}
  /\ balance' = Move(balance, debit, credit, amount)

\* reverseLedgerTransaction: the original is posted, and reversed only once.
Reversals(kind) ==
  IF kind = "WITHDRAWAL_RESERVATION"
  THEN {"WITHDRAWAL_REJECTION", "WITHDRAWAL_CANCELLATION",
        "WITHDRAWAL_RESERVATION_REVERSAL"}
  ELSE {"PAYMENT_SETTLEMENT_REVERSAL"}
Reversible(kind, r) ==
  /\ <<kind, r>> \in posted
  /\ \A k \in Reversals(kind) : <<k, r>> \notin posted

\* Defect: the reservation stays when its request ends.
KeepReserved(c, reference) == Reversible("WITHDRAWAL_RESERVATION", c.req)
                              /\ UNCHANGED <<posted, balance>>

ReleaseReserved(c, reference) ==
  LET r == c.req
      u == OwnerOf[r]
  IN /\ Reversible("WITHDRAWAL_RESERVATION", r)
     /\ Post(<<reference, r>>, Pending(u), Available(u), Amount[r])

-----------------------------------------------------------------------------
(* The wallet routes.                                                      *)

SubmitDeposit(r) ==
  /\ status[r] = "ABSENT"
  /\ status' = [status EXCEPT ![r] = "PENDING"]
  /\ UNCHANGED <<recordVars, worldVars, events, posted, balance, told>>

\* Defect: requests still under review are left out of the velocity total.
ApprovedOnly(r) ==
  LET counted == {q \in Counted(OwnerOf[r]) : status[q] = "APPROVED"}
  IN /\ Cardinality(counted) < DailyCount
     /\ Total(counted) + Amount[r] <= DailyLimit

\* withdrawalRiskHold.  No request is more than a day old here.
WithinVelocity(r) ==
  LET counted == Counted(OwnerOf[r])
  IN /\ Cardinality(counted) < DailyCount
     /\ Total(counted) + Amount[r] <= DailyLimit

Withdrawable(r, floating) ==
  LET a == balance[Available(OwnerOf[r])]
  IN Amount[r] <= a /\ Amount[r] <= a + floating

\* A card withdrawal refunds a card with an approved deposit.
CardRefundAllowed(r) ==
  r \in Card => \E d \in Deposit \cap Card :
                  OwnerOf[d] = OwnerOf[r] /\ status[d] = "APPROVED"

SubmitWithdrawal(r) ==
  /\ status[r] = "ABSENT"
  /\ OwnerOf[r] \notin blocked
  /\ CardRefundAllowed(r)
  /\ WithinVelocity(r)
  /\ \E floating \in Floating : Withdrawable(r, floating)
  /\ Post(<<"WITHDRAWAL_RESERVATION", r>>,
          Available(OwnerOf[r]), Pending(OwnerOf[r]), Amount[r])
  /\ status' = [status EXCEPT ![r] = "PENDING"]
  /\ cooling' = [cooling EXCEPT ![DestinationOf[r]] =
                   IF @ = "unseen" THEN "running" ELSE @]
  /\ UNCHANGED <<recordVars, config, blocked, aborts, events, told>>

-----------------------------------------------------------------------------
(* Payment commands.                                                       *)

\* replayedCommand: no event of this request has the command's key.
Fresh(c) == \A e \in events : ~ (e.req = c.req /\ e.key = c.key)

Record(c, newStatus) ==
  /\ events' = events \cup {c}
  /\ status' = [status EXCEPT ![c.req] = newStatus]

Announce(c, what) ==
  told' = [told EXCEPT ![c.req] = @ \cup {what}]

CanPrepare(c) ==
  LET r == c.req
  IN /\ c.type = "PREPARED" /\ status[r] = "PENDING" /\ Fresh(c)
     /\ OwnerOf[r] # c.actor
     /\ r \in Deposit => r \in Card \/ proof[r]
     /\ r \in Withdrawal => /\ OwnerOf[r] \notin blocked
                            /\ cooling[DestinationOf[r]] = "over"

\* Defect: who prepared the request is not recorded.
PrepareAnonymously(c) ==
  /\ CanPrepare(c)
  /\ Record(c, "AWAITING_APPROVAL")
  /\ Announce(c, "review")
  /\ UNCHANGED <<recordVars, worldVars, posted, balance>>

\* Defect: the command key is stored where the maker belongs.
PrepareSwapsFields(c) ==
  /\ CanPrepare(c)
  /\ preparedBy' = [preparedBy EXCEPT ![c.req] = c.key]
  /\ Record(c, "AWAITING_APPROVAL")
  /\ Announce(c, "review")
  /\ UNCHANGED <<reviewedBy, verdict, proof, worldVars, posted, balance>>

Prepare(c) ==
  /\ CanPrepare(c)
  /\ preparedBy' = [preparedBy EXCEPT ![c.req] = c.actor]
  /\ Record(c, "AWAITING_APPROVAL")
  /\ Announce(c, "review")
  /\ UNCHANGED <<reviewedBy, verdict, proof, worldVars, posted, balance>>

Approvable == IF config.simple THEN Live ELSE {"AWAITING_APPROVAL"}

\* Defect: the block is looked up when a withdrawal is requested and prepared
\* only.
CanApproveBlocked(c) ==
  LET r == c.req
  IN /\ c.type = "APPROVED" /\ status[r] \in Approvable /\ Fresh(c)
     /\ config.strict => OwnerOf[r] # c.actor /\ preparedBy[r] # c.actor
     /\ r \in Withdrawal => balance[Pending(OwnerOf[r])] >= Amount[r]

CanApprove(c) ==
  LET r == c.req
  IN /\ c.type = "APPROVED" /\ status[r] \in Approvable /\ Fresh(c)
     /\ config.strict => OwnerOf[r] # c.actor /\ preparedBy[r] # c.actor
     /\ r \in Withdrawal => /\ OwnerOf[r] \notin blocked
                            /\ balance[Pending(OwnerOf[r])] >= Amount[r]

Settle(r) ==
  LET u == OwnerOf[r]
  IN IF r \in Deposit
     THEN Post(<<"PAYMENT_SETTLEMENT", r>>, Cash, Available(u), Amount[r])
     ELSE Post(<<"PAYMENT_SETTLEMENT", r>>, Pending(u), Cash, Amount[r])

Approve(c) ==
  /\ CanApprove(c)
  /\ Settle(c.req)
  /\ reviewedBy' = [reviewedBy EXCEPT ![c.req] = c.actor]
  /\ Record(c, "APPROVED")
  /\ Announce(c, "approved")
  /\ UNCHANGED <<preparedBy, verdict, proof, worldVars>>

\* Defect: an approved request may still be rejected.
CanRejectLate(c) ==
  c.type = "REJECTED" /\ status[c.req] \in Live \cup {"APPROVED"} /\ Fresh(c)

CanReject(c) == c.type = "REJECTED" /\ status[c.req] \in Live /\ Fresh(c)

Reject(c) ==
  /\ CanReject(c)
  /\ IF c.req \in Withdrawal
     THEN ReleaseReserved(c, "WITHDRAWAL_REJECTION")
     ELSE UNCHANGED <<posted, balance>>
  /\ reviewedBy' = [reviewedBy EXCEPT ![c.req] = c.actor]
  /\ Record(c, "REJECTED")
  /\ Announce(c, "rejected")
  /\ UNCHANGED <<preparedBy, verdict, proof, worldVars>>

Cancel(c) ==
  /\ c.type = "CANCELLED" /\ status[c.req] \in Live /\ Fresh(c)
  /\ OwnerOf[c.req] = c.actor
  /\ IF c.req \in Withdrawal
     THEN ReleaseReserved(c, "WITHDRAWAL_CANCELLATION")
     ELSE UNCHANGED <<posted, balance>>
  /\ proof' = [proof EXCEPT ![c.req] = FALSE]
  /\ Record(c, "CANCELLED")
  /\ UNCHANGED <<preparedBy, reviewedBy, verdict, worldVars, told>>

\* Defect: a deposit is taken back without looking at what is left of it.
CanReverseSpent(c) ==
  LET r == c.req
  IN /\ c.type = "REVERSED" /\ status[r] = "APPROVED" /\ Fresh(c)
     /\ OwnerOf[r] # c.actor /\ reviewedBy[r] # c.actor
     /\ Reversible("PAYMENT_SETTLEMENT", r)

CanReverse(c) ==
  LET r == c.req
  IN /\ c.type = "REVERSED" /\ status[r] = "APPROVED" /\ Fresh(c)
     /\ OwnerOf[r] # c.actor /\ reviewedBy[r] # c.actor
     /\ r \in Deposit => balance[Available(OwnerOf[r])] >= Amount[r]
     /\ Reversible("PAYMENT_SETTLEMENT", r)

\* For a withdrawal: cash to pending, then pending to available.
Unsettle(r) ==
  LET u == OwnerOf[r]
  IN IF r \in Deposit
     THEN Post(<<"PAYMENT_SETTLEMENT_REVERSAL", r>>,
               Available(u), Cash, Amount[r])
     ELSE /\ Reversible("WITHDRAWAL_RESERVATION", r)
          /\ posted' = posted \cup {<<"PAYMENT_SETTLEMENT_REVERSAL", r>>,
                                    <<"WITHDRAWAL_RESERVATION_REVERSAL", r>>}
          /\ balance' = Move(Move(balance, Cash, Pending(u), Amount[r]),
                             Pending(u), Available(u), Amount[r])

Reverse(c) ==
  /\ CanReverse(c)
  /\ Unsettle(c.req)
  /\ Record(c, "REVERSED")
  /\ UNCHANGED <<recordVars, worldVars, told>>

\* Defect: a delivery is not compared with the recorded commands.
ReconcileAgain(c) ==
  /\ c.type = "RECONCILED"
  /\ reviewedBy[c.req] # c.actor
  /\ status[c.req] \in {"APPROVED", "REVERSED"}
  /\ verdict' = [verdict EXCEPT ![c.req] =
                   IF c.body = Amount[c.req] THEN "MATCHED" ELSE "MISMATCHED"]
  /\ Record(c, status[c.req])
  /\ UNCHANGED <<preparedBy, reviewedBy, proof, worldVars, posted, balance,
                 told>>

\* May be repeated with a new key, whatever the verdict before.
Reconcile(c) ==
  /\ c.type = "RECONCILED" /\ Fresh(c)
  /\ status[c.req] \in {"APPROVED", "REVERSED"}
  /\ reviewedBy[c.req] # c.actor
  /\ verdict' = [verdict EXCEPT ![c.req] =
                   IF c.body = Amount[c.req] THEN "MATCHED" ELSE "MISMATCHED"]
  /\ Record(c, status[c.req])
  /\ UNCHANGED <<preparedBy, reviewedBy, proof, worldVars, posted, balance,
                 told>>

\* An attempt whose callback ran to its end, emitCrmEvent included, and whose
\* commit PostgreSQL then refused: everything is rolled back but the request
\* already sent to the CRM.  withSerializableRetry may run the command again.
AbortedAttempt(c) ==
  /\ c \in Contended /\ aborts < MaxAborts
  /\ aborts' = aborts + 1
  /\ \/ CanPrepare(c) /\ Announce(c, "review")
     \/ CanApprove(c) /\ Announce(c, "approved")
     \/ CanReject(c) /\ Announce(c, "rejected")
  /\ UNCHANGED <<recordVars, config, cooling, blocked, status, events, posted,
                 balance>>

-----------------------------------------------------------------------------
(* What happens around the desk.                                           *)

\* finalizePaymentProof.  The optional receipt of a card deposit decides
\* nothing, and once a request is prepared its proofs are not read again:
\* both are left out.
ProofCleared(r) ==
  /\ r \notin Card /\ status[r] = "PENDING" /\ ~ proof[r]
  /\ proof' = [proof EXCEPT ![r] = TRUE]
  /\ UNCHANGED <<preparedBy, reviewedBy, verdict, worldVars, status, events,
                 posted, balance, told>>

\* blockPaymentProof of a second, slower scan overwrites CLEAN.
ProofBlocked(r) ==
  /\ status[r] = "PENDING" /\ proof[r]
  /\ proof' = [proof EXCEPT ![r] = FALSE]
  /\ UNCHANGED <<preparedBy, reviewedBy, verdict, worldVars, status, events,
                 posted, balance, told>>

CoolingOffEnds(d) ==
  /\ cooling[d] = "running"
  /\ cooling' = [cooling EXCEPT ![d] = "over"]
  /\ UNCHANGED <<recordVars, config, blocked, aborts, status, events, posted,
                 balance, told>>

\* Reconciliation finds a critical discrepancy of the customer.
BlockOpens(u) ==
  /\ u \notin blocked
  /\ blocked' = blocked \cup {u}
  /\ UNCHANGED <<recordVars, config, cooling, aborts, status, events, posted,
                 balance, told>>

\* An administrator releases the block.
BlockReleased(u) ==
  /\ u \in blocked
  /\ blocked' = blocked \ {u}
  /\ UNCHANGED <<recordVars, config, cooling, aborts, status, events, posted,
                 balance, told>>

\* The engine reserves margin for a position, and releases it.  Commissions
\* and profits, which TradingEngine accounts for, are left out here.
MarginMoves(u, amount) ==
  /\ \/ /\ balance[Available(u)] >= amount
        /\ balance' = Move(balance, Available(u), Margin(u), amount)
     \/ /\ balance[Margin(u)] >= amount
        /\ balance' = Move(balance, Margin(u), Available(u), amount)
  /\ UNCHANGED <<recordVars, worldVars, status, events, posted, told>>

PaymentCommand(c) ==
  \/ Prepare(c) \/ Approve(c) \/ Reject(c) \/ Cancel(c)
  \/ Reverse(c) \/ Reconcile(c) \/ AbortedAttempt(c)

Next ==
  \/ \E r \in Deposit : SubmitDeposit(r) \/ ProofCleared(r) \/ ProofBlocked(r)
  \/ \E r \in Withdrawal : SubmitWithdrawal(r)
  \/ \E c \in Command : PaymentCommand(c)
  \/ \E d \in Destination : CoolingOffEnds(d)
  \/ \E u \in User :
       BlockOpens(u) \/ BlockReleased(u) \/ MarginMoves(u, MarginUnit)

Spec == Init /\ [][Next]_vars

-----------------------------------------------------------------------------

TypeOK ==
  /\ config \in Config
  /\ status \in [Request -> Status]
  /\ preparedBy \in [Request -> Actor \cup {Nobody}]
  /\ reviewedBy \in [Request -> Actor \cup {Nobody}]
  /\ verdict \in [Request -> {"UNRECONCILED", "MATCHED", "MISMATCHED"}]
  /\ proof \in [Request -> BOOLEAN]
  /\ cooling \in [Destination -> {"unseen", "running", "over"}]
  /\ events \subseteq Command
  /\ balance \in [Account -> Int]
  /\ blocked \subseteq User
  /\ told \in [Request -> SUBSET {"review", "approved", "rejected"}]
  /\ aborts \in 0..MaxAborts

(***************************************************************************)
(* No customer account is ever overdrawn, whatever the order in which      *)
(* withdrawals, trading, cancellations and reversals meet.                 *)
(***************************************************************************)
NoOverdraft == \A u \in User : /\ balance[Available(u)] >= 0
                               /\ balance[Margin(u)] >= 0

Of(u, S) == {r \in S : OwnerOf[r] = u}
Approved(S) == {r \in S : status[r] = "APPROVED"}
Holdings(u) == balance[Available(u)] + balance[Margin(u)] + balance[Pending(u)]

\* The pending bucket is shared: approvePayment only checks that it holds
\* enough.
PendingIsReserved ==
  \A u \in User :
    balance[Pending(u)] =
      Total({r \in Withdrawal : OwnerOf[r] = u /\ status[r] \in Live})

NoMoneyIsMade ==
  /\ \A u \in User :
       Holdings(u) = Opening[u] + Total(Approved(Of(u, Deposit)))
                                - Total(Approved(Of(u, Withdrawal)))
  /\ balance[Cash] = Total(Approved(Withdrawal)) - Total(Approved(Deposit))

\* The ledger refuses no step that the status of a request allows.
LedgerFollows ==
  \A r \in Request :
    /\ <<"PAYMENT_SETTLEMENT", r>> \in posted
         <=> status[r] \in {"APPROVED", "REVERSED"}
    /\ Reversible("PAYMENT_SETTLEMENT", r) <=> status[r] = "APPROVED"
    /\ r \in Withdrawal =>
         (Reversible("WITHDRAWAL_RESERVATION", r)
            <=> status[r] \in Live \cup {"APPROVED"})

(***************************************************************************)
(* The books say what the requests say: a customer's pending bucket is     *)
(* what his open withdrawals ask for, his holdings and the cash account    *)
(* differ from the start by just what is approved and not reversed, and    *)
(* the ledger can settle, release or return whatever is not yet.           *)
(***************************************************************************)
BooksMatchRequests == PendingIsReserved /\ NoMoneyIsMade /\ LedgerFollows

ActorsOf(r, type) ==
  {e.actor : e \in {x \in events : x.req = r /\ x.type = type}}

(***************************************************************************)
(* Who stands behind the decisions on one request.  The owner never        *)
(* prepares or reverses it.  Its approver never reverses or reconciles it. *)
(* Under strict review its approver is neither the owner nor the one who   *)
(* prepared it, and where a preparation is required there was one.  The    *)
(* one who prepared it may reverse it: that is not compared.               *)
(***************************************************************************)
DualControl ==
  \A r \in Request :
    LET makers == ActorsOf(r, "PREPARED")
        checkers == ActorsOf(r, "APPROVED")
    IN /\ OwnerOf[r] \notin makers \cup ActorsOf(r, "REVERSED")
       /\ config.strict => (makers \cup {OwnerOf[r]}) \cap checkers = {}
       /\ config.strict /\ ~ config.simple =>
            (checkers # {} => makers # {})
       /\ checkers \cap ActorsOf(r, "REVERSED") = {}
       /\ checkers \cap ActorsOf(r, "RECONCILED") = {}

(***************************************************************************)
(* Concurrent requests never take more out in a day than the limits allow, *)
(* counting those still under review.                                      *)
(***************************************************************************)
VelocityLimit ==
  \A u \in User : /\ Total(Counted(u)) <= DailyLimit
                  /\ Cardinality(Counted(u)) <= DailyCount

(***************************************************************************)
(* A late or repeated delivery changes nothing: a verdict, reviewer or     *)
(* settlement changes only together with one new recorded command, so a    *)
(* stale duplicate cannot undo what a later command decided.               *)
(***************************************************************************)
ChangesAreRecorded ==
  [][ \A r \in Request :
        \/ verdict'[r] # verdict[r]
        \/ reviewedBy'[r] # reviewedBy[r]
        \/ <<"PAYMENT_SETTLEMENT", r>> \in posted' \ posted
        => \E c \in Command \ events : c.req = r /\ events' = events \cup {c}
    ]_vars

(***************************************************************************)
(* While an account discrepancy is under review none of the customer's     *)
(* money is reserved for a withdrawal, moved to approval or paid out, also *)
(* when the block appears after the request was prepared.                  *)
(***************************************************************************)
BlockStopsWithdrawals ==
  [][ \A r \in Withdrawal :
        OwnerOf[r] \in blocked /\ status'[r] # status[r]
          => status'[r] \in {"REJECTED", "CANCELLED", "REVERSED"}
    ]_vars

(***************************************************************************)
(* What crmEvents.ts says of emitCrmEvent: it runs "AFTER the source       *)
(* transaction commits", so the CRM is told of an approval only if there   *)
(* was one.                                                                *)
(***************************************************************************)
CrmHearsFacts ==
  \A r \in Request :
    "approved" \in told[r] => status[r] \in {"APPROVED", "REVERSED"}

Phase(r) ==
  CASE status[r] = "ABSENT" -> "absent"
    [] status[r] \in Live -> "open"
    [] status[r] = "APPROVED" -> "settled"
    [] status[r] = "REVERSED" -> "returned"
    [] OTHER -> "closed"

(***************************************************************************)
(* The desk settles every request at most once, by its own amount, and     *)
(* returns it at most once, whatever the ledger moves in between.          *)
(***************************************************************************)
Promise == INSTANCE Settlement WITH
  Effect   <- [r \in Request |->
                 IF r \in Deposit THEN Amount[r] ELSE - Amount[r]],
  phase    <- [r \in Request |-> Phase(r)],
  holdings <- [u \in User |-> Holdings(u)]

ImplementsSettlement == Promise!Spec
=============================================================================
