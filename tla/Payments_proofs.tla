--------------------------- MODULE Payments_proofs ---------------------------
(***************************************************************************)
(* The payment desk, for any customers, reviewers, requests and commands.  *)
(* Dual control is not inductive: it rests on the agreement between the    *)
(* recorded commands and the preparedBy and reviewedBy columns that the    *)
(* guards read, which Signed states event by event.                        *)
(***************************************************************************)
EXTENDS Payments, Sums, TLAPS

LEMMA CommandFields ==
  ASSUME NEW c \in Command
  PROVE  /\ c.req \in Request /\ c.actor \in Actor
         /\ OwnerOf[c.req] \in User /\ Amount[c.req] \in Nat
BY CommandAssumption, RequestAssumption

LEMMA AccountsOfUser ==
  ASSUME NEW u \in User
  PROVE  {Cash, Available(u), Margin(u), Pending(u)} \subseteq Account
BY DEF Account, Cash, Available, Margin, Pending

\* A ledger movement keeps balances integers.
LEMMA MoveType ==
  ASSUME NEW b \in [Account -> Int], NEW d \in Account, NEW e \in Account,
         NEW amount \in Int
  PROVE  Move(b, d, e, amount) \in [Account -> Int]
BY DEF Move

LEMMA ReleaseType ==
  ASSUME TypeOK, NEW c \in Command, NEW reference,
         ReleaseReserved(c, reference)
  PROVE  balance' \in [Account -> Int]
<1> DEFINE u == OwnerOf[c.req]
<1>1. balance' = Move(balance, Pending(u), Available(u), Amount[c.req])
  BY DEF ReleaseReserved, Post
<1>2. Pending(u) \in Account /\ Available(u) \in Account
  BY CommandFields, AccountsOfUser
<1>3. Amount[c.req] \in Int /\ balance \in [Account -> Int]
  BY CommandFields DEF TypeOK
<1> QED BY <1>1, <1>2, <1>3, MoveType

LEMMA SettleType ==
  ASSUME TypeOK, NEW r \in Request, Settle(r) \/ Unsettle(r)
  PROVE  balance' \in [Account -> Int]
<1> DEFINE u == OwnerOf[r]
<1>1. u \in User /\ Amount[r] \in Int /\ balance \in [Account -> Int]
  BY RequestAssumption DEF TypeOK
<1>2. Cash \in Account /\ Pending(u) \in Account /\ Available(u) \in Account
  BY <1>1, AccountsOfUser
<1>3. CASE Settle(r)
  <2>1. CASE r \in Deposit
    <3>1. balance' = Move(balance, Cash, Available(u), Amount[r])
      BY <1>3, <2>1 DEF Settle, Post
    <3> QED BY <1>1, <1>2, <3>1, MoveType
  <2>2. CASE r \notin Deposit
    <3>1. balance' = Move(balance, Pending(u), Cash, Amount[r])
      BY <1>3, <2>2 DEF Settle, Post
    <3> QED BY <1>1, <1>2, <3>1, MoveType
  <2> QED BY <2>1, <2>2
<1>4. CASE Unsettle(r)
  <2>1. CASE r \in Deposit
    <3>1. balance' = Move(balance, Available(u), Cash, Amount[r])
      BY <1>4, <2>1 DEF Unsettle, Post
    <3> QED BY <1>1, <1>2, <3>1, MoveType
  <2>2. CASE r \notin Deposit
    <3> DEFINE b == Move(balance, Cash, Pending(u), Amount[r])
    <3>1. b \in [Account -> Int]
      BY <1>1, <1>2, MoveType
    <3>2. balance' = Move(b, Pending(u), Available(u), Amount[r])
      BY <1>4, <2>2 DEF Unsettle
    <3> HIDE DEF b
    <3> QED BY <1>1, <1>2, <3>1, <3>2, MoveType
  <2> QED BY <2>1, <2>2
<1> QED BY <1>3, <1>4

LEMMA CommandType ==
  ASSUME TypeOK, NEW c \in Command, PaymentCommand(c)
  PROVE  TypeOK'
<1> USE CommandFields, BoundAssumption
<1> USE DEF TypeOK, recordVars, worldVars, Record, Announce, Status, Live
<1>1. CASE Prepare(c)
  BY <1>1 DEF Prepare, CanPrepare
<1>2. CASE Approve(c)
  BY <1>2, SettleType DEF Approve
<1>3. CASE Reject(c)
  <2>1. balance' \in [Account -> Int]
    BY <1>3, ReleaseType DEF Reject
  <2> QED BY <1>3, <2>1 DEF Reject
<1>4. CASE Cancel(c)
  <2>1. balance' \in [Account -> Int]
    BY <1>4, ReleaseType DEF Cancel
  <2> QED BY <1>4, <2>1 DEF Cancel
<1>5. CASE Reverse(c)
  BY <1>5, SettleType DEF Reverse
<1>6. CASE Reconcile(c)
  BY <1>6 DEF Reconcile
<1>7. CASE AbortedAttempt(c)
  BY <1>7 DEF AbortedAttempt
<1> QED BY <1>1, <1>2, <1>3, <1>4, <1>5, <1>6, <1>7 DEF PaymentCommand

LEMMA InitTypes == Init => TypeOK
BY RequestAssumption, BoundAssumption
DEF Init, TypeOK, Status, Live, Account, Available, Cash

(***************************************************************************)
(* Every variable keeps its type: in particular each balance stays a number *)
(* and each request keeps a status of the enumeration.                     *)
(***************************************************************************)
THEOREM Typing == Spec => []TypeOK
<1>2. TypeOK /\ [Next]_vars => TypeOK'
  <2> SUFFICES ASSUME TypeOK, [Next]_vars
               PROVE  TypeOK'
    OBVIOUS
  <2> USE DEF TypeOK, recordVars, worldVars, Status, Live
  <2>1. ASSUME NEW r \in Deposit, SubmitDeposit(r)
        PROVE  TypeOK'
    BY <2>1 DEF SubmitDeposit, Request
  <2>2. ASSUME NEW r \in Deposit, ProofCleared(r) \/ ProofBlocked(r)
        PROVE  TypeOK'
    BY <2>2 DEF ProofCleared, ProofBlocked, Request
  <2>3. ASSUME NEW r \in Withdrawal, SubmitWithdrawal(r)
        PROVE  TypeOK'
    <3>1. r \in Request /\ OwnerOf[r] \in User /\ Amount[r] \in Int
      BY RequestAssumption DEF Request
    <3>2. balance' \in [Account -> Int]
      BY <2>3, <3>1, AccountsOfUser, MoveType DEF SubmitWithdrawal, Post
    <3> QED BY <2>3, <3>1, <3>2 DEF SubmitWithdrawal
  <2>4. ASSUME NEW c \in Command, PaymentCommand(c)
        PROVE  TypeOK'
    BY <2>4, CommandType
  <2>5. ASSUME NEW d \in Destination, CoolingOffEnds(d)
        PROVE  TypeOK'
    BY <2>5 DEF CoolingOffEnds
  <2>6. ASSUME NEW u \in User, BlockOpens(u) \/ BlockReleased(u)
        PROVE  TypeOK'
    BY <2>6 DEF BlockOpens, BlockReleased
  <2>7. ASSUME NEW u \in User, MarginMoves(u, MarginUnit)
        PROVE  TypeOK'
    <3>1. \/ balance' = Move(balance, Available(u), Margin(u), MarginUnit)
          \/ balance' = Move(balance, Margin(u), Available(u), MarginUnit)
      BY <2>7 DEF MarginMoves
    <3>2. Available(u) \in Account /\ Margin(u) \in Account
      BY AccountsOfUser
    <3>3. balance' \in [Account -> Int]
      BY <3>1, <3>2, BoundAssumption, MoveType
    <3> QED BY <2>7, <3>3 DEF MarginMoves
  <2>8. CASE UNCHANGED vars
    BY <2>8 DEF vars
  <2> QED
    BY <2>1, <2>2, <2>3, <2>4, <2>5, <2>6, <2>7, <2>8 DEF Next
<1> QED BY InitTypes, <1>2, PTL DEF Spec

-----------------------------------------------------------------------------

\* What one recorded command says of its request.
Signed(e) ==
  LET r == e.req
  IN /\ e.type = "PREPARED" =>
          /\ e.actor = preparedBy[r] /\ e.actor # OwnerOf[r]
          /\ status[r] \notin {"ABSENT", "PENDING"}
     /\ e.type = "APPROVED" =>
          /\ e.actor = reviewedBy[r]
          /\ status[r] \in {"APPROVED", "REVERSED"}
          /\ config.strict => e.actor # OwnerOf[r] /\ e.actor # preparedBy[r]
          /\ config.strict /\ ~ config.simple =>
               \E m \in events : m.req = r /\ m.type = "PREPARED"
     /\ e.type = "REVERSED" =>
          e.actor # OwnerOf[r] /\ e.actor # reviewedBy[r]
     /\ e.type \in {"REVERSED", "RECONCILED"} =>
          /\ e.actor # reviewedBy[r]
          /\ status[r] \in {"APPROVED", "REVERSED"}

\* A request awaiting approval has been prepared on record.
Prepared(r) ==
  status[r] = "AWAITING_APPROVAL" =>
    \E m \in events : m.req = r /\ m.type = "PREPARED"

ControlInv ==
  /\ TypeOK
  /\ \A e \in events : Signed(e)
  /\ \A r \in Request : Prepared(r)

\* Every action but a command leaves the recorded facts alone.
LEMMA SameRecord ==
  ASSUME ControlInv, TypeOK',
         UNCHANGED <<events, config, preparedBy, reviewedBy>>,
         \A r \in Request :
           \/ status'[r] = status[r]
           \/ status[r] = "ABSENT" /\ status'[r] = "PENDING"
  PROVE  ControlInv'
<1>1. \A e \in events : e \in Command /\ e.req \in Request
  BY CommandFields DEF ControlInv, TypeOK
<1>2. ASSUME NEW e \in events PROVE Signed(e)'
  <2>1. Signed(e) /\ e.req \in Request
    BY <1>1 DEF ControlInv
  <2> QED BY <2>1 DEF Signed
<1>3. ASSUME NEW r \in Request PROVE Prepared(r)'
  <2>1. Prepared(r)
    BY DEF ControlInv
  <2> QED BY <2>1 DEF Prepared
<1> QED BY <1>2, <1>3 DEF ControlInv

LEMMA CommandKeepsControl ==
  ASSUME ControlInv, TypeOK', NEW c \in Command, PaymentCommand(c)
  PROVE  ControlInv'
<1> DEFINE q == c.req
<1>1. q \in Request /\ c.actor \in Actor /\ c.actor # Nobody
  BY CommandFields, NobodyAssumption
<1>2. \A e \in events : e \in Command /\ e.req \in Request /\ Signed(e)
  BY CommandFields DEF ControlInv, TypeOK
<1>3. Prepared(q)
  BY <1>1 DEF ControlInv
<1>4. ASSUME \/ Prepare(c) \/ Approve(c) \/ Reject(c) \/ Cancel(c)
             \/ Reverse(c) \/ Reconcile(c)
      PROVE  ControlInv'
  <2>1. /\ events' = events \cup {c}
        /\ \A r \in Request : r # q =>
             /\ status'[r] = status[r]
             /\ preparedBy'[r] = preparedBy[r] /\ reviewedBy'[r] = reviewedBy[r]
        /\ config' = config
    BY <1>1, <1>4
    DEF Prepare, Approve, Reject, Cancel, Reverse, Reconcile, Record,
        recordVars, worldVars, ControlInv, TypeOK
  <2>2. ASSUME NEW e \in events, e.req # q PROVE Signed(e)'
    <3>1. e.req \in Request /\ Signed(e)
      BY <1>2
    <3> QED BY <2>1, <2>2, <3>1 DEF Signed
  <2>3. ASSUME NEW r \in Request, r # q PROVE Prepared(r)'
    <3>1. Prepared(r)
      BY DEF ControlInv
    <3> QED BY <2>1, <2>3, <3>1 DEF Prepared
  <2>4. Prepared(q)' /\ Signed(c)'
        /\ \A e \in events : e.req = q => Signed(e)'
    <3> USE <1>1, <1>2, <1>3, <2>1
    <3> USE DEF Prepared, Signed, Record, Live, ControlInv, TypeOK
    <3>1. CASE Prepare(c)
      BY <3>1 DEF Prepare, CanPrepare
    <3>2. CASE Approve(c)
      BY <3>2 DEF Approve, CanApprove, Approvable
    <3>3. CASE Reject(c)
      BY <3>3 DEF Reject, CanReject
    <3>4. CASE Cancel(c)
      BY <3>4 DEF Cancel
    <3>5. CASE Reverse(c)
      BY <3>5 DEF Reverse, CanReverse, recordVars
    <3>6. CASE Reconcile(c)
      BY <3>6 DEF Reconcile
    <3> QED BY <1>4, <3>1, <3>2, <3>3, <3>4, <3>5, <3>6
  <2> QED BY <2>1, <2>2, <2>3, <2>4 DEF ControlInv
<1>5. CASE AbortedAttempt(c)
  BY <1>5, SameRecord DEF AbortedAttempt, recordVars
<1> QED BY <1>4, <1>5 DEF PaymentCommand

LEMMA ControlIsInvariant == Spec => []ControlInv
<1>1. Init => ControlInv
  <2> SUFFICES ASSUME Init PROVE ControlInv
    OBVIOUS
  <2>1. TypeOK
    BY InitTypes
  <2> QED BY <2>1 DEF Init, ControlInv, Prepared
<1>2. ControlInv /\ TypeOK' /\ [Next]_vars => ControlInv'
  <2> SUFFICES ASSUME ControlInv, TypeOK', [Next]_vars
               PROVE  ControlInv'
    OBVIOUS
  <2>1. ASSUME NEW c \in Command, PaymentCommand(c)
        PROVE  ControlInv'
    BY <2>1, CommandKeepsControl
  <2>2. ASSUME NEW r \in Deposit,
               SubmitDeposit(r) \/ ProofCleared(r) \/ ProofBlocked(r)
        PROVE  ControlInv'
    BY <2>2, SameRecord
    DEF SubmitDeposit, ProofCleared, ProofBlocked, recordVars, worldVars,
        ControlInv, TypeOK
  <2>3. ASSUME NEW r \in Withdrawal, SubmitWithdrawal(r)
        PROVE  ControlInv'
    BY <2>3, SameRecord
    DEF SubmitWithdrawal, recordVars, ControlInv, TypeOK
  <2>4. ASSUME NEW d \in Destination, CoolingOffEnds(d)
        PROVE  ControlInv'
    BY <2>4, SameRecord DEF CoolingOffEnds, recordVars
  <2>5. ASSUME NEW u \in User,
               BlockOpens(u) \/ BlockReleased(u) \/ MarginMoves(u, MarginUnit)
        PROVE  ControlInv'
    BY <2>5, SameRecord
    DEF BlockOpens, BlockReleased, MarginMoves, recordVars, worldVars
  <2>6. CASE UNCHANGED vars
    BY <2>6, SameRecord DEF vars, recordVars, worldVars
  <2> QED BY <2>1, <2>2, <2>3, <2>4, <2>5, <2>6 DEF Next
<1> QED BY Typing, <1>1, <1>2, PTL DEF Spec

(***************************************************************************)
(* Segregation of duties, with the pairs that the code compares: owner and *)
(* maker, owner and reverser, approver and reverser, approver and          *)
(* reconciler, and under strict review owner and approver, maker and       *)
(* approver.  Maker and reverser may be the same person.                   *)
(***************************************************************************)
THEOREM Segregation == Spec => []DualControl
<1>1. ControlInv => DualControl
  BY DEF ControlInv, Signed, DualControl, ActorsOf
<1> QED BY ControlIsInvariant, <1>1, PTL

-----------------------------------------------------------------------------

Held(b, u) == b[Available(u)] + b[Margin(u)] + b[Pending(u)]
Own(u) == {Available(u), Margin(u), Pending(u)}

\* Only the two accounts of a movement change.
LEMMA MoveAt ==
  ASSUME NEW b \in [Account -> Int], NEW d \in Account, NEW e \in Account,
         d # e, NEW n \in Int
  PROVE  \A a \in Account : Move(b, d, e, n)[a] =
           b[a] + (IF a = e THEN n ELSE 0) - (IF a = d THEN n ELSE 0)
BY DEF Move

\* A movement between the buckets of one customer changes no holdings; one
\* against the cash account changes those of its customer alone.
LEMMA MoveHeld ==
  ASSUME NEW b \in [Account -> Int], NEW u \in User, NEW v \in User,
         NEW x \in Own(u), NEW y \in Own(u), x # y, NEW n \in Int
  PROVE  /\ Held(Move(b, x, y, n), v) = Held(b, v)
         /\ Held(Move(b, Cash, y, n), v) = Held(b, v) + (IF v = u THEN n ELSE 0)
         /\ Held(Move(b, x, Cash, n), v) = Held(b, v) - (IF v = u THEN n ELSE 0)
<1>1. Own(u) \cup Own(v) \cup {Cash} \subseteq Account
  BY AccountsOfUser DEF Own
<1>2. /\ Available(v) # Margin(v) /\ Available(v) # Pending(v)
      /\ Margin(v) # Pending(v) /\ Cash \notin Own(u) \cup Own(v)
  BY DEF Available, Margin, Pending, Cash, Own
<1>3. v # u => Own(u) \cap Own(v) = {}
  BY DEF Available, Margin, Pending, Own
<1>4. /\ b[Available(v)] \in Int /\ b[Margin(v)] \in Int
      /\ b[Pending(v)] \in Int
  BY <1>1 DEF Own
<1>5. CASE v # u
  <2>1. \A a \in Own(v) : a \in Account /\ a \notin {x, y, Cash}
    BY <1>1, <1>2, <1>3, <1>5
  <2>2. ASSUME NEW d \in {x, Cash}, NEW e \in {y, Cash}, d # e
        PROVE  Held(Move(b, d, e, n), v) = Held(b, v)
    <3>1. d \in Account /\ e \in Account
      BY <1>1
    <3>2. \A a \in Account : Move(b, d, e, n)[a] =
            b[a] + (IF a = e THEN n ELSE 0) - (IF a = d THEN n ELSE 0)
      BY <2>2, <3>1, MoveAt
    <3>3. ASSUME NEW a \in Own(v) PROVE Move(b, d, e, n)[a] = b[a]
      <4>1. a \in Account /\ a # d /\ a # e /\ b[a] \in Int
        BY <2>1
      <4> QED BY <3>2, <4>1
    <3> QED BY <3>3 DEF Held, Own
  <2>3. x # Cash /\ y # Cash
    BY <1>2
  <2> QED BY <1>4, <1>5, <2>2, <2>3 DEF Held
<1>6. CASE v = u
  <2>1. x \in {Available(v), Margin(v), Pending(v)}
        /\ y \in {Available(v), Margin(v), Pending(v)}
        /\ x \in Account /\ y \in Account /\ Cash \in Account
        /\ x # Cash /\ y # Cash
    BY <1>1, <1>2, <1>6 DEF Own
  <2>0. /\ x = Available(v) \/ x = Margin(v) \/ x = Pending(v)
        /\ y = Available(v) \/ y = Margin(v) \/ y = Pending(v)
    BY <2>1
  <2>2. Held(Move(b, x, y, n), v) = Held(b, v)
    <3>1. \A a \in Account : Move(b, x, y, n)[a] =
            b[a] + (IF a = y THEN n ELSE 0) - (IF a = x THEN n ELSE 0)
      BY <2>1, MoveAt
    <3> QED BY <1>1, <1>2, <1>4, <2>0, <2>1, <3>1 DEF Held, Own
  <2>3. Held(Move(b, Cash, y, n), v) = Held(b, v) + n
    <3>1. \A a \in Account : Move(b, Cash, y, n)[a] =
            b[a] + (IF a = y THEN n ELSE 0) - (IF a = Cash THEN n ELSE 0)
      BY <2>1, MoveAt
    <3>2. \A a \in Own(v) : a \in Account /\ a # Cash /\ b[a] \in Int
      BY <1>1, <1>2
    <3>3. \A a \in Own(v) : Move(b, Cash, y, n)[a] =
            b[a] + (IF a = y THEN n ELSE 0)
      BY <3>1, <3>2
    <3>4. CASE y = Available(v)
      BY <1>2, <1>4, <3>3, <3>4 DEF Held, Own
    <3>5. CASE y = Margin(v)
      BY <1>2, <1>4, <3>3, <3>5 DEF Held, Own
    <3>6. CASE y = Pending(v)
      BY <1>2, <1>4, <3>3, <3>6 DEF Held, Own
    <3> QED BY <2>0, <3>4, <3>5, <3>6
  <2>4. Held(Move(b, x, Cash, n), v) = Held(b, v) - n
    <3>1. \A a \in Account : Move(b, x, Cash, n)[a] =
            b[a] + (IF a = Cash THEN n ELSE 0) - (IF a = x THEN n ELSE 0)
      BY <2>1, MoveAt
    <3>2. \A a \in Own(v) : a \in Account /\ a # Cash /\ b[a] \in Int
      BY <1>1, <1>2
    <3>3. \A a \in Own(v) : Move(b, x, Cash, n)[a] =
            b[a] - (IF a = x THEN n ELSE 0)
      BY <3>1, <3>2
    <3>4. CASE x = Available(v)
      BY <1>2, <1>4, <3>3, <3>4 DEF Held, Own
    <3>5. CASE x = Margin(v)
      BY <1>2, <1>4, <3>3, <3>5 DEF Held, Own
    <3>6. CASE x = Pending(v)
      BY <1>2, <1>4, <3>3, <3>6 DEF Held, Own
    <3> QED BY <2>0, <3>4, <3>5, <3>6
  <2> QED BY <1>6, <2>2, <2>3, <2>4
<1> QED BY <1>5, <1>6

LEMMA HoldingsType ==
  ASSUME TypeOK, NEW u \in User
  PROVE  Holdings(u) \in Int /\ Holdings(u) = Held(balance, u)
BY AccountsOfUser DEF TypeOK, Holdings, Held

Effect(r) == IF r \in Deposit THEN Amount[r] ELSE - Amount[r]

LEMMA SettleHeld ==
  ASSUME TypeOK, TypeOK', NEW r \in Request, NEW v \in User
  PROVE  /\ Settle(r) => Holdings(v)' =
              Holdings(v) + (IF v = OwnerOf[r] THEN Effect(r) ELSE 0)
         /\ Unsettle(r) => Holdings(v)' =
              Holdings(v) - (IF v = OwnerOf[r] THEN Effect(r) ELSE 0)
<1> DEFINE u == OwnerOf[r]
<1>1. u \in User /\ Amount[r] \in Int /\ balance \in [Account -> Int]
  BY RequestAssumption DEF TypeOK
<1>2. /\ Available(u) \in Own(u) /\ Pending(u) \in Own(u)
      /\ Available(u) # Pending(u)
  BY DEF Own, Available, Pending
<1>3. Holdings(v) = Held(balance, v) /\ Holdings(v)' = Held(balance', v)
  <2>1. Holdings(v) = Held(balance, v)
    BY HoldingsType
  <2>2. Holdings(v)' = Held(balance', v)
    BY DEF Holdings, Held
  <2> QED BY <2>1, <2>2
<1>4. Held(balance, v) \in Int
  BY HoldingsType
<1>5. ASSUME Settle(r)
      PROVE  Held(balance', v) =
               Held(balance, v) + (IF v = u THEN Effect(r) ELSE 0)
  <2>1. CASE r \in Deposit
    <3>1. balance' = Move(balance, Cash, Available(u), Amount[r])
      BY <1>5, <2>1 DEF Settle, Post
    <3>2. Held(Move(balance, Cash, Available(u), Amount[r]), v)
            = Held(balance, v) + (IF v = u THEN Amount[r] ELSE 0)
      BY <1>1, <1>2, MoveHeld
    <3> QED BY <2>1, <3>1, <3>2 DEF Effect
  <2>2. CASE r \notin Deposit
    <3>1. balance' = Move(balance, Pending(u), Cash, Amount[r])
      BY <1>5, <2>2 DEF Settle, Post
    <3>2. Held(Move(balance, Pending(u), Cash, Amount[r]), v)
            = Held(balance, v) - (IF v = u THEN Amount[r] ELSE 0)
      BY <1>1, <1>2, MoveHeld
    <3> QED BY <1>1, <1>4, <2>2, <3>1, <3>2 DEF Effect
  <2> QED BY <2>1, <2>2
<1>6. ASSUME Unsettle(r)
      PROVE  Held(balance', v) =
               Held(balance, v) - (IF v = u THEN Effect(r) ELSE 0)
  <2>1. CASE r \in Deposit
    <3>1. balance' = Move(balance, Available(u), Cash, Amount[r])
      BY <1>6, <2>1 DEF Unsettle, Post
    <3>2. Held(Move(balance, Available(u), Cash, Amount[r]), v)
            = Held(balance, v) - (IF v = u THEN Amount[r] ELSE 0)
      BY <1>1, <1>2, MoveHeld
    <3> QED BY <2>1, <3>1, <3>2 DEF Effect
  <2>2. CASE r \notin Deposit
    <3> DEFINE b == Move(balance, Cash, Pending(u), Amount[r])
    <3>1. balance' = Move(b, Pending(u), Available(u), Amount[r])
      BY <1>6, <2>2 DEF Unsettle
    <3>2. Held(b, v) = Held(balance, v) + (IF v = u THEN Amount[r] ELSE 0)
      BY <1>1, <1>2, MoveHeld
    <3>3. b \in [Account -> Int]
      BY <1>1, AccountsOfUser, MoveType
    <3> HIDE DEF b
    <3>4. Held(Move(b, Pending(u), Available(u), Amount[r]), v) = Held(b, v)
      BY <1>1, <1>2, <3>3, MoveHeld
    <3> QED BY <1>1, <1>4, <2>2, <3>1, <3>2, <3>4 DEF Effect
  <2> QED BY <2>1, <2>2
<1> QED BY <1>3, <1>5, <1>6

Phases == [r \in Request |-> Phase(r)]
AllHoldings == [u \in User |-> Holdings(u)]

LEMMA SameHeld ==
  ASSUME balance' = balance PROVE AllHoldings' = AllHoldings
BY DEF AllHoldings, Holdings

LEMMA ReleaseHeld ==
  ASSUME TypeOK, TypeOK', NEW c \in Command, NEW reference,
         ReleaseReserved(c, reference)
  PROVE  AllHoldings' = AllHoldings
<1> DEFINE u == OwnerOf[c.req]
<1>1. balance' = Move(balance, Pending(u), Available(u), Amount[c.req])
  BY DEF ReleaseReserved, Post
<1>2. u \in User /\ Amount[c.req] \in Int /\ balance \in [Account -> Int]
  BY CommandFields DEF TypeOK
<1>3. /\ Available(u) \in Own(u) /\ Pending(u) \in Own(u)
      /\ Available(u) # Pending(u)
  BY DEF Own, Available, Pending
<1>4. \A v \in User : Held(balance', v) = Held(balance, v)
  BY <1>1, <1>2, <1>3, MoveHeld
<1> QED BY <1>4 DEF AllHoldings, Holdings, Held

\* How a change of one status shows in the phases.
LEMMA StatusPhase ==
  ASSUME TypeOK, TypeOK', NEW r \in Request,
         \A q \in Request : q # r => status'[q] = status[q]
  PROVE  Phases' = [Phases EXCEPT ![r] = Phase(r)']
<1>1. \A q \in Request : q # r => Phase(q)' = Phase(q)
  BY DEF Phase
<1> QED BY <1>1 DEF Phases

LEMMA StepIsPromised ==
  ASSUME TypeOK, TypeOK', NEW c \in Command, PaymentCommand(c)
  PROVE  \/ Promise!Next
         \/ UNCHANGED <<Phases, AllHoldings>>
<1> DEFINE r == c.req
<1>1. r \in Request /\ OwnerOf[r] \in User
  BY CommandFields
<1>2. ASSUME NEW new, Record(c, new)
      PROVE  /\ status'[r] = new
             /\ Phases' = [Phases EXCEPT ![r] = Phase(r)']
  BY <1>1, <1>2, StatusPhase DEF Record, TypeOK
<1>3. CASE Prepare(c)
  <2>1. Phase(r)' = "open" /\ Phase(r) = "open"
    BY <1>2, <1>3 DEF Prepare, CanPrepare, Phase, Live
  <2>2. Phases' = Phases
    BY <1>2, <1>3, <2>1 DEF Prepare, Phases
  <2> QED BY <1>3, <2>2, SameHeld DEF Prepare
<1>4. CASE Approve(c)
  <2>1. Phase(r)' = "settled" /\ Phase(r) = "open"
    BY <1>2, <1>4 DEF Approve, CanApprove, Approvable, Phase, Live
  <2>2. Phases[r] = "open" /\ Phases' = [Phases EXCEPT ![r] = "settled"]
    BY <1>1, <1>2, <1>4, <2>1 DEF Approve, Phases
  <2>3. AllHoldings' = [AllHoldings EXCEPT ![OwnerOf[r]] = @ + Effect(r)]
    <3>1. \A v \in User : Holdings(v)' =
            Holdings(v) + (IF v = OwnerOf[r] THEN Effect(r) ELSE 0)
      BY <1>1, <1>4, SettleHeld DEF Approve
    <3> QED BY <1>1, <3>1, HoldingsType DEF AllHoldings
  <2> QED
    BY <1>1, <2>2, <2>3
    DEF Promise!Next, Promise!Settle, Phases, AllHoldings, Effect
<1>5. CASE Reject(c) \/ Cancel(c)
  <2>1. Phase(r)' = "closed" /\ Phase(r) = "open"
    BY <1>2, <1>5 DEF Reject, CanReject, Cancel, Phase, Live
  <2>2. Phases[r] = "open" /\ Phases' = [Phases EXCEPT ![r] = "closed"]
    BY <1>1, <1>2, <1>5, <2>1 DEF Reject, Cancel, Phases
  <2>3. AllHoldings' = AllHoldings
    BY <1>5, ReleaseHeld, SameHeld DEF Reject, Cancel
  <2> QED
    BY <1>1, <2>2, <2>3 DEF Promise!Next, Promise!Close, Phases, AllHoldings
<1>6. CASE Reverse(c)
  <2>1. Phase(r)' = "returned" /\ Phase(r) = "settled"
    BY <1>2, <1>6 DEF Reverse, CanReverse, Phase, Live
  <2>2. Phases[r] = "settled" /\ Phases' = [Phases EXCEPT ![r] = "returned"]
    BY <1>1, <1>2, <1>6, <2>1 DEF Reverse, Phases
  <2>3. AllHoldings' = [AllHoldings EXCEPT ![OwnerOf[r]] = @ - Effect(r)]
    <3>1. \A v \in User : Holdings(v)' =
            Holdings(v) - (IF v = OwnerOf[r] THEN Effect(r) ELSE 0)
      BY <1>1, <1>6, SettleHeld DEF Reverse
    <3> QED BY <1>1, <3>1, HoldingsType DEF AllHoldings
  <2> QED
    BY <1>1, <2>2, <2>3
    DEF Promise!Next, Promise!Return, Phases, AllHoldings, Effect
<1>7. CASE Reconcile(c)
  <2>1. Phase(r)' = Phase(r)
    BY <1>2, <1>7 DEF Reconcile, Phase
  <2>2. Phases' = Phases
    BY <1>2, <1>7, <2>1 DEF Reconcile, Phases
  <2> QED BY <1>7, <2>2, SameHeld DEF Reconcile
<1>8. CASE AbortedAttempt(c)
  BY <1>8, SameHeld DEF AbortedAttempt, Phases, Phase
<1> QED BY <1>3, <1>4, <1>5, <1>6, <1>7, <1>8 DEF PaymentCommand

\* A request is opened without a change of holdings.
LEMMA OpenIsPromised ==
  ASSUME TypeOK, TypeOK', NEW r \in Request, AllHoldings' = AllHoldings,
         status[r] = "ABSENT", status' = [status EXCEPT ![r] = "PENDING"]
  PROVE  Promise!Next
<1>1. Phase(r) = "absent" /\ Phase(r)' = "open"
  BY DEF TypeOK, Phase, Live
<1>2. Phases' = [Phases EXCEPT ![r] = Phase(r)']
  BY StatusPhase DEF TypeOK
<1>3. Phases[r] = "absent" /\ Phases' = [Phases EXCEPT ![r] = "open"]
  BY <1>1, <1>2 DEF Phases
<1> QED
  BY <1>3 DEF Promise!Next, Promise!Open, Phases, AllHoldings

(***************************************************************************)
(* The payment desk implements Settlement: what a customer holds changes   *)
(* exactly by the amount of a request when it is approved, once, and back  *)
(* when it is reversed, once.                                              *)
(***************************************************************************)
THEOREM SettlesOnce == Spec => ImplementsSettlement
<1>1. Init => Promise!Init
  <2> SUFFICES ASSUME Init PROVE Promise!Init
    OBVIOUS
  <2>1. \A r \in Request : Phase(r) = "absent"
    BY DEF Init, Phase, Live
  <2>2. \A u \in User : Holdings(u) = Opening[u]
    <3>1. ASSUME NEW u \in User PROVE Holdings(u) = Opening[u]
      <4>1. Available(u) \in Account /\ Margin(u) \in Account
            /\ Pending(u) \in Account
        BY AccountsOfUser
      <4>2. balance[Available(u)] = Opening[u]
        BY <4>1 DEF Init, Available
      <4>3. balance[Margin(u)] = 0 /\ balance[Pending(u)] = 0
        BY <4>1 DEF Init, Available, Margin, Pending
      <4> QED BY <4>2, <4>3, RequestAssumption DEF Holdings
    <3> QED BY <3>1
  <2> QED BY <2>1, <2>2, RequestAssumption DEF Promise!Init
<1>2. TypeOK /\ TypeOK' /\ [Next]_vars
        => [Promise!Next]_(Promise!settlementVars)
  <2> SUFFICES ASSUME TypeOK, TypeOK', [Next]_vars
               PROVE  Promise!Next \/ UNCHANGED <<Phases, AllHoldings>>
    BY DEF Promise!settlementVars, Phases, AllHoldings
  <2>1. ASSUME NEW c \in Command, PaymentCommand(c)
        PROVE  Promise!Next \/ UNCHANGED <<Phases, AllHoldings>>
    BY <2>1, StepIsPromised
  <2>2. ASSUME NEW r \in Deposit, SubmitDeposit(r)
        PROVE  Promise!Next
    <3>1. r \in Request
      BY DEF Request
    <3> QED BY <2>2, <3>1, SameHeld, OpenIsPromised DEF SubmitDeposit
  <2>3. ASSUME NEW r \in Withdrawal, SubmitWithdrawal(r)
        PROVE  Promise!Next
    <3> DEFINE u == OwnerOf[r]
    <3>1. r \in Request /\ u \in User /\ Amount[r] \in Int
      BY RequestAssumption DEF Request
    <3>2. balance' = Move(balance, Available(u), Pending(u), Amount[r])
      BY <2>3 DEF SubmitWithdrawal, Post
    <3>3. /\ Available(u) \in Own(u) /\ Pending(u) \in Own(u)
          /\ Available(u) # Pending(u) /\ balance \in [Account -> Int]
      BY DEF Own, Available, Pending, TypeOK
    <3>4. \A v \in User : Held(balance', v) = Held(balance, v)
      BY <3>1, <3>2, <3>3, MoveHeld
    <3>5. AllHoldings' = AllHoldings
      BY <3>4 DEF AllHoldings, Holdings, Held
    <3> QED BY <2>3, <3>1, <3>5, OpenIsPromised DEF SubmitWithdrawal
  <2>4. ASSUME NEW u \in User, MarginMoves(u, MarginUnit)
        PROVE  UNCHANGED <<Phases, AllHoldings>>
    <3>1. /\ Available(u) \in Own(u) /\ Margin(u) \in Own(u)
          /\ Available(u) # Margin(u) /\ balance \in [Account -> Int]
      BY DEF Own, Available, Margin, TypeOK
    <3>2. ASSUME NEW v \in User PROVE Held(balance', v) = Held(balance, v)
      <4>1. \/ balance' = Move(balance, Available(u), Margin(u), MarginUnit)
            \/ balance' = Move(balance, Margin(u), Available(u), MarginUnit)
        BY <2>4 DEF MarginMoves
      <4>2. Held(Move(balance, Available(u), Margin(u), MarginUnit), v)
              = Held(balance, v)
        BY <3>1, BoundAssumption, MoveHeld
      <4>3. Held(Move(balance, Margin(u), Available(u), MarginUnit), v)
              = Held(balance, v)
        BY <3>1, BoundAssumption, MoveHeld
      <4> QED BY <4>1, <4>2, <4>3
    <3>3. AllHoldings' = AllHoldings
      BY <3>2 DEF AllHoldings, Holdings, Held
    <3> QED BY <2>4, <3>3 DEF MarginMoves, Phases, Phase
  <2>5. ASSUME \/ \E r \in Deposit : ProofCleared(r) \/ ProofBlocked(r)
               \/ \E d \in Destination : CoolingOffEnds(d)
               \/ \E u \in User : BlockOpens(u) \/ BlockReleased(u)
               \/ UNCHANGED vars
        PROVE  UNCHANGED <<Phases, AllHoldings>>
    <3>1. status' = status /\ balance' = balance
      BY <2>5
      DEF ProofCleared, ProofBlocked, CoolingOffEnds, BlockOpens,
          BlockReleased, vars
    <3> QED BY <3>1, SameHeld DEF Phases, Phase
  <2> QED BY <2>1, <2>2, <2>3, <2>4, <2>5 DEF Next
<1> QED
  BY Typing, <1>1, <1>2, PTL DEF Spec, ImplementsSettlement, Promise!Spec

-----------------------------------------------------------------------------
(* The sums of the desk.                                                   *)

Queue(u) == {r \in Withdrawal : OwnerOf[r] = u /\ status[r] \in Live}

LEMMA TotalIsSum == \A S : Total(S) = SumOver(Amount, S)
BY DEF Total, SumOver

LEMMA TotalRemove ==
  ASSUME NEW S \in SUBSET Withdrawal, NEW r \in S
  PROVE  /\ Total(S) = Amount[r] + Total(S \ {r})
         /\ Total(S) \in Int /\ Total(S \ {r}) \in Int
         /\ Amount[r] \in Nat
<1>1. /\ IsFiniteSet(S) /\ IsFiniteSet(S \ {r})
      /\ \A q \in S : Amount[q] \in Nat
  BY LimitAssumption, RequestAssumption, FS_Subset DEF Request
<1>2. SumOver(Amount, S) = Amount[r] + SumOver(Amount, S \ {r})
  BY <1>1, SumRemove
<1>3. SumOver(Amount, S) \in Int /\ SumOver(Amount, S \ {r}) \in Int
  BY <1>1, SumType
<1> QED BY <1>1, <1>2, <1>3, TotalIsSum

LEMMA QueueType == ASSUME NEW u PROVE Total(Queue(u)) \in Int
<1>1. IsFiniteSet(Queue(u)) /\ \A q \in Queue(u) : Amount[q] \in Int
  BY LimitAssumption, RequestAssumption, FS_Subset DEF Request, Queue
<1> QED BY <1>1, SumType, TotalIsSum

\* A withdrawal enters the queue of its owner, and no other queue.
LEMMA Enqueued ==
  ASSUME TypeOK, TypeOK', NEW r \in Withdrawal, NEW u \in User,
         status[r] \notin Live, status'[r] \in Live,
         \A q \in Request : q # r => status'[q] = status[q]
  PROVE  Total(Queue(u))' =
           Total(Queue(u)) + (IF u = OwnerOf[r] THEN Amount[r] ELSE 0)
<1>1. CASE u = OwnerOf[r]
  <2>1. /\ Queue(u)' \in SUBSET Withdrawal /\ r \in Queue(u)'
        /\ Queue(u)' \ {r} = Queue(u)
    BY <1>1 DEF Queue, Request
  <2>2. PICK S : S = Queue(u)'
    OBVIOUS
  <2>3. Total(S) = Amount[r] + Total(S \ {r}) /\ Total(S \ {r}) \in Int
        /\ Amount[r] \in Nat
    BY <2>1, <2>2, TotalRemove
  <2>4. Total(Queue(u))' = Total(S)
    BY <2>2 DEF Total, MapThenSumSet, MapThenFoldSet
  <2>5. S \ {r} = Queue(u)
    BY <2>1, <2>2
  <2>6. Total(Queue(u))' = Amount[r] + Total(Queue(u))
    BY <2>3, <2>4, <2>5
  <2>7. Amount[r] \in Int
    BY <2>3
  <2> QED BY <1>1, <2>6, <2>7, QueueType
<1>2. CASE u # OwnerOf[r]
  <2>1. Queue(u)' = Queue(u)
    BY <1>2 DEF Queue, Request
  <2>2. Total(Queue(u))' = Total(Queue(u))
    BY <2>1 DEF Total, MapThenSumSet, MapThenFoldSet
  <2> QED BY <1>2, <2>2, QueueType
<1> QED BY <1>1, <1>2

\* A withdrawal leaves the queue.
LEMMA Dequeued ==
  ASSUME TypeOK, TypeOK', NEW r \in Withdrawal, NEW u \in User,
         status[r] \in Live, status'[r] \notin Live,
         \A q \in Request : q # r => status'[q] = status[q]
  PROVE  Total(Queue(u))' =
           Total(Queue(u)) - (IF u = OwnerOf[r] THEN Amount[r] ELSE 0)
<1>1. CASE u = OwnerOf[r]
  <2>1. /\ Queue(u) \in SUBSET Withdrawal /\ r \in Queue(u)
        /\ Queue(u)' = Queue(u) \ {r}
    BY <1>1 DEF Queue, Request
  <2>2. Total(Queue(u)) = Amount[r] + Total(Queue(u) \ {r})
        /\ Total(Queue(u) \ {r}) \in Int /\ Amount[r] \in Nat
    BY <2>1, TotalRemove
  <2>3. Total(Queue(u))' = Total(Queue(u) \ {r})
    BY <2>1 DEF Total, MapThenSumSet, MapThenFoldSet
  <2> QED BY <1>1, <2>2, <2>3
<1>2. CASE u # OwnerOf[r]
  <2>1. Queue(u)' = Queue(u)
    BY <1>2 DEF Queue, Request
  <2>2. Total(Queue(u))' = Total(Queue(u))
    BY <2>1 DEF Total, MapThenSumSet, MapThenFoldSet
  <2> QED BY <1>2, <2>2, QueueType
<1> QED BY <1>1, <1>2

LEMMA SameQueue ==
  ASSUME NEW u \in User,
         \A q \in Withdrawal : status'[q] \in Live <=> status[q] \in Live
  PROVE  Total(Queue(u))' = Total(Queue(u))
<1>1. Queue(u)' = Queue(u)
  BY DEF Queue
<1> QED BY <1>1 DEF Total, MapThenSumSet, MapThenFoldSet

-----------------------------------------------------------------------------
(* The buckets of a customer.                                              *)

LEMMA BucketsDiffer ==
  ASSUME NEW u \in User, NEW v \in User
  PROVE  /\ Available(v) = Available(u) <=> v = u
         /\ Margin(v) = Margin(u) <=> v = u
         /\ Pending(v) = Pending(u) <=> v = u
         /\ Available(v) \notin {Cash, Margin(u), Pending(u)}
         /\ Margin(v) \notin {Cash, Available(u), Pending(u)}
         /\ Pending(v) \notin {Cash, Available(u), Margin(u)}
BY DEF Available, Margin, Pending, Cash

Reserved ==
  \A u \in User : balance[Pending(u)] = Total(Queue(u))

Funds == TypeOK /\ NoOverdraft /\ Reserved

\* Money that goes from bucket d to bucket e of customer u keeps the books,
\* when the queues change with it.
LEMMA MoveKeepsFunds ==
  ASSUME Funds, TypeOK', NEW u \in User,
         NEW d \in {Cash, Available(u), Margin(u), Pending(u)},
         NEW e \in {Cash, Available(u), Margin(u), Pending(u)}, d # e,
         NEW n \in Nat,
         balance' = Move(balance, d, e, n),
         d \in {Available(u), Margin(u)} => balance[d] >= n,
         \A v \in User : Total(Queue(v))' =
           Total(Queue(v)) + (IF Pending(v) = e THEN n ELSE 0)
                           - (IF Pending(v) = d THEN n ELSE 0)
  PROVE  Funds'
<1>1. balance \in [Account -> Int] /\ n \in Int
  BY DEF Funds, TypeOK
<1>2. ASSUME NEW v \in User
      PROVE  /\ balance'[Available(v)] >= 0 /\ balance'[Margin(v)] >= 0
             /\ balance'[Pending(v)] = Total(Queue(v))'
  <2>1. \A a \in {Available(v), Margin(v), Pending(v)} :
           /\ a \in Account /\ balance[a] \in Int
           /\ balance'[a] = balance[a] + (IF a = e THEN n ELSE 0)
                                      - (IF a = d THEN n ELSE 0)
    <3>1. {d, e, Available(v), Margin(v), Pending(v)} \subseteq Account
      BY AccountsOfUser
    <3>2. \A a \in Account : balance'[a] =
            balance[a] + (IF a = e THEN n ELSE 0) - (IF a = d THEN n ELSE 0)
      BY <1>1, <3>1, MoveAt
    <3>3. \A a \in Account : balance[a] \in Int
      BY <1>1
    <3> QED BY <3>1, <3>2, <3>3
  <2>2. /\ balance[Available(v)] >= 0 /\ balance[Margin(v)] >= 0
        /\ balance[Pending(v)] = Total(Queue(v))
    BY DEF Funds, NoOverdraft, Reserved
  <2>3. Available(v) = d => balance[Available(v)] >= n
    BY BucketsDiffer
  <2>4. Margin(v) = d => balance[Margin(v)] >= n
    BY BucketsDiffer
  <2>5. balance'[Available(v)] >= 0
    BY <2>1, <2>2, <2>3
  <2>6. balance'[Margin(v)] >= 0
    BY <2>1, <2>2, <2>4
  <2>7. balance'[Pending(v)] = Total(Queue(v))'
    BY <2>1, <2>2
  <2> QED BY <2>5, <2>6, <2>7
<1> QED BY <1>2 DEF Funds, NoOverdraft, Reserved

LEMMA SameFunds ==
  ASSUME Funds, TypeOK', balance' = balance,
         \A q \in Withdrawal : status'[q] \in Live <=> status[q] \in Live
  PROVE  Funds'
<1>1. \A u \in User : Total(Queue(u))' = Total(Queue(u))
  BY SameQueue
<1> QED BY <1>1 DEF Funds, NoOverdraft, Reserved

LEMMA ReleaseKeepsFunds ==
  ASSUME Funds, TypeOK', NEW c \in Command, NEW reference,
         Reject(c) \/ Cancel(c), c.req \in Withdrawal,
         ReleaseReserved(c, reference)
  PROVE  Funds'
<1> DEFINE r == c.req
           u == OwnerOf[r]
<1>1. u \in User /\ Amount[r] \in Nat /\ r \in Withdrawal
  BY CommandFields
<1>2. balance' = Move(balance, Pending(u), Available(u), Amount[r])
  BY DEF ReleaseReserved, Post
<1>3. /\ status[r] \in Live /\ status'[r] \notin Live
      /\ \A q \in Request : q # r => status'[q] = status[q]
  BY CommandFields DEF Reject, CanReject, Cancel, Record, Live, Funds, TypeOK
<1>4. \A v \in User : Total(Queue(v))' =
        Total(Queue(v)) - (IF v = u THEN Amount[r] ELSE 0)
  BY <1>1, <1>3, Dequeued DEF Funds
<1>5. \A v \in User : Total(Queue(v)) \in Int
  BY QueueType
<1>6. ASSUME NEW v \in User
      PROVE  Total(Queue(v))' =
               Total(Queue(v)) + (IF Pending(v) = Available(u)
                                  THEN Amount[r] ELSE 0)
                               - (IF Pending(v) = Pending(u)
                                  THEN Amount[r] ELSE 0)
  BY <1>1, <1>4, <1>5, BucketsDiffer
<1>7. Pending(u) # Available(u) /\ Pending(u) \notin {Available(u), Margin(u)}
  BY <1>1, BucketsDiffer
<1> QED BY <1>1, <1>2, <1>6, <1>7, MoveKeepsFunds

\* Money that passes through an account does not stay there.
LEMMA MoveThrough ==
  ASSUME NEW b \in [Account -> Int], NEW d \in Account, NEW e \in Account,
         NEW f \in Account, d # e, d # f, e # f, NEW n \in Int
  PROVE  Move(Move(b, d, e, n), e, f, n) = Move(b, d, f, n)
<1> DEFINE c == Move(b, d, e, n)
<1>1. c \in [Account -> Int]
  BY MoveType
<1>2. \A a \in Account :
        c[a] = b[a] + (IF a = e THEN n ELSE 0) - (IF a = d THEN n ELSE 0)
  BY MoveAt
<1>3. \A a \in Account : Move(b, d, f, n)[a] =
        b[a] + (IF a = f THEN n ELSE 0) - (IF a = d THEN n ELSE 0)
  BY MoveAt
<1> HIDE DEF c
<1>4. \A a \in Account : Move(c, e, f, n)[a] =
        c[a] + (IF a = f THEN n ELSE 0) - (IF a = e THEN n ELSE 0)
  BY <1>1, MoveAt
<1>5. ASSUME NEW a \in Account
      PROVE  Move(c, e, f, n)[a] = Move(b, d, f, n)[a]
  <2>1. b[a] \in Int
    OBVIOUS
  <2> QED BY <1>2, <1>3, <1>4, <2>1
<1>6. Move(c, e, f, n) \in [Account -> Int]
      /\ Move(b, d, f, n) \in [Account -> Int]
  BY <1>1, MoveType
<1>7. Move(c, e, f, n) = Move(b, d, f, n)
  BY <1>5, <1>6
<1> QED BY <1>7 DEF c

LEMMA SettleKeepsFunds ==
  ASSUME Funds, TypeOK', NEW c \in Command, Approve(c)
  PROVE  Funds'
<1> DEFINE r == c.req
           u == OwnerOf[r]
<1>1. u \in User /\ Amount[r] \in Nat /\ r \in Request
  BY CommandFields
<1>2. /\ status[r] \in Live /\ status'[r] \notin Live
      /\ \A q \in Request : q # r => status'[q] = status[q]
  BY <1>1 DEF Approve, CanApprove, Approvable, Record, Live, Funds, TypeOK
<1>3. \A v \in User : Total(Queue(v)) \in Int
  BY QueueType
<1>4. CASE r \in Deposit
  <2>1. balance' = Move(balance, Cash, Available(u), Amount[r])
    BY <1>4 DEF Approve, Settle, Post
  <2>2. r \notin Withdrawal
    BY <1>4, RequestAssumption
  <2>3. \A v \in User : Total(Queue(v))' = Total(Queue(v))
    BY <1>2, <2>2, SameQueue DEF Request
  <2>4. ASSUME NEW v \in User
        PROVE  Total(Queue(v))' =
                 Total(Queue(v)) + (IF Pending(v) = Available(u)
                                    THEN Amount[r] ELSE 0)
                                 - (IF Pending(v) = Cash
                                    THEN Amount[r] ELSE 0)
    BY <1>1, <1>3, <2>3, BucketsDiffer
  <2>5. Cash \notin {Available(u), Margin(u)}
    BY <1>1, BucketsDiffer
  <2> QED BY <1>1, <2>1, <2>4, <2>5, MoveKeepsFunds
<1>5. CASE r \notin Deposit
  <2>1. balance' = Move(balance, Pending(u), Cash, Amount[r])
    BY <1>5 DEF Approve, Settle, Post
  <2>2. r \in Withdrawal
    BY <1>1, <1>5 DEF Request
  <2>3. \A v \in User : Total(Queue(v))' =
          Total(Queue(v)) - (IF v = u THEN Amount[r] ELSE 0)
    BY <1>1, <1>2, <2>2, Dequeued DEF Funds
  <2>4. ASSUME NEW v \in User
        PROVE  Total(Queue(v))' =
                 Total(Queue(v)) + (IF Pending(v) = Cash
                                    THEN Amount[r] ELSE 0)
                                 - (IF Pending(v) = Pending(u)
                                    THEN Amount[r] ELSE 0)
    BY <1>1, <1>3, <2>3, BucketsDiffer
  <2>5. Pending(u) # Cash /\ Pending(u) \notin {Available(u), Margin(u)}
    BY <1>1, BucketsDiffer
  <2> QED BY <1>1, <2>1, <2>4, <2>5, MoveKeepsFunds
<1> QED BY <1>4, <1>5

LEMMA UnsettleKeepsFunds ==
  ASSUME Funds, TypeOK', NEW c \in Command, Reverse(c)
  PROVE  Funds'
<1> DEFINE r == c.req
           u == OwnerOf[r]
           n == Amount[r]
<1>1. u \in User /\ n \in Nat /\ r \in Request
  BY CommandFields
<1>2. \A v \in User : Total(Queue(v))' = Total(Queue(v))
  <2>1. \A q \in Withdrawal : status'[q] \in Live <=> status[q] \in Live
    BY <1>1 DEF Reverse, CanReverse, Record, Live, Funds, TypeOK, Request
  <2> QED BY <2>1, SameQueue
<1>3. \A v \in User : Total(Queue(v)) \in Int
  BY QueueType
<1>4. CASE r \in Deposit
  <2>1. balance' = Move(balance, Available(u), Cash, n)
    BY <1>4 DEF Reverse, Unsettle, Post
  <2>2. balance[Available(u)] >= n
    BY <1>4 DEF Reverse, CanReverse
  <2>3. ASSUME NEW v \in User
        PROVE  Total(Queue(v))' =
                 Total(Queue(v)) + (IF Pending(v) = Cash THEN n ELSE 0)
                           - (IF Pending(v) = Available(u) THEN n ELSE 0)
    BY <1>1, <1>2, <1>3, BucketsDiffer
  <2>4. Available(u) # Cash /\ Available(u) # Margin(u)
    BY <1>1, BucketsDiffer
  <2> HIDE DEF n
  <2> QED BY <1>1, <2>1, <2>2, <2>3, <2>4, MoveKeepsFunds
<1>5. CASE r \notin Deposit
  <2> DEFINE b == Move(balance, Cash, Pending(u), n)
  <2>1. balance' = Move(b, Pending(u), Available(u), n)
    BY <1>5 DEF Reverse, Unsettle
  <2>2. {Cash, Pending(u), Available(u)} \subseteq Account
    BY <1>1, AccountsOfUser
  <2>3. Pending(u) # Cash /\ Available(u) # Cash /\ Pending(u) # Available(u)
    BY <1>1, BucketsDiffer
  <2>4. balance \in [Account -> Int] /\ n \in Int
    BY <1>1 DEF Funds, TypeOK
  <2>6. balance' = Move(balance, Cash, Available(u), n)
    <3> HIDE DEF n
    <3> QED BY <2>1, <2>2, <2>3, <2>4, MoveThrough
  <2>7. ASSUME NEW v \in User
        PROVE  Total(Queue(v))' =
                 Total(Queue(v)) + (IF Pending(v) = Available(u)
                                    THEN n ELSE 0)
                                 - (IF Pending(v) = Cash THEN n ELSE 0)
    BY <1>1, <1>2, <1>3, BucketsDiffer
  <2>8. Cash \notin {Available(u), Margin(u)}
    BY <1>1, BucketsDiffer
  <2> HIDE DEF n
  <2> QED BY <1>1, <2>3, <2>6, <2>7, <2>8, MoveKeepsFunds
<1> QED BY <1>4, <1>5

LEMMA SubmitKeepsFunds ==
  ASSUME Funds, TypeOK', NEW r \in Withdrawal, SubmitWithdrawal(r)
  PROVE  Funds'
<1> DEFINE u == OwnerOf[r]
<1>1. u \in User /\ Amount[r] \in Nat /\ r \in Request
  BY RequestAssumption DEF Request
<1>2. /\ status[r] \notin Live /\ status'[r] \in Live
      /\ \A q \in Request : q # r => status'[q] = status[q]
  BY <1>1 DEF SubmitWithdrawal, Live, Funds, TypeOK
<1>3. balance' = Move(balance, Available(u), Pending(u), Amount[r])
  BY DEF SubmitWithdrawal, Post
<1>4. balance[Available(u)] >= Amount[r]
  <2>1. Amount[r] <= balance[Available(u)]
    BY DEF SubmitWithdrawal, Withdrawable
  <2>2. balance[Available(u)] \in Int
    BY <1>1, AccountsOfUser DEF Funds, TypeOK
  <2> QED BY <1>1, <2>1, <2>2
<1>5. \A v \in User : Total(Queue(v))' =
        Total(Queue(v)) + (IF v = u THEN Amount[r] ELSE 0)
  BY <1>1, <1>2, Enqueued DEF Funds
<1>6. \A v \in User : Total(Queue(v)) \in Int
  BY QueueType
<1>7. ASSUME NEW v \in User
      PROVE  Total(Queue(v))' =
               Total(Queue(v)) + (IF Pending(v) = Pending(u)
                                  THEN Amount[r] ELSE 0)
                               - (IF Pending(v) = Available(u)
                                  THEN Amount[r] ELSE 0)
  BY <1>1, <1>5, <1>6, BucketsDiffer
<1>8. Available(u) # Pending(u) /\ Available(u) # Margin(u)
  BY <1>1, BucketsDiffer
<1> QED BY <1>1, <1>3, <1>4, <1>7, <1>8, MoveKeepsFunds

LEMMA MarginKeepsFunds ==
  ASSUME Funds, TypeOK', NEW u \in User, MarginMoves(u, MarginUnit)
  PROVE  Funds'
<1>1. ASSUME NEW v \in User
      PROVE  Total(Queue(v))' = Total(Queue(v)) /\ Total(Queue(v)) \in Int
  BY SameQueue, QueueType DEF MarginMoves
<1>2. ASSUME NEW v \in User
      PROVE  Pending(v) # Available(u) /\ Pending(v) # Margin(u)
  BY BucketsDiffer
<1>3. ASSUME NEW d \in {Available(u), Margin(u)},
             NEW e \in {Available(u), Margin(u)}, d # e,
             balance' = Move(balance, d, e, MarginUnit),
             balance[d] >= MarginUnit
      PROVE  Funds'
  <2>1. \A v \in User : Total(Queue(v))' =
          Total(Queue(v)) + (IF Pending(v) = e THEN MarginUnit ELSE 0)
                          - (IF Pending(v) = d THEN MarginUnit ELSE 0)
    BY <1>1, <1>2, <1>3
  <2>2. MarginUnit \in Nat
    BY BoundAssumption
  <2>3. d \in {Cash, Available(u), Margin(u), Pending(u)}
    OBVIOUS
  <2>4. e \in {Cash, Available(u), Margin(u), Pending(u)}
    OBVIOUS
  <2> QED BY <1>3, <2>1, <2>2, <2>3, <2>4, MoveKeepsFunds
<1>4. Available(u) # Margin(u)
  BY BucketsDiffer
<1> QED BY <1>3, <1>4 DEF MarginMoves

LEMMA InitFunds == Init => Funds
<1> SUFFICES ASSUME Init PROVE Funds
  OBVIOUS
<1>1. TypeOK
  BY InitTypes
<1>2. ASSUME NEW u \in User
      PROVE  /\ balance[Available(u)] >= 0 /\ balance[Margin(u)] >= 0
             /\ balance[Pending(u)] = Total(Queue(u))
  <2>1. {Available(u), Margin(u), Pending(u)} \subseteq Account
    BY AccountsOfUser
  <2>2. balance[Available(u)] = Opening[u]
    BY <2>1 DEF Init, Available
  <2>3. balance[Margin(u)] = 0 /\ balance[Pending(u)] = 0
    BY <2>1 DEF Init, Available, Margin, Pending
  <2>4. Queue(u) = {}
    BY DEF Init, Queue, Request, Live
  <2>5. Total(Queue(u)) = 0
    BY <2>4, TotalIsSum, SumEmpty
  <2> QED BY <2>2, <2>3, <2>5, RequestAssumption
<1> QED BY <1>1, <1>2 DEF Funds, NoOverdraft, Reserved

LEMMA FundsKept == Spec => []Funds
<1>1. Funds /\ TypeOK' /\ [Next]_vars => Funds'
  <2> SUFFICES ASSUME Funds, TypeOK', [Next]_vars PROVE Funds'
    OBVIOUS
  <2>1. ASSUME NEW c \in Command, PaymentCommand(c)
        PROVE  Funds'
    <3>1. CASE Approve(c)
      BY <3>1, SettleKeepsFunds
    <3>2. CASE Reverse(c)
      BY <3>2, UnsettleKeepsFunds
    <3>3. CASE (Reject(c) \/ Cancel(c)) /\ c.req \in Withdrawal
      BY <3>3, ReleaseKeepsFunds DEF Reject, Cancel
    <3>4. CASE (Reject(c) \/ Cancel(c)) /\ c.req \notin Withdrawal
      BY <3>4, CommandFields, SameFunds
      DEF Reject, Cancel, Record, Funds, TypeOK, Request
    <3>5. CASE Prepare(c)
      BY <3>5, CommandFields, SameFunds
      DEF Prepare, CanPrepare, Record, Live, Funds, TypeOK, Request
    <3>6. CASE Reconcile(c)
      BY <3>6, CommandFields, SameFunds
      DEF Reconcile, Record, Funds, TypeOK, Request
    <3>7. CASE AbortedAttempt(c)
      BY <3>7, SameFunds DEF AbortedAttempt
    <3> QED
      BY <2>1, <3>1, <3>2, <3>3, <3>4, <3>5, <3>6, <3>7 DEF PaymentCommand
  <2>2. ASSUME NEW r \in Withdrawal, SubmitWithdrawal(r)
        PROVE  Funds'
    BY <2>2, SubmitKeepsFunds
  <2>3. ASSUME NEW r \in Deposit, SubmitDeposit(r)
        PROVE  Funds'
    BY <2>3, RequestAssumption, SameFunds
    DEF SubmitDeposit, Funds, TypeOK, Request
  <2>4. ASSUME NEW u \in User, MarginMoves(u, MarginUnit)
        PROVE  Funds'
    BY <2>4, MarginKeepsFunds
  <2>5. CASE \/ \E r \in Deposit : ProofCleared(r) \/ ProofBlocked(r)
             \/ \E d \in Destination : CoolingOffEnds(d)
             \/ \E u \in User : BlockOpens(u) \/ BlockReleased(u)
             \/ UNCHANGED vars
    BY <2>5, SameFunds
    DEF ProofCleared, ProofBlocked, CoolingOffEnds, BlockOpens,
        BlockReleased, vars
  <2> QED BY <2>1, <2>2, <2>3, <2>4, <2>5 DEF Next
<1> QED BY Typing, InitFunds, <1>1, PTL DEF Spec

(***************************************************************************)
(* No customer account is ever overdrawn, for any amounts and any order of *)
(* withdrawals, trading, cancellations and reversals.                      *)
(***************************************************************************)
THEOREM Solvency == Spec => []NoOverdraft
<1>1. Funds => NoOverdraft
  BY DEF Funds
<1> QED BY <1>1, FundsKept, PTL

(***************************************************************************)
(* The pending bucket holds exactly what the open withdrawals of its owner *)
(* ask for, however many there are.                                        *)
(***************************************************************************)
THEOREM Reservation == Spec => []PendingIsReserved
<1>1. Funds => PendingIsReserved
  BY DEF Funds, Reserved, Queue, PendingIsReserved
<1> QED BY <1>1, FundsKept, PTL

-----------------------------------------------------------------------------
(* The holdings and the cash account.                                      *)

\* What is approved adds up to an amount.
LEMMA ApprovedType ==
  ASSUME NEW S \in SUBSET Request
  PROVE  Total(Approved(S)) \in Int
<1>1. IsFiniteSet(Approved(S)) /\ \A q \in Approved(S) : Amount[q] \in Int
  BY RequestAssumption, FS_Subset DEF Approved
<1> QED BY <1>1, SumType, TotalIsSum

\* What the approval of one request adds to a total, and its reversal takes.
LEMMA ApprovedChange ==
  ASSUME NEW S \in SUBSET Request, NEW r \in Request,
         \A q \in Request : q # r => status'[q] = status[q]
  PROVE  /\ status[r] # "APPROVED" /\ status'[r] = "APPROVED" =>
              Total(Approved(S))' =
                Total(Approved(S)) + (IF r \in S THEN Amount[r] ELSE 0)
         /\ status[r] = "APPROVED" /\ status'[r] # "APPROVED" =>
              Total(Approved(S))' =
                Total(Approved(S)) - (IF r \in S THEN Amount[r] ELSE 0)
<1> DEFINE A == Approved(S)
           B == {q \in S : status'[q] = "APPROVED"}
<1>1. Total(Approved(S))' = Total(B)
  BY DEF Approved, Total, MapThenSumSet, MapThenFoldSet
<1>2. A \in SUBSET Request /\ B \in SUBSET Request
  BY DEF Approved
<1>3. ASSUME NEW T \in SUBSET Request, r \in T
      PROVE  /\ Total(T) = Amount[r] + Total(T \ {r})
             /\ Total(T \ {r}) \in Int /\ Amount[r] \in Nat
  <2>1. /\ IsFiniteSet(T) /\ IsFiniteSet(T \ {r})
        /\ \A q \in T : Amount[q] \in Int
    BY RequestAssumption, FS_Subset
  <2> QED BY <1>3, <2>1, SumRemove, SumType, TotalIsSum, RequestAssumption
<1>4. Total(A) \in Int
  BY ApprovedType
<1>5. CASE r \notin S
  <2>1. A = B
    BY <1>5 DEF Approved
  <2> QED BY <1>1, <1>4, <1>5, <2>1
<1>6. CASE r \in S
  <2>1. ASSUME status[r] # "APPROVED", status'[r] = "APPROVED"
        PROVE  Total(B) = Total(A) + Amount[r]
    <3>1. r \in B /\ B \ {r} = A
      BY <1>6, <2>1 DEF Approved
    <3>2. Total(B) = Amount[r] + Total(B \ {r}) /\ Amount[r] \in Nat
      BY <1>2, <1>3, <3>1
    <3>3. Total(B) = Amount[r] + Total(A)
      BY <3>1, <3>2
    <3> QED BY <1>4, <3>2, <3>3
  <2>2. ASSUME status[r] = "APPROVED", status'[r] # "APPROVED"
        PROVE  Total(B) = Total(A) - Amount[r]
    <3>1. r \in A /\ A \ {r} = B
      BY <1>6, <2>2 DEF Approved
    <3>2. /\ Total(A) = Amount[r] + Total(A \ {r}) /\ Amount[r] \in Nat
          /\ Total(A \ {r}) \in Int
      BY <1>2, <1>3, <3>1
    <3>3. Total(A) = Amount[r] + Total(B) /\ Total(B) \in Int
      BY <3>1, <3>2
    <3> QED BY <3>2, <3>3
  <2> QED BY <1>1, <1>6, <2>1, <2>2
<1> QED BY <1>5, <1>6

\* A step that approves nothing and takes nothing back leaves the totals.
LEMMA SameApproved ==
  ASSUME NEW S \in SUBSET Request,
         \A q \in Request : status'[q] = "APPROVED" <=> status[q] = "APPROVED"
  PROVE  Total(Approved(S))' = Total(Approved(S))
<1>1. Approved(S)' = Approved(S)
  BY DEF Approved
<1> QED BY <1>1 DEF Total, MapThenSumSet, MapThenFoldSet

\* The cash account is one of the accounts.
LEMMA CashType == Cash \in Account /\ (TypeOK => balance[Cash] \in Int)
BY AccountsOfUser DEF TypeOK, Account

\* Money that stays with the customers does not touch the cash account.
LEMMA SameBooks ==
  ASSUME TypeOK, NoMoneyIsMade, AllHoldings' = AllHoldings,
         balance'[Cash] = balance[Cash],
         \A q \in Request : status'[q] = "APPROVED" <=> status[q] = "APPROVED"
  PROVE  NoMoneyIsMade'
<1>1. Deposit \in SUBSET Request /\ Withdrawal \in SUBSET Request
  BY DEF Request
<1>2. ASSUME NEW u \in User
      PROVE  /\ Of(u, Deposit) \in SUBSET Request
             /\ Of(u, Withdrawal) \in SUBSET Request
             /\ Holdings(u)' = Holdings(u)
  <2>1. AllHoldings'[u] = AllHoldings[u]
    OBVIOUS
  <2> QED BY <2>1 DEF AllHoldings, Of, Request
<1>3. ASSUME NEW S \in SUBSET Request
      PROVE  Total(Approved(S))' = Total(Approved(S))
  BY SameApproved
<1>4. ASSUME NEW u \in User
      PROVE  Holdings(u)' = Opening[u] + Total(Approved(Of(u, Deposit)))'
                                       - Total(Approved(Of(u, Withdrawal)))'
  <2>1. /\ Total(Approved(Of(u, Deposit)))' = Total(Approved(Of(u, Deposit)))
        /\ Total(Approved(Of(u, Withdrawal)))'
             = Total(Approved(Of(u, Withdrawal)))
    BY <1>2, SameApproved
  <2> QED BY <1>2, <2>1 DEF NoMoneyIsMade
<1>5. balance'[Cash] =
        Total(Approved(Withdrawal))' - Total(Approved(Deposit))'
  BY <1>1, SameApproved DEF NoMoneyIsMade
<1> QED BY <1>4, <1>5 DEF NoMoneyIsMade

\* The cash account is the other side of a settlement and of its return.
LEMMA SettleCash ==
  ASSUME TypeOK, NEW r \in Request
  PROVE  /\ Settle(r) => balance'[Cash] = balance[Cash] - Effect(r)
         /\ Unsettle(r) => balance'[Cash] = balance[Cash] + Effect(r)
<1> DEFINE u == OwnerOf[r]
<1>1. u \in User /\ Amount[r] \in Int /\ balance \in [Account -> Int]
  BY RequestAssumption DEF TypeOK
<1>2. /\ {Cash, Available(u), Pending(u)} \subseteq Account
      /\ Cash \notin {Available(u), Pending(u)}
      /\ Available(u) # Pending(u)
  BY <1>1, AccountsOfUser, BucketsDiffer
<1>3. balance[Cash] \in Int
  BY <1>1, <1>2
<1>4. ASSUME NEW x \in {Available(u), Pending(u)}
      PROVE  /\ Move(balance, Cash, x, Amount[r])[Cash]
                  = balance[Cash] - Amount[r]
             /\ Move(balance, x, Cash, Amount[r])[Cash]
                  = balance[Cash] + Amount[r]
  <2>1. x \in Account /\ Cash \in Account /\ x # Cash
    BY <1>2
  <2>2. /\ \A a \in Account : Move(balance, Cash, x, Amount[r])[a] =
             balance[a] + (IF a = x THEN Amount[r] ELSE 0)
                        - (IF a = Cash THEN Amount[r] ELSE 0)
        /\ \A a \in Account : Move(balance, x, Cash, Amount[r])[a] =
             balance[a] + (IF a = Cash THEN Amount[r] ELSE 0)
                        - (IF a = x THEN Amount[r] ELSE 0)
    BY <1>1, <2>1, MoveAt
  <2> QED BY <1>1, <1>3, <2>1, <2>2
<1>5. CASE r \in Deposit
  BY <1>1, <1>3, <1>4, <1>5 DEF Settle, Unsettle, Post, Effect
<1>6. CASE r \notin Deposit
  <2>1. Move(Move(balance, Cash, Pending(u), Amount[r]),
             Pending(u), Available(u), Amount[r])
          = Move(balance, Cash, Available(u), Amount[r])
    BY <1>1, <1>2, MoveThrough
  <2>2. Unsettle(r) =>
          balance' = Move(balance, Cash, Available(u), Amount[r])
    BY <1>6, <2>1 DEF Unsettle
  <2>3. Settle(r) => balance' = Move(balance, Pending(u), Cash, Amount[r])
    BY <1>6 DEF Settle, Post
  <2>4. Effect(r) = - Amount[r]
    BY <1>6 DEF Effect
  <2> QED BY <1>1, <1>3, <1>4, <2>2, <2>3, <2>4
<1> QED BY <1>5, <1>6

\* The books of a customer move with what is approved of him: by e for a
\* deposit, by - e for a withdrawal.
LEMMA SettleBooks ==
  ASSUME TypeOK, NoMoneyIsMade, NEW r \in Request, NEW e \in Int,
         \A q \in Request : q # r => status'[q] = status[q],
         \/ /\ e = Amount[r]
            /\ status[r] # "APPROVED" /\ status'[r] = "APPROVED"
         \/ /\ e = - Amount[r]
            /\ status[r] = "APPROVED" /\ status'[r] # "APPROVED",
         \A v \in User : Holdings(v)' =
           Holdings(v) + (IF v = OwnerOf[r]
                          THEN IF r \in Deposit THEN e ELSE - e ELSE 0),
         balance'[Cash] = balance[Cash] - (IF r \in Deposit THEN e ELSE - e)
  PROVE  NoMoneyIsMade'
<1>1. /\ Amount[r] \in Int /\ OwnerOf[r] \in User
      /\ r \in Deposit <=> r \notin Withdrawal
  BY RequestAssumption DEF Request
<1>2. ASSUME NEW S \in SUBSET Request
      PROVE  /\ Total(Approved(S))' =
                  Total(Approved(S)) + (IF r \in S THEN e ELSE 0)
             /\ Total(Approved(S)) \in Int
  <2>1. Total(Approved(S)) \in Int
    BY ApprovedType
  <2>2. CASE e = Amount[r] /\ status'[r] = "APPROVED"
    BY <1>1, <2>1, <2>2, ApprovedChange
  <2>3. CASE ~ (e = Amount[r] /\ status'[r] = "APPROVED")
    <3>1. Total(Approved(S))' =
            Total(Approved(S)) - (IF r \in S THEN Amount[r] ELSE 0)
      BY <2>3, ApprovedChange
    <3> QED BY <1>1, <2>1, <2>3, <3>1
  <2> QED BY <2>1, <2>2, <2>3
<1>3. ASSUME NEW u \in User
      PROVE  Holdings(u)' = Opening[u] + Total(Approved(Of(u, Deposit)))'
                                       - Total(Approved(Of(u, Withdrawal)))'
  <2>1. /\ Of(u, Deposit) \in SUBSET Request
        /\ Of(u, Withdrawal) \in SUBSET Request
        /\ r \in Of(u, Deposit) <=> r \in Deposit /\ u = OwnerOf[r]
        /\ r \in Of(u, Withdrawal) <=> r \in Withdrawal /\ u = OwnerOf[r]
    BY DEF Of, Request
  <2>2. PICK d \in Int : d = Total(Approved(Of(u, Deposit)))
    BY <1>2, <2>1
  <2>3. PICK w \in Int : w = Total(Approved(Of(u, Withdrawal)))
    BY <1>2, <2>1
  <2>4. /\ Total(Approved(Of(u, Deposit)))' =
             d + (IF r \in Of(u, Deposit) THEN e ELSE 0)
        /\ Total(Approved(Of(u, Withdrawal)))' =
             w + (IF r \in Of(u, Withdrawal) THEN e ELSE 0)
    BY <1>2, <2>1, <2>2, <2>3
  <2>5. Opening[u] \in Int /\ Holdings(u) = Opening[u] + d - w
    BY <2>2, <2>3, RequestAssumption DEF NoMoneyIsMade
  <2>6. CASE u # OwnerOf[r]
    BY <2>1, <2>4, <2>5, <2>6
  <2>7. CASE u = OwnerOf[r]
    BY <1>1, <2>1, <2>4, <2>5, <2>7
  <2> QED BY <2>6, <2>7
<1>4. balance'[Cash] =
        Total(Approved(Withdrawal))' - Total(Approved(Deposit))'
  <2>1. Deposit \in SUBSET Request /\ Withdrawal \in SUBSET Request
    BY DEF Request
  <2>2. PICK d \in Int : d = Total(Approved(Deposit))
    BY <1>2, <2>1
  <2>3. PICK w \in Int : w = Total(Approved(Withdrawal))
    BY <1>2, <2>1
  <2>4. /\ Total(Approved(Deposit))' = d + (IF r \in Deposit THEN e ELSE 0)
        /\ Total(Approved(Withdrawal))' =
             w + (IF r \in Withdrawal THEN e ELSE 0)
    BY <1>2, <2>1, <2>2, <2>3
  <2>5. balance[Cash] = w - d
    BY <2>2, <2>3 DEF NoMoneyIsMade
  <2> QED BY <1>1, <2>4, <2>5
<1> QED BY <1>3, <1>4 DEF NoMoneyIsMade

\* What moves between the buckets of one customer is no business of the
\* others, nor of the cash account.
LEMMA OwnMove ==
  ASSUME TypeOK, NEW u \in User, NEW x \in Own(u), NEW y \in Own(u), x # y,
         NEW n \in Int, balance' = Move(balance, x, y, n)
  PROVE  AllHoldings' = AllHoldings /\ balance'[Cash] = balance[Cash]
<1>1. balance \in [Account -> Int]
  BY DEF TypeOK
<1>2. \A v \in User : Held(balance', v) = Held(balance, v)
  BY <1>1, MoveHeld
<1>3. /\ {x, y, Cash} \subseteq Account /\ Cash \notin {x, y}
      /\ balance[Cash] \in Int
  <2>1. x \in Account /\ y \in Account
    BY AccountsOfUser DEF Own
  <2>2. Cash \notin {x, y}
    BY BucketsDiffer DEF Own
  <2> QED BY <2>1, <2>2, CashType
<1>4. balance'[Cash] = balance[Cash]
  <2>1. \A a \in Account : Move(balance, x, y, n)[a] =
          balance[a] + (IF a = y THEN n ELSE 0) - (IF a = x THEN n ELSE 0)
    BY <1>1, <1>3, MoveAt
  <2> QED BY <1>3, <2>1
<1> QED BY <1>2, <1>4 DEF AllHoldings, Holdings, Held

\* A command moves the holdings and the cash by what it approves or returns.
LEMMA CommandKeepsBooks ==
  ASSUME TypeOK, TypeOK', NoMoneyIsMade, NEW c \in Command, PaymentCommand(c)
  PROVE  NoMoneyIsMade'
<1> DEFINE r == c.req
           u == OwnerOf[r]
<1>1. r \in Request /\ u \in User /\ Amount[r] \in Nat
  BY CommandFields
<1>2. ASSUME NEW new, Record(c, new)
      PROVE  /\ status'[r] = new
             /\ \A q \in Request : q # r => status'[q] = status[q]
  BY <1>1, <1>2 DEF Record, TypeOK
<1>3. CASE Approve(c)
  <2>1. status[r] # "APPROVED" /\ status'[r] = "APPROVED"
    BY <1>2, <1>3 DEF Approve, CanApprove, Approvable, Live
  <2>2. \A v \in User : Holdings(v)' =
          Holdings(v) + (IF v = OwnerOf[r] THEN Effect(r) ELSE 0)
    BY <1>1, <1>3, SettleHeld DEF Approve
  <2>3. balance'[Cash] = balance[Cash] - Effect(r)
    BY <1>1, <1>3, SettleCash DEF Approve
  <2>4. Effect(r) = IF r \in Deposit THEN Amount[r] ELSE - Amount[r]
    BY DEF Effect
  <2>5. \A q \in Request : q # r => status'[q] = status[q]
    BY <1>2, <1>3 DEF Approve
  <2> HIDE DEF r
  <2> QED BY <1>1, <2>1, <2>2, <2>3, <2>4, <2>5, SettleBooks
<1>4. CASE Reverse(c)
  <2> DEFINE e == - Amount[r]
  <2>1. status[r] = "APPROVED" /\ status'[r] # "APPROVED"
    BY <1>2, <1>4 DEF Reverse, CanReverse
  <2>2. Effect(r) \in Int /\ - Effect(r) = (IF r \in Deposit THEN e ELSE - e)
    BY <1>1 DEF Effect
  <2>3. \A v \in User : Holdings(v)' =
          Holdings(v) - (IF v = OwnerOf[r] THEN Effect(r) ELSE 0)
    BY <1>1, <1>4, SettleHeld DEF Reverse
  <2>4. balance'[Cash] = balance[Cash] + Effect(r)
    BY <1>1, <1>4, SettleCash DEF Reverse
  <2>5. \A q \in Request : q # r => status'[q] = status[q]
    BY <1>2, <1>4 DEF Reverse
  <2>6. e \in Int /\ e = - Amount[r]
    BY <1>1
  <2>7. \A v \in User : Holdings(v) \in Int
    BY HoldingsType
  <2>8. balance[Cash] \in Int
    BY CashType
  <2> HIDE DEF r, e
  <2>9. \A v \in User : Holdings(v)' =
          Holdings(v) + (IF v = OwnerOf[r]
                         THEN IF r \in Deposit THEN e ELSE - e ELSE 0)
    BY <2>2, <2>3, <2>6, <2>7
  <2>10. balance'[Cash] = balance[Cash] - (IF r \in Deposit THEN e ELSE - e)
    BY <2>2, <2>4, <2>6, <2>8
  <2> QED BY <1>1, <2>1, <2>5, <2>6, <2>9, <2>10, SettleBooks
<1>5. CASE Reject(c) \/ Cancel(c)
  <2>1. \A q \in Request :
          status'[q] = "APPROVED" <=> status[q] = "APPROVED"
    BY <1>1, <1>2, <1>5 DEF Reject, CanReject, Cancel, Live
  <2>2. CASE balance' = balance
    BY <2>1, <2>2, SameBooks, SameHeld
  <2>3. CASE balance' # balance
    <3>1. balance' = Move(balance, Pending(u), Available(u), Amount[r])
      BY <1>5, <2>3 DEF Reject, Cancel, ReleaseReserved, Post
    <3>2. /\ Pending(u) \in Own(u) /\ Available(u) \in Own(u)
          /\ Pending(u) # Available(u)
      BY <1>1, BucketsDiffer DEF Own
    <3>3. AllHoldings' = AllHoldings /\ balance'[Cash] = balance[Cash]
      BY <1>1, <3>1, <3>2, OwnMove
    <3> QED BY <2>1, <3>3, SameBooks
  <2> QED BY <2>2, <2>3
<1>6. CASE Prepare(c) \/ Reconcile(c) \/ AbortedAttempt(c)
  <2>1. \A q \in Request :
          status'[q] = "APPROVED" <=> status[q] = "APPROVED"
    BY <1>1, <1>2, <1>6 DEF Prepare, CanPrepare, Reconcile, AbortedAttempt
  <2>2. balance' = balance
    BY <1>6 DEF Prepare, Reconcile, AbortedAttempt
  <2> QED BY <2>1, <2>2, SameBooks, SameHeld
<1> QED BY <1>3, <1>4, <1>5, <1>6 DEF PaymentCommand

\* No step makes money or loses any.
LEMMA BooksKept == Spec => []NoMoneyIsMade
<1>1. Init => NoMoneyIsMade
  <2> SUFFICES ASSUME Init PROVE NoMoneyIsMade
    OBVIOUS
  <2>1. \A S \in SUBSET Request : Approved(S) = {}
    BY DEF Init, Approved
  <2>2. \A S \in SUBSET Request : Total(Approved(S)) = 0
    BY <2>1, TotalIsSum, SumEmpty
  <2>3. ASSUME NEW u \in User
        PROVE  /\ Holdings(u) = Opening[u] /\ Opening[u] \in Int
               /\ Of(u, Deposit) \in SUBSET Request
               /\ Of(u, Withdrawal) \in SUBSET Request
    <3>1. {Available(u), Margin(u), Pending(u)} \subseteq Account
      BY AccountsOfUser
    <3>2. balance[Available(u)] = Opening[u]
      BY <3>1 DEF Init, Available
    <3>3. balance[Margin(u)] = 0 /\ balance[Pending(u)] = 0
      BY <3>1 DEF Init, Available, Margin, Pending
    <3> QED
      BY <3>2, <3>3, RequestAssumption DEF Holdings, Of, Request
  <2>4. balance[Cash] = 0
    BY DEF Init, Account, Cash, Available
  <2>5. Deposit \in SUBSET Request /\ Withdrawal \in SUBSET Request
    BY DEF Request
  <2> QED BY <2>2, <2>3, <2>4, <2>5 DEF NoMoneyIsMade
<1>2. NoMoneyIsMade /\ TypeOK /\ TypeOK' /\ [Next]_vars => NoMoneyIsMade'
  <2> SUFFICES ASSUME NoMoneyIsMade, TypeOK, TypeOK', [Next]_vars
               PROVE  NoMoneyIsMade'
    OBVIOUS
  <2>1. ASSUME NEW c \in Command, PaymentCommand(c)
        PROVE  NoMoneyIsMade'
    BY <2>1, CommandKeepsBooks
  <2>2. ASSUME NEW r \in Withdrawal, SubmitWithdrawal(r)
        PROVE  NoMoneyIsMade'
    <3> DEFINE u == OwnerOf[r]
    <3>1. r \in Request /\ u \in User /\ Amount[r] \in Int
      BY RequestAssumption DEF Request
    <3>2. balance' = Move(balance, Available(u), Pending(u), Amount[r])
      BY <2>2 DEF SubmitWithdrawal, Post
    <3>3. /\ Pending(u) \in Own(u) /\ Available(u) \in Own(u)
          /\ Pending(u) # Available(u)
      BY <3>1, BucketsDiffer DEF Own
    <3>4. AllHoldings' = AllHoldings /\ balance'[Cash] = balance[Cash]
      BY <3>1, <3>2, <3>3, OwnMove
    <3>5. \A q \in Request :
            status'[q] = "APPROVED" <=> status[q] = "APPROVED"
      BY <2>2, <3>1 DEF SubmitWithdrawal, TypeOK
    <3> QED BY <3>4, <3>5, SameBooks
  <2>3. ASSUME NEW r \in Deposit, SubmitDeposit(r)
        PROVE  NoMoneyIsMade'
    <3>1. \A q \in Request :
            status'[q] = "APPROVED" <=> status[q] = "APPROVED"
      BY <2>3 DEF SubmitDeposit, TypeOK, Request
    <3> QED BY <2>3, <3>1, SameBooks, SameHeld DEF SubmitDeposit
  <2>4. ASSUME NEW u \in User, MarginMoves(u, MarginUnit)
        PROVE  NoMoneyIsMade'
    <3>1. /\ Margin(u) \in Own(u) /\ Available(u) \in Own(u)
          /\ Margin(u) # Available(u) /\ MarginUnit \in Int
      BY BucketsDiffer, BoundAssumption DEF Own
    <3>2. \/ balance' = Move(balance, Available(u), Margin(u), MarginUnit)
          \/ balance' = Move(balance, Margin(u), Available(u), MarginUnit)
      BY <2>4 DEF MarginMoves
    <3>3. AllHoldings' = AllHoldings /\ balance'[Cash] = balance[Cash]
      BY <3>1, <3>2, OwnMove
    <3> QED BY <2>4, <3>3, SameBooks DEF MarginMoves
  <2>5. CASE \/ \E r \in Deposit : ProofCleared(r) \/ ProofBlocked(r)
             \/ \E d \in Destination : CoolingOffEnds(d)
             \/ \E u \in User : BlockOpens(u) \/ BlockReleased(u)
             \/ UNCHANGED vars
    <3>1. status' = status /\ balance' = balance
      BY <2>5
      DEF ProofCleared, ProofBlocked, CoolingOffEnds, BlockOpens,
          BlockReleased, vars
    <3> QED BY <3>1, SameBooks, SameHeld
  <2> QED BY <2>1, <2>2, <2>3, <2>4, <2>5 DEF Next
<1> QED BY Typing, <1>1, <1>2, PTL DEF Spec

-----------------------------------------------------------------------------
(* The transactions posted.                                                *)

EntryKind ==
  {"PAYMENT_SETTLEMENT", "PAYMENT_SETTLEMENT_REVERSAL",
   "WITHDRAWAL_RESERVATION", "WITHDRAWAL_REJECTION",
   "WITHDRAWAL_CANCELLATION", "WITHDRAWAL_RESERVATION_REVERSAL"}
Entered(kind, r) == <<kind, r>> \in posted

\* What is posted for a request follows from its status.
Follows(r) ==
  /\ Entered("PAYMENT_SETTLEMENT", r) <=> status[r] \in {"APPROVED", "REVERSED"}
  /\ Entered("PAYMENT_SETTLEMENT_REVERSAL", r) <=> status[r] = "REVERSED"
  /\ r \in Withdrawal =>
       /\ Entered("WITHDRAWAL_RESERVATION", r) <=> status[r] # "ABSENT"
       /\ Entered("WITHDRAWAL_REJECTION", r) <=> status[r] = "REJECTED"
       /\ Entered("WITHDRAWAL_CANCELLATION", r) <=> status[r] = "CANCELLED"
       /\ Entered("WITHDRAWAL_RESERVATION_REVERSAL", r)
            <=> status[r] = "REVERSED"

\* The entries that follow from a status say what the ledger can do next.
LEMMA FollowsIsEnough ==
  ASSUME TypeOK, \A r \in Request : Follows(r)
  PROVE  LedgerFollows
<1>1. ASSUME NEW r \in Request
      PROVE  Reversible("PAYMENT_SETTLEMENT", r) <=> status[r] = "APPROVED"
  BY DEF Follows, Entered, Reversible, Reversals
<1>2. ASSUME NEW r \in Withdrawal
      PROVE  Reversible("WITHDRAWAL_RESERVATION", r)
               <=> status[r] \in Live \cup {"APPROVED"}
  <2>1. r \in Request /\ status[r] \in Status
    BY DEF TypeOK, Request
  <2> QED
    BY <2>1 DEF Follows, Entered, Reversible, Reversals, Status, Live
<1> QED BY <1>1, <1>2 DEF LedgerFollows, Follows, Entered

\* Only the entries and the status of request r change.
LEMMA OneFollows ==
  ASSUME NEW r \in Request, \A q \in Request : Follows(q),
         \A q \in Request : q # r => status'[q] = status[q],
         \A q \in Request, kind \in EntryKind :
           q # r => (Entered(kind, q)' <=> Entered(kind, q)),
         Follows(r)'
  PROVE  \A q \in Request : Follows(q)'
<1> SUFFICES ASSUME NEW q \in Request, q # r PROVE Follows(q)'
  OBVIOUS
<1>1. /\ Entered("PAYMENT_SETTLEMENT", q)'
           <=> Entered("PAYMENT_SETTLEMENT", q)
      /\ Entered("PAYMENT_SETTLEMENT_REVERSAL", q)'
           <=> Entered("PAYMENT_SETTLEMENT_REVERSAL", q)
      /\ Entered("WITHDRAWAL_RESERVATION", q)'
           <=> Entered("WITHDRAWAL_RESERVATION", q)
      /\ Entered("WITHDRAWAL_REJECTION", q)'
           <=> Entered("WITHDRAWAL_REJECTION", q)
      /\ Entered("WITHDRAWAL_CANCELLATION", q)'
           <=> Entered("WITHDRAWAL_CANCELLATION", q)
      /\ Entered("WITHDRAWAL_RESERVATION_REVERSAL", q)'
           <=> Entered("WITHDRAWAL_RESERVATION_REVERSAL", q)
  BY DEF EntryKind
<1>2. Follows(q) /\ status'[q] = status[q]
  OBVIOUS
<1> QED BY <1>1, <1>2 DEF Follows

\* A command posts just the entries of the status it gives the request.
LEMMA CommandFollows ==
  ASSUME TypeOK, NEW c \in Command, PaymentCommand(c),
         \A q \in Request : Follows(q)
  PROVE  \A q \in Request : Follows(q)'
<1> DEFINE r == c.req
<1>1. r \in Request /\ (r \in Withdrawal <=> r \notin Deposit)
  BY CommandFields, RequestAssumption DEF Request
<1>2. ASSUME NEW new, Record(c, new)
      PROVE  /\ status'[r] = new
             /\ \A q \in Request : q # r => status'[q] = status[q]
  BY <1>1, <1>2 DEF Record, TypeOK
<1>3. Follows(r)
  BY <1>1
<1>4. CASE Approve(c)
  <2>1. posted' = posted \cup {<<"PAYMENT_SETTLEMENT", r>>}
    BY <1>4 DEF Approve, Settle, Post
  <2>2. status[r] \in Live /\ status'[r] = "APPROVED"
    BY <1>2, <1>4 DEF Approve, CanApprove, Approvable, Live
  <2>3. Follows(r)'
    BY <1>3, <2>1, <2>2 DEF Follows, Entered, Live
  <2> QED BY <1>1, <1>2, <1>4, <2>1, <2>3, OneFollows DEF Approve, Entered
<1>5. CASE Reject(c)
  <2>1. posted' = IF r \in Withdrawal
                  THEN posted \cup {<<"WITHDRAWAL_REJECTION", r>>} ELSE posted
    BY <1>5 DEF Reject, ReleaseReserved, Post
  <2>2. status[r] \in Live /\ status'[r] = "REJECTED"
    BY <1>2, <1>5 DEF Reject, CanReject
  <2>3. Follows(r)'
    BY <1>3, <2>1, <2>2 DEF Follows, Entered, Live
  <2> QED BY <1>1, <1>2, <1>5, <2>1, <2>3, OneFollows DEF Reject, Entered
<1>6. CASE Cancel(c)
  <2>1. posted' = IF r \in Withdrawal
                  THEN posted \cup {<<"WITHDRAWAL_CANCELLATION", r>>}
                  ELSE posted
    BY <1>6 DEF Cancel, ReleaseReserved, Post
  <2>2. status[r] \in Live /\ status'[r] = "CANCELLED"
    BY <1>2, <1>6 DEF Cancel
  <2>3. Follows(r)'
    BY <1>3, <2>1, <2>2 DEF Follows, Entered, Live
  <2> QED BY <1>1, <1>2, <1>6, <2>1, <2>3, OneFollows DEF Cancel, Entered
<1>7. CASE Reverse(c)
  <2>1. posted' = posted \cup
          IF r \in Deposit THEN {<<"PAYMENT_SETTLEMENT_REVERSAL", r>>}
          ELSE {<<"PAYMENT_SETTLEMENT_REVERSAL", r>>,
                <<"WITHDRAWAL_RESERVATION_REVERSAL", r>>}
    BY <1>7 DEF Reverse, Unsettle, Post
  <2>2. status[r] = "APPROVED" /\ status'[r] = "REVERSED"
    BY <1>2, <1>7 DEF Reverse, CanReverse
  <2>3. Follows(r)'
    BY <1>1, <1>3, <2>1, <2>2 DEF Follows, Entered
  <2> QED BY <1>1, <1>2, <1>7, <2>1, <2>3, OneFollows DEF Reverse, Entered
<1>8. CASE Prepare(c)
  <2>1. /\ status[r] = "PENDING" /\ status'[r] = "AWAITING_APPROVAL"
        /\ posted' = posted
    BY <1>2, <1>8 DEF Prepare, CanPrepare
  <2>2. Follows(r)'
    BY <1>3, <2>1 DEF Follows, Entered
  <2> QED BY <1>1, <1>2, <1>8, <2>1, <2>2, OneFollows DEF Prepare, Entered
<1>9. CASE Reconcile(c) \/ AbortedAttempt(c)
  <2>1. posted' = posted /\ \A q \in Request : status'[q] = status[q]
    BY <1>1, <1>2, <1>9 DEF Reconcile, AbortedAttempt
  <2> QED BY <2>1 DEF Follows, Entered
<1> QED
  BY <1>4, <1>5, <1>6, <1>7, <1>8, <1>9 DEF PaymentCommand

\* In every state the entries of a request are those of its status.
LEMMA FollowsKept == Spec => [](\A r \in Request : Follows(r))
<1> DEFINE J == \A r \in Request : Follows(r)
<1>1. Init => J
  BY DEF Init, Follows, Entered
<1>2. J /\ TypeOK /\ [Next]_vars => J'
  <2> SUFFICES ASSUME J, TypeOK, [Next]_vars PROVE J'
    OBVIOUS
  <2>1. ASSUME NEW c \in Command, PaymentCommand(c)
        PROVE  J'
    BY <2>1, CommandFollows
  <2>2. ASSUME NEW r \in Withdrawal, SubmitWithdrawal(r)
        PROVE  J'
    <3>1. r \in Request /\ Follows(r)
      BY DEF Request
    <3>2. /\ status[r] = "ABSENT" /\ status'[r] = "PENDING"
          /\ \A q \in Request : q # r => status'[q] = status[q]
          /\ posted' = posted \cup {<<"WITHDRAWAL_RESERVATION", r>>}
      BY <2>2, <3>1 DEF SubmitWithdrawal, Post, TypeOK
    <3>3. Follows(r)'
      BY <3>1, <3>2 DEF Follows, Entered
    <3> QED BY <3>1, <3>2, <3>3, OneFollows DEF Entered
  <2>3. ASSUME NEW r \in Deposit, SubmitDeposit(r)
        PROVE  J'
    <3>1. r \in Request /\ r \notin Withdrawal /\ Follows(r)
      BY RequestAssumption DEF Request
    <3>2. /\ status[r] = "ABSENT" /\ status'[r] = "PENDING"
          /\ \A q \in Request : q # r => status'[q] = status[q]
          /\ posted' = posted
      BY <2>3, <3>1 DEF SubmitDeposit, TypeOK
    <3>3. Follows(r)'
      BY <3>1, <3>2 DEF Follows, Entered
    <3> QED BY <3>1, <3>2, <3>3, OneFollows DEF Entered
  <2>4. CASE \/ \E r \in Deposit : ProofCleared(r) \/ ProofBlocked(r)
             \/ \E d \in Destination : CoolingOffEnds(d)
             \/ \E u \in User :
                  \/ BlockOpens(u) \/ BlockReleased(u)
                  \/ MarginMoves(u, MarginUnit)
             \/ UNCHANGED vars
    <3>1. status' = status /\ posted' = posted
      BY <2>4
      DEF ProofCleared, ProofBlocked, CoolingOffEnds, BlockOpens,
          BlockReleased, MarginMoves, vars
    <3> QED BY <3>1 DEF Follows, Entered
  <2> QED BY <2>1, <2>2, <2>3, <2>4 DEF Next
<1> QED BY Typing, <1>1, <1>2, PTL DEF Spec

(***************************************************************************)
(* For any customers, requests and amounts: the buckets and the cash       *)
(* account hold just what the statuses of the requests say, and the ledger *)
(* refuses nothing that a status allows.                                   *)
(***************************************************************************)
THEOREM Conservation == Spec => []BooksMatchRequests
<1>1. /\ Funds /\ NoMoneyIsMade /\ TypeOK /\ (\A r \in Request : Follows(r))
      => BooksMatchRequests
  BY FollowsIsEnough
  DEF Funds, Reserved, Queue, PendingIsReserved, BooksMatchRequests
<1> QED BY Typing, FundsKept, BooksKept, FollowsKept, <1>1, PTL

(***************************************************************************)
(* The CRM is told of an approval that is none only where a commit was     *)
(* refused after its callback had run: nothing else makes the message      *)
(* untrue, as a reversed approval was one.                                 *)
(***************************************************************************)
THEOREM OnlyRefusedCommitsMislead == Spec => [](aborts = 0 => CrmHearsFacts)
<1> DEFINE J == aborts = 0 => CrmHearsFacts
<1>1. Init => J
  BY DEF Init, CrmHearsFacts
<1>2. TypeOK /\ J /\ [Next]_vars => J'
  <2> SUFFICES ASSUME TypeOK, J, [Next]_vars, aborts' = 0
               PROVE  CrmHearsFacts'
    OBVIOUS
  <2>1. ASSUME NEW c \in Command, AbortedAttempt(c)
        PROVE  FALSE
    <3>1. aborts' = aborts + 1 /\ aborts \in 0..MaxAborts
      BY <2>1 DEF AbortedAttempt, TypeOK
    <3> QED BY <3>1, BoundAssumption
  <2>2. ASSUME NEW c \in Command, PaymentCommand(c), ~ AbortedAttempt(c)
        PROVE  CrmHearsFacts'
    <3> DEFINE r == c.req
    <3>1. r \in Request
      BY CommandFields
    <3>2. aborts' = aborts
      BY <2>2
      DEF PaymentCommand, Prepare, Approve, Reject, Cancel, Reverse,
          Reconcile, worldVars
    <3>3. CrmHearsFacts
      BY <3>2
    <3>4. \A q \in Request :
            q # r => status'[q] = status[q] /\ told'[q] = told[q]
      BY <2>2, <3>1
      DEF PaymentCommand, Prepare, Approve, Reject, Cancel, Reverse,
          Reconcile, Record, Announce, TypeOK
    <3>5. "approved" \in told'[r] => status'[r] \in {"APPROVED", "REVERSED"}
      <4>1. CASE Approve(c)
        BY <3>1, <4>1 DEF Approve, Record, TypeOK
      <4>2. CASE Reverse(c) \/ Reconcile(c)
        BY <3>1, <3>3, <4>2
        DEF Reverse, Reconcile, Record, TypeOK, CrmHearsFacts
      <4>3. CASE Prepare(c) \/ Reject(c) \/ Cancel(c)
        <5>1. status[r] \in Live /\ ("approved" \in told'[r] <=>
                                     "approved" \in told[r])
          BY <3>1, <4>3
          DEF Prepare, CanPrepare, Reject, CanReject, Cancel, Announce, Live,
              TypeOK
        <5> QED BY <3>1, <3>3, <5>1 DEF CrmHearsFacts, Live
      <4> QED BY <2>2, <4>1, <4>2, <4>3 DEF PaymentCommand
    <3> QED BY <3>1, <3>3, <3>4, <3>5 DEF CrmHearsFacts
  <2>3. ASSUME NEW r \in Request, SubmitDeposit(r) \/ SubmitWithdrawal(r)
        PROVE  CrmHearsFacts'
    <3>1. /\ aborts' = aborts /\ told' = told
          /\ status[r] = "ABSENT"
          /\ \A q \in Request : q # r => status'[q] = status[q]
      BY <2>3 DEF SubmitDeposit, SubmitWithdrawal, worldVars, TypeOK
    <3> QED BY <3>1 DEF CrmHearsFacts
  <2>4. CASE \/ \E r \in Deposit : ProofCleared(r) \/ ProofBlocked(r)
             \/ \E d \in Destination : CoolingOffEnds(d)
             \/ \E u \in User :
                  \/ BlockOpens(u) \/ BlockReleased(u)
                  \/ MarginMoves(u, MarginUnit)
             \/ UNCHANGED vars
    <3>1. status' = status /\ told' = told /\ aborts' = aborts
      BY <2>4
      DEF ProofCleared, ProofBlocked, CoolingOffEnds, BlockOpens,
          BlockReleased, MarginMoves, vars, worldVars
    <3> QED BY <3>1 DEF CrmHearsFacts
  <2>5. ASSUME NEW c \in Command, PaymentCommand(c)
        PROVE  CrmHearsFacts'
    BY <2>1, <2>2, <2>5
  <2>6. ASSUME NEW r \in Deposit, SubmitDeposit(r)
        PROVE  CrmHearsFacts'
    BY <2>3, <2>6 DEF Request
  <2>7. ASSUME NEW r \in Withdrawal, SubmitWithdrawal(r)
        PROVE  CrmHearsFacts'
    BY <2>3, <2>7 DEF Request
  <2> QED BY <2>4, <2>5, <2>6, <2>7 DEF Next
<1> QED BY Typing, <1>1, <1>2, PTL DEF Spec

-----------------------------------------------------------------------------
(* The daily limits.                                                       *)

LEMMA CountedFinite ==
  ASSUME NEW u
  PROVE  /\ Counted(u) \in SUBSET Withdrawal /\ IsFiniteSet(Counted(u))
         /\ Cardinality(Counted(u)) \in Nat /\ Total(Counted(u)) \in Int
<1>1. Counted(u) \in SUBSET Withdrawal /\ IsFiniteSet(Counted(u))
  BY RequestAssumption, FS_Subset DEF Counted, Request
<1>2. \A q \in Counted(u) : Amount[q] \in Int
  BY <1>1, RequestAssumption DEF Request
<1> QED BY <1>1, <1>2, SumType, TotalIsSum, FS_CardinalityType

WithinLimits(u) ==
  Total(Counted(u)) <= DailyLimit /\ Cardinality(Counted(u)) <= DailyCount

LEMMA SameCount ==
  ASSUME NEW u, WithinLimits(u), Counted(u)' = Counted(u)
  PROVE  WithinLimits(u)'
BY DEF WithinLimits, Total, MapThenSumSet, MapThenFoldSet

LEMMA LessCounted ==
  ASSUME NEW u, WithinLimits(u), NEW r \in Counted(u),
         Counted(u)' = Counted(u) \ {r}
  PROVE  WithinLimits(u)'
<1>1. PICK S : S = Counted(u) \ {r}
  OBVIOUS
<1>2. /\ Total(Counted(u)) = Amount[r] + Total(S) /\ Total(S) \in Int
      /\ Amount[r] \in Nat
  BY <1>1, CountedFinite, TotalRemove
<1>3. Cardinality(S) = Cardinality(Counted(u)) - 1
  BY <1>1, CountedFinite, FS_RemoveElement
<1>4. Total(S) <= DailyLimit /\ Cardinality(S) <= DailyCount
  BY <1>2, <1>3, CountedFinite, LimitAssumption DEF WithinLimits
<1>5. Total(Counted(u))' = Total(S)
  BY <1>1 DEF Total, MapThenSumSet, MapThenFoldSet
<1>6. Cardinality(Counted(u))' = Cardinality(S)
  BY <1>1
<1> QED BY <1>4, <1>5, <1>6 DEF WithinLimits

LEMMA MoreCounted ==
  ASSUME NEW u, NEW r \in Withdrawal, r \notin Counted(u),
         Cardinality(Counted(u)) < DailyCount,
         Total(Counted(u)) + Amount[r] <= DailyLimit,
         Counted(u)' = Counted(u) \cup {r}
  PROVE  WithinLimits(u)'
<1>1. PICK S : S = Counted(u) \cup {r}
  OBVIOUS
<1>2. S \in SUBSET Withdrawal /\ r \in S /\ S \ {r} = Counted(u)
  BY <1>1, CountedFinite
<1>3. Total(S) = Amount[r] + Total(Counted(u)) /\ Amount[r] \in Nat
  BY <1>2, TotalRemove
<1>4. Cardinality(S) = Cardinality(Counted(u)) + 1
  BY <1>1, CountedFinite, FS_AddElement
<1>5. Total(S) <= DailyLimit /\ Cardinality(S) <= DailyCount
  BY <1>3, <1>4, CountedFinite, LimitAssumption
<1>6. Total(Counted(u))' = Total(S)
  BY <1>1 DEF Total, MapThenSumSet, MapThenFoldSet
<1>7. Cardinality(Counted(u))' = Cardinality(S)
  BY <1>1
<1> QED BY <1>5, <1>6, <1>7 DEF WithinLimits

\* One request changes its status, and none that was not counted is now.
LEMMA StatusKeepsLimits ==
  ASSUME TypeOK, TypeOK', VelocityLimit, NEW r \in Request,
         \A q \in Request : q # r => status'[q] = status[q],
         r \in Deposit \/ status[r] \in Live \cup {"APPROVED"}
  PROVE  VelocityLimit'
<1>1. ASSUME NEW u \in User PROVE WithinLimits(u)'
  <2>1. WithinLimits(u)
    BY DEF VelocityLimit, WithinLimits
  <2>2. CASE r \in Counted(u) /\ r \notin Counted(u)'
    <3>1. Counted(u)' = Counted(u) \ {r}
      BY <2>2 DEF Counted, Request
    <3> QED BY <2>1, <2>2, <3>1, LessCounted
  <2>3. CASE ~ (r \in Counted(u) /\ r \notin Counted(u)')
    <3>1. Counted(u)' = Counted(u)
      BY <2>3, RequestAssumption DEF Counted, Request
    <3> QED BY <2>1, <3>1, SameCount
  <2> QED BY <2>2, <2>3
<1> QED BY <1>1 DEF VelocityLimit, WithinLimits

LEMMA SameStatusKeepsLimits ==
  ASSUME VelocityLimit, status' = status
  PROVE  VelocityLimit'
<1>1. ASSUME NEW u \in User PROVE WithinLimits(u)'
  <2>1. WithinLimits(u)
    BY DEF VelocityLimit, WithinLimits
  <2>2. Counted(u)' = Counted(u)
    BY DEF Counted
  <2> QED BY <2>1, <2>2, SameCount
<1> QED BY <1>1 DEF VelocityLimit, WithinLimits

LEMMA SubmitKeepsLimits ==
  ASSUME TypeOK, VelocityLimit, NEW r \in Withdrawal, SubmitWithdrawal(r)
  PROVE  VelocityLimit'
<1>1. r \in Request /\ status' = [status EXCEPT ![r] = "PENDING"]
      /\ status[r] = "ABSENT"
  BY DEF SubmitWithdrawal, Request
<1>2. ASSUME NEW u \in User PROVE WithinLimits(u)'
  <2>1. WithinLimits(u)
    BY DEF VelocityLimit, WithinLimits
  <2>2. CASE u = OwnerOf[r]
    <3>1. r \notin Counted(u) /\ Counted(u)' = Counted(u) \cup {r}
      BY <1>1, <2>2 DEF Counted, Request, Live, TypeOK
    <3>2. /\ Cardinality(Counted(u)) < DailyCount
          /\ Total(Counted(u)) + Amount[r] <= DailyLimit
      BY <2>2 DEF SubmitWithdrawal, WithinVelocity
    <3> QED BY <3>1, <3>2, MoreCounted
  <2>3. CASE u # OwnerOf[r]
    <3>1. Counted(u)' = Counted(u)
      BY <1>1, <2>3 DEF Counted, Request, TypeOK
    <3> QED BY <2>1, <3>1, SameCount
  <2> QED BY <2>2, <2>3
<1> QED BY <1>2 DEF VelocityLimit, WithinLimits

(***************************************************************************)
(* Concurrent withdrawals never exceed the daily amount or number, for any *)
(* limits and amounts.                                                     *)
(***************************************************************************)
THEOREM Velocity == Spec => []VelocityLimit
<1>1. Init => VelocityLimit
  <2> SUFFICES ASSUME Init, NEW u \in User
               PROVE  /\ Total(Counted(u)) <= DailyLimit
                      /\ Cardinality(Counted(u)) <= DailyCount
    BY DEF VelocityLimit
  <2>1. Counted(u) = {}
    BY DEF Init, Counted, Request, Live
  <2>2. Total(Counted(u)) = 0 /\ Cardinality(Counted(u)) = 0
    BY <2>1, TotalIsSum, SumEmpty, FS_EmptySet
  <2> QED BY <2>2, LimitAssumption
<1>2. VelocityLimit /\ TypeOK /\ TypeOK' /\ [Next]_vars => VelocityLimit'
  <2> SUFFICES ASSUME VelocityLimit, TypeOK, TypeOK', [Next]_vars
               PROVE  VelocityLimit'
    OBVIOUS
  <2>1. ASSUME NEW c \in Command, PaymentCommand(c)
        PROVE  VelocityLimit'
    <3>1. c.req \in Request
      BY CommandFields
    <3>2. CASE AbortedAttempt(c)
      BY <3>2, SameStatusKeepsLimits DEF AbortedAttempt
    <3>3. CASE Reconcile(c) /\ status[c.req] # "APPROVED"
      BY <3>1, <3>3, SameStatusKeepsLimits DEF Reconcile, Record, TypeOK
    <3>4. CASE \/ Prepare(c) \/ Approve(c) \/ Reject(c) \/ Cancel(c)
               \/ Reverse(c)
               \/ Reconcile(c) /\ status[c.req] = "APPROVED"
      <4>1. /\ \A q \in Request : q # c.req => status'[q] = status[q]
            /\ status[c.req] \in Live \cup {"APPROVED"}
        BY <3>4
        DEF Prepare, CanPrepare, Approve, CanApprove, Approvable, Reject,
            CanReject, Cancel, Reverse, CanReverse, Reconcile, Record, Live,
            TypeOK
      <4> QED BY <3>1, <4>1, StatusKeepsLimits
    <3> QED BY <2>1, <3>2, <3>3, <3>4 DEF PaymentCommand
  <2>2. ASSUME NEW r \in Deposit, SubmitDeposit(r)
        PROVE  VelocityLimit'
    BY <2>2, StatusKeepsLimits DEF SubmitDeposit, TypeOK, Request
  <2>3. ASSUME NEW r \in Withdrawal, SubmitWithdrawal(r)
        PROVE  VelocityLimit'
    BY <2>3, SubmitKeepsLimits
  <2>4. CASE \/ \E r \in Deposit : ProofCleared(r) \/ ProofBlocked(r)
             \/ \E d \in Destination : CoolingOffEnds(d)
             \/ \E u \in User : \/ BlockOpens(u) \/ BlockReleased(u)
                                \/ MarginMoves(u, MarginUnit)
             \/ UNCHANGED vars
    BY <2>4, SameStatusKeepsLimits
    DEF ProofCleared, ProofBlocked, CoolingOffEnds, BlockOpens,
        BlockReleased, MarginMoves, vars
  <2> QED BY <2>1, <2>2, <2>3, <2>4 DEF Next
<1> QED BY Typing, <1>1, <1>2, PTL DEF Spec

-----------------------------------------------------------------------------
(* What a step may never do.                                               *)

(***************************************************************************)
(* A repeated delivery changes nothing: every change of a verdict or of a  *)
(* reviewer, and every settlement, comes with one command recorded for     *)
(* that request which was not recorded before.                             *)
(***************************************************************************)
THEOREM Idempotence == Spec => ChangesAreRecorded
<1> DEFINE Recorded ==
      \A r \in Request :
        \/ verdict'[r] # verdict[r]
        \/ reviewedBy'[r] # reviewedBy[r]
        \/ <<"PAYMENT_SETTLEMENT", r>> \in posted' \ posted
        => \E c \in Command \ events : c.req = r /\ events' = events \cup {c}
<1>1. TypeOK /\ [Next]_vars => [Recorded]_vars
  <2> SUFFICES ASSUME TypeOK, Next PROVE Recorded
    OBVIOUS
  <2>1. ASSUME NEW c \in Command, PaymentCommand(c), ~ AbortedAttempt(c)
        PROVE  Recorded
    <3>1. /\ c \notin events /\ events' = events \cup {c}
          /\ \A r \in Request : r # c.req =>
               /\ verdict'[r] = verdict[r] /\ reviewedBy'[r] = reviewedBy[r]
               /\ <<"PAYMENT_SETTLEMENT", r>> \notin posted' \ posted
      <4>1. c \notin events /\ events' = events \cup {c}
        BY <2>1
        DEF PaymentCommand, Prepare, CanPrepare, Approve, CanApprove, Reject,
            CanReject, Cancel, Reverse, CanReverse, Reconcile, Record, Fresh
      <4>2. \A r \in Request : r # c.req =>
              verdict'[r] = verdict[r] /\ reviewedBy'[r] = reviewedBy[r]
        BY <2>1
        DEF PaymentCommand, Prepare, Approve, Reject, Cancel, Reverse,
            Reconcile, recordVars, TypeOK
      <4>3. \A r \in Request : r # c.req =>
              <<"PAYMENT_SETTLEMENT", r>> \notin posted' \ posted
        BY <2>1
        DEF PaymentCommand, Prepare, Approve, Reject, Cancel, Reverse,
            Reconcile, Settle, Unsettle, ReleaseReserved, Post
      <4> QED BY <4>1, <4>2, <4>3
    <3> QED BY <3>1
  <2>2. CASE /\ verdict' = verdict /\ reviewedBy' = reviewedBy
             /\ \A r \in Request :
                  <<"PAYMENT_SETTLEMENT", r>> \notin posted' \ posted
    BY <2>2
  <2>3. CASE \/ \E c \in Command : AbortedAttempt(c)
             \/ \E r \in Deposit :
                  SubmitDeposit(r) \/ ProofCleared(r) \/ ProofBlocked(r)
             \/ \E d \in Destination : CoolingOffEnds(d)
             \/ \E u \in User : \/ BlockOpens(u) \/ BlockReleased(u)
                                \/ MarginMoves(u, MarginUnit)
    <3>1. verdict' = verdict /\ reviewedBy' = reviewedBy /\ posted' = posted
      BY <2>3
      DEF AbortedAttempt, SubmitDeposit, ProofCleared, ProofBlocked,
          CoolingOffEnds, BlockOpens, BlockReleased, MarginMoves, recordVars
    <3> QED BY <2>2, <3>1
  <2>4. ASSUME NEW q \in Withdrawal, SubmitWithdrawal(q)
        PROVE  Recorded
    <3>1. /\ verdict' = verdict /\ reviewedBy' = reviewedBy
          /\ posted' = posted \cup {<<"WITHDRAWAL_RESERVATION", q>>}
      BY <2>4 DEF SubmitWithdrawal, Post, recordVars
    <3> QED BY <2>2, <3>1
  <2> QED BY <2>1, <2>3, <2>4 DEF Next
<1>2. TypeOK /\ [Next]_vars =>
        [ \A r \in Request :
            \/ verdict'[r] # verdict[r]
            \/ reviewedBy'[r] # reviewedBy[r]
            \/ <<"PAYMENT_SETTLEMENT", r>> \in posted' \ posted
            => \E c \in Command \ events :
                 c.req = r /\ events' = events \cup {c} ]_vars
  BY <1>1
<1> HIDE DEF Recorded
<1> QED BY <1>2, Typing, PTL DEF Spec, ChangesAreRecorded

(***************************************************************************)
(* While a discrepancy of the customer's account is under review, no       *)
(* withdrawal of his is opened, moved to approval or paid out, whenever    *)
(* the block appeared.                                                     *)
(***************************************************************************)
THEOREM BlockHolds == Spec => BlockStopsWithdrawals
<1>1. TypeOK /\ [Next]_vars =>
        [ \A r \in Withdrawal :
            OwnerOf[r] \in blocked /\ status'[r] # status[r]
              => status'[r] \in {"REJECTED", "CANCELLED", "REVERSED"} ]_vars
  <2> SUFFICES ASSUME TypeOK, Next, NEW r \in Withdrawal,
                      OwnerOf[r] \in blocked, status'[r] # status[r]
               PROVE  status'[r] \in {"REJECTED", "CANCELLED", "REVERSED"}
    OBVIOUS
  <2>0. r \in Request /\ r \notin Deposit
    BY RequestAssumption DEF Request
  <2>1. ASSUME NEW c \in Command, PaymentCommand(c)
        PROVE  status'[r] \in {"REJECTED", "CANCELLED", "REVERSED"}
    <3>1. c.req \in Request
      BY CommandFields
    <3>2. ASSUME NEW new, Record(c, new)
          PROVE  c.req = r /\ status'[r] = new
      BY <2>0, <3>1, <3>2 DEF Record, TypeOK
    <3>3. CASE Prepare(c)
      <4>1. c.req = r
        BY <3>2, <3>3 DEF Prepare
      <4> QED BY <3>3, <4>1 DEF Prepare, CanPrepare
    <3>4. CASE Approve(c)
      <4>1. c.req = r
        BY <3>2, <3>4 DEF Approve
      <4> QED BY <3>4, <4>1 DEF Approve, CanApprove
    <3>5. CASE Reject(c) \/ Cancel(c) \/ Reverse(c)
      BY <3>2, <3>5 DEF Reject, Cancel, Reverse
    <3>6. CASE Reconcile(c)
      <4>1. c.req = r /\ status'[r] = status[c.req]
        BY <3>2, <3>6 DEF Reconcile
      <4> QED BY <4>1
    <3>7. CASE AbortedAttempt(c)
      BY <3>7 DEF AbortedAttempt
    <3> QED
      BY <2>1, <3>3, <3>4, <3>5, <3>6, <3>7 DEF PaymentCommand
  <2>2. ASSUME NEW q \in Deposit, SubmitDeposit(q)
        PROVE  FALSE
    BY <2>0, <2>2 DEF SubmitDeposit, TypeOK
  <2>3. ASSUME NEW q \in Withdrawal, SubmitWithdrawal(q)
        PROVE  FALSE
    BY <2>0, <2>3 DEF SubmitWithdrawal, TypeOK
  <2>4. CASE \/ \E q \in Deposit : ProofCleared(q) \/ ProofBlocked(q)
             \/ \E d \in Destination : CoolingOffEnds(d)
             \/ \E u \in User : \/ BlockOpens(u) \/ BlockReleased(u)
                                \/ MarginMoves(u, MarginUnit)
    BY <2>4
    DEF ProofCleared, ProofBlocked, CoolingOffEnds, BlockOpens,
        BlockReleased, MarginMoves
  <2> QED BY <2>1, <2>2, <2>3, <2>4 DEF Next
<1> QED BY <1>1, Typing, PTL DEF Spec, BlockStopsWithdrawals
=============================================================================
