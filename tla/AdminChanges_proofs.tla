------------------------- MODULE AdminChanges_proofs -------------------------
(***************************************************************************)
(* The theorems about AdminChanges.  What makes them true is the isolation *)
(* of the transactions: as long as nobody else has written, what a review  *)
(* has read still holds when it commits.                                   *)
(***************************************************************************)
EXTENDS AdminChanges, FiniteSetTheorems, TLAPS

(* What a review has read and decided still holds. *)
Holds(w) ==
  LET r == review[w].request
  IN /\ MayCheck(review[w].checker, r)
     /\ review[w].verdict = "EXECUTED" =>
          /\ Executable(request[r].change)
          /\ review[w].flag = Flag(request[r].change)

ReadsHold == \A w \in Worker : review[w] # Idle /\ review[w].fresh => Holds(w)

IInv == TypeOK /\ ReadsHold

-----------------------------------------------------------------------------
(* Rows, requests and reviews by their kind.                               *)

LEMMA ReviewFields ==
  ASSUME NEW x \in Review
  PROVE  /\ x = Idle <=> x.at = "idle"
         /\ x # Idle => /\ x.at = "commit"
                        /\ x.request \in Request /\ x.checker \in User
                        /\ x.verdict \in {"REJECTED", "EXECUTED"}
                        /\ x.flag \in {"set", "clear", "keep"}
                        /\ x.fresh \in BOOLEAN
                        /\ [x EXCEPT !.fresh = FALSE] \in Review \ {Idle}
                        /\ [x EXCEPT !.fresh = FALSE].fresh = FALSE
<1> DEFINE Attempts ==
      [at: {"commit"}, request: Request, checker: User,
       verdict: {"REJECTED", "EXECUTED"},
       flag: {"set", "clear", "keep"}, fresh: BOOLEAN]
<1>1. CASE x = Idle
  BY <1>1 DEF Idle
<1>2. CASE x \in Attempts
  <2> DEFINE y == [x EXCEPT !.fresh = FALSE]
  <2>1. y \in Attempts /\ y.fresh = FALSE /\ y.at = "commit"
    BY <1>2
  <2>2. y # Idle /\ x # Idle
    BY <1>2, <2>1 DEF Idle
  <2>3. y \in Review
    BY <2>1 DEF Review
  <2> QED
    BY <1>2, <2>1, <2>2, <2>3
<1> QED
  BY <1>1, <1>2 DEF Review

LEMMA ChangeFields ==
  ASSUME NEW c \in Change
  PROVE  \/ /\ c.action \in {"ASSIGN_ROLE", "REVOKE_ROLE"}
            /\ c.domain = "ACCESS" /\ c.user \in User /\ c.role \in Role
         \/ c.action = "UPDATE" /\ c.domain \in Rule
  BY DEF Change

LEMMA RowFields ==
  ASSUME NEW x \in Row, x.status = "PENDING"
  PROVE  /\ x # Absent
         /\ x.change \in Change /\ x.maker \in User /\ x.checker \in SUBSET User
         /\ \A v \in {"REJECTED", "EXECUTED"}, u \in User :
              [x EXCEPT !.status = v, !.checker = {u}] \in Row
<1> DEFINE Rows == [status: {"PENDING", "REJECTED", "EXECUTED"},
                    change: Change, maker: User, checker: SUBSET User]
<1>1. x # Absent
  BY DEF Absent
<1>2. x \in Rows
  BY <1>1 DEF Row
<1>3. ASSUME NEW v \in {"REJECTED", "EXECUTED"}, NEW u \in User
      PROVE  [x EXCEPT !.status = v, !.checker = {u}] \in Rows
  BY <1>2
<1> QED
  BY <1>1, <1>2, <1>3 DEF Row

(* After a step that outdates them, the reviews are as before or stale.    *)
LEMMA OutdateType ==
  ASSUME NEW reviews \in [Worker -> Review]
  PROVE  /\ Outdate(reviews) \in [Worker -> Review]
         /\ \A w \in Worker : Outdate(reviews)[w] # Idle =>
              Outdate(reviews)[w].fresh = FALSE
<1>1. ASSUME NEW w \in Worker
      PROVE  /\ Outdate(reviews)[w] \in Review
             /\ Outdate(reviews)[w] # Idle => Outdate(reviews)[w].fresh = FALSE
  <2>1. CASE reviews[w] = Idle
    BY <2>1 DEF Outdate, Review
  <2>2. CASE reviews[w] # Idle
    BY <2>2, ReviewFields DEF Outdate
  <2> QED
    BY <2>1, <2>2
<1> QED
  BY <1>1 DEF Outdate

LEMMA CommitFacts ==
  ASSUME IInv, NEW w \in Worker, Commit(w)
  PROVE  /\ review[w] # Idle /\ review[w] \in Review
         /\ review[w].request \in Request
         /\ Holds(w)
         /\ request[review[w].request].status = "PENDING"
         /\ request[review[w].request].change \in Change
         /\ review[w].verdict \in {"REJECTED", "EXECUTED"}
         /\ review[w].checker \in User
<1>1. review[w] # Idle /\ review[w].fresh /\ review[w] \in Review
  BY DEF Commit, MayCommit, IInv, TypeOK
<1>2. Holds(w)
  BY <1>1 DEF IInv, ReadsHold
<1>3. /\ review[w].request \in Request /\ review[w].checker \in User
      /\ review[w].verdict \in {"REJECTED", "EXECUTED"}
  BY <1>1, ReviewFields
<1>4. request[review[w].request].status = "PENDING"
  BY <1>2 DEF Holds, MayCheck
<1>5. request[review[w].request] \in Row
  BY <1>3 DEF IInv, TypeOK
<1> QED
  BY <1>1, <1>2, <1>3, <1>4, <1>5, RowFields

-----------------------------------------------------------------------------
(* What an execution does to the roles and the flag.                       *)

LEMMA ExecuteKeeps ==
  ASSUME TypeOK, NEW c \in Change, Execute(c, Flag(c))
  PROVE  /\ isAdmin' \subseteq User
         /\ held' \in [User -> SUBSET Role]
         /\ revision' \in [Rule -> Nat]
         /\ \A u \in User : held'[u] # {} => u \in isAdmin'
<1> USE DEF TypeOK
<1>1. CASE c.action = "ASSIGN_ROLE"
  <2>1. c.user \in User /\ c.role \in Role
    BY <1>1, ChangeFields
  <2>2. /\ held' = [held EXCEPT ![c.user] = @ \cup {c.role}]
        /\ isAdmin' = isAdmin \cup {c.user}
        /\ revision' = revision
    BY <1>1 DEF Execute, Flag
  <2> QED
    BY <2>1, <2>2
<1>2. CASE c.action = "REVOKE_ROLE"
  <2>1. c.user \in User /\ c.role \in Role
    BY <1>2, ChangeFields
  <2>2. held' = [held EXCEPT ![c.user] = @ \ {c.role}] /\ revision' = revision
    BY <1>2 DEF Execute
  <2>3. CASE held[c.user] = {c.role}
    <3>1. isAdmin' = isAdmin \ {c.user}
      BY <1>2, <2>3 DEF Execute, Flag
    <3> QED
      BY <2>1, <2>2, <2>3, <3>1
  <2>4. CASE held[c.user] # {c.role}
    <3>1. isAdmin' = isAdmin
      BY <1>2, <2>4 DEF Execute, Flag
    <3> QED
      BY <2>1, <2>2, <3>1
  <2> QED
    BY <2>3, <2>4
<1>3. CASE c.action = "UPDATE"
  <2>1. c.domain \in Rule
    BY <1>3, ChangeFields
  <2>2. /\ held' = held /\ isAdmin' = isAdmin
        /\ revision' = [revision EXCEPT ![c.domain] = @ + 1]
    BY <1>3 DEF Execute, Flag
  <2> QED
    BY <2>1, <2>2
<1> QED
  BY <1>1, <1>2, <1>3, ChangeFields

-----------------------------------------------------------------------------
(* The steps.                                                              *)

LEMMA InitIInv == Init => IInv
<1> SUFFICES ASSUME Init PROVE IInv
  OBVIOUS
<1>1. held \in [User -> SUBSET Role]
  BY StaffAssumption DEF Init
<1>2. Idle \in Review /\ Absent \in Row
  BY DEF Review, Row
<1> QED
  BY <1>1, <1>2 DEF Init, IInv, TypeOK, ReadsHold

(* What a review has read depends on the rows it names only.               *)
LEMMA SameReads ==
  ASSUME isAdmin' = isAdmin, held' = held,
         NEW w \in Worker, review'[w] = review[w], Holds(w),
         request'[review[w].request] = request[review[w].request]
  PROVE  Holds(w)'
<1>1. MayCheck(review[w].checker, review[w].request)'
  BY DEF Holds, MayCheck, MayReview, Roles
<1>2. (SuperAdmins)' = SuperAdmins
  BY DEF SuperAdmins
<1>3. ASSUME review[w].verdict = "EXECUTED"
      PROVE  /\ Executable(request[review[w].request].change)'
             /\ review'[w].flag = Flag(request[review[w].request].change)'
  <2> DEFINE c == request[review[w].request].change
  <2>1. Executable(c) /\ review[w].flag = Flag(c)
    BY <1>3 DEF Holds
  <2>2. c' = c
    OBVIOUS
  <2>3. Executable(c)'
    BY <1>2, <2>1, <2>2 DEF Executable
  <2>4. Flag(c)' = Flag(c)
    BY <2>2 DEF Flag
  <2> QED
    BY <2>1, <2>3, <2>4
<1> QED
  BY <1>1, <1>3 DEF Holds

LEMMA CreatePreserves ==
  ASSUME IInv, NEW u \in User, NEW r \in Request, NEW change \in Change,
         CreateRequest(u, r, change)
  PROVE  IInv'
<1> DEFINE new == [status |-> "PENDING", change |-> change, maker |-> u,
                   checker |-> {}]
<1>1. /\ request' = [request EXCEPT ![r] = new] /\ request[r] = Absent
      /\ review' = review /\ isAdmin' = isAdmin /\ held' = held
      /\ revision' = revision
  BY DEF CreateRequest, books
<1>2. TypeOK'
  <2>1. new \in Row
    BY DEF Row
  <2> QED
    BY <1>1, <2>1 DEF IInv, TypeOK
<1>3. ASSUME NEW w \in Worker, review[w] # Idle, review[w].fresh, Holds(w)
      PROVE  Holds(w)'
  <2>1. review[w].request # r
    BY <1>1, <1>3 DEF Holds, MayCheck, Absent
  <2>2. review[w].request \in Request
    BY <1>3, ReviewFields DEF IInv, TypeOK
  <2>3. request'[review[w].request] = request[review[w].request]
    BY <1>1, <2>1, <2>2 DEF IInv, TypeOK
  <2> QED
    BY <1>1, <1>3, <2>3, SameReads
<1> QED
  BY <1>1, <1>2, <1>3 DEF IInv, ReadsHold

LEMMA BeginPreserves ==
  ASSUME IInv, NEW w \in Worker, NEW u \in User, NEW r \in Request,
         Begin(w, u, r)
  PROVE  IInv'
<1> DEFINE Attempt(verdict, flag) ==
             [at |-> "commit", request |-> r, checker |-> u,
              verdict |-> verdict, flag |-> flag, fresh |-> TRUE]
           change == request[r].change
<1>1. /\ request' = request /\ isAdmin' = isAdmin /\ held' = held
      /\ revision' = revision /\ MayCheck(u, r)
  BY DEF Begin, books
<1>2. PICK a : /\ review' = [review EXCEPT ![w] = a]
               /\ \/ a = Attempt("REJECTED", "keep")
                  \/ /\ a = Attempt("EXECUTED", Flag(change))
                     /\ Executable(change)
  BY DEF Begin
<1>3. request[r].change \in Change
  BY RowFields DEF Begin, MayCheck, IInv, TypeOK
<1>4. a \in Review
  <2>1. Flag(change) \in {"set", "clear", "keep"}
    BY <1>3, ChangeFields DEF Flag
  <2>2. ASSUME NEW verdict \in {"REJECTED", "EXECUTED"},
               NEW flag \in {"set", "clear", "keep"}
        PROVE  Attempt(verdict, flag) \in Review
    BY DEF Review
  <2> HIDE DEF Attempt
  <2> QED
    BY <1>2, <2>1, <2>2
<1>5. TypeOK'
  BY <1>1, <1>2, <1>4 DEF IInv, TypeOK
<1>6. Holds(w)'
  <2>1. review'[w] = a
    BY <1>2 DEF IInv, TypeOK
  <2>2. review'[w].request = r /\ review'[w].checker = u
    BY <1>2, <2>1
  <2>3. MayCheck(review[w].checker, review[w].request)'
    BY <1>1, <2>2 DEF MayCheck, MayReview, Roles
  <2>4. (SuperAdmins)' = SuperAdmins
    BY <1>1 DEF SuperAdmins
  <2>5. ASSUME review'[w].verdict = "EXECUTED"
        PROVE  review'[w].flag = Flag(change) /\ Executable(change)
    BY <1>2, <2>1, <2>5
  <2>6. Executable(change)' <=> Executable(change)
    BY <1>1, <2>4 DEF Executable
  <2>7. Flag(change)' = Flag(change)
    BY <1>1 DEF Flag
  <2>8. (request[review[w].request].change)' = change
    BY <1>1, <2>2
  <2> QED
    BY <2>3, <2>5, <2>6, <2>7, <2>8, <1>1, <2>2 DEF Holds
<1>7. ASSUME NEW v \in Worker, v # w, review'[v] # Idle, review'[v].fresh
      PROVE  Holds(v)'
  <2>1. review'[v] = review[v]
    BY <1>2, <1>7 DEF IInv, TypeOK
  <2>2. Holds(v)
    BY <1>7, <2>1 DEF IInv, ReadsHold
  <2> QED
    BY <1>1, <2>1, <2>2, SameReads
<1> QED
  BY <1>5, <1>6, <1>7 DEF IInv, ReadsHold

LEMMA CommitPreserves ==
  ASSUME IInv, NEW w \in Worker, Commit(w)
  PROVE  IInv'
<1> DEFINE r == review[w].request
           done == [review EXCEPT ![w] = Idle]
<1>1. /\ review[w].verdict \in {"REJECTED", "EXECUTED"}
      /\ review[w].checker \in User /\ r \in Request
      /\ request[r].status = "PENDING" /\ request[r].change \in Change
      /\ Holds(w)
  BY CommitFacts
<1>2. done \in [Worker -> Review]
  BY DEF IInv, TypeOK, Review
<1>3. /\ review' = Outdate(done)
      /\ request' = [request EXCEPT ![r].status = review[w].verdict,
                                    ![r].checker = {review[w].checker}]
  BY DEF Commit
<1>4. review' \in [Worker -> Review]
  BY <1>2, <1>3, OutdateType
<1>5. request' \in [Request -> Row]
  <2>1. request[r] \in Row
    BY <1>1 DEF IInv, TypeOK
  <2>2. [request[r] EXCEPT !.status = review[w].verdict,
                           !.checker = {review[w].checker}] \in Row
    BY <1>1, <2>1, RowFields
  <2> QED
    BY <1>1, <1>3, <2>2 DEF IInv, TypeOK
<1>6. /\ isAdmin' \subseteq User
      /\ held' \in [User -> SUBSET Role]
      /\ revision' \in [Rule -> Nat]
      /\ \A u \in User : held'[u] # {} => u \in isAdmin'
  <2>1. CASE review[w].verdict = "EXECUTED"
    <3>1. Execute(request[r].change, Flag(request[r].change))
      BY <1>1, <2>1 DEF Commit, Holds
    <3> QED
      BY <1>1, <3>1, ExecuteKeeps DEF IInv
  <2>2. CASE review[w].verdict # "EXECUTED"
    BY <2>2 DEF Commit, books, IInv, TypeOK
  <2> QED
    BY <2>1, <2>2
<1>7. ReadsHold'
  BY <1>2, <1>3, OutdateType DEF ReadsHold
<1> QED
  BY <1>4, <1>5, <1>6, <1>7 DEF IInv, TypeOK

LEMMA RollbackPreserves ==
  ASSUME IInv, NEW w \in Worker, Rollback(w)
  PROVE  IInv'
<1>1. /\ review' = [review EXCEPT ![w] = Idle]
      /\ request' = request /\ isAdmin' = isAdmin /\ held' = held
      /\ revision' = revision
  BY DEF Rollback, books
<1>2. TypeOK'
  BY <1>1 DEF IInv, TypeOK, Review
<1>3. ASSUME NEW v \in Worker, review'[v] # Idle, review'[v].fresh
      PROVE  Holds(v)'
  <2>1. review'[v] = review[v]
    BY <1>1, <1>3 DEF IInv, TypeOK
  <2>2. Holds(v)
    BY <1>3, <2>1 DEF IInv, ReadsHold
  <2> QED
    BY <1>1, <2>1, <2>2, SameReads
<1> QED
  BY <1>2, <1>3 DEF IInv, ReadsHold

LEMMA PromotePreserves ==
  ASSUME IInv, NEW u \in User, Promote(u)
  PROVE  IInv'
<1>1. /\ isAdmin' = isAdmin \cup {u} /\ review' = Outdate(review)
      /\ held' = held /\ revision' = revision /\ request' = request
  BY DEF Promote
<1>2. review \in [Worker -> Review]
  BY DEF IInv, TypeOK
<1>3. TypeOK'
  BY <1>1, <1>2, OutdateType DEF IInv, TypeOK
<1>4. ReadsHold'
  BY <1>1, <1>2, OutdateType DEF ReadsHold
<1> QED
  BY <1>3, <1>4 DEF IInv

(***************************************************************************)
(* The inductive invariant: types, and that a review nobody has outdated   *)
(* may still be made, executed and with the same effect on isAdmin.  A     *)
(* transaction that commits therefore acts on what is true, which is what  *)
(* adminChanges.ts relies on.                                              *)
(***************************************************************************)
THEOREM Invariance == Spec => []IInv
<1>1. IInv /\ [Next]_vars => IInv'
  <2> SUFFICES ASSUME IInv, [Next]_vars PROVE IInv'
    OBVIOUS
  <2>1. ASSUME NEW u \in User, NEW r \in Request, NEW change \in Change,
               CreateRequest(u, r, change)
        PROVE  IInv'
    BY <2>1, CreatePreserves
  <2>2. ASSUME NEW u \in User, NEW r \in Request, NEW w \in Worker,
               Begin(w, u, r)
        PROVE  IInv'
    BY <2>2, BeginPreserves
  <2>3. ASSUME NEW w \in Worker, Commit(w) PROVE IInv'
    BY <2>3, CommitPreserves
  <2>4. ASSUME NEW w \in Worker, Rollback(w) PROVE IInv'
    BY <2>4, RollbackPreserves
  <2>5. ASSUME NEW u \in User, Promote(u) PROVE IInv'
    BY <2>5, PromotePreserves
  <2>6. CASE UNCHANGED vars
    BY <2>6
    DEF vars, books, IInv, TypeOK, ReadsHold, Holds, MayCheck, MayReview,
        Roles, Executable, SuperAdmins, Flag
  <2> QED
    BY <2>1, <2>2, <2>3, <2>4, <2>5, <2>6 DEF Next
<1> QED
  BY <1>1, InitIInv, PTL DEF Spec

(***************************************************************************)
(* Users, roles, requests and reviews keep their types, and whoever has an *)
(* active role row has the flag isAdmin, so that no role is held in vain.  *)
(***************************************************************************)
THEOREM Typing == Spec => []TypeOK
<1>1. IInv => TypeOK
  BY DEF IInv
<1> QED
  BY <1>1, Invariance, PTL

-----------------------------------------------------------------------------
(* Properties of the steps.                                                *)

LEMMA TwoMembers ==
  ASSUME NEW S, IsFiniteSet(S), Cardinality(S) > 1, NEW x
  PROVE  \E y \in S : y # x
<1> SUFFICES ASSUME S \subseteq {x} PROVE FALSE
  OBVIOUS
<1>1. IsFiniteSet({x}) /\ Cardinality({x}) = 1
  BY FS_Singleton
<1>2. Cardinality(S) <= 1
  BY <1>1, FS_Subset
<1>3. Cardinality(S) \in Nat
  BY FS_CardinalityType
<1> QED
  BY <1>2, <1>3

(* A step other than the execution of a request writes no role row and no  *)
(* rule, and sets the flag of one user at most.                            *)
LEMMA OnlyExecutionWrites ==
  ASSUME IInv, Next
  PROVE  \/ \E w \in Worker :
              /\ Commit(w)
              /\ review[w].verdict = "EXECUTED"
              /\ Execute(request[review[w].request].change,
                         Flag(request[review[w].request].change))
         \/ held' = held /\ isAdmin' = isAdmin /\ revision' = revision
         \/ \E v \in User : Promote(v)
<1>1. ASSUME NEW w \in Worker, Commit(w)
      PROVE  \/ /\ review[w].verdict = "EXECUTED"
                /\ Execute(request[review[w].request].change,
                           Flag(request[review[w].request].change))
             \/ held' = held /\ isAdmin' = isAdmin /\ revision' = revision
  <2>1. CASE review[w].verdict = "EXECUTED"
    <3>1. review[w].flag = Flag(request[review[w].request].change)
      BY <1>1, <2>1, CommitFacts DEF Holds
    <3> QED
      BY <1>1, <2>1, <3>1 DEF Commit
  <2>2. CASE review[w].verdict # "EXECUTED"
    BY <1>1, <2>2 DEF Commit, books
  <2> QED
    BY <2>1, <2>2
<1>2. ASSUME NEW u \in User, NEW r \in Request,
             \/ \E change \in Change : CreateRequest(u, r, change)
             \/ \E w \in Worker : Begin(w, u, r)
      PROVE  held' = held /\ isAdmin' = isAdmin /\ revision' = revision
  BY <1>2 DEF CreateRequest, Begin, books
<1>3. ASSUME NEW w \in Worker, Rollback(w)
      PROVE  held' = held /\ isAdmin' = isAdmin /\ revision' = revision
  BY <1>3 DEF Rollback, books
<1> QED
  BY <1>1, <1>2, <1>3 DEF Next

LEMMA ExecutionLeavesSuperAdmin ==
  ASSUME TypeOK, NEW c \in Change, Executable(c), Execute(c, Flag(c)),
         SuperAdmins # {}
  PROVE  SuperAdmins' # {}
<1>1. PICK u \in User : "SUPER_ADMIN" \in held[u]
  BY DEF SuperAdmins
<1>2. CASE c.action = "ASSIGN_ROLE"
  <2>1. held' = [held EXCEPT ![c.user] = @ \cup {c.role}]
    BY <1>2 DEF Execute
  <2>2. "SUPER_ADMIN" \in held'[u]
    BY <1>1, <2>1 DEF TypeOK
  <2> QED
    BY <1>1, <2>2 DEF SuperAdmins
<1>3. CASE c.action = "REVOKE_ROLE"
  <2>1. held' = [held EXCEPT ![c.user] = @ \ {c.role}]
    BY <1>3 DEF Execute
  <2>2. CASE c.role # "SUPER_ADMIN"
    <3>1. "SUPER_ADMIN" \in held'[u]
      BY <1>1, <2>1, <2>2 DEF TypeOK
    <3> QED
      BY <1>1, <3>1 DEF SuperAdmins
  <2>3. CASE c.role = "SUPER_ADMIN"
    <3>1. Cardinality(SuperAdmins) > 1
      BY <1>3, <2>3 DEF Executable
    <3>2. IsFiniteSet(SuperAdmins)
      BY FiniteAssumption, FS_Subset DEF SuperAdmins
    <3>3. PICK v \in SuperAdmins : v # c.user
      BY <3>1, <3>2, TwoMembers
    <3>4. v \in User /\ "SUPER_ADMIN" \in held'[v]
      BY <2>1, <3>3 DEF SuperAdmins, TypeOK
    <3> QED
      BY <3>4 DEF SuperAdmins
  <2> QED
    BY <2>2, <2>3
<1>4. CASE c.action = "UPDATE"
  <2>1. held' = held
    BY <1>4 DEF Execute
  <2> QED
    BY <1>1, <2>1 DEF SuperAdmins
<1> QED
  BY <1>2, <1>3, <1>4, ChangeFields

(***************************************************************************)
(* The last row that makes somebody SUPER_ADMIN is never revoked, however  *)
(* many reviews run at the same time: each counted the rows in a           *)
(* transaction that would not commit had the count changed.                *)
(***************************************************************************)
THEOREM Succession == Spec => SuperAdminRemains
<1>1. IInv /\ [Next]_vars =>
        [SuperAdmins # {} => SuperAdmins' # {}]_vars
  <2>1. SUFFICES ASSUME IInv, Next, SuperAdmins # {} PROVE SuperAdmins' # {}
    OBVIOUS
  <2>2. ASSUME NEW w \in Worker, Commit(w),
               review[w].verdict = "EXECUTED",
               Execute(request[review[w].request].change,
                       Flag(request[review[w].request].change))
        PROVE  SuperAdmins' # {}
    <3>1. /\ request[review[w].request].change \in Change
          /\ Executable(request[review[w].request].change)
      BY <2>1, <2>2, CommitFacts DEF Holds
    <3> QED
      BY <2>1, <2>2, <3>1, ExecutionLeavesSuperAdmin DEF IInv
  <2>3. CASE held' = held
    BY <2>1, <2>3 DEF SuperAdmins
  <2> QED
    BY <2>1, <2>2, <2>3, OnlyExecutionWrites DEF Promote
<1> QED
  BY <1>1, Invariance, PTL DEF Spec, SuperAdminRemains

(* What an execution does to the authority of a person.                    *)
LEMMA ExecutionChangesRoles ==
  ASSUME TypeOK, NEW c \in Change, Executable(c), Execute(c, Flag(c)),
         NEW u \in User, Roles(u)' # Roles(u)
  PROVE  /\ c.domain = "ACCESS" /\ c.user = u
         /\ \A role \in Roles(u)' \ Roles(u) :
              c.action = "ASSIGN_ROLE" /\ c.role = role
<1> USE DEF TypeOK
<1>1. CASE c.action = "ASSIGN_ROLE"
  <2>1. c.user \in User /\ c.role \in Role /\ c.domain = "ACCESS"
    BY <1>1, ChangeFields
  <2>2. /\ held' = [held EXCEPT ![c.user] = @ \cup {c.role}]
        /\ isAdmin' = isAdmin \cup {c.user}
    BY <1>1 DEF Execute, Flag
  <2>3. c.user = u
    BY <2>1, <2>2 DEF Roles
  <2>4. Roles(u)' = held[u] \cup {c.role}
    BY <2>1, <2>2, <2>3 DEF Roles
  <2>5. held[u] \subseteq Roles(u)
    BY DEF Roles
  <2> QED
    BY <1>1, <2>1, <2>3, <2>4, <2>5
<1>2. CASE c.action = "REVOKE_ROLE"
  <2>1. /\ c.user \in User /\ c.role \in Role /\ c.domain = "ACCESS"
        /\ c.role \in held[c.user]
    BY <1>2, ChangeFields DEF Executable
  <2>2. held' = [held EXCEPT ![c.user] = @ \ {c.role}]
    BY <1>2 DEF Execute
  <2>3. CASE held[c.user] = {c.role}
    <3>1. isAdmin' = isAdmin \ {c.user}
      BY <1>2, <2>3 DEF Execute, Flag
    <3>2. c.user = u
      BY <2>1, <2>2, <3>1 DEF Roles
    <3>3. Roles(u)' = {}
      BY <2>1, <2>2, <2>3, <3>1, <3>2 DEF Roles
    <3> QED
      BY <2>1, <3>2, <3>3
  <2>4. CASE held[c.user] # {c.role}
    <3>1. isAdmin' = isAdmin
      BY <1>2, <2>4 DEF Execute, Flag
    <3>2. c.user = u
      BY <2>1, <2>2, <3>1 DEF Roles
    <3>3. Roles(u) = held[u] /\ Roles(u)' = held[u] \ {c.role}
      BY <2>1, <2>2, <2>4, <3>1, <3>2 DEF Roles
    <3> QED
      BY <2>1, <3>2, <3>3
  <2> QED
    BY <2>3, <2>4
<1>3. CASE c.action = "UPDATE"
  <2>1. held' = held /\ isAdmin' = isAdmin
    BY <1>3 DEF Execute, Flag
  <2> QED
    BY <2>1 DEF Roles
<1> QED
  BY <1>1, <1>2, <1>3, ChangeFields

(***************************************************************************)
(* A rule is revised, and the authority of anybody changed, only by a      *)
(* request that two people stand behind (or by the promotion script), and  *)
(* nobody gains a role that was not assigned, not even through the legacy  *)
(* fallback.                                                               *)
(***************************************************************************)
THEOREM FourEyes == Spec => ChangesAreReviewed
<1> DEFINE Reviewed ==
  /\ \A x \in Rule :
       revision'[x] # revision[x] => \E r \in Request : Executed(r, x)
  /\ \A u \in User : Roles(u)' # Roles(u) =>
       \/ u \notin isAdmin /\ held' = held
       \/ \E r \in Request :
            /\ Executed(r, "ACCESS")
            /\ request[r].change.user = u
            /\ \A role \in Roles(u)' \ Roles(u) :
                 /\ request[r].change.action = "ASSIGN_ROLE"
                 /\ request[r].change.role = role
<1>1. IInv /\ [Next]_vars => [Reviewed]_vars
  <2>1. SUFFICES ASSUME IInv, Next PROVE Reviewed
    OBVIOUS
  <2>2. ASSUME NEW w \in Worker, Commit(w),
               review[w].verdict = "EXECUTED",
               Execute(request[review[w].request].change,
                       Flag(request[review[w].request].change))
        PROVE  Reviewed
    <3> DEFINE r == review[w].request
               c == request[r].change
    <3>1. /\ r \in Request /\ request[r].status = "PENDING" /\ c \in Change
          /\ review[w].checker \in User /\ Holds(w)
      BY <2>1, <2>2, CommitFacts
    <3>2. Executable(c) /\ MayCheck(review[w].checker, r)
      BY <2>2, <3>1 DEF Holds
    <3>3. Executed(r, c.domain)
      <4>1. /\ request'[r].status = "EXECUTED"
            /\ request'[r].checker = {review[w].checker}
        <5>1. request[r] \in Row
          BY <2>1, <3>1 DEF IInv, TypeOK
        <5>2. request'[r] = [request[r] EXCEPT
                               !.status = review[w].verdict,
                               !.checker = {review[w].checker}]
          BY <2>1, <2>2, <3>1 DEF Commit, IInv, TypeOK
        <5> QED
          BY <2>2, <3>1, <5>1, <5>2 DEF Row, Absent
      <4> QED
        BY <3>1, <3>2, <4>1 DEF Executed, MayCheck
    <3>4. ASSUME NEW x \in Rule, revision'[x] # revision[x]
          PROVE  Executed(r, x)
      <4>1. c.action = "UPDATE" /\ c.domain = x
        BY <2>1, <2>2, <3>4 DEF Execute, IInv, TypeOK
      <4> QED
        BY <3>3, <4>1
    <3>5. ASSUME NEW u \in User, Roles(u)' # Roles(u)
          PROVE  /\ Executed(r, "ACCESS")
                 /\ c.user = u
                 /\ \A role \in Roles(u)' \ Roles(u) :
                      c.action = "ASSIGN_ROLE" /\ c.role = role
      <4>1. /\ c.domain = "ACCESS" /\ c.user = u
            /\ \A role \in Roles(u)' \ Roles(u) :
                 c.action = "ASSIGN_ROLE" /\ c.role = role
        BY <2>1, <2>2, <3>1, <3>2, <3>5, ExecutionChangesRoles DEF IInv
      <4> QED
        BY <3>3, <4>1
    <3> QED
      BY <3>1, <3>4, <3>5
  <2>3. CASE held' = held /\ isAdmin' = isAdmin /\ revision' = revision
    BY <2>3 DEF Roles
  <2>4. ASSUME NEW v \in User, Promote(v)
        PROVE  Reviewed
    <3>1. /\ revision' = revision /\ held' = held
          /\ v \notin isAdmin /\ isAdmin' = isAdmin \cup {v}
      BY <2>4 DEF Promote
    <3>2. ASSUME NEW u \in User, Roles(u)' # Roles(u)
          PROVE  u \notin isAdmin
      BY <3>1, <3>2 DEF Roles
    <3> QED
      BY <3>1, <3>2
  <2> HIDE DEF Reviewed
  <2> QED
    BY <2>1, <2>2, <2>3, <2>4, OnlyExecutionWrites
<1>2. IInv /\ [Next]_vars =>
  [ /\ \A x \in Rule :
         revision'[x] # revision[x] => \E r \in Request : Executed(r, x)
    /\ \A u \in User : Roles(u)' # Roles(u) =>
         \/ u \notin isAdmin /\ held' = held
         \/ \E r \in Request :
              /\ Executed(r, "ACCESS")
              /\ request[r].change.user = u
              /\ \A role \in Roles(u)' \ Roles(u) :
                   /\ request[r].change.action = "ASSIGN_ROLE"
                   /\ request[r].change.role = role
  ]_vars
  BY <1>1
<1> HIDE DEF Reviewed
<1> QED
  BY <1>2, Invariance, PTL DEF Spec, ChangesAreReviewed
=============================================================================
