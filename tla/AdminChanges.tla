---------------------------- MODULE AdminChanges ----------------------------
(***************************************************************************)
(* Administrative changes under maker-checker control:                     *)
(* apps/trade/src/server/adminChanges.ts, with the roles and permissions   *)
(* of adminPolicy.ts and the script apps/web/scripts/promote-admin.ts.     *)
(* One administrator requests a change, another one with the right roles   *)
(* reviews it, and an approval executes it in the same transaction.        *)
(*                                                                         *)
(* An administrator without a role row counts as SUPER_ADMIN (the legacy   *)
(* fallback), so that what a change does to a person depends on rows of    *)
(* that person that other changes write.  A review is modelled in two      *)
(* steps, its reads and its commit, and commits only if nothing it may     *)
(* have read was changed in between: the steps are then taken in the       *)
(* serial order that the SERIALIZABLE isolation guarantees.  A payload of  *)
(* a risk rule or an instrument is only a new revision.  Of the roles,     *)
(* DEALER, RISK and SUPER_ADMIN have permissions that matter here.         *)
(***************************************************************************)
EXTENDS Integers, FiniteSets

CONSTANTS
  User,
  Role,        \* roles in use
  Request,     \* requests, by command key
  Worker,      \* reviews that run at the same time
  Staffs       \* [User -> SUBSET Role] initial role rows

ASSUME RoleAssumption == "SUPER_ADMIN" \in Role
ASSUME StaffAssumption == Staffs \subseteq [User -> SUBSET Role]
ASSUME FiniteAssumption == IsFiniteSet(User)

VARIABLES
  isAdmin,     \* users with the flag
  held,        \* [User -> roles of its active AdminRoleAssignment rows]
  request,     \* [Request -> AdminChangeRequest row]
  revision,    \* [Rule -> number of its updates]
  review       \* [Worker -> its reviewAdminChangeRequest]

books == <<isAdmin, held, revision>>
vars == <<books, request, review>>

Rule == {"RISK", "INSTRUMENT"}
Change ==
  [action: {"ASSIGN_ROLE", "REVOKE_ROLE"}, domain: {"ACCESS"},
   user: User, role: Role]
  \cup [action: {"UPDATE"}, domain: Rule]
Absent == [status |-> "absent"]
Row ==
  {Absent} \cup [status: {"PENDING", "REJECTED", "EXECUTED"},
                 change: Change, maker: User, checker: SUBSET User]
Idle == [at |-> "idle"]
Review ==
  {Idle} \cup [at: {"commit"}, request: Request, checker: User,
               verdict: {"REJECTED", "EXECUTED"},
               flag: {"set", "clear", "keep"},   \* what becomes of isAdmin
               fresh: BOOLEAN]                   \* its reads still hold

Init ==
  /\ held \in Staffs
  /\ isAdmin = {u \in User : held[u] # {}}
  /\ request = [r \in Request |-> Absent]
  /\ revision = [x \in Rule |-> 0]
  /\ review = [w \in Worker |-> Idle]

-----------------------------------------------------------------------------
(* Authority.                                                              *)

\* loadAdminAuthorization, with the legacy fallback.
Roles(u) == IF u \in isAdmin /\ held[u] = {} THEN {"SUPER_ADMIN"} ELSE held[u]

MayRequest(u, domain) ==
  \/ "SUPER_ADMIN" \in Roles(u)
  \/ domain = "RISK" /\ "RISK" \in Roles(u)
  \/ domain = "INSTRUMENT" /\ "DEALER" \in Roles(u)

\* CHANGE_REQUEST_APPROVE and canReviewChangeDomain.
MayReview(u, domain) ==
  \/ "SUPER_ADMIN" \in Roles(u)
  \/ domain \in Rule /\ "RISK" \in Roles(u)

SuperAdmins == {u \in User : "SUPER_ADMIN" \in held[u]}

-----------------------------------------------------------------------------
(* Requests.                                                               *)

\* A second use of the key returns the row or fails.
CreateRequest(u, r, change) ==
  /\ request[r] = Absent
  /\ MayRequest(u, change.domain)
  /\ request' = [request EXCEPT ![r] =
       [status |-> "PENDING", change |-> change, maker |-> u, checker |-> {}]]
  /\ UNCHANGED <<books, review>>

-----------------------------------------------------------------------------
(* Reviews.                                                                *)

MayCheck(u, r) ==
  /\ request[r].status = "PENDING"
  /\ MayReview(u, request[r].change.domain)
  /\ request[r].maker # u

Executable(change) ==
  change.action = "REVOKE_ROLE" =>
    /\ change.role \in held[change.user]
    /\ change.role = "SUPER_ADMIN" => Cardinality(SuperAdmins) > 1

\* Defect: the flag outlives the last role.
FlagKept(change) == IF change.action = "ASSIGN_ROLE" THEN "set" ELSE "keep"

\* Defect: any revocation clears the flag.
FlagCleared(change) ==
  CASE change.action = "ASSIGN_ROLE" -> "set"
    [] change.action = "REVOKE_ROLE" -> "clear"
    [] OTHER -> "keep"

\* What the execution does to the flag isAdmin of the user.
Flag(change) ==
  CASE change.action = "ASSIGN_ROLE" -> "set"
    [] change.action = "REVOKE_ROLE" /\ held[change.user] = {change.role} ->
         "clear"
    [] OTHER -> "keep"

Begin(w, u, r) ==
  /\ review[w] = Idle
  /\ MayCheck(u, r)
  /\ LET change == request[r].change
         Attempt(verdict, flag) ==
           [at |-> "commit", request |-> r, checker |-> u,
            verdict |-> verdict, flag |-> flag, fresh |-> TRUE]
     IN \/ review' = [review EXCEPT ![w] = Attempt("REJECTED", "keep")]
        \/ /\ Executable(change)
           /\ review' = [review EXCEPT
                ![w] = Attempt("EXECUTED", Flag(change))]
  /\ UNCHANGED <<books, request>>

\* Other attempts have read what is being written.
Outdate(reviews) ==
  [w \in Worker |-> IF reviews[w] = Idle THEN Idle
                    ELSE [reviews[w] EXCEPT !.fresh = FALSE]]

\* Defect: only the request is protected, by its lock.
MayCommitUnseen(w) ==
  /\ review[w] # Idle
  /\ request[review[w].request].status = "PENDING"

MayCommit(w) == review[w] # Idle /\ review[w].fresh

Execute(change, flag) ==
  /\ IF change.action = "UPDATE"
     THEN revision' = [revision EXCEPT ![change.domain] = @ + 1]
     ELSE UNCHANGED revision
  /\ held' = CASE change.action = "ASSIGN_ROLE" ->
                    [held EXCEPT ![change.user] = @ \cup {change.role}]
               [] change.action = "REVOKE_ROLE" ->
                    [held EXCEPT ![change.user] = @ \ {change.role}]
               [] OTHER -> held
  /\ isAdmin' = CASE flag = "set" -> isAdmin \cup {change.user}
                  [] flag = "clear" -> isAdmin \ {change.user}
                  [] OTHER -> isAdmin

Commit(w) ==
  /\ MayCommit(w)
  /\ LET r == review[w].request
     IN /\ request' = [request EXCEPT
             ![r].status = review[w].verdict,
             ![r].checker = {review[w].checker}]
        /\ IF review[w].verdict = "EXECUTED"
           THEN Execute(request[r].change, review[w].flag)
           ELSE UNCHANGED books
  /\ review' = Outdate([review EXCEPT ![w] = Idle])

\* The transaction is rolled back, and tried again or given up.
Rollback(w) ==
  /\ review[w] # Idle
  /\ review' = [review EXCEPT ![w] = Idle]
  /\ UNCHANGED <<books, request>>

-----------------------------------------------------------------------------

\* promote-admin.ts sets the flag and no role.
Promote(u) ==
  /\ u \notin isAdmin
  /\ isAdmin' = isAdmin \cup {u}
  /\ review' = Outdate(review)
  /\ UNCHANGED <<held, revision, request>>

Next ==
  \/ \E u \in User, r \in Request :
       \/ \E change \in Change : CreateRequest(u, r, change)
       \/ \E w \in Worker : Begin(w, u, r)
  \/ \E w \in Worker : Commit(w) \/ Rollback(w)
  \/ \E u \in User : Promote(u)

Spec == Init /\ [][Next]_vars

-----------------------------------------------------------------------------

TypeOK ==
  /\ isAdmin \subseteq User
  /\ held \in [User -> SUBSET Role]
  /\ request \in [Request -> Row]
  /\ revision \in [Rule -> Nat]
  /\ review \in [Worker -> Review]
  /\ \A u \in User : held[u] # {} => u \in isAdmin

(***************************************************************************)
(* Whoever reviews what at the same time, the last row that makes somebody *)
(* SUPER_ADMIN is never revoked.                                           *)
(***************************************************************************)
SuperAdminRemains == [][SuperAdmins # {} => SuperAdmins' # {}]_vars

\* Request r is executed in this step, and two people stand behind it, the
\* second of whom may decide it at this moment.
Executed(r, domain) ==
  /\ request[r].status = "PENDING" /\ request'[r].status = "EXECUTED"
  /\ request[r].change.domain = domain
  /\ \E u \in request'[r].checker :
       u # request[r].maker /\ MayReview(u, domain)

(***************************************************************************)
(* A rule is revised, and anybody's authority changed, only by an executed *)
(* request about it (or the script), and authority grows by the assigned   *)
(* role only.  So a revocation never makes anybody SUPER_ADMIN through the *)
(* legacy fallback, also when the last roles of a person are revoked by    *)
(* two reviews at once.                                                    *)
(***************************************************************************)
ChangesAreReviewed ==
  [][ /\ \A x \in Rule :
           revision'[x] # revision[x] => \E r \in Request : Executed(r, x)
      /\ \A u \in User : Roles(u)' # Roles(u) =>
           \/ u \notin isAdmin /\ held' = held
           \/ \E r \in Request :
                /\ Executed(r, "ACCESS")
                /\ request[r].change.user = u
                /\ \A role \in Roles(u)' \ Roles(u) :
                     /\ request[r].change.action = "ASSIGN_ROLE"
                     /\ request[r].change.role = role
    ]_vars
=============================================================================
