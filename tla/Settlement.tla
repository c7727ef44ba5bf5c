----------------------------- MODULE Settlement -----------------------------
(***************************************************************************)
(* What the payment desk promises a customer: a request is opened once and *)
(* ends once; what the customer holds changes exactly when a request is    *)
(* settled, by its amount, and is restored exactly when it is returned.    *)
(***************************************************************************)
EXTENDS Integers

CONSTANTS Request, User, OwnerOf,
          Effect   \* [Request -> Int] what settling it adds to the holdings

VARIABLES phase,     \* [Request -> stage of the request]
          holdings   \* [User -> Nat] all the platform owes the customer

settlementVars == <<phase, holdings>>

Init ==
  /\ phase = [r \in Request |-> "absent"]
  /\ holdings \in [User -> Nat]

Open(r) ==
  /\ phase[r] = "absent"
  /\ phase' = [phase EXCEPT ![r] = "open"]
  /\ UNCHANGED holdings

Settle(r) ==
  /\ phase[r] = "open"
  /\ phase' = [phase EXCEPT ![r] = "settled"]
  /\ holdings' = [holdings EXCEPT ![OwnerOf[r]] = @ + Effect[r]]

Close(r) ==
  /\ phase[r] = "open"
  /\ phase' = [phase EXCEPT ![r] = "closed"]
  /\ UNCHANGED holdings

Return(r) ==
  /\ phase[r] = "settled"
  /\ phase' = [phase EXCEPT ![r] = "returned"]
  /\ holdings' = [holdings EXCEPT ![OwnerOf[r]] = @ - Effect[r]]

Next == \E r \in Request : Open(r) \/ Settle(r) \/ Close(r) \/ Return(r)

Spec == Init /\ [][Next]_settlementVars
=============================================================================
