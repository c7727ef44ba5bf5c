-------------------------- MODULE MCReconciliation --------------------------
\* Two replicas and one reference, claimed up to twice.  An attempt may find
\* that the trial balance is off, which blocks both users from everything,
\* and that a payment of one of them is overdue, which is only a warning.
EXTENDS Reconciliation, TLC

CONSTANTS u1, u2, trial, overdue

MCConcerns == (trial :> {u1, u2}) @@ (overdue :> {u1})
MCScopes == (trial :> {"TRADE", "WITHDRAW"}) @@ (overdue :> {"WITHDRAW"})
MCHandled == {[user |-> u2, scope |-> "WITHDRAW"]}
=============================================================================
