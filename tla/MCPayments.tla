----------------------------- MODULE MCPayments -----------------------------
\* Ann trades and also reviews payments; Bob and Cid review them.  She makes
\* a card deposit, a bank deposit and three withdrawals to one destination,
\* the second a refund to the card.  Together they exceed the daily limit.
\* Two deployments: the default one, and that of a single reviewer.
EXTENDS Payments, TLC

CONSTANTS ann, bob, cid, d1, d2, w1, w2, w3, iban

MCUser == {ann}
MCActor == {ann, bob, cid}
MCOwnerOf == [r \in {d1, d2, w1, w2, w3} |-> ann]
MCAmount == (d1 :> 2) @@ (d2 :> 1) @@ (w1 :> 2) @@ (w2 :> 1) @@ (w3 :> 1)
MCDestinationOf == [r \in {w1, w2, w3} |-> iban]
MCOpening == [u \in {ann} |-> 1]
MCFloating == {-1, 0}
Cmd(t, r, a, k, b) ==
  [type |-> t, req |-> r, actor |-> a, key |-> k, body |-> b]
MCCommand ==
  { \* the deposit: each reviewer, and its owner, may try every step
    Cmd("PREPARED", d1, bob, 1, 0), Cmd("PREPARED", d1, ann, 2, 0),
    Cmd("APPROVED", d1, bob, 3, 0), Cmd("APPROVED", d1, cid, 4, 0),
    Cmd("APPROVED", d1, ann, 5, 0),
    Cmd("REVERSED", d1, bob, 6, 0),
    Cmd("RECONCILED", d1, bob, 7, 2), Cmd("RECONCILED", d1, bob, 8, 1),
    \* a bank deposit, which needs a proof
    Cmd("PREPARED", d2, cid, 1, 0), Cmd("APPROVED", d2, bob, 2, 0),
    \* the withdrawals; one key is reused for another command
    Cmd("PREPARED", w1, bob, 1, 0), Cmd("APPROVED", w1, cid, 2, 0),
    Cmd("REJECTED", w1, bob, 1, 0),
    Cmd("CANCELLED", w1, ann, 4, 0), Cmd("REVERSED", w1, bob, 5, 0),
    Cmd("PREPARED", w2, cid, 1, 0), Cmd("APPROVED", w2, bob, 2, 0) }
MCContended ==
  {c \in MCCommand :
     c.req = w1 /\ c.type \in {"PREPARED", "APPROVED", "REJECTED"}}
MCConfig == { [simple |-> FALSE, strict |-> TRUE],
              [simple |-> TRUE, strict |-> FALSE] }
=============================================================================
