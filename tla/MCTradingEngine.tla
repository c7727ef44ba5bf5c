--------------------------- MODULE MCTradingEngine ---------------------------
\* Two orders of one user, a buy and a sell, at two market rates: the funds
\* pay for both margins and commissions and leave nothing, and a move of the
\* market or a dealer's adjustment brings the account to stop-out.
EXTENDS TradingEngine, TLC

CONSTANTS k1, k2

MCDirection == (k1 :> 1) @@ (k2 :> -1)
MCRate == {2, 5}
MCStop == {3}
Send(kind, k, level) == [kind |-> kind, order |-> k, level |-> level]
MCSent ==
  { Send("open", k1, 3), Send("close", k1, 0), Send("protect", k1, NoStop),
    Send("adjust", k1, -3),
    Send("open", k2, NoStop) }
=============================================================================
