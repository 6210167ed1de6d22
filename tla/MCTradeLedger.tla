--------------------------- MODULE MCTradeLedger ---------------------------
(* Small instances of TradeLedger: the trading runner and the API server.  *)
EXTENDS TradeLedger, TLC

CONSTANTS t1, t2, runner, api

OneTicket  == {t1}
TwoTickets == {t1, t2}
Runner     == {runner}
Api        == {api}
Nobody     == {}

TicketSymmetry == Permutations(Ticket)
=============================================================================
