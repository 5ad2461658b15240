------------------------------ MODULE MCLedger ------------------------------
(* The instance of Ledger that TLC checks. All costs are sums of sixes, so *)
(* that a half and a third of them are exact.                              *)
EXTENDS Ledger

NoPositions == <<>>

OneLong(s, qty, cost) == [x \in {s} |-> [qty |-> qty, cost |-> cost]]

(* The exchange's wallet: emptied, or holding one lot with an open profit. *)
MCWallets ==
    {[equity |-> 114, upnl |-> 0, positions |-> NoPositions],
     [equity |-> 120, upnl |-> 6, positions |-> OneLong("eth", 1, 6)]}
=============================================================================
