----------------------------- MODULE MCPlayers -----------------------------
(***************************************************************************)
(* Instances of Players for TLC.                                            *)
(***************************************************************************)
EXTENDS Players, MCMatchmaking

OneConn == {c1}
OneChannel == {"channel1"}

\* a1 is rated so much higher that a draw costs a point; a3 is created with the
\* rating of new accounts, which a2 has.
CloseRatings == [a \in Account |-> IF a = a1 THEN 1520 ELSE 1500]
NearStart == {1500, 1519, 1520}

\* No account is in the database at the start.
NewAccounts == [a \in Account |-> 1500]

\* A long series of defeats.
LowRatings == [a \in Account |-> 5]
UpToStart == 1 .. 1500
=============================================================================
