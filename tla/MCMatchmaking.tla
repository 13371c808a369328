--------------------------- MODULE MCMatchmaking ---------------------------
(***************************************************************************)
(* Instances of Matchmaking for TLC.  A run takes the sets it needs; an     *)
(* empty set (no guests, no lobby names, no queue) leaves a feature out.    *)
(***************************************************************************)
EXTENDS QueueRefinement

CONSTANTS c1, c2, c3, g1, g2, g3, a1, a2, a3

TwoConns == {c1, c2}
ThreeConns == {c1, c2, c3}
Guests == {g1, g2, g3}
TwoGuests == {g1, g2}
AllAccounts == {g1, g2, g3, a1, a2, a3}
ThreeAccounts == {a1, a2, a3}
TwoAccounts == {a1, a2}
GuestAndAccount == {g1, a1}
AccountsAndGuest == {a1, a2, a3, g1}

\* Connections are interchangeable, and so are the names guests are given.
Symmetry == Permutations(Conn) \cup Permutations(Guest)

OneName == {"lobby1"}
TwoNames == {"lobby1", "lobby2"}
OnlyUnranked == {Unranked}
OnlyRanked == {Ranked}

NeedsTwo == [q \in QueueType |-> 2]

\* a1 and a2 are in range of one another, a3 of neither.
Ratings == [a \in Account |-> IF a = a1 THEN 1500 ELSE IF a = a2 THEN 1550 ELSE 1700]
=============================================================================
