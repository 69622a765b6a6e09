---------------------------- MODULE MCWmsSessions ----------------------------
(* Small instance of WmsSessions: two SKUs, orders of one and two lines    *)
(* that meet in both line orders, a reservation and its release.           *)
EXTENDS WmsSessions

CONSTANTS p1, p2

Adjust(p, q) == [kind |-> "adjust", place |-> p, qty |-> q]
Reserve(p, q) == [kind |-> "reserve", place |-> p, qty |-> q]
Unreserve(p, q) == [kind |-> "unreserve", place |-> p, qty |-> q]

MCPlaces == {p1, p2}
MCRequests == {
    <<Adjust(p1, 1)>>, <<Adjust(p1, -1)>>, <<Reserve(p1, 1)>>, <<Unreserve(p1, 1)>>,
    <<Adjust(p1, -1), Adjust(p2, -1)>>, <<Adjust(p2, 1), Adjust(p1, 1)>> }
=============================================================================
