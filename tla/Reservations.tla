---------------------------- MODULE Reservations ----------------------------
(***************************************************************************)
(* What the occupancy of the map is for.  A station belongs to one vehicle *)
(* at a time: nobody takes another's, and nobody but its owner gives it    *)
(* up.  Several vehicles may use a line, but nobody begins to use a line   *)
(* while another uses one the opposite way.  A restart gives everything up *)
(* but the stations the vehicles are at.                                   *)
(***************************************************************************)
CONSTANTS
    Vehicle, Station, Line,
    None,           \* nobody
    Opposite(_)     \* the lines between the same two places the other way: if k
                    \* is opposite to l, l is opposite to k

VARIABLES owner, users      \* of the stations, of the lines

vars == <<owner, users>>

NobodyUses == users = [l \in Line |-> {}]

Init == owner \in [Station -> Vehicle \cup {None}] /\ NobodyUses

TakeStation(v, s) ==
    /\ owner[s] \in {None, v}
    /\ owner' = [owner EXCEPT ![s] = v]
    /\ UNCHANGED users

GiveStation(v, s) ==
    /\ owner[s] = v
    /\ owner' = [owner EXCEPT ![s] = None]
    /\ UNCHANGED users

TakeLine(v, l) ==
    /\ \A k \in Opposite(l) \cap Line : users[k] \subseteq {v}
    /\ users' = [users EXCEPT ![l] = @ \cup {v}]
    /\ UNCHANGED owner

GiveLine(v, l) ==
    /\ users' = [users EXCEPT ![l] = @ \ {v}]
    /\ UNCHANGED owner

Reset == owner' \in [Station -> Vehicle \cup {None}] /\ NobodyUses'

Next ==
    \/ \E v \in Vehicle :
         \/ \E s \in Station : TakeStation(v, s) \/ GiveStation(v, s)
         \/ \E l \in Line : TakeLine(v, l) \/ GiveLine(v, l)
    \/ Reset

Spec == Init /\ [][Next]_vars

-----------------------------------------------------------------------------

TypeOK ==
    /\ owner \in [Station -> Vehicle \cup {None}]
    /\ users \in [Line -> SUBSET Vehicle]

\* What this is good for: two vehicles never use a line both ways at once.
NoHeadOn ==
    \A l \in Line : \A k \in Opposite(l) \cap Line :
        \A v \in users[l], w \in users[k] : v = w
=============================================================================
