---------------------------- MODULE MapOccupancy ----------------------------
(***************************************************************************)
(* The map and who occupies it (mapmap/mapmanager.cpp): the lines that     *)
(* join the stations, the vehicle each station belongs to, the vehicles    *)
(* that have a line in their path, and the owner of each group.            *)
(*                                                                         *)
(* line_occuagvs holds each vehicle at most once and every reader asks     *)
(* only which vehicles it holds; a group's list of elements is only ever   *)
(* added to, purged of an element and tested for being empty.  Both are    *)
(* sets here.  UNIQUE_LCK(groupMtx) locks nothing, so each call is one     *)
(* step only because one call touches each entry once.                     *)
(***************************************************************************)
EXTENDS Naturals, FiniteSets

CONSTANTS
    Agv, Station, Line,     \* ids
    Ends,                   \* line -> the stations it goes from and to
    Length,                 \* line -> its length
    Infinity,               \* DISTANCE_INFINITY
    Spot,                   \* station -> its real coordinates
    Kind,                   \* station -> its point type
    Group,                  \* the groups of type COMMON_GROUP
    Spirits                 \* group -> its stations and lines

\* Map_Point_Type; "plain" stands for DRAW, REPORT and ORIGIN.
PointKinds == {"plain", "halt", "charge", "load", "unload", "load_unload",
               "no_uturn"}

ASSUME GraphAssumption ==
    /\ Ends \in [Line -> Station \X Station]
    /\ Length \in [Line -> Nat \ {0}] /\ Infinity \in Nat
    /\ Kind \in [Station -> PointKinds]
    /\ Station \cap Line = {}
    /\ Spirits \in [Group -> SUBSET (Station \cup Line)]
    /\ 0 \notin Agv /\ 0 \notin Line /\ 0 \notin Station
    /\ IsFiniteSet(Agv) /\ IsFiniteSet(Station)

Start(l) == Ends[l][1]
End(l) == Ends[l][2]

\* getReverseLines: the lines between the same two places the other way.
Reverse(l) == {m \in Line \ {l} : /\ Spot[End(l)] = Spot[Start(m)]
                                  /\ Spot[Start(l)] = Spot[End(m)]}

\* getAdj: the lines that go on from l, but not straight back.
Adjacent(l) == {m \in Line \ {l} : End(l) = Start(m) /\ Start(l) # End(m)}

\* getGroup.
GroupsOf(s) == {g \in Group : s \in Spirits[g]}

VARIABLES
    lineOcc,        \* line_occuagvs: line -> vehicles
    stationOcc,     \* station_occuagv: station -> vehicle, or 0
    groupOcc        \* group_occuagv: group -> owner (0: no entry), elements

mapVars == <<lineOcc, stationOcc, groupOcc>>

NoEntry == [owner |-> 0, spirits |-> {}]

-----------------------------------------------------------------------------
(* What the search asks *)

OthersAmong(vs, v) == vs \ {v} # {}
StationFree(s, v) == stationOcc[s] \in {0, v}
GroupFree(g, v) == groupOcc[g].owner \in {0, v}

\* Points that may only be entered at the ends of a path.
DeadEnds == {"charge", "load", "unload", "load_unload", "no_uturn"}

\* passable_uturnPoints of getPath; CHARGE and UNLOAD points are not in it.
TurnKinds == {"no_uturn", "load", "load_unload"}
UturnPoints(from, to) ==
    {from, to}
    \cup {End(l) : l \in {m \in Line : Start(m) = from
                                       /\ Kind[End(m)] \in TurnKinds}}
    \cup {Start(l) : l \in {m \in Line : End(m) = to
                                         /\ Kind[Start(m)] \in TurnKinds}}

\* Broken variant: nobody looks at the opposite lines.
PassableHeadOn(l, v, uturn) ==
    /\ {Start(l), End(l)} \cap uturn # {} \/ Kind[End(l)] \notin DeadEnds
    /\ StationFree(End(l), v)
    /\ \A g \in GroupsOf(l) \cup GroupsOf(End(l)) : GroupFree(g, v)

\* pathPassable: may a path of vehicle v take line l?
Passable(l, v, uturn) ==
    /\ {Start(l), End(l)} \cap uturn # {} \/ Kind[End(l)] \notin DeadEnds
    /\ \A r \in Reverse(l) : ~OthersAmong(lineOcc[r], v)
    /\ StationFree(End(l), v)
    /\ \A g \in GroupsOf(l) \cup GroupsOf(End(l)) : GroupFree(g, v)
=============================================================================
