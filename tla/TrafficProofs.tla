---------------------------- MODULE TrafficProofs ----------------------------
(***************************************************************************)
(* Proofs about BlockManager, for any use the vehicles make of the blocks, *)
(* and about Traffic, for any vehicles, map, blocks, routes and number of  *)
(* trips, and with any trip cancelled at any moment.                       *)
(***************************************************************************)
EXTENDS Traffic, SequenceTheorems, TLAPS

-----------------------------------------------------------------------------
(* Types *)

LEMMA BlocksType == \A s \in Spirit : BlocksOf[s] \in Seq(Block)
  BY BlocksAssumption

\* The head of a walk is one of its blocks, and the others are in its tail.
LEMMA HeadAndTail ==
    ASSUME NEW q \in Seq(Block), q # <<>>
    PROVE  /\ Head(q) \in Block /\ Tail(q) \in Seq(Block)
           /\ Elements(q) = {Head(q)} \cup Elements(Tail(q))
<1>1. /\ Head(q) = q[1] /\ Tail(q) \in Seq(Block) /\ Len(Tail(q)) = Len(q) - 1
      /\ \A i \in 1..Len(Tail(q)) : Tail(q)[i] = q[i + 1]
  BY HeadTailProperties
<1>2. Len(q) \in Nat \ {0} /\ DOMAIN q = 1..Len(q) /\ DOMAIN Tail(q) = 1..Len(Tail(q))
  BY <1>1
<1>3. ASSUME NEW i \in 2..Len(q)  PROVE q[i] \in Elements(Tail(q))
  <2>1. PICK k \in Nat : i = k + 1
    <3>1. i - 1 \in Nat /\ i = (i - 1) + 1
      BY <1>2, <1>3
    <3> QED  BY <3>1
  <2>2. k \in DOMAIN Tail(q) /\ Tail(q)[k] = q[i]
    BY <1>1, <1>2, <2>1
  <2> QED  BY <2>2 DEF Elements
<1>4. Elements(q) \subseteq {Head(q)} \cup Elements(Tail(q))
  BY <1>1, <1>2, <1>3 DEF Elements
<1>5. ASSUME NEW k \in DOMAIN Tail(q)  PROVE Tail(q)[k] \in Elements(q)
  BY <1>1, <1>2 DEF Elements
<1>6. Head(q) \in Elements(q)
  BY <1>1, <1>2 DEF Elements
<1> QED  BY <1>1, <1>2, <1>4, <1>5, <1>6 DEF Elements

LEMMA BlockTypesNext == BlockTypeOK /\ [BlockNext]_blockVars => BlockTypeOK'
<1> SUFFICES ASSUME BlockTypeOK, [BlockNext]_blockVars PROVE BlockTypeOK'
  OBVIOUS
<1>1. CASE UNCHANGED blockVars
  BY <1>1 DEF BlockTypeOK, blockVars
<1>2. CASE Clear
  BY <1>2 DEF Clear, BlockTypeOK
<1>3. ASSUME NEW v \in Agv, NEW s \in Spirit, TryAdd(v, s)  PROVE BlockTypeOK'
  <2>1. left' \in [Agv -> Seq(Block)]
    BY <1>3, BlocksType DEF TryAdd, BlockTypeOK
  <2>2. overlapped' \subseteq Agv \X Agv
    BY <1>3 DEF TryAdd, BlockTypeOK
  <2> QED  BY <1>3, <2>1, <2>2 DEF TryAdd, BlockTypeOK
<1>4. ASSUME NEW v \in Agv, NEW s \in Spirit, Look(v, s)  PROVE BlockTypeOK'
  <2>1. left' \in [Agv -> Seq(Block)]
    BY <1>4, BlocksType DEF Look, BlockTypeOK
  <2> QED  BY <1>4, <2>1 DEF Look, BlockTypeOK
<1>5. ASSUME NEW v \in Agv, CheckBlock(v)  PROVE BlockTypeOK'
  <2>1. left[v] \in Seq(Block) /\ left[v] # <<>>
    BY <1>5 DEF CheckBlock, BlockTypeOK
  <2>2. Tail(left[v]) \in Seq(Block)
    BY <2>1, HeadAndTail
  <2> QED  BY <1>5, <2>2 DEF CheckBlock, Rest, BlockTypeOK
<1>6. ASSUME NEW v \in Agv, StartAdd(v)  PROVE BlockTypeOK'
  <2>1. BlocksOf[spirit[v]] \in Seq(Block)
    BY BlocksType DEF BlockTypeOK
  <2> QED  BY <1>6, <2>1 DEF StartAdd, BlockTypeOK
<1>7. ASSUME NEW v \in Agv, AddBlock(v)  PROVE BlockTypeOK'
  <2>1. left[v] \in Seq(Block) /\ left[v] # <<>> /\ spirit[v] \in Spirit
    BY <1>7 DEF AddBlock, BlockTypeOK
  <2>2. Head(left[v]) \in Block /\ Tail(left[v]) \in Seq(Block)
    BY <2>1, HeadAndTail
  <2> QED  BY <1>7, <2>1, <2>2 DEF AddBlock, BlockTypeOK
<1>8. ASSUME NEW v \in Agv, Grant(v)  PROVE BlockTypeOK'
  BY <1>8 DEF Grant, BlockTypeOK
<1>9. ASSUME NEW v \in Agv, NEW S \in SUBSET Spirit, Free(v, S)  PROVE BlockTypeOK'
  BY <1>9 DEF Free, Without, BlockTypeOK
<1> QED  BY <1>1, <1>2, <1>3, <1>4, <1>5, <1>6, <1>7, <1>8, <1>9 DEF BlockNext, Walk

LEMMA BlockInitTypes == BlockInit => BlockTypeOK
<1>1. <<>> \in Seq(Block)
  OBVIOUS
<1> QED  BY <1>1 DEF BlockInit, BlockTypeOK

\* Every variable keeps its type (blockmanager.h:7-66).
THEOREM BlockTypeCorrect == BlockSpec => []BlockTypeOK
  BY BlockInitTypes, BlockTypesNext, PTL DEF BlockSpec

-----------------------------------------------------------------------------
(***************************************************************************)
(* Who shares a block.  A block that v has found passable in its present   *)
(* call may be occupied by now, but only by a vehicle whose call           *)
(* overlapped v's.                                                         *)
(***************************************************************************)

Cleared(v, b) == \A w \in Agv \ {v} : Occupies(w, b) => <<v, w>> \in overlapped

WalkInv ==
    \A v \in Agv :
        /\ phase[v] = "check" => \A b \in Elements(BlocksOf[spirit[v]]) :
                                    b \in Elements(left[v]) \/ Cleared(v, b)
        /\ phase[v] = "add" =>
             /\ \A b \in Elements(BlocksOf[spirit[v]]) : Cleared(v, b)
             /\ Elements(left[v]) \subseteq Elements(BlocksOf[spirit[v]])

OverlapInv ==
    /\ \A v, w \in Agv : <<v, w>> \in overlapped => <<w, v>> \in overlapped
    /\ \A v, w \in Agv : v # w /\ Asking(v) /\ Asking(w) => <<v, w>> \in overlapped

ShareInv == BlockTypeOK /\ WalkInv /\ OverlapInv /\ SharedOnlyByOverlap

\* A step in which nobody comes to occupy a block, no thread goes on with its
\* walk and the calls that overlap are on record.
LEMMA ShareFrame ==
    ASSUME ShareInv, BlockTypeOK', OverlapInv', overlapped \subseteq overlapped',
           occ' \subseteq occ,
           \A v \in Agv : phase'[v] \in {"check", "add"} =>
              phase'[v] = phase[v] /\ left'[v] = left[v] /\ spirit'[v] = spirit[v]
    PROVE  ShareInv'
<1>1. \A v \in Agv : \A b : Occupies(v, b)' => Occupies(v, b)
  BY DEF Occupies
<1>2. SharedOnlyByOverlap'
  BY <1>1 DEF ShareInv, SharedOnlyByOverlap
<1>3. \A v \in Agv : \A b : Cleared(v, b) => Cleared(v, b)'
  BY <1>1 DEF Cleared
<1>4. WalkInv'
  <2> SUFFICES ASSUME NEW v \in Agv, phase'[v] \in {"check", "add"}
               PROVE  /\ phase'[v] = "check" => \A b \in Elements(BlocksOf[spirit'[v]]) :
                            b \in Elements(left'[v]) \/ Cleared(v, b)'
                      /\ phase'[v] = "add" =>
                            /\ \A b \in Elements(BlocksOf[spirit'[v]]) : Cleared(v, b)'
                            /\ Elements(left'[v]) \subseteq Elements(BlocksOf[spirit'[v]])
    BY DEF WalkInv, Elements
  <2> QED  BY <1>3 DEF ShareInv, WalkInv
<1> QED  BY <1>2, <1>4 DEF ShareInv

\* A vehicle's walk goes on, with nobody coming to occupy a block.
LEMMA ShareWalk ==
    ASSUME ShareInv, BlockTypeOK', OverlapInv', overlapped \subseteq overlapped',
           UNCHANGED occ, NEW v \in Agv,
           \A w \in Agv \ {v} : /\ phase'[w] = phase[w]
                                /\ left'[w] = left[w]
                                /\ spirit'[w] = spirit[w],
           phase'[v] = "check" => \A b \in Elements(BlocksOf[spirit'[v]]) :
                                     b \in Elements(left'[v]) \/ Cleared(v, b),
           phase'[v] = "add" =>
             /\ \A b \in Elements(BlocksOf[spirit'[v]]) : Cleared(v, b)
             /\ Elements(left'[v]) \subseteq Elements(BlocksOf[spirit'[v]])
    PROVE  ShareInv'
<1>1. \A w \in Agv : \A b : Occupies(w, b)' <=> Occupies(w, b)
  BY DEF Occupies
<1>2. SharedOnlyByOverlap'
  BY <1>1 DEF ShareInv, SharedOnlyByOverlap
<1>3. \A w \in Agv : \A b : Cleared(w, b) => Cleared(w, b)'
  BY <1>1 DEF Cleared
<1>4. WalkInv'
  <2> SUFFICES ASSUME NEW w \in Agv
               PROVE  /\ phase'[w] = "check" => \A b \in Elements(BlocksOf[spirit'[w]]) :
                            b \in Elements(left'[w]) \/ Cleared(w, b)'
                      /\ phase'[w] = "add" =>
                            /\ \A b \in Elements(BlocksOf[spirit'[w]]) : Cleared(w, b)'
                            /\ Elements(left'[w]) \subseteq Elements(BlocksOf[spirit'[w]])
    BY DEF WalkInv, Elements
  <2>1. CASE w = v
    BY <1>3, <2>1
  <2>2. CASE w # v
    BY <1>3, <2>2 DEF ShareInv, WalkInv
  <2> QED  BY <2>1, <2>2
<1> QED  BY <1>2, <1>4 DEF ShareInv

LEMMA OverlapNext == BlockTypeOK /\ OverlapInv /\ [BlockNext]_blockVars => OverlapInv'
<1> SUFFICES ASSUME BlockTypeOK, OverlapInv, [BlockNext]_blockVars PROVE OverlapInv'
  OBVIOUS
<1>1. ASSUME UNCHANGED overlapped, \A w \in Agv : Asking(w)' => Asking(w)
      PROVE  OverlapInv'
  BY <1>1 DEF OverlapInv
<1>2. ASSUME NEW v \in Agv, NEW s \in Spirit, TryAdd(v, s)  PROVE OverlapInv'
  <2>1. \A w \in Agv \ {v} : Asking(w)' <=> Asking(w)
    BY <1>2 DEF TryAdd, Asking, BlockTypeOK
  <2>2. ASSUME NEW x \in Agv, NEW y \in Agv
        PROVE  <<x, y>> \in overlapped' <=>
                 \/ <<x, y>> \in overlapped
                 \/ x = v /\ y # v /\ Asking(y)
                 \/ y = v /\ x # v /\ Asking(x)
    BY <1>2 DEF TryAdd
  <2> QED  BY <2>1, <2>2 DEF OverlapInv
<1>3. CASE UNCHANGED blockVars
  BY <1>1, <1>3 DEF blockVars, Asking
<1>4. CASE Clear
  BY <1>1, <1>4 DEF Clear, Asking
<1>5. ASSUME NEW v \in Agv, Walk(v)  PROVE OverlapInv'
  BY <1>1, <1>5 DEF Walk, CheckBlock, StartAdd, AddBlock, Grant, Asking, BlockTypeOK
<1>6. ASSUME NEW v \in Agv, NEW s \in Spirit, Look(v, s)  PROVE OverlapInv'
  BY <1>1, <1>6 DEF Look, Asking, BlockTypeOK
<1>7. ASSUME NEW v \in Agv, NEW S \in SUBSET Spirit, Free(v, S)  PROVE OverlapInv'
  BY <1>1, <1>7 DEF Free, Asking
<1> QED  BY <1>2, <1>3, <1>4, <1>5, <1>6, <1>7 DEF BlockNext

LEMMA ShareAdd ==
    ASSUME ShareInv, BlockTypeOK', OverlapInv', NEW v \in Agv, AddBlock(v)
    PROVE  ShareInv'
<1> DEFINE b == Head(left[v])
<1>1. left[v] \in Seq(Block) /\ left[v] # <<>> /\ phase[v] = "add"
  BY DEF ShareInv, BlockTypeOK, AddBlock
<1>2. b \in Elements(left[v]) /\ Elements(Tail(left[v])) \subseteq Elements(left[v])
  BY <1>1, HeadAndTail
<1>3. b \in Elements(BlocksOf[spirit[v]])
  BY <1>1, <1>2 DEF ShareInv, WalkInv
<1>4. Cleared(v, b)
  BY <1>1, <1>3 DEF ShareInv, WalkInv
<1>5. /\ occ' = occ \cup {<<b, v, spirit[v]>>}
      /\ UNCHANGED <<phase, spirit, overlapped>>
      /\ left'[v] = Tail(left[v])
      /\ \A w \in Agv \ {v} : left'[w] = left[w]
  BY DEF AddBlock, ShareInv, BlockTypeOK
<1> HIDE DEF b
<1>6. \A w \in Agv : \A c : Occupies(w, c)' => Occupies(w, c) \/ (w = v /\ c = b)
  BY <1>5 DEF Occupies
<1>7. SharedOnlyByOverlap'
  <2> SUFFICES ASSUME NEW x \in Agv, NEW y \in Agv, NEW c \in Block, x # y,
                      Occupies(x, c)', Occupies(y, c)'
               PROVE  <<x, y>> \in overlapped
    BY <1>5 DEF SharedOnlyByOverlap
  <2>1. CASE Occupies(x, c) /\ Occupies(y, c)
    BY <2>1 DEF ShareInv, SharedOnlyByOverlap
  <2>2. CASE x = v /\ c = b /\ Occupies(y, c)
    BY <1>4, <2>2 DEF Cleared
  <2>3. CASE y = v /\ c = b /\ Occupies(x, c)
    BY <1>4, <2>3 DEF Cleared, ShareInv, OverlapInv
  <2> QED  BY <1>6, <2>1, <2>2, <2>3
<1>8. ASSUME NEW w \in Agv, NEW c, Asking(w), Cleared(w, c)  PROVE Cleared(w, c)'
  <2> SUFFICES ASSUME NEW x \in Agv \ {w}, Occupies(x, c)', ~Occupies(x, c)
               PROVE  <<w, x>> \in overlapped
    BY <1>5, <1>8 DEF Cleared
  <2>1. x = v
    BY <1>6
  <2> QED  BY <1>1, <1>8, <2>1 DEF ShareInv, OverlapInv, Asking
<1>9. WalkInv'
  <2> SUFFICES ASSUME NEW w \in Agv
               PROVE  /\ phase[w] = "check" => \A c \in Elements(BlocksOf[spirit[w]]) :
                            c \in Elements(left'[w]) \/ Cleared(w, c)'
                      /\ phase[w] = "add" =>
                            /\ \A c \in Elements(BlocksOf[spirit[w]]) : Cleared(w, c)'
                            /\ Elements(left'[w]) \subseteq Elements(BlocksOf[spirit[w]])
    BY <1>5 DEF WalkInv, Elements
  <2>1. CASE w = v
    BY <1>1, <1>2, <1>5, <1>8, <2>1 DEF ShareInv, WalkInv, Asking
  <2>2. CASE w # v
    BY <1>5, <1>8, <2>2 DEF ShareInv, WalkInv, Asking
  <2> QED  BY <2>1, <2>2
<1> QED  BY <1>7, <1>9 DEF ShareInv

LEMMA ShareNext == ShareInv /\ [BlockNext]_blockVars => ShareInv'
<1> SUFFICES ASSUME ShareInv, [BlockNext]_blockVars PROVE ShareInv'
  OBVIOUS
<1>1. BlockTypeOK' /\ OverlapInv' /\ BlockTypeOK
  BY BlockTypesNext, OverlapNext DEF ShareInv
<1>2. CASE UNCHANGED blockVars
  BY <1>1, <1>2, ShareFrame DEF blockVars
<1>3. CASE Clear
  BY <1>1, <1>3, ShareFrame DEF Clear
<1>4. ASSUME NEW v \in Agv, NEW S \in SUBSET Spirit, Free(v, S)  PROVE ShareInv'
  BY <1>1, <1>4, ShareFrame DEF Free, Without
<1>5. ASSUME NEW v \in Agv, NEW s \in Spirit, Look(v, s)  PROVE ShareInv'
  BY <1>1, <1>5, ShareFrame DEF Look, BlockTypeOK
<1>6. ASSUME NEW v \in Agv, NEW s \in Spirit, TryAdd(v, s)  PROVE ShareInv'
  <2>1. /\ phase'[v] = "check" /\ left'[v] = BlocksOf[s] /\ spirit'[v] = s
        /\ \A w \in Agv \ {v} : /\ phase'[w] = phase[w] /\ left'[w] = left[w]
                                /\ spirit'[w] = spirit[w]
        /\ UNCHANGED occ /\ overlapped \subseteq overlapped'
    BY <1>1, <1>6 DEF TryAdd, BlockTypeOK
  <2> QED  BY <1>1, <2>1, ShareWalk
<1>7. ASSUME NEW v \in Agv, CheckBlock(v)  PROVE ShareInv'
  <2>1. CASE ~Passable(Head(left[v]), v)
    BY <1>1, <1>7, <2>1, ShareFrame DEF CheckBlock, BlockTypeOK
  <2>2. CASE Passable(Head(left[v]), v)
    <3>1. /\ left[v] \in Seq(Block) /\ left[v] # <<>>
          /\ left'[v] = Tail(left[v])
          /\ \A w \in Agv \ {v} : left'[w] = left[w]
          /\ UNCHANGED <<occ, phase, spirit, overlapped>>
          /\ phase[v] \in {"look", "check"}
      BY <1>1, <1>7, <2>2 DEF CheckBlock, Rest, BlockTypeOK
    <3>2. Cleared(v, Head(left[v]))
      BY <2>2 DEF Cleared, Passable
    <3>3. Elements(left[v]) = {Head(left[v])} \cup Elements(left'[v])
      BY <3>1, HeadAndTail
    <3>4. phase[v] = "check" => \A b \in Elements(BlocksOf[spirit[v]]) :
                                   b \in Elements(left'[v]) \/ Cleared(v, b)
      BY <3>2, <3>3 DEF ShareInv, WalkInv
    <3> QED  BY <1>1, <3>1, <3>4, ShareWalk
  <2> QED  BY <2>1, <2>2
<1>8. ASSUME NEW v \in Agv, StartAdd(v)  PROVE ShareInv'
  <2>1. /\ phase'[v] = "add" /\ left'[v] = BlocksOf[spirit[v]]
        /\ phase[v] = "check" /\ left[v] = <<>>
        /\ \A w \in Agv \ {v} : phase'[w] = phase[w] /\ left'[w] = left[w]
        /\ UNCHANGED <<occ, spirit, overlapped>>
    BY <1>1, <1>8 DEF StartAdd, BlockTypeOK
  <2>2. Elements(left[v]) = {}
    BY <2>1 DEF Elements
  <2>3. \A b \in Elements(BlocksOf[spirit[v]]) : Cleared(v, b)
    BY <2>1, <2>2 DEF ShareInv, WalkInv
  <2> QED  BY <1>1, <2>1, <2>3, ShareWalk
<1>9. ASSUME NEW v \in Agv, AddBlock(v)  PROVE ShareInv'
  BY <1>1, <1>9, ShareAdd
<1>10. ASSUME NEW v \in Agv, Grant(v)  PROVE ShareInv'
  BY <1>1, <1>10, ShareFrame DEF Grant, BlockTypeOK
<1> QED  BY <1>2, <1>3, <1>4, <1>5, <1>6, <1>7, <1>8, <1>9, <1>10 DEF BlockNext, Walk

LEMMA ShareInit == BlockInit => ShareInv
  BY BlockInitTypes DEF BlockInit, ShareInv, WalkInv, OverlapInv, SharedOnlyByOverlap,
    Occupies, Asking

\* Whatever the vehicles ask for and free, two of them share a block only if
\* both were in tryAddBlockOccu at one time (blockmanager.cpp:123-152): under a
\* lock around that function the blocks would exclude each other.
THEOREM SharedOnlyByOverlapAlways == BlockSpec => []SharedOnlyByOverlap
<1>1. ShareInv => SharedOnlyByOverlap
  BY DEF ShareInv
<1> QED  BY <1>1, ShareInit, ShareNext, PTL DEF BlockSpec

-----------------------------------------------------------------------------
(***************************************************************************)
(* Types.  That the roads a vehicle asks for are lines of the map rests on *)
(* where it is on its route: it is at, or has just left, the station       *)
(* before the one it is sent to.                                           *)
(***************************************************************************)

\* A route follows lines and visits no station twice.
RouteOK(r) ==
    /\ \A i \in 1..(Len(r) - 1) : Joined(r[i], r[i + 1])
    /\ \A i, j \in DOMAIN r : r[i] = r[j] => i = j

\* What the loops of excutePath and goStation know of the vehicle.
OnWay(v) ==
    /\ \/ pc[v] \in {"line", "end"}
       \/ Underway(v)
       \/ pc[v] = "wait" /\ ~Over(v)
       => From(v) = route[v][pos[v] - 1]
    /\ pc[v] \in {"leaving", "leave"} => now[v] # 0
    /\ pc[v] \in {"arrived", "look"} => now[v] = Dest(v)

WayInv ==
    /\ stopped = cancelled
    /\ \A v \in Agv : RouteOK(route[v])
    /\ \A v \in Agv : OnWay(v)

Types == TypeOK /\ WayInv

\* TypeOK without the blocks.
AgvTypes ==
    /\ now \in [Agv -> Station \cup {0}]
    /\ last \in [Agv -> Station] /\ next \in [Agv -> Station \cup {0}]
    /\ route \in [Agv -> Seq(Station)]
    /\ pos \in [Agv -> Nat]
    /\ \A v \in Agv :
         /\ pos[v] \in 2..(Len(route[v]) + 1)
         /\ pc[v] \notin {"idle", "wait"} => pos[v] \in DOMAIN route[v]
    /\ pc \in [Agv -> Steps]
    /\ paused \in [Agv -> BOOLEAN] /\ stopped \in [Agv -> BOOLEAN]
    /\ cancelled \in [Agv -> BOOLEAN]
    /\ trips \in [Agv -> 0..MaxTrips]
    /\ past \in [Agv -> {"new", "driven", "cancelled"}]

LEMMA TypesSplit == TypeOK <=> BlockTypeOK /\ AgvTypes
  BY DEF TypeOK, AgvTypes

\* Lines are where the map joins two stations, and no station is a line or 0.
LEMMA LineFacts ==
    /\ \A s, t : Joined(s, t) => LineOf(s, t) \in Line /\ Ends[LineOf(s, t)] = <<s, t>>
    /\ Station \subseteq Spirit /\ Line \subseteq Spirit
    /\ \A s \in Station : s # 0 /\ s \notin Line
<1>1. ASSUME NEW s, NEW t, Joined(s, t)
      PROVE  LineOf(s, t) \in Line /\ Ends[LineOf(s, t)] = <<s, t>>
  BY <1>1 DEF Joined, LineOf
<1> QED  BY <1>1, MapAssumption

\* Where a vehicle is going, and the line that takes it there.
LEMMA RoadFacts ==
    ASSUME Types, NEW v \in Agv
    PROVE  /\ route[v] \in Seq(Station) /\ pos[v] \in Nat /\ pos[v] >= 2
           /\ DOMAIN route[v] = 1..Len(route[v]) /\ Len(route[v]) \in Nat
           /\ pos[v] \in DOMAIN route[v] => Dest(v) \in Station
           /\ pc[v] \in {"line", "end"} \/ Underway(v) \/ (pc[v] = "wait" /\ ~Over(v)) =>
                /\ pos[v] \in DOMAIN route[v] /\ pos[v] - 1 \in DOMAIN route[v]
                /\ From(v) = route[v][pos[v] - 1]
                /\ Road(v) \in Line /\ Ends[Road(v)] = <<From(v), Dest(v)>>
                /\ From(v) # Dest(v)
<1>1. /\ route[v] \in Seq(Station) /\ pos[v] \in Nat
      /\ pos[v] \in 2..(Len(route[v]) + 1)
      /\ pc[v] \notin {"idle", "wait"} => pos[v] \in DOMAIN route[v]
  BY DEF Types, TypeOK
<1>2. DOMAIN route[v] = 1..Len(route[v]) /\ Len(route[v]) \in Nat
  BY <1>1
<1>3. pos[v] \in DOMAIN route[v] => Dest(v) \in Station
  BY <1>1, <1>2 DEF Dest
<1>4. ASSUME pc[v] \in {"line", "end"} \/ Underway(v) \/ (pc[v] = "wait" /\ ~Over(v))
      PROVE  /\ pos[v] \in DOMAIN route[v] /\ pos[v] - 1 \in DOMAIN route[v]
             /\ From(v) = route[v][pos[v] - 1]
             /\ Road(v) \in Line /\ Ends[Road(v)] = <<From(v), Dest(v)>>
             /\ From(v) # Dest(v)
  <2>1. pos[v] \in DOMAIN route[v]
    BY <1>1, <1>2, <1>4 DEF Underway, Over
  <2>2. From(v) = route[v][pos[v] - 1]
    BY <1>4 DEF Types, WayInv, OnWay
  <2>3. pos[v] - 1 \in 1..(Len(route[v]) - 1) /\ (pos[v] - 1) + 1 = pos[v]
    BY <1>1, <1>2, <2>1
  <2>4. Joined(From(v), Dest(v))
    BY <2>2, <2>3 DEF Types, WayInv, RouteOK, Dest
  <2>5. From(v) # Dest(v)
    <3>1. pos[v] - 1 \in DOMAIN route[v] /\ pos[v] - 1 # pos[v]
      BY <1>1, <1>2, <2>3
    <3> QED  BY <2>1, <2>2, <3>1 DEF Types, WayInv, RouteOK, Dest
  <2> QED  BY <1>2, <2>1, <2>2, <2>3, <2>4, <2>5, LineFacts DEF Road
<1> QED  BY <1>1, <1>2, <1>3, <1>4

\* What a vehicle frees when it arrives is behind it: stations and lines.
LEMMA BehindFacts ==
    ASSUME Types, NEW v \in Agv, pos[v] \in DOMAIN route[v]
    PROVE  Behind(v) \in SUBSET Spirit
<1>1. ASSUME NEW i \in 1..(pos[v] - 1)
      PROVE  route[v][i] \in Station /\ LineOf(route[v][i], route[v][i + 1]) \in Line
  <2>1. i \in 1..(Len(route[v]) - 1) /\ i \in DOMAIN route[v]
    BY RoadFacts
  <2>2. Joined(route[v][i], route[v][i + 1])
    BY <2>1 DEF Types, WayInv, RouteOK
  <2>3. LineOf(route[v][i], route[v][i + 1]) \in Line
    BY <2>2, LineFacts
  <2>4. route[v][i] \in Station
    BY <2>1, RoadFacts
  <2> QED  BY <2>3, <2>4
<1> QED  BY <1>1, LineFacts DEF Behind, StationsBehind

-----------------------------------------------------------------------------
(* The blocks see nothing but the calls that BlockManager allows.          *)

LEMMA StepIsBlockStep == Types /\ [Next]_vars => [BlockNext]_blockVars
<1> SUFFICES ASSUME Types, [Next]_vars PROVE [BlockNext]_blockVars
  OBVIOUS
<1> USE DEF BlockNext
<1>1. CASE UNCHANGED vars
  BY <1>1 DEF vars
<1>2. ASSUME NEW v \in Agv, NEW s \in Spirit, TryAdd(v, s) \/ Look(v, s)
      PROVE  BlockNext
  BY <1>2
<1>3. ASSUME NEW v \in Agv, NEW S \in SUBSET Spirit, Free(v, S)
      PROVE  BlockNext
  BY <1>3
<1>4. ASSUME NEW v \in Agv, AskLine(v)  PROVE BlockNext
  BY <1>2, <1>4, RoadFacts, LineFacts DEF AskLine, Goto
<1>5. ASSUME NEW v \in Agv, AskEnd(v)  PROVE BlockNext
  BY <1>2, <1>5, RoadFacts, LineFacts DEF AskEnd, Goto
<1>6. ASSUME NEW v \in Agv, Leave(v)  PROVE BlockNext
  <2>1. now[v] \in Station
    BY <1>6 DEF Leave, Types, TypeOK
  <2> QED  BY <1>3, <1>6, <2>1, LineFacts DEF Leave
<1>7. ASSUME NEW v \in Agv, AskAhead(v)  PROVE BlockNext
  BY <1>2, <1>7, LineFacts DEF AskAhead, HasAhead, Ahead
<1>8. ASSUME NEW v \in Agv, Arrive(v)  PROVE BlockNext
  BY <1>2, <1>8, RoadFacts, LineFacts DEF Arrive, Goto, Underway
<1>9. ASSUME NEW v \in Agv, Arrived(v)  PROVE BlockNext
  BY <1>3, <1>9, BehindFacts, RoadFacts DEF Arrived, Goto, Underway
<1>10. ASSUME NEW v \in Agv, LookAhead(v)  PROVE BlockNext
  BY <1>2, <1>10, LineFacts DEF LookAhead, HasAhead, Ahead
<1>11. ASSUME NEW v \in Agv, Inside(v)  PROVE BlockNext
  BY <1>11 DEF Inside
<1>12. ASSUME NEW v \in Agv,
              \/ Begin(v) \/ Cancel(v) \/ End(v) \/ Busy(v) \/ Ready(v)
              \/ GiveUp(v) \/ MoveOn(v) \/ Left(v) \/ GoOn(v)
       PROVE  UNCHANGED blockVars
  BY <1>12 DEF Begin, Cancel, End, Busy, Ready, GiveUp, MoveOn, Left, GoOn
<1> QED
  BY <1>1, <1>4, <1>5, <1>6, <1>7, <1>8, <1>9, <1>10, <1>11, <1>12 DEF Next, Drive

-----------------------------------------------------------------------------
(* The type invariant and WayInv are kept: one lemma per kind of action.   *)

\* What the other vehicles know stays true.
LEMMA OnWayFrame ==
    ASSUME NEW w, OnWay(w),
           now'[w] = now[w], last'[w] = last[w], route'[w] = route[w],
           pos'[w] = pos[w], pc'[w] = pc[w], cancelled'[w] = cancelled[w]
    PROVE  OnWay(w)'
  BY DEF OnWay, Underway, Over, From, Dest

\* A vehicle's thread moves on from one call to the next.
LEMMA TypesGoto ==
    ASSUME Types, NEW v \in Agv, NEW from, NEW to \in Steps, Goto(v, from, to),
           UNCHANGED <<now, last, next, route, pos, stopped, cancelled, trips, past>>,
           paused' \in [Agv -> BOOLEAN],
           to \notin {"idle", "wait"} => pos[v] \in DOMAIN route[v],
           OnWay(v)'
    PROVE  AgvTypes' /\ WayInv'
<1>1. /\ pc' \in [Agv -> Steps] /\ pc'[v] = to
      /\ \A w \in Agv \ {v} : pc'[w] = pc[w]
  BY DEF Goto, Types, TypeOK
<1>2. AgvTypes'
  BY <1>1 DEF Types, TypeOK, AgvTypes
<1>3. \A w \in Agv \ {v} : OnWay(w)'
  BY <1>1, OnWayFrame DEF Types, WayInv
<1> QED  BY <1>2, <1>3 DEF Types, WayInv, RouteOK

LEMMA TypesBegin ==
    ASSUME Types, NEW v \in Agv, Begin(v)  PROVE AgvTypes' /\ WayInv'
<1>1. PICK r \in Routes : r[1] = From(v) /\ route' = [route EXCEPT ![v] = r]
  BY DEF Begin
<1>2. /\ r \in Seq(Station) /\ Len(r) >= 2 /\ Len(r) \in Nat
      /\ RouteOK(r)
  BY RoutesAssumption DEF RouteOK
<1>3. /\ route' \in [Agv -> Seq(Station)] /\ route'[v] = r
      /\ pos' \in [Agv -> Nat] /\ pos'[v] = 2
      /\ pc' \in [Agv -> Steps] /\ pc'[v] = "wait"
      /\ stopped' \in [Agv -> BOOLEAN] /\ cancelled' \in [Agv -> BOOLEAN]
      /\ stopped' = cancelled'
      /\ \A w \in Agv \ {v} : /\ route'[w] = route[w] /\ pos'[w] = pos[w]
                              /\ pc'[w] = pc[w] /\ cancelled'[w] = cancelled[w]
      /\ UNCHANGED <<now, last, next, paused, past>>
  BY <1>1, <1>2 DEF Begin, Goto, Types, TypeOK, Steps, WayInv
<1>4. trips' \in [Agv -> 0..MaxTrips]
  BY MapAssumption DEF Begin, Types, TypeOK
<1>5. AgvTypes'
  <2>1. \A w \in Agv : /\ pos'[w] \in 2..(Len(route'[w]) + 1)
                       /\ pc'[w] \notin {"idle", "wait"} => pos'[w] \in DOMAIN route'[w]
    <3>1. ASSUME NEW w \in Agv, w = v
          PROVE  pos'[w] \in 2..(Len(route'[w]) + 1) /\ pc'[w] = "wait"
      BY <1>2, <1>3, <3>1
    <3>2. ASSUME NEW w \in Agv, w # v
          PROVE  /\ pos'[w] \in 2..(Len(route'[w]) + 1)
                 /\ pc'[w] \notin {"idle", "wait"} => pos'[w] \in DOMAIN route'[w]
      BY <1>3, <3>2 DEF Types, TypeOK
    <3> QED  BY <3>1, <3>2
  <2> QED  BY <1>3, <1>4, <2>1 DEF AgvTypes, Types, TypeOK
<1>6. OnWay(v)'
  BY <1>1, <1>3 DEF OnWay, Underway, From
<1>7. \A w \in Agv \ {v} : OnWay(w)'
  BY <1>3, OnWayFrame DEF Types, WayInv
<1>8. \A w \in Agv : RouteOK(route'[w])
  BY <1>2, <1>3 DEF Types, WayInv
<1> QED  BY <1>3, <1>5, <1>6, <1>7, <1>8 DEF WayInv, RouteOK

LEMMA TypesCancel ==
    ASSUME Types, NEW v \in Agv, Cancel(v)  PROVE AgvTypes' /\ WayInv'
<1>1. /\ cancelled' \in [Agv -> BOOLEAN] /\ stopped' = cancelled'
      /\ past' \in [Agv -> {"new", "driven", "cancelled"}]
      /\ \A w \in Agv : cancelled[w] => cancelled'[w]
      /\ UNCHANGED <<now, last, next, route, pos, pc, paused, trips>>
  BY DEF Cancel, Types, TypeOK, WayInv
<1>2. AgvTypes'
  BY <1>1 DEF Types, TypeOK, AgvTypes
<1>3. ASSUME NEW w \in Agv  PROVE OnWay(w)'
  BY <1>1, <1>3 DEF Types, WayInv, OnWay, Underway, Over, From, Dest
<1> QED  BY <1>1, <1>2, <1>3 DEF Types, WayInv, RouteOK

LEMMA TypesEnd ==
    ASSUME Types, NEW v \in Agv, End(v)  PROVE AgvTypes' /\ WayInv'
<1>1. /\ pc' \in [Agv -> Steps] /\ pc'[v] = "idle"
      /\ past' \in [Agv -> {"new", "driven", "cancelled"}]
      /\ \A w \in Agv \ {v} : pc'[w] = pc[w]
      /\ UNCHANGED <<now, last, next, route, pos, paused, stopped, cancelled, trips>>
  BY DEF End, Goto, Types, TypeOK, Steps
<1>2. AgvTypes'
  BY <1>1 DEF Types, TypeOK, AgvTypes
<1>3. OnWay(v)'
  BY <1>1 DEF OnWay, Underway
<1>4. \A w \in Agv \ {v} : OnWay(w)'
  BY <1>1, OnWayFrame DEF Types, WayInv
<1> QED  BY <1>1, <1>2, <1>3, <1>4 DEF Types, WayInv, RouteOK

\* goStation returns: the vehicle turns to the station after this one.
LEMMA TypesReturn ==
    ASSUME Types, NEW v \in Agv, pos[v] \in DOMAIN route[v],
           pc' = [pc EXCEPT ![v] = "wait"], NextStation(v),
           cancelled[v] \/ From(v) = Dest(v), paused' \in [Agv -> BOOLEAN],
           UNCHANGED <<now, last, next, route, stopped, cancelled, trips, past>>
    PROVE  AgvTypes' /\ WayInv'
<1>1. /\ pc' \in [Agv -> Steps] /\ pc'[v] = "wait"
      /\ pos' \in [Agv -> Nat] /\ pos'[v] = pos[v] + 1
      /\ \A w \in Agv \ {v} : pc'[w] = pc[w] /\ pos'[w] = pos[w]
  BY DEF NextStation, Types, TypeOK, Steps
<1>2. pos'[v] \in 2..(Len(route[v]) + 1)
  BY <1>1, RoadFacts
<1>3. AgvTypes'
  BY <1>1, <1>2 DEF Types, TypeOK, AgvTypes
<1>4. OnWay(v)'
  <2>1. pos'[v] - 1 = pos[v]
    BY <1>1, RoadFacts
  <2> QED  BY <1>1, <2>1 DEF OnWay, Underway, Over, From, Dest
<1>5. \A w \in Agv \ {v} : OnWay(w)'
  BY <1>1, OnWayFrame DEF Types, WayInv
<1> QED  BY <1>1, <1>3, <1>4, <1>5 DEF Types, WayInv, RouteOK

LEMMA TypesLeft ==
    ASSUME Types, NEW v \in Agv, Left(v)  PROVE AgvTypes' /\ WayInv'
<1>1. /\ pc' \in [Agv -> Steps] /\ pc'[v] = "moving" /\ pc[v] \in {"leaving", "leave"}
      /\ now' \in [Agv -> Station \cup {0}] /\ now'[v] = 0
      /\ next' \in [Agv -> Station \cup {0}] /\ paused' \in [Agv -> BOOLEAN]
      /\ last' = [last EXCEPT ![v] = now[v]]
      /\ \A w \in Agv \ {v} : pc'[w] = pc[w] /\ now'[w] = now[w]
      /\ UNCHANGED <<route, pos, stopped, cancelled, trips, past>>
  <2>1. /\ pc[v] \in {"leaving", "leave"} /\ pc' = [pc EXCEPT ![v] = "moving"]
        /\ paused' = paused \/ paused' = [paused EXCEPT ![v] = @ \/ phase[v] = "no"]
    BY DEF Left, Goto
  <2>2. paused' \in [Agv -> BOOLEAN]
    BY <2>1 DEF Types, TypeOK
  <2>3. pc' \in [Agv -> Steps] /\ pc'[v] = "moving" /\ \A w \in Agv \ {v} : pc'[w] = pc[w]
    BY <2>1 DEF Types, TypeOK, Steps
  <2> QED  BY <2>1, <2>2, <2>3 DEF Left, Types, TypeOK
<1>2. now[v] \in Station
  BY <1>1 DEF Types, TypeOK, WayInv, OnWay
<1>3. /\ last' \in [Agv -> Station] /\ last'[v] = now[v]
      /\ \A w \in Agv \ {v} : last'[w] = last[w]
  BY <1>1, <1>2 DEF Types, TypeOK
<1>4. AgvTypes'
  BY <1>1, <1>3 DEF Types, TypeOK, AgvTypes
<1>5. OnWay(v)'
  <2>1. From(v) = route[v][pos[v] - 1] /\ From(v) = now[v]
    BY <1>1, <1>2, LineFacts DEF Types, WayInv, OnWay, Underway, From
  <2> QED  BY <1>1, <1>3, <2>1 DEF OnWay, From
<1>6. \A w \in Agv \ {v} : OnWay(w)'
  BY <1>1, <1>3, OnWayFrame DEF Types, WayInv
<1> QED  BY <1>1, <1>4, <1>5, <1>6 DEF Types, WayInv, RouteOK

LEMMA TypesArrived ==
    ASSUME Types, NEW v \in Agv, Arrived(v)  PROVE AgvTypes' /\ WayInv'
<1>1. pos[v] \in DOMAIN route[v] /\ Dest(v) \in Station
  BY RoadFacts DEF Arrived, Goto, Underway
<1>2. Following(v) \in Station \cup {0}
  <2>1. ASSUME pos[v] < Len(route[v])  PROVE route[v][pos[v] + 1] \in Station
    <3>1. pos[v] + 1 \in DOMAIN route[v]
      BY <2>1, RoadFacts
    <3> QED  BY <3>1, RoadFacts
  <2> QED  BY <2>1 DEF Following
<1>3. /\ pc' \in [Agv -> Steps] /\ pc'[v] = "arrived"
      /\ now' \in [Agv -> Station \cup {0}] /\ now'[v] = Dest(v)
      /\ last' \in [Agv -> Station] /\ next' \in [Agv -> Station \cup {0}]
      /\ \A w \in Agv \ {v} : pc'[w] = pc[w] /\ now'[w] = now[w] /\ last'[w] = last[w]
      /\ UNCHANGED <<route, pos, paused, stopped, cancelled, trips, past>>
  BY <1>1, <1>2 DEF Arrived, Goto, Types, TypeOK, Steps
<1>4. AgvTypes'
  BY <1>1, <1>3 DEF Types, TypeOK, AgvTypes
<1>5. OnWay(v)'
  BY <1>3 DEF OnWay, Underway, Dest
<1>6. \A w \in Agv \ {v} : OnWay(w)'
  BY <1>3, OnWayFrame DEF Types, WayInv
<1> QED  BY <1>3, <1>4, <1>5, <1>6 DEF Types, WayInv, RouteOK

LEMMA TypesNext == Types /\ [Next]_vars => Types'
<1> SUFFICES ASSUME Types, [Next]_vars PROVE Types'
  OBVIOUS
<1>1. ASSUME UNCHANGED agvVars  PROVE AgvTypes' /\ WayInv'
  <2>1. AgvTypes'
    BY <1>1 DEF Types, TypeOK, AgvTypes, agvVars
  <2>2. \A w \in Agv : OnWay(w)'
    BY <1>1, OnWayFrame DEF Types, WayInv, agvVars
  <2> QED  BY <1>1, <2>1, <2>2 DEF Types, WayInv, RouteOK, agvVars
<1>2. ASSUME NEW v \in Agv, NEW from, NEW to,
             \/ AskLine(v) /\ from = "wait" /\ to = "line"
             \/ AskEnd(v) /\ from = "line" /\ to = "end"
             \/ Ready(v) /\ from = "end" /\ to = "ready"
             \/ MoveOn(v) /\ from = "ready" /\ to = "moving"
             \/ Leave(v) /\ from = "ready" /\ to = "leaving"
             \/ AskAhead(v) /\ from = "leaving" /\ to = "leave"
             \/ Arrive(v) /\ from = "moving" /\ to = "arrive"
             \/ LookAhead(v) /\ from = "arrived" /\ to = "look"
             \/ Busy(v) /\ from \in {"line", "end"} /\ to = "wait" /\ from = pc[v]
      PROVE  AgvTypes' /\ WayInv'
  <2>1. /\ Goto(v, from, to) /\ to \in Steps
        /\ UNCHANGED <<now, last, next, route, pos, paused, stopped, cancelled,
                       trips, past>>
    BY <1>2 DEF AskLine, AskEnd, Ready, MoveOn, Leave, AskAhead, Arrive, LookAhead,
      Busy, Goto, Steps
  <2>2. /\ pc[v] = from /\ pc'[v] = to
    BY <2>1 DEF Goto, Types, TypeOK
  <2>3. to \notin {"idle", "wait"} => pos[v] \in DOMAIN route[v]
    BY <1>2, <2>2, RoadFacts DEF AskLine, Types, TypeOK
  <2>4. OnWay(v)'
    <3>1. /\ OnWay(v) /\ from = "ready" /\ to = "leaving" => now[v] # 0
          /\ from = "wait" => ~Over(v)
      BY <1>2, <2>2 DEF Types, WayInv, Leave, AskLine
    <3>2. /\ from \in {"line", "end", "ready", "leaving", "leave", "moving"} \/ from = "wait" =>
                From(v) = route[v][pos[v] - 1]
          /\ from = "leaving" => now[v] # 0
          /\ from = "arrived" => now[v] = Dest(v)
      BY <1>2, <2>2, <3>1 DEF Types, WayInv, OnWay, Underway
    <3> QED  BY <1>2, <2>1, <2>2, <3>1, <3>2 DEF OnWay, Types, WayInv, Underway, From, Dest
  <2>5. paused' \in [Agv -> BOOLEAN]
    BY <2>1 DEF Types, TypeOK
  <2> QED  BY <2>1, <2>3, <2>4, <2>5, TypesGoto
<1>3. ASSUME NEW v \in Agv, Busy(v)  PROVE AgvTypes' /\ WayInv'
  BY <1>2, <1>3 DEF Busy, Goto
<1>4. ASSUME NEW v \in Agv, GiveUp(v)  PROVE AgvTypes' /\ WayInv'
  <2>1. pos[v] \in DOMAIN route[v] /\ cancelled[v] /\ paused' \in [Agv -> BOOLEAN]
    BY <1>4, RoadFacts DEF GiveUp, Types, TypeOK, WayInv, Underway
  <2> QED  BY <1>4, <2>1, TypesReturn DEF GiveUp
<1>5. ASSUME NEW v \in Agv, GoOn(v)  PROVE AgvTypes' /\ WayInv'
  <2>1. /\ pc[v] \in {"arrived", "look"} /\ pc' = [pc EXCEPT ![v] = "wait"]
        /\ paused' \in [Agv -> BOOLEAN]
    BY <1>5 DEF GoOn, Goto, Types, TypeOK
  <2>2. pos[v] \in DOMAIN route[v]
    BY <2>1 DEF Types, TypeOK
  <2>3. From(v) = Dest(v)
    BY <2>1, <2>2, RoadFacts, LineFacts DEF Types, WayInv, OnWay, From
  <2> QED  BY <1>5, <2>1, <2>2, <2>3, TypesReturn DEF GoOn
<1>6. ASSUME UNCHANGED vars  PROVE AgvTypes' /\ WayInv'
  BY <1>1, <1>6 DEF vars, agvVars
<1>7. ASSUME NEW v \in Agv, Inside(v)  PROVE AgvTypes' /\ WayInv'
  BY <1>1, <1>7 DEF Inside
<1>8. AgvTypes' /\ WayInv'
  BY <1>2, <1>3, <1>4, <1>5, <1>6, <1>7, TypesBegin, TypesCancel, TypesEnd, TypesLeft,
    TypesArrived DEF Next, Drive
<1>9. BlockTypeOK'
  BY StepIsBlockStep, BlockTypesNext DEF Types, TypeOK
<1>10. AgvTypes' /\ BlockTypeOK' => TypeOK'
  BY TypesSplit, PTL
<1> QED  BY <1>8, <1>9, <1>10 DEF Types

LEMMA TypesInit == Init => Types
<1> SUFFICES ASSUME Init PROVE Types
  OBVIOUS
<1>1. BlockTypeOK
  BY BlockInitTypes DEF Init
<1>2. ASSUME NEW v \in Agv
      PROVE  Home[v] \in Station /\ route[v] \in Seq(Station) /\ Len(route[v]) = 1
  BY MapAssumption DEF Init
<1>3. AgvTypes
  BY <1>2, MapAssumption DEF Init, AgvTypes, Steps
<1>4. WayInv
  BY <1>2 DEF Init, WayInv, RouteOK, OnWay, Underway
<1> QED  BY <1>1, <1>3, <1>4, TypesSplit DEF Types

\* The type invariant of the vehicles on their way (virtualrosagv.cpp:44-298).
THEOREM TrafficTypeCorrect == Spec => []TypeOK
<1>1. Types => TypeOK
  BY DEF Types
<1> QED  BY <1>1, TypesInit, TypesNext, PTL DEF Spec

\* The vehicles use the blocks as BlockManager says (virtualrosagv.cpp:211-231,
\* agv.cpp:64-274): Traffic implements BlockSpec.
THEOREM TrafficImplementsBlocks == Spec => BlockSpec
<1>1. Init => BlockInit
  BY DEF Init
<1> QED  BY <1>1, TypesInit, TypesNext, StepIsBlockStep, PTL DEF Spec, BlockSpec

\* So two vehicles that drive share a block only if both were in
\* tryAddBlockOccu at one time (blockmanager.cpp:123-152).
THEOREM DriversShareOnlyByOverlap == Spec => []SharedOnlyByOverlap
  BY TrafficImplementsBlocks, SharedOnlyByOverlapAlways, PTL

-----------------------------------------------------------------------------
(***************************************************************************)
(* A vehicle holds its road.  What it must hold is granted in two calls of *)
(* tryAddBlockOccu, so the invariant follows these calls.                  *)
(***************************************************************************)

\* v's thread is in the call that asks for s, or has its answer.
Granting(v, s) ==
    /\ spirit[v] = s /\ phase[v] \in {"check", "add", "yes", "no"}
    /\ phase[v] = "add" => \A b \in Elements(BlocksOf[s]) :
                              b \in Elements(left[v]) \/ <<b, v, s>> \in occ
    /\ phase[v] = "yes" => Holds(v, s)

RoadInv(v) ==
    /\ pc[v] = "line" => Granting(v, Road(v))
    /\ pc[v] = "end" => Granting(v, Dest(v)) /\ Holds(v, Road(v))
    /\ Underway(v) => Holds(v, Road(v)) /\ Holds(v, Dest(v))

\* The road is given by where the vehicle is and goes.
SameRoad(v) ==
    /\ now'[v] = now[v] /\ last'[v] = last[v]
    /\ route'[v] = route[v] /\ pos'[v] = pos[v]

LEMMA SameRoadFacts ==
    ASSUME NEW v, SameRoad(v)
    PROVE  From(v)' = From(v) /\ Dest(v)' = Dest(v) /\ Road(v)' = Road(v)
  BY DEF SameRoad, From, Dest, Road

\* The blocks that v occupies for s stay with it.
LEMMA HoldsKept ==
    ASSUME NEW v, NEW s, Holds(v, s), \A b : <<b, v, s>> \in occ => <<b, v, s>> \in occ'
    PROVE  \A b \in Elements(BlocksOf[s]) : <<b, v, s>> \in occ'
  BY DEF Holds

\* A vehicle whose thread takes no step, while others only free their own.
LEMMA RoadFrame ==
    ASSUME NEW v, RoadInv(v), SameRoad(v), pc'[v] = pc[v], phase'[v] = phase[v],
           spirit'[v] = spirit[v], left'[v] = left[v],
           \A b, s : <<b, v, s>> \in occ => <<b, v, s>> \in occ'
    PROVE  RoadInv(v)'
<1>1. Road(v)' = Road(v) /\ Dest(v)' = Dest(v)
  BY SameRoadFacts
<1>2. ASSUME NEW s, Holds(v, s)
      PROVE  \A b \in Elements(BlocksOf[s]) : <<b, v, s>> \in occ'
  BY <1>2, HoldsKept
<1>3. Holds(v, Road(v)) => Holds(v, Road(v))'
  BY <1>1, <1>2 DEF Holds
<1>4. Holds(v, Dest(v)) => Holds(v, Dest(v))'
  BY <1>1, <1>2 DEF Holds
<1>5. Granting(v, Road(v)) => Granting(v, Road(v))'
  BY <1>1, <1>2 DEF Granting, Holds, Elements
<1>6. Granting(v, Dest(v)) => Granting(v, Dest(v))'
  BY <1>1, <1>2 DEF Granting, Holds, Elements
<1> QED  BY <1>3, <1>4, <1>5, <1>6 DEF RoadInv, Underway

\* What a step of u leaves alone at another vehicle.
LEMMA OthersKept ==
    ASSUME Types, NEW u \in Agv, Begin(u) \/ Cancel(u) \/ Drive(u),
           NEW v \in Agv \ {u}
    PROVE  /\ SameRoad(v) /\ pc'[v] = pc[v] /\ phase'[v] = phase[v]
           /\ spirit'[v] = spirit[v] /\ left'[v] = left[v]
           /\ \A b, s : <<b, v, s>> \in occ <=> <<b, v, s>> \in occ'
<1> DEFINE Blocks ==
      /\ phase'[v] = phase[v] /\ spirit'[v] = spirit[v] /\ left'[v] = left[v]
      /\ \A b, s : <<b, v, s>> \in occ <=> <<b, v, s>> \in occ'
<1>1. Blocks
  <2>1. CASE UNCHANGED blockVars
    BY <2>1 DEF blockVars
  <2>2. ASSUME NEW s, TryAdd(u, s) \/ Look(u, s)  PROVE Blocks
    BY <2>2 DEF TryAdd, Look, Types, TypeOK, BlockTypeOK
  <2>3. ASSUME NEW S, Free(u, S)  PROVE Blocks
    BY <2>3 DEF Free, Without
  <2>4. ASSUME Walk(u)  PROVE Blocks
    BY <2>4 DEF Walk, CheckBlock, StartAdd, AddBlock, Grant, Types, TypeOK, BlockTypeOK
  <2> HIDE DEF Blocks
  <2> QED
    BY <2>1, <2>2, <2>3, <2>4 DEF Begin, Cancel, Drive, End, AskLine, AskEnd, Busy,
      Ready, GiveUp, MoveOn, Leave, AskAhead, Left, Arrive, Arrived, LookAhead, GoOn,
      Inside
<1>2. SameRoad(v)
  BY DEF Begin, Cancel, Drive, End, AskLine, AskEnd, Busy, Ready, GiveUp, MoveOn,
    Leave, AskAhead, Left, Arrive, Arrived, LookAhead, GoOn, Inside, agvVars,
    NextStation, SameRoad, Types, TypeOK
<1>3. pc'[v] = pc[v]
  BY DEF Begin, Cancel, Drive, End, AskLine, AskEnd, Busy, Ready, GiveUp, MoveOn,
    Leave, AskAhead, Left, Arrive, Arrived, LookAhead, GoOn, Inside, agvVars, Goto,
    Types, TypeOK
<1> QED  BY <1>1, <1>2, <1>3

\* The thread is inside one of BlockManager's calls.
LEMMA RoadWalk ==
    ASSUME Types, NEW v \in Agv, RoadInv(v), Inside(v)  PROVE RoadInv(v)'
<1>1. SameRoad(v) /\ pc'[v] = pc[v]
  BY DEF Inside, agvVars, SameRoad
<1>2. Road(v)' = Road(v) /\ Dest(v)' = Dest(v) /\ (Underway(v)' <=> Underway(v))
  BY <1>1, SameRoadFacts DEF Underway
<1>3. occ \subseteq occ' /\ spirit' = spirit
  BY DEF Inside, Walk, CheckBlock, StartAdd, AddBlock, Grant
<1>4. ASSUME NEW s, Holds(v, s)
      PROVE  \A b \in Elements(BlocksOf[s]) : <<b, v, s>> \in occ'
  BY <1>3, <1>4 DEF Holds
<1>5. ASSUME NEW s, Granting(v, s)
      PROVE  /\ spirit'[v] = s /\ phase'[v] \in {"check", "add", "yes", "no"}
             /\ phase'[v] = "add" => \A b \in Elements(BlocksOf[s]) :
                                        b \in Elements(left'[v]) \/ <<b, v, s>> \in occ'
             /\ phase'[v] = "yes" => \A b \in Elements(BlocksOf[s]) : <<b, v, s>> \in occ'
  <2>1. left[v] \in Seq(Block) /\ spirit[v] = s
    BY <1>5 DEF Granting, Types, TypeOK, BlockTypeOK
  <2>2. CASE CheckBlock(v)
    BY <1>5, <2>1, <2>2 DEF CheckBlock, Granting, Types, TypeOK, BlockTypeOK
  <2>3. CASE StartAdd(v)
    BY <1>5, <2>1, <2>3 DEF StartAdd, Granting, Types, TypeOK, BlockTypeOK
  <2>4. CASE AddBlock(v)
    <3>1. /\ phase[v] = "add" /\ phase' = phase /\ spirit' = spirit /\ left[v] # <<>>
          /\ left'[v] = Tail(left[v]) /\ occ' = occ \cup {<<Head(left[v]), v, s>>}
      BY <2>1, <2>4 DEF AddBlock, Types, TypeOK, BlockTypeOK
    <3>2. Elements(left[v]) = {Head(left[v])} \cup Elements(left'[v])
      BY <2>1, <3>1, HeadAndTail
    <3> QED  BY <1>5, <3>1, <3>2 DEF Granting
  <2>5. CASE Grant(v)
    <3>1. /\ phase[v] = "add" /\ left[v] = <<>> /\ phase'[v] = "yes"
          /\ UNCHANGED <<occ, spirit>>
      BY <1>5, <2>5 DEF Grant, Granting, Types, TypeOK, BlockTypeOK
    <3>2. Elements(left[v]) = {}
      BY <3>1 DEF Elements
    <3> QED  BY <1>5, <3>1, <3>2 DEF Granting
  <2> QED  BY <2>2, <2>3, <2>4, <2>5 DEF Inside, Walk
<1>6. Holds(v, Road(v)) => Holds(v, Road(v))'
  BY <1>2, <1>4 DEF Holds
<1>7. Holds(v, Dest(v)) => Holds(v, Dest(v))'
  BY <1>2, <1>4 DEF Holds
<1>8. Granting(v, Road(v)) => Granting(v, Road(v))'
  BY <1>2, <1>5 DEF Granting, Holds, Elements
<1>9. Granting(v, Dest(v)) => Granting(v, Dest(v))'
  BY <1>2, <1>5 DEF Granting, Holds, Elements
<1> QED  BY <1>1, <1>2, <1>6, <1>7, <1>8, <1>9 DEF RoadInv

LEMMA RoadNext ==
    ASSUME Types, \A v \in Agv : RoadInv(v), [Next]_vars, NEW v \in Agv
    PROVE  RoadInv(v)'
<1> USE DEF RoadInv
<1>1. CASE UNCHANGED vars
  BY <1>1, RoadFrame DEF vars, blockVars, agvVars, SameRoad
<1>2. ASSUME NEW u \in Agv, u # v, Begin(u) \/ Cancel(u) \/ Drive(u)  PROVE RoadInv(v)'
  BY <1>2, OthersKept, RoadFrame
<1>3. ASSUME Begin(v) \/ End(v) \/ Busy(v) \/ GiveUp(v) \/ Arrived(v) \/ LookAhead(v)
             \/ GoOn(v)
      PROVE  RoadInv(v)'
  <2>1. pc'[v] \in {"idle", "wait", "arrived", "look"}
    BY <1>3 DEF Begin, End, Busy, GiveUp, Arrived, LookAhead, GoOn, Goto, Types, TypeOK
  <2> QED  BY <2>1 DEF Underway
<1>4. ASSUME Cancel(v)  PROVE RoadInv(v)'
  BY <1>4, RoadFrame DEF Cancel, SameRoad, blockVars
<1>5. ASSUME AskLine(v)  PROVE RoadInv(v)'
  <2>1. /\ pc'[v] = "line" /\ SameRoad(v)
        /\ spirit'[v] = Road(v) /\ phase'[v] = "check"
    BY <1>5 DEF AskLine, Goto, TryAdd, SameRoad, Types, TypeOK, BlockTypeOK
  <2> QED  BY <2>1, SameRoadFacts DEF Granting, Underway
<1>6. ASSUME AskEnd(v)  PROVE RoadInv(v)'
  <2>1. /\ pc'[v] = "end" /\ SameRoad(v) /\ occ' = occ /\ Holds(v, Road(v))
        /\ spirit'[v] = Dest(v) /\ phase'[v] = "check"
    BY <1>6 DEF AskEnd, Goto, TryAdd, SameRoad, Granting, Types, TypeOK, BlockTypeOK
  <2> QED  BY <2>1, SameRoadFacts DEF Granting, Underway, Holds
<1>7. ASSUME Ready(v) \/ MoveOn(v) \/ AskAhead(v) \/ Arrive(v)  PROVE RoadInv(v)'
  <2>1. /\ pc'[v] \in {"ready", "moving", "leave", "arrive"} /\ SameRoad(v) /\ occ' = occ
        /\ Holds(v, Road(v)) /\ Holds(v, Dest(v))
    BY <1>7 DEF Ready, MoveOn, AskAhead, Arrive, Goto, TryAdd, CanGo, SameRoad,
      Granting, Underway, blockVars, Types, TypeOK
  <2> QED  BY <2>1, SameRoadFacts DEF Holds
<1>8. ASSUME Leave(v)  PROVE RoadInv(v)'
  <2>1. /\ pc[v] = "ready" /\ pc'[v] = "leaving" /\ SameRoad(v)
        /\ occ' = Without(v, {now[v]}) /\ now[v] # 0
    BY <1>8 DEF Leave, Goto, Free, SameRoad, Types, TypeOK
  <2>2. Holds(v, Road(v)) /\ Holds(v, Dest(v))
    BY <2>1 DEF Underway
  <2>3. now[v] = From(v) /\ now[v] \in Station
    BY <2>1 DEF From, Types, TypeOK
  <2>4. Road(v) # now[v] /\ Dest(v) # now[v]
    BY <2>1, <2>3, RoadFacts, LineFacts DEF Underway
  <2> QED  BY <2>1, <2>2, <2>4, SameRoadFacts DEF Holds, Without, Underway
<1>9. ASSUME Left(v)  PROVE RoadInv(v)'
  <2>1. /\ pc[v] \in {"leaving", "leave"} /\ pc'[v] = "moving" /\ occ' = occ
        /\ now'[v] = 0 /\ last'[v] = now[v]
        /\ route' = route /\ pos' = pos
    BY <1>9 DEF Left, Goto, blockVars, Types, TypeOK
  <2>2. now[v] # 0
    BY <2>1 DEF Types, WayInv, OnWay
  <2>3. Road(v)' = Road(v) /\ Dest(v)' = Dest(v)
    BY <2>1, <2>2 DEF Road, Dest, From
  <2> QED  BY <2>1, <2>3 DEF Holds, Underway
<1>10. ASSUME Inside(v)  PROVE RoadInv(v)'
  BY <1>10, RoadWalk
<1> HIDE DEF RoadInv
<1> QED
  BY <1>1, <1>2, <1>3, <1>4, <1>5, <1>6, <1>7, <1>8, <1>9, <1>10 DEF Next, Drive

\* Whatever the other vehicles free and whoever is cancelled, a vehicle that is
\* under way occupies the blocks of its line and of the line's end
\* (virtualrosagv.cpp:211-231, agv.cpp:64-274).
THEOREM HoldsItsRoadAlways == Spec => []HoldsItsRoad
<1> DEFINE Inv == Types /\ \A v \in Agv : RoadInv(v)
<1>1. Init => Inv
  BY TypesInit DEF Init, RoadInv, Underway
<1>2. Inv /\ [Next]_vars => Inv'
  BY TypesNext, RoadNext
<1>3. Inv => HoldsItsRoad
  BY DEF RoadInv, HoldsItsRoad
<1> QED  BY <1>1, <1>2, <1>3, PTL DEF Spec

-----------------------------------------------------------------------------
(***************************************************************************)
(* A vehicle keeps nothing behind it.  What one that was never cancelled   *)
(* may occupy follows from where its thread is; nextStation, which it asks *)
(* for when it leaves a station, is then where it is going, or nowhere.    *)
(***************************************************************************)

Mine(v) ==
    IF pc[v] \in {"idle", "arrived", "look"} \/ pos[v] > Len(route[v])
    THEN {now[v]}
    ELSE IF pc[v] \in {"wait", "line", "end", "ready"}
    THEN {now[v], Road(v), Dest(v)}
    ELSE {Road(v), Dest(v)}

\* Between two stations, or about to be.
Between(v) == pc[v] \in {"leaving", "leave", "moving", "arrive"}

\* The vehicle was driven here.
Came(v) == past[v] = "driven" \/ pos[v] > 2 \/ pc[v] \in {"arrived", "look"}

Calm(v) ==
    /\ ~cancelled[v]
    /\ now[v] = 0 => pc[v] \in {"moving", "arrive"}
    /\ pc[v] # "idle" => Len(route[v]) >= 2
    /\ pc[v] \in {"idle", "moving", "arrive"} => next[v] = 0
    /\ pc[v] \in {"wait", "line", "end", "ready", "leaving", "leave"} =>
         next[v] = 0 \/ (pos[v] <= Len(route[v]) /\ next[v] = Dest(v))
    /\ pc[v] \in {"arrived", "look"} => next[v] = Following(v)
    /\ Walking(v) => pc[v] \in {"line", "end", "leave", "arrive", "look"}

Keeps(v) ==
    /\ Asking(v) => pc[v] # "look" /\ spirit[v] \in Mine(v)
    /\ \A b, s : <<b, v, s>> \in occ => s \in Mine(v)
    /\ Came(v) /\ ~Between(v) => Holds(v, now[v])

KeptInv(v) == past[v] # "cancelled" => Calm(v) /\ Keeps(v)

\* A step that leaves alone all of this.
Still(v) ==
    /\ SameRoad(v) /\ pc'[v] = pc[v] /\ next'[v] = next[v]
    /\ past'[v] = past[v] /\ cancelled'[v] = cancelled[v]

LEMMA StillFacts ==
    ASSUME NEW v, Still(v)
    PROVE  /\ Mine(v)' = Mine(v) /\ (Between(v)' <=> Between(v))
           /\ (Came(v)' <=> Came(v)) /\ Dest(v)' = Dest(v)
           /\ Following(v)' = Following(v)
<1>1. /\ Road(v)' = Road(v) /\ Dest(v)' = Dest(v) /\ SameRoad(v)
      /\ pc'[v] = pc[v] /\ past'[v] = past[v]
  BY SameRoadFacts DEF Still
<1>2. Mine(v)' = Mine(v)
  BY <1>1 DEF Mine, SameRoad
<1>3. Following(v)' = Following(v)
  BY <1>1 DEF Following, SameRoad
<1>4. (Between(v)' <=> Between(v)) /\ (Came(v)' <=> Came(v))
  BY <1>1 DEF Between, Came, SameRoad
<1> QED  BY <1>1, <1>2, <1>3, <1>4

LEMMA KeptFrame ==
    ASSUME NEW v, KeptInv(v), Still(v), phase'[v] = phase[v],
           spirit'[v] = spirit[v],
           \A b, s : <<b, v, s>> \in occ <=> <<b, v, s>> \in occ'
    PROVE  KeptInv(v)'
<1> SUFFICES ASSUME past[v] # "cancelled"  PROVE Calm(v)' /\ Keeps(v)'
  BY DEF KeptInv, Still
<1>1. Calm(v) /\ Keeps(v)
  BY DEF KeptInv
<1>2. Calm(v)'
  BY <1>1, StillFacts DEF Calm, Still, SameRoad, Walking
<1>3. Keeps(v)'
  <2>1. now'[v] = now[v]
    BY DEF Still, SameRoad
  <2>2. Holds(v, now[v]) => Holds(v, now[v])'
    BY <2>1 DEF Holds
  <2>3. (Asking(v)' <=> Asking(v)) /\ pc'[v] = pc[v]
    BY DEF Asking, Still
  <2> QED  BY <1>1, <2>1, <2>2, <2>3, StillFacts DEF Keeps
<1> QED  BY <1>2, <1>3

\* What a step of u leaves alone at another vehicle, besides its road.
LEMMA OthersStill ==
    ASSUME Types, NEW u \in Agv, Begin(u) \/ Cancel(u) \/ Drive(u),
           NEW v \in Agv \ {u}
    PROVE  Still(v)
<1>1. SameRoad(v) /\ pc'[v] = pc[v]
  BY OthersKept
<1>2. next'[v] = next[v] /\ past'[v] = past[v] /\ cancelled'[v] = cancelled[v]
  BY DEF Begin, Cancel, Drive, End, AskLine, AskEnd, Busy, Ready, GiveUp, MoveOn,
    Leave, AskAhead, Left, Arrive, Arrived, LookAhead, GoOn, Inside, agvVars,
    Types, TypeOK
<1> QED  BY <1>1, <1>2 DEF Still

\* The thread is inside one of BlockManager's calls.
LEMMA KeptWalk ==
    ASSUME Types, NEW v \in Agv, KeptInv(v), Inside(v)  PROVE KeptInv(v)'
<1> SUFFICES ASSUME past[v] # "cancelled"  PROVE Calm(v)' /\ Keeps(v)'
  BY DEF KeptInv, Inside, agvVars
<1>1. Calm(v) /\ Keeps(v)
  BY DEF KeptInv
<1>2. Still(v)
  BY DEF Inside, agvVars, Still, SameRoad
<1>3. /\ Walking(v) /\ (Asking(v)' => Asking(v)) /\ spirit' = spirit
      /\ \/ occ' = occ
         \/ /\ Asking(v)
            /\ \E b : occ' = occ \cup {<<b, v, spirit[v]>>}
  <2>1. CASE CheckBlock(v)
    BY <2>1 DEF CheckBlock, Walking, Asking, Types, TypeOK, BlockTypeOK
  <2>2. CASE StartAdd(v)
    BY <2>2 DEF StartAdd, Walking, Asking, Types, TypeOK, BlockTypeOK
  <2>3. CASE AddBlock(v)
    BY <2>3 DEF AddBlock, Walking, Asking, Types, TypeOK, BlockTypeOK
  <2>4. CASE Grant(v)
    BY <2>4 DEF Grant, Walking, Asking, Types, TypeOK, BlockTypeOK
  <2> QED  BY <2>1, <2>2, <2>3, <2>4 DEF Inside, Walk
<1>4. Calm(v)'
  BY <1>1, <1>2, <1>3, StillFacts DEF Calm, Still, SameRoad
<1>5. \A b, s : <<b, v, s>> \in occ' => s \in Mine(v)
  BY <1>1, <1>3 DEF Keeps
<1>6. now'[v] = now[v] /\ pc'[v] = pc[v]
  BY <1>2 DEF Still, SameRoad
<1>7. Holds(v, now[v]) => Holds(v, now[v])'
  BY <1>3, <1>6 DEF Holds
<1>8. Keeps(v)'
  BY <1>1, <1>2, <1>3, <1>5, <1>6, <1>7, StillFacts DEF Keeps
<1> QED  BY <1>4, <1>8

LEMMA KeptNext ==
    ASSUME Types, \A v \in Agv : RoadInv(v), \A v \in Agv : KeptInv(v),
           [Next]_vars, NEW v \in Agv
    PROVE  KeptInv(v)'
<1>1. CASE UNCHANGED vars
  BY <1>1, KeptFrame DEF vars, blockVars, agvVars, Still, SameRoad
<1>2. ASSUME NEW u \in Agv, u # v, Begin(u) \/ Cancel(u) \/ Drive(u)
      PROVE  KeptInv(v)'
  BY <1>2, OthersKept, OthersStill, KeptFrame
<1>3. ASSUME Cancel(v)  PROVE KeptInv(v)'
  BY <1>3 DEF Cancel, KeptInv, Types, TypeOK
<1>4. ASSUME Inside(v)  PROVE KeptInv(v)'
  BY <1>4, KeptWalk
<1>5. CASE \/ Begin(v) \/ End(v) \/ AskLine(v) \/ AskEnd(v) \/ Busy(v) \/ Ready(v)
           \/ GiveUp(v) \/ MoveOn(v) \/ Leave(v) \/ AskAhead(v) \/ Left(v)
           \/ Arrive(v) \/ Arrived(v) \/ LookAhead(v) \/ GoOn(v)
  <2>1. past'[v] # "cancelled" => past[v] # "cancelled"
    BY <1>5 DEF Begin, End, AskLine, AskEnd, Busy, Ready, GiveUp, MoveOn, Leave,
      AskAhead, Left, Arrive, Arrived, LookAhead, GoOn, Types, TypeOK
  <2> SUFFICES ASSUME past[v] # "cancelled"  PROVE Calm(v)' /\ Keeps(v)'
    BY <2>1 DEF KeptInv
  <2>2. /\ Calm(v) /\ Keeps(v) /\ RoadInv(v)
        /\ stopped[v] = cancelled[v] /\ OnWay(v)
    BY DEF KeptInv, Types, WayInv
  <2>3. /\ pc \in [Agv -> Steps] /\ now \in [Agv -> Station \cup {0}]
        /\ next \in [Agv -> Station \cup {0}] /\ last \in [Agv -> Station]
        /\ pos \in [Agv -> Nat] /\ cancelled \in [Agv -> BOOLEAN]
        /\ past \in [Agv -> {"new", "driven", "cancelled"}]
        /\ phase \in [Agv -> {"out", "look", "check", "add", "yes", "no"}]
        /\ spirit \in [Agv -> Spirit]
        /\ route \in [Agv -> Seq(Station)]
    BY DEF Types, TypeOK, BlockTypeOK
  <2>4. /\ pos[v] \in Nat /\ pos[v] >= 2 /\ pos[v] <= Len(route[v]) + 1
        /\ Len(route[v]) \in Nat /\ DOMAIN route[v] = 1..Len(route[v])
        /\ pc[v] \notin {"idle", "wait"} => pos[v] <= Len(route[v])
    <3>1. /\ pos[v] \in 2..(Len(route[v]) + 1)
          /\ pc[v] \notin {"idle", "wait"} => pos[v] \in DOMAIN route[v]
      BY DEF Types, TypeOK
    <3> QED  BY <3>1, RoadFacts
  <2>5. 0 \notin Station
    BY LineFacts
  <2>6. CASE Begin(v)
    <3>1. /\ pc[v] = "idle" /\ pc'[v] = "wait" /\ pos'[v] = 2
          /\ ~cancelled'[v] /\ Len(route'[v]) >= 2
          /\ UNCHANGED <<occ, phase, spirit, now, next, past>>
      <4>1. PICK r \in Routes : route' = [route EXCEPT ![v] = r]
        BY <2>6 DEF Begin
      <4>2. route'[v] = r /\ Len(r) >= 2
        BY <2>3, <4>1, RoutesAssumption
      <4> QED  BY <2>3, <2>6, <4>2 DEF Begin, Goto, blockVars
    <3>2. Calm(v)'
      BY <2>2, <3>1 DEF Calm, Walking
    <3>3. Mine(v) = {now[v]} /\ Mine(v)' = {now[v], Road(v)', Dest(v)'}
      <4>1. 2 \in Nat /\ Len(route'[v]) \in Nat
        BY <2>6, RoutesAssumption, TypesNext DEF Next, Types, TypeOK
      <4> QED  BY <3>1, <4>1 DEF Mine
    <3>4. Came(v)' => Came(v)
      BY <3>1 DEF Came
    <3>5. Holds(v, now[v]) => Holds(v, now[v])'
      BY <3>1 DEF Holds
    <3>6. ~Asking(v)'
      BY <2>2, <3>1 DEF Calm, Asking, Walking
    <3> QED  BY <2>2, <3>1, <3>2, <3>3, <3>4, <3>5, <3>6 DEF Keeps, Between
  <2>7. CASE End(v)
    <3>1. /\ pc[v] = "wait" /\ pc'[v] = "idle" /\ pos[v] > Len(route[v])
          /\ UNCHANGED <<occ, phase, spirit, now, next, route, pos, cancelled>>
      BY <2>2, <2>3, <2>7 DEF End, Goto, Over, Calm, blockVars
    <3>2. next[v] = 0 /\ now[v] # 0
      BY <2>2, <2>4, <3>1 DEF Calm
    <3>3. Calm(v)'
      BY <2>2, <3>1, <3>2 DEF Calm, Walking
    <3>4. Mine(v) = {now[v]} /\ Mine(v)' = {now[v]} /\ Came(v) /\ ~Between(v)
      BY <2>2, <2>4, <3>1 DEF Mine, Came, Calm, Between
    <3>5. Holds(v, now[v])'
      BY <2>2, <3>1, <3>4 DEF Keeps, Holds
    <3>6. ~Asking(v)'
      BY <2>2, <3>1 DEF Calm, Asking, Walking
    <3> QED  BY <2>2, <3>1, <3>3, <3>4, <3>5, <3>6 DEF Keeps
  <2>8. CASE AskLine(v) \/ AskEnd(v) \/ Busy(v) \/ Ready(v)
    <3>1. /\ pc[v] \in {"wait", "line", "end"}
          /\ pc'[v] \in {"wait", "line", "end", "ready"} /\ pos[v] <= Len(route[v])
          /\ UNCHANGED <<occ, now, last, next, route, pos, cancelled, past>>
      BY <2>3, <2>4, <2>8 DEF AskLine, AskEnd, Busy, Ready, Goto, TryAdd, Over, blockVars
    <3>2. /\ Road(v)' = Road(v) /\ Dest(v)' = Dest(v)
      BY <3>1 DEF Road, Dest, From
    <3>3. \/ ~Walking(v)' /\ ~Asking(v)'
          \/ Walking(v)' /\ pc'[v] \in {"line", "end"} /\ spirit'[v] \in {Road(v), Dest(v)}
      BY <2>3, <2>8 DEF AskLine, AskEnd, Busy, Ready, Goto, TryAdd, Answered, CanGo,
        Walking, Asking, blockVars
    <3>4. Mine(v) = {now[v], Road(v), Dest(v)} /\ Mine(v)' = Mine(v)
      BY <2>4, <3>1, <3>2 DEF Mine
    <3>5. Calm(v)'
      BY <2>2, <3>1, <3>2, <3>3 DEF Calm
    <3>6. (Came(v)' => Came(v)) /\ ~Between(v)
      BY <3>1 DEF Came, Between
    <3>7. Holds(v, now[v]) => Holds(v, now[v])'
      BY <3>1 DEF Holds
    <3>8. Asking(v)' => Walking(v)'
      BY DEF Asking, Walking
    <3> QED  BY <2>2, <3>1, <3>3, <3>4, <3>5, <3>6, <3>7, <3>8 DEF Keeps
  <2>9. CASE GiveUp(v) \/ MoveOn(v)
    BY <2>2, <2>9 DEF GiveUp, MoveOn, Calm, Goto
  <2>10. CASE Leave(v)
    <3>1. /\ pc[v] = "ready" /\ pc'[v] = "leaving" /\ ~Walking(v)
          /\ occ' = Without(v, {now[v]})
          /\ UNCHANGED <<phase, spirit, now, last, next, route, pos, cancelled, past>>
      BY <2>3, <2>10 DEF Leave, Goto, Free
    <3>2. Road(v)' = Road(v) /\ Dest(v)' = Dest(v) /\ pos[v] <= Len(route[v])
      BY <2>4, <3>1 DEF Road, Dest, From
    <3>3. Mine(v) = {now[v], Road(v), Dest(v)} /\ Mine(v)' = {Road(v), Dest(v)}
      BY <2>4, <3>1, <3>2 DEF Mine
    <3>4. Calm(v)'
      BY <2>2, <3>1, <3>2 DEF Calm, Walking
    <3>5. \A b, s : <<b, v, s>> \in occ' => <<b, v, s>> \in occ /\ s # now[v]
      BY <3>1 DEF Without
    <3>6. ~Asking(v)'
      BY <3>1 DEF Asking, Walking
    <3> QED  BY <2>2, <3>1, <3>3, <3>4, <3>5, <3>6 DEF Keeps, Between
  <2>11. CASE AskAhead(v)
    <3>1. /\ pc[v] = "leaving" /\ pc'[v] = "leave" /\ HasAhead(v) /\ occ' = occ
          /\ spirit'[v] = Ahead(v) /\ pos[v] <= Len(route[v]) /\ now[v] # 0
          /\ UNCHANGED <<now, last, next, route, pos, cancelled, past>>
      BY <2>2, <2>3, <2>4, <2>11 DEF AskAhead, Goto, TryAdd, Calm
    <3>2. Road(v)' = Road(v) /\ Dest(v)' = Dest(v)
      BY <3>1 DEF Road, Dest, From
    <3>3. next[v] # 0
      BY <3>1, MapAssumption, LineFacts DEF HasAhead, Joined
    <3>4. Ahead(v) = Road(v)
      BY <2>2, <3>1, <3>3 DEF Ahead, Road, From, Calm
    <3>5. Mine(v) = {Road(v), Dest(v)} /\ Mine(v)' = Mine(v)
      BY <2>4, <3>1, <3>2 DEF Mine
    <3>6. Calm(v)'
      BY <2>2, <3>1, <3>2 DEF Calm
    <3> QED  BY <2>2, <3>1, <3>4, <3>5, <3>6 DEF Keeps, Between
  <2>12. CASE Left(v)
    <3>1. /\ pc[v] \in {"leaving", "leave"} /\ pc'[v] = "moving"
          /\ now'[v] = 0 /\ last'[v] = now[v] /\ next'[v] = 0
          /\ pos[v] <= Len(route[v]) /\ now[v] # 0
          /\ UNCHANGED <<occ, phase, spirit, route, pos, cancelled, past>>
      BY <2>2, <2>3, <2>4, <2>12 DEF Left, Goto, Calm, blockVars
    <3>2. Road(v)' = Road(v) /\ Dest(v)' = Dest(v)
      BY <3>1 DEF Road, Dest, From
    <3>3. ~Walking(v)
      BY <2>2, <2>12, <3>1 DEF Left, Goto, Answered, Walking, Calm
    <3>4. Mine(v) = {Road(v), Dest(v)} /\ Mine(v)' = Mine(v)
      BY <2>4, <3>1, <3>2 DEF Mine
    <3>5. Calm(v)'
      BY <2>2, <3>1, <3>3 DEF Calm, Walking
    <3>6. ~Asking(v)'
      BY <3>1, <3>3 DEF Asking, Walking
    <3> QED  BY <2>2, <3>1, <3>4, <3>5, <3>6 DEF Keeps, Between
  <2>13. CASE Arrive(v)
    <3>1. /\ pc[v] = "moving" /\ pc'[v] = "arrive" /\ occ' = occ
          /\ spirit'[v] = Dest(v) /\ pos[v] <= Len(route[v])
          /\ UNCHANGED <<now, last, next, route, pos, cancelled, past>>
      BY <2>3, <2>4, <2>13 DEF Arrive, Goto, TryAdd
    <3>2. Road(v)' = Road(v) /\ Dest(v)' = Dest(v)
      BY <3>1 DEF Road, Dest, From
    <3>3. Mine(v) = {Road(v), Dest(v)} /\ Mine(v)' = Mine(v)
      BY <2>4, <3>1, <3>2 DEF Mine
    <3>4. Calm(v)'
      BY <2>2, <3>1 DEF Calm
    <3> QED  BY <2>2, <3>1, <3>3, <3>4 DEF Keeps, Between
  <2>14. CASE Arrived(v)
    <3>1. /\ pc[v] = "arrive" /\ pc'[v] = "arrived" /\ ~Walking(v)
          /\ occ' = Without(v, Behind(v)) /\ now'[v] = Dest(v)
          /\ next'[v] = Following(v) /\ pos[v] <= Len(route[v])
          /\ UNCHANGED <<phase, spirit, route, pos, cancelled, past>>
      BY <2>3, <2>4, <2>14 DEF Arrived, Goto, Free
    <3>2. /\ From(v) = route[v][pos[v] - 1] /\ Road(v) \in Line
          /\ Dest(v) \in Station /\ pos[v] \in DOMAIN route[v]
      BY <3>1, RoadFacts DEF Underway
    <3>3. Road(v) \in Behind(v)
      <4>1. pos[v] - 1 \in 1..(pos[v] - 1) /\ (pos[v] - 1) + 1 = pos[v]
        BY <2>4
      <4>2. LineOf(route[v][pos[v] - 1], route[v][(pos[v] - 1) + 1]) \in Behind(v)
        BY <4>1 DEF Behind
      <4> QED  BY <3>2, <4>1, <4>2 DEF Road, Dest
    <3>4. Dest(v) \notin Behind(v)
      <4>1. ASSUME NEW i \in 1..(pos[v] - 1)
            PROVE  /\ Dest(v) # route[v][i]
                   /\ LineOf(route[v][i], route[v][i + 1]) \in Line
        <5>1. i \in DOMAIN route[v] /\ i # pos[v] /\ i \in 1..(Len(route[v]) - 1)
          BY <2>4, <3>1
        <5>2. RouteOK(route[v])
          BY DEF Types, WayInv
        <5>3. Dest(v) # route[v][i]
          BY <3>2, <5>1, <5>2 DEF RouteOK, Dest
        <5>4. Joined(route[v][i], route[v][i + 1])
          BY <5>1, <5>2 DEF RouteOK
        <5> QED  BY <5>3, <5>4, LineFacts
      <4>2. Dest(v) \notin Line
        BY <3>2, LineFacts
      <4> QED  BY <4>1, <4>2 DEF Behind, StationsBehind
    <3>5. Mine(v) = {Road(v), Dest(v)} /\ Mine(v)' = {Dest(v)}
      BY <2>4, <3>1 DEF Mine
    <3>6. Holds(v, Dest(v))
      BY <2>2, <3>1 DEF RoadInv, Underway
    <3>7. \A b \in Elements(BlocksOf[Dest(v)]) : <<b, v, Dest(v)>> \in occ'
      BY <3>1, <3>4, <3>6 DEF Holds, Without
    <3>8. \A b, s : <<b, v, s>> \in occ' => <<b, v, s>> \in occ /\ s # Road(v)
      BY <3>1, <3>3 DEF Without
    <3>9. \A b, s : <<b, v, s>> \in occ' => s \in Mine(v)'
      BY <2>2, <3>5, <3>8 DEF Keeps
    <3>10. Following(v)' = Following(v) /\ now'[v] # 0
      BY <2>5, <3>1, <3>2 DEF Following
    <3>11. Calm(v)' /\ ~Asking(v)'
      BY <2>2, <3>1, <3>10 DEF Calm, Walking, Asking
    <3> QED  BY <3>1, <3>7, <3>9, <3>11 DEF Keeps, Holds
  <2>15. CASE LookAhead(v)
    <3>1. /\ pc[v] = "arrived" /\ pc'[v] = "look" /\ occ' = occ /\ phase'[v] = "look"
          /\ UNCHANGED <<now, last, next, route, pos, cancelled, past>>
      BY <2>3, <2>15 DEF LookAhead, Goto, Look
    <3>2. Following(v)' = Following(v) /\ ~Asking(v)'
      BY <3>1 DEF Following, Asking
    <3>3. Mine(v) = {now[v]} /\ Mine(v)' = {now[v]}
      BY <3>1 DEF Mine
    <3>4. Calm(v)'
      BY <2>2, <3>1, <3>2 DEF Calm
    <3>5. Holds(v, now[v])'
      BY <2>2, <3>1 DEF Keeps, Came, Between, Holds
    <3> QED  BY <2>2, <3>1, <3>2, <3>3, <3>4, <3>5 DEF Keeps
  <2>16. CASE GoOn(v)
    <3>1. /\ pc[v] \in {"arrived", "look"} /\ pc'[v] = "wait" /\ ~Walking(v)
          /\ pos'[v] = pos[v] + 1
          /\ UNCHANGED <<occ, phase, spirit, now, last, next, route, cancelled, past>>
      BY <2>3, <2>16 DEF GoOn, Goto, NextStation, Answered, Walking, blockVars
    <3>2. now[v] \in Mine(v)' /\ Mine(v) = {now[v]}
      BY <3>1 DEF Mine
    <3>3. next[v] = 0 \/ (pos[v] + 1 <= Len(route[v]) /\ next[v] = Dest(v)')
      BY <2>2, <2>4, <3>1 DEF Calm, Following, Dest
    <3>4. Calm(v)' /\ ~Asking(v)'
      BY <2>2, <3>1, <3>3 DEF Calm, Walking, Asking
    <3>5. Holds(v, now[v])'
      BY <2>2, <3>1 DEF Keeps, Came, Between, Holds
    <3> QED  BY <2>2, <3>1, <3>2, <3>4, <3>5 DEF Keeps
  <2> QED
    BY <1>5, <2>6, <2>7, <2>8, <2>9, <2>10, <2>11, <2>12, <2>13, <2>14, <2>15,
      <2>16
<1> QED  BY <1>1, <1>2, <1>3, <1>4, <1>5 DEF Next, Drive

\* A vehicle that was never cancelled and has driven somewhere occupies, when
\* it has no trip, the blocks of the station it is at and no others, whatever
\* the other vehicles do and however the blocks overlap (agv.cpp:122).
THEOREM NothingKeptAlways == Spec => []NothingKept
<1> DEFINE Inv == /\ Types /\ \A v \in Agv : RoadInv(v)
                  /\ \A v \in Agv : KeptInv(v)
<1>1. Init => Inv
  BY TypesInit, MapAssumption
     DEF Init, BlockInit, RoadInv, Underway, KeptInv, Calm, Keeps, Walking, Asking, Came
<1>2. Inv /\ [Next]_vars => Inv'
  BY TypesNext, RoadNext, KeptNext
<1>3. Inv => NothingKept
  <2> SUFFICES ASSUME Inv, NEW v \in Agv, past[v] = "driven", pc[v] = "idle"
               PROVE  /\ Holds(v, now[v])
                      /\ \A o \in occ : o[2] = v => o[3] = now[v]
    BY DEF NothingKept
  <2>1. Keeps(v) /\ Mine(v) = {now[v]} /\ Came(v) /\ ~Between(v)
    BY DEF KeptInv, Mine, Came, Between
  <2>2. \A o \in occ : o = <<o[1], o[2], o[3]>>
    BY DEF Types, TypeOK, BlockTypeOK
  <2> QED  BY <2>1, <2>2 DEF Keeps
<1> QED  BY <1>1, <1>2, <1>3, PTL DEF Spec
=============================================================================
