--------------------------- MODULE ElevatorProofs ---------------------------
(***************************************************************************)
(* Of vehicles that take a lift, however many and wherever their paths     *)
(* lead: they use the cabin as Cabin says, the thread that holds the door  *)
(* goes on for as long as it must, and a ride ends where the path does.    *)
(***************************************************************************)
EXTENDS Elevator, SequenceTheorems, NaturalsInduction, WellFoundedInduction, TLAPS

-----------------------------------------------------------------------------
(* Types *)

Point == DOMAIN Floor
PCs == {"away", "call", "called", "ask", "take", "confirm", "enter", "in", "ride",
        "leave", "out", "left", "over"}

\* What vehicles send and what the lift answers.
ToldOnce == {"TakeEleACK", "IntoEleACK", "LeftEleCMD", "LeftEleACK"}
Outgoing == {Message("InitEleENQ", 0, 0, Everybody)} \cup {Call(v) : v \in Agv}
            \cup {Say(v, cmd) : v \in Agv, cmd \in ToldOnce}
Repeated == {Say(v, cmd) : v \in Agv, cmd \in {"TakeEleACK", "LeftEleCMD"}}
Commands == {"TestEleCmd", "CallEleACK", "TakeEleENQ", "IntoEleENQ", "LeftEleENQ", "LeftEleSet"}
Incoming == [cmd : Commands, src : AllFloors \cup {0}, dst : AllFloors \cup {0, OPEN},
             agv : Agv \cup {Everybody}]

ElevatorTypeOK ==
    /\ connected \in BOOLEAN /\ resetFlag \in BOOLEAN
    /\ param \in Incoming /\ err \in BOOLEAN /\ handled \in BOOLEAN
    /\ sendCmd \in BOOLEAN /\ senders \subseteq Repeated
    /\ pc \in [Agv -> PCs] /\ tries \in [Agv -> Int]
    /\ now \in [Agv -> Point] /\ place \in [Agv -> Point \cup {InCabin}]
    /\ toLift \in Seq(Outgoing) /\ fromLift \in Seq(Incoming)
    /\ cabin \in AllFloors
    /\ phase \in {"idle", "asking", "taken", "riding", "arrived"}
    /\ served \in Agv \cup {0} /\ calls \subseteq Agv
    /\ spoilt \subseteq {"given up", "left unheard"} /\ upsets \in Nat

-----------------------------------------------------------------------------
(* Who has the lift *)

\* A message of a vehicle is on its way; one for it was read or is on its way.
Sent(v, cmd) == \E i \in 1..Len(toLift) : toLift[i] = Say(v, cmd)
For(m, v, cmd) == m.cmd = cmd /\ m.agv = v
Heard(v, cmd) ==
    For(param, v, cmd) \/ \E i \in 1..Len(fromLift) : For(fromLift[i], v, cmd)

Outside == {"away", "call", "called", "ask", "take", "confirm"}
Gone == {"left", "over"}

\* The lift serves whoever is on the way into, in, or on the way out of it.
Has(v) ==
    /\ pc[v] = "enter" => served = v /\ phase = "taken"
    /\ pc[v] \in {"in", "ride"} => served = v /\ phase \in {"taken", "riding", "arrived"}
    /\ pc[v] \in {"leave", "out"} => served = v /\ phase = "arrived"
    /\ place[v] = InCabin <=> pc[v] \in {"in", "ride", "leave"}
\* What a vehicle has sent it has done, and what it is told is still true.
True(v) ==
    /\ Sent(v, "IntoEleACK") => pc[v] \notin Outside \cup {"enter"}
    /\ Sent(v, "LeftEleACK") => pc[v] \in Gone
    /\ Heard(v, "IntoEleENQ") /\ pc[v] \in Outside => served = v /\ phase = "taken"
    /\ Heard(v, "LeftEleENQ") /\ pc[v] \notin Gone => served = v /\ phase = "arrived"
\* Where the lift is.
AtFloor ==
    /\ phase \in {"taken", "riding", "arrived"} => served \in Agv
    /\ phase = "taken" => cabin = FromFloor(served)
    /\ phase = "arrived" => cabin = ToFloor(served)
Holds(v) == pc[v] = "leave" => sendCmd /\ Say(v, "LeftEleCMD") \in senders
Ends(v) ==
    pc[v] = "over" /\ "given up" \notin spoilt =>
        now[v] = Its[v].leave /\ place[v] = Its[v].leave

LiftInv ==
    /\ AtFloor /\ ~Heard(Everybody, "LeftEleENQ")
    /\ \A v \in Agv : Has(v) /\ True(v) /\ Holds(v) /\ Ends(v)

-----------------------------------------------------------------------------
(* How a path is cut *)

Roads == Point \X Point

LEMMA LeastOf ==
    ASSUME NEW T \in SUBSET Nat, T # {}
    PROVE  Min(T) \in T /\ \A n \in T : Min(T) <= n
<1> DEFINE R == OpToRel(<, Nat)
<1>1. PICK m \in T : \A n \in T : ~(<<n, m>> \in R)
  <2>1. IsWellFoundedOn(R, Nat)
    BY NatLessThanWellFounded
  <2> HIDE DEF R
  <2> QED
    BY <2>1, WFMin
<1>2. ASSUME NEW n \in T, n < m PROVE FALSE
  <2>1. n \in Nat /\ m \in Nat
    OBVIOUS
  <2>2. <<n, m>> \in R
    BY <1>2, <2>1 DEF OpToRel
  <2> QED
    BY <1>1, <2>2
<1>3. \A n \in T : m <= n
  BY <1>2
<1> QED
  BY <1>3 DEF Min

\* The first line of each kind, or 0.
IsFirst(i, lines, Kind) ==
    /\ i \in 0..Len(lines)
    /\ i # 0 => lines[i] \in Kind
    /\ \A j \in 1..Len(lines) : lines[j] \in Kind => i # 0 /\ i <= j
LEMMA FirstFound ==
    ASSUME NEW lines \in Seq(Roads), NEW Kind, NEW I,
           I = {j \in 1..Len(lines) : lines[j] \in Kind}
    PROVE  IsFirst(IF I # {} THEN Min(I) ELSE 0, lines, Kind)
<1>1. I \in SUBSET Nat /\ Len(lines) \in Nat
  OBVIOUS
<1>2. I # {} => Min(I) \in I /\ \A n \in I : Min(I) <= n
  BY <1>1, LeastOf
<1>3. CASE I = {}
  BY <1>1, <1>3 DEF IsFirst
<1>4. CASE I # {}
  <2> DEFINE i == Min(I)
  <2>1. i \in 1..Len(lines) /\ lines[i] \in Kind
    BY <1>2, <1>4
  <2>2. \A j \in 1..Len(lines) : lines[j] \in Kind => i <= j
    BY <1>2, <1>4
  <2> HIDE DEF i
  <2>3. IsFirst(i, lines, Kind)
    BY <2>1, <2>2 DEF IsFirst
  <2> QED
    BY <1>4, <2>3 DEF i
<1> QED
  BY <1>3, <1>4

InsideLines == {l \in Roads : Inside(l)}
IntoLines == {l \in Roads : Into(l)}
OutLines == {l \in Roads : OutOf(l)}
LEMMA Selected ==
    ASSUME NEW lines \in Seq(Roads)
    PROVE  /\ IsFirst(SelectInSeq(lines, Inside), lines, InsideLines)
           /\ IsFirst(SelectInSeq(lines, NotInside), lines, Roads \ InsideLines)
           /\ IsFirst(SelectInSeq(lines, Into), lines, IntoLines)
           /\ IsFirst(SelectInSeq(lines, OutOf), lines, OutLines)
           /\ IsFirst(SelectInSeq(lines, EndsInside), lines, {l \in Roads : EndsInside(l)})
<1>0. \A j \in 1..Len(lines) : lines[j] \in Roads
  OBVIOUS
<1>1. IsFirst(SelectInSeq(lines, Inside), lines, InsideLines)
  <2> DEFINE I == {j \in 1..Len(lines) : Inside(lines[j])}
  <2>1. I = {j \in 1..Len(lines) : lines[j] \in InsideLines}
    BY <1>0 DEF InsideLines
  <2>2. SelectInSeq(lines, Inside) = IF I # {} THEN Min(I) ELSE 0
    BY DEF SelectInSeq
  <2> HIDE DEF I
  <2> QED
    BY <2>1, <2>2, FirstFound
<1>2. IsFirst(SelectInSeq(lines, NotInside), lines, Roads \ InsideLines)
  <2> DEFINE I == {j \in 1..Len(lines) : NotInside(lines[j])}
  <2>1. I = {j \in 1..Len(lines) : lines[j] \in Roads \ InsideLines}
    BY <1>0 DEF InsideLines, NotInside
  <2>2. SelectInSeq(lines, NotInside) = IF I # {} THEN Min(I) ELSE 0
    BY DEF SelectInSeq
  <2> HIDE DEF I
  <2> QED
    BY <2>1, <2>2, FirstFound
<1>3. IsFirst(SelectInSeq(lines, Into), lines, IntoLines)
  <2> DEFINE I == {j \in 1..Len(lines) : Into(lines[j])}
  <2>1. I = {j \in 1..Len(lines) : lines[j] \in IntoLines}
    BY <1>0 DEF IntoLines
  <2>2. SelectInSeq(lines, Into) = IF I # {} THEN Min(I) ELSE 0
    BY DEF SelectInSeq
  <2> HIDE DEF I
  <2> QED
    BY <2>1, <2>2, FirstFound
<1>4. IsFirst(SelectInSeq(lines, OutOf), lines, OutLines)
  <2> DEFINE I == {j \in 1..Len(lines) : OutOf(lines[j])}
  <2>1. I = {j \in 1..Len(lines) : lines[j] \in OutLines}
    BY <1>0 DEF OutLines
  <2>2. SelectInSeq(lines, OutOf) = IF I # {} THEN Min(I) ELSE 0
    BY DEF SelectInSeq
  <2> HIDE DEF I
  <2> QED
    BY <2>1, <2>2, FirstFound
<1>5. IsFirst(SelectInSeq(lines, EndsInside), lines, {l \in Roads : EndsInside(l)})
  <2> DEFINE I == {j \in 1..Len(lines) : EndsInside(lines[j])}
  <2>1. I = {j \in 1..Len(lines) : lines[j] \in {l \in Roads : EndsInside(l)}}
    BY <1>0
  <2>2. SelectInSeq(lines, EndsInside) = IF I # {} THEN Min(I) ELSE 0
    BY DEF SelectInSeq
  <2> HIDE DEF I
  <2> QED
    BY <2>1, <2>2, FirstFound
<1> QED
  BY <1>1, <1>2, <1>3, <1>4, <1>5

\* The parts of a path are made of its lines.
LEMMA PartsAre ==
    ASSUME NEW lines \in Seq(Roads)
    PROVE  /\ ToElevator(lines) \in Seq(Roads) /\ EnterElevator(lines) \in Seq(Roads)
           /\ InElevator(lines) \in Seq(Roads) /\ OutElevator(lines) \in Seq(Roads)
           /\ LeaveElevator(lines) \in Seq(Roads)
<1>1. \A s \in Seq(Roads), m, n \in Int :
         m >= 1 /\ n <= Len(s) => SubSeq(s, m, n) \in Seq(Roads)
  BY SubSeqProperties
<1>2. \A s \in Seq(Roads) : Before(s, EndsInside) \in Seq(Roads)
  <2> TAKE s \in Seq(Roads)
  <2>1. SelectInSeq(s, EndsInside) \in 0..Len(s)
    BY Selected DEF IsFirst
  <2> QED
    BY <1>1, <2>1 DEF Before
<1>3. \A s \in Seq(Roads) : Before(s, NotInside) \in Seq(Roads)
  <2> TAKE s \in Seq(Roads)
  <2>1. SelectInSeq(s, NotInside) \in 0..Len(s)
    BY Selected DEF IsFirst
  <2> QED
    BY <1>1, <2>1 DEF Before
<1>4. \A s \in Seq(Roads) : Before(s, Inside) \in Seq(Roads)
  <2> TAKE s \in Seq(Roads)
  <2>1. SelectInSeq(s, Inside) \in 0..Len(s)
    BY Selected DEF IsFirst
  <2> QED
    BY <1>1, <2>1 DEF Before
<1>5. \A s \in Seq(Roads) : From(s, Inside) \in Seq(Roads) /\ From(s, NotInside) \in Seq(Roads)
  BY <1>1, <1>3, <1>4 DEF From
<1>6. EnterElevator(lines) \in Seq(Roads) /\ OutElevator(lines) \in Seq(Roads)
  <2>1. SelectInSeq(lines, Into) \in 0..Len(lines) /\ SelectInSeq(lines, OutOf) \in 0..Len(lines)
    BY Selected DEF IsFirst
  <2>2. \A i \in 1..Len(lines) : <<lines[i]>> \in Seq(Roads)
    OBVIOUS
  <2> QED
    BY <2>1, <2>2 DEF EnterElevator, OutElevator, FirstOf
<1>7. LeaveElevator(lines) \in Seq(Roads)
  BY <1>1, <1>5 DEF LeaveElevator
<1> QED
  BY <1>2, <1>3, <1>5, <1>6, <1>7 DEF ToElevator, InElevator

LEMMA EndOfShape ==
    ASSUME NEW lines \in Seq(Roads), NEW before \in Point
    PROVE  EndOf(lines, before) \in Point
<1>1. \A l \in Roads : End(l) \in Point
  BY DEF Roads, End
<1>2. lines # <<>> => lines[Len(lines)] \in Roads
  OBVIOUS
<1> QED
  BY <1>1, <1>2 DEF EndOf

\* Where a trip leads are points of the map.
LEMMA RouteShape ==
    ASSUME NEW v \in Agv
    PROVE  /\ Its[v].lift \in Point /\ Its[v].enter \in Point /\ Its[v].ride \in Point
           /\ Its[v].out \in Point /\ Its[v].leave \in Point
           /\ Start(Paths[v][1]) \in Point
           /\ FromFloor(v) \in AllFloors /\ ToFloor(v) \in AllFloors
<1> DEFINE lines == Paths[v]
           lift == EndOf(ToElevator(lines), Start(lines[1]))
           enter == EndOf(EnterElevator(lines), lift)
           ride == EndOf(InElevator(lines), enter)
           out == EndOf(OutElevator(lines), ride)
           leave == EndOf(LeaveElevator(lines), out)
<1>1. lines \in Seq(Roads) /\ lines # <<>>
  <2>1. lines \in Seq(Roads)
    BY PathsAssumption DEF Roads, Point
  <2>2. OutElevator(lines) # <<>>
    BY ElevatorAssumption
  <2>3. SelectInSeq(lines, OutOf) \in 1..Len(lines)
    <3>1. SelectInSeq(lines, OutOf) \in 0..Len(lines)
      BY <2>1, Selected DEF IsFirst
    <3>2. SelectInSeq(lines, OutOf) # 0
      BY <2>2 DEF OutElevator, FirstOf
    <3> QED
      BY <3>1, <3>2
  <2> QED
    BY <2>1, <2>3
<1>2. Start(lines[1]) \in Point
  BY <1>1 DEF Roads, Start
<1>3. /\ Its[v].lift = lift /\ Its[v].enter = enter /\ Its[v].ride = ride
      /\ Its[v].out = out /\ Its[v].leave = leave
      /\ FromFloor(v) = Floor[Start(lines[1])] /\ ToFloor(v) = Floor[ride]
  BY DEF Its, Route, FromFloor, ToFloor
<1> HIDE DEF lines
<1>4. lift \in Point
  BY <1>1, <1>2, PartsAre, EndOfShape
<1>5. enter \in Point
  BY <1>1, <1>4, PartsAre, EndOfShape
<1>6. ride \in Point
  BY <1>1, <1>5, PartsAre, EndOfShape
<1>7. out \in Point
  BY <1>1, <1>6, PartsAre, EndOfShape
<1>8. leave \in Point
  BY <1>1, <1>7, PartsAre, EndOfShape
<1>9. \A p \in Point : Floor[p] \in AllFloors
  BY DEF Point, AllFloors, Range
<1> HIDE DEF lift, enter, ride, out, leave
<1>10. Start(Paths[v][1]) \in Point
  BY <1>2 DEF lines
<1> QED
  BY <1>2, <1>3, <1>4, <1>5, <1>6, <1>7, <1>8, <1>9, <1>10

\* A path that takes the lift once is over where its last part is: if nothing
\* follows the line out of the lift, that line is the last.
LEMMA LeavesAtTheEnd == \A v \in Agv : Its[v].leave = Its[v].end
<1> TAKE v \in Agv
<1> DEFINE lines == Paths[v]
           n == Len(lines)
           i == SelectInSeq(lines, Inside)
           rest == From(lines, Inside)
           k == SelectInSeq(rest, NotInside)
           after == From(rest, NotInside)
<1>1. /\ lines \in Seq(Roads) /\ n \in Nat
      /\ InElevator(lines) # <<>> /\ OutElevator(lines) # <<>>
      /\ \A j \in 1..n - 1 : End(lines[j]) = Start(lines[j + 1])
      /\ \A a, b \in 1..n : OutOf(lines[a]) /\ OutOf(lines[b]) => a = b
      /\ ~EndsInside(lines[n])
  BY ElevatorAssumption, PathsAssumption DEF Roads, Point
<1>2. /\ Its[v].leave = EndOf(LeaveElevator(lines), Its[v].out)
      /\ Its[v].out = EndOf(OutElevator(lines), Its[v].ride)
      /\ Its[v].end = EndOf(lines, 0)
  BY DEF Its, Route
<1> HIDE DEF lines
<1>3. IsFirst(i, lines, InsideLines)
  BY <1>1, Selected
<1>4. /\ Len(Before(lines, Inside)) = IF i = 0 THEN n ELSE i - 1
      /\ rest = SubSeq(lines, (IF i = 0 THEN n ELSE i - 1) + 1, n)
  <2>1. i # 0 => Len(SubSeq(lines, 1, i - 1)) = i - 1
    BY <1>1, <1>3, SubSeqProperties DEF IsFirst
  <2> QED
    BY <2>1 DEF Before, From
<1>5. i \in 1..n
  <2>1. CASE i = 0
    <3>1. rest = <<>>
      BY <1>1, <1>4, <2>1, SubSeqEmpty
    <3>2. SelectInSeq(<<>>, NotInside) = 0
      <4>1. <<>> \in Seq(Roads) /\ Len(<<>>) = 0
        OBVIOUS
      <4> QED
        <5>1. IsFirst(SelectInSeq(<<>>, NotInside), <<>>, Roads \ InsideLines)
          BY <4>1, Selected
        <5>2. SelectInSeq(<<>>, NotInside) \in 0..Len(<<>>)
          BY <5>1 DEF IsFirst
        <5> QED
          BY <4>1, <5>2
    <3>3. Before(<<>>, NotInside) = <<>>
      BY <3>2 DEF Before
    <3> QED
      BY <1>1, <3>1, <3>3 DEF InElevator
  <2> QED
    BY <1>3, <2>1 DEF IsFirst
<1>6. /\ rest = SubSeq(lines, i, n) /\ rest \in Seq(Roads) /\ Len(rest) = n - i + 1
      /\ \A j \in 1..Len(rest) : rest[j] = lines[i + j - 1]
  <2>1. rest = SubSeq(lines, i, n)
    BY <1>1, <1>4, <1>5
  <2> HIDE DEF rest, i, n
  <2>2. n = Len(lines)
    BY DEF n
  <2> QED
    BY <1>1, <1>5, <2>1, <2>2, SubSeqProperties
<1>6a. \A j \in 1..Len(rest) : rest[j] \in Roads
  <2>1. rest \in Seq(Roads)
    BY <1>6
  <2> HIDE DEF rest
  <2> QED
    BY <2>1
<1>7. IsFirst(k, rest, Roads \ InsideLines)
  BY <1>6, Selected
<1>8. k \in 1..Len(rest)
  <2>1. rest[Len(rest)] = lines[n] /\ Len(rest) \in 1..Len(rest)
    BY <1>1, <1>5, <1>6
  <2>2. lines[n] \in Roads \ InsideLines
    BY <1>1, <1>5 DEF InsideLines, Inside, EndsInside
  <2> QED
    BY <1>7, <2>1, <2>2 DEF IsFirst
<1>9. /\ Len(Before(rest, NotInside)) = k - 1
      /\ after = SubSeq(rest, k, Len(rest))
  <2>1. Len(SubSeq(rest, 1, k - 1)) = k - 1
    BY <1>6, <1>8, SubSeqProperties
  <2>2. Before(rest, NotInside) = SubSeq(rest, 1, k - 1)
    <3>1. k # 0
      BY <1>8
    <3> QED
      BY <3>1 DEF Before
  <2>3. after = SubSeq(rest, (k - 1) + 1, Len(rest))
    BY <2>1, <2>2 DEF From
  <2>4. (k - 1) + 1 = k
    BY <1>8
  <2> QED
    BY <2>1, <2>2, <2>3, <2>4
<1> DEFINE o == i + k - 1
<1>10. /\ o \in 1..n /\ Len(after) = n - o + 1 /\ after \in Seq(Roads)
       /\ \A j \in 1..Len(after) : after[j] = lines[o + j - 1]
  <2> HIDE DEF rest, k, i, after
  <2>1. /\ after \in Seq(Roads) /\ Len(after) = Len(rest) - k + 1
        /\ \A j \in 1..Len(rest) - k + 1 : after[j] = rest[k + j - 1]
    <3>1. \A j \in k..Len(rest) : rest[j] \in Roads
      <4>1. \A j \in k..Len(rest) : j \in 1..Len(rest)
        BY <1>6, <1>8
      <4> QED
        BY <1>6a, <4>1
    <3>2. k \in Int /\ Len(rest) \in Int /\ k <= Len(rest)
      BY <1>6, <1>8
    <3> QED
      BY <1>9, <3>1, <3>2, SubSeqProperties
  <2> HIDE DEF n
  <2>2. o \in 1..n /\ Len(after) = n - o + 1
    BY <1>1, <1>5, <1>6, <1>8, <2>1
  <2>3. ASSUME NEW j \in 1..Len(after) PROVE after[j] = lines[o + j - 1]
    <3>1. after[j] = rest[k + j - 1] /\ k + j - 1 \in 1..Len(rest)
      <4>1. j \in 1..Len(rest) - k + 1 /\ Len(rest) \in Nat
        BY <1>6, <2>1
      <4> QED
        BY <1>8, <2>1, <4>1
    <3>2. i + (k + j - 1) - 1 = o + j - 1
      BY <1>5, <1>8
    <3> QED
      BY <1>6, <3>1, <3>2
  <2> QED
    BY <2>1, <2>2, <2>3
<1> HIDE DEF n, i, rest, k, after, o
<1>11. /\ LeaveElevator(lines) \in Seq(Roads)
       /\ Len(LeaveElevator(lines)) = n - o
       /\ o < n => LeaveElevator(lines)[n - o] = lines[n]
  <2>1. LeaveElevator(lines) = SubSeq(after, 2, Len(after))
    BY DEF LeaveElevator, after, rest
  <2>2. /\ SubSeq(after, 2, Len(after)) \in Seq(Roads)
        /\ Len(SubSeq(after, 2, Len(after))) = Len(after) - 1
        /\ \A j \in 1..Len(after) - 1 : SubSeq(after, 2, Len(after))[j] = after[j + 1]
    BY <1>1, <1>10, SubSeqProperties
  <2>3. o < n => n - o \in 1..Len(after) - 1 /\ after[n - o + 1] = lines[n]
    BY <1>1, <1>10
  <2> QED
    BY <1>1, <1>10, <2>1, <2>2, <2>3
<1>12. CASE o < n
  <2>1. LeaveElevator(lines) # <<>> /\ lines # <<>> /\ n = Len(lines)
    BY <1>1, <1>10, <1>11, <1>12 DEF n
  <2> QED
    BY <1>2, <1>11, <1>12, <2>1 DEF EndOf
<1>13. CASE o = n
  <2>1. LeaveElevator(lines) = <<>>
    BY <1>10, <1>11, <1>13
  <2>2. OutOf(lines[n])
    <3>1. k > 1
      <4>1. rest[1] = lines[i] /\ lines[i] \in InsideLines
        BY <1>3, <1>5, <1>6 DEF IsFirst
      <4>2. rest[k] \in Roads \ InsideLines
        BY <1>7, <1>8 DEF IsFirst
      <4> QED
        BY <1>8, <4>1, <4>2
    <3>2. rest[k - 1] \in InsideLines
      <4>1. k - 1 \in 1..Len(rest) /\ ~(k <= k - 1)
        BY <1>8, <3>1
      <4>2. rest[k - 1] \in Roads
        BY <1>6a, <4>1
      <4> QED
        BY <1>7, <4>1, <4>2 DEF IsFirst
    <3>3. rest[k - 1] = lines[n - 1] /\ n - 1 \in 1..n - 1 /\ n - 1 + 1 = n
      BY <1>1, <1>5, <1>6, <1>8, <1>13, <3>1 DEF o
    <3>4. Start(lines[n]) \in MapChange
      BY <1>1, <3>2, <3>3 DEF InsideLines, Inside
    <3> QED
      BY <1>1, <3>4 DEF OutOf, EndsInside
  <2>3. OutElevator(lines) = <<lines[n]>>
    <3> DEFINE m == SelectInSeq(lines, OutOf)
    <3>1. OutElevator(lines) = IF m = 0 THEN <<>> ELSE <<lines[m]>>
      BY DEF OutElevator, FirstOf
    <3>2. m \in 1..n /\ OutOf(lines[m])
      <4>1. IsFirst(m, lines, OutLines) /\ m # 0
        BY <1>1, <3>1, Selected
      <4>2. m \in 0..Len(lines) /\ lines[m] \in OutLines
        BY <4>1 DEF IsFirst
      <4> HIDE DEF m
      <4> QED
        BY <4>1, <4>2 DEF OutLines, n
    <3> HIDE DEF m
    <3> QED
      BY <1>1, <1>10, <1>13, <2>2, <3>1, <3>2
  <2>4. lines # <<>> /\ n = Len(lines)
    BY <1>1, <1>10 DEF n
  <2> QED
    BY <1>2, <2>1, <2>3, <2>4 DEF EndOf
<1> QED
  BY <1>1, <1>10, <1>12, <1>13

-----------------------------------------------------------------------------
(* Messages *)

LEMMA AgvAre == 0 \notin Agv /\ Agv \subseteq Nat /\ Everybody = 0 /\ InCabin = 0 /\ 0 \notin Point
BY ElevatorAssumption, PathsAssumption DEF Everybody, InCabin, Point

LEMMA SayIs ==
    \A v, w, c, d : Say(v, c) = Say(w, d) <=> v = w /\ c = d
BY DEF Say, Message

LEMMA OutgoingAre ==
    /\ Message("InitEleENQ", 0, 0, Everybody) \in Outgoing
    /\ \A v \in Agv : Call(v) \in Outgoing
    /\ \A v \in Agv, cmd \in ToldOnce : Say(v, cmd) \in Outgoing
    /\ Repeated \subseteq Outgoing
BY DEF Outgoing, Repeated, ToldOnce

\* What the lift may be told.
LEMMA OutgoingShape ==
    ASSUME NEW m \in Outgoing
    PROVE  \/ m.cmd = "InitEleENQ"
           \/ \E v \in Agv : m.cmd = "CallEleENQ" /\ m.agv = v /\ m.dst = FromFloor(v)
           \/ \E v \in Agv : \E cmd \in ToldOnce :
                 /\ m = Say(v, cmd) /\ m.cmd = cmd /\ m.agv = v
                 /\ m.src = FromFloor(v) /\ m.dst = ToFloor(v)
<1>1. CASE m = Message("InitEleENQ", 0, 0, Everybody)
  BY <1>1 DEF Message
<1>2. ASSUME NEW v \in Agv, m = Call(v) PROVE m.cmd = "CallEleENQ" /\ m.agv = v /\ m.dst = FromFloor(v)
  BY <1>2 DEF Call, Message
<1>3. ASSUME NEW v \in Agv, NEW cmd \in ToldOnce, m = Say(v, cmd)
      PROVE  m.cmd = cmd /\ m.agv = v /\ m.src = FromFloor(v) /\ m.dst = ToFloor(v)
  BY <1>3 DEF Say, Message
<1> QED
  BY <1>1, <1>2, <1>3 DEF Outgoing

LEMMA IncomingShape ==
    /\ \A m \in Incoming : m.cmd \in Commands /\ m.agv \in Agv \cup {Everybody}
    /\ \A cmd \in Commands, a \in AllFloors \cup {0}, b \in AllFloors \cup {0, OPEN},
          n \in Agv \cup {Everybody} :
          /\ Message(cmd, a, b, n) \in Incoming
          /\ Message(cmd, a, b, n).cmd = cmd /\ Message(cmd, a, b, n).agv = n
BY DEF Incoming, Message

\* What is sent is what was on its way, and the message.
LEMMA Notified ==
    ASSUME toLift \in Seq(Outgoing), NEW m \in Outgoing, Notify(m)
    PROVE  /\ toLift' \in Seq(Outgoing)
           /\ \A v \in Agv, cmd \in ToldOnce : Sent(v, cmd)' => Sent(v, cmd) \/ m = Say(v, cmd)
<1>1. CASE toLift' = toLift
  BY <1>1 DEF Sent
<1>2. CASE toLift' = Append(toLift, m)
  <2>1. /\ toLift' \in Seq(Outgoing) /\ Len(toLift') = Len(toLift) + 1
        /\ \A j \in 1..Len(toLift) : toLift'[j] = toLift[j]
        /\ toLift'[Len(toLift) + 1] = m
    BY <1>2
  <2>2. \A j \in 1..Len(toLift') : j \in 1..Len(toLift) \/ j = Len(toLift) + 1
    BY <2>1
  <2> QED
    BY <2>1, <2>2 DEF Sent
<1> QED
  BY <1>1, <1>2 DEF Notify

LEMMA HeadHeard ==
    ASSUME toLift \in Seq(Outgoing), toLift # <<>>, toLift' = Tail(toLift)
    PROVE  /\ toLift' \in Seq(Outgoing) /\ Head(toLift) \in Outgoing
           /\ \A v \in Agv, cmd \in ToldOnce :
                 /\ Sent(v, cmd)' => Sent(v, cmd)
                 /\ Head(toLift) = Say(v, cmd) => Sent(v, cmd)
<1>1. /\ toLift' \in Seq(Outgoing) /\ Head(toLift) \in Outgoing
      /\ Len(toLift') = Len(toLift) - 1 /\ Len(toLift) \in Nat /\ Len(toLift) # 0
      /\ \A j \in 1..Len(toLift') : toLift'[j] = toLift[j + 1]
      /\ Head(toLift) = toLift[1]
  BY HeadTailProperties
<1>2. 1 \in 1..Len(toLift) /\ \A j \in 1..Len(toLift') : j + 1 \in 1..Len(toLift)
  BY <1>1
<1> QED
  BY <1>1, <1>2 DEF Sent

\* What the lift answers.
LEMMA Answered ==
    ASSUME fromLift \in Seq(Incoming), NEW m \in Incoming, fromLift' = Append(fromLift, m),
           param' = param
    PROVE  /\ fromLift' \in Seq(Incoming)
           /\ \A v, cmd : Heard(v, cmd)' => Heard(v, cmd) \/ (m.cmd = cmd /\ m.agv = v)
<1>1. /\ fromLift' \in Seq(Incoming) /\ Len(fromLift') = Len(fromLift) + 1
      /\ \A j \in 1..Len(fromLift) : fromLift'[j] = fromLift[j]
      /\ fromLift'[Len(fromLift) + 1] = m
  OBVIOUS
<1>2. \A j \in 1..Len(fromLift') : j \in 1..Len(fromLift) \/ j = Len(fromLift) + 1
  BY <1>1
<1> QED
  BY <1>1, <1>2 DEF Heard, For

LEMMA AnswerIs ==
    ASSUME fromLift \in Seq(Incoming), NEW m \in Incoming, Answer(<<m>>)
    PROVE  fromLift' = Append(fromLift, m)
BY AppendIsConcat DEF Answer

\* What is read is what was on its way.
LEMMA ReadOff ==
    ASSUME fromLift \in Seq(Incoming), param \in Incoming, NEW n \in 1..Len(fromLift),
           fromLift' = SubSeq(fromLift, n + 1, Len(fromLift)), param' \in {param, fromLift[1]}
    PROVE  /\ fromLift' \in Seq(Incoming) /\ param' \in Incoming
           /\ \A v, cmd : Heard(v, cmd)' => Heard(v, cmd)
<1>1. /\ fromLift' \in Seq(Incoming)
      /\ Len(fromLift') = Len(fromLift) - n
      /\ \A j \in 1..Len(fromLift') : fromLift'[j] = fromLift[j + n]
  <2>1. \A j \in n + 1..Len(fromLift) : fromLift[j] \in Incoming
    OBVIOUS
  <2>2. n + 1 \in Int /\ Len(fromLift) \in Nat /\ n \in Nat /\ n <= Len(fromLift)
    OBVIOUS
  <2>3. /\ fromLift' \in Seq(Incoming)
        /\ Len(fromLift') = IF n + 1 <= Len(fromLift) THEN Len(fromLift) - (n + 1) + 1 ELSE 0
        /\ \A j \in 1..Len(fromLift) - (n + 1) + 1 : fromLift'[j] = fromLift[n + 1 + j - 1]
    BY <2>1, <2>2, SubSeqProperties
  <2>4. Len(fromLift') = Len(fromLift) - n
    BY <2>2, <2>3
  <2>5. \A j \in 1..Len(fromLift') : fromLift'[j] = fromLift[j + n]
    BY <2>2, <2>3, <2>4
  <2> QED
    BY <2>3, <2>4, <2>5
<1>2. 1 \in 1..Len(fromLift) /\ \A j \in 1..Len(fromLift') : j + n \in 1..Len(fromLift)
  BY <1>1
<1> QED
  BY <1>1, <1>2 DEF Heard

-----------------------------------------------------------------------------
(* Types are kept *)

LEMMA PCsAre == Outside \cup Gone \cup {"enter", "in", "ride", "leave", "out"} = PCs
BY DEF Outside, Gone, PCs

LEMMA StepShape ==
    ASSUME NEW v \in Agv, NEW a, NEW b \in PCs, pc \in [Agv -> PCs], Step(v, a, b)
    PROVE  /\ pc' \in [Agv -> PCs] /\ pc[v] = a /\ pc'[v] = b
           /\ \A w \in Agv \ {v} : pc'[w] = pc[w]
BY DEF Step

LEMMA GoesShape ==
    ASSUME NEW v \in Agv, NEW p \in Point, now \in [Agv -> Point], Goes(v, p)
    PROVE  /\ now' \in [Agv -> Point] /\ now'[v] = p
           /\ \A w \in Agv \ {v} : now'[w] = now[w]
BY DEF Goes

LEMMA ElevatorTypesInit == Init => ElevatorTypeOK
<1> SUFFICES ASSUME Init PROVE ElevatorTypeOK
  OBVIOUS
<1>1. param \in Incoming
  BY IncomingShape DEF Init, Commands, Everybody
<1>2. now \in [Agv -> Point] /\ place \in [Agv -> Point \cup {InCabin}]
  BY RouteShape DEF Init
<1>3. toLift \in Seq(Outgoing) /\ fromLift \in Seq(Incoming)
  BY DEF Init
<1>4. pc \in [Agv -> PCs] /\ tries \in [Agv -> Int]
  BY DEF Init, PCs
<1>5. connected \in BOOLEAN /\ resetFlag \in BOOLEAN /\ err \in BOOLEAN /\ handled \in BOOLEAN
      /\ sendCmd \in BOOLEAN
  BY DEF Init
<1>6. /\ senders \subseteq Repeated /\ cabin \in AllFloors /\ served \in Agv \cup {0}
      /\ calls \subseteq Agv /\ spoilt \subseteq {"given up", "left unheard"} /\ upsets \in Nat
      /\ phase = "idle"
  BY DEF Init
<1> QED
  BY <1>1, <1>2, <1>3, <1>4, <1>5, <1>6 DEF ElevatorTypeOK

\* The client: what is connected, read, repeated.
LEMMA ClientTypes ==
    ASSUME ElevatorTypeOK,
           \/ OnConnect \/ OnDisconnect \/ OnReadError \/ \E n \in 1..MaxWire : OnRead(n)
           \/ \E m \in senders : SendAgain(m) \/ EndSending(m)
    PROVE  /\ ElevatorTypeOK'
           /\ UNCHANGED <<pc, now, place, liftVars>> /\ spoilt \subseteq spoilt'
           /\ \A v \in Agv, cmd \in {"IntoEleACK", "LeftEleACK"} : Sent(v, cmd)' => Sent(v, cmd)
           /\ \A v, cmd : Heard(v, cmd)' => Heard(v, cmd)
           /\ sendCmd' = sendCmd /\ (sendCmd => senders \subseteq senders')
<1> DEFINE Kept == /\ UNCHANGED <<pc, now, place, liftVars>> /\ spoilt \subseteq spoilt'
                   /\ \A v \in Agv, cmd \in {"IntoEleACK", "LeftEleACK"} : Sent(v, cmd)' => Sent(v, cmd)
                   /\ \A v, cmd : Heard(v, cmd)' => Heard(v, cmd)
                   /\ sendCmd' = sendCmd /\ (sendCmd => senders \subseteq senders')
<1>0. upsets \in Nat /\ spoilt \subseteq {"given up", "left unheard"}
  BY DEF ElevatorTypeOK
<1>0b. /\ toLift \in Seq(Outgoing) /\ fromLift \in Seq(Incoming) /\ param \in Incoming
       /\ Len(fromLift) \in Nat
  <2>1. toLift \in Seq(Outgoing) /\ fromLift \in Seq(Incoming) /\ param \in Incoming
    BY DEF ElevatorTypeOK
  <2> QED
    BY <2>1
<1>0c. senders \subseteq Repeated
  BY DEF ElevatorTypeOK
<1>0a. Upset => upsets' \in Nat
  <2>1. upsets \in Nat
    BY DEF ElevatorTypeOK
  <2> QED
    BY <2>1 DEF Upset
<1>1. ASSUME OnConnect PROVE ElevatorTypeOK' /\ Kept
  <2>1. toLift' \in Seq(Outgoing) /\ \A v \in Agv, cmd \in ToldOnce : ~Sent(v, cmd)'
    <3>1. toLift' = <<>> \/ toLift' = <<Message("InitEleENQ", 0, 0, Everybody)>>
      BY <1>1 DEF OnConnect
    <3>2. toLift' \in Seq(Outgoing)
      <4> DEFINE m == Message("InitEleENQ", 0, 0, Everybody)
      <4>1. m \in Outgoing
        BY OutgoingAre
      <4> HIDE DEF m
      <4>2. <<>> \in Seq(Outgoing) /\ <<m>> \in Seq(Outgoing)
        BY <4>1
      <4> QED
        BY <3>1, <4>2 DEF m
    <3>3. \A v \in Agv, cmd \in ToldOnce : Say(v, cmd) # Message("InitEleENQ", 0, 0, Everybody)
      BY DEF Say, Message, ToldOnce
    <3>4. \A j \in 1..Len(toLift') : toLift'[j] = Message("InitEleENQ", 0, 0, Everybody)
      BY <3>1
    <3> QED
      BY <3>2, <3>3, <3>4 DEF Sent
  <2>2. /\ UNCHANGED <<slotVars, senderVars, riderVars, fromLift, liftVars, spoilt, upsets>>
        /\ connected' \in BOOLEAN /\ resetFlag' \in BOOLEAN
    BY <1>1 DEF OnConnect
  <2>3. ElevatorTypeOK'
    BY <2>1, <2>2 DEF ElevatorTypeOK, slotVars, senderVars, riderVars, liftVars
  <2>4. Kept
    BY <2>1, <2>2 DEF slotVars, senderVars, riderVars, Heard, ToldOnce
  <2> QED
    BY <2>3, <2>4
<1>2. ASSUME OnDisconnect PROVE ElevatorTypeOK' /\ Kept
  <2>1. toLift' = <<>> /\ fromLift' = <<>>
    BY <1>2 DEF OnDisconnect
  <2>2. /\ UNCHANGED <<resetFlag, slotVars, senderVars, riderVars, liftVars>>
        /\ connected' = FALSE /\ upsets' \in Nat
        /\ spoilt \subseteq spoilt' /\ spoilt' \subseteq {"given up", "left unheard"}
    BY <1>0, <1>0a, <1>2 DEF OnDisconnect
  <2>3. toLift' \in Seq(Outgoing) /\ fromLift' \in Seq(Incoming)
    BY <2>1
  <2>4. ElevatorTypeOK'
    BY <2>2, <2>3 DEF ElevatorTypeOK, slotVars, senderVars, riderVars, liftVars
  <2>5. \A v, cmd : ~Sent(v, cmd)' /\ (Heard(v, cmd)' => Heard(v, cmd))
    <3>1. Len(toLift') = 0 /\ Len(fromLift') = 0
      BY <2>1
    <3>2. \A j : j \notin 1..0
      OBVIOUS
    <3>3. param' = param
      BY <2>2 DEF slotVars
    <3> QED
      BY <3>1, <3>2, <3>3 DEF Sent, Heard
  <2>6. Kept
    BY <2>2, <2>5 DEF senderVars, riderVars
  <2> QED
    BY <2>4, <2>6
<1>3. ASSUME OnReadError PROVE ElevatorTypeOK' /\ Kept
  <2>1. /\ fromLift # <<>> /\ fromLift' = Tail(fromLift) /\ err' = TRUE
        /\ UNCHANGED <<clientVars, param, handled, senderVars, riderVars, toLift, liftVars, spoilt>>
    BY <1>3 DEF OnReadError
  <2>2. upsets' \in Nat
    BY <1>0a, <1>3 DEF OnReadError
  <2>3. 1 \in 1..Len(fromLift) /\ fromLift' = SubSeq(fromLift, 1 + 1, Len(fromLift))
    BY <1>0b, <2>1, TailIsSubSeq
  <2>4. /\ fromLift' \in Seq(Incoming) /\ param' \in Incoming
        /\ \A v, cmd : Heard(v, cmd)' => Heard(v, cmd)
    BY <1>0b, <2>1, <2>3, ReadOff
  <2>5. ElevatorTypeOK'
    BY <2>1, <2>2, <2>4 DEF ElevatorTypeOK, clientVars, senderVars, riderVars, liftVars
  <2>6. Kept
    BY <2>1, <2>4 DEF senderVars, riderVars, Sent
  <2> QED
    BY <2>5, <2>6
<1>4. ASSUME NEW n \in 1..MaxWire, OnRead(n) PROVE ElevatorTypeOK' /\ Kept
  <2>1. /\ n <= Len(fromLift) /\ param' = fromLift[1] /\ err' = FALSE /\ handled' = FALSE
        /\ fromLift' = SubSeq(fromLift, n + 1, Len(fromLift))
        /\ UNCHANGED <<clientVars, senderVars, riderVars, toLift, liftVars, spoilt>>
    BY <1>4 DEF OnRead
  <2>2. upsets' \in Nat
    BY <1>0, <1>0a, <1>4 DEF OnRead
  <2>3. n \in 1..Len(fromLift)
    BY <1>0b, <2>1
  <2>4. /\ fromLift' \in Seq(Incoming) /\ param' \in Incoming
        /\ \A v, cmd : Heard(v, cmd)' => Heard(v, cmd)
    BY <1>0b, <2>1, <2>3, ReadOff
  <2>5. ElevatorTypeOK'
    BY <2>1, <2>2, <2>4 DEF ElevatorTypeOK, clientVars, senderVars, riderVars, liftVars
  <2>6. Kept
    BY <2>1, <2>4 DEF senderVars, riderVars, Sent
  <2> QED
    BY <2>5, <2>6
<1>5. ASSUME NEW m \in senders, SendAgain(m) PROVE ElevatorTypeOK' /\ Kept
  <2>1. /\ m \in Outgoing /\ Notify(m)
        /\ UNCHANGED <<clientVars, slotVars, senderVars, riderVars, fromLift, liftVars, spoilt, upsets>>
    BY <1>0c, <1>5, OutgoingAre DEF SendAgain
  <2>2. /\ toLift' \in Seq(Outgoing)
        /\ \A v \in Agv, cmd \in ToldOnce : Sent(v, cmd)' => Sent(v, cmd) \/ m = Say(v, cmd)
    BY <1>0b, <2>1, Notified
  <2>3. \A v \in Agv : m # Say(v, "IntoEleACK") /\ m # Say(v, "LeftEleACK")
    BY <1>0c, SayIs DEF Repeated
  <2>4. ElevatorTypeOK'
    BY <2>1, <2>2 DEF ElevatorTypeOK, clientVars, slotVars, senderVars, riderVars, liftVars
  <2>5. Kept
    BY <2>1, <2>2, <2>3 DEF senderVars, riderVars, slotVars, Heard, ToldOnce
  <2> QED
    BY <2>4, <2>5
<1>6. ASSUME NEW m \in senders, EndSending(m) PROVE ElevatorTypeOK' /\ Kept
  <2>1. /\ ~sendCmd /\ senders' \subseteq Repeated
        /\ UNCHANGED <<clientVars, slotVars, sendCmd, riderVars, toLift, fromLift, liftVars, spoilt, upsets>>
    BY <1>0c, <1>6 DEF EndSending
  <2>2. ElevatorTypeOK'
    BY <2>1 DEF ElevatorTypeOK, clientVars, slotVars, riderVars, liftVars
  <2>3. Kept
    BY <2>1 DEF riderVars, slotVars, Heard, Sent
  <2> QED
    BY <2>2, <2>3
<1> QED
  BY <1>1, <1>2, <1>3, <1>4, <1>5, <1>6

-----------------------------------------------------------------------------
(* What a vehicle's thread does *)

Rider(v) == Hears(v) \/ Does(v) \/ TimedOut(v)

\* Where the thread and the vehicle get to.
Moves(v) ==
    \/ pc[v] \in Outside /\ pc'[v] \in Outside /\ place'[v] \in {place[v]} \cup Point
    \/ pc[v] = "confirm" /\ pc'[v] = "over" /\ "given up" \in spoilt' /\ place'[v] = place[v]
    \/ pc[v] = "confirm" /\ pc'[v] = "enter" /\ Confirms(v) /\ place'[v] = place[v]
    \/ pc[v] = "enter" /\ pc'[v] = "in" /\ place'[v] = InCabin
    \/ pc[v] = "in" /\ pc'[v] = "ride" /\ place'[v] = place[v]
    \/ pc[v] = "ride" /\ pc'[v] = "in" /\ place'[v] = place[v]
    \/ pc[v] = "ride" /\ pc'[v] = "leave" /\ There(v, "LeftEleENQ") /\ place'[v] = place[v]
    \/ pc[v] = "leave" /\ pc'[v] = "out" /\ place'[v] = Its[v].out
    \/ pc[v] = "out" /\ pc'[v] = "left" /\ place'[v] = place[v]
    \/ pc[v] = "left" /\ pc'[v] = "over" /\ place'[v] = Its[v].leave /\ now'[v] = Its[v].leave

LEMMA NamesOfPlaces ==
    /\ \A a \in {"away", "call", "called", "ask", "take", "confirm"} : a \in Outside /\ a \in PCs
    /\ \A a \in {"over", "enter", "in", "ride", "leave", "out", "left"} : a \in PCs
BY DEF Outside, PCs

LEMMA RiderMoves ==
    ASSUME ElevatorTypeOK, NEW v \in Agv, Rider(v)
    PROVE  /\ Moves(v)
           /\ pc' \in [Agv -> PCs] /\ \A w \in Agv \ {v} : pc'[w] = pc[w]
<1>0. pc \in [Agv -> PCs]
  BY DEF ElevatorTypeOK
<1>p. /\ place \in [Agv -> Point \cup {InCabin}]
      /\ \A p : [place EXCEPT ![v] = p][v] = p
  BY DEF ElevatorTypeOK
<1>n. \A p : now' = [now EXCEPT ![v] = p] => now'[v] = p
  BY DEF ElevatorTypeOK
<1>s. place' = place => place'[v] = place[v] /\ place'[v] \in {place[v]} \cup Point
  OBVIOUS
<1> DEFINE Others == pc' \in [Agv -> PCs] /\ \A w \in Agv \ {v} : pc'[w] = pc[w]
<1>a. \A a, b \in PCs : Step(v, a, b) => pc[v] = a /\ pc'[v] = b /\ Others
  BY <1>0, StepShape
<1> HIDE DEF Others
<1>b. /\ \A a \in {"away", "call", "called", "ask", "take", "confirm"} : a \in Outside /\ a \in PCs
      /\ \A a \in {"over", "enter", "in", "ride", "leave", "out", "left"} : a \in PCs
  BY NamesOfPlaces
<1>1. CASE ToLift(v)
  <2>1. Step(v, "away", "call") /\ place' = [place EXCEPT ![v] = Its[v].lift]
    BY <1>1 DEF ToLift
  <2>2. (pc[v] = "away" /\ pc'[v] = "call") /\ Others
    BY <1>a, <1>b, <2>1
  <2>3. place'[v] = Its[v].lift
    BY <1>p, <2>1
  <2> QED
    BY <1>b, RouteShape, <2>2, <2>3 DEF Moves, Others
<1>2. CASE CallEle(v)
  <2>1. Step(v, "call", "called") /\ place' = place
    BY <1>2 DEF CallEle
  <2>2. (pc[v] = "call" /\ pc'[v] = "called") /\ Others
    BY <1>a, <1>b, <2>1
  <2>3. place'[v] \in {place[v]} \cup Point /\ place'[v] = place[v]
    BY <1>s, <2>1
  <2> QED
    BY <1>b, <2>2, <2>3 DEF Moves, Others
<1>3. CASE Called(v)
  <2>1. (Step(v, "called", "ask") \/ Step(v, "called", "call")) /\ place' = place
    BY <1>3 DEF Called
  <2>2. ((pc[v] = "called" /\ pc'[v] = "ask") \/ (pc[v] = "called" /\ pc'[v] = "call")) /\ Others
    BY <1>a, <1>b, <2>1
  <2>3. place'[v] \in {place[v]} \cup Point /\ place'[v] = place[v]
    BY <1>s, <2>1
  <2> QED
    BY <1>b, <2>2, <2>3 DEF Moves, Others
<1>4. CASE Asked(v)
  <2>1. (Step(v, "ask", "take") \/ Step(v, "ask", "call")) /\ place' = place
    BY <1>4 DEF Asked
  <2>2. ((pc[v] = "ask" /\ pc'[v] = "take") \/ (pc[v] = "ask" /\ pc'[v] = "call")) /\ Others
    BY <1>a, <1>b, <2>1
  <2>3. place'[v] \in {place[v]} \cup Point /\ place'[v] = place[v]
    BY <1>s, <2>1
  <2> QED
    BY <1>b, <2>2, <2>3 DEF Moves, Others
<1>5. CASE TakeEleAck(v)
  <2>1. Step(v, "take", "confirm") /\ place' = place
    BY <1>5 DEF TakeEleAck
  <2>2. (pc[v] = "take" /\ pc'[v] = "confirm") /\ Others
    BY <1>a, <1>b, <2>1
  <2>3. place'[v] \in {place[v]} \cup Point /\ place'[v] = place[v]
    BY <1>s, <2>1
  <2> QED
    BY <1>b, <2>2, <2>3 DEF Moves, Others
<1>6. ASSUME NotConfirmed(v), place' = place PROVE Moves(v) /\ Others
  <2>1. \/ Step(v, "confirm", "over") /\ "given up" \in spoilt'
        \/ Step(v, "confirm", "take")
    BY <1>6 DEF NotConfirmed
  <2>2. pc[v] = "confirm" /\ Others /\ ((pc'[v] = "over" /\ "given up" \in spoilt') \/ pc'[v] = "take")
    BY <1>a, <1>b, <2>1
  <2> QED
    BY <1>b, <1>s, <1>6, <2>2 DEF Moves, Others
<1>7. CASE ConfirmEleInfo(v)
  <2>1. place' = place /\ ((Confirms(v) /\ Step(v, "confirm", "enter")) \/ NotConfirmed(v))
    BY <1>7 DEF ConfirmEleInfo
  <2>2. CASE Confirms(v) /\ Step(v, "confirm", "enter")
    <3>1. pc[v] = "confirm" /\ pc'[v] = "enter" /\ Others
      BY <1>a, <1>b, <2>2
    <3> QED
      BY <1>s, <2>1, <2>2, <3>1 DEF Moves, Others
  <2> QED
    BY <1>6, <2>1, <2>2 DEF Others
<1>8. CASE Enter(v)
  <2>1. Step(v, "enter", "in") /\ place' = [place EXCEPT ![v] = InCabin]
    BY <1>8 DEF Enter
  <2>2. (pc[v] = "enter" /\ pc'[v] = "in") /\ Others
    BY <1>a, <1>b, <2>1
  <2>3. place'[v] = InCabin
    BY <1>p, <2>1
  <2> QED
    BY <1>b, <2>2, <2>3 DEF Moves, Others
<1>9. CASE AgvEnterConfirm(v)
  <2>1. Step(v, "in", "ride") /\ place' = place
    BY <1>9 DEF AgvEnterConfirm
  <2>2. (pc[v] = "in" /\ pc'[v] = "ride") /\ Others
    BY <1>a, <1>b, <2>1
  <2>3. place'[v] \in {place[v]} \cup Point /\ place'[v] = place[v]
    BY <1>s, <2>1
  <2> QED
    BY <1>b, <2>2, <2>3 DEF Moves, Others
<1>10. CASE WaitArrive(v)
  <2>1. Step(v, "ride", "leave") /\ place' = place /\ There(v, "LeftEleENQ")
    BY <1>10 DEF WaitArrive
  <2>2. (pc[v] = "ride" /\ pc'[v] = "leave") /\ Others
    BY <1>a, <1>b, <2>1
  <2>3. place'[v] \in {place[v]} \cup Point /\ place'[v] = place[v]
    BY <1>s, <2>1
  <2> QED
    BY <1>b, <2>1, <2>2, <2>3 DEF Moves, Others
<1>11. CASE Leave(v)
  <2>1. /\ Step(v, "leave", "out") /\ place' = [place EXCEPT ![v] = now'[v]]
        /\ now' = [now EXCEPT ![v] = Its[v].out]
    BY <1>11 DEF Leave, Goes
  <2>2. (pc[v] = "leave" /\ pc'[v] = "out") /\ Others
    BY <1>a, <1>b, <2>1
  <2>3. place'[v] = Its[v].out
    BY <1>p, <1>n, <2>1
  <2> QED
    BY <1>b, <2>2, <2>3 DEF Moves, Others
<1>12. CASE AgvLeft(v)
  <2>1. Step(v, "out", "left") /\ place' = place
    BY <1>12 DEF AgvLeft
  <2>2. (pc[v] = "out" /\ pc'[v] = "left") /\ Others
    BY <1>a, <1>b, <2>1
  <2>3. place'[v] \in {place[v]} \cup Point /\ place'[v] = place[v]
    BY <1>s, <2>1
  <2> QED
    BY <1>b, <2>2, <2>3 DEF Moves, Others
<1>13. ASSUME FromLift(v, "over") PROVE Moves(v) /\ Others
  <2>1. /\ Step(v, "left", "over") /\ place' = [place EXCEPT ![v] = Its[v].leave]
        /\ now' = [now EXCEPT ![v] = Its[v].leave]
    BY <1>13 DEF FromLift, Goes
  <2>2. (pc[v] = "left" /\ pc'[v] = "over") /\ Others
    BY <1>a, <1>b, <2>1
  <2>3. place'[v] = Its[v].leave /\ now'[v] = Its[v].leave
    BY <1>p, <1>n, <2>1
  <2> QED
    BY <1>b, <2>2, <2>3 DEF Moves, Others
<1>14. CASE TimedOut(v)
  <2>1. CASE UNCHANGED place /\ (\/ Step(v, "called", "call") \/ Step(v, "ask", "call")
                                 \/ Step(v, "ride", "in"))
    <3>1. Others /\ (\/ pc[v] = "called" /\ pc'[v] = "call"
                     \/ pc[v] = "ask" /\ pc'[v] = "call"
                     \/ pc[v] = "ride" /\ pc'[v] = "in")
      BY <1>a, <1>b, <2>1
    <3> QED
      BY <1>b, <1>s, <2>1, <3>1 DEF Moves, Others
  <2>2. CASE NotConfirmed(v) /\ UNCHANGED place
    BY <1>6, <2>2 DEF Others
  <2>3. CASE FromLift(v, "over")
    BY <1>13, <2>3 DEF Others
  <2> QED
    BY <1>14, <2>1, <2>2, <2>3 DEF TimedOut, Others
<1>15. CASE LeftSet(v)
  BY <1>13, <1>15 DEF LeftSet, Others
<1> QED
  BY <1>1, <1>2, <1>3, <1>4, <1>5, <1>7, <1>8, <1>9, <1>10, <1>11, <1>12, <1>14, <1>15
  DEF Rider, Hears, Does, Others

\* What it sends, and whose messages are repeated.
Sends(v) ==
    /\ \A w \in Agv, cmd \in {"IntoEleACK", "LeftEleACK"} : Sent(w, cmd)' =>
          \/ Sent(w, cmd)
          \/ w = v /\ cmd = "IntoEleACK" /\ pc'[v] = "ride"
          \/ w = v /\ cmd = "LeftEleACK" /\ pc'[v] = "left"
    /\ pc[v] \in {"enter", "leave"} \/ (senders \subseteq senders' /\ (sendCmd => sendCmd'))
    /\ pc'[v] = "leave" => sendCmd' /\ Say(v, "LeftEleCMD") \in senders'

LEMMA RiderSends ==
    ASSUME ElevatorTypeOK, NEW v \in Agv, Rider(v)
    PROVE  /\ Sends(v)
           /\ toLift' \in Seq(Outgoing) /\ senders' \subseteq Repeated /\ sendCmd' \in BOOLEAN
<1>0. toLift \in Seq(Outgoing) /\ senders \subseteq Repeated /\ sendCmd \in BOOLEAN
  BY DEF ElevatorTypeOK
<1>p. pc \in [Agv -> PCs]
  BY DEF ElevatorTypeOK
<1> DEFINE Wire == toLift' \in Seq(Outgoing) /\ senders' \subseteq Repeated /\ sendCmd' \in BOOLEAN
<1>a. \A b : pc' = [pc EXCEPT ![v] = b] => pc'[v] = b
  BY <1>p
<1>b. ASSUME NEW m \in Outgoing, Notify(m), UNCHANGED senderVars, pc'[v] # "leave",
             m = Say(v, "IntoEleACK") => pc'[v] = "ride",
             m = Say(v, "LeftEleACK") => pc'[v] = "left",
             \A w \in Agv \ {v} : m # Say(w, "IntoEleACK") /\ m # Say(w, "LeftEleACK")
      PROVE  Sends(v) /\ Wire
  <2>1. /\ toLift' \in Seq(Outgoing)
        /\ \A w \in Agv, cmd \in ToldOnce : Sent(w, cmd)' => Sent(w, cmd) \/ m = Say(w, cmd)
    BY <1>0, <1>b, Notified
  <2>2. "IntoEleACK" \in ToldOnce /\ "LeftEleACK" \in ToldOnce
    BY DEF ToldOnce
  <2>3. senders' = senders /\ sendCmd' = sendCmd
    BY <1>b DEF senderVars
  <2> QED
    BY <1>0, <1>b, <2>1, <2>2, <2>3 DEF Sends
<1>c. ASSUME UNCHANGED toLift, UNCHANGED senderVars, pc'[v] # "leave" PROVE Sends(v) /\ Wire
  <2>1. \A w, cmd : Sent(w, cmd)' => Sent(w, cmd)
    BY <1>c DEF Sent
  <2>2. senders' = senders /\ sendCmd' = sendCmd
    BY <1>c DEF senderVars
  <2> QED
    BY <1>0, <1>c, <2>1, <2>2 DEF Sends
<1>d. ASSUME UNCHANGED toLift, StopSendThread, pc[v] \in {"enter", "leave"}, pc'[v] # "leave"
      PROVE  Sends(v) /\ Wire
  <2>1. \A w, cmd : Sent(w, cmd)' => Sent(w, cmd)
    BY <1>d DEF Sent
  <2>2. senders' = senders /\ sendCmd' = FALSE
    BY <1>d DEF StopSendThread
  <2> QED
    BY <1>0, <1>d, <2>1, <2>2 DEF Sends
<1>e. ASSUME NEW cmd \in {"TakeEleACK", "LeftEleCMD"}, StartSendThread(Say(v, cmd)),
             pc'[v] = "leave" => cmd = "LeftEleCMD"
      PROVE  Sends(v) /\ Wire
  <2>1. Say(v, cmd) \in Repeated /\ Say(v, cmd) \in Outgoing
    BY OutgoingAre DEF Repeated
  <2>2. /\ toLift' \in Seq(Outgoing)
        /\ \A w \in Agv, c \in ToldOnce : Sent(w, c)' => Sent(w, c) \/ Say(v, cmd) = Say(w, c)
    BY <1>0, <1>e, <2>1, Notified DEF StartSendThread
  <2>3. "IntoEleACK" \in ToldOnce /\ "LeftEleACK" \in ToldOnce
    BY DEF ToldOnce
  <2>4. \A w \in Agv : Say(v, cmd) # Say(w, "IntoEleACK") /\ Say(v, cmd) # Say(w, "LeftEleACK")
    BY SayIs
  <2>5. senders' = senders \cup {Say(v, cmd)} /\ sendCmd' = TRUE
    BY <1>e DEF StartSendThread
  <2> QED
    BY <1>0, <1>e, <2>1, <2>2, <2>3, <2>4, <2>5 DEF Sends
<1> HIDE DEF Wire
<1>1. CASE ToLift(v)
  <2>1. UNCHANGED toLift /\ UNCHANGED senderVars /\ pc' = [pc EXCEPT ![v] = "call"]
    BY <1>1 DEF ToLift, Step
  <2> QED
    BY <1>a, <1>c, <2>1 DEF Wire
<1>2. CASE CallEle(v)
  <2>1. Notify(Call(v)) /\ UNCHANGED senderVars /\ pc' = [pc EXCEPT ![v] = "called"]
    BY <1>2 DEF CallEle, Step
  <2>2. Call(v) \in Outgoing
    BY OutgoingAre
  <2>3. \A w \in Agv : Call(v) # Say(w, "IntoEleACK") /\ Call(v) # Say(w, "LeftEleACK")
    BY DEF Call, Say, Message
  <2> QED
    BY <1>a, <1>b, <2>1, <2>2, <2>3 DEF Wire
<1>3. CASE Called(v)
  <2>1. /\ UNCHANGED toLift /\ UNCHANGED senderVars
        /\ pc' = [pc EXCEPT ![v] = "ask"] \/ pc' = [pc EXCEPT ![v] = "call"]
    BY <1>3 DEF Called, Step
  <2>2. pc'[v] # "leave"
    BY <1>a, <2>1
  <2> QED
    BY <1>c, <2>1, <2>2 DEF Wire
<1>4. CASE Asked(v)
  <2>1. /\ UNCHANGED toLift /\ UNCHANGED senderVars
        /\ pc' = [pc EXCEPT ![v] = "take"] \/ pc' = [pc EXCEPT ![v] = "call"]
    BY <1>4 DEF Asked, Step
  <2>2. pc'[v] # "leave"
    BY <1>a, <2>1
  <2> QED
    BY <1>c, <2>1, <2>2 DEF Wire
<1>5. CASE TakeEleAck(v)
  <2>1. /\ Notify(Say(v, "TakeEleACK")) /\ UNCHANGED senderVars
        /\ pc' = [pc EXCEPT ![v] = "confirm"]
    BY <1>5 DEF TakeEleAck, Step
  <2>2. Say(v, "TakeEleACK") \in Outgoing
    BY OutgoingAre DEF ToldOnce
  <2>3. \A w \in Agv : /\ Say(v, "TakeEleACK") # Say(w, "IntoEleACK")
                       /\ Say(v, "TakeEleACK") # Say(w, "LeftEleACK")
    BY SayIs
  <2> QED
    BY <1>a, <1>b, <2>1, <2>2, <2>3 DEF Wire
<1>6. ASSUME NotConfirmed(v), UNCHANGED toLift PROVE Sends(v) /\ Wire
  <2>1. /\ UNCHANGED senderVars
        /\ pc' = [pc EXCEPT ![v] = "over"] \/ pc' = [pc EXCEPT ![v] = "take"]
    BY <1>6 DEF NotConfirmed, Step
  <2>2. pc'[v] # "leave"
    BY <1>a, <2>1
  <2> QED
    BY <1>c, <1>6, <2>1, <2>2
<1>7. CASE ConfirmEleInfo(v)
  <2>1. CASE StartSendThread(Say(v, "TakeEleACK")) /\ pc' = [pc EXCEPT ![v] = "enter"]
    BY <1>a, <1>e, <2>1 DEF Wire
  <2>2. CASE NotConfirmed(v) /\ UNCHANGED toLift
    BY <1>6, <2>2 DEF Wire
  <2> QED
    BY <1>7, <2>1, <2>2 DEF ConfirmEleInfo, Step
<1>8. CASE Enter(v)
  <2>1. /\ UNCHANGED toLift /\ StopSendThread /\ pc[v] = "enter"
        /\ pc' = [pc EXCEPT ![v] = "in"]
    BY <1>8 DEF Enter, Step
  <2> QED
    BY <1>a, <1>d, <2>1 DEF Wire
<1>9. CASE AgvEnterConfirm(v)
  <2>1. /\ Notify(Say(v, "IntoEleACK")) /\ UNCHANGED senderVars
        /\ pc' = [pc EXCEPT ![v] = "ride"]
    BY <1>9 DEF AgvEnterConfirm, Step
  <2>2. Say(v, "IntoEleACK") \in Outgoing
    BY OutgoingAre DEF ToldOnce
  <2>3. /\ Say(v, "IntoEleACK") # Say(v, "LeftEleACK")
        /\ \A w \in Agv \ {v} : /\ Say(v, "IntoEleACK") # Say(w, "IntoEleACK")
                                /\ Say(v, "IntoEleACK") # Say(w, "LeftEleACK")
    BY SayIs
  <2> QED
    BY <1>a, <1>b, <2>1, <2>2, <2>3 DEF Wire
<1>10. CASE WaitArrive(v)
  <2>1. StartSendThread(Say(v, "LeftEleCMD"))
    BY <1>10 DEF WaitArrive
  <2> QED
    BY <1>e, <2>1 DEF Wire
<1>11. CASE Leave(v)
  <2>1. /\ UNCHANGED toLift /\ StopSendThread /\ pc[v] = "leave"
        /\ pc' = [pc EXCEPT ![v] = "out"]
    BY <1>11 DEF Leave, Step
  <2> QED
    BY <1>a, <1>d, <2>1 DEF Wire
<1>12. CASE AgvLeft(v)
  <2>1. /\ Notify(Say(v, "LeftEleACK")) /\ UNCHANGED senderVars
        /\ pc' = [pc EXCEPT ![v] = "left"]
    BY <1>12 DEF AgvLeft, Step
  <2>2. Say(v, "LeftEleACK") \in Outgoing
    BY OutgoingAre DEF ToldOnce
  <2>3. /\ Say(v, "LeftEleACK") # Say(v, "IntoEleACK")
        /\ \A w \in Agv \ {v} : /\ Say(v, "LeftEleACK") # Say(w, "IntoEleACK")
                                /\ Say(v, "LeftEleACK") # Say(w, "LeftEleACK")
    BY SayIs
  <2> QED
    BY <1>a, <1>b, <2>1, <2>2, <2>3 DEF Wire
<1>13. ASSUME FromLift(v, "over") PROVE Sends(v) /\ Wire
  <2>1. UNCHANGED toLift /\ UNCHANGED senderVars /\ pc' = [pc EXCEPT ![v] = "over"]
    BY <1>13 DEF FromLift, Step
  <2> QED
    BY <1>a, <1>c, <2>1
<1>14. CASE TimedOut(v)
  <2>1. CASE /\ UNCHANGED toLift /\ UNCHANGED senderVars
             /\ \/ pc' = [pc EXCEPT ![v] = "call"] \/ pc' = [pc EXCEPT ![v] = "in"]
    <3>1. pc'[v] # "leave"
      BY <1>a, <2>1
    <3> QED
      BY <1>c, <2>1, <3>1 DEF Wire
  <2>2. CASE NotConfirmed(v) /\ UNCHANGED toLift
    BY <1>6, <2>2 DEF Wire
  <2>3. CASE FromLift(v, "over")
    BY <1>13, <2>3 DEF Wire
  <2> QED
    BY <1>14, <2>1, <2>2, <2>3 DEF TimedOut, Step
<1>15. CASE LeftSet(v)
  BY <1>13, <1>15 DEF LeftSet, Wire
<1> QED
  BY <1>1, <1>2, <1>3, <1>4, <1>5, <1>7, <1>8, <1>9, <1>10, <1>11, <1>12, <1>14, <1>15
  DEF Rider, Hears, Does

\* What it leaves alone.
LEMMA RiderLeaves ==
    ASSUME NEW v \in Agv, Rider(v)
    PROVE  UNCHANGED <<clientVars, param, err, fromLift, liftVars, upsets>>
<1>1. ASSUME Hears(v) PROVE UNCHANGED <<clientVars, param, err, fromLift, liftVars, upsets>>
  BY <1>1 DEF Hears, Called, Asked, ConfirmEleInfo, WaitArrive, LeftSet, FromLift, slotVars
<1>2. ASSUME Does(v) PROVE UNCHANGED <<clientVars, param, err, fromLift, liftVars, upsets>>
  BY <1>2 DEF Does, ToLift, CallEle, TakeEleAck, Enter, AgvEnterConfirm, Leave, AgvLeft, slotVars
<1>3. ASSUME TimedOut(v) PROVE UNCHANGED <<clientVars, param, err, fromLift, liftVars, upsets>>
  BY <1>3 DEF TimedOut, FromLift, slotVars
<1> QED
  BY <1>1, <1>2, <1>3 DEF Rider

\* What is known of what has happened, and of how often was tried.
LEMMA RiderCounts ==
    ASSUME ElevatorTypeOK, NEW v \in Agv, Rider(v)
    PROVE  /\ spoilt \subseteq spoilt' /\ spoilt' \subseteq {"given up", "left unheard"}
           /\ handled' \in BOOLEAN /\ tries' \in [Agv -> Int]
<1>1. spoilt \subseteq spoilt' /\ spoilt' \subseteq spoilt \cup {"given up", "left unheard"}
  <2>1. ASSUME NotConfirmed(v)
        PROVE  spoilt \subseteq spoilt' /\ spoilt' \subseteq spoilt \cup {"given up", "left unheard"}
    BY <2>1 DEF NotConfirmed
  <2>2. CASE Hears(v)
    BY <2>1, <2>2 DEF Hears, Called, Asked, ConfirmEleInfo, WaitArrive, LeftSet, FromLift
  <2>3. CASE Does(v)
    BY <2>3 DEF Does, ToLift, CallEle, TakeEleAck, Enter, AgvEnterConfirm, Leave, AgvLeft
  <2>4. CASE TimedOut(v)
    BY <2>1, <2>4 DEF TimedOut, FromLift
  <2> QED
    BY <2>2, <2>3, <2>4 DEF Rider
<1>2. handled' \in BOOLEAN
  <2>1. handled \in BOOLEAN
    BY DEF ElevatorTypeOK
  <2>2. CASE Hears(v)
    BY <2>1, <2>2 DEF Hears, Called, Asked, ConfirmEleInfo, WaitArrive, LeftSet, Takes
  <2>3. CASE Does(v)
    BY <2>1, <2>3 DEF Does, ToLift, CallEle, TakeEleAck, Enter, AgvEnterConfirm, Leave, AgvLeft, slotVars
  <2>4. CASE TimedOut(v)
    BY <2>1, <2>4 DEF TimedOut, slotVars
  <2> QED
    BY <2>2, <2>3, <2>4 DEF Rider
<1>3. tries' \in [Agv -> Int]
  <2>0. MaxTries \in Int
    <3>1. MaxTries \in Nat \ {0}
      BY ElevatorAssumption
    <3> QED
      BY <3>1
  <2>1. tries \in [Agv -> Int]
    BY DEF ElevatorTypeOK
  <2>2. \/ UNCHANGED tries
        \/ tries' = [tries EXCEPT ![v] = MaxTries] \/ tries' = [tries EXCEPT ![v] = 0]
        \/ tries' = [tries EXCEPT ![v] = @ - 1]
    <3>1. CASE Hears(v)
      BY <3>1 DEF Hears, Called, Asked, ConfirmEleInfo, WaitArrive, LeftSet, FromLift
    <3>2. CASE Does(v)
      BY <3>2 DEF Does, ToLift, CallEle, TakeEleAck, Enter, AgvEnterConfirm, Leave, AgvLeft
    <3>3. CASE TimedOut(v)
      BY <3>3 DEF TimedOut, FromLift
    <3> QED
      BY <3>1, <3>2, <3>3 DEF Rider
  <2> QED
    BY <2>0, <2>1, <2>2
<1>4. spoilt \subseteq {"given up", "left unheard"}
  BY DEF ElevatorTypeOK
<1> QED
  BY <1>1, <1>2, <1>3, <1>4

\* Only the vehicle itself moves.
LEMMA RiderPlaces ==
    ASSUME ElevatorTypeOK, NEW v \in Agv, Rider(v)
    PROVE  /\ now' \in [Agv -> Point] /\ place' \in [Agv -> Point \cup {InCabin}]
           /\ \A w \in Agv \ {v} : now'[w] = now[w] /\ place'[w] = place[w]
<1>1. now \in [Agv -> Point] /\ place \in [Agv -> Point \cup {InCabin}]
  BY DEF ElevatorTypeOK
<1>2. \/ now' = now \/ \E p \in Point : now' = [now EXCEPT ![v] = p]
  <2>1. CASE Hears(v)
    BY <2>1, RouteShape DEF Hears, Called, Asked, ConfirmEleInfo, WaitArrive, LeftSet, FromLift, Goes
  <2>2. CASE Does(v)
    BY <2>2, RouteShape DEF Does, ToLift, CallEle, TakeEleAck, Enter, AgvEnterConfirm, Leave,
       AgvLeft, Goes
  <2>3. CASE TimedOut(v)
    BY <2>3, RouteShape DEF TimedOut, FromLift, Goes
  <2> QED
    BY <2>1, <2>2, <2>3 DEF Rider
<1>3. now' \in [Agv -> Point] /\ \A w \in Agv \ {v} : now'[w] = now[w]
  BY <1>1, <1>2
<1>4. \/ place' = place \/ \E p \in Point \cup {InCabin} : place' = [place EXCEPT ![v] = p]
  <2>0. now'[v] \in Point
    BY <1>3
  <2>1. CASE Hears(v)
    BY <2>1, RouteShape DEF Hears, Called, Asked, ConfirmEleInfo, WaitArrive, LeftSet, FromLift
  <2>2. CASE Does(v)
    BY <2>0, <2>2, RouteShape DEF Does, ToLift, CallEle, TakeEleAck, Enter, AgvEnterConfirm, Leave,
       AgvLeft
  <2>3. CASE TimedOut(v)
    BY <2>3, RouteShape DEF TimedOut, FromLift
  <2> QED
    BY <2>1, <2>2, <2>3 DEF Rider
<1> QED
  BY <1>1, <1>3, <1>4

LEMMA RiderTypes ==
    ASSUME ElevatorTypeOK, NEW v \in Agv, Rider(v)
    PROVE  ElevatorTypeOK'
<1>1. UNCHANGED <<connected, resetFlag, param, err, fromLift, cabin, phase, served, calls, upsets>>
  BY RiderLeaves DEF clientVars, liftVars
<1> QED
  BY <1>1, RiderMoves, RiderSends, RiderCounts, RiderPlaces DEF ElevatorTypeOK

-----------------------------------------------------------------------------
(* What the lift does *)

LiftStep == LiftHears \/ LiftAsks \/ LiftRides \/ LiftGivesUp

\* It answers at most with one such message.
Tells(cmd, who) == \A v, c : Heard(v, c)' => Heard(v, c) \/ (c = cmd /\ v \in who)
LiftDoes ==
    \/ UNCHANGED <<phase, served, cabin>> /\ Tells("CallEleACK", Agv)
    \/ \E v \in Agv :
          /\ (phase = "asking" /\ cabin = FromFloor(v)) \/ (phase = "taken" /\ served = v)
          /\ phase' = "taken" /\ served' = v /\ cabin' = cabin
          /\ Tells("IntoEleENQ", {v, Everybody})
    \/ /\ served \in Agv /\ Sent(served, "IntoEleACK") /\ UNCHANGED <<served, cabin>>
       /\ \/ phase = "taken" /\ phase' = "riding" /\ Tells("LeftEleENQ", {})
          \/ phase = "arrived" /\ phase' = "arrived" /\ Tells("LeftEleENQ", {served})
          \/ phase \notin {"taken", "arrived"} /\ phase' = phase /\ Tells("LeftEleENQ", {})
    \/ /\ served \in Agv /\ Sent(served, "LeftEleACK") /\ phase' = "idle" /\ served' = 0
       /\ cabin' = cabin /\ Tells("LeftEleSet", Agv)
    \/ /\ phase \in {"idle", "asking"} /\ phase' \in {"idle", "asking"} /\ served' = served
       /\ Tells("TakeEleENQ", Agv \cup {Everybody})
    \/ /\ phase = "riding" /\ phase' = "arrived" /\ served' = served /\ cabin' = ToFloor(served)
       /\ Tells("LeftEleENQ", {served})

LEMMA ToldIt ==
    ASSUME fromLift \in Seq(Incoming), NEW cmd \in Commands, NEW a \in AllFloors \cup {0},
           NEW b \in AllFloors \cup {0, OPEN}, NEW n \in Agv \cup {Everybody}, param' = param,
           Answer(<<Message(cmd, a, b, n)>>)
    PROVE  fromLift' \in Seq(Incoming) /\ \A who : n \in who => Tells(cmd, who)
<1>1. Message(cmd, a, b, n) \in Incoming
  BY IncomingShape
<1>2. fromLift' = Append(fromLift, Message(cmd, a, b, n))
  BY <1>1, AnswerIs
<1>3. /\ fromLift' \in Seq(Incoming)
      /\ \A v, c : Heard(v, c)' => Heard(v, c) \/ (Message(cmd, a, b, n).cmd = c
                                                  /\ Message(cmd, a, b, n).agv = v)
  BY <1>1, <1>2, Answered
<1> QED
  BY <1>3 DEF Tells, Message

LEMMA ToldNothing ==
    ASSUME UNCHANGED <<param, fromLift>>
    PROVE  \A cmd, who : Tells(cmd, who)
BY DEF Tells, Heard

LEMMA CommandsAre ==
    /\ "CallEleACK" \in Commands /\ "TakeEleENQ" \in Commands /\ "IntoEleENQ" \in Commands
    /\ "LeftEleENQ" \in Commands /\ "LeftEleSet" \in Commands
BY DEF Commands

LEMMA LiftEffects ==
    ASSUME ElevatorTypeOK, AtFloor, LiftStep
    PROVE  /\ LiftDoes
           /\ UNCHANGED <<clientVars, slotVars, senderVars, riderVars, spoilt>>
           /\ toLift' \in Seq(Outgoing) /\ fromLift' \in Seq(Incoming)
           /\ \A v \in Agv, cmd \in ToldOnce : Sent(v, cmd)' => Sent(v, cmd)
           /\ cabin' \in AllFloors /\ calls' \subseteq Agv /\ upsets' \in Nat
<1>0. toLift \in Seq(Outgoing) /\ fromLift \in Seq(Incoming)
  BY DEF ElevatorTypeOK
<1>0a. cabin \in AllFloors /\ calls \subseteq Agv /\ served \in Agv \cup {0}
  BY DEF ElevatorTypeOK
<1>0b. upsets \in Nat
  BY DEF ElevatorTypeOK
<1>0c. /\ \A v \in Agv : v \in Agv \cup {Everybody} /\ FromFloor(v) \in AllFloors /\ ToFloor(v) \in AllFloors
  BY RouteShape
<1> DEFINE Rest == UNCHANGED <<clientVars, slotVars, senderVars, riderVars, spoilt>>
           Wire == /\ toLift' \in Seq(Outgoing)
                   /\ \A v \in Agv, cmd \in ToldOnce : Sent(v, cmd)' => Sent(v, cmd)
           Told == fromLift' \in Seq(Incoming)
           Lift == cabin' \in AllFloors /\ calls' \subseteq Agv
<1>0d. UNCHANGED toLift => Wire
  BY <1>0 DEF Sent
<1>0e. Rest => param' = param
  BY DEF slotVars
<1>1. CASE LiftHears
  <2> DEFINE m == Head(toLift)
  <2>0. /\ toLift # <<>> /\ toLift' = Tail(toLift) /\ Rest /\ upsets' = upsets
        /\ OnCall(m) \/ OnTake(m) \/ OnInto(m) \/ OnLeft(m) \/ Else(m)
    BY <1>1 DEF LiftHears
  <2>0a. /\ Wire /\ m \in Outgoing
         /\ \A v \in Agv, cmd \in ToldOnce : m = Say(v, cmd) => Sent(v, cmd)
    BY <1>0, <2>0, HeadHeard
  <2> HIDE DEF m, Wire, Rest
  <2>k. \A cmd \in ToldOnce : cmd # "InitEleENQ" /\ cmd # "CallEleENQ"
    BY DEF ToldOnce
  <2>s. \A cmd \in ToldOnce : m.cmd = cmd =>
           \E v \in Agv : /\ m = Say(v, cmd) /\ m.agv = v
                          /\ m.src = FromFloor(v) /\ m.dst = ToFloor(v)
    BY <2>0a, <2>k, OutgoingShape
  <2>1. CASE OnCall(m)
    <3>1. /\ m.cmd = "CallEleENQ" /\ calls' = calls \cup {m.agv}
          /\ Answer(<<Message("CallEleACK", 0, m.dst, m.agv)>>) /\ UNCHANGED <<cabin, phase, served>>
      BY <2>1 DEF OnCall
    <3>2. m.agv \in Agv /\ m.dst \in AllFloors
      BY <1>0c, <2>0a, <2>k, <3>1, OutgoingShape
    <3>3. Told /\ Tells("CallEleACK", Agv)
      BY <1>0, <1>0e, <2>0, <3>1, <3>2, ToldIt, CommandsAre
    <3>4. LiftDoes
      BY <3>1, <3>3 DEF LiftDoes
    <3> QED
      BY <1>0a, <1>0b, <2>0, <2>0a, <3>1, <3>2, <3>3, <3>4 DEF Rest, Wire
  <2>2. CASE OnTake(m)
    <3>0. m.cmd = "TakeEleACK" /\ cabin' = cabin /\ calls' = calls
      BY <2>2 DEF OnTake
    <3>1. PICK v \in Agv : m.agv = v /\ m.src = FromFloor(v) /\ m.dst = ToFloor(v)
      BY <2>s, <3>0 DEF ToldOnce
    <3>2. CASE UNCHANGED <<phase, served, fromLift>>
      <4>1. Told /\ Tells("CallEleACK", Agv)
        BY <1>0, <1>0e, <2>0, <3>2, ToldNothing
      <4>2. LiftDoes
        BY <3>0, <3>2, <4>1 DEF LiftDoes
      <4> QED
        BY <1>0a, <1>0b, <2>0, <2>0a, <3>0, <4>1, <4>2 DEF Rest, Wire
    <3>3. CASE /\ \/ phase = "asking" /\ cabin = m.src
                  \/ phase = "taken" /\ served = m.agv
               /\ phase' = "taken" /\ served' = m.agv
               /\ \E n \in SomeName(m.agv) :
                     Answer(<<Message("IntoEleENQ", m.src, m.dst, n)>>)
      <4>1. PICK n \in {v, Everybody} : Answer(<<Message("IntoEleENQ", m.src, m.dst, n)>>)
        BY <3>1, <3>3 DEF SomeName
      <4>2. Told /\ Tells("IntoEleENQ", {v, Everybody})
        <5>1. n \in Agv \cup {Everybody}
          OBVIOUS
        <5> QED
          BY <1>0, <1>0c, <1>0e, <2>0, <3>1, <4>1, <5>1, ToldIt, CommandsAre
      <4>3. LiftDoes
        BY <3>0, <3>1, <3>3, <4>2 DEF LiftDoes
      <4> QED
        BY <1>0a, <1>0b, <2>0, <2>0a, <3>0, <4>2, <4>3 DEF Rest, Wire
    <3> QED
      BY <2>2, <3>2, <3>3 DEF OnTake
  <2>3. CASE OnInto(m)
    <3>0. /\ m.cmd = "IntoEleACK" /\ served = m.agv /\ UNCHANGED <<cabin, served, calls>>
          /\ IF phase = "arrived" THEN Answer(<<Say(served, "LeftEleENQ")>>) ELSE UNCHANGED fromLift
          /\ phase' = IF phase = "taken" THEN "riding" ELSE phase
      BY <2>3 DEF OnInto
    <3>1. served \in Agv /\ Sent(served, "IntoEleACK")
      <4>1. "IntoEleACK" \in ToldOnce
        BY DEF ToldOnce
      <4> QED
        BY <2>0a, <2>s, <3>0, <4>1
    <3>2. CASE phase = "arrived"
      <4>1. Answer(<<Message("LeftEleENQ", FromFloor(served), ToFloor(served), served)>>)
        BY <3>0, <3>2 DEF Say
      <4>2. Told /\ Tells("LeftEleENQ", {served})
        BY <1>0, <1>0c, <1>0e, <2>0, <3>1, <4>1, ToldIt, CommandsAre
      <4>3. LiftDoes
        BY <3>0, <3>1, <3>2, <4>2 DEF LiftDoes
      <4> QED
        BY <1>0a, <1>0b, <2>0, <2>0a, <3>0, <4>2, <4>3 DEF Rest, Wire
    <3>3. CASE phase # "arrived"
      <4>1. Told /\ Tells("LeftEleENQ", {})
        BY <1>0, <1>0e, <2>0, <3>0, <3>3, ToldNothing
      <4>2. LiftDoes
        BY <3>0, <3>1, <3>3, <4>1 DEF LiftDoes
      <4> QED
        BY <1>0a, <1>0b, <2>0, <2>0a, <3>0, <4>1, <4>2 DEF Rest, Wire
    <3> QED
      BY <3>2, <3>3
  <2>4. CASE OnLeft(m)
    <3>0. /\ m.cmd = "LeftEleACK" /\ served = m.agv /\ phase' = "idle" /\ served' = 0
          /\ Answer(<<Message("LeftEleSet", m.src, m.dst, m.agv)>>) /\ UNCHANGED <<cabin, calls>>
      BY <2>4 DEF OnLeft
    <3>1. /\ served \in Agv /\ Sent(served, "LeftEleACK")
          /\ m.src = FromFloor(served) /\ m.dst = ToFloor(served)
      <4>1. "LeftEleACK" \in ToldOnce
        BY DEF ToldOnce
      <4> QED
        BY <2>0a, <2>s, <3>0, <4>1
    <3>2. Told /\ Tells("LeftEleSet", Agv)
      BY <1>0, <1>0c, <1>0e, <2>0, <3>0, <3>1, ToldIt, CommandsAre
    <3>3. LiftDoes
      BY <3>0, <3>1, <3>2 DEF LiftDoes
    <3> QED
      BY <1>0a, <1>0b, <2>0, <2>0a, <3>0, <3>2, <3>3 DEF Rest, Wire
  <2>5. CASE Else(m)
    <3>1. UNCHANGED <<cabin, phase, served, calls, fromLift>>
      BY <2>5 DEF Else, liftVars
    <3>2. Told /\ Tells("CallEleACK", Agv)
      BY <1>0, <1>0e, <2>0, <3>1, ToldNothing
    <3>3. LiftDoes
      BY <3>1, <3>2 DEF LiftDoes
    <3> QED
      BY <1>0a, <1>0b, <2>0, <2>0a, <3>1, <3>2, <3>3 DEF Rest, Wire
  <2> QED
    BY <2>0, <2>1, <2>2, <2>3, <2>4, <2>5
<1>2. CASE LiftAsks
  <2>1. PICK v \in Waiting : \E n \in {v, Everybody} :
           /\ cabin' = FromFloor(v) /\ calls' = calls \ {v}
           /\ Answer(<<Message("TakeEleENQ", cabin', OPEN, n)>>)
    BY <1>2 DEF LiftAsks
  <2>2. PICK n \in {v, Everybody} :
           /\ cabin' = FromFloor(v) /\ calls' = calls \ {v}
           /\ Answer(<<Message("TakeEleENQ", cabin', OPEN, n)>>)
    BY <2>1
  <2>3. v \in Agv /\ phase \in {"idle", "asking"}
    BY <1>0a DEF Waiting
  <2>4. phase' = "asking" /\ served' = served /\ UNCHANGED <<toLift, upsets>> /\ Rest
    BY <1>2 DEF LiftAsks
  <2>5. cabin' \in AllFloors /\ calls' \subseteq Agv
    BY <1>0a, <1>0c, <2>2, <2>3
  <2>6. Told /\ Tells("TakeEleENQ", Agv \cup {Everybody})
    <3>1. n \in Agv \cup {Everybody}
      BY <2>3
    <3> HIDE DEF Rest
    <3> QED
      BY <1>0, <1>0e, <2>2, <2>4, <2>5, <3>1, ToldIt, CommandsAre
  <2>7. LiftDoes
    BY <2>3, <2>4, <2>6 DEF LiftDoes
  <2> HIDE DEF Wire, Rest
  <2> QED
    BY <1>0b, <1>0d, <2>4, <2>5, <2>6, <2>7 DEF Wire, Rest
<1>3. CASE LiftRides
  <2>1. /\ phase = "riding" /\ phase' = "arrived" /\ cabin' = ToFloor(served)
        /\ fromLift' = IF connected THEN Append(fromLift, Say(served, "LeftEleENQ")) ELSE fromLift
        /\ UNCHANGED <<toLift, served, calls, upsets>> /\ Rest
    BY <1>3 DEF LiftRides
  <2>2. served \in Agv
    BY <2>1 DEF AtFloor
  <2>3. Told /\ Tells("LeftEleENQ", {served})
    <3>1. CASE fromLift' = Append(fromLift, Say(served, "LeftEleENQ"))
      <4>1. Say(served, "LeftEleENQ") \in Incoming
        BY <1>0c, <2>2, IncomingShape, CommandsAre DEF Say
      <4>2. Answer(<<Message("LeftEleENQ", FromFloor(served), ToFloor(served), served)>>)
        BY <1>0, <3>1, <4>1, AppendIsConcat DEF Answer, Say
      <4> HIDE DEF Rest
      <4> QED
        BY <1>0, <1>0c, <1>0e, <2>1, <2>2, <4>2, ToldIt, CommandsAre
    <3>2. CASE fromLift' = fromLift
      BY <1>0, <1>0e, <2>1, <3>2, ToldNothing
    <3> QED
      BY <2>1, <3>1, <3>2
  <2>4. LiftDoes
    BY <2>1, <2>3 DEF LiftDoes
  <2> HIDE DEF Wire, Rest
  <2> QED
    BY <1>0a, <1>0b, <1>0c, <1>0d, <2>1, <2>2, <2>3, <2>4 DEF Wire, Rest
<1>4. CASE LiftGivesUp
  <2>1. /\ phase = "asking" /\ phase' = "idle"
        /\ UNCHANGED <<toLift, fromLift, cabin, served, calls>> /\ Rest
    BY <1>4 DEF LiftGivesUp
  <2>2. upsets' \in Nat
    <3>1. upsets' = upsets + 1 \/ upsets' = upsets
      BY <1>4 DEF LiftGivesUp, Upset
    <3> QED
      BY <1>0b, <3>1
  <2>3. Told /\ Tells("TakeEleENQ", Agv \cup {Everybody})
    BY <1>0, <1>0e, <2>1, ToldNothing
  <2>4. LiftDoes
    BY <2>1, <2>3 DEF LiftDoes
  <2> HIDE DEF Wire, Rest
  <2> QED
    BY <1>0a, <1>0d, <2>1, <2>2, <2>3, <2>4 DEF Wire, Rest
<1> QED
  BY <1>1, <1>2, <1>3, <1>4 DEF LiftStep

LEMMA LiftTypes ==
    ASSUME ElevatorTypeOK, AtFloor, LiftStep
    PROVE  ElevatorTypeOK'
<1>1. /\ UNCHANGED <<connected, resetFlag, param, err, handled, sendCmd, senders, pc, tries, now,
                    place, spoilt>>
      /\ toLift' \in Seq(Outgoing) /\ fromLift' \in Seq(Incoming)
      /\ cabin' \in AllFloors /\ calls' \subseteq Agv /\ upsets' \in Nat
  BY LiftEffects DEF clientVars, slotVars, senderVars, riderVars
<1>2. /\ phase' \in {"idle", "asking", "taken", "riding", "arrived"}
      /\ served' \in Agv \cup {0}
  <2>1. LiftDoes /\ phase \in {"idle", "asking", "taken", "riding", "arrived"} /\ served \in Agv \cup {0}
    BY LiftEffects DEF ElevatorTypeOK
  <2> QED
    BY <2>1 DEF LiftDoes
<1> QED
  BY <1>1, <1>2 DEF ElevatorTypeOK

LEMMA ElevatorTypesNext ==
    ASSUME ElevatorTypeOK, AtFloor, [Next]_vars
    PROVE  ElevatorTypeOK'
<1>1. CASE \/ OnConnect \/ OnDisconnect \/ OnReadError \/ \E n \in 1..MaxWire : OnRead(n)
           \/ \E m \in senders : SendAgain(m) \/ EndSending(m)
  BY <1>1, ClientTypes
<1>2. ASSUME NEW v \in Agv, Rider(v) PROVE ElevatorTypeOK'
  BY <1>2, RiderTypes
<1>3. CASE LiftStep
  BY <1>3, LiftTypes
<1>4. CASE UNCHANGED vars
  BY <1>4 DEF vars, clientVars, slotVars, senderVars, riderVars, liftVars, ElevatorTypeOK
<1> QED
  BY <1>1, <1>2, <1>3, <1>4 DEF Next, Rider, LiftStep

-----------------------------------------------------------------------------
(* Who has the lift: that is kept *)

LEMMA LiftInvInit == Init => LiftInv
<1> SUFFICES ASSUME Init PROVE LiftInv
  OBVIOUS
<1>1. \A v, cmd : ~Sent(v, cmd) /\ (Heard(v, cmd) => cmd = "TestEleCmd")
  <2>1. Len(toLift) = 0 /\ Len(fromLift) = 0 /\ param.cmd = "TestEleCmd"
    BY DEF Init, Message
  <2>2. \A j : j \notin 1..0
    OBVIOUS
  <2> QED
    BY <2>1, <2>2 DEF Sent, Heard, For
<1>2. AtFloor
  BY DEF Init, AtFloor
<1>3. ASSUME NEW v \in Agv PROVE Has(v) /\ True(v) /\ Holds(v) /\ Ends(v)
  <2>1. pc[v] = "away" /\ place[v] # InCabin
    BY RouteShape, AgvAre DEF Init
  <2> QED
    BY <1>1, <2>1 DEF Has, True, Holds, Ends, Outside
<1> QED
  BY <1>1, <1>2, <1>3 DEF LiftInv

\* The client changes nothing of it.
LEMMA LiftInvClient ==
    ASSUME ElevatorTypeOK, LiftInv,
           \/ OnConnect \/ OnDisconnect \/ OnReadError \/ \E n \in 1..MaxWire : OnRead(n)
           \/ \E m \in senders : SendAgain(m) \/ EndSending(m)
    PROVE  LiftInv'
<1>1. /\ pc' = pc /\ now' = now /\ place' = place /\ phase' = phase /\ served' = served
      /\ cabin' = cabin /\ spoilt \subseteq spoilt'
      /\ \A v \in Agv, cmd \in {"IntoEleACK", "LeftEleACK"} : Sent(v, cmd)' => Sent(v, cmd)
      /\ \A v, cmd : Heard(v, cmd)' => Heard(v, cmd)
      /\ sendCmd' = sendCmd /\ (sendCmd => senders \subseteq senders')
  BY ClientTypes DEF liftVars
<1>2. AtFloor' /\ ~Heard(Everybody, "LeftEleENQ")'
  BY <1>1 DEF LiftInv, AtFloor, FromFloor, ToFloor
<1>3. ASSUME NEW v \in Agv PROVE Has(v)' /\ True(v)' /\ Holds(v)' /\ Ends(v)'
  <2>0. Has(v) /\ True(v) /\ Holds(v) /\ Ends(v)
    BY DEF LiftInv
  <2>1. Has(v)'
    BY <1>1, <2>0 DEF Has
  <2>2. True(v)'
    BY <1>1, <2>0 DEF True
  <2>3. Holds(v)'
    BY <1>1, <2>0 DEF Holds
  <2>4. Ends(v)'
    BY <1>1, <2>0 DEF Ends
  <2> QED
    BY <2>1, <2>2, <2>3, <2>4
<1> QED
  BY <1>2, <1>3 DEF LiftInv

\* A vehicle goes on only if what it is told is for it and still true.
LEMMA RiderKeepsItsOwn ==
    ASSUME ElevatorTypeOK, LiftInv, NEW v \in Agv, Rider(v)
    PROVE  Has(v)' /\ True(v)' /\ Holds(v)' /\ Ends(v)'
<1>0. Moves(v) /\ Sends(v) /\ phase' = phase /\ served' = served
  BY RiderMoves, RiderSends, RiderLeaves DEF liftVars
<1>1. \A w, cmd : Heard(w, cmd)' = Heard(w, cmd)
  BY RiderLeaves DEF Heard
<1>2. Has(v) /\ True(v) /\ Ends(v)
  BY DEF LiftInv
<1>3. Its[v].out # InCabin /\ Its[v].leave # InCabin /\ InCabin \notin Point
  BY RouteShape, AgvAre
<1>4. Confirms(v) => Heard(v, "IntoEleENQ")
  BY DEF Confirms, Say, Message, Heard, For
<1>5. There(v, "LeftEleENQ") => Heard(v, "LeftEleENQ")
  BY DEF There, Heard, For, LiftInv
<1>6. pc[v] \in Outside /\ pc'[v] \in Outside => place[v] # InCabin
  BY <1>2 DEF Has, Outside
<1>7. Has(v)'
  <2>1. CASE pc[v] \in Outside /\ pc'[v] \in Outside /\ place'[v] \in {place[v]} \cup Point
    <3>1. place'[v] # InCabin
      BY <1>3, <1>6, <2>1
    <3> QED
      BY <2>1, <3>1 DEF Has, Outside
  <2>2. CASE pc[v] = "confirm" /\ pc'[v] = "over" /\ "given up" \in spoilt' /\ place'[v] = place[v]
    BY <1>2, <2>2 DEF Has
  <2>3. CASE pc[v] = "confirm" /\ pc'[v] = "enter" /\ Confirms(v) /\ place'[v] = place[v]
    <3>1. served = v /\ phase = "taken"
      BY <1>2, <1>4, <2>3 DEF True, Outside
    <3> QED
      BY <1>0, <1>2, <2>3, <3>1 DEF Has
  <2>4. CASE pc[v] = "enter" /\ pc'[v] = "in" /\ place'[v] = InCabin
    BY <1>0, <1>2, <2>4 DEF Has
  <2>5. CASE pc[v] = "in" /\ pc'[v] = "ride" /\ place'[v] = place[v]
    BY <1>0, <1>2, <2>5 DEF Has
  <2>6. CASE pc[v] = "ride" /\ pc'[v] = "in" /\ place'[v] = place[v]
    BY <1>0, <1>2, <2>6 DEF Has
  <2>7. CASE pc[v] = "ride" /\ pc'[v] = "leave" /\ There(v, "LeftEleENQ") /\ place'[v] = place[v]
    <3>1. served = v /\ phase = "arrived"
      BY <1>2, <1>5, <2>7 DEF True, Gone
    <3> QED
      BY <1>0, <1>2, <2>7, <3>1 DEF Has
  <2>8. CASE pc[v] = "leave" /\ pc'[v] = "out" /\ place'[v] = Its[v].out
    BY <1>0, <1>2, <1>3, <2>8 DEF Has
  <2>9. CASE pc[v] = "out" /\ pc'[v] = "left" /\ place'[v] = place[v]
    BY <1>2, <2>9 DEF Has
  <2>10. CASE pc[v] = "left" /\ pc'[v] = "over" /\ place'[v] = Its[v].leave /\ now'[v] = Its[v].leave
    BY <1>3, <2>10 DEF Has
  <2> QED
    BY <1>0, <2>1, <2>2, <2>3, <2>4, <2>5, <2>6, <2>7, <2>8, <2>9, <2>10 DEF Moves
<1>8. /\ pc[v] \notin Outside \cup {"enter"} => pc'[v] \notin Outside \cup {"enter"}
      /\ pc[v] \in Gone => pc'[v] \in Gone
      /\ pc'[v] \in Outside => pc[v] \in Outside
      /\ pc'[v] = "over" => "given up" \in spoilt' \/ (place'[v] = Its[v].leave /\ now'[v] = Its[v].leave)
  BY <1>0 DEF Moves, Outside, Gone
<1>9. True(v)'
  <2>1. Sent(v, "IntoEleACK")' => pc'[v] \notin Outside \cup {"enter"}
    <3>1. CASE Sent(v, "IntoEleACK")
      BY <1>2, <1>8, <3>1 DEF True
    <3>2. CASE pc'[v] = "ride"
      BY <3>2 DEF Outside
    <3> QED
      BY <1>0, <3>1, <3>2 DEF Sends
  <2>2. Sent(v, "LeftEleACK")' => pc'[v] \in Gone
    <3>1. CASE Sent(v, "LeftEleACK")
      BY <1>2, <1>8, <3>1 DEF True
    <3>2. CASE pc'[v] = "left"
      BY <3>2 DEF Gone
    <3> QED
      BY <1>0, <3>1, <3>2 DEF Sends
  <2>3. Heard(v, "IntoEleENQ")' /\ pc'[v] \in Outside => served' = v /\ phase' = "taken"
    BY <1>0, <1>1, <1>2, <1>8 DEF True
  <2>4. Heard(v, "LeftEleENQ")' /\ pc'[v] \notin Gone => served' = v /\ phase' = "arrived"
    BY <1>0, <1>1, <1>2, <1>8 DEF True
  <2> QED
    BY <2>1, <2>2, <2>3, <2>4 DEF True
<1>10. Holds(v)'
  BY <1>0 DEF Sends, Holds
<1>11. Ends(v)'
  BY <1>8 DEF Ends
<1> QED
  BY <1>7, <1>9, <1>10, <1>11

\* Of the others it changes nothing: who stops sending has the lift alone.
LEMMA RiderKeepsOthers ==
    ASSUME ElevatorTypeOK, LiftInv, NEW v \in Agv, Rider(v), NEW w \in Agv \ {v}
    PROVE  Has(w)' /\ True(w)' /\ Holds(w)' /\ Ends(w)'
<1>0. /\ Sends(v) /\ phase' = phase /\ served' = served /\ spoilt \subseteq spoilt'
      /\ pc'[w] = pc[w] /\ now'[w] = now[w] /\ place'[w] = place[w]
  BY RiderMoves, RiderSends, RiderLeaves, RiderCounts, RiderPlaces DEF liftVars
<1>1. \A cmd : Heard(w, cmd)' = Heard(w, cmd)
  BY RiderLeaves DEF Heard
<1>2. Has(w) /\ True(w) /\ Holds(w) /\ Ends(w) /\ Has(v)
  BY DEF LiftInv
<1>3. \A cmd \in {"IntoEleACK", "LeftEleACK"} : Sent(w, cmd)' => Sent(w, cmd)
  BY <1>0 DEF Sends
<1>4. Has(w)'
  BY <1>0, <1>2 DEF Has
<1>5. True(w)'
  BY <1>0, <1>1, <1>2, <1>3 DEF True
<1>6. Holds(w)'
  <2>1. CASE pc[v] \in {"enter", "leave"}
    <3>1. pc[w] # "leave"
      BY <1>2, <2>1 DEF Has
    <3> QED
      BY <1>0, <3>1 DEF Holds
  <2>2. CASE pc[v] \notin {"enter", "leave"}
    BY <1>0, <1>2, <2>2 DEF Holds, Sends
  <2> QED
    BY <2>1, <2>2
<1>7. Ends(w)'
  BY <1>0, <1>2 DEF Ends
<1> QED
  BY <1>4, <1>5, <1>6, <1>7

LEMMA LiftInvRider ==
    ASSUME ElevatorTypeOK, LiftInv, NEW v \in Agv, Rider(v)
    PROVE  LiftInv'
<1>1. AtFloor' /\ ~Heard(Everybody, "LeftEleENQ")'
  <2>1. phase' = phase /\ served' = served /\ cabin' = cabin /\ param' = param /\ fromLift' = fromLift
    BY RiderLeaves DEF liftVars
  <2> QED
    BY <2>1 DEF LiftInv, AtFloor, Heard, FromFloor, ToFloor
<1>2. \A w \in Agv : Has(w)' /\ True(w)' /\ Holds(w)' /\ Ends(w)'
  BY RiderKeepsItsOwn, RiderKeepsOthers
<1> QED
  BY <1>1, <1>2 DEF LiftInv

\* The lift turns to another vehicle when the last one is out of it.
LEMMA LiftInvLift ==
    ASSUME ElevatorTypeOK, LiftInv, LiftStep
    PROVE  LiftInv'
<1>0. AtFloor /\ ~Heard(Everybody, "LeftEleENQ")
  BY DEF LiftInv
<1>1. /\ LiftDoes /\ UNCHANGED <<pc, now, place, sendCmd, senders, spoilt>>
      /\ \A v \in Agv : /\ Sent(v, "IntoEleACK")' => Sent(v, "IntoEleACK")
                        /\ Sent(v, "LeftEleACK")' => Sent(v, "LeftEleACK")
  BY <1>0, LiftEffects DEF senderVars, riderVars, ToldOnce
<1>2. \A v \in Agv : Has(v) /\ True(v) /\ Holds(v) /\ Ends(v)
  BY DEF LiftInv
<1>3. \A v \in Agv : Holds(v)' /\ Ends(v)'
  BY <1>1, <1>2 DEF Holds, Ends
<1>4. Everybody \notin Agv
  BY AgvAre
<1>5. \A v \in Agv : Sent(v, "IntoEleACK") => pc[v] \notin Outside \cup {"enter"}
  BY <1>2 DEF True
<1>6. \A v \in Agv : Sent(v, "LeftEleACK") => pc[v] \in Gone
  BY <1>2 DEF True
<1> DEFINE Good == AtFloor' /\ ~Heard(Everybody, "LeftEleENQ")' /\ \A v \in Agv : Has(v)' /\ True(v)'
<1> SUFFICES Good
  BY <1>3 DEF LiftInv
<1>7. CASE UNCHANGED <<phase, served, cabin>> /\ Tells("CallEleACK", Agv)
  <2>1. AtFloor' /\ ~Heard(Everybody, "LeftEleENQ")'
    BY <1>0, <1>7 DEF AtFloor, Tells, FromFloor, ToFloor
  <2>2. \A v \in Agv : Has(v)'
    BY <1>1, <1>2, <1>7 DEF Has
  <2>3. \A v \in Agv : True(v)'
    BY <1>1, <1>2, <1>7 DEF True, Tells
  <2> QED
    BY <2>1, <2>2, <2>3
<1>8. ASSUME NEW u \in Agv,
             (phase = "asking" /\ cabin = FromFloor(u)) \/ (phase = "taken" /\ served = u),
             phase' = "taken", served' = u, cabin' = cabin,
             Tells("IntoEleENQ", {u, Everybody})
      PROVE  Good
  <2>1. AtFloor' /\ ~Heard(Everybody, "LeftEleENQ")'
    BY <1>0, <1>8 DEF AtFloor, Tells, FromFloor, ToFloor
  <2>2. \A v \in Agv : Has(v)'
    BY <1>1, <1>2, <1>8 DEF Has
  <2>3. \A v \in Agv : True(v)'
    BY <1>1, <1>2, <1>4, <1>8 DEF True, Tells
  <2> QED
    BY <2>1, <2>2, <2>3
<1>9. CASE /\ served \in Agv /\ Sent(served, "IntoEleACK") /\ UNCHANGED <<served, cabin>>
           /\ \/ phase = "taken" /\ phase' = "riding" /\ Tells("LeftEleENQ", {})
              \/ phase = "arrived" /\ phase' = "arrived" /\ Tells("LeftEleENQ", {served})
              \/ phase \notin {"taken", "arrived"} /\ phase' = phase /\ Tells("LeftEleENQ", {})
  <2>0. pc[served] \notin Outside \cup {"enter"} /\ served # Everybody
    BY <1>4, <1>5, <1>9
  <2>1. AtFloor' /\ ~Heard(Everybody, "LeftEleENQ")'
    BY <1>0, <1>9, <2>0 DEF AtFloor, Tells, FromFloor, ToFloor
  <2>2. \A v \in Agv : Has(v)'
    BY <1>1, <1>2, <1>9, <2>0 DEF Has
  <2>3. \A v \in Agv : True(v)'
    BY <1>1, <1>2, <1>9, <2>0 DEF True, Tells
  <2> QED
    BY <2>1, <2>2, <2>3
<1>10. CASE /\ served \in Agv /\ Sent(served, "LeftEleACK") /\ phase' = "idle" /\ served' = 0
            /\ cabin' = cabin /\ Tells("LeftEleSet", Agv)
  <2>0. pc[served] \in Gone
    BY <1>6, <1>10
  <2>1. AtFloor' /\ ~Heard(Everybody, "LeftEleENQ")'
    BY <1>0, <1>10 DEF AtFloor, Tells
  <2>2. \A v \in Agv : Has(v)'
    BY <1>1, <1>2, <1>10, <2>0 DEF Has, Gone
  <2>3. \A v \in Agv : True(v)'
    BY <1>1, <1>2, <1>10, <2>0 DEF True, Tells, Outside, Gone
  <2> QED
    BY <2>1, <2>2, <2>3
<1>11. CASE /\ phase \in {"idle", "asking"} /\ phase' \in {"idle", "asking"} /\ served' = served
            /\ Tells("TakeEleENQ", Agv \cup {Everybody})
  <2>1. AtFloor' /\ ~Heard(Everybody, "LeftEleENQ")'
    BY <1>0, <1>11 DEF AtFloor, Tells
  <2>2. \A v \in Agv : Has(v)'
    BY <1>1, <1>2, <1>11 DEF Has
  <2>3. \A v \in Agv : True(v)'
    BY <1>1, <1>2, <1>11 DEF True, Tells
  <2> QED
    BY <2>1, <2>2, <2>3
<1>12. CASE /\ phase = "riding" /\ phase' = "arrived" /\ served' = served /\ cabin' = ToFloor(served)
            /\ Tells("LeftEleENQ", {served})
  <2>0. served \in Agv /\ served # Everybody
    BY <1>0, <1>4, <1>12 DEF AtFloor
  <2>1. AtFloor' /\ ~Heard(Everybody, "LeftEleENQ")'
    BY <1>0, <1>12, <2>0 DEF AtFloor, Tells, FromFloor, ToFloor
  <2>2. \A v \in Agv : Has(v)'
    BY <1>1, <1>2, <1>12 DEF Has
  <2>3. \A v \in Agv : True(v)'
    BY <1>1, <1>2, <1>12 DEF True, Tells
  <2> QED
    BY <2>1, <2>2, <2>3
<1> HIDE DEF Good
<1> QED
  BY <1>1, <1>7, <1>8, <1>9, <1>10, <1>11, <1>12 DEF LiftDoes

ElevatorInv == ElevatorTypeOK /\ LiftInv
LEMMA ElevatorInvNext == ElevatorInv /\ [Next]_vars => ElevatorInv'
<1> SUFFICES ASSUME ElevatorTypeOK, LiftInv, [Next]_vars PROVE ElevatorTypeOK' /\ LiftInv'
  BY DEF ElevatorInv
<1>1. ElevatorTypeOK'
  BY ElevatorTypesNext DEF LiftInv
<1>2. LiftInv'
  <2>1. CASE \/ OnConnect \/ OnDisconnect \/ OnReadError \/ \E n \in 1..MaxWire : OnRead(n)
             \/ \E m \in senders : SendAgain(m) \/ EndSending(m)
    BY <2>1, LiftInvClient
  <2>2. ASSUME NEW v \in Agv, Rider(v) PROVE LiftInv'
    BY <2>2, LiftInvRider
  <2>3. CASE LiftStep
    BY <2>3, LiftInvLift
  <2>4. CASE UNCHANGED vars
    BY <2>4 DEF vars, slotVars, senderVars, riderVars, liftVars, LiftInv, AtFloor, Has, True, Holds,
       Ends, Sent, Heard, FromFloor, ToFloor
  <2> QED
    BY <2>1, <2>2, <2>3, <2>4 DEF Next, Rider, LiftStep
<1> QED
  BY <1>1, <1>2

LEMMA ElevatorInvAlways == Spec => []ElevatorInv
<1>1. Init => ElevatorInv
  BY ElevatorTypesInit, LiftInvInit DEF ElevatorInv
<1> QED
  BY <1>1, ElevatorInvNext, PTL DEF Spec

-----------------------------------------------------------------------------
(* Theorems *)

\* What the client of the lift, the threads of the vehicles and the lift keep
\* is always of its kind: the message read last is one the lift answers, what
\* is repeated is a TakeEleACK or a LeftEleCMD of a vehicle (elevator.cpp).
THEOREM ElevatorTypeCorrect == Spec => []ElevatorTypeOK
<1>1. ElevatorInv => ElevatorTypeOK
  BY DEF ElevatorInv
<1> QED
  BY <1>1, ElevatorInvAlways, PTL

\* While a vehicle leaves the cabin, a thread repeats LeftEleCMD for it: the
\* others that set and reset the one flag of these threads do it when they
\* enter or leave, and none of them does so then (elevator.cpp:367-401,
\* dyforklift.cpp:609-619).
THEOREM DoorHeldAlways == Spec => []DoorHeld
<1>1. ElevatorInv => DoorHeld
  BY DEF ElevatorInv, LiftInv, Holds, DoorHeld
<1> QED
  BY <1>1, ElevatorInvAlways, PTL

\* When goElevator returns and the lift was not given up, the vehicle is at
\* the end of its path, and the program knows it, wherever the path is cut
\* (dyforklift.cpp:494-640).
THEOREM EndsAtItsEndAlways == Spec => []EndsAtItsEnd
<1>1. ElevatorInv => EndsAtItsEnd
  BY LeavesAtTheEnd DEF ElevatorInv, LiftInv, Ends, EndsAtItsEnd
<1> QED
  BY <1>1, ElevatorInvAlways, PTL

\* One enters whom the lift waits for, and leaves where the lift has come to.
LEMMA RiderUsesTheCabin ==
    ASSUME ElevatorTypeOK, LiftInv, NEW v \in Agv, Rider(v)
    PROVE  \/ Riders' = Riders
           \/ Riders = {} /\ cabin = FromFloor(v) /\ Riders' = {v}
           \/ v \in Riders /\ cabin = ToFloor(v) /\ Riders' = Riders \ {v}
<1>0. /\ Moves(v) /\ \A w \in Agv \ {v} : place'[w] = place[w]
  BY RiderMoves, RiderPlaces
<1>1. AtFloor /\ \A w \in Agv : Has(w)
  BY DEF LiftInv
<1>2. Its[v].out # InCabin /\ Its[v].leave # InCabin /\ InCabin \notin Point
  BY RouteShape, AgvAre
<1>3. (place'[v] = InCabin <=> place[v] = InCabin) => Riders' = Riders
  BY <1>0 DEF Riders
<1>4. place'[v] = place[v] => Riders' = Riders
  BY <1>3
<1>5. CASE pc[v] \in Outside /\ pc'[v] \in Outside /\ place'[v] \in {place[v]} \cup Point
  <2>1. place[v] # InCabin
    BY <1>1, <1>5 DEF Has, Outside
  <2>2. place'[v] # InCabin
    BY <1>2, <1>5, <2>1
  <2> QED
    BY <1>3, <2>1, <2>2
<1>6. CASE pc[v] = "enter" /\ pc'[v] = "in" /\ place'[v] = InCabin
  <2>1. served = v /\ phase = "taken" /\ cabin = FromFloor(v)
    BY <1>1, <1>6 DEF Has, AtFloor
  <2>2. \A w \in Agv : place[w] # InCabin
    BY <1>1, <1>6, <2>1 DEF Has
  <2>3. Riders = {} /\ Riders' = {v}
    BY <1>0, <1>6, <2>2 DEF Riders
  <2> QED
    BY <2>1, <2>3
<1>7. CASE pc[v] = "leave" /\ pc'[v] = "out" /\ place'[v] = Its[v].out
  <2>1. served = v /\ phase = "arrived" /\ cabin = ToFloor(v) /\ place[v] = InCabin
    BY <1>1, <1>7 DEF Has, AtFloor
  <2>2. v \in Riders /\ Riders' = Riders \ {v}
    BY <1>0, <1>2, <1>7, <2>1 DEF Riders
  <2> QED
    BY <2>1, <2>2
<1>8. CASE pc[v] = "left" /\ pc'[v] = "over" /\ place'[v] = Its[v].leave /\ now'[v] = Its[v].leave
  <2>1. place[v] # InCabin
    BY <1>1, <1>8 DEF Has
  <2> QED
    BY <1>2, <1>3, <1>8, <2>1
<1> QED
  BY <1>0, <1>4, <1>5, <1>6, <1>7, <1>8 DEF Moves

\* Vehicles share the cabin as Cabin says, whatever is lost, repeated or meant
\* for another one (dyforklift.cpp:554-640): a vehicle enters that was told so
\* while the lift waits for it, and it leaves where the lift has said so.
THEOREM PromiseKept == Spec => Promise
<1>0. /\ [v \in Agv |-> FromFloor(v)] \in [Agv -> AllFloors]
      /\ [v \in Agv |-> ToFloor(v)] \in [Agv -> AllFloors]
  BY RouteShape
<1>s. /\ [v \in Agv |-> FromFloor(v)]' = [v \in Agv |-> FromFloor(v)]
      /\ [v \in Agv |-> ToFloor(v)]' = [v \in Agv |-> ToFloor(v)]
  BY DEF FromFloor, ToFloor
<1>f. \A v \in Agv : /\ [w \in Agv |-> FromFloor(w)][v] = FromFloor(v)
                     /\ [w \in Agv |-> ToFloor(w)][v] = ToFloor(v)
  OBVIOUS
<1>1. Init => Contract!Init
  <2> SUFFICES ASSUME Init PROVE Contract!Init
    OBVIOUS
  <2>1. Riders = {}
    BY RouteShape, AgvAre DEF Init, Riders
  <2>2. cabin \in AllFloors
    BY DEF Init
  <2> QED
    BY <1>0, <2>1, <2>2 DEF Contract!Init
<1>2. ElevatorInv /\ [Next]_vars => [Contract!Next]_(Contract!vars)
  <2> SUFFICES ASSUME ElevatorTypeOK, LiftInv, [Next]_vars
               PROVE  [Contract!Next]_(Contract!vars)
    BY DEF ElevatorInv
  <2>1. ASSUME Riders' = Riders, cabin' = cabin PROVE UNCHANGED Contract!vars
    BY <1>s, <2>1 DEF Contract!vars
  <2>2. CASE \/ OnConnect \/ OnDisconnect \/ OnReadError \/ \E n \in 1..MaxWire : OnRead(n)
             \/ \E m \in senders : SendAgain(m) \/ EndSending(m)
    <3>1. place' = place /\ cabin' = cabin
      BY <2>2, ClientTypes DEF liftVars
    <3> QED
      BY <2>1, <3>1 DEF Riders
  <2>3. ASSUME NEW v \in Agv, Rider(v) PROVE [Contract!Next]_(Contract!vars)
    <3>1. cabin' = cabin
      BY <2>3, RiderLeaves DEF liftVars
    <3>2. CASE Riders' = Riders
      BY <2>1, <3>1, <3>2
    <3>3. CASE Riders = {} /\ cabin = FromFloor(v) /\ Riders' = {v}
      <4>1. Contract!Enter(v)
        BY <1>s, <1>f, <3>1, <3>3 DEF Contract!Enter
      <4> QED
        BY <4>1 DEF Contract!Next
    <3>4. CASE v \in Riders /\ cabin = ToFloor(v) /\ Riders' = Riders \ {v}
      <4>1. Contract!Exit(v)
        BY <1>s, <1>f, <3>1, <3>4 DEF Contract!Exit
      <4> QED
        BY <4>1 DEF Contract!Next
    <3> QED
      BY <2>3, <3>2, <3>3, <3>4, RiderUsesTheCabin
  <2>4. CASE LiftStep
    <3>1. place' = place /\ cabin' \in AllFloors
      BY <2>4, LiftEffects DEF riderVars, LiftInv
    <3>2. Riders' = Riders
      BY <3>1 DEF Riders
    <3>3. Contract!Ride
      BY <1>s, <3>1, <3>2 DEF Contract!Ride
    <3> QED
      BY <3>3 DEF Contract!Next
  <2>5. CASE UNCHANGED vars
    <3>1. place' = place /\ cabin' = cabin
      BY <2>5 DEF vars, riderVars, liftVars
    <3> QED
      BY <2>1, <3>1 DEF Riders
  <2> QED
    BY <2>2, <2>3, <2>4, <2>5 DEF Next, Rider, LiftStep
<1> QED
  BY <1>1, <1>2, ElevatorInvAlways, PTL DEF Spec, Promise, Contract!Spec

=============================================================================
