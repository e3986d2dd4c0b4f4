--------------------------- MODULE ForkliftProofs ---------------------------
(***************************************************************************)
(* Of a vehicle of the Dongyao build and the thread that drives it, on     *)
(* every path and however often the connection is lost: nobody waits for a *)
(* report that cannot come, and the thread goes on to the next order only  *)
(* as Orders says.                                                         *)
(***************************************************************************)
EXTENDS Forklift, SequenceTheorems, FiniteSetTheorems, NaturalsInduction,
        WellFoundedInduction, TLAPS

-----------------------------------------------------------------------------
(* Types *)

Station == {2 * i + 1 : i \in 0..Lines}
Asked == {"move", "fork", "halt"}
Answers == {Ack(c) : c \in Commands} \cup {Done(c) : c \in Commands}
Wrong == {"report lost", "report early", "overtaken", "given up", "cancelled", "cleared"}

LinksOK ==
    /\ links \in [Link -> {"none", "attaching", "unheard", "up", "down", "closing", "closed"}]
    /\ tcp \in Link \cup {0} /\ accepting \in BOOLEAN
    /\ reader \in [Link -> {"reading", "stopping", "pausing"}]
AgvOK ==
    /\ status \in {"unconnect", "notready", "idle", "tasking"}
    /\ now \in Station \cup {0} /\ next \in Station \cup {0}
    /\ firstConnect \in BOOLEAN /\ sendPause \in BOOLEAN /\ pauseFlag \in BOOLEAN
    /\ mine \subseteq Guarded /\ others \in Blocks \cup {Absent, Gone}
SentOK == unRecv \subseteq Commands /\ unFinish \subseteq Asked
DriverOK ==
    /\ driver \in {"idle", "block", "send", "register", "wait", "over", "dead"}
    /\ order \in 0..Fork /\ out \in Commands \cup {NoCommand}
    /\ cancel \in {"no", "asked", "done"}
WireOK == wire \in Seq(Commands) /\ back \in Seq(Answers)
CarOK ==
    /\ place \in Place /\ job \in 0..Fork /\ paused \in BOOLEAN
    /\ begun \subseteq Order /\ carried \subseteq Order
ForkliftTypeOK ==
    LinksOK /\ AgvOK /\ SentOK /\ DriverOK /\ WireOK /\ CarOK /\ spoilt \subseteq Wrong

-----------------------------------------------------------------------------
(* How far an order has come *)

Has(s, x) == \E i \in 1..Len(s) : s[i] = x
Once(s, x) == \A i, j \in 1..Len(s) : s[i] = x /\ s[j] = x => i = j
Followed(s, x, y) == \A i \in 1..Len(s) : s[i] = x => \E j \in (i + 1)..Len(s) : s[j] = y

Type(k) == Command(k).type

\* This order is not yet written; written but not remembered; remembered, or
\* given up when it could not be written.
Unwritten == driver \in {"block", "send", "dead"} /\ out # Halt(RESUME)
InFlight == driver = "register" /\ out # Halt(RESUME)
Registered ==
    \/ driver = "wait"
    \/ driver \in {"send", "register", "dead"} /\ out = Halt(RESUME)
WasWritten == {k \in Order : k < order \/ (k = order /\ ~Unwritten)}
Calm == spoilt \cap {"given up", "cancelled"} = {}

\* What the thread is about to send.
OutInv ==
    /\ driver = "idle" => order = 0
    /\ driver # "idle" => order \in Order
    /\ driver = "block" => out = Command(order)
    /\ driver \in {"send", "register", "dead"} => out \in {Command(order), Halt(RESUME)}
    /\ cancel = "no" \/ "cancelled" \in spoilt

\* What is known of an order was written, begun and carried out in this order;
\* a halt is reported finished after it has been acknowledged.
OrderInv ==
    /\ begun \subseteq WasWritten /\ carried \subseteq begun
    /\ job # 0 => job \in begun \ carried
    /\ \A k \in Order :
        /\ Has(wire, Command(k)) \/ Command(k) \in unRecv => k \in WasWritten
        /\ Has(back, Ack(Command(k))) => k \in begun
        /\ Has(back, Done(Command(k))) => k \in carried
        /\ Once(back, Done(Command(k)))
    /\ \A w \in {RESUME, PAUSE, CLEAR} : Followed(back, Ack(Halt(w)), Done(Halt(w)))

\* Unless an order is given up, the vehicle has only this one left to do.
CalmInv ==
    Calm =>
    /\ \A k \in Order : k < order \/ (k = order /\ driver = "over") => k \in carried
    /\ job \in {0, order}
    /\ \A k \in Order : Has(back, Done(Command(k))) =>
                        k = order /\ (InFlight \/ Type(order) \in unFinish)
    /\ Registered /\ order \notin carried => Type(order) \in unFinish

\* As long as nothing went wrong, what is waited for is somewhere.
CleanInv ==
    spoilt = {} =>
    /\ \A t \in unFinish \ {"halt"} : Registered /\ t = Type(order)
    /\ Registered /\ order \notin begun => Command(order) \in unRecv
    /\ order \in begun => order \in carried \/ job = order
    /\ order \in carried /\ (InFlight \/ Type(order) \in unFinish) =>
        Has(back, Done(Command(order)))
    /\ "halt" \in unFinish =>
        \E w \in {RESUME, PAUSE, CLEAR} : Halt(w) \in unRecv \/ Has(back, Done(Halt(w)))

ForkliftInv == ForkliftTypeOK /\ OutInv /\ OrderInv /\ CalmInv /\ CleanInv

-----------------------------------------------------------------------------
(* Legs, places and commands *)

LEMMA LeastOf ==
    ASSUME NEW T \in SUBSET Nat, T # {}
    PROVE  Min(T) \in T /\ \A n \in T : Min(T) <= n
<1> DEFINE R == OpToRel(<, Nat)
<1>1. PICK m \in T : \A n \in T : ~(<<n, m>> \in R)
  <2>1. IsWellFoundedOn(R, Nat)
    BY NatLessThanWellFounded
  <2> HIDE DEF R
  <2> QED
    BY <2>1, WFMin
<1>2. ASSUME NEW n \in T, n < m PROVE FALSE
  <2>1. n \in Nat /\ m \in Nat
    OBVIOUS
  <2>2. <<n, m>> \in R
    BY <1>2, <2>1 DEF OpToRel
  <2> QED
    BY <1>1, <2>2
<1>3. \A n \in T : m <= n
  BY <1>2
<1> QED
  BY <1>3 DEF Min

LEMMA LegsAre ==
    /\ Lines \in Nat \ {0} /\ Legs \in Nat \ {0} /\ Fork \in Nat /\ Fork = Legs + 1
    /\ \A k \in 1..Legs : EndOf(k) \in 1..Lines
<1>1. Lines \in Nat \ {0}
  BY ForkliftAssumption
<1>2. LegEnds \subseteq 1..Lines /\ Lines \in LegEnds
  BY <1>1 DEF LegEnds
<1>a. \A i \in LegEnds : i \in Nat /\ i <= Lines
  BY <1>1, <1>2
<1>3. IsFiniteSet(LegEnds)
  <2>1. IsFiniteSet(1..Lines)
    BY <1>1, FS_Interval
  <2> QED
    BY <1>2, <2>1, FS_Subset
<1>4. Legs \in Nat /\ Legs # 0
  <2>1. Cardinality(LegEnds) \in Nat
    BY <1>3, FS_CardinalityType
  <2>2. Cardinality(LegEnds) # 0
    BY <1>2, <1>3, FS_EmptySet
  <2> QED
    BY <2>1, <2>2 DEF Legs
<1>5. ASSUME NEW k \in 1..Legs PROVE EndOf(k) \in 1..Lines
  <2> DEFINE T == {i \in LegEnds : Cardinality({j \in LegEnds : j <= i}) >= k}
  <2>1. {j \in LegEnds : j <= Lines} = LegEnds
    BY <1>a
  <2>2. Lines \in T
    <3>1. Cardinality({j \in LegEnds : j <= Lines}) >= k
      BY <1>4, <2>1 DEF Legs
    <3> QED
      BY <1>2, <3>1
  <2>3. T \in SUBSET Nat /\ T \subseteq 1..Lines
    <3>1. T \subseteq LegEnds
      OBVIOUS
    <3> QED
      BY <1>2, <1>a, <3>1
  <2>4. Min(T) \in T
    BY <2>2, <2>3, LeastOf
  <2> QED
    BY <2>3, <2>4 DEF EndOf
<1> QED
  BY <1>1, <1>4, <1>5 DEF Fork

\* Where the stations are.
LEMMA StationsAre ==
    /\ 1 \in Station /\ Station \subseteq Place /\ Place = 1..LastPlace
    /\ \A p \in Place : IsStation(p) => p \in Station
    /\ \A p \in Station : p < LastPlace => p + 2 \in Station
<1>1. Lines \in Nat /\ Lines # 0 /\ LastPlace = 2 * Lines + 1
  BY LegsAre DEF LastPlace
<1>2. 1 \in Station
  BY <1>1 DEF Station
<1>3. Station \subseteq Place
  BY <1>1 DEF Station, Place
<1>4. ASSUME NEW p \in Place, IsStation(p) PROVE p \in Station
  <2>1. p \in Nat /\ p <= 2 * Lines + 1 /\ p % 2 = 1
    BY <1>1, <1>4 DEF Place, IsStation
  <2>2. PICK i \in Nat : p = 2 * i + 1
    BY <2>1
  <2>3. i \in 0..Lines
    BY <1>1, <2>1, <2>2
  <2> QED
    BY <2>2, <2>3 DEF Station
<1>5. ASSUME NEW p \in Station, p < LastPlace PROVE p + 2 \in Station
  <2>1. PICK i \in 0..Lines : p = 2 * i + 1
    BY DEF Station
  <2>2. i + 1 \in 0..Lines /\ p + 2 = 2 * (i + 1) + 1
    BY <1>1, <1>5, <2>1
  <2> QED
    BY <2>2 DEF Station
<1> QED
  BY <1>1, <1>2, <1>3, <1>4, <1>5 DEF Place, LastPlace

LEMMA CommandsAre ==
    /\ \A k \in Order : /\ Command(k) \in Commands /\ Command(k).arg = k
                        /\ Command(k).type \in {"move", "fork"} /\ Type(k) = Command(k).type
                        /\ Type(k) = "fork" <=> k = Fork
    /\ \A w \in {RESUME, PAUSE, CLEAR} :
        Halt(w) \in Commands /\ Halt(w).type = "halt" /\ Halt(w).arg = w
    /\ \A c \in Commands : /\ c.type \in Asked
                           /\ IsOrder(c) => c.arg \in Order /\ c = Command(c.arg)
                           /\ IsOrder(c) <=> c.type # "halt"
                           /\ ~IsOrder(c) => \E w \in {RESUME, PAUSE, CLEAR} : c = Halt(w)
    /\ NoCommand \notin Commands
<1>1. ASSUME NEW k \in Order
      PROVE  /\ Command(k) \in Commands /\ Command(k).arg = k
             /\ Command(k).type \in {"move", "fork"} /\ Type(k) = Command(k).type
             /\ Type(k) = "fork" <=> k = Fork
  BY DEF Command, Commands, Type
<1>2. ASSUME NEW w \in {RESUME, PAUSE, CLEAR}
      PROVE  Halt(w) \in Commands /\ Halt(w).type = "halt" /\ Halt(w).arg = w
  BY DEF Halt, Commands
<1>3. ASSUME NEW c \in Commands
      PROVE  /\ c.type \in Asked
             /\ IsOrder(c) => c.arg \in Order /\ c = Command(c.arg)
             /\ IsOrder(c) <=> c.type # "halt"
             /\ ~IsOrder(c) => \E w \in {RESUME, PAUSE, CLEAR} : c = Halt(w)
  <2>1. CASE \E k \in Order : c = Command(k)
    BY <1>1, <2>1 DEF IsOrder, Asked
  <2>2. CASE \E w \in {RESUME, PAUSE, CLEAR} : c = Halt(w)
    BY <1>2, <2>2 DEF IsOrder, Asked
  <2> QED
    BY <2>1, <2>2 DEF Commands
<1>4. NoCommand \notin Commands
  <2>1. NoCommand.type = "none"
    BY DEF NoCommand
  <2> QED
    BY <1>3, <2>1 DEF Asked
<1> QED
  BY <1>1, <1>2, <1>3, <1>4

LEMMA CommandsDiffer ==
    /\ \A j, k \in Order : Command(j) = Command(k) => j = k
    /\ \A k \in Order, w \in {RESUME, PAUSE, CLEAR} : Command(k) # Halt(w)
    /\ RESUME # CLEAR /\ Halt(RESUME) # Halt(CLEAR)
BY DEF Command, Commands, Halt, Order, RESUME, PAUSE, CLEAR

LEMMA AnswersAre ==
    /\ \A c \in Commands : Ack(c) \in Answers /\ Done(c) \in Answers
    /\ \A c : Ack(c).what = "ack" /\ Done(c).what = "finish" /\ Ack(c).of = c /\ Done(c).of = c
    /\ \A a \in Answers : a.of \in Commands /\ (a = Ack(a.of) \/ a = Done(a.of))
    /\ \A c, d : Ack(c) # Done(d) /\ (Ack(c) = Ack(d) => c = d) /\ (Done(c) = Done(d) => c = d)
<1>1. \A c : Ack(c).what = "ack" /\ Done(c).what = "finish" /\ Ack(c).of = c /\ Done(c).of = c
  BY DEF Ack, Done
<1>2. \A c, d : Ack(c) # Done(d) /\ (Ack(c) = Ack(d) => c = d) /\ (Done(c) = Done(d) => c = d)
  BY <1>1
<1> QED
  BY <1>1, <1>2 DEF Answers

-----------------------------------------------------------------------------
(* Commands and answers under way *)

LEMMA HasAppended ==
    ASSUME NEW S, NEW s \in Seq(S), NEW a \in S, NEW x
    PROVE  Has(Append(s, a), x) <=> Has(s, x) \/ x = a
<1>1. Len(Append(s, a)) = Len(s) + 1 /\ Append(s, a)[Len(s) + 1] = a
      /\ \A i \in 1..Len(s) : Append(s, a)[i] = s[i]
  OBVIOUS
<1>2. Len(s) \in Nat
  OBVIOUS
<1> QED
  BY <1>1, <1>2 DEF Has

LEMMA OnceAppended ==
    ASSUME NEW S, NEW s \in Seq(S), NEW a \in S, NEW x, Once(s, x),
           a = x => ~Has(s, x)
    PROVE  Once(Append(s, a), x)
<1>1. Len(Append(s, a)) = Len(s) + 1 /\ Append(s, a)[Len(s) + 1] = a
      /\ \A i \in 1..Len(s) : Append(s, a)[i] = s[i]
  OBVIOUS
<1>2. Len(s) \in Nat
  OBVIOUS
<1> QED
  BY <1>1, <1>2 DEF Has, Once

LEMMA FollowedAppended ==
    ASSUME NEW S, NEW s \in Seq(S), NEW a \in S, NEW x, NEW y, Followed(s, x, y)
    PROVE  /\ a # x => Followed(Append(s, a), x, y)
           /\ \A b \in S : b = y /\ b # x => Followed(Append(Append(s, a), b), x, y)
<1>1. Len(Append(s, a)) = Len(s) + 1 /\ Append(s, a)[Len(s) + 1] = a
      /\ \A i \in 1..Len(s) : Append(s, a)[i] = s[i]
  OBVIOUS
<1>2. Len(s) \in Nat
  OBVIOUS
<1>3. a # x => Followed(Append(s, a), x, y)
  <2> SUFFICES ASSUME a # x, NEW i \in 1..Len(Append(s, a)), Append(s, a)[i] = x
               PROVE  \E j \in (i + 1)..Len(Append(s, a)) : Append(s, a)[j] = y
    BY DEF Followed
  <2>1. i \in 1..Len(s) /\ s[i] = x
    BY <1>1, <1>2
  <2>2. PICK j \in (i + 1)..Len(s) : s[j] = y
    BY <2>1 DEF Followed
  <2>3. j \in (i + 1)..Len(Append(s, a)) /\ j \in 1..Len(s)
    BY <1>1, <1>2, <2>1, <2>2
  <2> QED
    BY <1>1, <2>2, <2>3
<1>4. ASSUME NEW b \in S, b = y, b # x PROVE Followed(Append(Append(s, a), b), x, y)
  <2> DEFINE t == Append(Append(s, a), b)
  <2>1. Append(s, a) \in Seq(S)
    OBVIOUS
  <2>2. Len(t) = Len(s) + 2 /\ t[Len(s) + 2] = b
    BY <1>1, <1>2, <2>1
  <2> HIDE DEF t
  <2> SUFFICES ASSUME NEW i \in 1..Len(t), t[i] = x
               PROVE  \E j \in (i + 1)..Len(t) : t[j] = y
    BY DEF Followed, t
  <2>3. i # Len(s) + 2
    BY <1>4, <2>2
  <2> QED
    BY <1>2, <1>4, <2>2, <2>3
<1> QED
  BY <1>3, <1>4

LEMMA TailKeeps ==
    ASSUME NEW S, NEW s \in Seq(S), s # <<>>
    PROVE  /\ Head(s) \in S /\ Tail(s) \in Seq(S) /\ Has(s, Head(s))
           /\ \A x : Has(Tail(s), x) => Has(s, x)
           /\ \A x : Has(s, x) => x = Head(s) \/ Has(Tail(s), x)
           /\ \A x : Once(s, x) => Once(Tail(s), x) /\ ~(x = Head(s) /\ Has(Tail(s), x))
           /\ \A x, y : Followed(s, x, y) =>
                Followed(Tail(s), x, y) /\ (x = Head(s) => Has(Tail(s), y))
<1> DEFINE t == Tail(s)
<1>1. Len(s) \in Nat \ {0} /\ Head(s) = s[1] /\ Head(s) \in S /\ t \in Seq(S)
      /\ Len(t) = Len(s) - 1 /\ \A i \in 1..Len(t) : t[i] = s[i + 1]
  OBVIOUS
<1> HIDE DEF t
<1>2. \A i \in 2..Len(s) : i - 1 \in 1..Len(t) /\ t[i - 1] = s[i]
  BY <1>1
<1>3. Has(s, Head(s)) /\ \A x : Has(t, x) => Has(s, x)
  BY <1>1 DEF Has
<1>4. ASSUME NEW x, Has(s, x) PROVE x = Head(s) \/ Has(t, x)
  <2>1. PICK i \in 1..Len(s) : s[i] = x
    BY <1>4 DEF Has
  <2>2. CASE i = 1
    BY <1>1, <2>1, <2>2
  <2>3. CASE i # 1
    <3>1. i - 1 \in 1..Len(t) /\ t[i - 1] = x
      BY <1>1, <1>2, <2>1, <2>3
    <3> QED
      BY <3>1 DEF Has
  <2> QED
    BY <2>2, <2>3
<1>5. ASSUME NEW x, Once(s, x) PROVE Once(t, x) /\ ~(x = Head(s) /\ Has(t, x))
  <2>1. ASSUME NEW i \in 1..Len(t), NEW j \in 1..Len(t), t[i] = x, t[j] = x PROVE i = j
    <3>1. s[i + 1] = x /\ s[j + 1] = x /\ i + 1 \in 1..Len(s) /\ j + 1 \in 1..Len(s)
      BY <1>1, <2>1
    <3> QED
      BY <1>5, <3>1 DEF Once
  <2>2. ASSUME x = Head(s), NEW i \in 1..Len(t), t[i] = x PROVE FALSE
    <3>1. s[i + 1] = x /\ s[1] = x /\ i + 1 \in 1..Len(s) /\ 1 \in 1..Len(s) /\ i + 1 # 1
      BY <1>1, <2>2
    <3> QED
      BY <1>5, <3>1 DEF Once
  <2> QED
    BY <2>1, <2>2 DEF Once, Has
<1>6. ASSUME NEW x, NEW y, Followed(s, x, y)
      PROVE  Followed(t, x, y) /\ (x = Head(s) => Has(t, y))
  <2>1. ASSUME NEW i \in 1..Len(t), t[i] = x PROVE \E j \in (i + 1)..Len(t) : t[j] = y
    <3>1. s[i + 1] = x /\ i + 1 \in 1..Len(s)
      BY <1>1, <2>1
    <3>2. PICK j \in (i + 1 + 1)..Len(s) : s[j] = y
      BY <1>6, <3>1 DEF Followed
    <3>3. j - 1 \in (i + 1)..Len(t) /\ t[j - 1] = y
      BY <1>1, <1>2, <3>1, <3>2
    <3> QED
      BY <3>3
  <2>2. ASSUME x = Head(s) PROVE Has(t, y)
    <3>1. PICK j \in (1 + 1)..Len(s) : s[j] = y
      BY <1>1, <1>6, <2>2 DEF Followed
    <3>2. j - 1 \in 1..Len(t) /\ t[j - 1] = y
      BY <1>1, <1>2, <3>1
    <3> QED
      BY <3>2 DEF Has
  <2> QED
    BY <2>1, <2>2 DEF Followed
<1> QED
  BY <1>1, <1>3, <1>4, <1>5, <1>6 DEF t

-----------------------------------------------------------------------------
(* Types are kept *)

LEMMA LinksKept == LinksOK /\ UNCHANGED <<linkVars, reader>> => LinksOK'
BY DEF LinksOK, linkVars
LEMMA AgvKept == AgvOK /\ UNCHANGED <<agvVars, flagVars, blockVars>> => AgvOK'
BY DEF AgvOK, agvVars, flagVars, blockVars
LEMMA SentKept == SentOK /\ UNCHANGED sentVars => SentOK'
BY DEF SentOK, sentVars
LEMMA DriverKept == DriverOK /\ UNCHANGED <<driverVars, cancel>> => DriverOK'
BY DEF DriverOK, driverVars
LEMMA WireKept == WireOK /\ UNCHANGED wireVars => WireOK'
BY DEF WireOK, wireVars
LEMMA CarKept == CarOK /\ UNCHANGED carVars => CarOK'
BY DEF CarOK, carVars

LEMMA Written ==
    ASSUME WireOK, NEW c \in Commands, Write(c)
    PROVE  /\ wire' \in Seq(Commands)
           /\ \A x : Has(wire, x)' => Has(wire, x) \/ x = c
<1>1. wire \in Seq(Commands)
  BY DEF WireOK
<1>2. CASE wire' = wire
  BY <1>1, <1>2
<1>3. CASE wire' = Append(wire, c)
  <2>1. \A x : Has(Append(wire, c), x) <=> Has(wire, x) \/ x = c
    BY <1>1, HasAppended
  <2> QED
    BY <1>1, <1>3, <2>1 DEF Has
<1> QED
  BY <1>2, <1>3 DEF Write

LEMMA Remembered ==
    ASSUME SentOK, NEW c \in Commands, Remember(c)
    PROVE  SentOK'
BY CommandsAre DEF SentOK, Remember

LEMMA Started ==
    ASSUME NEW k \in 1..(Fork + 1), StartOrder(k)
    PROVE  \/ /\ driver' = "over" /\ order' = order /\ out' = out
              /\ k >= Fork /\ (k = Fork + 1 \/ cancel # "no")
           \/ /\ k \in Order /\ driver' \in {"send", "block"}
              /\ order' = k /\ out' = Command(k)
<1>1. Fork \in Nat
  BY LegsAre
<1> QED
  BY <1>1 DEF StartOrder, Order

LEMMA StartedTypes ==
    ASSUME DriverOK, NEW k \in 1..(Fork + 1), StartOrder(k), cancel' = cancel
    PROVE  DriverOK'
<1>1. Order \subseteq 0..Fork
  BY LegsAre DEF Order
<1>2. \/ driver' = "over" /\ order' = order /\ out' = out
      \/ k \in Order /\ driver' \in {"send", "block"} /\ order' = k /\ out' = Command(k)
  BY Started
<1>3. order' \in 0..Fork
  BY <1>1, <1>2 DEF DriverOK
<1>4. out' \in Commands \cup {NoCommand}
  BY <1>2, CommandsAre DEF DriverOK
<1> QED
  BY <1>2, <1>3, <1>4 DEF DriverOK

\* What the thread sends is a command.
LEMMA OutIs ==
    ASSUME OutInv, driver \in {"block", "send", "register", "dead"}
    PROVE  out \in Commands /\ order \in Order /\ out \in {Command(order), Halt(RESUME)}
BY CommandsAre DEF OutInv

LEMMA ForkliftTypesInit == Init => ForkliftTypeOK
<1> SUFFICES ASSUME Init PROVE ForkliftTypeOK
  OBVIOUS
<1>1. LinksOK
  BY DEF Init, LinksOK
<1>2. AgvOK
  BY DEF Init, AgvOK, Guarded, Absent
<1>3. SentOK /\ spoilt \subseteq Wrong
  BY DEF Init, SentOK
<1>4. DriverOK
  BY LegsAre DEF Init, DriverOK
<1>5. WireOK
  BY DEF Init, WireOK
<1>6. CarOK
  <2>1. 1 \in Place /\ 0 \in 0..Fork
    BY StationsAre, LegsAre
  <2> QED
    BY <2>1 DEF Init, CarOK
<1> QED
  BY <1>1, <1>2, <1>3, <1>4, <1>5, <1>6 DEF ForkliftTypeOK

LEMMA PlacesHeld ==
    ASSUME mine \subseteq Guarded, NEW S
    PROVE  Held(S) \subseteq Guarded
BY DEF Held

LEMMA ArrivedTypes ==
    ASSUME AgvOK, LinksOK, NEW s \in Link, NEW p \in Place, IsStation(p), NEW n,
           Arrived(s, p, n)
    PROVE  /\ now' \in Station /\ next' \in Station \cup {0} /\ mine' \subseteq Guarded
           /\ reader' \in [Link -> {"reading", "stopping", "pausing"}]
<1>1. now' = p /\ p \in Station
  BY StationsAre DEF Arrived
<1>2. next' \in Station \cup {0}
  <2>1. next' = next \/ (p < LastPlace /\ next' = p + 2) \/ next' = 0
    BY DEF Arrived
  <2> QED
    BY <1>1, <2>1, StationsAre DEF AgvOK
<1>3. mine' \subseteq Guarded
  BY PlacesHeld DEF Arrived, AgvOK
<1>4. reader' \in [Link -> {"reading", "stopping", "pausing"}]
  BY DEF Arrived, StopIf, LinksOK
<1> QED
  BY <1>1, <1>2, <1>3, <1>4

LEMMA JobIs == CarOK /\ job # 0 => job \in Order
<1> SUFFICES ASSUME job \in 0..Fork, job # 0 PROVE job \in Order
  BY DEF CarOK
<1> QED
  BY LegsAre DEF Order

\* The order after this one.
LEMMA NextOrder ==
    ASSUME DriverOK, OutInv, driver \in {"block", "wait"}
    PROVE  order + 1 \in 1..(Fork + 1) /\ order \in Order
<1>1. order \in Order
  BY DEF OutInv
<1> QED
  BY <1>1, LegsAre DEF Order

LEMMA SessionTypes ==
    ASSUME ForkliftTypeOK, NEW s \in Link, Session(s) \/ Drop(s)
    PROVE  ForkliftTypeOK'
<1>1. CASE Connect(s)
  <2>1. UNCHANGED <<sentVars, driverVars, cancel, wireVars, carVars, spoilt>>
    BY <1>1 DEF Connect, sentVars, driverVars, wireVars, carVars
  <2>2. SentOK' /\ DriverOK' /\ WireOK' /\ CarOK' /\ (spoilt \subseteq Wrong)'
    BY <2>1, SentKept, DriverKept, WireKept, CarKept DEF ForkliftTypeOK
  <2>3. LinksOK'
    BY <1>1 DEF ForkliftTypeOK, LinksOK, Connect, linkVars
  <2>4. AgvOK'
    BY <1>1 DEF ForkliftTypeOK, AgvOK, Connect, agvVars, flagVars, blockVars
  <2> QED
    BY <2>2, <2>3, <2>4 DEF ForkliftTypeOK
<1>2. CASE StartReport(s)
  <2>1. UNCHANGED <<agvVars, flagVars, blockVars, sentVars, driverVars, cancel, wireVars, carVars, spoilt>>
    BY <1>2 DEF StartReport, agvVars, flagVars, blockVars, sentVars, driverVars, wireVars, carVars
  <2>2. AgvOK' /\ SentOK' /\ DriverOK' /\ WireOK' /\ CarOK' /\ (spoilt \subseteq Wrong)'
    BY <2>1, AgvKept, SentKept, DriverKept, WireKept, CarKept DEF ForkliftTypeOK
  <2>3. LinksOK'
    BY <1>2 DEF ForkliftTypeOK, LinksOK, StartReport
  <2> QED
    BY <2>2, <2>3 DEF ForkliftTypeOK
<1>3. CASE AcceptFails(s)
  <2>1. UNCHANGED <<agvVars, flagVars, blockVars, sentVars, driverVars, cancel, wireVars, carVars, spoilt>>
    BY <1>3 DEF AcceptFails, agvVars, flagVars, blockVars, sentVars, driverVars, wireVars, carVars
  <2>2. AgvOK' /\ SentOK' /\ DriverOK' /\ WireOK' /\ CarOK' /\ (spoilt \subseteq Wrong)'
    BY <2>1, AgvKept, SentKept, DriverKept, WireKept, CarKept DEF ForkliftTypeOK
  <2>3. LinksOK'
    BY <1>3 DEF ForkliftTypeOK, LinksOK, AcceptFails
  <2> QED
    BY <2>2, <2>3 DEF ForkliftTypeOK
<1>4. CASE Drop(s)
  <2>1. UNCHANGED <<agvVars, flagVars, blockVars, sentVars, driverVars, cancel, carVars>>
    BY <1>4 DEF Drop, agvVars, flagVars, blockVars, sentVars, driverVars, carVars
  <2>2. AgvOK' /\ SentOK' /\ DriverOK' /\ CarOK'
    BY <2>1, AgvKept, SentKept, DriverKept, CarKept DEF ForkliftTypeOK
  <2>3. LinksOK'
    BY <1>4 DEF ForkliftTypeOK, LinksOK, Drop
  <2>4. WireOK'
    <3>1. wire' = <<>> /\ back' = <<>>
      BY <1>4 DEF Drop
    <3> QED
      BY <3>1 DEF WireOK
  <2>5. (spoilt \subseteq Wrong)'
    BY <1>4 DEF ForkliftTypeOK, Drop, Wrong
  <2> QED
    BY <2>2, <2>3, <2>4, <2>5 DEF ForkliftTypeOK
<1>5. CASE Disconnected(s)
  <2>1. UNCHANGED <<sentVars, driverVars, cancel, wireVars, carVars, spoilt>>
    BY <1>5 DEF Disconnected, sentVars, driverVars, wireVars, carVars
  <2>2. SentOK' /\ DriverOK' /\ WireOK' /\ CarOK' /\ (spoilt \subseteq Wrong)'
    BY <2>1, SentKept, DriverKept, WireKept, CarKept DEF ForkliftTypeOK
  <2>3. LinksOK'
    BY <1>5 DEF ForkliftTypeOK, LinksOK, Disconnected
  <2>4. AgvOK'
    BY <1>5 DEF ForkliftTypeOK, AgvOK, Disconnected, flagVars, blockVars
  <2> QED
    BY <2>2, <2>3, <2>4 DEF ForkliftTypeOK
<1>6. CASE FirstHeard(s)
  <2>1. UNCHANGED <<linkVars, reader, driverVars, cancel, carVars, spoilt>>
    BY <1>6 DEF FirstHeard, linkVars, driverVars, carVars
  <2>2. LinksOK' /\ DriverOK' /\ CarOK' /\ (spoilt \subseteq Wrong)'
    BY <2>1, LinksKept, DriverKept, CarKept DEF ForkliftTypeOK
  <2>3. AgvOK'
    BY <1>6 DEF ForkliftTypeOK, AgvOK, FirstHeard, agvVars, blockVars
  <2>4. SentOK'
    <3>1. CASE WriteAndRemember(Halt(CLEAR))
      BY <3>1, CommandsAre, Remembered DEF ForkliftTypeOK, WriteAndRemember
    <3>2. CASE UNCHANGED <<wire, sentVars>>
      BY <3>2, SentKept DEF ForkliftTypeOK
    <3> QED
      BY <1>6, <3>1, <3>2 DEF FirstHeard
  <2>5. WireOK'
    <3>1. CASE WriteAndRemember(Halt(CLEAR))
      <4>1. wire' \in Seq(Commands)
        BY <3>1, CommandsAre, Written DEF ForkliftTypeOK, WriteAndRemember
      <4> QED
        BY <1>6, <4>1 DEF FirstHeard, ForkliftTypeOK, WireOK
    <3>2. CASE UNCHANGED <<wire, sentVars>>
      BY <1>6, <3>2 DEF FirstHeard, ForkliftTypeOK, WireOK
    <3> QED
      BY <1>6, <3>1, <3>2 DEF FirstHeard
  <2> QED
    BY <2>2, <2>3, <2>4, <2>5 DEF ForkliftTypeOK
<1>7. CASE Ready(s)
  <2>1. UNCHANGED <<sentVars, driverVars, cancel, wireVars, carVars, spoilt>>
    BY <1>7 DEF Ready, sentVars, driverVars, wireVars, carVars
  <2>2. SentOK' /\ DriverOK' /\ WireOK' /\ CarOK' /\ (spoilt \subseteq Wrong)'
    BY <2>1, SentKept, DriverKept, WireKept, CarKept DEF ForkliftTypeOK
  <2>3. LinksOK'
    <3>1. PICK p \in Place : IsStation(p) /\ Arrived(s, p, p)
      BY <1>7 DEF Ready
    <3>2. /\ now' \in Station /\ next' \in Station \cup {0} /\ mine' \subseteq Guarded
          /\ reader' \in [Link -> {"reading", "stopping", "pausing"}]
      BY <3>1, ArrivedTypes DEF ForkliftTypeOK
    <3> QED
      BY <1>7, <3>2 DEF Ready, ForkliftTypeOK, LinksOK, linkVars
  <2>4. AgvOK'
    <3>1. PICK p \in Place : IsStation(p) /\ Arrived(s, p, p)
      BY <1>7 DEF Ready
    <3>2. /\ now' \in Station /\ next' \in Station \cup {0} /\ mine' \subseteq Guarded
          /\ reader' \in [Link -> {"reading", "stopping", "pausing"}]
      BY <3>1, ArrivedTypes DEF ForkliftTypeOK
    <3> QED
      BY <1>7, <3>2 DEF Ready, ForkliftTypeOK, AgvOK, flagVars
  <2> QED
    BY <2>2, <2>3, <2>4 DEF ForkliftTypeOK
<1>8. CASE Leave(s)
  <2>1. UNCHANGED <<sentVars, driverVars, cancel, wireVars, carVars, spoilt>>
    BY <1>8 DEF Leave, sentVars, driverVars, wireVars, carVars
  <2>2. SentOK' /\ DriverOK' /\ WireOK' /\ CarOK' /\ (spoilt \subseteq Wrong)'
    BY <2>1, SentKept, DriverKept, WireKept, CarKept DEF ForkliftTypeOK
  <2>3. LinksOK'
    <3>1. reader' \in [Link -> {"reading", "stopping", "pausing"}]
      BY <1>8 DEF ForkliftTypeOK, LinksOK, Leave, StopIf
    <3>2. UNCHANGED linkVars
      BY <1>8 DEF Leave, linkVars
    <3> QED
      BY <3>1, <3>2 DEF ForkliftTypeOK, LinksOK, linkVars
  <2>4. AgvOK'
    <3>1. mine' \subseteq Guarded
      BY <1>8, PlacesHeld DEF ForkliftTypeOK, AgvOK, Leave
    <3> QED
      BY <1>8, <3>1 DEF ForkliftTypeOK, AgvOK, Leave, flagVars
  <2> QED
    BY <2>2, <2>3, <2>4 DEF ForkliftTypeOK
<1>9. CASE Arrive(s)
  <2>1. UNCHANGED <<sentVars, driverVars, cancel, wireVars, carVars, spoilt>>
    BY <1>9 DEF Arrive, sentVars, driverVars, wireVars, carVars
  <2>2. SentOK' /\ DriverOK' /\ WireOK' /\ CarOK' /\ (spoilt \subseteq Wrong)'
    BY <2>1, SentKept, DriverKept, WireKept, CarKept DEF ForkliftTypeOK
  <2>3. LinksOK'
    <3>1. PICK p \in Place : IsStation(p) /\ Arrived(s, p, 0)
      BY <1>9 DEF Arrive, ForkliftTypeOK, CarOK
    <3>2. /\ now' \in Station /\ next' \in Station \cup {0} /\ mine' \subseteq Guarded
          /\ reader' \in [Link -> {"reading", "stopping", "pausing"}]
      BY <3>1, ArrivedTypes DEF ForkliftTypeOK
    <3> QED
      BY <1>9, <3>2 DEF Arrive, ForkliftTypeOK, LinksOK, linkVars
  <2>4. AgvOK'
    <3>1. PICK p \in Place : IsStation(p) /\ Arrived(s, p, 0)
      BY <1>9 DEF Arrive, ForkliftTypeOK, CarOK
    <3>2. /\ now' \in Station /\ next' \in Station \cup {0} /\ mine' \subseteq Guarded
          /\ reader' \in [Link -> {"reading", "stopping", "pausing"}]
      BY <3>1, ArrivedTypes DEF ForkliftTypeOK
    <3> QED
      BY <1>9, <3>2 DEF Arrive, ForkliftTypeOK, AgvOK, flagVars
  <2> QED
    BY <2>2, <2>3, <2>4 DEF ForkliftTypeOK
<1>10. CASE Pause(s)
  <2>1. UNCHANGED <<sentVars, driverVars, cancel, wireVars, carVars, spoilt>>
    BY <1>10 DEF Pause, sentVars, driverVars, wireVars, carVars
  <2>2. SentOK' /\ DriverOK' /\ WireOK' /\ CarOK' /\ (spoilt \subseteq Wrong)'
    BY <2>1, SentKept, DriverKept, WireKept, CarKept DEF ForkliftTypeOK
  <2>3. LinksOK'
    <3>1. reader' \in [Link -> {"reading", "stopping", "pausing"}]
      BY <1>10 DEF ForkliftTypeOK, LinksOK, Pause
    <3>2. UNCHANGED linkVars
      BY <1>10 DEF Pause, linkVars
    <3> QED
      BY <3>1, <3>2 DEF ForkliftTypeOK, LinksOK, linkVars
  <2>4. AgvOK'
    BY <1>10 DEF ForkliftTypeOK, AgvOK, Pause, agvVars, blockVars
  <2> QED
    BY <2>2, <2>3, <2>4 DEF ForkliftTypeOK
<1>11. CASE SendPause(s)
  <2>1. UNCHANGED <<agvVars, flagVars, blockVars, driverVars, cancel, carVars, spoilt>>
    BY <1>11 DEF SendPause, agvVars, flagVars, blockVars, driverVars, carVars
  <2>2. AgvOK' /\ DriverOK' /\ CarOK' /\ (spoilt \subseteq Wrong)'
    BY <2>1, AgvKept, DriverKept, CarKept DEF ForkliftTypeOK
  <2>3. LinksOK'
    <3>1. reader' \in [Link -> {"reading", "stopping", "pausing"}]
      BY <1>11 DEF ForkliftTypeOK, LinksOK, SendPause
    <3>2. UNCHANGED linkVars
      BY <1>11 DEF SendPause, linkVars
    <3> QED
      BY <3>1, <3>2 DEF ForkliftTypeOK, LinksOK, linkVars
  <2>4. SentOK'
    <3>1. CASE WriteAndRemember(Halt(PAUSE))
      BY <3>1, CommandsAre, Remembered DEF ForkliftTypeOK, WriteAndRemember
    <3>2. CASE UNCHANGED <<wire, sentVars>>
      BY <3>2, SentKept DEF ForkliftTypeOK
    <3> QED
      BY <1>11, <3>1, <3>2 DEF SendPause
  <2>5. WireOK'
    <3>1. CASE WriteAndRemember(Halt(PAUSE))
      <4>1. wire' \in Seq(Commands)
        BY <3>1, CommandsAre, Written DEF ForkliftTypeOK, WriteAndRemember
      <4> QED
        BY <1>11, <4>1 DEF SendPause, ForkliftTypeOK, WireOK
    <3>2. CASE UNCHANGED <<wire, sentVars>>
      BY <1>11, <3>2 DEF SendPause, ForkliftTypeOK, WireOK
    <3> QED
      BY <1>11, <3>1, <3>2 DEF SendPause
  <2> QED
    BY <2>2, <2>3, <2>4, <2>5 DEF ForkliftTypeOK
<1>12. CASE ReadAnswer(s)
  <2>1. UNCHANGED <<linkVars, reader, driverVars, cancel, carVars>>
    BY <1>12 DEF ReadAnswer, linkVars, driverVars, carVars
  <2>2. LinksOK' /\ DriverOK' /\ CarOK'
    BY <2>1, LinksKept, DriverKept, CarKept DEF ForkliftTypeOK
  <2>3. AgvOK'
    BY <1>12 DEF ForkliftTypeOK, AgvOK, ReadAnswer, agvVars, blockVars
  <2>4. SentOK'
    BY <1>12 DEF ForkliftTypeOK, SentOK, ReadAnswer
  <2>5. WireOK'
    <3>1. back' \in Seq(Answers)
      BY <1>12, TailKeeps DEF ForkliftTypeOK, WireOK, ReadAnswer
    <3> QED
      BY <1>12, <3>1 DEF ForkliftTypeOK, WireOK, ReadAnswer
  <2>6. (spoilt \subseteq Wrong)'
    BY <1>12 DEF ForkliftTypeOK, ReadAnswer, Wrong
  <2> QED
    BY <2>2, <2>3, <2>4, <2>5, <2>6 DEF ForkliftTypeOK
<1> QED
  BY <1>1, <1>2, <1>3, <1>4, <1>5, <1>6, <1>7, <1>8, <1>9, <1>10, <1>11, <1>12 DEF Session

LEMMA ThreadTypes ==
    ASSUME ForkliftTypeOK, OutInv,
           \/ \E c \in Commands : Resend(c)
           \/ GiveTask \/ Driver \/ AskCancel \/ ClearTask \/ Car \/ Other
    PROVE  ForkliftTypeOK'
<1>1. CASE \E c \in Commands : Resend(c)
  <2>1. UNCHANGED <<linkVars, reader, agvVars, flagVars, blockVars, sentVars, driverVars, cancel, carVars, spoilt>>
    BY <1>1 DEF Resend, linkVars, agvVars, flagVars, blockVars, sentVars, driverVars, carVars
  <2>2. LinksOK' /\ AgvOK' /\ SentOK' /\ DriverOK' /\ CarOK' /\ (spoilt \subseteq Wrong)'
    BY <2>1, LinksKept, AgvKept, SentKept, DriverKept, CarKept DEF ForkliftTypeOK
  <2>3. WireOK'
    <3>1. wire' \in Seq(Commands) /\ back' = back
      BY <1>1, Written DEF ForkliftTypeOK, Resend
    <3> QED
      BY <3>1 DEF ForkliftTypeOK, WireOK
  <2> QED
    BY <2>2, <2>3 DEF ForkliftTypeOK
<1>2. CASE GiveTask
  <2>1. UNCHANGED <<linkVars, reader, sentVars, wireVars, carVars, spoilt>>
    BY <1>2 DEF GiveTask, linkVars, sentVars, wireVars, carVars
  <2>2. LinksOK' /\ SentOK' /\ WireOK' /\ CarOK' /\ (spoilt \subseteq Wrong)'
    BY <2>1, LinksKept, SentKept, WireKept, CarKept DEF ForkliftTypeOK
  <2>3. AgvOK'
    BY <1>2 DEF ForkliftTypeOK, AgvOK, GiveTask, flagVars, blockVars
  <2>4. DriverOK'
    <3>1. 1 \in 1..(Fork + 1)
      BY LegsAre
    <3> QED
      BY <1>2, <3>1, StartedTypes DEF ForkliftTypeOK, GiveTask
  <2> QED
    BY <2>2, <2>3, <2>4 DEF ForkliftTypeOK
<1>3. CASE TryStart
  <2>1. UNCHANGED <<linkVars, reader, sentVars, wireVars, carVars, spoilt>>
    BY <1>3 DEF TryStart, linkVars, sentVars, wireVars, carVars
  <2>2. LinksOK' /\ SentOK' /\ WireOK' /\ CarOK' /\ (spoilt \subseteq Wrong)'
    BY <2>1, LinksKept, SentKept, WireKept, CarKept DEF ForkliftTypeOK
  <2>3. AgvOK'
    <3>1. mine' \subseteq Guarded
      BY <1>3, PlacesHeld DEF ForkliftTypeOK, AgvOK, TryStart
    <3> QED
      BY <1>3, <3>1 DEF ForkliftTypeOK, AgvOK, TryStart, agvVars, flagVars
  <2>4. DriverOK'
    BY <1>3 DEF ForkliftTypeOK, DriverOK, TryStart, Goto
  <2> QED
    BY <2>2, <2>3, <2>4 DEF ForkliftTypeOK
<1>4. CASE Skip
  <2>1. UNCHANGED <<linkVars, reader, agvVars, flagVars, blockVars, sentVars, wireVars, carVars, spoilt>>
    BY <1>4 DEF Skip, linkVars, agvVars, flagVars, blockVars, sentVars, wireVars, carVars
  <2>2. LinksOK' /\ AgvOK' /\ SentOK' /\ WireOK' /\ CarOK' /\ (spoilt \subseteq Wrong)'
    BY <2>1, LinksKept, AgvKept, SentKept, WireKept, CarKept DEF ForkliftTypeOK
  <2>3. DriverOK'
    <3>1. order + 1 \in 1..(Fork + 1)
      BY <1>4, NextOrder DEF ForkliftTypeOK, Skip
    <3> QED
      BY <1>4, <3>1, StartedTypes DEF ForkliftTypeOK, Skip
  <2> QED
    BY <2>2, <2>3 DEF ForkliftTypeOK
<1>5. CASE Send
  <2>1. UNCHANGED <<linkVars, reader, agvVars, flagVars, blockVars, sentVars, carVars, spoilt>>
    BY <1>5 DEF Send, linkVars, agvVars, flagVars, blockVars, sentVars, carVars
  <2>2. LinksOK' /\ AgvOK' /\ SentOK' /\ CarOK' /\ (spoilt \subseteq Wrong)'
    BY <2>1, LinksKept, AgvKept, SentKept, CarKept DEF ForkliftTypeOK
  <2>3. DriverOK'
    BY <1>5 DEF ForkliftTypeOK, DriverOK, Send, Goto
  <2>4. WireOK'
    <3>1. out \in Commands
      BY <1>5, OutIs DEF Send, Goto
    <3>2. wire' \in Seq(Commands) /\ back' = back
      BY <1>5, <3>1, Written DEF ForkliftTypeOK, Send
    <3> QED
      BY <3>2 DEF ForkliftTypeOK, WireOK
  <2> QED
    BY <2>2, <2>3, <2>4 DEF ForkliftTypeOK
<1>6. CASE SendFails
  <2>1. UNCHANGED <<linkVars, reader, agvVars, flagVars, blockVars, sentVars, wireVars, carVars, spoilt>>
    BY <1>6 DEF SendFails, linkVars, agvVars, flagVars, blockVars, sentVars, wireVars, carVars
  <2>2. LinksOK' /\ AgvOK' /\ SentOK' /\ WireOK' /\ CarOK' /\ (spoilt \subseteq Wrong)'
    BY <2>1, LinksKept, AgvKept, SentKept, WireKept, CarKept DEF ForkliftTypeOK
  <2>3. DriverOK'
    BY <1>6 DEF ForkliftTypeOK, DriverOK, SendFails, Goto
  <2> QED
    BY <2>2, <2>3 DEF ForkliftTypeOK
<1>7. CASE Register
  <2>1. UNCHANGED <<linkVars, reader, agvVars, flagVars, blockVars, wireVars, carVars, spoilt>>
    BY <1>7 DEF Register, linkVars, agvVars, flagVars, blockVars, wireVars, carVars
  <2>2. LinksOK' /\ AgvOK' /\ WireOK' /\ CarOK' /\ (spoilt \subseteq Wrong)'
    BY <2>1, LinksKept, AgvKept, WireKept, CarKept DEF ForkliftTypeOK
  <2>3. SentOK'
    <3>1. out \in Commands
      BY <1>7, OutIs DEF Register, Goto
    <3> QED
      BY <1>7, <3>1, Remembered DEF ForkliftTypeOK, Register
  <2>4. DriverOK'
    BY <1>7 DEF ForkliftTypeOK, DriverOK, Register, Goto
  <2> QED
    BY <2>2, <2>3, <2>4 DEF ForkliftTypeOK
<1>8. CASE Advance
  <2>1. UNCHANGED <<linkVars, reader, agvVars, flagVars, blockVars, sentVars, wireVars, carVars, spoilt>>
    BY <1>8 DEF Advance, linkVars, agvVars, flagVars, blockVars, sentVars, wireVars, carVars
  <2>2. LinksOK' /\ AgvOK' /\ SentOK' /\ WireOK' /\ CarOK' /\ (spoilt \subseteq Wrong)'
    BY <2>1, LinksKept, AgvKept, SentKept, WireKept, CarKept DEF ForkliftTypeOK
  <2>3. DriverOK'
    <3>1. order + 1 \in 1..(Fork + 1)
      BY <1>8, NextOrder DEF ForkliftTypeOK, Advance
    <3> QED
      BY <1>8, <3>1, StartedTypes DEF ForkliftTypeOK, Advance
  <2> QED
    BY <2>2, <2>3 DEF ForkliftTypeOK
<1>9. CASE Resume
  <2>1. UNCHANGED <<linkVars, reader, sentVars, wireVars, carVars>>
    BY <1>9 DEF Resume, linkVars, sentVars, wireVars, carVars
  <2>2. LinksOK' /\ SentOK' /\ WireOK' /\ CarOK'
    BY <2>1, LinksKept, SentKept, WireKept, CarKept DEF ForkliftTypeOK
  <2>3. AgvOK'
    <3>1. mine' \subseteq Guarded
      BY <1>9, PlacesHeld DEF ForkliftTypeOK, AgvOK, Resume
    <3> QED
      BY <1>9, <3>1 DEF ForkliftTypeOK, AgvOK, Resume, agvVars
  <2>4. DriverOK'
    <3>1. Halt(RESUME) \in Commands
      BY CommandsAre
    <3> QED
      BY <1>9, <3>1 DEF ForkliftTypeOK, DriverOK, Resume
  <2>5. (spoilt \subseteq Wrong)'
    BY <1>9 DEF ForkliftTypeOK, Resume, Wrong
  <2> QED
    BY <2>2, <2>3, <2>4, <2>5 DEF ForkliftTypeOK
<1>10. CASE GiveUp
  <2>1. UNCHANGED <<linkVars, reader, sentVars, wireVars, carVars>>
    BY <1>10 DEF GiveUp, linkVars, sentVars, wireVars, carVars
  <2>2. LinksOK' /\ SentOK' /\ WireOK' /\ CarOK'
    BY <2>1, LinksKept, SentKept, WireKept, CarKept DEF ForkliftTypeOK
  <2>3. AgvOK'
    <3>1. mine' \subseteq Guarded
      BY <1>10, PlacesHeld DEF ForkliftTypeOK, AgvOK, GiveUp
    <3> QED
      BY <1>10, <3>1 DEF ForkliftTypeOK, AgvOK, GiveUp, agvVars, flagVars
  <2>4. DriverOK'
    <3>1. order + 1 \in 1..(Fork + 1)
      BY <1>10, NextOrder DEF ForkliftTypeOK, GiveUp, PauseSeen
    <3> QED
      BY <1>10, <3>1, StartedTypes DEF ForkliftTypeOK, GiveUp
  <2>5. (spoilt \subseteq Wrong)'
    BY <1>10 DEF ForkliftTypeOK, GiveUp, Wrong
  <2> QED
    BY <2>2, <2>3, <2>4, <2>5 DEF ForkliftTypeOK
<1>11. CASE AskCancel
  <2>1. UNCHANGED <<linkVars, reader, agvVars, flagVars, blockVars, sentVars, wireVars, carVars>>
    BY <1>11 DEF AskCancel, linkVars, agvVars, flagVars, blockVars, sentVars, wireVars, carVars
  <2>2. LinksOK' /\ AgvOK' /\ SentOK' /\ WireOK' /\ CarOK'
    BY <2>1, LinksKept, AgvKept, SentKept, WireKept, CarKept DEF ForkliftTypeOK
  <2>3. DriverOK'
    BY <1>11 DEF ForkliftTypeOK, DriverOK, AskCancel, driverVars
  <2>4. (spoilt \subseteq Wrong)'
    BY <1>11 DEF ForkliftTypeOK, AskCancel, Wrong
  <2> QED
    BY <2>2, <2>3, <2>4 DEF ForkliftTypeOK
<1>12. CASE ClearTask
  <2>1. UNCHANGED <<linkVars, reader, carVars, spoilt>>
    BY <1>12 DEF ClearTask, linkVars, carVars
  <2>2. LinksOK' /\ CarOK' /\ (spoilt \subseteq Wrong)'
    BY <2>1, LinksKept, CarKept DEF ForkliftTypeOK
  <2>3. AgvOK'
    BY <1>12 DEF ForkliftTypeOK, AgvOK, ClearTask, flagVars, blockVars
  <2>4. SentOK'
    <3>1. CASE WriteAndRemember(Halt(CLEAR))
      BY <3>1, CommandsAre, Remembered DEF ForkliftTypeOK, WriteAndRemember
    <3>2. CASE UNCHANGED <<wire, sentVars>>
      BY <3>2, SentKept DEF ForkliftTypeOK
    <3> QED
      BY <1>12, <3>1, <3>2 DEF ClearTask
  <2>5. DriverOK'
    BY <1>12 DEF ForkliftTypeOK, DriverOK, ClearTask, driverVars
  <2>6. WireOK'
    <3>1. CASE WriteAndRemember(Halt(CLEAR))
      <4>1. wire' \in Seq(Commands)
        BY <3>1, CommandsAre, Written DEF ForkliftTypeOK, WriteAndRemember
      <4> QED
        BY <1>12, <4>1 DEF ClearTask, ForkliftTypeOK, WireOK
    <3>2. CASE UNCHANGED <<wire, sentVars>>
      BY <1>12, <3>2 DEF ClearTask, ForkliftTypeOK, WireOK
    <3> QED
      BY <1>12, <3>1, <3>2 DEF ClearTask
  <2> QED
    BY <2>2, <2>3, <2>4, <2>5, <2>6 DEF ForkliftTypeOK
<1>13. CASE Take
  <2>1. UNCHANGED <<linkVars, reader, agvVars, flagVars, blockVars, sentVars, driverVars, cancel>>
    BY <1>13 DEF Take, linkVars, agvVars, flagVars, blockVars, sentVars, driverVars
  <2>2. LinksOK' /\ AgvOK' /\ SentOK' /\ DriverOK'
    BY <2>1, LinksKept, AgvKept, SentKept, DriverKept DEF ForkliftTypeOK
  <2>3. WireOK'
    <3>1. wire' \in Seq(Commands) /\ Head(wire) \in Commands
      BY <1>13, TailKeeps DEF ForkliftTypeOK, WireOK, Take
    <3>2. back' \in Seq(Answers)
      BY <1>13, <3>1, AnswersAre DEF ForkliftTypeOK, WireOK, Take
    <3> QED
      BY <3>1, <3>2 DEF WireOK
  <2>4. CarOK'
    <3>1. Head(wire) \in Commands
      BY <1>13, TailKeeps DEF ForkliftTypeOK, WireOK, Take
    <3>2. IsOrder(Head(wire)) => Head(wire).arg \in Order /\ Head(wire).arg \in 0..Fork
      BY <3>1, CommandsAre, LegsAre DEF Order
    <3>3. job' \in 0..Fork
      BY <1>13, <3>2, LegsAre DEF ForkliftTypeOK, CarOK, Take
    <3>4. begun' \subseteq Order /\ paused' \in BOOLEAN
      BY <1>13, <3>2 DEF ForkliftTypeOK, CarOK, Take
    <3> QED
      BY <1>13, <3>3, <3>4 DEF ForkliftTypeOK, CarOK, Take
  <2>5. (spoilt \subseteq Wrong)'
    BY <1>13 DEF ForkliftTypeOK, Take, Wrong
  <2> QED
    BY <2>2, <2>3, <2>4, <2>5 DEF ForkliftTypeOK
<1>14. CASE Drive
  <2>1. UNCHANGED <<linkVars, reader, agvVars, flagVars, blockVars, sentVars, driverVars, cancel, spoilt>>
    BY <1>14 DEF Drive, linkVars, agvVars, flagVars, blockVars, sentVars, driverVars
  <2>2. LinksOK' /\ AgvOK' /\ SentOK' /\ DriverOK' /\ (spoilt \subseteq Wrong)'
    BY <2>1, LinksKept, AgvKept, SentKept, DriverKept DEF ForkliftTypeOK
  <2>3. WireOK'
    BY <1>14 DEF ForkliftTypeOK, WireOK, Drive, wireVars
  <2>4. CarOK'
    <3>1. place + 1 \in Place
      <4>1. place \in 1..LastPlace /\ EndOf(job) \in 1..Lines /\ place < 2 * EndOf(job) + 1
        BY <1>14, LegsAre, StationsAre DEF ForkliftTypeOK, CarOK, Drive, Target
      <4> QED
        BY <4>1, LegsAre DEF Place, LastPlace
    <3> QED
      BY <1>14, <3>1 DEF ForkliftTypeOK, CarOK, Drive
  <2> QED
    BY <2>2, <2>3, <2>4 DEF ForkliftTypeOK
<1>15. CASE Complete
  <2>1. UNCHANGED <<linkVars, reader, agvVars, flagVars, blockVars, sentVars, driverVars, cancel>>
    BY <1>15 DEF Complete, linkVars, agvVars, flagVars, blockVars, sentVars, driverVars
  <2>2. LinksOK' /\ AgvOK' /\ SentOK' /\ DriverOK'
    BY <2>1, LinksKept, AgvKept, SentKept, DriverKept DEF ForkliftTypeOK
  <2>3. WireOK'
    <3>1. job \in Order
      BY <1>15, JobIs DEF ForkliftTypeOK, Complete
    <3>2. Done(Command(job)) \in Answers
      BY <3>1, CommandsAre, AnswersAre
    <3>3. back' = back \/ back' = Append(back, Done(Command(job)))
      BY <1>15 DEF Complete
    <3>4. back' \in Seq(Answers)
      BY <3>2, <3>3 DEF ForkliftTypeOK, WireOK
    <3> QED
      BY <1>15, <3>4 DEF ForkliftTypeOK, WireOK, Complete
  <2>4. CarOK'
    <3>1. job \in Order
      BY <1>15, JobIs DEF ForkliftTypeOK, Complete
    <3>2. 0 \in 0..Fork
      BY LegsAre
    <3> QED
      BY <1>15, <3>1, <3>2 DEF ForkliftTypeOK, CarOK, Complete
  <2>5. (spoilt \subseteq Wrong)'
    BY <1>15 DEF ForkliftTypeOK, Complete, Wrong
  <2> QED
    BY <2>2, <2>3, <2>4, <2>5 DEF ForkliftTypeOK
<1>16. CASE Other
  <2>1. UNCHANGED <<linkVars, reader, sentVars, driverVars, cancel, wireVars, carVars, spoilt>>
    BY <1>16 DEF Other, linkVars, sentVars, driverVars, wireVars, carVars
  <2>2. LinksOK' /\ SentOK' /\ DriverOK' /\ WireOK' /\ CarOK' /\ (spoilt \subseteq Wrong)'
    BY <2>1, LinksKept, SentKept, DriverKept, WireKept, CarKept DEF ForkliftTypeOK
  <2>3. AgvOK'
    BY <1>16 DEF ForkliftTypeOK, AgvOK, Other, agvVars, flagVars, Gone
  <2> QED
    BY <2>2, <2>3 DEF ForkliftTypeOK
<1> QED
  BY <1>1, <1>2, <1>3, <1>4, <1>5, <1>6, <1>7, <1>8, <1>9, <1>10, <1>11, <1>12, <1>13, <1>14, <1>15, <1>16 DEF Driver, Car

LEMMA ForkliftTypesNext == ForkliftTypeOK /\ OutInv /\ [Next]_vars => ForkliftTypeOK'
<1> SUFFICES ASSUME ForkliftTypeOK, OutInv, [Next]_vars PROVE ForkliftTypeOK'
  OBVIOUS
<1>1. CASE \E s \in Link : Session(s) \/ Drop(s)
  BY <1>1, SessionTypes
<1>2. CASE Next /\ ~\E s \in Link : Session(s) \/ Drop(s)
  BY <1>2, ThreadTypes DEF Next
<1>3. CASE UNCHANGED vars
  <2>1. UNCHANGED <<linkVars, reader, agvVars, flagVars, blockVars, sentVars, driverVars,
                    cancel, wireVars, carVars, spoilt>>
    BY <1>3 DEF vars
  <2> QED
    BY <2>1, LinksKept, AgvKept, SentKept, DriverKept, WireKept, CarKept DEF ForkliftTypeOK
<1> QED
  BY <1>1, <1>2, <1>3

-----------------------------------------------------------------------------
(* Steps that only send *)

OrdersDone == <<job, begun, carried>>

\* The thread that drives is not concerned; what is written is a halt, or an
\* order that was written before.
Sends ==
    /\ UNCHANGED <<driverVars, back, OrdersDone, spoilt>>
    /\ cancel' = cancel \/ cancel # "no"
    /\ unRecv \subseteq unRecv'
    /\ \A k \in Order : Command(k) \in unRecv' => Command(k) \in unRecv
    /\ \/ unFinish' = unFinish
       \/ /\ unFinish' = unFinish \cup {"halt"}
          /\ \E w \in {RESUME, PAUSE, CLEAR} : Halt(w) \in unRecv'
    /\ \A k \in Order : Has(wire', Command(k)) => Has(wire, Command(k)) \/ Command(k) \in unRecv

LEMMA QuietSends ==
    UNCHANGED <<driverVars, cancel, sentVars, wireVars, carVars, spoilt>> => Sends
BY DEF Sends, driverVars, sentVars, wireVars, carVars, OrdersDone

LEMMA HaltSent ==
    ASSUME ForkliftTypeOK, NEW w \in {RESUME, PAUSE, CLEAR},
           \/ WriteAndRemember(Halt(w))
           \/ UNCHANGED <<wire, sentVars>>,
           UNCHANGED <<driverVars, back, OrdersDone, spoilt>>,
           cancel' = cancel \/ cancel # "no"
    PROVE  Sends
<1>1. CASE UNCHANGED <<wire, sentVars>>
  BY <1>1 DEF Sends, sentVars
<1>2. CASE WriteAndRemember(Halt(w))
  <2>1. Halt(w) \in Commands /\ \A k \in Order : Command(k) # Halt(w)
    BY CommandsAre, CommandsDiffer
  <2>2. \A x : Has(wire', x) => Has(wire, x) \/ x = Halt(w)
    BY <1>2, <2>1, Written DEF WriteAndRemember, ForkliftTypeOK, Has
  <2>3. unRecv' = unRecv \cup {Halt(w)} /\ unFinish' = unFinish \cup {"halt"}
    BY <1>2, CommandsAre DEF WriteAndRemember, Remember
  <2> QED
    BY <2>1, <2>2, <2>3 DEF Sends
<1> QED
  BY <1>1, <1>2

LEMMA SessionSends ==
    ASSUME ForkliftTypeOK, NEW s \in Link, Session(s), ~ReadAnswer(s)
    PROVE  Sends
<1>1. CASE FirstHeard(s)
  <2>1. WriteAndRemember(Halt(CLEAR)) \/ UNCHANGED <<wire, sentVars>>
    BY <1>1 DEF FirstHeard
  <2>2. UNCHANGED <<driverVars, back, OrdersDone, spoilt, cancel>>
    BY <1>1 DEF FirstHeard, driverVars, OrdersDone, carVars
  <2> QED
    BY <2>1, <2>2, HaltSent
<1>2. CASE SendPause(s)
  <2>1. WriteAndRemember(Halt(PAUSE)) \/ UNCHANGED <<wire, sentVars>>
    BY <1>2 DEF SendPause
  <2>2. UNCHANGED <<driverVars, back, OrdersDone, spoilt, cancel>>
    BY <1>2 DEF SendPause, driverVars, OrdersDone, carVars
  <2> QED
    BY <2>1, <2>2, HaltSent
<1>3. CASE ~FirstHeard(s) /\ ~SendPause(s)
  <2>1. \/ Connect(s) \/ StartReport(s) \/ AcceptFails(s) \/ Disconnected(s) \/ Ready(s)
        \/ Leave(s) \/ Arrive(s) \/ Pause(s)
    BY <1>3 DEF Session
  <2>2. UNCHANGED <<driverVars, cancel, sentVars, wireVars, carVars, spoilt>>
    BY <2>1 DEF Connect, StartReport, AcceptFails, Disconnected, Ready, Leave, Arrive, Pause
  <2> QED
    BY <2>2, QuietSends
<1> QED
  BY <1>1, <1>2, <1>3

LEMMA ResendSends ==
    ASSUME ForkliftTypeOK, NEW c \in Commands, Resend(c)
    PROVE  Sends
<1>1. UNCHANGED <<driverVars, back, OrdersDone, spoilt, cancel, sentVars>> /\ c \in unRecv
  BY DEF Resend, Again, carVars, OrdersDone
<1>2. \A x : Has(wire', x) => Has(wire, x) \/ x = c
  BY Written DEF Resend, ForkliftTypeOK, Has
<1> QED
  BY <1>1, <1>2 DEF Sends, sentVars

LEMMA ClearTaskSends == ForkliftTypeOK /\ ClearTask => Sends
<1> SUFFICES ASSUME ForkliftTypeOK, ClearTask PROVE Sends
  OBVIOUS
<1>1. WriteAndRemember(Halt(CLEAR)) \/ UNCHANGED <<wire, sentVars>>
  BY DEF ClearTask
<1>2. UNCHANGED <<driverVars, back, OrdersDone, spoilt>> /\ cancel # "no"
  BY DEF ClearTask, driverVars, OrdersDone, carVars
<1> QED
  BY <1>1, <1>2, HaltSent

\* Where an order is, as long as the thread stays where it is.
LEMMA SameOrder ==
    ASSUME UNCHANGED driverVars
    PROVE  /\ Unwritten' = Unwritten /\ InFlight' = InFlight /\ Registered' = Registered
           /\ WasWritten' = WasWritten
           /\ driver' = driver /\ order' = order /\ out' = out
BY DEF driverVars, Unwritten, InFlight, Registered, WasWritten

LEMMA ForkliftInvSends == ForkliftInv /\ Sends => OutInv' /\ OrderInv' /\ CalmInv' /\ CleanInv'
<1> SUFFICES ASSUME ForkliftInv, Sends PROVE OutInv' /\ OrderInv' /\ CalmInv' /\ CleanInv'
  OBVIOUS
<1>1. /\ Unwritten' = Unwritten /\ InFlight' = InFlight /\ Registered' = Registered
      /\ WasWritten' = WasWritten
      /\ driver' = driver /\ order' = order /\ out' = out
  BY SameOrder DEF Sends
<1>2. UNCHANGED <<back, job, begun, carried, spoilt>>
  BY DEF Sends, OrdersDone
<1>3. OutInv'
  BY <1>1, <1>2 DEF ForkliftInv, OutInv, Sends
<1>4. OrderInv'
  BY <1>1, <1>2 DEF ForkliftInv, OrderInv, Sends
<1>5. \A k \in Order : Type(k) # "halt"
  BY CommandsAre
<1>6. unFinish \subseteq unFinish' /\ unFinish' \ {"halt"} = unFinish \ {"halt"}
  BY DEF Sends
<1>7. CalmInv'
  BY <1>1, <1>2, <1>6 DEF ForkliftInv, CalmInv, Calm
<1>8. CleanInv'
  <2> SUFFICES ASSUME spoilt = {}
               PROVE  /\ \A t \in unFinish' \ {"halt"} : Registered /\ t = Type(order)
                      /\ Registered /\ order \notin begun => Command(order) \in unRecv'
                      /\ order \in begun => order \in carried \/ job = order
                      /\ order \in carried /\ (InFlight \/ Type(order) \in unFinish') =>
                            Has(back, Done(Command(order)))
                      /\ "halt" \in unFinish' =>
                            \E w \in {RESUME, PAUSE, CLEAR} :
                                Halt(w) \in unRecv' \/ Has(back, Done(Halt(w)))
    BY <1>1, <1>2 DEF CleanInv
  <2>1. carried \subseteq Order
    BY DEF ForkliftInv, ForkliftTypeOK, CarOK
  <2>2. order \in carried => (Type(order) \in unFinish' <=> Type(order) \in unFinish)
    BY <1>5, <1>6, <2>1
  <2>3. "halt" \in unFinish' =>
        \E w \in {RESUME, PAUSE, CLEAR} : Halt(w) \in unRecv' \/ Has(back, Done(Halt(w)))
    BY <1>2 DEF ForkliftInv, CleanInv, Sends
  <2> QED
    BY <1>6, <2>2, <2>3 DEF ForkliftInv, CleanInv, Sends
<1> QED
  BY <1>3, <1>4, <1>7, <1>8

-----------------------------------------------------------------------------
(* Steps of the thread from one order to the next *)

LEMMA StartsOrder ==
    ASSUME ForkliftInv, driver \in {"idle", "block", "wait"}, StartOrder(order + 1),
           UNCHANGED <<cancel, sentVars, wireVars, OrdersDone>>, spoilt \subseteq spoilt'
    PROVE  /\ OutInv' /\ OrderInv'
           /\ (\/ ~Calm'
               \/ order = 0
               \/ driver = "wait" /\ order \in carried /\ Type(order) \notin unFinish)
              => CalmInv'
           /\ spoilt' # {} \/ unFinish \subseteq {"halt"} => CleanInv'
<1>1. /\ Fork \in Nat /\ Order = 1..Fork /\ order \in 0..Fork
      /\ order = 0 <=> driver = "idle"
      /\ order # 0 => order \in Order
  BY LegsAre DEF ForkliftInv, ForkliftTypeOK, DriverOK, OutInv, Order
<1>2. \/ driver' = "over" /\ order' = order /\ out' = out /\ order # 0
      \/ /\ order + 1 \in Order /\ driver' \in {"send", "block"}
         /\ order' = order + 1 /\ out' = Command(order + 1)
  BY <1>1, Started, LegsAre
<1>3. UNCHANGED <<unRecv, unFinish, wire, back, job, begun, carried, cancel>>
  BY DEF sentVars, wireVars, OrdersDone
<1>4. \A k \in Order : Command(k) # Halt(RESUME) /\ Type(k) # "halt"
  BY CommandsAre, CommandsDiffer
<1>5. OutInv'
  BY <1>1, <1>2, <1>3 DEF OutInv, ForkliftInv
<1>6. /\ ~Registered' /\ ~InFlight'
      /\ Unwritten' <=> driver' # "over"
  BY <1>2, <1>4 DEF Registered, InFlight, Unwritten
<1>7. WasWritten \subseteq WasWritten' /\ \A k \in WasWritten : k <= order
  BY <1>1, <1>2, <1>6 DEF WasWritten
<1>8. OrderInv'
  BY <1>3, <1>7 DEF OrderInv, ForkliftInv
<1>9. ASSUME \/ ~Calm'
             \/ order = 0
             \/ driver = "wait" /\ order \in carried /\ Type(order) \notin unFinish
      PROVE  CalmInv'
  <2> SUFFICES ASSUME Calm'
               PROVE  /\ \A k \in Order : k < order' \/ (k = order' /\ driver' = "over") => k \in carried
                      /\ job \in {0, order'}
                      /\ \A k \in Order : ~Has(back, Done(Command(k)))
    BY <1>3, <1>6 DEF CalmInv
  <2>1. Calm
    BY DEF Calm
  <2>2. \A k \in Order : k < order => k \in carried
    BY <2>1 DEF ForkliftInv, CalmInv
  <2>3. order # 0 => order \in carried /\ Type(order) \notin unFinish /\ ~InFlight
    BY <1>1, <1>9 DEF InFlight
  <2>4. \A k \in Order : k < order' \/ (k = order' /\ driver' = "over") => k \in carried
    BY <1>1, <1>2, <2>2, <2>3
  <2>5. job = 0
    <3>1. job \in {0, order}
      BY <2>1 DEF ForkliftInv, CalmInv
    <3>2. job # 0 => job \notin carried
      BY DEF ForkliftInv, OrderInv
    <3> QED
      BY <2>3, <3>1, <3>2
  <2>6. ASSUME NEW k \in Order, Has(back, Done(Command(k))) PROVE FALSE
    <3>1. k = order /\ (InFlight \/ Type(order) \in unFinish)
      BY <2>1, <2>6 DEF ForkliftInv, CalmInv
    <3> QED
      BY <1>1, <2>3, <3>1
  <2> QED
    BY <2>4, <2>5, <2>6
<1>10. ASSUME spoilt' # {} \/ unFinish \subseteq {"halt"} PROVE CleanInv'
  <2> SUFFICES ASSUME spoilt' = {}
               PROVE  /\ unFinish \subseteq {"halt"}
                      /\ order' \in begun => order' \in carried \/ job = order'
                      /\ order' \in carried => Type(order') \notin unFinish
                      /\ "halt" \in unFinish =>
                            \E w \in {RESUME, PAUSE, CLEAR} :
                                Halt(w) \in unRecv \/ Has(back, Done(Halt(w)))
    BY <1>3, <1>6 DEF CleanInv
  <2>1. spoilt = {}
    OBVIOUS
  <2>2. unFinish \subseteq {"halt"}
    BY <1>10
  <2>3. carried \subseteq Order /\ begun \subseteq WasWritten
    BY DEF ForkliftInv, ForkliftTypeOK, CarOK, OrderInv
  <2>4. order' # order => order' \notin begun
    BY <1>1, <1>2, <1>7, <2>3
  <2> QED
    BY <1>4, <2>1, <2>2, <2>3, <2>4 DEF ForkliftInv, CleanInv
<1> QED
  BY <1>5, <1>8, <1>9, <1>10

LEMMA ForkliftInvGiveTask == ForkliftInv /\ GiveTask => OutInv' /\ OrderInv' /\ CalmInv' /\ CleanInv'
<1> SUFFICES ASSUME ForkliftInv, GiveTask PROVE OutInv' /\ OrderInv' /\ CalmInv' /\ CleanInv'
  OBVIOUS
<1>1. order = 0 /\ 0 + 1 = 1 /\ driver = "idle"
  BY DEF ForkliftInv, OutInv, GiveTask
<1>2. StartOrder(order + 1) /\ UNCHANGED <<cancel, sentVars, wireVars, OrdersDone, spoilt>>
  BY <1>1 DEF GiveTask, carVars, OrdersDone
<1>3. spoilt = {} => unFinish \subseteq {"halt"}
  BY <1>1 DEF ForkliftInv, CleanInv, Registered
<1> QED
  BY <1>1, <1>2, <1>3, StartsOrder

LEMMA ForkliftInvSkip == ForkliftInv /\ Skip => OutInv' /\ OrderInv' /\ CalmInv' /\ CleanInv'
<1> SUFFICES ASSUME ForkliftInv, Skip PROVE OutInv' /\ OrderInv' /\ CalmInv' /\ CleanInv'
  OBVIOUS
<1>1. StartOrder(order + 1) /\ UNCHANGED <<cancel, sentVars, wireVars, OrdersDone, spoilt>>
  BY DEF Skip, carVars, OrdersDone
<1>2. "cancelled" \in spoilt'
  BY DEF ForkliftInv, OutInv, Skip
<1>3. driver = "block" /\ ~Calm' /\ spoilt' # {}
  BY <1>2 DEF Skip, Calm
<1> QED
  BY <1>1, <1>3, StartsOrder

LEMMA ForkliftInvGiveUp == ForkliftInv /\ GiveUp => OutInv' /\ OrderInv' /\ CalmInv' /\ CleanInv'
<1> SUFFICES ASSUME ForkliftInv, GiveUp PROVE OutInv' /\ OrderInv' /\ CalmInv' /\ CleanInv'
  OBVIOUS
<1>1. /\ StartOrder(order + 1) /\ UNCHANGED <<cancel, sentVars, wireVars, OrdersDone>>
      /\ spoilt' = spoilt \cup {"given up"}
  BY DEF GiveUp, carVars, OrdersDone
<1>2. driver = "wait" /\ ~Calm' /\ spoilt' # {}
  BY <1>1 DEF GiveUp, PauseSeen, Calm
<1> QED
  BY <1>1, <1>2, StartsOrder

\* What isFinish says of the order the thread waits for.
LEMMA FinishIs ==
    ASSUME ForkliftInv, driver = "wait", IsFinish
    PROVE  /\ order \in Order /\ Type(order) \notin unFinish
           /\ Calm => order \in carried
           /\ spoilt = {} => unFinish \subseteq {"halt"}
<1>1. order \in Order /\ Registered
  BY DEF ForkliftInv, OutInv, Registered
<1>2. Type(order) \notin unFinish
  <2>1. Moving \/ Type(order) = "fork"
    BY <1>1, CommandsAre, LegsAre DEF Moving, Order
  <2> QED
    BY <2>1 DEF IsFinish, Moving, Order
<1>3. Calm => order \in carried
  BY <1>1, <1>2 DEF ForkliftInv, CalmInv
<1>4. spoilt = {} => unFinish \subseteq {"halt"}
  BY <1>2 DEF ForkliftInv, CleanInv
<1> QED
  BY <1>1, <1>2, <1>3, <1>4

LEMMA ForkliftInvAdvance == ForkliftInv /\ Advance => OutInv' /\ OrderInv' /\ CalmInv' /\ CleanInv'
<1> SUFFICES ASSUME ForkliftInv, Advance PROVE OutInv' /\ OrderInv' /\ CalmInv' /\ CleanInv'
  OBVIOUS
<1>1. StartOrder(order + 1) /\ UNCHANGED <<cancel, sentVars, wireVars, OrdersDone, spoilt>>
  BY DEF Advance, carVars, OrdersDone
<1>2. driver = "wait" /\ IsFinish
  BY DEF Advance
<1>3. Calm' => Calm
  BY <1>1 DEF Calm
<1> QED
  BY <1>1, <1>2, <1>3, FinishIs, StartsOrder

\* Steps of the thread with the order it has.
LEMMA ForkliftInvTryStart == ForkliftInv /\ TryStart => OutInv' /\ OrderInv' /\ CalmInv' /\ CleanInv'
<1> SUFFICES ASSUME ForkliftInv, TryStart PROVE OutInv' /\ OrderInv' /\ CalmInv' /\ CleanInv'
  OBVIOUS
<1>1. driver = "block" /\ driver' = "send" /\ UNCHANGED <<order, out, cancel, unRecv, unFinish, wire, back,
                                                          job, begun, carried, spoilt>>
  BY DEF TryStart, Goto, sentVars, wireVars, carVars
<1>2. order \in Order /\ out = Command(order) /\ out # Halt(RESUME)
  BY <1>1, CommandsDiffer DEF ForkliftInv, OutInv
<1>3. /\ Unwritten' = Unwritten /\ InFlight' = InFlight /\ Registered' = Registered
      /\ WasWritten' = WasWritten
  BY <1>1, <1>2 DEF Unwritten, InFlight, Registered, WasWritten
<1>4. OutInv' /\ OrderInv'
  BY <1>1, <1>2, <1>3 DEF ForkliftInv, OutInv, OrderInv
<1>5. CalmInv' /\ CleanInv'
  BY <1>1, <1>3 DEF ForkliftInv, CalmInv, CleanInv, Calm
<1> QED
  BY <1>4, <1>5

LEMMA ForkliftInvSend == ForkliftInv /\ Send => OutInv' /\ OrderInv' /\ CalmInv' /\ CleanInv'
<1> SUFFICES ASSUME ForkliftInv, Send PROVE OutInv' /\ OrderInv' /\ CalmInv' /\ CleanInv'
  OBVIOUS
<1>1. /\ driver = "send" /\ driver' = "register"
      /\ UNCHANGED <<order, out, cancel, unRecv, unFinish, back, job, begun, carried, spoilt>>
  BY DEF Send, Goto, sentVars, carVars
<1>2. out \in Commands /\ order \in Order /\ out \in {Command(order), Halt(RESUME)}
  BY <1>1, OutIs DEF ForkliftInv
<1>3. \A x : Has(wire', x) => Has(wire, x) \/ x = out
  BY <1>2, Written DEF Send, ForkliftInv, ForkliftTypeOK, Has
<1>4. /\ ~Unwritten' /\ ~InFlight /\ Registered' = Registered
      /\ InFlight' = (out # Halt(RESUME)) /\ Unwritten = (out # Halt(RESUME))
  BY <1>1 DEF Unwritten, InFlight, Registered
<1>5. WasWritten' = WasWritten \cup {order}
  BY <1>1, <1>2, <1>4 DEF WasWritten
<1>6. OutInv'
  BY <1>1, <1>2 DEF ForkliftInv, OutInv
<1>7. \A k \in Order : Has(wire', Command(k)) => Has(wire, Command(k)) \/ k = order
  BY <1>2, <1>3, CommandsDiffer
<1>8. OrderInv'
  BY <1>1, <1>5, <1>7 DEF ForkliftInv, OrderInv
<1>9. CalmInv'
  BY <1>1, <1>4 DEF ForkliftInv, CalmInv, Calm
<1>10. InFlight' => order \notin carried
  <2>1. Unwritten => order \notin WasWritten
    BY <1>2, LegsAre DEF WasWritten, Order
  <2> QED
    BY <1>4, <2>1 DEF ForkliftInv, OrderInv
<1>11. CleanInv'
  BY <1>1, <1>4, <1>10 DEF ForkliftInv, CleanInv
<1> QED
  BY <1>6, <1>8, <1>9, <1>11

LEMMA ForkliftInvSendFails == ForkliftInv /\ SendFails => OutInv' /\ OrderInv' /\ CalmInv' /\ CleanInv'
<1> SUFFICES ASSUME ForkliftInv, SendFails PROVE OutInv' /\ OrderInv' /\ CalmInv' /\ CleanInv'
  OBVIOUS
<1>1. /\ driver = "send" /\ (driver' = "dead" \/ (driver' = "wait" /\ cancel # "no"))
      /\ UNCHANGED <<order, out, cancel, unRecv, unFinish, wire, back, job, begun, carried, spoilt>>
  BY DEF SendFails, Goto, sentVars, wireVars, carVars
<1>2. OutInv'
  BY <1>1 DEF ForkliftInv, OutInv
<1>3. CASE driver' = "dead"
  <2>1. /\ Unwritten' = Unwritten /\ InFlight' = InFlight /\ Registered' = Registered
        /\ WasWritten' = WasWritten
    BY <1>1, <1>3 DEF Unwritten, InFlight, Registered, WasWritten
  <2>2. OrderInv'
    BY <1>1, <2>1 DEF ForkliftInv, OrderInv
  <2>3. CalmInv' /\ CleanInv'
    BY <1>1, <1>3, <2>1 DEF ForkliftInv, CalmInv, CleanInv, Calm
  <2> QED
    BY <1>2, <2>2, <2>3
<1>4. CASE driver' = "wait" /\ cancel # "no"
  <2>1. WasWritten \subseteq WasWritten'
    BY <1>1, <1>4 DEF Unwritten, WasWritten
  <2>2. OrderInv'
    BY <1>1, <2>1 DEF ForkliftInv, OrderInv
  <2>3. "cancelled" \in spoilt'
    BY <1>1, <1>4 DEF ForkliftInv, OutInv
  <2>4. CalmInv' /\ CleanInv'
    BY <2>3 DEF CalmInv, CleanInv, Calm
  <2> QED
    BY <1>2, <2>2, <2>4
<1> QED
  BY <1>1, <1>3, <1>4

LEMMA ForkliftInvRegister == ForkliftInv /\ Register => OutInv' /\ OrderInv' /\ CalmInv' /\ CleanInv'
<1> SUFFICES ASSUME ForkliftInv, Register PROVE OutInv' /\ OrderInv' /\ CalmInv' /\ CleanInv'
  OBVIOUS
<1>1. /\ driver = "register" /\ driver' = "wait"
      /\ UNCHANGED <<order, out, cancel, wire, back, job, begun, carried, spoilt>>
      /\ unRecv' = unRecv \cup {out} /\ unFinish' = unFinish \cup {out.type}
  BY DEF Register, Goto, Remember, wireVars, carVars
<1>2. out \in Commands /\ order \in Order /\ out \in {Command(order), Halt(RESUME)}
  BY <1>1, OutIs DEF ForkliftInv
<1>3. /\ ~Unwritten /\ ~Unwritten' /\ ~InFlight' /\ Registered'
      /\ InFlight = (out # Halt(RESUME)) /\ Registered = (out = Halt(RESUME))
      /\ WasWritten' = WasWritten
  BY <1>1 DEF Unwritten, InFlight, Registered, WasWritten
<1>4. out # Halt(RESUME) => out = Command(order) /\ out.type = Type(order)
  BY <1>2, CommandsAre
<1>5. out = Halt(RESUME) => out.type = "halt"
  BY CommandsAre
<1>6. order \in WasWritten
  BY <1>2, <1>3 DEF WasWritten
<1>7. Type(order) # "halt"
  BY <1>2, CommandsAre
<1>8. OutInv'
  BY <1>1, <1>2 DEF ForkliftInv, OutInv
<1>9. OrderInv'
  <2>1. \A k \in Order : Command(k) \in unRecv' => Command(k) \in unRecv \/ k = order
    BY <1>1, <1>2, CommandsDiffer
  <2> QED
    BY <1>1, <1>3, <1>6, <2>1 DEF ForkliftInv, OrderInv
<1>10. CASE out # Halt(RESUME)
  <2>1. unFinish' = unFinish \cup {Type(order)} /\ unRecv' = unRecv \cup {Command(order)} /\ InFlight
    BY <1>1, <1>3, <1>4, <1>10
  <2>2. CalmInv'
    BY <1>1, <1>3, <2>1 DEF ForkliftInv, CalmInv, Calm
  <2>3. CleanInv'
    BY <1>1, <1>3, <1>7, <2>1 DEF ForkliftInv, CleanInv
  <2> QED
    BY <1>8, <1>9, <2>2, <2>3
<1>11. CASE out = Halt(RESUME)
  <2>1. unFinish' = unFinish \cup {"halt"} /\ unRecv' = unRecv \cup {Halt(RESUME)} /\ Registered
    BY <1>1, <1>3, <1>5, <1>11
  <2>2. CalmInv'
    BY <1>1, <1>3, <1>7, <1>11, <2>1 DEF ForkliftInv, CalmInv, Calm
  <2>3. CleanInv'
    BY <1>1, <1>3, <1>7, <1>11, <2>1 DEF ForkliftInv, CleanInv
  <2> QED
    BY <1>8, <1>9, <2>2, <2>3
<1> QED
  BY <1>10, <1>11

LEMMA ForkliftInvResume == ForkliftInv /\ Resume => OutInv' /\ OrderInv' /\ CalmInv' /\ CleanInv'
<1> SUFFICES ASSUME ForkliftInv, Resume PROVE OutInv' /\ OrderInv' /\ CalmInv' /\ CleanInv'
  OBVIOUS
<1>1. /\ driver = "wait" /\ driver' = "send" /\ out' = Halt(RESUME) /\ spoilt \subseteq spoilt'
      /\ UNCHANGED <<order, cancel, unRecv, unFinish, wire, back, job, begun, carried>>
  BY DEF Resume, PauseSeen, sentVars, wireVars, carVars
<1>2. /\ Unwritten' = Unwritten /\ InFlight' = InFlight /\ Registered' = Registered
      /\ WasWritten' = WasWritten
  BY <1>1 DEF Unwritten, InFlight, Registered, WasWritten
<1>3. OutInv' /\ OrderInv'
  BY <1>1, <1>2 DEF ForkliftInv, OutInv, OrderInv
<1>4. (Calm' => Calm) /\ (spoilt' = {} => spoilt = {})
  BY <1>1 DEF Calm
<1>5. CalmInv' /\ CleanInv'
  BY <1>1, <1>2, <1>4 DEF ForkliftInv, CalmInv, CleanInv
<1> QED
  BY <1>3, <1>5

LEMMA ForkliftInvAskCancel == ForkliftInv /\ AskCancel => OutInv' /\ OrderInv' /\ CalmInv' /\ CleanInv'
<1> SUFFICES ASSUME ForkliftInv, AskCancel PROVE OutInv' /\ OrderInv' /\ CalmInv' /\ CleanInv'
  OBVIOUS
<1>1. /\ UNCHANGED <<driverVars, unRecv, unFinish, wire, back, job, begun, carried>>
      /\ "cancelled" \in spoilt'
  BY DEF AskCancel, sentVars, wireVars, carVars
<1>2. WasWritten' = WasWritten /\ driver' = driver /\ order' = order /\ out' = out
  BY <1>1, SameOrder
<1>3. OutInv' /\ OrderInv'
  BY <1>1, <1>2 DEF ForkliftInv, OutInv, OrderInv
<1>4. CalmInv' /\ CleanInv'
  BY <1>1 DEF CalmInv, CleanInv, Calm
<1> QED
  BY <1>3, <1>4

-----------------------------------------------------------------------------
(* Steps of the connection and of the vehicle *)

LEMMA NothingUnderWay ==
    \A x, y : ~Has(<<>>, x) /\ Once(<<>>, x) /\ Followed(<<>>, x, y)
BY DEF Has, Once, Followed

LEMMA ForkliftInvDrop ==
    ASSUME ForkliftInv, NEW s \in Link, Drop(s)
    PROVE  OutInv' /\ OrderInv' /\ CalmInv' /\ CleanInv'
<1>1. /\ UNCHANGED <<driverVars, cancel, unRecv, unFinish, job, begun, carried>>
      /\ wire' = <<>> /\ back' = <<>> /\ spoilt \subseteq spoilt'
      /\ spoilt' # {} \/ ~\E i \in 1..Len(back) : back[i].what = "finish"
  BY DEF Drop, driverVars, sentVars, carVars
<1>2. /\ Unwritten' = Unwritten /\ InFlight' = InFlight /\ Registered' = Registered
      /\ WasWritten' = WasWritten
      /\ driver' = driver /\ order' = order /\ out' = out
  BY <1>1, SameOrder
<1>3. \A x, y : ~Has(wire', x) /\ ~Has(back', x) /\ Once(back', x) /\ Followed(back', x, y)
  BY <1>1, NothingUnderWay
<1>4. OutInv' /\ OrderInv'
  BY <1>1, <1>2, <1>3 DEF ForkliftInv, OutInv, OrderInv
<1>5. (Calm' => Calm) /\ (spoilt' = {} => spoilt = {})
  BY <1>1 DEF Calm
<1>6. CalmInv'
  BY <1>1, <1>2, <1>3, <1>5 DEF ForkliftInv, CalmInv
<1>7. spoilt' = {} => \A c : ~Has(back, Done(c))
  BY <1>1, AnswersAre DEF Has
<1>8. CleanInv'
  BY <1>1, <1>2, <1>5, <1>7 DEF ForkliftInv, CleanInv
<1> QED
  BY <1>4, <1>6, <1>8

LEMMA ForkliftInvReadAnswer ==
    ASSUME ForkliftInv, NEW s \in Link, ReadAnswer(s)
    PROVE  OutInv' /\ OrderInv' /\ CalmInv' /\ CleanInv'
<1>1. back # <<>> /\ back' = Tail(back) /\ back \in Seq(Answers)
  BY DEF ReadAnswer, ForkliftInv, ForkliftTypeOK, WireOK
<1>2. PICK a \in Answers : a = Head(back)
  BY <1>1, TailKeeps
<1>3. /\ UNCHANGED <<driverVars, cancel, wire, job, begun, carried>>
      /\ unFinish' = unFinish \ (IF a.what = "finish" THEN {a.of.type} ELSE {})
      /\ unRecv' = unRecv \ (IF a.what = "ack" \/ a.of.type = "halt" THEN {a.of} ELSE {})
      /\ spoilt' = IF a.what = "finish" /\ driver = "register" /\ out.type = a.of.type
                   THEN spoilt \cup {"report early"} ELSE spoilt
  BY <1>2 DEF ReadAnswer, driverVars, carVars
<1>4. /\ Unwritten' = Unwritten /\ InFlight' = InFlight /\ Registered' = Registered
      /\ WasWritten' = WasWritten
      /\ driver' = driver /\ order' = order /\ out' = out
  BY <1>3, SameOrder
<1>5. /\ Has(back, a) /\ \A x : Has(back', x) => Has(back, x)
      /\ \A x : Has(back, x) => x = a \/ Has(back', x)
      /\ \A x : Once(back, x) => Once(back', x) /\ ~(x = a /\ Has(back', x))
      /\ \A x, y : Followed(back, x, y) =>
            Followed(back', x, y) /\ (x = a => Has(back', y))
  BY <1>1, <1>2, TailKeeps
<1>6. PICK c \in Commands : c = a.of /\ (a = Ack(c) \/ a = Done(c))
  BY AnswersAre
<1>7. /\ a = Ack(c) => unFinish' = unFinish /\ unRecv' = unRecv \ {c} /\ spoilt' = spoilt
      /\ a = Done(c) => /\ unFinish' = unFinish \ {c.type}
                        /\ unRecv' = unRecv \/ (unRecv' = unRecv \ {c} /\ c.type = "halt")
                        /\ spoilt \subseteq spoilt'
                        /\ driver = "register" /\ out.type = c.type => spoilt' # {}
  <2>1. a = Ack(c) => a.what = "ack" /\ a.what # "finish"
    BY AnswersAre
  <2>2. a = Done(c) => a.what = "finish" /\ a.what # "ack"
    BY AnswersAre
  <2> QED
    BY <1>3, <1>6, <2>1, <2>2
<1>8. OutInv'
  BY <1>3, <1>4, <1>6, <1>7 DEF ForkliftInv, OutInv
<1>9. OrderInv'
  BY <1>3, <1>4, <1>5, <1>6, <1>7 DEF ForkliftInv, OrderInv
<1>10. order \in carried \/ Registered => order \in Order
  BY DEF ForkliftInv, ForkliftTypeOK, CarOK, OutInv, Registered
\* An order whose report was just read has left none behind.
<1>11. ASSUME Calm, NEW k \in Order, a = Done(c), c.type = Type(k), k = order
       PROVE  order \in carried /\ ~Has(back', Done(Command(order)))
  <2>1. PICK j \in Order : c = Command(j)
    <3>1. c.type # "halt"
      BY <1>11, CommandsAre
    <3> QED
      BY <3>1, CommandsAre
  <2>2. j = order
    BY <1>5, <1>11, <2>1 DEF ForkliftInv, CalmInv
  <2> QED
    BY <1>5, <1>11, <2>1, <2>2 DEF ForkliftInv, OrderInv
<1>12. CalmInv'
  <2> SUFFICES ASSUME Calm
               PROVE  /\ \A k \in Order : k < order \/ (k = order /\ driver = "over") => k \in carried
                      /\ job \in {0, order}
                      /\ \A k \in Order : Has(back', Done(Command(k))) =>
                            k = order /\ (InFlight \/ Type(order) \in unFinish')
                      /\ Registered /\ order \notin carried => Type(order) \in unFinish'
    <3>1. Calm' => Calm
      BY <1>6, <1>7 DEF Calm
    <3> QED
      BY <1>3, <1>4, <3>1 DEF CalmInv
  <2>1. ASSUME NEW k \in Order, Has(back', Done(Command(k)))
        PROVE  k = order /\ (InFlight \/ Type(order) \in unFinish')
    <3>1. k = order /\ (InFlight \/ Type(order) \in unFinish)
      BY <1>5, <2>1 DEF ForkliftInv, CalmInv
    <3> QED
      BY <1>6, <1>7, <1>11, <2>1, <3>1
  <2>2. Registered /\ order \notin carried => Type(order) \in unFinish'
    <3>1. Registered /\ order \notin carried => Type(order) \in unFinish
      BY DEF ForkliftInv, CalmInv
    <3> QED
      BY <1>6, <1>7, <1>10, <1>11, <3>1
  <2> QED
    BY <2>1, <2>2 DEF ForkliftInv, CalmInv
<1>13. CleanInv'
  <2> SUFFICES ASSUME spoilt' = {}
               PROVE  /\ \A t \in unFinish' \ {"halt"} : Registered /\ t = Type(order)
                      /\ Registered /\ order \notin begun => Command(order) \in unRecv'
                      /\ order \in begun => order \in carried \/ job = order
                      /\ order \in carried /\ (InFlight \/ Type(order) \in unFinish') =>
                            Has(back', Done(Command(order)))
                      /\ "halt" \in unFinish' =>
                            \E w \in {RESUME, PAUSE, CLEAR} :
                                Halt(w) \in unRecv' \/ Has(back', Done(Halt(w)))
    BY <1>3, <1>4 DEF CleanInv
  <2>1. spoilt = {}
    BY <1>6, <1>7
  <2>2. \A t \in unFinish' \ {"halt"} : Registered /\ t = Type(order)
    BY <1>6, <1>7, <2>1 DEF ForkliftInv, CleanInv
  <2>3. ASSUME Registered, order \notin begun PROVE Command(order) \in unRecv'
    <3>1. Command(order) \in unRecv /\ Command(order).type # "halt"
      BY <1>10, <2>1, <2>3, CommandsAre DEF ForkliftInv, CleanInv
    <3>2. ~Has(back, Ack(Command(order)))
      BY <1>10, <2>3 DEF ForkliftInv, OrderInv
    <3> QED
      BY <1>5, <1>6, <1>7, <3>1, <3>2
  <2>4. ASSUME order \in carried, InFlight \/ Type(order) \in unFinish'
        PROVE  Has(back', Done(Command(order)))
    <3>1. Type(order) \in unFinish' => Type(order) \in unFinish
      BY <1>6, <1>7
    <3>2. Has(back, Done(Command(order)))
      BY <2>1, <2>4, <3>1 DEF ForkliftInv, CleanInv
    <3>3. ASSUME a = Done(Command(order)) PROVE FALSE
      <4>1. c = Command(order) /\ a = Done(c) /\ c.type = Type(order) /\ order \in Order
        BY <1>6, <1>10, <2>4, <3>3, AnswersAre, CommandsAre
      <4>2. InFlight
        BY <1>7, <2>4, <4>1
      <4>3. driver = "register" /\ out = Command(order)
        BY <4>2 DEF InFlight, ForkliftInv, OutInv
      <4> QED
        BY <1>7, <4>1, <4>3
    <3> QED
      BY <1>5, <3>2, <3>3
  <2>5. ASSUME "halt" \in unFinish'
        PROVE  \E w \in {RESUME, PAUSE, CLEAR} :
                   Halt(w) \in unRecv' \/ Has(back', Done(Halt(w)))
    <3>1. "halt" \in unFinish /\ ~(a = Done(c) /\ c.type = "halt")
      BY <1>6, <1>7, <2>5
    <3>2. PICK w \in {RESUME, PAUSE, CLEAR} : Halt(w) \in unRecv \/ Has(back, Done(Halt(w)))
      BY <2>1, <3>1 DEF ForkliftInv, CleanInv
    <3>3. Halt(w).type = "halt" /\ Halt(w) \in Commands
      BY CommandsAre
    <3>4. Followed(back, Ack(Halt(w)), Done(Halt(w)))
      BY DEF ForkliftInv, OrderInv
    <3>5. CASE Has(back, Done(Halt(w)))
      <4>1. a # Done(Halt(w))
        BY <1>6, <3>1, <3>3, AnswersAre
      <4> QED
        BY <1>5, <3>5, <4>1
    <3>6. CASE Halt(w) \in unRecv /\ Halt(w) \notin unRecv'
      <4>1. a = Ack(Halt(w))
        BY <1>6, <1>7, <3>1, <3>3, <3>6
      <4> QED
        BY <1>5, <3>4, <4>1
    <3> QED
      BY <3>2, <3>5, <3>6
  <2> QED
    BY <2>1, <2>2, <2>3, <2>4, <2>5 DEF ForkliftInv, CleanInv
<1> QED
  BY <1>8, <1>9, <1>12, <1>13

\* The vehicle reads a command and answers.
LEMMA TakesIt ==
    ASSUME ForkliftTypeOK, Take
    PROVE  /\ UNCHANGED <<driverVars, cancel, unRecv, unFinish, carried>>
           /\ \A x : Has(wire', x) => Has(wire, x)
           /\ \/ \E w \in {RESUME, PAUSE, CLEAR} :
                    /\ back' = Append(Append(back, Ack(Halt(w))), Done(Halt(w)))
                    /\ begun' = begun
                    /\ \/ job' = job /\ spoilt' = spoilt
                       \/ job' = 0 /\ job # 0 /\ spoilt' = spoilt \cup {"cleared"}
              \/ \E k \in Order :
                    /\ Has(wire, Command(k)) /\ back' = Append(back, Ack(Command(k)))
                    /\ begun' = begun \cup {k} /\ spoilt' = spoilt
                    /\ job' = IF k \in begun THEN job ELSE k
<1>1. wire # <<>> /\ wire' = Tail(wire) /\ wire \in Seq(Commands) /\ back \in Seq(Answers)
  BY DEF Take, ForkliftTypeOK, WireOK
<1>2. PICK c \in Commands : c = Head(wire) /\ Has(wire, c)
  BY <1>1, TailKeeps
<1>3. \A x : Has(wire', x) => Has(wire, x)
  BY <1>1, TailKeeps
<1>4. UNCHANGED <<driverVars, cancel, unRecv, unFinish, carried>>
  BY DEF Take, driverVars, sentVars
<1>5. /\ back' = back \o (IF c.type = "halt" THEN <<Ack(c), Done(c)>> ELSE <<Ack(c)>>)
      /\ job' = IF c = Halt(CLEAR) THEN 0
                ELSE IF IsOrder(c) /\ c.arg \notin begun THEN c.arg ELSE job
      /\ begun' = IF IsOrder(c) THEN begun \cup {c.arg} ELSE begun
      /\ spoilt' = IF c = Halt(CLEAR) /\ job # 0 THEN spoilt \cup {"cleared"} ELSE spoilt
  BY <1>2 DEF Take
<1>6. Ack(c) \in Answers /\ Done(c) \in Answers
  BY AnswersAre
<1>7. CASE IsOrder(c)
  <2>1. PICK k \in Order : c = Command(k) /\ c.arg = k /\ c.type # "halt" /\ c # Halt(CLEAR)
    BY <1>7, CommandsAre
  <2>2. back' = Append(back, Ack(c))
    BY <1>1, <1>5, <1>6, <2>1
  <2> QED
    BY <1>2, <1>3, <1>4, <1>5, <1>7, <2>1, <2>2
<1>8. CASE ~IsOrder(c)
  <2>1. PICK w \in {RESUME, PAUSE, CLEAR} : c = Halt(w) /\ c.type = "halt"
    BY <1>8, CommandsAre
  <2>2. back \o <<Ack(c), Done(c)>> = Append(Append(back, Ack(c)), Done(c))
    BY <1>1, <1>6
  <2>3. back' = Append(Append(back, Ack(Halt(w))), Done(Halt(w)))
    BY <1>5, <2>1, <2>2
  <2>4. \/ job' = job /\ spoilt' = spoilt
        \/ job' = 0 /\ job # 0 /\ spoilt' = spoilt \cup {"cleared"}
    <3>1. ~(IsOrder(c) /\ c.arg \notin begun)
      BY <1>8
    <3> QED
      BY <1>5, <3>1
  <2> QED
    BY <1>3, <1>4, <1>5, <1>8, <2>3, <2>4
<1> QED
  BY <1>7, <1>8

LEMMA ForkliftInvTake == ForkliftInv /\ Take => OutInv' /\ OrderInv' /\ CalmInv' /\ CleanInv'
<1> SUFFICES ASSUME ForkliftInv, Take PROVE OutInv' /\ OrderInv' /\ CalmInv' /\ CleanInv'
  OBVIOUS
<1>1. /\ UNCHANGED <<driverVars, cancel, unRecv, unFinish, carried>>
      /\ \A x : Has(wire', x) => Has(wire, x)
  BY TakesIt DEF ForkliftInv
<1>2. /\ Unwritten' = Unwritten /\ InFlight' = InFlight /\ Registered' = Registered
      /\ WasWritten' = WasWritten
      /\ driver' = driver /\ order' = order /\ out' = out
  BY <1>1, SameOrder
<1>3. back \in Seq(Answers) /\ \A c \in Commands : Ack(c) \in Answers /\ Done(c) \in Answers
  BY AnswersAre DEF ForkliftInv, ForkliftTypeOK, WireOK
<1>4. CASE \E w \in {RESUME, PAUSE, CLEAR} :
               /\ back' = Append(Append(back, Ack(Halt(w))), Done(Halt(w)))
               /\ begun' = begun
               /\ \/ job' = job /\ spoilt' = spoilt
                  \/ job' = 0 /\ job # 0 /\ spoilt' = spoilt \cup {"cleared"}
  <2>1. PICK w \in {RESUME, PAUSE, CLEAR} :
               /\ back' = Append(Append(back, Ack(Halt(w))), Done(Halt(w)))
               /\ begun' = begun
               /\ \/ job' = job /\ spoilt' = spoilt
                  \/ job' = 0 /\ job # 0 /\ spoilt' = spoilt \cup {"cleared"}
    BY <1>4
  <2> DEFINE A == Ack(Halt(w))
             B == Done(Halt(w))
             more == Append(back, A)
  <2>2. A \in Answers /\ B \in Answers
    BY <1>3, CommandsAre
  <2> HIDE DEF A, B
  <2>3. more \in Seq(Answers) /\ back' = Append(more, B)
    BY <1>3, <2>1, <2>2 DEF A, B
  <2>4. \A x : Has(more, x) <=> Has(back, x) \/ x = A
    BY <1>3, <2>2, HasAppended
  <2>5. \A x : A # x /\ Once(back, x) => Once(more, x)
    BY <1>3, <2>2, OnceAppended
  <2>6. /\ \A x, y : A # x /\ Followed(back, x, y) => Followed(more, x, y)
        /\ \A x, y : B = y /\ B # x /\ Followed(back, x, y) => Followed(Append(more, B), x, y)
    BY <1>3, <2>2, FollowedAppended
  <2> HIDE DEF more
  <2>7. \A x : Has(back', x) <=> Has(back, x) \/ x = A \/ x = B
    BY <2>2, <2>3, <2>4, HasAppended
  <2>8. \A x : A # x /\ B # x /\ Once(back, x) => Once(back', x)
    BY <2>2, <2>3, <2>5, OnceAppended
  <2>9. \A x, y : A # x /\ B # x /\ Followed(back, x, y) => Followed(back', x, y)
    BY <2>2, <2>3, <2>6, FollowedAppended
  <2>10. \A x, y : B = y /\ B # x /\ Followed(back, x, y) => Followed(back', x, y)
    BY <2>3, <2>6
  <2>11. \A k \in Order : /\ A # Ack(Command(k)) /\ A # Done(Command(k))
                          /\ B # Ack(Command(k)) /\ B # Done(Command(k))
    BY CommandsDiffer, AnswersAre DEF A, B
  <2>12. \A k \in Order : /\ Has(back', Ack(Command(k))) <=> Has(back, Ack(Command(k)))
                          /\ Has(back', Done(Command(k))) <=> Has(back, Done(Command(k)))
                          /\ Once(back, Done(Command(k))) => Once(back', Done(Command(k)))
    BY <2>7, <2>8, <2>11
  <2>13. ASSUME NEW v \in {RESUME, PAUSE, CLEAR}
         PROVE  Followed(back', Ack(Halt(v)), Done(Halt(v)))
    <3>1. Followed(back, Ack(Halt(v)), Done(Halt(v)))
      BY DEF ForkliftInv, OrderInv
    <3>2. B # Ack(Halt(v))
      BY AnswersAre DEF B
    <3>3. A = Ack(Halt(v)) => B = Done(Halt(v))
      BY AnswersAre DEF A, B
    <3> QED
      BY <2>9, <2>10, <3>1, <3>2, <3>3
  <2>14. OutInv'
    BY <1>1, <1>2, <2>1 DEF ForkliftInv, OutInv
  <2>15. OrderInv'
    BY <1>1, <1>2, <2>1, <2>12, <2>13 DEF ForkliftInv, OrderInv
  <2>16. Calm' => Calm
    BY <2>1 DEF Calm
  <2>17. CalmInv'
    BY <1>1, <1>2, <2>1, <2>12, <2>16 DEF ForkliftInv, CalmInv
  <2>18. order \in carried => order \in Order
    BY DEF ForkliftInv, ForkliftTypeOK, CarOK
  <2>19. spoilt' = {} => spoilt = {} /\ job' = job
    BY <2>1
  <2>20. \A x : Has(back, x) => Has(back', x)
    BY <2>7
  <2>21. CleanInv'
    BY <1>1, <1>2, <2>1, <2>12, <2>18, <2>19, <2>20 DEF ForkliftInv, CleanInv
  <2> QED
    BY <2>14, <2>15, <2>17, <2>21
<1>5. CASE \E k \in Order :
               /\ Has(wire, Command(k)) /\ back' = Append(back, Ack(Command(k)))
               /\ begun' = begun \cup {k} /\ spoilt' = spoilt
               /\ job' = IF k \in begun THEN job ELSE k
  <2>1. PICK k \in Order :
               /\ Has(wire, Command(k)) /\ back' = Append(back, Ack(Command(k)))
               /\ begun' = begun \cup {k} /\ spoilt' = spoilt
               /\ job' = IF k \in begun THEN job ELSE k
    BY <1>5
  <2>2. k \in WasWritten
    BY <2>1 DEF ForkliftInv, OrderInv
  <2> DEFINE A == Ack(Command(k))
  <2>3. A \in Answers /\ back' = Append(back, A)
    BY <1>3, <2>1, CommandsAre
  <2>4. /\ \A j \in Order : A # Done(Command(j)) /\ (A = Ack(Command(j)) => j = k)
        /\ \A w \in {RESUME, PAUSE, CLEAR} : A # Ack(Halt(w))
    BY CommandsDiffer, AnswersAre
  <2> HIDE DEF A
  <2>5. \A x : Has(back', x) <=> Has(back, x) \/ x = A
    BY <1>3, <2>3, HasAppended
  <2>6. \A x : A # x /\ Once(back, x) => Once(back', x)
    BY <1>3, <2>3, OnceAppended
  <2>7. \A x, y : A # x /\ Followed(back, x, y) => Followed(back', x, y)
    BY <1>3, <2>3, FollowedAppended
  <2>8. \A j \in Order : /\ Has(back', Ack(Command(j))) => Has(back, Ack(Command(j))) \/ j = k
                         /\ Has(back', Done(Command(j))) <=> Has(back, Done(Command(j)))
                         /\ Once(back, Done(Command(j))) => Once(back', Done(Command(j)))
    BY <2>4, <2>5, <2>6
  <2>9. OutInv'
    BY <1>1, <1>2, <2>1 DEF ForkliftInv, OutInv
  <2>10. k \notin begun => k \notin carried
    BY DEF ForkliftInv, OrderInv
  <2>11. \A w \in {RESUME, PAUSE, CLEAR} : Followed(back', Ack(Halt(w)), Done(Halt(w)))
    BY <2>4, <2>7 DEF ForkliftInv, OrderInv
  <2>12. begun' \subseteq WasWritten /\ carried \subseteq begun'
         /\ (job' # 0 => job' \in begun' \ carried)
    BY <2>1, <2>2, <2>10 DEF ForkliftInv, OrderInv
  <2>13. OrderInv'
    BY <1>1, <1>2, <2>1, <2>8, <2>11, <2>12 DEF ForkliftInv, OrderInv
  <2>14. Calm' = Calm
    BY <2>1 DEF Calm
  <2>15. Calm /\ k \notin begun => k = order
    <3>1. Calm => \A j \in Order : j < order => j \in carried
      BY DEF ForkliftInv, CalmInv
    <3>2. k < order \/ k = order
      BY <2>2 DEF WasWritten
    <3> QED
      BY <2>10, <3>1, <3>2
  <2>16. Calm => job' \in {0, order}
    BY <2>1, <2>15 DEF ForkliftInv, CalmInv
  <2>17. CalmInv'
    BY <1>1, <1>2, <2>8, <2>14, <2>16 DEF ForkliftInv, CalmInv
  <2>18. spoilt = {} => Calm
    BY DEF Calm
  <2>19. spoilt = {} => (order \in begun' => order \in carried \/ job' = order)
    BY <2>1, <2>15, <2>18 DEF ForkliftInv, CleanInv
  <2>20. \A x : Has(back, x) => Has(back', x)
    BY <2>5
  <2>21. CleanInv'
    BY <1>1, <1>2, <2>1, <2>19, <2>20 DEF ForkliftInv, CleanInv
  <2> QED
    BY <2>9, <2>13, <2>17, <2>21
<1> QED
  BY <1>4, <1>5, TakesIt DEF ForkliftInv

\* An order that the vehicle has begun was written, and until it is over its
\* report is waited for.
LEMMA AwaitsReport ==
    ASSUME ForkliftInv, Calm, job # 0
    PROVE  job = order /\ (InFlight \/ Type(order) \in unFinish)
<1>1. job = order /\ job \in begun /\ job \notin carried /\ job \in WasWritten
  BY DEF ForkliftInv, CalmInv, OrderInv
<1>2. order \in Order /\ ~Unwritten
  BY <1>1, LegsAre DEF WasWritten, Order
<1>3. driver # "idle" /\ driver # "over"
  <2>1. driver # "idle"
    BY <1>2, LegsAre DEF ForkliftInv, OutInv, Order
  <2>2. driver # "over"
    BY <1>1, <1>2 DEF ForkliftInv, CalmInv
  <2> QED
    BY <2>1, <2>2
<1>4. Registered \/ InFlight
  <2>1. driver \in {"block", "send", "register", "wait", "dead"}
    BY <1>3 DEF ForkliftInv, ForkliftTypeOK, DriverOK
  <2>2. driver = "block" => out # Halt(RESUME)
    BY <1>2, CommandsDiffer DEF ForkliftInv, OutInv
  <2> QED
    BY <1>2, <2>1, <2>2 DEF Unwritten, Registered, InFlight
<1>5. Registered => Type(order) \in unFinish
  BY <1>1 DEF ForkliftInv, CalmInv
<1> QED
  BY <1>1, <1>4, <1>5

LEMMA ForkliftInvComplete == ForkliftInv /\ Complete => OutInv' /\ OrderInv' /\ CalmInv' /\ CleanInv'
<1> SUFFICES ASSUME ForkliftInv, Complete PROVE OutInv' /\ OrderInv' /\ CalmInv' /\ CleanInv'
  OBVIOUS
<1>1. /\ UNCHANGED <<driverVars, cancel, unRecv, unFinish, wire, begun>>
      /\ job # 0 /\ job' = 0 /\ carried' = carried \cup {job}
      /\ \/ back' = Append(back, Done(Command(job))) /\ spoilt' = spoilt
         \/ back' = back /\ spoilt' = spoilt \cup {"report lost"}
  BY DEF Complete, driverVars, sentVars
<1>2. /\ Unwritten' = Unwritten /\ InFlight' = InFlight /\ Registered' = Registered
      /\ WasWritten' = WasWritten
      /\ driver' = driver /\ order' = order /\ out' = out
  BY <1>1, SameOrder
<1>3. PICK k \in Order : k = job
  BY <1>1, JobIs DEF ForkliftInv, ForkliftTypeOK
<1>4. k \in begun /\ k \notin carried
  BY <1>1, <1>3 DEF ForkliftInv, OrderInv
<1>5. back \in Seq(Answers) /\ Done(Command(k)) \in Answers /\ ~Has(back, Done(Command(k)))
  BY <1>4, CommandsAre, AnswersAre DEF ForkliftInv, ForkliftTypeOK, WireOK, OrderInv
<1> DEFINE B == Done(Command(k))
<1>6. /\ \A j \in Order : B # Ack(Command(j)) /\ (B = Done(Command(j)) => j = k)
      /\ \A w \in {RESUME, PAUSE, CLEAR} : B # Ack(Halt(w))
  BY CommandsDiffer, AnswersAre
<1>7. B \in Answers /\ ~Has(back, B)
      /\ \/ back' = Append(back, B) /\ spoilt' = spoilt
         \/ back' = back /\ spoilt' # {}
  BY <1>1, <1>3, <1>5
<1>a. B = Done(Command(k))
  OBVIOUS
<1> HIDE DEF B
<1>8. /\ \A x : Has(back', x) => Has(back, x) \/ x = B
      /\ \A x : Has(back, x) => Has(back', x)
      /\ spoilt' = {} => Has(back', B)
  <2>1. \A x : Has(Append(back, B), x) <=> Has(back, x) \/ x = B
    BY <1>5, <1>7, HasAppended
  <2>2. CASE back' = Append(back, B)
    BY <2>1, <2>2
  <2>3. CASE back' = back /\ spoilt' # {}
    BY <2>3
  <2> QED
    BY <1>7, <2>2, <2>3
<1>9. \A x : Once(back, x) => Once(back', x)
  BY <1>5, <1>7, OnceAppended
<1>10. \A x, y : B # x /\ Followed(back, x, y) => Followed(back', x, y)
  BY <1>5, <1>7, FollowedAppended
<1>11. \A j \in Order : /\ Has(back', Ack(Command(j))) => Has(back, Ack(Command(j)))
                        /\ Has(back', Done(Command(j))) => Has(back, Done(Command(j))) \/ j = k
  BY <1>6, <1>8
<1>12. spoilt \subseteq spoilt' /\ (Calm' => Calm)
  BY <1>1 DEF Calm
<1>13. OutInv'
  BY <1>1, <1>2, <1>12 DEF ForkliftInv, OutInv
<1>14. \A w \in {RESUME, PAUSE, CLEAR} : Followed(back', Ack(Halt(w)), Done(Halt(w)))
  BY <1>6, <1>10 DEF ForkliftInv, OrderInv
<1>15. OrderInv'
  BY <1>1, <1>2, <1>3, <1>4, <1>9, <1>11, <1>14 DEF ForkliftInv, OrderInv
<1>16. Calm => k = order /\ (InFlight \/ Type(order) \in unFinish)
  BY <1>1, <1>3, AwaitsReport
<1>17. CalmInv'
  BY <1>1, <1>2, <1>3, <1>11, <1>12, <1>16 DEF ForkliftInv, CalmInv
<1>18. spoilt' = {} => spoilt = {} /\ Calm
  BY <1>12 DEF Calm
<1>19. CleanInv'
  <2> SUFFICES ASSUME spoilt' = {}
               PROVE  /\ \A t \in unFinish \ {"halt"} : Registered /\ t = Type(order)
                      /\ Registered /\ order \notin begun => Command(order) \in unRecv
                      /\ order \in begun => order \in carried'
                      /\ order \in carried' => Has(back', Done(Command(order)))
                      /\ "halt" \in unFinish =>
                            \E w \in {RESUME, PAUSE, CLEAR} :
                                Halt(w) \in unRecv \/ Has(back', Done(Halt(w)))
    BY <1>1, <1>2 DEF CleanInv
  <2>1. k = order /\ Has(back', Done(Command(order)))
    BY <1>8, <1>16, <1>18, <1>a
  <2> QED
    BY <1>1, <1>3, <1>8, <1>18, <2>1 DEF ForkliftInv, CleanInv
<1> QED
  BY <1>13, <1>15, <1>17, <1>19

-----------------------------------------------------------------------------
(* The invariant, always *)

LEMMA ForkliftInvInit == Init => ForkliftInv
<1> SUFFICES ASSUME Init PROVE ForkliftInv
  OBVIOUS
<1>1. ForkliftTypeOK
  BY ForkliftTypesInit
<1>2. OutInv
  BY DEF Init, OutInv
<1>3. wire = <<>> /\ back = <<>> /\ \A x, y : ~Has(<<>>, x) /\ Once(<<>>, x) /\ Followed(<<>>, x, y)
  BY NothingUnderWay DEF Init
<1>4. OrderInv
  BY <1>3 DEF Init, OrderInv
<1>5. order = 0 /\ driver = "idle" /\ unFinish = {} /\ job = 0 /\ begun = {} /\ carried = {}
  BY DEF Init
<1>6. CalmInv
  <2>1. \A k \in Order : ~(k < 0) /\ k # 0
    BY LegsAre DEF Order
  <2> QED
    BY <1>3, <1>5, <2>1 DEF CalmInv, Registered
<1>7. CleanInv
  BY <1>5 DEF CleanInv, Registered
<1> QED
  BY <1>1, <1>2, <1>4, <1>6, <1>7 DEF ForkliftInv

LEMMA ForkliftInvNext == ForkliftInv /\ [Next]_vars => ForkliftInv'
<1> SUFFICES ASSUME ForkliftInv, [Next]_vars PROVE ForkliftInv'
  OBVIOUS
<1>1. ForkliftTypeOK'
  BY ForkliftTypesNext DEF ForkliftInv
<1> SUFFICES OutInv' /\ OrderInv' /\ CalmInv' /\ CleanInv'
  BY <1>1 DEF ForkliftInv
<1>2. CASE \E s \in Link : Session(s)
  <2>1. PICK s \in Link : Session(s)
    BY <1>2
  <2>2. CASE ReadAnswer(s)
    BY <2>2, ForkliftInvReadAnswer
  <2>3. CASE ~ReadAnswer(s)
    BY <2>1, <2>3, SessionSends, ForkliftInvSends DEF ForkliftInv
  <2> QED
    BY <2>2, <2>3
<1>3. CASE \E s \in Link : Drop(s)
  BY <1>3, ForkliftInvDrop
<1>4. CASE \E c \in Commands : Resend(c)
  BY <1>4, ResendSends, ForkliftInvSends DEF ForkliftInv
<1>5. CASE GiveTask \/ Driver
  BY <1>5, ForkliftInvGiveTask, ForkliftInvTryStart, ForkliftInvSkip, ForkliftInvSend,
     ForkliftInvSendFails, ForkliftInvRegister, ForkliftInvAdvance, ForkliftInvResume,
     ForkliftInvGiveUp DEF Driver
<1>6. CASE AskCancel \/ Take \/ Complete
  BY <1>6, ForkliftInvAskCancel, ForkliftInvTake, ForkliftInvComplete
<1>7. CASE ClearTask
  BY <1>7, ClearTaskSends, ForkliftInvSends DEF ForkliftInv
<1>8. CASE Drive \/ Other \/ UNCHANGED vars
  <2>1. Sends
    BY <1>8 DEF Drive, Other, vars, Sends, sentVars, wireVars, carVars, OrdersDone
  <2> QED
    BY <2>1, ForkliftInvSends
<1> QED
  BY <1>2, <1>3, <1>4, <1>5, <1>6, <1>7, <1>8 DEF Next, Car

LEMMA ForkliftInvAlways == Spec => []ForkliftInv
<1>1. ForkliftInv /\ [Next]_vars => ForkliftInv'
  BY ForkliftInvNext
<1> QED
  BY ForkliftInvInit, <1>1, PTL DEF Spec

\* Every variable keeps to its type, whatever the path, the blocks on it and
\* the number of connections.
THEOREM ForkliftTypeCorrect == Spec => []ForkliftTypeOK
<1>1. ForkliftInv => ForkliftTypeOK
  BY DEF ForkliftInv
<1> QED
  BY <1>1, ForkliftInvAlways, PTL

LEMMA Awaited == ForkliftInv => NoVainWait
<1> SUFFICES ASSUME ForkliftInv, spoilt = {}, NEW t \in unFinish
             PROVE  Expected(t)
  BY DEF NoVainWait
<1>1. back \in Seq(Answers) /\ wire \in Seq(Commands)
  BY DEF ForkliftInv, ForkliftTypeOK, WireOK
\* A report on its way back is of this form.
<1>2. ASSUME NEW c \in Commands, c.type = t, Has(back, Done(c)) PROVE Expected(t)
  <2>1. PICK i \in 1..Len(back) : back[i] = Done(c)
    BY <1>2 DEF Has
  <2>2. back[i].of = c
    BY <2>1, AnswersAre
  <2> QED
    BY <1>2, <2>1, <2>2 DEF Expected
<1>3. CASE t = "halt"
  <2>1. PICK w \in {RESUME, PAUSE, CLEAR} : Halt(w) \in unRecv \/ Has(back, Done(Halt(w)))
    BY <1>3 DEF ForkliftInv, CleanInv
  <2>2. Halt(w) \in Commands /\ Halt(w).type = t
    BY <1>3, CommandsAre
  <2> QED
    BY <1>2, <2>1, <2>2 DEF Expected
<1>4. CASE t # "halt"
  <2>1. Registered /\ t = Type(order)
    BY <1>4 DEF ForkliftInv, CleanInv
  <2>2. order \in Order
    BY <2>1 DEF Registered, ForkliftInv, OutInv
  <2>3. Command(order) \in Commands /\ Command(order).type = t
    BY <2>1, <2>2, CommandsAre
  <2>4. CASE order \notin begun
    <3>1. Command(order) \in unRecv
      BY <2>1, <2>4 DEF ForkliftInv, CleanInv
    <3> QED
      BY <2>3, <3>1 DEF Expected
  <2>5. CASE job = order
    <3>1. job # 0
      BY <2>2, <2>5, LegsAre DEF Order
    <3> QED
      BY <2>3, <2>5, <3>1 DEF Expected
  <2>6. CASE order \in carried
    <3>1. Has(back, Done(Command(order)))
      BY <2>1, <2>6 DEF ForkliftInv, CleanInv
    <3> QED
      BY <1>2, <2>3, <3>1
  <2> QED
    BY <2>4, <2>5, <2>6 DEF ForkliftInv, CleanInv
<1> QED
  BY <1>3, <1>4

\* isFinish never waits for a report that cannot come any more, as long as none
\* was lost or read too early (dyforklift.cpp:867-878).
THEOREM NoVainWaitAlways == Spec => []NoVainWait
<1>1. ForkliftInv => NoVainWait
  BY Awaited
<1> QED
  BY <1>1, ForkliftInvAlways, PTL

-----------------------------------------------------------------------------
(* The thread keeps the promise of Orders *)

\* What stands for the variables of Orders.
Given == IF Unsent THEN order - 1 ELSE order
Passed == IF driver \in {"idle", "over"} THEN order ELSE order - 1
GaveUp == spoilt \cap {"given up", "cancelled"} # {}

LEMMA StutterMapped ==
    UNCHANGED <<Given, Passed, carried, GaveUp>> => UNCHANGED Contract!vars
BY DEF Contract!vars, Given, Passed, GaveUp

LEMMA GiveMapped ==
    /\ Given = Passed /\ Given < Fork /\ Given' = Given + 1
    /\ UNCHANGED <<Passed, carried, GaveUp>>
    => Contract!Next
BY DEF Contract!Next, Contract!Give, Given, Passed, GaveUp

LEMMA GoOnMapped ==
    /\ Passed < Given /\ (Given \in carried \/ GaveUp) /\ Passed' = Given
    /\ UNCHANGED <<Given, carried, GaveUp>>
    => Contract!Next
BY DEF Contract!Next, Contract!GoOn, Given, Passed, GaveUp

LEMMA CarryOutMapped ==
    ASSUME NEW k \in 1..Given, k \in 1..Fork, carried' = carried \cup {k},
           UNCHANGED <<Given, Passed, GaveUp>>
    PROVE  Contract!Next
BY DEF Contract!Next, Contract!CarryOut, Given, Passed, GaveUp

LEMMA GiveUpMapped ==
    ASSUME ForkliftInv', GaveUp', carried' = carried
    PROVE  Contract!Next
<1>1. Fork \in Nat /\ order' \in 0..Fork
  BY LegsAre DEF ForkliftInv, ForkliftTypeOK, DriverOK
<1>2. driver' # "idle" => order' \in 1..Fork
  BY DEF ForkliftInv, OutInv, Order
<1>a. driver' # "idle" => order' - 1 \in 0..Fork
  <2>1. \A n \in 1..Fork : n - 1 \in 0..Fork
    BY LegsAre
  <2> QED
    BY <1>2, <2>1
<1>b. Unsent' => driver' # "idle"
  BY DEF Unsent
<1>3. Given' \in 0..Fork
  <2>1. CASE Unsent'
    BY <1>a, <1>b, <2>1 DEF Given
  <2>2. CASE ~Unsent'
    BY <1>1, <2>2 DEF Given
  <2> QED
    BY <2>1, <2>2
<1>4. Passed' \in 0..Fork
  BY <1>1, <1>a DEF Passed
<1> QED
  BY <1>3, <1>4 DEF Contract!Next, Contract!GiveUp, Given, Passed, GaveUp

\* The orders the thread has given, and where it is with them.
LEMMA GivenIs ==
    ASSUME ForkliftInv
    PROVE  /\ Fork \in Nat /\ order \in Int
           /\ driver # "idle" => order \in 1..Fork
           /\ driver \in {"register", "wait"} => Given = order /\ Passed = order - 1
           /\ driver = "idle" => Given = 0 /\ Passed = 0
           /\ driver = "send" /\ out # Halt(RESUME) => Given = order - 1 /\ Passed = order - 1
<1>1. Fork \in Nat /\ order \in Int
  BY LegsAre DEF ForkliftInv, ForkliftTypeOK, DriverOK
<1>2. driver # "idle" => order \in 1..Fork
  BY DEF ForkliftInv, OutInv, Order
<1>3. driver = "idle" => order = 0
  BY DEF ForkliftInv, OutInv
<1> QED
  BY <1>1, <1>2, <1>3 DEF Given, Passed, Unsent

LEMMA ContractStep ==
    ASSUME ForkliftInv, [Next]_vars
    PROVE  Contract!Next \/ UNCHANGED Contract!vars
<1>1. ForkliftInv'
  BY ForkliftInvNext
<1>2. ASSUME UNCHANGED <<driverVars, carried, GaveUp>>
      PROVE  UNCHANGED Contract!vars
  <2>1. UNCHANGED <<Given, Passed>>
    BY <1>2 DEF driverVars, Given, Passed, Unsent
  <2> QED
    BY <1>2, <2>1, StutterMapped
<1>3. CASE Sends
  BY <1>2, <1>3 DEF Sends, OrdersDone, GaveUp
<1>4. CASE \E s \in Link : Session(s) \/ Drop(s)
  <2>1. PICK s \in Link : Session(s) \/ Drop(s)
    BY <1>4
  <2>2. CASE ReadAnswer(s) \/ Drop(s)
    <3>1. UNCHANGED <<driverVars, carried>>
      BY <2>2 DEF ReadAnswer, Drop, carVars
    <3>2. spoilt' \in {spoilt, spoilt \cup {"report early"}, spoilt \cup {"report lost"}}
      BY <2>2 DEF ReadAnswer, Drop
    <3>3. UNCHANGED GaveUp
      BY <3>2 DEF GaveUp
    <3> QED
      BY <1>2, <3>1, <3>3
  <2>3. CASE Session(s) /\ ~ReadAnswer(s)
    BY <1>3, <2>3, SessionSends DEF ForkliftInv
  <2> QED
    BY <2>1, <2>2, <2>3
<1>5. CASE (\E c \in Commands : Resend(c)) \/ ClearTask
  BY <1>3, <1>5, ResendSends, ClearTaskSends DEF ForkliftInv
<1>6. CASE Drive \/ Other \/ UNCHANGED vars
  <2>1. Sends
    BY <1>6 DEF Drive, Other, vars, Sends, sentVars, wireVars, carVars, OrdersDone
  <2> QED
    BY <1>3, <2>1
<1>7. CASE GiveTask
  <2>1. driver = "idle" /\ order = 0 /\ StartOrder(1) /\ UNCHANGED <<carried, spoilt>>
    BY <1>7 DEF GiveTask, carVars, ForkliftInv, OutInv
  <2>2. /\ order' = 1 /\ driver' \in {"send", "block"} /\ out' = Command(1) /\ out' # Halt(RESUME)
    <3>1. 1 \in 1..(Fork + 1) /\ ~(1 >= Fork)
      BY LegsAre
    <3> QED
      BY <2>1, <3>1, Started, CommandsDiffer
  <2>3. Given' = 0 /\ Passed' = 0
    BY <2>2 DEF Given, Passed, Unsent
  <2> QED
    BY <2>1, <2>3, GivenIs, StutterMapped DEF GaveUp
<1>8. CASE TryStart
  <2>1. /\ driver = "block" /\ driver' = "send" /\ UNCHANGED <<order, out, carried, spoilt>>
    BY <1>8 DEF TryStart, Goto, carVars
  <2>2. UNCHANGED <<Given, Passed>>
    BY <2>1 DEF Given, Passed, Unsent
  <2> QED
    BY <2>1, <2>2, StutterMapped DEF GaveUp
\* The order is on its way, or the write of it has thrown.
<1>9. CASE Send \/ (SendFails /\ driver' = "dead")
  <2>1. /\ driver = "send" /\ driver' \in {"register", "dead"}
        /\ UNCHANGED <<order, out, carried, spoilt>>
    BY <1>9 DEF Send, SendFails, Goto, carVars
  <2>2. ~Unsent' /\ Given' = order /\ Passed' = order - 1 /\ Passed = order - 1
    BY <2>1 DEF Unsent, Given, Passed
  <2>3. CASE out = Halt(RESUME)
    <3>1. Given = order
      BY <2>3 DEF Given, Unsent
    <3> QED
      BY <2>1, <2>2, <3>1, StutterMapped DEF GaveUp
  <2>4. CASE out # Halt(RESUME)
    <3>1. Given = order - 1 /\ order \in 1..Fork /\ Fork \in Nat
      BY <2>1, <2>4, GivenIs
    <3>2. Given < Fork /\ Given' = Given + 1 /\ Given = Passed
      BY <2>2, <3>1
    <3> QED
      BY <2>1, <2>2, <3>2, GiveMapped DEF GaveUp
  <2> QED
    BY <2>3, <2>4
<1>10. CASE Register \/ Resume
  <2>1. /\ UNCHANGED <<order, carried>>
        /\ \/ driver = "register" /\ driver' = "wait" /\ spoilt' = spoilt
           \/ /\ driver = "wait" /\ driver' = "send" /\ out' = Halt(RESUME)
              /\ spoilt' \in {spoilt, spoilt \cup {"overtaken"}}
    BY <1>10 DEF Register, Resume, PauseSeen, Goto, carVars
  <2>2. UNCHANGED <<Given, Passed>>
    BY <2>1 DEF Given, Passed, Unsent
  <2>3. UNCHANGED GaveUp
    BY <2>1 DEF GaveUp
  <2> QED
    BY <2>1, <2>2, <2>3, StutterMapped
\* It goes on, and isFinish says that the order has been carried out.
<1>11. CASE Advance
  <2>1. driver = "wait" /\ IsFinish /\ StartOrder(order + 1) /\ UNCHANGED <<carried, spoilt>>
    BY <1>11 DEF Advance, carVars
  <2>2. order \in carried \/ GaveUp
    BY <2>1, FinishIs DEF Calm, GaveUp
  <2>3. Given = order /\ Passed = order - 1 /\ order \in 1..Fork /\ order + 1 \in 1..(Fork + 1)
    BY <2>1, GivenIs
  <2>4. \/ driver' = "over" /\ order' = order
        \/ /\ driver' \in {"send", "block"} /\ order' = order + 1
           /\ out' = Command(order + 1) /\ order + 1 \in Order
    BY <2>1, <2>3, Started
  <2>5. Given' = order /\ Passed' = order
    <3>1. CASE driver' = "over" /\ order' = order
      BY <3>1 DEF Given, Passed, Unsent
    <3>2. CASE /\ driver' \in {"send", "block"} /\ order' = order + 1
               /\ out' = Command(order + 1) /\ order + 1 \in Order
      <4>1. out' # Halt(RESUME)
        BY <3>2, CommandsDiffer
      <4> QED
        BY <2>3, <3>2, <4>1 DEF Given, Passed, Unsent
    <3> QED
      BY <2>4, <3>1, <3>2
  <2>6. Passed < Given /\ Passed' = Given /\ Given' = Given /\ (Given \in carried \/ GaveUp)
    BY <2>2, <2>3, <2>5
  <2> QED
    BY <2>1, <2>6, GoOnMapped DEF GaveUp
<1>12. CASE Skip \/ (SendFails /\ driver' # "dead")
  <2>1. cancel # "no" /\ UNCHANGED <<carried, spoilt>>
    BY <1>12 DEF Skip, SendFails, Goto, carVars
  <2>2. GaveUp'
    BY <2>1 DEF ForkliftInv, OutInv, GaveUp
  <2> QED
    BY <1>1, <2>1, <2>2, GiveUpMapped
<1>13. CASE GiveUp \/ AskCancel
  <2>1. carried' = carried /\ GaveUp'
    BY <1>13 DEF GiveUp, AskCancel, carVars, GaveUp
  <2> QED
    BY <1>1, <2>1, GiveUpMapped
<1>14. CASE Take
  <2>1. UNCHANGED <<driverVars, carried>> /\ spoilt' \in {spoilt, spoilt \cup {"cleared"}}
    BY <1>14 DEF Take
  <2>2. UNCHANGED GaveUp
    BY <2>1 DEF GaveUp
  <2> QED
    BY <1>2, <2>1, <2>2
\* The vehicle carries out only what was given.
<1>15. CASE Complete
  <2>1. /\ job # 0 /\ carried' = carried \cup {job} /\ UNCHANGED driverVars
        /\ spoilt' \in {spoilt, spoilt \cup {"report lost"}}
    BY <1>15 DEF Complete
  <2>2. job \in WasWritten
    BY <2>1 DEF ForkliftInv, OrderInv
  <2>3. job \in 1..Given /\ job \in 1..Fork
    <3>1. job \in 1..Fork /\ (job < order \/ (job = order /\ ~Unsent)) /\ order \in Int
      BY <2>2, GivenIs DEF WasWritten, Order, Unwritten, Unsent
    <3> QED
      BY <3>1, LegsAre DEF Given
  <2>4. UNCHANGED <<Given, Passed>>
    BY <2>1 DEF driverVars, Given, Passed, Unsent
  <2>5. UNCHANGED GaveUp
    BY <2>1 DEF GaveUp
  <2> QED
    BY <2>1, <2>3, <2>4, <2>5, CarryOutMapped
<1> QED
  BY <1>4, <1>5, <1>6, <1>7, <1>8, <1>9, <1>10, <1>11, <1>12, <1>13, <1>14, <1>15
     DEF Next, Driver, Car

\* Every run of the thread and the vehicle is a run of Orders: the thread goes
\* on to the next order only when this one has been carried out, unless an order
\* was given up (agv.h:35, dyforklift.cpp goStation and isFinish).
THEOREM PromiseKept == Spec => Promise
<1>1. Init => Contract!Init
  BY DEF Init, Contract!Init, Unsent
<1>2. ForkliftInv /\ [Next]_vars => [Contract!Next]_(Contract!vars)
  BY ContractStep
<1> QED
  BY <1>1, <1>2, ForkliftInvAlways, PTL DEF Spec, Promise, Contract!Spec
=============================================================================
